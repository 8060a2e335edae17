------------------------------ MODULE DeclSpec ------------------------------
(***************************************************************************)
(* The specifiers of one declaration, type/declarationSpecifier.h, in the  *)
(* two passes of handle_decl: first every word (storage classes,           *)
(* qualifiers, type specifiers and modifiers) in the order written, then   *)
(* every boxed type (a struct, union, enum or typedef name), then the type *)
(* the declarators start from.  An error adds a message and the walk goes  *)
(* on; only a type specifier beside a boxed type halts it.                 *)
(***************************************************************************)
EXTENDS Integers, FiniteSets, Functions

CONSTANTS
    Boxed,     \* the types named by a tag or a typedef name
    NoType,    \* no boxed type yet
    MaxWords,  \* bound: words in one declaration
    MaxBoxed   \* bound: boxed types in one declaration

ASSUME BoxedAssumption == NoType \notin Boxed
ASSUME BoundsAssumption == MaxWords \in Nat /\ MaxBoxed \in Nat

VARIABLES
    phase,     \* "attributes", "types", "built" or "halted"
    attrs,     \* the bits of DeclarationSpecifiers::attrs
    type,      \* DeclarationSpecifiers::type
    errors,    \* the error messages so far
    currScope, \* handle_decl's curr_scope, FALSE until it is computed
    result,    \* what into_type_builder returned
    words,     \* history: how often each word was written
    boxed,     \* history: how many boxed types were written
    storage    \* history: the first storage class written, or "none"

vars == <<phase, attrs, type, errors, currScope, result, words, boxed, storage>>

Storage == {"typedef", "extern", "static", "auto", "register"}
Qualifiers == {"const", "volatile"}
Specifiers == {"void", "char", "int", "float", "double"}
Modifiers == {"short", "long", "long long", "signed", "unsigned"}

\* The words of the attribute table; "long long" is a bit but not a word.
Words == (Storage \cup Qualifiers \cup Specifiers \cup Modifiers) \ {"long long"}
Attrs == Words \cup {"long long"}

Messages == {"multiple storage specifiers", "multiple type specifiers",
             "modifiers on boxed types", "long long long", "long short",
             "signed unsigned", "invalid type specifier"}

Built == [kind : {"int", "float", "void"}, bits : Nat, signed : BOOLEAN,
          const : BOOLEAN, volatile : BOOLEAN]
BoxedBuilt == [boxed : Boxed, const : BOOLEAN, volatile : BOOLEAN]
NotBuilt == [kind |-> "none"]

\* The bits, the type and the history are well formed.
TypeOK ==
    /\ phase \in {"attributes", "types", "built", "halted"}
    /\ attrs \in SUBSET Attrs
    /\ type \in Boxed \cup {NoType}
    /\ errors \in SUBSET Messages
    /\ currScope \in BOOLEAN
    /\ result \in Built \cup BoxedBuilt \cup {NotBuilt}
    /\ words \in [Words -> Nat]
    /\ boxed \in Nat
    /\ storage \in Storage \cup {"none"}
-----------------------------------------------------------------------------
Has(s) == attrs \cap s # {}

\* add_attribute returns without adding the word.
Refused(w) ==
    \/ w \in Storage /\ Has(Storage)
    \/ w \in Specifiers /\ (Has(Specifiers) \/ type # NoType)
    \/ w \in Modifiers /\ type # NoType
    \/ w = "long" /\ "long long" \in attrs

\* The message of a refusal; repeating the same storage class only warns.
Refusal(w) ==
    IF w \in Storage
    THEN IF attrs \cap Storage = {w} THEN {} ELSE {"multiple storage specifiers"}
    ELSE IF w \in Specifiers THEN {"multiple type specifiers"}
    ELSE IF type # NoType THEN {"modifiers on boxed types"}
    ELSE {"long long long"}

\* [fault] The long before a second long stays set.
WithKeepingLong(w) == IF w = "long" /\ "long" \in attrs
                      THEN attrs \cup {"long long"}
                      ELSE attrs \cup {w}

\* The bits with the word added; a second long replaces the first.
With(w) == IF w = "long" /\ "long" \in attrs
           THEN (attrs \ {"long"}) \cup {"long long"}
           ELSE attrs \cup {w}

LongShort(a) == a \cap {"long", "long long"} # {} /\ "short" \in a
SignedUnsigned(a) == {"signed", "unsigned"} \subseteq a

\* The bits add_attribute clears again when they contradict others.
Contradicted(a) == (IF LongShort(a) THEN {"short"} ELSE {})
                       \cup (IF SignedUnsigned(a) THEN {"unsigned"} ELSE {})
Contradictions(a) == (IF LongShort(a) THEN {"long short"} ELSE {})
                         \cup (IF SignedUnsigned(a) THEN {"signed unsigned"} ELSE {})


Written(w) ==
    /\ words' = [words EXCEPT ![w] = @ + 1]
    /\ storage' = IF w \in Storage /\ storage = "none" THEN w ELSE storage

AddAttribute(w) ==
    /\ phase = "attributes"
    /\ FoldFunction(LAMBDA m, n : m + n, 0, words) < MaxWords
    /\ IF Refused(w)
       THEN /\ errors' = errors \cup Refusal(w)
            /\ UNCHANGED attrs
       ELSE /\ attrs' = With(w) \ Contradicted(With(w))
            /\ errors' = errors \cup Contradictions(With(w))
    /\ Written(w)
    /\ UNCHANGED <<phase, type, currScope, result, boxed>>

\* Between the passes: tags are looked up in the current scope only when the
\* declaration has no storage class and declares nothing.
CollectTypes(has_def) ==
    /\ phase = "attributes"
    /\ phase' = "types"
    /\ currScope' = (~Has(Storage) /\ ~has_def)
    /\ UNCHANGED <<attrs, type, errors, result, words, boxed, storage>>

AddType(t) ==
    /\ phase = "types"
    /\ boxed < MaxBoxed
    /\ boxed' = boxed + 1
    /\ IF Has(Modifiers)
       THEN errors' = errors \cup {"modifiers on boxed types"} /\ UNCHANGED <<phase, type>>
       ELSE IF type = NoType /\ ~Has(Specifiers)
       THEN type' = t /\ UNCHANGED <<phase, errors>>
       ELSE /\ errors' = errors \cup {"multiple type specifiers"}
            /\ phase' = "halted"
            /\ UNCHANGED type
    /\ UNCHANGED <<attrs, currScope, result, words, storage>>
-----------------------------------------------------------------------------
BaseKind == IF "void" \in attrs THEN "void"
            ELSE IF Has({"float", "double"}) THEN "float" ELSE "int"

BaseBits == IF "double" \in attrs THEN 64 ELSE IF "char" \in attrs THEN 8 ELSE 32

\* The modifiers a specifier goes with.
Allowed == IF "double" \in attrs THEN {"long"}
           ELSE IF Has({"void", "float"}) THEN {}
           ELSE IF "char" \in attrs THEN {"signed", "unsigned"}
           ELSE Modifiers

\* short halves the size, long and long long double it, whatever the base.
Shifted(bits) ==
    LET halved == IF "short" \in attrs THEN bits \div 2 ELSE bits
        long == IF "long" \in attrs THEN halved * 2 ELSE halved
    IN  IF "long long" \in attrs THEN long * 2 ELSE long

Plain == [kind |-> BaseKind, bits |-> Shifted(BaseBits),
          signed |-> BaseKind = "int" /\ "unsigned" \notin attrs,
          const |-> "const" \in attrs, volatile |-> "volatile" \in attrs]

\* [fault] A modifier on float or double is not looked at.
IntoUncheckedFloat ==
    /\ phase = "types" /\ phase' = "built"
    /\ IF type = NoType
       THEN /\ result' = Plain
            /\ errors' = errors \cup (IF attrs \cap (Modifiers \ Allowed) # {} /\ BaseKind # "float"
                                      THEN {"invalid type specifier"} ELSE {})
       ELSE /\ result' = [boxed |-> type, const |-> "const" \in attrs,
                          volatile |-> "volatile" \in attrs]
            /\ UNCHANGED errors
    /\ UNCHANGED <<attrs, type, currScope, words, boxed, storage>>

IntoTypeBuilder ==
    /\ phase = "types"
    /\ phase' = "built"
    /\ IF type = NoType
       THEN /\ result' = Plain
            /\ errors' = errors \cup (IF attrs \cap (Modifiers \ Allowed) # {}
                                      THEN {"invalid type specifier"} ELSE {})
       ELSE /\ result' = [boxed |-> type, const |-> "const" \in attrs,
                          volatile |-> "volatile" \in attrs]
            /\ UNCHANGED errors
    /\ UNCHANGED <<attrs, type, currScope, words, boxed, storage>>

Init ==
    /\ phase = "attributes" /\ attrs = {} /\ type = NoType /\ errors = {}
    /\ currScope = FALSE /\ result = NotBuilt
    /\ words = [w \in Words |-> 0] /\ boxed = 0 /\ storage = "none"

Next ==
    \/ \E w \in Words : AddAttribute(w)
    \/ \E has_def \in BOOLEAN : CollectTypes(has_def)
    \/ \E t \in Boxed : AddType(t)
    \/ IntoTypeBuilder

Spec == Init /\ [][Next]_vars
-----------------------------------------------------------------------------
\* What the words say, whatever their order; only the number of longs counts.
Said ==
    {w \in Words \ {"long"} : words[w] > 0}
        \cup (IF words["long"] = 1 THEN {"long"} ELSE {})
        \cup (IF words["long"] >= 2 THEN {"long long"} ELSE {})

\* C's table of types by their specifiers and modifiers (C99 6.7.2): how many
\* bits an int-like type has, and which sets of words name which type.
Optionally(s, w) == {s, s \cup {w}}
SignedForms(s) == UNION {Optionally(f, "int") : f \in Optionally(s, "signed")}
UnsignedForms(s) == Optionally(s \cup {"unsigned"}, "int")
CSpecifiers(kind, bits, signed) ==
    CASE kind = "void" -> {{"void"}}
      [] kind = "float" /\ bits = 32 -> {{"float"}}
      [] kind = "float" /\ bits = 64 -> {{"double"}}
      [] kind = "float" /\ bits = 128 -> {{"long", "double"}}
      [] kind = "int" /\ bits = 8 /\ signed -> {{"char"}, {"signed", "char"}}
      [] kind = "int" /\ bits = 8 /\ ~signed -> {{"unsigned", "char"}}
      [] kind = "int" /\ bits = 16 /\ signed -> SignedForms({"short"})
      [] kind = "int" /\ bits = 16 /\ ~signed -> UnsignedForms({"short"})
      [] kind = "int" /\ bits = 32 /\ signed -> SignedForms({})
      [] kind = "int" /\ bits = 32 /\ ~signed -> UnsignedForms({})
      [] kind = "int" /\ bits = 64 /\ signed ->
            SignedForms({"long"}) \cup SignedForms({"long long"})
      [] kind = "int" /\ bits = 64 /\ ~signed ->
            UnsignedForms({"long"}) \cup UnsignedForms({"long long"})
      [] OTHER -> {}

TypeWords == Said \cap (Specifiers \cup Modifiers)

\* The specifiers say one type of C's table, or one boxed type alone.
SaysCType ==
    \/ boxed = 1 /\ TypeWords = {}
    \/ /\ boxed = 0
       /\ \E k \in {"int", "float", "void"}, b \in {8, 16, 32, 64, 128}, s \in BOOLEAN :
            TypeWords \in CSpecifiers(k, b, s)

\* C accepts the declaration's specifiers; repeated qualifiers, storage
\* classes and modifiers only get a warning, as the tests in tests/warnings say.
WellFormed ==
    /\ Cardinality(Said \cap Storage) <= 1
    /\ \A w \in Specifiers : words[w] <= 1
    /\ words["long"] <= 2
    /\ SaysCType

(***************************************************************************)
(* Without an error the bits are what the words say as a multiset: the     *)
(* order in which the specifiers are written does not matter               *)
(* (add_attribute looks at the bits of the words before it).               *)
(***************************************************************************)
OrderIrrelevant == errors = {} => attrs = Said

(***************************************************************************)
(* Over both passes and into_type_builder, exactly the declarations C      *)
(* accepts get through without an error, and what is built is the type C's *)
(* table gives their words.                                                *)
(***************************************************************************)
AcceptedTypesAreC ==
    phase \in {"built", "halted"} =>
        /\ errors = {} <=> WellFormed
        /\ errors = {} /\ boxed = 0 =>
              TypeWords \in CSpecifiers(result.kind, result.bits, result.signed)
        /\ errors = {} /\ boxed = 1 => result.boxed = type

(***************************************************************************)
(* The storage class the declaration handler sees is the first one         *)
(* written, also after an error (initializer.cc chooses linkage and object *)
(* by it).                                                                 *)
(***************************************************************************)
StorageIsTheFirst == attrs \cap Storage = {storage} \ {"none"}

(***************************************************************************)
(* Also after an error the type built has a size the other handlers and    *)
(* the type printer know (they stop with an internal error otherwise),     *)
(* except that short and char together make a 4 bit integer.               *)
(***************************************************************************)
RecoveredTypesAreKnown ==
    phase = "built" /\ result \in Built =>
        \/ result.kind = "int" /\ result.bits \in {8, 16, 32, 64}
        \/ result.kind = "float" /\ result.bits \in {16, 32, 64, 128}
        \/ result.kind = "void"
        \/ {"char", "short"} \subseteq attrs
=============================================================================
