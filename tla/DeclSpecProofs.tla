--------------------------- MODULE DeclSpecProofs ---------------------------
(***************************************************************************)
(* The specifiers of a declaration of any length and with any number of    *)
(* boxed types.                                                            *)
(***************************************************************************)
EXTENDS DeclSpec, FiniteSetTheorems, TLAPS

\* add_attribute lets at most one specifier in, and clears the bits that
\* contradict each other.
OneSpecifier == \A v, w \in Specifiers \cap attrs : v = w
ModifiersAgree == ~LongShort(attrs) /\ ~({"long", "long long"} \subseteq attrs)

IInv == /\ TypeOK /\ OneSpecifier /\ ModifiersAgree
        /\ OrderIrrelevant /\ StorageIsTheFirst /\ RecoveredTypesAreKnown

\* The kinds of words do not overlap.
LEMMA KindsApart ==
    /\ Words \subseteq Attrs /\ "long long" \notin Words
    /\ Storage \subseteq Words /\ Specifiers \subseteq Words
    /\ Storage \cap Modifiers = {} /\ Storage \cap Specifiers = {}
    /\ Specifiers \cap Modifiers = {}
    /\ "long" \in Words /\ "long" \in Modifiers /\ "long long" \in Modifiers
    /\ "short" \in Modifiers /\ "unsigned" \in Modifiers
    /\ "none" \notin Storage
  BY DEF Words, Attrs, Storage, Qualifiers, Specifiers, Modifiers

LEMMA MessagesOfWords ==
    ASSUME NEW w \in Words, NEW a
    PROVE  Refusal(w) \subseteq Messages /\ Contradictions(a) \subseteq Messages
  BY DEF Refusal, Contradictions, Messages

\* Only short and unsigned are ever cleared again.
LEMMA Cleared == \A a : Contradicted(a) \subseteq {"short", "unsigned"}
  BY DEF Contradicted

\* A word that contradicts nothing clears nothing.
LEMMA NoContradiction ==
    ASSUME NEW a, Contradictions(a) = {}
    PROVE  Contradicted(a) = {}
  BY DEF Contradictions, Contradicted

\* A refusal without a message repeats the storage class that is set.
LEMMA SilentRefusal ==
    ASSUME NEW w \in Words, Refusal(w) = {}
    PROVE  w \in Storage /\ attrs \cap Storage = {w}
  BY DEF Refusal

\* What add_attribute does to the bits and the history.
LEMMA Added ==
    ASSUME NEW w \in Words, AddAttribute(w)
    PROVE  /\ phase = "attributes"
           /\ words' = [words EXCEPT ![w] = @ + 1]
           /\ storage' = IF w \in Storage /\ storage = "none" THEN w ELSE storage
           /\ Refused(w) => errors' = errors \cup Refusal(w) /\ attrs' = attrs
           /\ ~Refused(w) => /\ attrs' = With(w) \ Contradicted(With(w))
                             /\ errors' = errors \cup Contradictions(With(w))
           /\ UNCHANGED <<phase, type, currScope, result, boxed>>
  BY DEF AddAttribute, Written

\* short halves, long and long long double.
LEMMA Shifts ==
    ASSUME ModifiersAgree, NEW bits
    PROVE  \/ "short" \notin attrs /\ Shifted(bits) = bits
           \/ "short" \in attrs /\ Shifted(bits) = bits \div 2
           \/ "short" \notin attrs /\ Shifted(bits) = bits * 2
  <1>1. /\ ~("short" \in attrs /\ "long" \in attrs)
        /\ ~("short" \in attrs /\ "long long" \in attrs)
        /\ ~("long" \in attrs /\ "long long" \in attrs)
    BY DEF ModifiersAgree, LongShort
  <1>2. CASE "short" \in attrs
    <2>1. "long" \notin attrs /\ "long long" \notin attrs
      BY <1>1, <1>2
    <2> QED  BY <1>2, <2>1, Zenon DEF Shifted
  <1>3. CASE "long" \in attrs
    <2>1. "short" \notin attrs /\ "long long" \notin attrs
      BY <1>1, <1>3
    <2> QED  BY <1>3, <2>1, Zenon DEF Shifted
  <1>4. CASE "long long" \in attrs
    <2>1. "short" \notin attrs /\ "long" \notin attrs
      BY <1>1, <1>4
    <2> QED  BY <1>4, <2>1, Zenon DEF Shifted
  <1>5. CASE "short" \notin attrs /\ "long" \notin attrs /\ "long long" \notin attrs
    BY <1>5, Zenon DEF Shifted
  <1> QED  BY <1>2, <1>3, <1>4, <1>5

\* Every size is one the generator knows, or short char's.
LEMMA Sizes ==
    ASSUME ModifiersAgree
    PROVE  /\ Shifted(8) \in {8, 16} \/ (Shifted(8) = 4 /\ "short" \in attrs)
           /\ Shifted(32) \in {16, 32, 64} /\ Shifted(64) \in {32, 64, 128}
  <1>1. 8 \div 2 = 4 /\ 32 \div 2 = 16 /\ 64 \div 2 = 32
    OBVIOUS
  <1>2. 8 * 2 = 16 /\ 32 * 2 = 64 /\ 64 * 2 = 128
    OBVIOUS
  <1>3. Shifted(8) \in {8, 16} \/ (Shifted(8) = 4 /\ "short" \in attrs)
    BY <1>1, <1>2, Shifts
  <1>4. Shifted(32) \in {16, 32, 64}
    BY <1>1, <1>2, Shifts
  <1>5. Shifted(64) \in {32, 64, 128}
    BY <1>1, <1>2, Shifts
  <1> QED  BY <1>3, <1>4, <1>5

LEMMA SizesOfBits ==
    ASSUME ModifiersAgree
    PROVE  BaseBits \in {8, 32, 64} /\ Shifted(BaseBits) \in Nat
  <1>1. BaseBits \in {8, 32, 64}
    BY DEF BaseBits
  <1> QED  BY <1>1, Sizes

LEMMA TypeStep ==
    ASSUME TypeOK, ModifiersAgree, [Next]_vars
    PROVE  TypeOK'
  <1>1. ASSUME NEW w \in Words, AddAttribute(w)  PROVE TypeOK'
    <2>1. attrs \in SUBSET Attrs /\ errors \in SUBSET Messages /\ words \in [Words -> Nat]
      BY DEF TypeOK
    <2>2. attrs' \in SUBSET Attrs
      <3>1. With(w) \subseteq Attrs
        BY <2>1, KindsApart DEF With, Attrs
      <3>2. attrs' \subseteq attrs \/ attrs' \subseteq With(w)
        BY <1>1, Added
      <3> QED  BY <2>1, <3>1, <3>2
    <2>3. errors' \in SUBSET Messages
      BY <1>1, <2>1, Added, MessagesOfWords
    <2>4. words' \in [Words -> Nat]
      BY <1>1, <2>1, Added
    <2>5. storage' \in Storage \cup {"none"}
      BY <1>1, Added DEF TypeOK
    <2> QED  BY <1>1, <2>2, <2>3, <2>4, <2>5, Added DEF TypeOK
  <1>2. ASSUME NEW has_def \in BOOLEAN, CollectTypes(has_def)  PROVE TypeOK'
    BY <1>2 DEF CollectTypes, TypeOK
  <1>3. ASSUME NEW t \in Boxed, AddType(t)  PROVE TypeOK'
    <2>1. errors' \in SUBSET Messages
      BY <1>3 DEF AddType, TypeOK, Messages
    <2>2. /\ type' \in Boxed \cup {NoType}
          /\ phase' \in {"attributes", "types", "built", "halted"}
      BY <1>3 DEF AddType, TypeOK
    <2>4. boxed' \in Nat
      <3>1. boxed' = boxed + 1
        BY <1>3 DEF AddType
      <3>2. boxed \in Nat
        BY DEF TypeOK
      <3> QED  BY <3>1, <3>2
    <2>3. UNCHANGED <<attrs, currScope, result, words, storage>>
      BY <1>3 DEF AddType
    <2> QED  BY <2>1, <2>2, <2>3, <2>4 DEF TypeOK
  <1>4. ASSUME IntoTypeBuilder  PROVE TypeOK'
    <2>1. errors' \in SUBSET Messages
      BY <1>4 DEF IntoTypeBuilder, TypeOK, Messages
    <2>2. CASE type = NoType
      <3>1. Shifted(BaseBits) \in Nat
        BY SizesOfBits
      <3>2. Plain \in Built
        BY <3>1 DEF Plain, Built, BaseKind
      <3> QED  BY <1>4, <2>1, <2>2, <3>2 DEF IntoTypeBuilder, TypeOK
    <2>3. CASE type # NoType
      <3>1. type \in Boxed
        BY <2>3 DEF TypeOK
      <3>2. result' = [boxed |-> type, const |-> "const" \in attrs,
                       volatile |-> "volatile" \in attrs]
        BY <1>4, <2>3 DEF IntoTypeBuilder
      <3>4. \A c, v \in BOOLEAN : [boxed |-> type, const |-> c, volatile |-> v] \in BoxedBuilt
        BY <3>1 DEF BoxedBuilt
      <3>5. ("const" \in attrs) \in BOOLEAN /\ ("volatile" \in attrs) \in BOOLEAN
        OBVIOUS
      <3>3. result' \in BoxedBuilt
        BY <3>2, <3>4, <3>5, Zenon
      <3> QED  BY <1>4, <2>1, <3>3 DEF IntoTypeBuilder, TypeOK
    <2> QED  BY <2>2, <2>3
  <1>5. ASSUME UNCHANGED vars  PROVE TypeOK'
    BY <1>5 DEF vars, TypeOK
  <1> QED  BY <1>1, <1>2, <1>3, <1>4, <1>5 DEF Next

\* What add_attribute keeps, apart from the type.
LEMMA AttributeStep ==
    ASSUME IInv, NEW w \in Words, AddAttribute(w)
    PROVE  OneSpecifier' /\ ModifiersAgree' /\ OrderIrrelevant' /\ StorageIsTheFirst'
  <1> USE DEF IInv, TypeOK
  <1>1. CASE Refused(w)
    <2>1. attrs' = attrs /\ errors' = errors \cup Refusal(w)
      BY <1>1, Added
    <2>2. OneSpecifier' /\ ModifiersAgree'
      BY <2>1 DEF OneSpecifier, ModifiersAgree, LongShort
    <2>3. OrderIrrelevant'
      <3> SUFFICES ASSUME errors' = {}  PROVE attrs' = Said'
        BY DEF OrderIrrelevant
      <3>1. w \in Storage /\ attrs \cap Storage = {w} /\ attrs = Said
        BY <2>1, SilentRefusal DEF OrderIrrelevant
      <3>2. words[w] > 0 /\ w # "long"
        BY <3>1, KindsApart DEF Said
      <3>3. words' = [words EXCEPT ![w] = @ + 1]
        BY Added
      <3>4. \A v \in Words : words'[v] > 0 <=> words[v] > 0
        BY <3>2, <3>3
      <3>5. Said' = Said
        BY <3>2, <3>3, <3>4, KindsApart DEF Said
      <3> QED  BY <2>1, <3>1, <3>5
    <2>4. StorageIsTheFirst'
      <3>1. storage = "none" => w \notin Storage
        BY <1>1, KindsApart DEF StorageIsTheFirst, Refused, Has
      <3> QED  BY <2>1, <3>1, Added DEF StorageIsTheFirst
    <2> QED  BY <2>2, <2>3, <2>4
  <1>2. CASE ~Refused(w)
    <2>1. /\ attrs' = With(w) \ Contradicted(With(w))
          /\ errors' = errors \cup Contradictions(With(w))
      BY <1>2, Added
    <2>2. OneSpecifier'
      <3>1. w \in Specifiers => attrs \cap Specifiers = {}
        BY <1>2 DEF Refused, Has
      <3>2. With(w) \cap Specifiers \subseteq (attrs \cup {w}) \cap Specifiers
        BY KindsApart DEF With
      <3> QED  BY <2>1, <3>1, <3>2 DEF OneSpecifier
    <2>3. ModifiersAgree'
      <3>1. ~({"long", "long long"} \subseteq With(w))
        BY <1>2, KindsApart DEF With, ModifiersAgree, Refused
      <3>2. ~LongShort(With(w) \ Contradicted(With(w)))
        BY DEF LongShort, Contradicted
      <3> QED  BY <2>1, <3>1, <3>2 DEF ModifiersAgree
    <2>4. OrderIrrelevant'
      <3> SUFFICES ASSUME errors' = {}  PROVE attrs' = Said'
        BY DEF OrderIrrelevant
      <3>1. attrs = Said /\ attrs' = With(w)
        BY <2>1, NoContradiction DEF OrderIrrelevant
      <3>2. words' = [words EXCEPT ![w] = @ + 1]
        BY Added
      <3>3. \A v \in Words : words[v] \in Nat
        OBVIOUS
      <3>4. CASE w = "long"
        <4>1. "long long" \notin Said
          BY <1>2, <3>1, <3>4 DEF Refused
        <4>2. words["long"] \in {0, 1}
          <5>1. words["long"] \in Nat /\ ~(words["long"] >= 2)
            BY <3>3, <4>1, KindsApart DEF Said
          <5> QED  BY <5>1
        <4>3. \A v \in Words \ {"long"} : words'[v] = words[v]
          BY <3>2, <3>4
        <4>4. words'["long"] = words["long"] + 1
          BY <3>2, <3>4
        <4> DEFINE others == {v \in Words \ {"long"} : words[v] > 0}
        <4>5. others = {v \in Words \ {"long"} : words'[v] > 0} /\ "long" \notin others
          BY <4>3
        <4> HIDE DEF others
        <4>6. CASE words["long"] = 0
          <5>1. Said = others /\ Said' = others \cup {"long"}
            BY <4>4, <4>5, <4>6 DEF Said, others
          <5> QED  BY <3>1, <3>4, <4>5, <5>1 DEF With
        <4>7. CASE words["long"] = 1
          <5>3. words'["long"] = 2
            BY <4>4, <4>7
          <5>4. Said' = others \cup {} \cup {"long long"}
            BY <4>5, <5>3 DEF Said
          <5>1. Said = others \cup {"long"} /\ Said' = others \cup {"long long"}
            <6>1. words["long"] = 1 /\ ~(words["long"] >= 2)
              BY <4>7
            <6>2. Said = others \cup {"long"} \cup {}
              BY <6>1 DEF Said, others
            <6> QED  BY <5>4, <6>2
          <5>2. With(w) = (Said \ {"long"}) \cup {"long long"}
            BY <3>1, <3>4, <5>1 DEF With
          <5> QED  BY <3>1, <4>5, <5>1, <5>2
        <4> QED  BY <4>2, <4>6, <4>7
      <3>5. CASE w # "long"
        <4>1. /\ \A v \in Words \ {w} : words'[v] = words[v]
              /\ words'[w] > 0 /\ words'["long"] = words["long"]
          <5>1. words'[w] = words[w] + 1 /\ words[w] \in Nat
            BY <3>2, <3>3
          <5>2. words'[w] > 0
            BY <5>1
          <5>3. \A v \in Words \ {w} : words'[v] = words[v]
            BY <3>2
          <5> QED  BY <3>5, <5>2, <5>3, KindsApart
        <4>2. Said' = Said \cup {w}
          BY <3>5, <4>1 DEF Said
        <4> QED  BY <3>1, <3>5, <4>2 DEF With
      <3> QED  BY <3>4, <3>5
    <2>5. StorageIsTheFirst'
      <3>1. With(w) \cap Storage = (attrs \cup {w}) \cap Storage
        BY KindsApart DEF With
      <3>2. attrs' \cap Storage = (attrs \cup {w}) \cap Storage
        BY <2>1, <3>1, Cleared, KindsApart
      <3>3. w \in Storage => attrs \cap Storage = {} /\ storage = "none"
        BY <1>2 DEF Refused, Has, StorageIsTheFirst
      <3> QED  BY <3>2, <3>3, KindsApart, Added DEF StorageIsTheFirst
    <2> QED  BY <2>2, <2>3, <2>4, <2>5
  <1> QED  BY <1>1, <1>2

\* The size of what is built.
LEMMA KnownSizes ==
    ASSUME OneSpecifier, ModifiersAgree
    PROVE  \/ BaseKind = "int" /\ Shifted(BaseBits) \in {8, 16, 32, 64}
           \/ BaseKind = "float" /\ Shifted(BaseBits) \in {16, 32, 64, 128}
           \/ BaseKind = "void"
           \/ {"char", "short"} \subseteq attrs
  <1>2. /\ BaseBits \in {8, 32, 64}
        /\ BaseBits = 8 => "char" \in attrs
        /\ BaseBits = 64 => "double" \in attrs
    BY DEF BaseBits
  <1>3. BaseBits = 64 => BaseKind \in {"float", "void"}
    BY <1>2 DEF BaseKind, Has
  <1>4. BaseBits = 8 => BaseKind = "int"
    BY <1>2 DEF BaseKind, Has, OneSpecifier, Specifiers
  <1>5. BaseKind \in {"int", "float", "void"}
    BY DEF BaseKind
  <1> QED  BY <1>2, <1>3, <1>4, <1>5, Sizes

LEMMA Step ==
    ASSUME IInv, [Next]_vars
    PROVE  IInv'
  <1>1. TypeOK'
    BY TypeStep DEF IInv
  <1>2. ASSUME NEW w \in Words, AddAttribute(w)  PROVE IInv'
    <2>1. RecoveredTypesAreKnown'
      BY <1>2, Added DEF RecoveredTypesAreKnown
    <2> QED  BY <1>1, <1>2, <2>1, AttributeStep DEF IInv
  <1>3. ASSUME UNCHANGED <<attrs, words, storage>>, errors \subseteq errors'
        PROVE  OneSpecifier' /\ ModifiersAgree' /\ OrderIrrelevant' /\ StorageIsTheFirst'
    <2>1. Said' = Said  BY <1>3 DEF Said
    <2> QED  BY <1>3, <2>1 DEF IInv, OneSpecifier, ModifiersAgree, LongShort,
                               OrderIrrelevant, StorageIsTheFirst
  <1>4. ASSUME NEW has_def \in BOOLEAN, CollectTypes(has_def)  PROVE IInv'
    BY <1>1, <1>3, <1>4 DEF CollectTypes, RecoveredTypesAreKnown, IInv
  <1>5. ASSUME NEW t \in Boxed, AddType(t)  PROVE IInv'
    <2>1. errors \subseteq errors' /\ phase' # "built"
      BY <1>5 DEF AddType
    <2> QED  BY <1>1, <1>3, <1>5, <2>1 DEF AddType, RecoveredTypesAreKnown, IInv
  <1>6. ASSUME IntoTypeBuilder  PROVE IInv'
    <2>1. UNCHANGED <<attrs, words, storage>> /\ errors \subseteq errors'
      BY <1>6 DEF IntoTypeBuilder
    <2>2. RecoveredTypesAreKnown'
      <3>1. CASE type = NoType
        <4>1. result' = Plain /\ attrs' = attrs
          BY <1>6, <3>1 DEF IntoTypeBuilder
        <4>2. result'.kind = BaseKind /\ result'.bits = Shifted(BaseBits)
          BY <4>1 DEF Plain
        <4> HIDE DEF BaseKind
        <4> QED  BY <4>1, <4>2, KnownSizes DEF RecoveredTypesAreKnown, IInv
      <3>2. CASE type # NoType
        <4>1. DOMAIN result' = {"boxed", "const", "volatile"}
          BY <1>6, <3>2 DEF IntoTypeBuilder
        <4>2. \A r \in Built : "kind" \in DOMAIN r
          BY DEF Built
        <4>3. result' \notin Built
          BY <4>1, <4>2
        <4> QED  BY <4>3 DEF RecoveredTypesAreKnown, Built
      <3> QED  BY <3>1, <3>2
    <2> QED  BY <1>1, <1>3, <2>1, <2>2 DEF IInv
  <1>7. ASSUME UNCHANGED vars  PROVE IInv'
    BY <1>1, <1>3, <1>7 DEF vars, RecoveredTypesAreKnown, IInv
  <1> QED  BY <1>2, <1>4, <1>5, <1>6, <1>7 DEF Next

LEMMA Start == Init => IInv
  <1> SUFFICES ASSUME Init  PROVE IInv
    OBVIOUS
  <1> USE DEF Init
  <1>1. TypeOK
    BY DEF TypeOK
  <1>2. Said = {}
    <2>1. \A w \in Words : words[w] = 0
      OBVIOUS
    <2>2. {w \in Words \ {"long"} : words[w] > 0} = {}
      BY <2>1
    <2>3. words["long"] = 0
      BY <2>1, KindsApart
    <2>4. words["long"] # 1 /\ ~(words["long"] >= 2)
      BY <2>3
    <2> QED  BY <2>2, <2>4, Zenon DEF Said
  <1> QED  BY <1>1, <1>2 DEF IInv, OneSpecifier, ModifiersAgree, LongShort,
                             OrderIrrelevant, StorageIsTheFirst, RecoveredTypesAreKnown

(***************************************************************************)
(* The invariant: the bits of a declaration's specifiers hold at most one  *)
(* type specifier and no contradicting modifiers, and say what was written.*)
(***************************************************************************)
THEOREM Invariance == Spec => []IInv
  <1>1. Init => IInv  BY Start
  <1>2. IInv /\ [Next]_vars => IInv'  BY Step
  <1> QED  BY <1>1, <1>2, PTL DEF Spec

(***************************************************************************)
(* However many specifiers are written, every state the two passes of      *)
(* handle_decl go through is one the handlers after them know.             *)
(***************************************************************************)
THEOREM TypeCorrect == Spec => []TypeOK
  <1>1. IInv => TypeOK  BY DEF IInv
  <1> QED  BY <1>1, Invariance, PTL

(***************************************************************************)
(* Without an error the bits depend on which words were written and how    *)
(* often, never on their order.                                            *)
(***************************************************************************)
THEOREM OrderDoesNotMatter == Spec => []OrderIrrelevant
  <1>1. IInv => OrderIrrelevant  BY DEF IInv
  <1> QED  BY <1>1, Invariance, PTL

(***************************************************************************)
(* The storage class a declaration is given is the first one written, with *)
(* and without errors.                                                     *)
(***************************************************************************)
THEOREM FirstStorage == Spec => []StorageIsTheFirst
  <1>1. IInv => StorageIsTheFirst  BY DEF IInv
  <1> QED  BY <1>1, Invariance, PTL

(***************************************************************************)
(* Recovering from any errors, the specifiers give a type of a size the    *)
(* generator knows, or short char's.                                       *)
(***************************************************************************)
THEOREM KnownTypes == Spec => []RecoveredTypesAreKnown
  <1>1. IInv => RecoveredTypesAreKnown  BY DEF IInv
  <1> QED  BY <1>1, Invariance, PTL

----------------------------------------------------------------------------
(* What is accepted *)

\* The words contradict each other neither by themselves nor, Fit says, beside
\* the boxed types.
WordsFit ==
    /\ \A v, w \in Storage : words[v] > 0 /\ words[w] > 0 => v = w
    /\ \A v, w \in Specifiers : words[v] > 0 /\ words[w] > 0 => v = w
    /\ \A w \in Specifiers : words[w] <= 1
    /\ words["long"] <= 2
    /\ ~(words["short"] > 0 /\ words["long"] > 0)
    /\ ~(words["signed"] > 0 /\ words["unsigned"] > 0)
Fit == WordsFit /\ boxed <= 1 /\ (boxed = 1 => TypeWords = {})

\* Before a type is built an error has been reported just when they do.
Judged ==
    /\ phase = "attributes" => boxed = 0
    /\ boxed = 0 => type = NoType
    /\ phase \in {"attributes", "types"} => (errors = {} <=> Fit)
    /\ phase = "types" /\ errors = {} /\ boxed = 1 => type # NoType
    /\ AcceptedTypesAreC

\* Said, word by word.
SaidIs ==
    /\ \A w \in Words \ {"long"} : w \in Said <=> words[w] > 0
    /\ "long" \in Said <=> words["long"] = 1
    /\ "long long" \in Said <=> words["long"] >= 2
    /\ Said \subseteq Attrs
    /\ \A w \in Words : words[w] \in Nat

LEMMA SaidWords == TypeOK => SaidIs
  <1> SUFFICES ASSUME TypeOK  PROVE SaidIs  OBVIOUS
  <1>1. \A w \in Words : words[w] \in Nat  BY DEF TypeOK
  <1> DEFINE others == {w \in Words \ {"long"} : words[w] > 0}
             one == IF words["long"] = 1 THEN {"long"} ELSE {}
             two == IF words["long"] >= 2 THEN {"long long"} ELSE {}
  <1>2. Said = others \cup one \cup two  BY Zenon DEF Said
  <1>3. \A w : w \in one <=> w = "long" /\ words["long"] = 1  OBVIOUS
  <1>4. \A w : w \in two <=> w = "long long" /\ words["long"] >= 2  OBVIOUS
  <1>5. \A w : w \in others <=> w \in Words \ {"long"} /\ words[w] > 0  OBVIOUS
  <1> HIDE DEF others, one, two
  <1>6. \A w : w \in Said <=> w \in others \/ w \in one \/ w \in two  BY <1>2
  <1> QED  BY <1>1, <1>3, <1>4, <1>5, <1>6, KindsApart DEF SaidIs, Attrs

\* The word added to what was said.
LEMMA SaidGrows ==
    ASSUME TypeOK, TypeOK', NEW w \in Words, words' = [words EXCEPT ![w] = @ + 1],
           attrs = Said, ~Refused(w)
    PROVE  With(w) = Said'
  <1>1. /\ words'[w] = words[w] + 1
        /\ \A v \in Words \ {w} : words'[v] = words[v]
    BY DEF TypeOK
  <1>2. /\ \A v \in Words \ {"long"} : v \in Said' <=> words'[v] > 0
        /\ "long" \in Said' <=> words'["long"] = 1
        /\ "long long" \in Said' <=> words'["long"] >= 2
        /\ Said' \subseteq Attrs
    <2>1. SaidIs'  BY SaidWords, PTL
    <2> QED  BY <2>1 DEF SaidIs, Attrs
  <1>2a. SaidIs  BY SaidWords
  <1>3. CASE w = "long"
    <2>1. words["long"] \in {0, 1}
      <3>1. words["long"] \in Nat /\ ~(words["long"] >= 2)
        BY <1>3, <1>2a, KindsApart DEF SaidIs, Refused
      <3> QED  BY <3>1
    <2>2. words'["long"] = words["long"] + 1  BY <1>1, <1>3
    <2>3. \A v \in Words \ {"long"} : v \in Said' <=> v \in Said
      <3>1. \A v \in Words \ {"long"} : words'[v] = words[v]
        BY <1>1, <1>3
      <3> QED  BY <1>2, <1>2a, <3>1 DEF SaidIs
    <2>4. CASE words["long"] = 0
      <3>1. "long" \notin Said /\ "long long" \notin Said
        <4>1. words["long"] # 1 /\ ~(words["long"] >= 2)  BY <2>4
        <4> QED  BY <1>2a, <4>1 DEF SaidIs
      <3>2. "long" \in Said' /\ "long long" \notin Said'
        <4>1. words'["long"] = 1  BY <2>2, <2>4
        <4>2. ~(words'["long"] >= 2)  BY <4>1
        <4> QED  BY <1>2, <4>1, <4>2
      <3>3. With(w) = Said \cup {"long"}  BY <1>3, <3>1 DEF With
      <3>4. Said' = Said \cup {"long"}
        BY <1>2, <1>2a, <2>3, <3>1, <3>2 DEF SaidIs, Attrs
      <3> QED  BY <3>3, <3>4
    <2>5. CASE words["long"] = 1
      <3>1. "long" \in Said /\ "long long" \notin Said
        <4>1. ~(words["long"] >= 2)  BY <2>5
        <4> QED  BY <1>2a, <2>5, <4>1 DEF SaidIs
      <3>2. "long" \notin Said' /\ "long long" \in Said'
        <4>1. words'["long"] = 2  BY <2>2, <2>5
        <4>2. words'["long"] # 1 /\ words'["long"] >= 2  BY <4>1
        <4> QED  BY <1>2, <4>2
      <3>3. With(w) = (Said \ {"long"}) \cup {"long long"}
        BY <1>3, <3>1 DEF With
      <3>4. Said' = (Said \ {"long"}) \cup {"long long"}
        BY <1>2, <1>2a, <2>3, <3>1, <3>2, KindsApart DEF SaidIs, Attrs
      <3> QED  BY <3>3, <3>4
    <2> QED  BY <2>1, <2>4, <2>5
  <1>4. CASE w # "long"
    <2>1. With(w) = Said \cup {w}  BY <1>4 DEF With
    <2>2. words'["long"] = words["long"]  BY <1>1, <1>4, KindsApart
    <2>3. words'[w] > 0
      <3>1. words[w] \in Nat  BY DEF TypeOK
      <3> QED  BY <1>1, <3>1
    <2>4. \A v \in Words \ {"long"} : v \in Said' <=> v \in Said \cup {w}
      BY <1>1, <1>2, <2>3, <1>2a DEF SaidIs
    <2>5. /\ "long" \in Said' <=> "long" \in Said
          /\ "long long" \in Said' <=> "long long" \in Said
      BY <1>2, <2>2, <1>2a DEF SaidIs
    <2>6. Said' = Said \cup {w}
      BY <1>2, <1>4, <2>4, <2>5, <1>2a, KindsApart DEF SaidIs, Attrs
    <2> QED  BY <2>1, <2>6
  <1> QED  BY <1>3, <1>4

\* The words of a declaration only become more.
LEMMA FitsBefore ==
    ASSUME TypeOK, NEW w \in Words, words' = [words EXCEPT ![w] = @ + 1]
    PROVE  /\ WordsFit' => WordsFit
           /\ words'[w] = words[w] + 1 /\ words'[w] > 0 /\ words[w] \in Nat
           /\ \A v \in Words \ {w} : words'[v] = words[v]
           /\ \A v \in Words : words[v] > 0 => words'[v] > 0
  <1>1. /\ words'[w] = words[w] + 1 /\ words[w] \in Nat
        /\ \A v \in Words \ {w} : words'[v] = words[v]
    BY DEF TypeOK
  <1>2. \A v \in Words : words[v] \in Nat  BY DEF TypeOK
  <1>3. words'[w] > 0  BY <1>1
  <1>4. \A v \in Words : words[v] > 0 => words'[v] > 0
    BY <1>1, <1>3
  <1>5. \A v \in Words : words'[v] \in Nat /\ words[v] <= words'[v]
    BY <1>1, <1>2
  <1>6. \A v \in Words : /\ words'[v] <= 1 => words[v] <= 1
                         /\ words'[v] <= 2 => words[v] <= 2
    BY <1>2, <1>5
  <1>7. {"short", "long", "signed", "unsigned"} \subseteq Words
    BY DEF Words, Modifiers
  <1>8. WordsFit' => WordsFit
    BY <1>4, <1>6, <1>7, KindsApart DEF WordsFit
  <1> QED  BY <1>1, <1>3, <1>4, <1>8

\* A refusal with a message is of a word that does not fit.
LEMMA RefusedUnfit ==
    ASSUME TypeOK, type = NoType, attrs = Said, NEW w \in Words, Refused(w),
           words' = [words EXCEPT ![w] = @ + 1], WordsFit
    PROVE  WordsFit' <=> Refusal(w) = {}
  <1>1. SaidIs  BY SaidWords
  <1>2. CASE w \in Storage
    <2>1. PICK v \in Storage : v \in attrs  BY <1>2, KindsApart DEF Refused, Has
    <2>2. words[v] > 0  BY <1>1, <2>1, KindsApart DEF SaidIs
    <2>3. \A u \in Storage : u \in attrs => u = v
      BY <1>1, <2>1, <2>2, KindsApart DEF SaidIs, WordsFit
    <2>4. attrs \cap Storage = {v}  BY <2>1, <2>3
    <2>5. Refusal(w) = {} <=> v = w  BY <1>2, <2>4 DEF Refusal
    <2>6. CASE v = w
      <3>1. \A u \in Words : words'[u] > 0 <=> words[u] > 0
        BY <2>2, <2>6, FitsBefore
      <3>2. /\ \A u \in Specifiers : words'[u] = words[u]
            /\ words'["long"] = words["long"]
        BY <1>2, FitsBefore, KindsApart
      <3>3. {"short", "long", "signed", "unsigned"} \subseteq Words
        BY DEF Words, Modifiers
      <3>4. WordsFit'  BY <3>1, <3>2, <3>3, KindsApart DEF WordsFit
      <3> QED  BY <2>5, <2>6, <3>4
    <2>7. CASE v # w
      <3>1. words'[v] > 0 /\ words'[w] > 0  BY <2>2, FitsBefore, KindsApart
      <3> QED  BY <1>2, <2>1, <2>5, <2>7, <3>1 DEF WordsFit
    <2> QED  BY <2>6, <2>7
  <1>3. CASE w \in Specifiers
    <2>1. PICK v \in Specifiers : v \in attrs
      BY <1>3, KindsApart DEF Refused, Has
    <2>2. words[v] > 0  BY <1>1, <2>1, KindsApart DEF SaidIs
    <2>3. CASE v = w
      <3>1. words'[w] = words[w] + 1 /\ words[w] \in Nat  BY FitsBefore
      <3>2. ~(words'[w] <= 1)  BY <2>2, <2>3, <3>1
      <3> QED  BY <1>3, <3>2, KindsApart DEF WordsFit, Refusal
    <2>4. CASE v # w
      <3>1. words'[v] > 0 /\ words'[w] > 0  BY <2>2, FitsBefore, KindsApart
      <3> QED  BY <1>3, <2>1, <2>4, <3>1, KindsApart DEF WordsFit, Refusal
    <2> QED  BY <2>3, <2>4
  <1>4. CASE w \notin Storage \cup Specifiers
    <2>1. w = "long" /\ "long long" \in attrs  BY <1>4 DEF Refused
    <2>2. words["long"] >= 2  BY <1>1, <2>1 DEF SaidIs
    <2>3. words'["long"] = words["long"] + 1 /\ words["long"] \in Nat
      BY <2>1, FitsBefore
    <2>4. ~(words'["long"] <= 2)  BY <2>2, <2>3
    <2>5. Refusal(w) # {}  BY <1>4 DEF Refusal
    <2> QED  BY <2>4, <2>5 DEF WordsFit
  <1> QED  BY <1>2, <1>3, <1>4

\* A word that is let in fits unless a modifier contradicts it.
LEMMA AddedFits ==
    ASSUME TypeOK, TypeOK', attrs = Said, NEW w \in Words, ~Refused(w),
           words' = [words EXCEPT ![w] = @ + 1], WordsFit
    PROVE  WordsFit' <=> Contradictions(With(w)) = {}
  <1>1. SaidIs  BY SaidWords
  <1>2. SaidIs'  BY SaidWords, PTL
  <1>3. With(w) = Said'  BY SaidGrows
  <1>4. \A v \in Words : words'[v] \in Nat
    BY DEF TypeOK
  <1>0. /\ words'[w] = words[w] + 1 /\ words[w] \in Nat
        /\ \A v \in Words \ {w} : words'[v] = words[v]
    BY FitsBefore
  <1>5. LongShort(With(w)) <=> words'["short"] > 0 /\ words'["long"] > 0
    <2>1. words'["long"] > 0 <=> words'["long"] = 1 \/ words'["long"] >= 2
      <3>1. words'["long"] \in Nat  BY <1>4, KindsApart
      <3> QED  BY <3>1
    <2>2. "short" \in Words \ {"long"}  BY DEF Words, Modifiers
    <2> QED  BY <1>2, <1>3, <2>1, <2>2 DEF LongShort, SaidIs
  <1>6. SignedUnsigned(With(w)) <=> words'["signed"] > 0 /\ words'["unsigned"] > 0
    <2>1. {"signed", "unsigned"} \subseteq Words \ {"long"}
      BY DEF Words, Modifiers
    <2> QED  BY <1>2, <1>3, <2>1 DEF SignedUnsigned, SaidIs
  <1>7. Contradictions(With(w)) = {}
            <=> ~LongShort(With(w)) /\ ~SignedUnsigned(With(w))
    BY DEF Contradictions
  <1>8. \A u, v \in Storage : words'[u] > 0 /\ words'[v] > 0 => u = v
    <2>1. CASE w \in Storage
      <3>1. \A v \in Storage : ~(words[v] > 0)
        BY <1>1, <2>1, KindsApart DEF SaidIs, Refused, Has
      <3> QED  BY <3>1, FitsBefore, KindsApart
    <2>2. CASE w \notin Storage
      BY <2>2, <1>0, KindsApart DEF WordsFit
    <2> QED  BY <2>1, <2>2
  <1>9. /\ \A u, v \in Specifiers : words'[u] > 0 /\ words'[v] > 0 => u = v
        /\ \A v \in Specifiers : words'[v] <= 1
    <2>1. CASE w \in Specifiers
      <3>1. \A v \in Specifiers : ~(words[v] > 0)
        BY <1>1, <2>1, KindsApart DEF SaidIs, Refused, Has
      <3>2. words'[w] = 1
        <4>1. words[w] = 0  BY <2>1, <3>1, <1>0
        <4> QED  BY <4>1, <1>0
      <3>3. \A v \in Specifiers \ {w} : ~(words'[v] > 0) /\ words'[v] <= 1
        <4> SUFFICES ASSUME NEW v \in Specifiers \ {w}
                     PROVE  ~(words'[v] > 0) /\ words'[v] <= 1
          OBVIOUS
        <4>1. words'[v] = words[v] /\ words'[v] \in Nat
          BY <1>0, <1>4, KindsApart
        <4>2. ~(words'[v] > 0)  BY <3>1, <4>1
        <4> QED  BY <4>1, <4>2
      <3> QED  BY <3>2, <3>3
    <2>2. CASE w \notin Specifiers
      BY <2>2, <1>0, KindsApart DEF WordsFit
    <2> QED  BY <2>1, <2>2
  <1>10. words'["long"] <= 2
    <2>1. CASE w = "long"
      <3>1. ~(words["long"] >= 2)
        BY <1>1, <2>1, KindsApart DEF SaidIs, Refused
      <3>2. words'["long"] = words["long"] + 1 /\ words["long"] \in Nat
        BY <2>1, FitsBefore
      <3> QED  BY <3>1, <3>2
    <2>2. CASE w # "long"
      BY <2>2, <1>0, KindsApart DEF WordsFit
    <2> QED  BY <2>1, <2>2
  <1> QED  BY <1>5, <1>6, <1>7, <1>8, <1>9, <1>10 DEF WordsFit

\* The forms of an integer type: the words it needs and those it may have.
LEMMA FormsOf ==
    ASSUME NEW s, NEW T
    PROVE  /\ T \in SignedForms(s) <=> s \subseteq T /\ T \subseteq s \cup {"signed", "int"}
           /\ T \in UnsignedForms(s) <=>
                 s \cup {"unsigned"} \subseteq T /\ T \subseteq s \cup {"unsigned", "int"}
  <1>1. ASSUME NEW r, NEW w
        PROVE  T \in Optionally(r, w) <=> r \subseteq T /\ T \subseteq r \cup {w}
    <2>1. T \in Optionally(r, w) <=> T = r \/ T = r \cup {w}
      BY DEF Optionally
    <2>2. ASSUME r \subseteq T, T \subseteq r \cup {w}  PROVE T = r \/ T = r \cup {w}
      <3>1. CASE w \in T  BY <2>2, <3>1
      <3>2. CASE w \notin T  BY <2>2, <3>2
      <3> QED  BY <3>1, <3>2
    <2> QED  BY <2>1, <2>2
  <1>2. T \in UnsignedForms(s) <=>
           s \cup {"unsigned"} \subseteq T /\ T \subseteq s \cup {"unsigned", "int"}
    <2>1. (s \cup {"unsigned"}) \cup {"int"} = s \cup {"unsigned", "int"}  OBVIOUS
    <2> QED  BY <1>1, <2>1 DEF UnsignedForms
  <1>3. T \in SignedForms(s) <=>
           T \in Optionally(s, "int") \/ T \in Optionally(s \cup {"signed"}, "int")
    BY DEF SignedForms, Optionally
  <1>4. /\ T \in Optionally(s, "int") <=> s \subseteq T /\ T \subseteq s \cup {"int"}
        /\ T \in Optionally(s \cup {"signed"}, "int") <=>
              s \cup {"signed"} \subseteq T /\ T \subseteq s \cup {"signed", "int"}
    <2>1. (s \cup {"signed"}) \cup {"int"} = s \cup {"signed", "int"}  OBVIOUS
    <2> QED  BY <1>1, <2>1
  <1>5. ASSUME s \subseteq T, T \subseteq s \cup {"signed", "int"}
        PROVE  T \subseteq s \cup {"int"} \/ s \cup {"signed"} \subseteq T
    <2>1. CASE "signed" \in T  BY <1>5, <2>1
    <2>2. CASE "signed" \notin T  BY <1>5, <2>2
    <2> QED  BY <2>1, <2>2
  <1> QED  BY <1>2, <1>3, <1>4, <1>5

\* The rows of C's table.
LEMMA VoidRow ==
    ASSUME NEW b, NEW s
    PROVE  CSpecifiers("void", b, s) = {{"void"}}
  BY DEF CSpecifiers

LEMMA FloatRows ==
    ASSUME NEW s
    PROVE  /\ CSpecifiers("float", 8, s) = {} /\ CSpecifiers("float", 16, s) = {}
           /\ CSpecifiers("float", 32, s) = {{"float"}}
           /\ CSpecifiers("float", 64, s) = {{"double"}}
           /\ CSpecifiers("float", 128, s) = {{"long", "double"}}
  BY DEF CSpecifiers

LEMMA CharRows ==
    /\ CSpecifiers("int", 8, TRUE) = {{"char"}, {"signed", "char"}}
    /\ CSpecifiers("int", 8, FALSE) = {{"unsigned", "char"}}
  BY DEF CSpecifiers

LEMMA SignedRows ==
    /\ CSpecifiers("int", 16, TRUE) = SignedForms({"short"})
    /\ \A T : T \in CSpecifiers("int", 32, TRUE) <=> T \in SignedForms({})
    /\ CSpecifiers("int", 64, TRUE)
         = SignedForms({"long"}) \cup SignedForms({"long long"})
    /\ CSpecifiers("int", 128, TRUE) = {}
  BY DEF CSpecifiers

LEMMA UnsignedRows ==
    /\ CSpecifiers("int", 16, FALSE) = UnsignedForms({"short"})
    /\ \A T : T \in CSpecifiers("int", 32, FALSE) <=> T \in UnsignedForms({})
    /\ CSpecifiers("int", 64, FALSE)
         = UnsignedForms({"long"}) \cup UnsignedForms({"long long"})
    /\ CSpecifiers("int", 128, FALSE) = {}
  BY DEF CSpecifiers

\* What the words of an integer type but char are.
IntWords(T) ==
    /\ T \subseteq Modifiers \cup {"int"}
    /\ ~LongShort(T) /\ ~SignedUnsigned(T) /\ ~({"long", "long long"} \subseteq T)

\* Every set of words in the table.
LEMMA InTable ==
    ASSUME NEW k \in {"int", "float", "void"}, NEW b \in {8, 16, 32, 64, 128},
           NEW s \in BOOLEAN, NEW T \in CSpecifiers(k, b, s)
    PROVE  \/ T \in {{"void"}, {"float"}, {"double"}, {"long", "double"}}
           \/ T \in {{"char"}, {"signed", "char"}, {"unsigned", "char"}}
           \/ IntWords(T)
  <1>1. ASSUME NEW r \in {{}, {"short"}, {"long"}, {"long long"}},
               T \in SignedForms(r) \/ T \in UnsignedForms(r)
        PROVE  IntWords(T)
    <2>1. \/ r \subseteq T /\ T \subseteq r \cup {"signed", "int"}
          \/ r \cup {"unsigned"} \subseteq T /\ T \subseteq r \cup {"unsigned", "int"}
      BY <1>1, FormsOf
    <2>2. T \subseteq Modifiers \cup {"int"}  BY <2>1 DEF Modifiers
    <2>3. ~({"signed", "unsigned"} \subseteq T)  BY <2>1
    <2>4. /\ ~("short" \in T /\ "long" \in T) /\ ~("short" \in T /\ "long long" \in T)
          /\ ~("long" \in T /\ "long long" \in T)
      BY <2>1
    <2>5. ~LongShort(T)  BY <2>4 DEF LongShort
    <2>6. ~SignedUnsigned(T)  BY <2>3 DEF SignedUnsigned
    <2>7. ~({"long", "long long"} \subseteq T)  BY <2>4
    <2> QED  BY <2>2, <2>5, <2>6, <2>7 DEF IntWords
  <1>2. CASE k = "void"
    <2>1. CSpecifiers("void", b, s) = {{"void"}}  BY VoidRow
    <2> QED  BY <1>2, <2>1
  <1>3. CASE k = "float"
    <2>1. /\ CSpecifiers("float", 8, s) = {} /\ CSpecifiers("float", 16, s) = {}
          /\ CSpecifiers("float", 32, s) = {{"float"}}
          /\ CSpecifiers("float", 64, s) = {{"double"}}
          /\ CSpecifiers("float", 128, s) = {{"long", "double"}}
      BY FloatRows
    <2>2. T \in {{"float"}, {"double"}, {"long", "double"}}  BY <1>3, <2>1
    <2> QED  BY <2>2
  <1>4. CASE k = "int" /\ b = 8
    <2>1. T \in CSpecifiers("int", 8, TRUE) \/ T \in CSpecifiers("int", 8, FALSE)
      BY <1>4
    <2> QED  BY <2>1, CharRows
  <1>5. CASE k = "int" /\ b # 8 /\ s = TRUE
    <2>1. T \in CSpecifiers("int", 16, TRUE) \/ T \in CSpecifiers("int", 32, TRUE)
          \/ T \in CSpecifiers("int", 64, TRUE) \/ T \in CSpecifiers("int", 128, TRUE)
      BY <1>5
    <2>2. \/ T \in SignedForms({}) \/ T \in SignedForms({"short"})
          \/ T \in SignedForms({"long"}) \/ T \in SignedForms({"long long"})
      <3>1. CASE T \in CSpecifiers("int", 16, TRUE)
        <4>1. CSpecifiers("int", 16, TRUE) = SignedForms({"short"})  BY SignedRows
        <4> QED  BY <3>1, <4>1
      <3>2. CASE T \in CSpecifiers("int", 32, TRUE)  BY <3>2, SignedRows
      <3>3. CASE T \in CSpecifiers("int", 64, TRUE)  BY <3>3, SignedRows
      <3>4. CASE T \in CSpecifiers("int", 128, TRUE)  BY <3>4, SignedRows
      <3> QED  BY <2>1, <3>1, <3>2, <3>3, <3>4
    <2>3. CASE T \in SignedForms({})  BY <1>1, <2>3
    <2>4. CASE T \in SignedForms({"short"})  BY <1>1, <2>4
    <2>5. CASE T \in SignedForms({"long"})  BY <1>1, <2>5
    <2>6. CASE T \in SignedForms({"long long"})  BY <1>1, <2>6
    <2> QED  BY <2>2, <2>3, <2>4, <2>5, <2>6
  <1>6. CASE k = "int" /\ b # 8 /\ s = FALSE
    <2>1. T \in CSpecifiers("int", 16, FALSE) \/ T \in CSpecifiers("int", 32, FALSE)
          \/ T \in CSpecifiers("int", 64, FALSE) \/ T \in CSpecifiers("int", 128, FALSE)
      BY <1>6
    <2>2. \/ T \in UnsignedForms({}) \/ T \in UnsignedForms({"short"})
          \/ T \in UnsignedForms({"long"}) \/ T \in UnsignedForms({"long long"})
      <3>1. CASE T \in CSpecifiers("int", 16, FALSE)
        <4>1. CSpecifiers("int", 16, FALSE) = UnsignedForms({"short"})  BY UnsignedRows
        <4> QED  BY <3>1, <4>1
      <3>2. CASE T \in CSpecifiers("int", 32, FALSE)  BY <3>2, UnsignedRows
      <3>3. CASE T \in CSpecifiers("int", 64, FALSE)  BY <3>3, UnsignedRows
      <3>4. CASE T \in CSpecifiers("int", 128, FALSE)  BY <3>4, UnsignedRows
      <3> QED  BY <2>1, <3>1, <3>2, <3>3, <3>4
    <2>3. CASE T \in UnsignedForms({})  BY <1>1, <2>3
    <2>4. CASE T \in UnsignedForms({"short"})  BY <1>1, <2>4
    <2>5. CASE T \in UnsignedForms({"long"})  BY <1>1, <2>5
    <2>6. CASE T \in UnsignedForms({"long long"})  BY <1>1, <2>6
    <2> QED  BY <2>2, <2>3, <2>4, <2>5, <2>6
  <1> QED  BY <1>2, <1>3, <1>4, <1>5, <1>6

\* Which words stand in attrs decides between the kinds of types.
LEMMA OneOfFive ==
    ASSUME OneSpecifier, NEW w \in Specifiers \cap attrs
    PROVE  Specifiers \cap attrs = {w}
  BY DEF OneSpecifier

\* With a modifier its specifier does not allow, it is in no row of the table.
LEMMA NotAllowed ==
    ASSUME OneSpecifier, attrs \cap (Modifiers \ Allowed) # {},
           NEW T, T = attrs \cap (Specifiers \cup Modifiers),
           NEW k \in {"int", "float", "void"}, NEW b \in {8, 16, 32, 64, 128},
           NEW s \in BOOLEAN
    PROVE  T \notin CSpecifiers(k, b, s)
  <1> SUFFICES ASSUME T \in CSpecifiers(k, b, s)  PROVE FALSE  OBVIOUS
  <1>1. PICK m \in Modifiers : m \in attrs /\ m \notin Allowed  OBVIOUS
  <1>2. m \in T /\ m \notin Specifiers  BY <1>1, KindsApart
  <1>3. CASE T \in {{"void"}, {"float"}, {"double"}, {"char"}}
    BY <1>2, <1>3 DEF Specifiers
  <1>4. CASE T = {"long", "double"}
    <2>1. m = "long" /\ "double" \in attrs
      BY <1>2, <1>4 DEF Specifiers
    <2> QED  BY <1>1, <2>1 DEF Allowed
  <1>5. CASE T \in {{"signed", "char"}, {"unsigned", "char"}}
    <2>1. m \in {"signed", "unsigned"} /\ "char" \in attrs
      BY <1>2, <1>5 DEF Specifiers
    <2>2. attrs \cap Specifiers = {"char"}  BY <2>1, OneOfFive DEF Specifiers
    <2>3. "double" \notin attrs /\ ~Has({"void", "float"})
      BY <2>2 DEF Has, Specifiers
    <2> QED  BY <1>1, <2>1, <2>3 DEF Allowed
  <1>6. CASE IntWords(T)
    <2>1. attrs \cap {"double", "void", "float", "char"} = {}
      BY <1>6 DEF IntWords, Specifiers, Modifiers
    <2>2. Allowed = Modifiers  BY <2>1 DEF Allowed, Has
    <2> QED  BY <1>1, <2>2
  <1> QED  BY <1>3, <1>4, <1>5, <1>6, InTable

\* With none but allowed ones, what is built is the type of its row.
LEMMA BuiltIsC ==
    ASSUME OneSpecifier, ModifiersAgree, ~SignedUnsigned(attrs),
           attrs \cap (Modifiers \ Allowed) = {},
           NEW T, T = attrs \cap (Specifiers \cup Modifiers)
    PROVE  T \in CSpecifiers(BaseKind, Shifted(BaseBits),
                             BaseKind = "int" /\ "unsigned" \notin attrs)
  <1>1. T \cap Modifiers \subseteq Allowed /\ T \cap Specifiers = attrs \cap Specifiers
        /\ T \subseteq Specifiers \cup Modifiers
    OBVIOUS
  <1>2. CASE "void" \in attrs
    <2>1. attrs \cap Specifiers = {"void"}  BY <1>2, OneOfFive DEF Specifiers
    <2>2. Allowed = {}  BY <2>1 DEF Allowed, Has, Specifiers
    <2>3. T = {"void"}  BY <1>1, <2>1, <2>2
    <2>4. BaseKind = "void"  BY <1>2 DEF BaseKind
    <2>5. \A b, s : CSpecifiers("void", b, s) = {{"void"}}  BY VoidRow
    <2> HIDE DEF BaseKind
    <2> QED  BY <2>3, <2>4, <2>5
  <1>3. CASE "float" \in attrs
    <2>1. attrs \cap Specifiers = {"float"}  BY <1>3, OneOfFive DEF Specifiers
    <2>2. Allowed = {}  BY <2>1 DEF Allowed, Has, Specifiers
    <2>3. T = {"float"}  BY <1>1, <2>1, <2>2
    <2>4. BaseKind = "float" /\ BaseBits = 32
      BY <2>1 DEF BaseKind, BaseBits, Has, Specifiers
    <2>5. attrs \cap {"short", "long", "long long"} = {}
      BY <2>2 DEF Modifiers
    <2>6. Shifted(BaseBits) = 32  BY <2>4, <2>5, Zenon DEF Shifted
    <2>7. \A s : CSpecifiers("float", 32, s) = {{"float"}}  BY FloatRows
    <2> QED  BY <2>3, <2>4, <2>6, <2>7
  <1>4. CASE "double" \in attrs
    <2>1. attrs \cap Specifiers = {"double"}  BY <1>4, OneOfFive DEF Specifiers
    <2>2. Allowed = {"long"}  BY <1>4 DEF Allowed
    <2>3. BaseKind = "float" /\ BaseBits = 64
      BY <2>1 DEF BaseKind, BaseBits, Has, Specifiers
    <2>4. "short" \notin attrs /\ "long long" \notin attrs
      <3>1. attrs \cap (Modifiers \ {"long"}) = {}  BY <2>2
      <3>2. {"short", "long long"} \subseteq Modifiers \ {"long"}
        BY DEF Modifiers
      <3> QED  BY <3>1, <3>2
    <2>5. CASE "long" \in attrs
      <3>1. T = {"long", "double"}  BY <1>1, <2>1, <2>2, <2>5 DEF Modifiers
      <3>2. Shifted(BaseBits) = 64 * 2
        BY <2>3, <2>4, <2>5, Zenon DEF Shifted
      <3>3. Shifted(BaseBits) = 128  BY <3>2
      <3>4. \A s : CSpecifiers("float", 128, s) = {{"long", "double"}}
        BY FloatRows
      <3> QED  BY <2>3, <3>1, <3>3, <3>4
    <2>6. CASE "long" \notin attrs
      <3>1. T = {"double"}  BY <1>1, <2>1, <2>2, <2>6
      <3>2. Shifted(BaseBits) = 64  BY <2>3, <2>4, <2>6, Zenon DEF Shifted
      <3>3. \A s : CSpecifiers("float", 64, s) = {{"double"}}  BY FloatRows
      <3> QED  BY <2>3, <3>1, <3>2, <3>3
    <2> QED  BY <2>5, <2>6
  <1>5. CASE "char" \in attrs
    <2>1. attrs \cap Specifiers = {"char"}  BY <1>5, OneOfFive DEF Specifiers
    <2>2. Allowed = {"signed", "unsigned"}
      BY <1>5, <2>1 DEF Allowed, Has, Specifiers
    <2>3. BaseKind = "int" /\ BaseBits = 8
      BY <2>1 DEF BaseKind, BaseBits, Has, Specifiers
    <2>4. attrs \cap {"short", "long", "long long"} = {}
      BY <2>2 DEF Modifiers
    <2>5. Shifted(BaseBits) = 8  BY <2>3, <2>4, Zenon DEF Shifted
    <2>6. CASE "unsigned" \in attrs
      <3>1. T = {"unsigned", "char"}
        BY <1>1, <2>1, <2>2, <2>6 DEF SignedUnsigned, Modifiers
      <3>2. (BaseKind = "int" /\ "unsigned" \notin attrs) = FALSE  BY <2>6
      <3> QED  BY <2>3, <2>5, <3>1, <3>2, CharRows
    <2>7. CASE "unsigned" \notin attrs
      <3>1. T = {"char"} \/ T = {"signed", "char"}  BY <1>1, <2>1, <2>2, <2>7
      <3>2. (BaseKind = "int" /\ "unsigned" \notin attrs) = TRUE  BY <2>3, <2>7
      <3> QED  BY <2>3, <2>5, <3>1, <3>2, CharRows
    <2> QED  BY <2>6, <2>7
  <1>6. CASE attrs \cap {"void", "float", "double", "char"} = {}
    <2>1. BaseKind = "int" /\ BaseBits = 32
      BY <1>6 DEF BaseKind, BaseBits, Has
    <2>2. T \subseteq {"short", "long", "long long", "signed", "unsigned", "int"}
      BY <1>1, <1>6 DEF Specifiers, Modifiers
    <2>3. \A w \in {"short", "long", "long long", "signed", "unsigned"} :
              w \in T <=> w \in attrs
      BY DEF Modifiers
    <2>4. /\ ~("short" \in attrs /\ "long" \in attrs)
          /\ ~("short" \in attrs /\ "long long" \in attrs)
          /\ ~("long" \in attrs /\ "long long" \in attrs)
          /\ ~("signed" \in attrs /\ "unsigned" \in attrs)
      BY DEF ModifiersAgree, LongShort, SignedUnsigned
    <2> DEFINE s == T \cap {"short", "long", "long long"}
    <2>5. IF "unsigned" \in attrs THEN T \in UnsignedForms(s)
                                  ELSE T \in SignedForms(s)
      <3>1. CASE "unsigned" \in attrs
        <4>1. s \cup {"unsigned"} \subseteq T /\ T \subseteq s \cup {"unsigned", "int"}
          BY <2>2, <2>3, <2>4, <3>1
        <4> HIDE DEF s
        <4> QED  BY <3>1, <4>1, FormsOf
      <3>2. CASE "unsigned" \notin attrs
        <4>1. s \subseteq T /\ T \subseteq s \cup {"signed", "int"}
          BY <2>2, <2>3, <3>2
        <4> HIDE DEF s
        <4> QED  BY <3>2, <4>1, FormsOf
      <3> QED  BY <3>1, <3>2
    <2>6. (BaseKind = "int" /\ "unsigned" \notin attrs) = ("unsigned" \notin attrs)
      BY <2>1
    <2>7. \/ s = {"short"} /\ Shifted(BaseBits) = 16
          \/ s = {} /\ Shifted(BaseBits) = 32
          \/ s \in {{"long"}, {"long long"}} /\ Shifted(BaseBits) = 64
      <3>1. CASE "short" \in attrs
        <4>1. s = {"short"}  BY <2>3, <2>4, <3>1
        <4>2. "long" \notin attrs /\ "long long" \notin attrs  BY <2>4, <3>1
        <4>3. Shifted(32) = 32 \div 2  BY <3>1, <4>2, Zenon DEF Shifted
        <4>4. Shifted(32) = 16  BY <4>3
        <4> QED  BY <2>1, <4>1, <4>4
      <3>2. CASE "long" \in attrs
        <4>1. s = {"long"}  BY <2>3, <2>4, <3>2
        <4>2. "short" \notin attrs /\ "long long" \notin attrs  BY <2>4, <3>2
        <4>3. Shifted(32) = 32 * 2  BY <3>2, <4>2, Zenon DEF Shifted
        <4>4. Shifted(32) = 64  BY <4>3
        <4> QED  BY <2>1, <4>1, <4>4
      <3>3. CASE "long long" \in attrs
        <4>1. s = {"long long"}  BY <2>3, <2>4, <3>3
        <4>2. "short" \notin attrs /\ "long" \notin attrs  BY <2>4, <3>3
        <4>3. Shifted(32) = 32 * 2  BY <3>3, <4>2, Zenon DEF Shifted
        <4>4. Shifted(32) = 64  BY <4>3
        <4> QED  BY <2>1, <4>1, <4>4
      <3>4. CASE attrs \cap {"short", "long", "long long"} = {}
        <4>1. s = {}  BY <2>3, <3>4
        <4>2. "short" \notin attrs /\ "long" \notin attrs /\ "long long" \notin attrs
          BY <3>4
        <4>3. Shifted(32) = 32  BY <4>2, Zenon DEF Shifted
        <4> QED  BY <2>1, <4>1, <4>3
      <3> QED  BY <3>1, <3>2, <3>3, <3>4
    <2> HIDE DEF s
    <2>8. CASE "unsigned" \in attrs
      <3>1. T \in CSpecifiers("int", Shifted(BaseBits), FALSE)
        <4>1. T \in UnsignedForms(s)  BY <2>5, <2>8
        <4>2. CASE s = {"short"} /\ Shifted(BaseBits) = 16
          <5>1. T \in UnsignedForms({"short"})  BY <4>1, <4>2
          <5>2. T \in CSpecifiers("int", 16, FALSE)  BY <5>1, UnsignedRows
          <5> QED  BY <4>2, <5>2
        <4>3. CASE s = {} /\ Shifted(BaseBits) = 32
          <5>1. T \in UnsignedForms({})  BY <4>1, <4>3
          <5>2. T \in CSpecifiers("int", 32, FALSE)  BY <5>1, UnsignedRows
          <5> QED  BY <4>3, <5>2
        <4>4. CASE s = {"long"} /\ Shifted(BaseBits) = 64
          <5>1. T \in UnsignedForms({"long"})  BY <4>1, <4>4
          <5>2. T \in CSpecifiers("int", 64, FALSE)  BY <5>1, UnsignedRows
          <5> QED  BY <4>4, <5>2
        <4>5. CASE s = {"long long"} /\ Shifted(BaseBits) = 64
          <5>1. T \in UnsignedForms({"long long"})  BY <4>1, <4>5
          <5>2. T \in CSpecifiers("int", 64, FALSE)  BY <5>1, UnsignedRows
          <5> QED  BY <4>5, <5>2
        <4> QED  BY <2>7, <4>2, <4>3, <4>4, <4>5
      <3>2. (BaseKind = "int" /\ "unsigned" \notin attrs) = FALSE  BY <2>8
      <3> QED  BY <2>1, <3>1, <3>2
    <2>9. CASE "unsigned" \notin attrs
      <3>1. T \in CSpecifiers("int", Shifted(BaseBits), TRUE)
        <4>1. T \in SignedForms(s)  BY <2>5, <2>9
        <4>2. CASE s = {"short"} /\ Shifted(BaseBits) = 16
          <5>1. T \in SignedForms({"short"})  BY <4>1, <4>2
          <5>2. T \in CSpecifiers("int", 16, TRUE)  BY <5>1, SignedRows
          <5> QED  BY <4>2, <5>2
        <4>3. CASE s = {} /\ Shifted(BaseBits) = 32
          <5>1. T \in SignedForms({})  BY <4>1, <4>3
          <5>2. T \in CSpecifiers("int", 32, TRUE)  BY <5>1, SignedRows
          <5> QED  BY <4>3, <5>2
        <4>4. CASE s = {"long"} /\ Shifted(BaseBits) = 64
          <5>1. T \in SignedForms({"long"})  BY <4>1, <4>4
          <5>2. T \in CSpecifiers("int", 64, TRUE)  BY <5>1, SignedRows
          <5> QED  BY <4>4, <5>2
        <4>5. CASE s = {"long long"} /\ Shifted(BaseBits) = 64
          <5>1. T \in SignedForms({"long long"})  BY <4>1, <4>5
          <5>2. T \in CSpecifiers("int", 64, TRUE)  BY <5>1, SignedRows
          <5> QED  BY <4>5, <5>2
        <4> QED  BY <2>7, <4>2, <4>3, <4>4, <4>5
      <3>2. (BaseKind = "int" /\ "unsigned" \notin attrs) = TRUE  BY <2>1, <2>9
      <3> QED  BY <2>1, <3>1, <3>2
    <2> QED  BY <2>8, <2>9
  <1> QED  BY <1>2, <1>3, <1>4, <1>5, <1>6 DEF Specifiers

LEMMA StorageOnce ==
    ASSUME TypeOK
    PROVE  Cardinality(Said \cap Storage) <= 1 <=>
              \A v, w \in Storage : words[v] > 0 /\ words[w] > 0 => v = w
  <1> DEFINE S == Said \cap Storage
  <1>1. \A w \in Storage : w \in S <=> words[w] > 0
    BY SaidWords, KindsApart DEF SaidIs
  <1>2. IsFiniteSet(S) /\ Cardinality(S) \in Nat
    <2>1. IsFiniteSet({"typedef"} \cup {"extern"})
      BY FS_Singleton, FS_AddElement
    <2>2. IsFiniteSet({"typedef"} \cup {"extern"} \cup {"static"})
      BY <2>1, FS_AddElement
    <2>3. IsFiniteSet({"typedef"} \cup {"extern"} \cup {"static"} \cup {"auto"})
      BY <2>2, FS_AddElement
    <2>4. IsFiniteSet({"typedef"} \cup {"extern"} \cup {"static"} \cup {"auto"}
                        \cup {"register"})
      BY <2>3, FS_AddElement
    <2>5. Storage = {"typedef"} \cup {"extern"} \cup {"static"} \cup {"auto"}
                        \cup {"register"}
      BY DEF Storage
    <2>6. IsFiniteSet(Storage)  BY <2>4, <2>5
    <2>7. S \in SUBSET Storage  OBVIOUS
    <2>8. IsFiniteSet(S)  BY <2>6, <2>7, FS_Subset
    <2> QED  BY <2>8, FS_CardinalityType
  <1>3. S \subseteq Storage  OBVIOUS
  <1> HIDE DEF S
  <1>4. /\ Cardinality(S) = 0 <=> S = {}
        /\ Cardinality(S) = 1 <=> \E x : S = {x}
    BY <1>2, FS_EmptySet, FS_Singleton
  <1>5. Cardinality(S) <= 1 <=> Cardinality(S) = 0 \/ Cardinality(S) = 1
    BY <1>2
  <1>6. Cardinality(S) <= 1 <=> \A v, w \in S : v = w
    <2>1. ASSUME \A v, w \in S : v = w  PROVE S = {} \/ \E x : S = {x}
      <3>1. CASE S = {}  BY <3>1
      <3>2. CASE S # {}
        <4>1. PICK x : x \in S  BY <3>2
        <4>2. S = {x}  BY <2>1, <4>1
        <4> QED  BY <4>2
      <3> QED  BY <3>1, <3>2
    <2>2. ASSUME S = {} \/ \E x : S = {x}  PROVE \A v, w \in S : v = w
      BY <2>2
    <2> QED  BY <1>4, <1>5, <2>1, <2>2
  <1> QED  BY <1>1, <1>3, <1>6 DEF S

\* What C accepts is what fits and, without a boxed type, stands in the table.
InSomeRow ==
    \E k \in {"int", "float", "void"}, b \in {8, 16, 32, 64, 128}, s \in BOOLEAN :
        TypeWords \in CSpecifiers(k, b, s)
LEMMA WellFormedFits ==
    ASSUME TypeOK
    PROVE  WellFormed <=> Fit /\ (boxed = 0 => InSomeRow)
  <1>1. boxed \in Nat /\ SaidIs  BY SaidWords DEF TypeOK
  <1>2. ASSUME Fit, boxed = 0 => InSomeRow  PROVE WellFormed
    <2>1. boxed = 0 \/ boxed = 1  BY <1>1, <1>2 DEF Fit
    <2>2. SaysCType  BY <1>2, <2>1 DEF SaysCType, Fit, InSomeRow
    <2> QED  BY <1>2, <2>2, StorageOnce DEF WellFormed, Fit, WordsFit
  <1>3. ASSUME WellFormed  PROVE Fit /\ (boxed = 0 => InSomeRow)
    <2>1. /\ boxed <= 1 /\ (boxed = 1 => TypeWords = {})
          /\ boxed = 0 => InSomeRow
      BY <1>3 DEF WellFormed, SaysCType, InSomeRow
    <2>2. /\ \A v, w \in TypeWords \cap Specifiers : v = w
          /\ ~LongShort(TypeWords) /\ ~SignedUnsigned(TypeWords)
      <3>1. CASE TypeWords = {}  BY <3>1 DEF LongShort, SignedUnsigned
      <3>2. CASE boxed = 0
        <4>1. \/ TypeWords \in {{"void"}, {"float"}, {"double"}, {"long", "double"}}
              \/ TypeWords \in {{"char"}, {"signed", "char"}, {"unsigned", "char"}}
              \/ IntWords(TypeWords)
          BY <2>1, <3>2, InTable DEF InSomeRow
        <4>2. CASE TypeWords \in {{"void"}, {"float"}, {"double"}, {"long", "double"}}
          BY <4>2 DEF LongShort, SignedUnsigned, Specifiers
        <4>3. CASE TypeWords \in {{"char"}, {"signed", "char"}, {"unsigned", "char"}}
          BY <4>3 DEF LongShort, SignedUnsigned, Specifiers
        <4>4. CASE IntWords(TypeWords)
          BY <4>4 DEF IntWords, Specifiers, Modifiers
        <4> QED  BY <4>1, <4>2, <4>3, <4>4
      <3> QED  BY <1>3, <3>1, <3>2 DEF WellFormed, SaysCType
    <2>3. TypeWords = Said \cap (Specifiers \cup Modifiers)  BY DEF TypeWords
    <2>4. \A v, w \in Specifiers : words[v] > 0 /\ words[w] > 0 => v = w
      BY <1>1, <2>2, <2>3, KindsApart DEF SaidIs
    <2>5. ~(words["short"] > 0 /\ words["long"] > 0)
      <3>1. words["long"] > 0 => words["long"] = 1 \/ words["long"] >= 2
        <4>1. words["long"] \in Nat  BY <1>1, KindsApart DEF SaidIs
        <4> QED  BY <4>1
      <3>2. words["long"] > 0 => "long" \in TypeWords \/ "long long" \in TypeWords
        BY <1>1, <2>3, <3>1, KindsApart DEF SaidIs
      <3>3. "short" \in Words \ {"long"}  BY DEF Words, Modifiers
      <3>4. words["short"] > 0 => "short" \in TypeWords
        BY <1>1, <2>3, <3>3, KindsApart DEF SaidIs
      <3> QED  BY <2>2, <3>2, <3>4 DEF LongShort
    <2>6. ~(words["signed"] > 0 /\ words["unsigned"] > 0)
      <3>1. {"signed", "unsigned"} \subseteq Words \ {"long"}
            /\ {"signed", "unsigned"} \subseteq Modifiers
        BY DEF Words, Modifiers
      <3>2. words["signed"] > 0 => "signed" \in TypeWords
        BY <1>1, <2>3, <3>1 DEF SaidIs
      <3>3. words["unsigned"] > 0 => "unsigned" \in TypeWords
        BY <1>1, <2>3, <3>1 DEF SaidIs
      <3> QED  BY <2>2, <3>2, <3>3 DEF SignedUnsigned
    <2>7. \A v, w \in Storage : words[v] > 0 /\ words[w] > 0 => v = w
      BY <1>3, StorageOnce DEF WellFormed
    <2> QED  BY <1>3, <2>1, <2>4, <2>5, <2>6, <2>7 DEF WellFormed, Fit, WordsFit
  <1> QED  BY <1>2, <1>3

LEMMA InitJudged == Init => Judged
  <1> SUFFICES ASSUME Init  PROVE Judged  OBVIOUS
  <1>1. \A w \in Words : words[w] = 0  BY DEF Init
  <1>2. \A w \in Words : ~(words[w] > 0) /\ words[w] <= 1 /\ words[w] <= 2
    BY <1>1
  <1>3. {"short", "long", "signed"} \subseteq Words  BY DEF Words, Modifiers
  <1>4. WordsFit  BY <1>2, <1>3, KindsApart DEF WordsFit
  <1>5. boxed = 0 /\ type = NoType /\ errors = {} /\ phase = "attributes"
    BY DEF Init
  <1>6. Fit  BY <1>4, <1>5 DEF Fit
  <1> QED  BY <1>5, <1>6 DEF Judged, AcceptedTypesAreC

LEMMA AddAttributeKeepsJudged ==
    ASSUME IInv, IInv', Judged, NEW w \in Words, AddAttribute(w)
    PROVE  Judged'
  <1>1. /\ phase = "attributes" /\ phase' = "attributes" /\ boxed = 0 /\ boxed' = 0
        /\ type = NoType /\ type' = NoType
        /\ words' = [words EXCEPT ![w] = @ + 1] /\ TypeOK /\ TypeOK'
    BY Added DEF Judged, IInv
  <1>2. (Fit <=> WordsFit) /\ (Fit' <=> WordsFit')  BY <1>1 DEF Fit
  <1>3. errors = {} <=> WordsFit  BY <1>1, <1>2 DEF Judged
  <1>4. errors' = {} <=> WordsFit'
    <2>1. CASE errors # {}
      <3>1. errors' # {}  BY <2>1, Added
      <3>2. ~WordsFit'  BY <1>1, <1>3, <2>1, FitsBefore
      <3> QED  BY <3>1, <3>2
    <2>2. CASE errors = {}
      <3>1. attrs = Said /\ WordsFit  BY <1>3, <2>2 DEF IInv, OrderIrrelevant
      <3>2. CASE Refused(w)
        <4>1. errors' = Refusal(w)  BY <2>2, <3>2, Added
        <4> QED  BY <1>1, <3>1, <3>2, <4>1, RefusedUnfit
      <3>3. CASE ~Refused(w)
        <4>1. errors' = Contradictions(With(w))  BY <2>2, <3>3, Added
        <4> QED  BY <1>1, <3>1, <3>3, <4>1, AddedFits
      <3> QED  BY <3>2, <3>3
    <2> QED  BY <2>1, <2>2
  <1> QED  BY <1>1, <1>2, <1>4 DEF Judged, AcceptedTypesAreC

\* Steps after the words leave what they say.
LEMMA SaidStays ==
    ASSUME UNCHANGED words
    PROVE  Said' = Said /\ TypeWords' = TypeWords /\ (WordsFit' <=> WordsFit)
  BY DEF Said, TypeWords, WordsFit

LEMMA WellFormedFit == TypeOK => (WellFormed => Fit)
  BY WellFormedFits

LEMMA AddTypeKeepsJudged ==
    ASSUME IInv, IInv', Judged, NEW t \in Boxed, AddType(t)
    PROVE  Judged'
  <1>1. /\ phase = "types" /\ boxed' = boxed + 1 /\ boxed \in Nat
        /\ UNCHANGED <<attrs, words>> /\ TypeOK /\ TypeOK'
    BY DEF AddType, IInv, TypeOK
  <1>0. boxed' # 0 /\ boxed' \in Nat  BY <1>1
  <1>2. /\ TypeWords' = TypeWords /\ (WordsFit' <=> WordsFit)
        /\ TypeWords = Said \cap (Specifiers \cup Modifiers)
    BY <1>1, SaidStays DEF TypeWords
  <1>3. errors = {} <=> Fit  BY <1>1 DEF Judged
  <1>4. Fit' => boxed' = 1 /\ TypeWords = {} /\ boxed = 0 /\ Fit
    BY <1>0, <1>1, <1>2 DEF Fit
  <1>5. errors = {} => attrs = Said  BY DEF IInv, OrderIrrelevant
  <1>6. CASE Has(Modifiers)
    <2>1. errors' # {} /\ phase' = "types"  BY <1>1, <1>6 DEF AddType
    <2>2. ~Fit'
      <3> SUFFICES ASSUME Fit'  PROVE FALSE  OBVIOUS
      <3>1. attrs = Said /\ TypeWords = {}  BY <1>3, <1>4, <1>5
      <3> QED  BY <1>2, <1>6, <3>1 DEF Has
    <2> QED  BY <1>0, <1>1, <2>1, <2>2 DEF Judged, AcceptedTypesAreC
  <1>7. CASE ~Has(Modifiers) /\ type = NoType /\ ~Has(Specifiers)
    <2>1. UNCHANGED <<phase, errors>> /\ type' = t /\ t # NoType
      BY <1>7, BoxedAssumption DEF AddType
    <2>2. errors = {} => Fit'
      <3> SUFFICES ASSUME errors = {}  PROVE Fit'  OBVIOUS
      <3>1. boxed <= 1 /\ boxed # 1 /\ WordsFit
        BY <1>1, <1>3, <1>7 DEF Judged, Fit
      <3>2. boxed' = 1  BY <1>1, <3>1
      <3>3. TypeWords = {}  BY <1>2, <1>5, <1>7 DEF Has
      <3> QED  BY <1>2, <3>1, <3>2, <3>3 DEF Fit
    <2> QED
      BY <1>0, <1>1, <1>3, <1>4, <2>1, <2>2 DEF Judged, AcceptedTypesAreC
  <1>8. CASE ~Has(Modifiers) /\ ~(type = NoType /\ ~Has(Specifiers))
    <2>1. phase' = "halted" /\ errors' # {}  BY <1>8 DEF AddType
    <2>2. ~Fit'
      <3> SUFFICES ASSUME Fit'  PROVE FALSE  OBVIOUS
      <3>1. attrs = Said /\ TypeWords = {} /\ boxed = 0  BY <1>3, <1>4, <1>5
      <3>2. type = NoType  BY <3>1 DEF Judged
      <3> QED  BY <1>2, <1>8, <3>1, <3>2 DEF Has
    <2>3. ~WellFormed'
      <3>1. WellFormed' => Fit'  BY <1>1, WellFormedFit, PTL
      <3> QED  BY <2>2, <3>1
    <2> QED  BY <1>0, <1>1, <2>1, <2>3 DEF Judged, AcceptedTypesAreC
  <1> QED  BY <1>6, <1>7, <1>8

LEMMA IntoTypeBuilderKeepsJudged ==
    ASSUME IInv, Judged, IntoTypeBuilder
    PROVE  Judged'
  <1>1. /\ phase = "types" /\ phase' = "built" /\ TypeOK /\ boxed \in Nat
        /\ UNCHANGED <<attrs, type, words, boxed>>
    BY DEF IntoTypeBuilder, IInv, TypeOK
  <1>2. TypeWords' = TypeWords /\ (WellFormed' <=> WellFormed)
    <2>1. Said' = Said /\ TypeWords' = TypeWords  BY <1>1, SaidStays
    <2> QED  BY <1>1, <2>1 DEF WellFormed, SaysCType
  <1>3. errors = {} <=> Fit  BY <1>1 DEF Judged
  <1>4. WellFormed <=> Fit /\ (boxed = 0 => InSomeRow)
    BY <1>1, WellFormedFits
  <1>5. ASSUME errors = {}
        PROVE  /\ attrs = Said /\ TypeWords = attrs \cap (Specifiers \cup Modifiers)
               /\ boxed = 0 <=> type = NoType
               /\ boxed = 0 \/ boxed = 1
    <2>1. boxed = 0 \/ boxed = 1  BY <1>1, <1>3, <1>5 DEF Fit
    <2> QED
      BY <1>1, <1>5, <2>1 DEF Judged, IInv, OrderIrrelevant, TypeWords
  <1>6. errors # {} => errors' # {}  BY DEF IntoTypeBuilder
  <1>7. ASSUME errors = {}
        PROVE  /\ errors' = {} <=> WellFormed
               /\ errors' = {} /\ boxed = 0 =>
                     TypeWords \in CSpecifiers(result'.kind, result'.bits, result'.signed)
               /\ errors' = {} /\ boxed = 1 => result'.boxed = type
    <2>1. CASE type = NoType
      <3>1. result' = Plain
            /\ errors' = IF attrs \cap (Modifiers \ Allowed) # {}
                         THEN {"invalid type specifier"} ELSE {}
        BY <1>7, <2>1 DEF IntoTypeBuilder
      <3>2. boxed = 0 /\ TypeWords = attrs \cap (Specifiers \cup Modifiers)
        BY <1>5, <1>7, <2>1
      <3>3. CASE attrs \cap (Modifiers \ Allowed) # {}
        <4>1. PICK T : T = TypeWords  OBVIOUS
        <4>2. OneSpecifier /\ T = attrs \cap (Specifiers \cup Modifiers)
          BY <3>2, <4>1 DEF IInv
        <4>3. \A k \in {"int", "float", "void"}, b \in {8, 16, 32, 64, 128},
                 s \in BOOLEAN : T \notin CSpecifiers(k, b, s)
          BY <3>3, <4>2, NotAllowed
        <4>4. ~InSomeRow  BY <4>1, <4>3 DEF InSomeRow
        <4> QED  BY <1>4, <3>1, <3>2, <3>3, <4>4
      <3>4. CASE attrs \cap (Modifiers \ Allowed) = {}
        <4>1. ~SignedUnsigned(attrs)
          <5>1. ~(words["signed"] > 0 /\ words["unsigned"] > 0)
            BY <1>3, <1>7 DEF Fit, WordsFit
          <5>2. {"signed", "unsigned"} \subseteq Words \ {"long"}
            BY DEF Words, Modifiers
          <5> QED
            BY <1>1, <1>5, <1>7, <5>1, <5>2, SaidWords DEF SignedUnsigned, SaidIs
        <4> DEFINE sign == BaseKind = "int" /\ "unsigned" \notin attrs
        <4>2. TypeWords \in CSpecifiers(BaseKind, Shifted(BaseBits), sign)
          BY <3>2, <3>4, <4>1, BuiltIsC DEF IInv
        <4>3. /\ result'.kind = BaseKind /\ result'.bits = Shifted(BaseBits)
              /\ result'.signed = sign
          BY <3>1 DEF Plain
        <4>4. /\ BaseKind \in {"int", "float", "void"} /\ sign \in BOOLEAN
              /\ Shifted(BaseBits) \in {8, 16, 32, 64, 128}
          <5>1. /\ BaseBits \in {8, 32, 64}
                /\ BaseBits = 8 => "char" \in attrs /\ "double" \notin attrs
            BY DEF BaseBits
          <5>2. BaseBits = 8 => "short" \notin attrs
            <6>1. BaseBits = 8 => "short" \notin Allowed
              BY <5>1 DEF Allowed
            <6> QED  BY <3>4, <6>1, KindsApart
          <5>3. Shifted(BaseBits) \in {8, 16, 32, 64, 128}
            <6>1. /\ Shifted(8) \in {8, 16} \/ (Shifted(8) = 4 /\ "short" \in attrs)
                  /\ Shifted(32) \in {16, 32, 64} /\ Shifted(64) \in {32, 64, 128}
              BY Sizes DEF IInv
            <6>2. CASE BaseBits = 8   BY <5>2, <6>1, <6>2
            <6>3. CASE BaseBits = 32  BY <6>1, <6>3
            <6>4. CASE BaseBits = 64  BY <6>1, <6>4
            <6> QED  BY <5>1, <6>2, <6>3, <6>4
          <5> QED  BY <5>3 DEF BaseKind
        <4> HIDE DEF sign
        <4>5. InSomeRow  BY <4>2, <4>4 DEF InSomeRow
        <4>6. errors' = {}  BY <3>1, <3>4
        <4> QED  BY <1>3, <1>4, <1>7, <3>2, <4>2, <4>3, <4>5, <4>6
      <3> QED  BY <3>3, <3>4
    <2>2. CASE type # NoType
      <3>1. errors' = errors /\ result'.boxed = type
        BY <2>2 DEF IntoTypeBuilder
      <3>2. boxed = 1  BY <1>5, <1>7, <2>2
      <3> QED  BY <1>3, <1>4, <1>7, <3>1, <3>2
    <2> QED  BY <2>1, <2>2
  <1>8. AcceptedTypesAreC'
    <2>1. CASE errors = {}
      BY <1>1, <1>2, <1>7, <2>1 DEF AcceptedTypesAreC
    <2>2. CASE errors # {}
      BY <1>1, <1>2, <1>3, <1>4, <1>6, <2>2 DEF AcceptedTypesAreC
    <2> QED  BY <2>1, <2>2
  <1> QED  BY <1>1, <1>8 DEF Judged

LEMMA NextKeepsJudged ==
    ASSUME IInv, IInv', Judged, [Next]_vars
    PROVE  Judged'
  <1>1. ASSUME NEW has_def \in BOOLEAN, CollectTypes(has_def)  PROVE Judged'
    <2>1. /\ phase = "attributes" /\ phase' = "types" /\ boxed = 0
          /\ UNCHANGED <<type, errors, words, boxed>>
      BY <1>1 DEF CollectTypes, Judged
    <2>2. Fit' <=> Fit  BY <2>1, SaidStays DEF Fit
    <2> QED  BY <2>1, <2>2 DEF Judged, AcceptedTypesAreC
  <1>2. ASSUME UNCHANGED vars  PROVE Judged'
    <2>1. UNCHANGED <<phase, type, errors, result, words, boxed>>
      BY <1>2 DEF vars
    <2>2. /\ Said' = Said /\ TypeWords' = TypeWords
          /\ (WordsFit' <=> WordsFit)
      BY <2>1, SaidStays
    <2>3. (Fit' <=> Fit) /\ (WellFormed' <=> WellFormed)
      BY <2>1, <2>2 DEF Fit, WellFormed, SaysCType
    <2> QED  BY <2>1, <2>2, <2>3 DEF Judged, AcceptedTypesAreC
  <1> QED
    BY <1>1, <1>2, AddAttributeKeepsJudged, AddTypeKeepsJudged,
       IntoTypeBuilderKeepsJudged DEF Next

(***************************************************************************)
(* However many specifiers are written, in whatever order: exactly the     *)
(* declarations C accepts get through without an error, and what is built  *)
(* is the type C's table gives their words.                                *)
(***************************************************************************)
THEOREM AcceptsC == Spec => []AcceptedTypesAreC
  <1>1. Judged => AcceptedTypesAreC  BY DEF Judged
  <1>2. Spec => []Judged
    BY InitJudged, NextKeepsJudged, Invariance, PTL DEF Spec
  <1> QED  BY <1>1, <1>2, PTL
=============================================================================
