----------------------------- MODULE TypeNames -----------------------------
(***************************************************************************)
(* Which names are types: the sets the lexer keeps (lang.rs) beside the    *)
(* symbol table the generator keeps, over the same declarations.           *)
(*                                                                         *)
(* The lexer makes a name TYPE_NAME or IDENTIFIER when it is read; the     *)
(* parser's reductions enter typedef names into the set of the innermost   *)
(* braces, at the end of a whole declaration.  The generator looks the     *)
(* name up again, in scopes that the braces of struct, enum and            *)
(* initializers do not open.  It reads the unit once it is parsed; here    *)
(* both read each token, which tells the same of every name.               *)
(*                                                                         *)
(* env is what the names mean by C99 6.2.1 and 6.7.7.                      *)
(***************************************************************************)
EXTENDS Integers, Sequences, FiniteSets

CONSTANTS
    Names,      \* the identifiers of a unit
    Builtins,   \* those that are types from the start: __builtin_va_list
    MaxScopes,  \* bound: depth of env
    MaxBraces   \* bound: open braces of struct, enum and initializers

NoName == "none"

ASSUME TypeNamesAssumption ==
    /\ Builtins \subseteq Names /\ NoName \notin Names
    /\ MaxScopes \in Nat /\ MaxBraces \in Nat

VARIABLES
    TYPE_SET,   \* a stack of sets of type names
    IS_TYPEDEF, \* the last declaration_specifiers held a typedef
    symTable,   \* the generator's scopes: what each name is
    phase,      \* where the parser stands in a declaration
    decl,       \* the declaration being read
    braces,     \* the declarations whose struct, enum or initializer is open
    outcome,    \* "running", or what ended the unit
    env,        \* C's scopes
    strayed     \* where a name was read as a type that is none in C, or vice versa

vars == <<TYPE_SET, IS_TYPEDEF, symTable, phase, decl, braces, outcome, env, strayed>>
lexer == <<TYPE_SET, IS_TYPEDEF>>
scopes == <<symTable, env>>

Phases == {"start", "open", "specifiers", "name", "declarator", "parameters", "initializer",
           "enumerators"}
NoDecl == [typedef |-> FALSE, types |-> 0, name |-> NoName, list |-> {},
           function |-> FALSE, params |-> {}]
EmptyScope == [n \in Names |-> "none"]
BuiltinScope == [n \in Names |-> IF n \in Builtins THEN "type" ELSE "none"]
ParameterScope(ns) == [n \in Names |-> IF n \in ns THEN "value" ELSE "none"]

\* ScopedMap::find and insert.
find(sc, n) ==
    IF \E i \in DOMAIN sc : sc[i][n] # "none"
    THEN sc[CHOOSE i \in DOMAIN sc : /\ sc[i][n] # "none"
                                     /\ \A j \in DOMAIN sc : i < j => sc[j][n] = "none"][n]
    ELSE "none"
insert(sc, ns, kind) ==
    [sc EXCEPT ![Len(sc)] = [n \in Names |-> IF n \in ns THEN kind ELSE @[n]]]

is_type(n) == \E i \in DOMAIN TYPE_SET : n \in TYPE_SET[i]
\* [fault] Names are entered into the set that is_type searches last.
register_types_first(ns) == [TYPE_SET EXCEPT ![1] = @ \cup ns]
register_types(ns) == [TYPE_SET EXCEPT ![Len(TYPE_SET)] = @ \cup ns]

push(sets) == Append(sets, {})
pop(stack) == SubSeq(stack, 1, Len(stack) - 1)
running == outcome = "running"
InBraces(kind) == braces # <<>> /\ braces[Len(braces)].kind = kind
Member == InBraces("struct")
\* A name is read as a type, or not, other than in C.  A parameter of the
\* list being read hides the name there.
TypeInC(n) == find(env, n) = "type" /\ ~(phase = "parameters" /\ n \in decl.params)
Stray(n, read) == strayed \cup (IF TypeInC(n) # read THEN {"name"} ELSE {})

\* A unit begins: global_start_trig, and gen_llvm_ir_cxx's scope.
UnitStart ==
    /\ running /\ phase = "start"
    /\ TYPE_SET' = push(TYPE_SET)
    /\ symTable' = <<BuiltinScope>> /\ env' = <<BuiltinScope, EmptyScope>>
    /\ phase' = "open"
    /\ UNCHANGED <<IS_TYPEDEF, decl, braces, outcome, strayed>>

\* global_end_trig.
UnitEnd ==
    /\ running /\ phase = "open" /\ braces = <<>> /\ Len(env) = 2
    /\ TYPE_SET' = pop(TYPE_SET)
    /\ symTable' = <<>> /\ env' = <<>>
    /\ phase' = "start" /\ strayed' = {}
    /\ UNCHANGED <<IS_TYPEDEF, decl, braces, outcome>>
-----------------------------------------------------------------------------
Specifying == running /\ phase \in {"open", "specifiers"}

Typedef ==
    /\ Specifying /\ ~Member
    /\ phase' = "specifiers" /\ decl' = [decl EXCEPT !.typedef = TRUE]
    /\ UNCHANGED <<lexer, scopes, braces, outcome, strayed>>

\* static, const.
Qualifier ==
    /\ Specifying
    /\ phase' = "specifiers"
    /\ UNCHANGED <<lexer, scopes, decl, braces, outcome, strayed>>

\* void, int, a tag without body.
BasicType ==
    /\ Specifying /\ decl.types < 2
    /\ phase' = "specifiers" /\ decl' = [decl EXCEPT !.types = @ + 1]
    /\ UNCHANGED <<lexer, scopes, braces, outcome, strayed>>

\* What the generator makes of a name read as a type, or as a value.
AsType(n) ==
    CASE find(symTable, n) = "type" -> "running"
      [] find(symTable, n) = "value" -> "not_a_type"
      [] OTHER -> "not_found"
AsValue(n) ==
    CASE find(symTable, n) = "value" -> "running"
      [] find(symTable, n) = "type" -> "type_as_value"
      [] OTHER -> "undeclared"

\* A type name where a specifier may stand is one, also behind other types;
\* in C it is then the name that is declared.
TypeName(n) ==
    /\ Specifying /\ is_type(n) /\ decl.types < 2
    /\ phase' = "specifiers" /\ decl' = [decl EXCEPT !.types = @ + 1]
    /\ outcome' = AsType(n)
    /\ strayed' = Stray(n, TRUE) \cup (IF decl.types > 0 THEN {"name"} ELSE {})
    /\ UNCHANGED <<lexer, scopes, braces>>

\* struct { and enum {, initializers.
Brace(kind, d) ==
    /\ Len(braces) < MaxBraces
    /\ braces' = Append(braces, [kind |-> kind, decl |-> d])
    /\ TYPE_SET' = push(TYPE_SET)
Unbrace(kind) ==
    /\ running /\ InBraces(kind)
    /\ braces' = pop(braces)
    /\ TYPE_SET' = pop(TYPE_SET)
    /\ decl' = braces[Len(braces)].decl

OpenStruct ==
    /\ Specifying /\ decl.types < 2
    /\ Brace("struct", [decl EXCEPT !.types = @ + 1])
    /\ phase' = "open" /\ decl' = NoDecl
    /\ UNCHANGED <<IS_TYPEDEF, scopes, outcome, strayed>>
CloseStruct ==
    /\ phase = "open" /\ Unbrace("struct")
    /\ phase' = "specifiers"
    /\ UNCHANGED <<IS_TYPEDEF, scopes, outcome, strayed>>

OpenEnum ==
    /\ Specifying /\ decl.types < 2
    /\ Brace("enum", [decl EXCEPT !.types = @ + 1])
    /\ phase' = "enumerators" /\ decl' = NoDecl
    /\ UNCHANGED <<IS_TYPEDEF, scopes, outcome, strayed>>
Enumerator(n) ==
    /\ running /\ phase = "enumerators"
    /\ outcome' = CASE is_type(n) -> "syntax_error"
                    [] ~is_type(n) /\ symTable[Len(symTable)][n] # "none" -> "redefined"
                    [] OTHER -> "running"
    /\ IF outcome' = "running"
       THEN symTable' = insert(symTable, {n}, "value") /\ env' = insert(env, {n}, "value")
       ELSE UNCHANGED scopes
    /\ UNCHANGED <<lexer, phase, decl, braces, strayed>>
CloseEnum ==
    /\ phase = "enumerators" /\ Unbrace("enum")
    /\ phase' = "specifiers"
    /\ UNCHANGED <<IS_TYPEDEF, scopes, outcome, strayed>>
-----------------------------------------------------------------------------
\* [fault] The flag is set by a typedef and left alone by other declarations.
SpecifiersSticky == IS_TYPEDEF' = IF Member THEN IS_TYPEDEF ELSE IS_TYPEDEF \/ decl.typedef
\* declaration_specifiers_i; a member's specifiers set no flag.
Specifiers == IS_TYPEDEF' = IF Member THEN IS_TYPEDEF ELSE decl.typedef

\* The specifiers end, at a name or a *: the generator wants one type.
OneType == IF decl.types < 2 THEN "running" ELSE "two_types"

FirstName(n) ==
    /\ running /\ phase = "specifiers" /\ ~is_type(n)
    /\ Specifiers
    /\ phase' = "declarator" /\ decl' = [decl EXCEPT !.name = n]
    /\ outcome' = OneType
    /\ strayed' = IF decl.types = 0 THEN Stray(n, FALSE) ELSE strayed
    /\ UNCHANGED <<TYPE_SET, scopes, braces>>

Pointer ==
    /\ running /\ phase = "specifiers"
    /\ Specifiers
    /\ phase' = "name" /\ outcome' = OneType
    /\ UNCHANGED <<TYPE_SET, scopes, decl, braces, strayed>>

Name(n) ==
    /\ running /\ phase = "name"
    /\ IF is_type(n)
       THEN outcome' = "syntax_error" /\ UNCHANGED <<phase, decl>>
       ELSE phase' = "declarator" /\ decl' = [decl EXCEPT !.name = n] /\ UNCHANGED outcome
    /\ UNCHANGED <<lexer, scopes, braces, strayed>>

OpenParameters ==
    /\ running /\ phase = "declarator" /\ ~decl.function
    /\ phase' = "parameters" /\ decl' = [decl EXCEPT !.function = TRUE]
    /\ UNCHANGED <<lexer, scopes, braces, outcome, strayed>>

\* int n: a type name as n is one more specifier.
TypedParameter(n) ==
    /\ running /\ phase = "parameters"
    /\ decl' = [decl EXCEPT !.params = @ \cup {n}]
    /\ outcome' = IF is_type(n) THEN "two_types" ELSE "running"
    /\ UNCHANGED <<lexer, scopes, phase, braces, strayed>>

\* t n.
NamedParameter(t, n) ==
    /\ running /\ phase = "parameters"
    /\ decl' = [decl EXCEPT !.params = @ \cup {n}]
    /\ outcome' = CASE ~is_type(t) -> "syntax_error"
                    [] is_type(t) /\ is_type(n) -> "two_types"
                    [] OTHER -> AsType(t)
    /\ strayed' = Stray(t, is_type(t))
    /\ UNCHANGED <<lexer, scopes, phase, braces>>

\* n alone: the type of a parameter without name, or one of a list of
\* names, which the generator knows nothing of.
BareParameter(n) ==
    /\ running /\ phase = "parameters"
    /\ decl' = [decl EXCEPT !.params = @ \cup {NoName}]
    /\ outcome' = IF is_type(n) THEN AsType(n) ELSE "unimplemented"
    /\ strayed' = Stray(n, is_type(n))
    /\ UNCHANGED <<lexer, scopes, phase, braces>>

\* const n, register n: a name that is no type is the parameter's, which is
\* an int then, with a warning.  In C the typedef being read may have
\* declared it a type.
QualifiedParameter(n) ==
    /\ running /\ phase = "parameters"
    /\ decl' = [decl EXCEPT !.params = @ \cup {IF is_type(n) THEN NoName ELSE n}]
    /\ outcome' = IF is_type(n) THEN AsType(n) ELSE "running"
    /\ strayed' = IF ~is_type(n) /\ TypeInC(n) /\ decl.typedef /\ n \in decl.list
                  THEN strayed \cup {"parameter"} ELSE Stray(n, is_type(n))
    /\ UNCHANGED <<lexer, scopes, phase, braces>>

CloseParameters ==
    /\ running /\ phase = "parameters"
    /\ phase' = "declarator"
    /\ UNCHANGED <<lexer, scopes, decl, braces, outcome, strayed>>

\* sizeof ( n ), read as an expression or a type; n + 1, read as an expression.
Use(n, operand) ==
    /\ running
    /\ \/ phase \in {"declarator", "parameters", "initializer", "enumerators"}
       \/ phase = "open" /\ braces = <<>> /\ Len(env) > 2 /\ ~(operand /\ is_type(n))
    /\ outcome' = CASE ~is_type(n) -> AsValue(n)
                    [] is_type(n) /\ operand -> "syntax_error"
                    [] OTHER -> AsType(n)
    /\ strayed' = Stray(n, is_type(n))
    /\ UNCHANGED <<lexer, scopes, phase, decl, braces>>

\* C's scope of a name begins behind its declarator, the generator's behind
\* its initializer.
Kind == IF decl.typedef THEN "type" ELSE "value"
Declares == IF Member THEN {} ELSE {decl.name}

Assign ==
    /\ running /\ phase = "declarator" /\ ~Member
    /\ phase' = "initializer"
    /\ env' = insert(env, Declares, Kind)
    /\ outcome' = IF decl.typedef THEN "initialized" ELSE "running"
    /\ UNCHANGED <<lexer, symTable, decl, braces, strayed>>
OpenInitializer ==
    /\ running /\ phase = "initializer"
    /\ Brace("initializer", decl)
    /\ UNCHANGED <<IS_TYPEDEF, scopes, phase, decl, outcome, strayed>>
CloseInitializer ==
    /\ phase = "initializer" /\ Unbrace("initializer")
    /\ UNCHANGED <<IS_TYPEDEF, scopes, phase, outcome, strayed>>

\* The generator's share of a declarator that ends.
Declared ==
    /\ env' = insert(env, Declares, Kind)
    /\ IF decl.typedef /\ symTable[Len(symTable)][decl.name] # "none"
       THEN outcome' = "redefined" /\ UNCHANGED symTable
       ELSE symTable' = insert(symTable, Declares, Kind) /\ UNCHANGED outcome

Declarator == running /\ phase \in {"declarator", "initializer"} /\ ~InBraces("initializer")

Comma ==
    /\ Declarator
    /\ Declared
    /\ phase' = "name"
    /\ decl' = [decl EXCEPT !.name = NoName, !.list = @ \cup {decl.name},
                            !.function = FALSE, !.params = {}]
    /\ UNCHANGED <<lexer, braces, strayed>>

\* init_declarator_list_i.
End ==
    /\ Declarator
    /\ Declared
    /\ phase' = "open" /\ decl' = NoDecl
    /\ TYPE_SET' = IF IS_TYPEDEF /\ ~Member THEN register_types(decl.list \cup {decl.name}) ELSE TYPE_SET
    /\ UNCHANGED <<IS_TYPEDEF, braces, strayed>>

\* A declaration without declarator.
EndOfSpecifiers ==
    /\ running /\ phase = "specifiers"
    /\ Specifiers
    /\ phase' = "open" /\ decl' = NoDecl
    /\ outcome' = OneType
    /\ UNCHANGED <<TYPE_SET, scopes, braces, strayed>>
-----------------------------------------------------------------------------
\* function_definition_prefix, and the {.  The generator, like C, has one
\* scope for the parameters and the body.
OpenBody ==
    /\ running /\ phase = "declarator" /\ decl.function /\ decl.list = {}
    /\ braces = <<>> /\ Len(env) = 2 /\ MaxScopes > 2
    /\ TYPE_SET' = push(IF IS_TYPEDEF THEN register_types({decl.name}) ELSE TYPE_SET)
    /\ env' = Append(insert(env, {decl.name}, "value"), ParameterScope(decl.params))
    /\ outcome' = CASE decl.typedef -> "typedef_body"
                    [] ~decl.typedef /\ symTable[Len(symTable)][decl.name] = "type" -> "redefined"
                    [] ~decl.typedef /\ NoName \in decl.params -> "name_omitted"
                    [] OTHER -> "running"
    /\ symTable' = IF outcome' = "running"
                   THEN Append(insert(symTable, {decl.name}, "value"), ParameterScope(decl.params))
                   ELSE symTable
    /\ phase' = "open" /\ decl' = NoDecl
    /\ UNCHANGED <<IS_TYPEDEF, braces, strayed>>

OpenBlock ==
    /\ running /\ phase = "open" /\ braces = <<>> /\ Len(env) \in 3 .. MaxScopes - 1
    /\ TYPE_SET' = push(TYPE_SET)
    /\ symTable' = Append(symTable, EmptyScope) /\ env' = Append(env, EmptyScope)
    /\ UNCHANGED <<IS_TYPEDEF, phase, decl, braces, outcome, strayed>>

\* [fault] The set of a block is kept when the block is left.
CloseBlockKept ==
    /\ running /\ phase = "open" /\ braces = <<>> /\ Len(env) > 2
    /\ TYPE_SET' = Append(SubSeq(TYPE_SET, 1, Len(TYPE_SET) - 2),
                          TYPE_SET[Len(TYPE_SET) - 1] \cup TYPE_SET[Len(TYPE_SET)])
    /\ symTable' = pop(symTable) /\ env' = pop(env)
    /\ UNCHANGED <<IS_TYPEDEF, phase, decl, braces, outcome, strayed>>

\* leave_block_trig.
CloseBlock ==
    /\ running /\ phase = "open" /\ braces = <<>> /\ Len(env) > 2
    /\ TYPE_SET' = pop(TYPE_SET)
    /\ symTable' = pop(symTable) /\ env' = pop(env)
    /\ UNCHANGED <<IS_TYPEDEF, phase, decl, braces, outcome, strayed>>

Init ==
    /\ TYPE_SET = <<Builtins>> /\ IS_TYPEDEF = FALSE
    /\ symTable = <<>> /\ env = <<>>
    /\ phase = "start" /\ decl = NoDecl /\ braces = <<>>
    /\ outcome = "running" /\ strayed = {}

Next ==
    \/ UnitStart \/ UnitEnd \/ Typedef \/ Qualifier \/ BasicType
    \/ OpenStruct \/ CloseStruct \/ OpenEnum \/ CloseEnum
    \/ Pointer \/ Assign \/ OpenInitializer \/ CloseInitializer
    \/ Comma \/ End \/ OpenParameters \/ CloseParameters \/ EndOfSpecifiers \/ OpenBody \/ OpenBlock \/ CloseBlock
    \/ \E n \in Names : \/ TypeName(n) \/ Enumerator(n) \/ FirstName(n) \/ Name(n)
                        \/ \E operand \in BOOLEAN : Use(n, operand)
                        \/ TypedParameter(n) \/ BareParameter(n) \/ QualifiedParameter(n)
                        \/ \E t \in Names : NamedParameter(t, n)

Spec == Init /\ [][Next]_vars
-----------------------------------------------------------------------------
Outcomes == {"running", "syntax_error", "two_types", "redefined", "initialized",
             "undeclared", "not_found", "not_a_type", "type_as_value", "unimplemented",
             "typedef_body", "name_omitted"}
Declarations == [typedef : BOOLEAN, types : 0 .. 2, name : Names \cup {NoName},
                 list : SUBSET Names, function : BOOLEAN,
                 params : SUBSET (Names \cup {NoName})]
OpenBraces == [kind : {"struct", "enum", "initializer"}, decl : Declarations]
Kinds == {"none", "type", "value"}

(***************************************************************************)
(* TYPE_SET has a set for each of C's scopes and each open brace that is   *)
(* none, so a reduction never pops or fills another's.                     *)
(***************************************************************************)
TypeOK ==
    /\ TYPE_SET \in Seq(SUBSET Names) /\ IS_TYPEDEF \in BOOLEAN
    /\ symTable \in Seq([Names -> Kinds]) /\ env \in Seq([Names -> Kinds])
    /\ phase \in Phases /\ decl \in Declarations /\ outcome \in Outcomes
    /\ braces \in Seq(OpenBraces)
    /\ strayed \subseteq {"name", "parameter"}
    /\ phase = "start" => Len(TYPE_SET) = 1 /\ env = <<>> /\ braces = <<>>
    /\ phase # "start" => /\ Len(TYPE_SET) = Len(env) + Len(braces)
                          /\ Len(env) >= 2 /\ symTable # <<>>

(***************************************************************************)
(* What has been accepted was read as in C: every name so far was taken    *)
(* for a type exactly where it is one, and the lexer knows exactly C's     *)
(* types.  A declaration that C and the parser read differently, because   *)
(* it hides a type name or uses one of its own list, is refused, with one  *)
(* exception: in typedef char T, F(const T); T is taken for the name of    *)
(* an int parameter.                                                       *)
(***************************************************************************)
AcceptedUnitsAreReadAsC ==
    running /\ phase = "open" /\ braces = <<>> =>
        /\ strayed \subseteq {"parameter"}
        /\ \A n \in Names : is_type(n) <=> find(env, n) = "type"

(***************************************************************************)
(* What the lexer calls a type, the generator finds as one: its error that *)
(* a type name is not found or names no type never shows.  A name that it  *)
(* reads as a value is a type only within the typedef that declares it.    *)
(***************************************************************************)
ResolvedAsRead ==
    /\ outcome \notin {"not_found", "not_a_type"}
    /\ outcome = "type_as_value" => decl.typedef /\ decl.list # {}

(***************************************************************************)
(* The sets outlive a translation unit; each unit starts from the built-in *)
(* types all the same.                                                     *)
(***************************************************************************)
UnitsStartAlike == phase = "start" => TYPE_SET = <<Builtins>> /\ symTable = <<>>
=============================================================================
