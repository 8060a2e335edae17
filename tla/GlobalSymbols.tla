--------------------------- MODULE GlobalSymbols ---------------------------
(***************************************************************************)
(* Names, linkage and global objects: the declaration handler of           *)
(* ir-gen/src/node/initializer.cc, the function header of irgen.cc and     *)
(* declare_global of global.h, over one translation unit.                  *)
(*                                                                         *)
(* A declaration binds a name in the innermost scope of symTable and, if   *)
(* the object is global, in globObjects, whose entry decides what later    *)
(* declarations of the name mean.  The module holds the objects; LLVM      *)
(* renames a global whose symbol is taken.                                 *)
(*                                                                         *)
(* The unit's declarations are chosen as they are visited.  `denotes` is a *)
(* history: which object each declaration of a C entity was bound to.      *)
(***************************************************************************)
EXTENDS Integers, Sequences, FiniteSets

CONSTANTS
    Names,
    ObjectTypes,    \* complete object types, two of them never the same
    FunctionTypes,
    Inits,          \* initializers a program may write
    MaxDeclarations,  \* bound: declarations of the unit
    MaxScopes         \* bound: depth of symTable

ASSUME GlobalSymbolsAssumption ==
    /\ ObjectTypes \cap FunctionTypes = {}
    /\ {"array", "open_array", "none"} \cap (ObjectTypes \cup FunctionTypes) = {}
    /\ Inits \cap {"none", "zero"} = {}
    /\ "renamed" \notin Names
    /\ MaxDeclarations \in Nat /\ MaxScopes \in Nat

VARIABLES
    objects,     \* the module's globals, in creation order
    globObjects, \* name -> Global, NoGlobal while undeclared
    symTable,    \* scopes, innermost last; the first is file scope
    pc,          \* "unit", or how the walk of the unit ended
    errors,      \* a MSG_TYPE_ERROR was reported without stopping
    declarations,  \* declarations and definitions visited
    denotes      \* history: what each declaration of a global was bound to

vars == <<objects, globObjects, symTable, pc, errors, declarations, denotes>>

----------------------------------------------------------------------------
Storages == {"none", "static", "extern"}
VariableTypes == ObjectTypes \cup {"array", "open_array"}
Objects == DOMAIN objects
NoObject == 0

\* symTable's Symbol and globObjects' Global.
Value(o, t) == [is |-> "value", obj |-> o, type |-> t]
Typedef(t) == [is |-> "type", obj |-> NoObject, type |-> t]
Unbound == [is |-> "none", obj |-> NoObject, type |-> "none"]
Global(o, t, internal, allocated) ==
    [obj |-> o, type |-> t, is_internal |-> internal, is_allocated |-> allocated]
NoGlobal == Global(NoObject, "none", FALSE, FALSE)
EmptyScope == [n \in Names |-> Unbound]

depth == Len(symTable)
InScope(n) == symTable[depth][n]
\* [fault] a global is looked for in the innermost scope only.
DeclaredInScope(n) == globObjects[n] # NoGlobal /\ InScope(n) # Unbound
\* globObjects.find
Declared(n) == globObjects[n] # NoGlobal

\* The C entity a declaration of a global names: a static local is one of its
\* own, all others of a name are one.
Entity(n, storage) ==
    IF storage = "static" /\ depth > 1 THEN <<"local", declarations>>
    ELSE <<"linked", n>>
Bound(n, o, t, storage, defined) ==
    denotes' = denotes \cup
        {[entity |-> Entity(n, storage), obj |-> o, type |-> t,
          storage |-> storage, defined |-> defined, at |-> declarations]}

\* symTable.insert
Insert(n, symbol) == symTable' = [symTable EXCEPT ![depth][n] = symbol]
\* symTable.insert_if with the default callback: an earlier symbol of the scope
\* is reported and replaced.
InsertIf(n, symbol) ==
    /\ Insert(n, symbol)
    /\ errors' = (errors \/ InScope(n) # Unbound)

\* A new global of the module, renamed by LLVM when its symbol is taken.
NewObject(n, kind, linkage, init) ==
    [kind |-> kind, linkage |-> linkage, init |-> init, bodies |-> 0,
     symbol |-> IF \E o \in Objects : objects[o].symbol = n THEN "renamed" ELSE n]
new == Len(objects) + 1

\* [fault] the new entry always replaces the old one.
DeclareGlobalReplaces(prev, curr) ==
    IF \/ prev.type # curr.type
       \/ prev.is_allocated /\ curr.is_allocated
       \/ ~prev.is_allocated /\ prev.is_internal # curr.is_internal
    THEN {} ELSE {curr}
\* [fault] types are not compared.
DeclareGlobalUntyped(prev, curr) ==
    IF \/ prev.is_allocated /\ curr.is_allocated
       \/ ~prev.is_allocated /\ prev.is_internal # curr.is_internal
    THEN {}
    ELSE {IF prev.is_allocated THEN prev ELSE curr}
\* declare_global: the entry globObjects keeps of an old and a new declaration,
\* or none when it halts.
DeclareGlobal(prev, curr) ==
    IF \/ prev.type # curr.type
       \/ prev.is_allocated /\ curr.is_allocated
       \/ ~prev.is_allocated /\ prev.is_internal # curr.is_internal
    THEN {}
    ELSE {IF prev.is_allocated THEN prev ELSE curr}

Visit == /\ pc = "unit"
         /\ declarations < MaxDeclarations
         /\ declarations' = declarations + 1
Stop(how) == pc' = how /\ UNCHANGED <<objects, globObjects, symTable, errors,
                                      denotes>>
Halt == Stop("halted")

----------------------------------------------------------------------------
(* declaration: typedefs, functions *)

TypedefName(n, t) ==
    /\ Visit
    /\ InsertIf(n, Typedef(t))
    /\ UNCHANGED <<objects, globObjects, pc, denotes>>

\* "variable has incomplete type": reported, and nothing is declared.
Unallocable ==
    /\ Visit
    /\ errors' = TRUE
    /\ UNCHANGED <<objects, globObjects, symTable, pc, denotes>>

\* `static` in a block halts, unless the declaration has an initializer, which
\* is only reported.
FunctionAllowed(storage, initialized) ==
    initialized \/ storage # "static" \/ depth = 1

\* A function that globObjects knows: its entry is updated.
RedeclareFunction(n, t, storage, initialized) ==
    /\ Visit
    /\ Declared(n)
    /\ FunctionAllowed(storage, initialized)
    /\ LET g == globObjects[n]
           curr == Global(g.obj, t, storage = "static", FALSE)
       IN \E kept \in DeclareGlobal(g, curr) :
            /\ globObjects' = [globObjects EXCEPT ![n] = kept]
            /\ Insert(n, Value(g.obj, t))
            /\ Bound(n, g.obj, t, storage, FALSE)
    /\ errors' = (errors \/ initialized)
    /\ UNCHANGED <<objects, pc>>

\* One that it does not know, or does not know any more, is created: always
\* with external linkage.
DeclareFunction(n, t, storage, initialized) ==
    /\ Visit
    /\ ~Declared(n)
    /\ FunctionAllowed(storage, initialized)
    /\ objects' = Append(objects, NewObject(n, "function", "external", "none"))
    /\ globObjects' = [globObjects EXCEPT
                         ![n] = Global(new, t, storage = "static", FALSE)]
    /\ Insert(n, Value(new, t))
    /\ errors' = (errors \/ initialized)
    /\ Bound(n, new, t, storage, FALSE)
    /\ UNCHANGED pc

\* "function declared in block scope cannot have `static` storage class",
\* "conflicting types", "non-static declaration follows static declaration"...
RejectFunction(n, t, storage, initialized) ==
    /\ Visit
    /\ \/ ~FunctionAllowed(storage, initialized)
       \/ /\ Declared(n)
          /\ DeclareGlobal(globObjects[n],
                Global(globObjects[n].obj, t, storage = "static", FALSE)) = {}
    /\ Halt

----------------------------------------------------------------------------
(* declaration: variables *)

IsGlobal(storage) == storage \in {"static", "extern"} \/ depth = 1

\* make_type_len: an array gets its length from its initializer.
Completed(t, init) == IF t = "open_array" /\ init # "none" THEN "array" ELSE t

\* "external variable must not have an initializer", "definition of variable
\* with array type needs an explicit size or an initializer"
Definable(t, storage, init) ==
    IF storage = "extern" THEN init = "none"
    ELSE t = "open_array" => init # "none"

\* The name is in globObjects: its object is used, whatever it was declared as.
\* Only an object without explicit initializer is initialized; a static
\* declaration is entered without any comparison.
RedeclareVariable(n, t, storage, init) ==
    LET g == globObjects[n]
        type == Completed(t, init)
        curr == Global(g.obj, type, storage = "static", init # "none")
        sets == ~g.is_allocated /\ init # "none"
    IN /\ Visit
       /\ IsGlobal(storage) /\ Declared(n) /\ Definable(t, storage, init)
       /\ sets => objects[g.obj].kind = "variable"
       /\ objects' = IF sets THEN [objects EXCEPT ![g.obj].init = init]
                             ELSE objects
       /\ \/ \E kept \in IF storage = "static" THEN {curr}
                         ELSE DeclareGlobal(g, curr) :
                /\ globObjects' = [globObjects EXCEPT ![n] = kept]
                /\ Insert(n, Value(g.obj, type))
                /\ Bound(n, g.obj, type, storage, init # "none")
                /\ UNCHANGED pc
          \/ /\ storage # "static" /\ DeclareGlobal(g, curr) = {}
             /\ pc' = "halted"
             /\ UNCHANGED <<globObjects, symTable, denotes>>
       /\ UNCHANGED errors

\* setInitializer through a pointer to a Function: undefined behaviour.
InitializeFunction(n, t, storage, init) ==
    /\ Visit
    /\ IsGlobal(storage) /\ Declared(n) /\ Definable(t, storage, init)
    /\ init # "none" /\ ~globObjects[n].is_allocated
    /\ objects[globObjects[n].obj].kind = "function"
    /\ Stop("crashed")

\* The first declaration that globObjects sees creates the object; unless it is
\* extern it is a definition.
DeclareVariable(n, t, storage, init) ==
    LET type == Completed(t, init)
        linkage == CASE storage = "extern" -> "external"
                     [] storage = "static" -> "internal"
                     [] OTHER -> "weak"
        value == IF storage # "extern" /\ init = "none" THEN "zero" ELSE init
    IN /\ Visit
       /\ IsGlobal(storage) /\ ~Declared(n) /\ Definable(t, storage, init)
       /\ objects' = Append(objects, NewObject(n, "variable", linkage, value))
       /\ globObjects' = [globObjects EXCEPT
             ![n] = Global(new, type, storage = "static", init # "none")]
       /\ Insert(n, Value(new, type))
       /\ Bound(n, new, type, storage, init # "none")
       /\ UNCHANGED <<pc, errors>>

\* A stack variable; its name in the same scope is reported and replaced.
DeclareLocal(n, t, init) ==
    /\ Visit
    /\ depth > 1 /\ Definable(t, "none", init)
    /\ InsertIf(n, Value(NoObject, Completed(t, init)))
    /\ UNCHANGED <<objects, globObjects, pc, denotes>>

RejectVariable(t, storage, init) ==
    /\ Visit
    /\ ~Definable(t, storage, init)
    /\ Halt

----------------------------------------------------------------------------
(* function_definition; compound_statement *)

\* The object a body is given to: the function that has the symbol, if any.
\* [fault] a definition always creates its function.
BodyAlwaysNew(n) == {}
BodyOf(n) ==
    {o \in Objects : objects[o].kind = "function" /\ objects[o].symbol = n}

\* Two parameters of one name are reported.
FunctionDefinition(n, t, parameters) ==
    /\ Visit
    /\ depth = 1 /\ depth < MaxScopes
    /\ InScope(n) # Unbound => InScope(n).is = "value" /\ InScope(n).type = t
    /\ LET body == BodyOf(n)
           o == IF body = {} THEN new ELSE CHOOSE b \in body : TRUE
           created == IF body = {}
                      THEN Append(objects, NewObject(n, "function", "external",
                                                     "none"))
                      ELSE objects
       IN /\ objects' = [created EXCEPT ![o].bodies = @ + 1]
          /\ symTable' = << [symTable[1] EXCEPT ![n] = Value(o, t)],
                            [p \in Names |-> IF p \in parameters
                               THEN Value(NoObject, "none") ELSE Unbound] >>
          /\ Bound(n, o, t, "none", TRUE)
    /\ errors' \in IF parameters = {} THEN {errors} ELSE {errors, TRUE}
    /\ UNCHANGED <<globObjects, pc>>

\* "redefination as different kind of symbol", "forward declaration conflicts"
RejectDefinition(n, t) ==
    /\ Visit
    /\ depth = 1 /\ InScope(n) # Unbound
    /\ InScope(n).is = "type" \/ InScope(n).type # t
    /\ Halt

OpenScope ==
    /\ pc = "unit"
    /\ depth > 1 /\ depth < MaxScopes
    /\ symTable' = Append(symTable, EmptyScope)
    /\ UNCHANGED <<objects, globObjects, pc, errors, declarations, denotes>>

\* The end of a compound statement or of a function.
CloseScope ==
    /\ pc = "unit"
    /\ depth > 1
    /\ symTable' = SubSeq(symTable, 1, depth - 1)
    /\ UNCHANGED <<objects, globObjects, pc, errors, declarations, denotes>>

\* An error in an expression, an initializer, a typedef with an initializer.
SemanticError ==
    /\ pc = "unit"
    /\ Halt
    /\ UNCHANGED declarations

UnitEnd ==
    /\ pc = "unit" /\ depth = 1
    /\ pc' = "finished"
    /\ globObjects' = [n \in Names |-> NoGlobal]
    /\ symTable' = <<>>
    /\ UNCHANGED <<objects, errors, declarations, denotes>>

Stay == pc # "unit" /\ UNCHANGED vars

----------------------------------------------------------------------------
Init ==
    /\ objects = <<>>
    /\ globObjects = [n \in Names |-> NoGlobal]
    /\ symTable = <<EmptyScope>>
    /\ pc = "unit" /\ errors = FALSE /\ declarations = 0
    /\ denotes = {}

FunctionDeclaration ==
    \E n \in Names, t \in FunctionTypes, storage \in Storages, i \in BOOLEAN :
        \/ DeclareFunction(n, t, storage, i)
        \/ RedeclareFunction(n, t, storage, i)
        \/ RejectFunction(n, t, storage, i)

VariableDeclaration ==
    \E t \in VariableTypes, storage \in Storages, init \in Inits \cup {"none"} :
        \/ \E n \in Names : \/ DeclareVariable(n, t, storage, init)
                            \/ RedeclareVariable(n, t, storage, init)
                            \/ InitializeFunction(n, t, storage, init)
        \/ RejectVariable(t, storage, init)

Next == \/ FunctionDeclaration
        \/ VariableDeclaration
        \/ \E n \in Names, t \in VariableTypes, i \in Inits \cup {"none"} :
              DeclareLocal(n, t, i)
        \/ \E n \in Names, t \in ObjectTypes \cup FunctionTypes :
              TypedefName(n, t)
        \/ Unallocable
        \/ \E n \in Names, t \in FunctionTypes :
              \/ \E parameters \in SUBSET Names :
                    FunctionDefinition(n, t, parameters)
              \/ RejectDefinition(n, t)
        \/ OpenScope \/ CloseScope \/ SemanticError \/ UnitEnd \/ Stay

Spec == Init /\ [][Next]_vars

----------------------------------------------------------------------------
(* Properties *)

Symbols == [is : {"none", "value", "type"}, obj : 0..Len(objects),
            type : VariableTypes \cup FunctionTypes \cup {"none"}]

\* Every binding names an object of the module (or none: a local), and while
\* the unit is walked there is a scope to bind names in.
TypeOK ==
    /\ objects \in Seq([kind : {"function", "variable"},
                        linkage : {"external", "internal", "weak"},
                        init : Inits \cup {"none", "zero"}, bodies : Nat,
                        symbol : Names \cup {"renamed"}])
    /\ globObjects \in [Names ->
          [obj : 0..Len(objects),
           type : VariableTypes \cup FunctionTypes \cup {"none"},
           is_internal : BOOLEAN, is_allocated : BOOLEAN]]
    /\ symTable \in Seq([Names -> Symbols])
    /\ pc \in {"unit", "finished", "halted", "crashed"}
    /\ pc = "unit" => depth > 0
    /\ errors \in BOOLEAN
    /\ declarations \in Nat

Variables(n) ==
    {d \in denotes : d.entity = <<"linked", n>> /\ d.type \in VariableTypes}
Functions(n) ==
    {d \in denotes : d.entity = <<"linked", n>> /\ d.type \in FunctionTypes}
\* No declaration with `static`, a block's included, found the variable.
NeverStatic(n) ==
    \A d \in Variables(n), e \in denotes :
        d.obj = e.obj => e.storage # "static"

\* All declarations of a variable with linkage, at file scope or in any block,
\* denote one object.
LinkedVariablesAreOneObject ==
    \A n \in Names : \A d, e \in Variables(n) : d.obj = e.obj

\* The declarations accepted of a variable that is never declared static have
\* the same type, those that were replaced in globObjects included.
DeclaredTypesAgree ==
    \A n \in Names : NeverStatic(n) =>
        \A d, e \in Variables(n) : d.type = e.type

\* Such a variable is initialized once: the entry of an initialized object
\* survives later declarations without initializer.
RedefinitionsAreReported ==
    \A n \in Names : NeverStatic(n) =>
        \A d, e \in Variables(n) : d.defined /\ e.defined => d = e

\* The entry of a name in globObjects sums up its declarations.
EntriesFollowDeclarations ==
    pc = "unit" => \A n \in Names :
        /\ Declared(n) => globObjects[n].obj # NoObject
        /\ \A d \in Variables(n) :
            /\ Declared(n) /\ globObjects[n].obj = d.obj
            /\ NeverStatic(n) =>
                  /\ globObjects[n].type = d.type
                  /\ d.defined => globObjects[n].is_allocated

\* The inductive invariant of the proofs.
IInv == /\ TypeOK /\ EntriesFollowDeclarations /\ LinkedVariablesAreOneObject
        /\ DeclaredTypesAgree /\ RedefinitionsAreReported

\* A function's first body is given to the object that every declaration
\* before it denotes, in whichever scopes and with whatever storage they were
\* made.
BodyCompletesDeclarations ==
    \A n \in Names :
        LET early == {d \in Functions(n) :
                        \A b \in Functions(n) : b.defined => d.at <= b.at}
        IN \A d, e \in early : d.obj = e.obj

\* What that rests on: declarations are dated, and a function's are bound to
\* functions; while a function has no body, the one object of its symbol is its
\* entry's, which is the object of all its declarations.
HasBody(n) == \E d \in Functions(n) : d.defined
Dated == \A d \in denotes : d.at \in Nat /\ d.at < declarations
FunctionsAreFunctions ==
    /\ \A n \in Names : \A d \in Functions(n) :
          d.obj \in Objects /\ objects[d.obj].kind = "function"
    /\ pc = "unit" => \A n \in Names :
          Declared(n) /\ globObjects[n].type \in FunctionTypes =>
              objects[globObjects[n].obj].kind = "function"
EntriesHoldSymbols ==
    pc = "unit" => \A n \in Names :
        /\ \A d \in Functions(n) :
              ~d.defined => Declared(n) /\ globObjects[n].obj = d.obj
        /\ ~HasBody(n) => \A o \in Objects :
              objects[o].symbol = n <=> Declared(n) /\ globObjects[n].obj = o
Bodies == /\ Dated /\ FunctionsAreFunctions /\ EntriesHoldSymbols
          /\ BodyCompletesDeclarations

\* global.h: "static declaration of `x` follows non-static declaration" is an
\* error, so that no accepted declaration gives internal linkage to a variable
\* that an earlier one had without.
StaticComesFirst ==
    \A n \in Names : \A d, e \in Variables(n) :
        d.at < e.at /\ e.storage = "static" => d.storage = "static"

\* A declaration that finds its object in globObjects declares the same
\* variable again: a static local shares its object with no other variable.
StaticLocalsAreTheirOwn ==
    \A d, e \in denotes :
        (/\ d.entity[1] = "local" /\ e.type \in VariableTypes
         /\ d.obj = e.obj) => d.entity = e.entity
=============================================================================
