------------------------ MODULE GlobalSymbolsProofs ------------------------
(***************************************************************************)
(* What globObjects guarantees of variables, and the symbols of functions, *)
(* for units of any length.                                                *)
(***************************************************************************)
EXTENDS GlobalSymbols, SequenceTheorems, TLAPS

Object == [kind : {"function", "variable"},
           linkage : {"external", "internal", "weak"},
           init : Inits \cup {"none", "zero"}, bodies : Nat,
           symbol : Names \cup {"renamed"}]
Type == VariableTypes \cup FunctionTypes \cup {"none"}
Entry == [obj : 0..Len(objects), type : Type,
          is_internal : BOOLEAN, is_allocated : BOOLEAN]

LEMMA TypesApart ==
    /\ "none" \notin VariableTypes /\ VariableTypes \cap FunctionTypes = {}
    /\ "none" \notin FunctionTypes
  BY GlobalSymbolsAssumption DEF VariableTypes

LEMMA TypeParts ==
    ASSUME TypeOK
    PROVE  /\ objects \in Seq(Object) /\ globObjects \in [Names -> Entry]
           /\ symTable \in Seq([Names -> Symbols])
  BY DEF TypeOK, Object, Entry, Type

LEMMA TypeIntro ==
    ASSUME objects' \in Seq(Object), globObjects' \in [Names -> Entry'],
           symTable' \in Seq([Names -> Symbols']),
           pc' \in {"unit", "finished", "halted", "crashed"},
           pc' = "unit" => Len(symTable') > 0,
           errors' \in BOOLEAN, declarations' \in Nat
    PROVE  TypeOK'
  BY DEF TypeOK, Object, Entry, Type, depth

\* A type, an entry and a binding stay what they are when the module grows.
LEMMA Growth ==
    ASSUME TypeOK, objects' \in Seq(Object), Len(objects') >= Len(objects)
    PROVE  /\ Entry \subseteq Entry' /\ Symbols \subseteq Symbols'
           /\ globObjects \in [Names -> Entry']
           /\ symTable \in Seq([Names -> Symbols'])
  <1>1. 0..Len(objects) \subseteq 0..Len(objects')
    BY TypeParts
  <1>2. Entry \subseteq Entry'  BY <1>1 DEF Entry
  <1>3. Symbols \subseteq Symbols'  BY <1>1 DEF Symbols
  <1>4. [Names -> Entry] \subseteq [Names -> Entry']  BY <1>2
  <1>5. [Names -> Symbols] \subseteq [Names -> Symbols']  BY <1>3
  <1> QED  BY <1>2, <1>3, <1>4, <1>5, TypeParts

\* Binding a name keeps the type of symTable.
LEMMA InsertType ==
    ASSUME TypeOK, depth > 0, NEW S, symTable \in Seq([Names -> S]),
           NEW n \in Names, NEW symbol \in S, Insert(n, symbol)
    PROVE  symTable' \in Seq([Names -> S]) /\ Len(symTable') = Len(symTable)
  <1>1. depth \in 1..Len(symTable)  BY DEF depth
  <1>2. symTable[depth] \in [Names -> S]  BY <1>1
  <1>3. [symTable[depth] EXCEPT ![n] = symbol] \in [Names -> S]  BY <1>2
  <1> QED  BY <1>1, <1>3 DEF Insert

LEMMA NewObjectType ==
    ASSUME TypeOK, NEW n \in Names, NEW kind \in {"function", "variable"},
           NEW linkage \in {"external", "internal", "weak"},
           NEW init \in Inits \cup {"none", "zero"}
    PROVE  /\ NewObject(n, kind, linkage, init) \in Object
           /\ Append(objects, NewObject(n, kind, linkage, init)) \in Seq(Object)
           /\ Len(Append(objects, NewObject(n, kind, linkage, init))) = new
           /\ new \in Nat /\ new > 0 /\ new = Len(objects) + 1
  <1>1. NewObject(n, kind, linkage, init) \in Object
    BY DEF NewObject, Object
  <1>2. objects \in Seq(Object)  BY TypeParts
  <1> HIDE DEF NewObject
  <1> QED  BY <1>1, <1>2, AppendProperties DEF new

\* What declare_global keeps: an entry for the same object, of the type of both
\* declarations, allocated if one of them was.
LEMMA Kept ==
    ASSUME NEW prev, NEW curr, prev.obj = curr.obj,
           prev.is_allocated \in BOOLEAN, curr.is_allocated \in BOOLEAN,
           NEW kept \in DeclareGlobal(prev, curr)
    PROVE  /\ kept \in {prev, curr}
           /\ kept.obj = curr.obj /\ kept.type = curr.type
           /\ prev.type = curr.type
           /\ ~(prev.is_allocated /\ curr.is_allocated)
           /\ prev.is_allocated \/ curr.is_allocated => kept.is_allocated
  <1> DEFINE clash == \/ prev.type # curr.type
                      \/ prev.is_allocated /\ curr.is_allocated
                      \/ /\ ~prev.is_allocated
                         /\ prev.is_internal # curr.is_internal
             chosen == IF prev.is_allocated THEN prev ELSE curr
  <1>1. kept \in IF clash THEN {} ELSE {chosen}
    BY Zenon DEF DeclareGlobal
  <1> HIDE DEF chosen
  <1>2. ~clash /\ kept = chosen
    <2>1. CASE clash
      <3> HIDE DEF clash
      <3> QED  BY <1>1, <2>1
    <2>2. CASE ~clash
      <3> HIDE DEF clash
      <3> QED  BY <1>1, <2>2
    <2> QED  BY <2>1, <2>2
  <1>3. prev.type = curr.type  BY <1>2
  <1>4. ~(prev.is_allocated /\ curr.is_allocated)  BY <1>2
  <1>5. kept = IF prev.is_allocated THEN prev ELSE curr
    BY <1>2 DEF chosen
  <1> QED  BY <1>3, <1>4, <1>5

\* Steps that bind no global keep what is said of declarations.
LEMMA Quiet ==
    ASSUME IInv, UNCHANGED denotes,
           pc' = "unit" => pc = "unit" /\ UNCHANGED globObjects
    PROVE  /\ EntriesFollowDeclarations' /\ LinkedVariablesAreOneObject'
           /\ DeclaredTypesAgree' /\ RedefinitionsAreReported'
  <1>1. \A n \in Names : /\ Variables(n)' = Variables(n)
                         /\ NeverStatic(n)' <=> NeverStatic(n)
    BY DEF Variables, NeverStatic
  <1>2. EntriesFollowDeclarations'
    <2> SUFFICES ASSUME pc' = "unit"  PROVE EntriesFollowDeclarations'
      BY DEF EntriesFollowDeclarations
    <2>1. pc = "unit" /\ globObjects' = globObjects  OBVIOUS
    <2>2. \A n \in Names : Declared(n)' <=> Declared(n)
      BY <2>1 DEF Declared, NoGlobal, Global
    <2> QED  BY <1>1, <2>1, <2>2 DEF IInv, EntriesFollowDeclarations
  <1> QED
    BY <1>1, <1>2
       DEF IInv, LinkedVariablesAreOneObject, DeclaredTypesAgree,
           RedefinitionsAreReported

\* The entry of n becomes `kept`, which is for the object it was for.
Updates(n, kept) ==
    /\ globObjects' = [globObjects EXCEPT ![n] = kept]
    /\ kept.obj # NoObject
    /\ Declared(n) => kept.obj = globObjects[n].obj

LEMMA EntriesAfter ==
    ASSUME TypeOK, NEW n \in Names, NEW kept, Updates(n, kept)
    PROVE  /\ globObjects'[n] = kept /\ Declared(n)'
           /\ \A m \in Names \ {n} : /\ globObjects'[m] = globObjects[m]
                                     /\ Declared(m)' <=> Declared(m)
  <1>1. globObjects \in [Names -> Entry]  BY TypeParts
  <1>2. NoGlobal.obj = NoObject  BY DEF NoGlobal, Global
  <1> QED  BY <1>1, <1>2, NoGlobal' = NoGlobal DEF Updates, Declared

\* A declaration of a function keeps what is said of variables.
LEMMA BindFunction ==
    ASSUME IInv, pc = "unit", NEW n \in Names, NEW kept, Updates(n, kept),
           NEW d, d.type \in FunctionTypes, denotes' = denotes \cup {d},
           Declared(n) => globObjects[n].type \in FunctionTypes
    PROVE  /\ EntriesFollowDeclarations' /\ LinkedVariablesAreOneObject'
           /\ DeclaredTypesAgree' /\ RedefinitionsAreReported'
  <1>1. \A m \in Names : Variables(m)' = Variables(m)
    BY TypesApart DEF Variables
  <1>2. \A m \in Names : NeverStatic(m)' => NeverStatic(m)
    BY <1>1 DEF NeverStatic
  <1>3. EntriesFollowDeclarations'
    <2>1. \A m \in Names : \A e \in Variables(m) :
              Declared(m) /\ globObjects[m].obj = e.obj
      BY DEF IInv, EntriesFollowDeclarations
    <2>2. ASSUME NEW e \in Variables(n), NeverStatic(n)'  PROVE FALSE
      <3>1. globObjects[n].type = e.type /\ Declared(n)
        BY <1>2, <2>2 DEF IInv, EntriesFollowDeclarations
      <3>2. e.type \in VariableTypes  BY DEF Variables
      <3> QED  BY <3>1, <3>2, TypesApart
    <2>3. ASSUME NEW m \in Names
          PROVE  /\ Declared(m)' => globObjects'[m].obj # NoObject
                 /\ \A e \in Variables(m)' :
                     /\ Declared(m)' /\ globObjects'[m].obj = e.obj
                     /\ NeverStatic(m)' =>
                           /\ globObjects'[m].type = e.type
                           /\ e.defined => globObjects'[m].is_allocated
      <3>1. CASE m = n
        <4>1. globObjects'[n] = kept /\ Declared(n)' /\ kept.obj # NoObject
          BY EntriesAfter DEF IInv, Updates
        <4>2. \A e \in Variables(n)' :
                  e \in Variables(n) /\ kept.obj = e.obj /\ ~NeverStatic(n)'
          BY <1>1, <2>1, <2>2 DEF Updates
        <4> QED  BY <3>1, <4>1, <4>2
      <3>2. CASE m # n
        BY <1>1, <1>2, <2>1, <3>2, EntriesAfter
           DEF IInv, EntriesFollowDeclarations
      <3> QED  BY <3>1, <3>2
    <2> QED  BY <2>3 DEF EntriesFollowDeclarations
  <1> QED
    BY <1>1, <1>2, <1>3
       DEF IInv, LinkedVariablesAreOneObject, DeclaredTypesAgree,
           RedefinitionsAreReported

\* A declaration of a variable through the entry of n.
LEMMA BindVariable ==
    ASSUME IInv, pc = "unit", NEW n \in Names, NEW kept, Updates(n, kept),
           NEW d, d.obj = kept.obj, denotes' = denotes \cup {d},
           d.type \in VariableTypes, d.defined \in BOOLEAN,
           d.entity = <<"linked", n>> \/ d.entity[1] = "local",
           d.storage # "static" =>
               /\ d.entity = <<"linked", n>> /\ kept.type = d.type
               /\ d.defined => kept.is_allocated
               /\ Declared(n) =>
                     /\ globObjects[n].type = d.type
                     /\ globObjects[n].is_allocated =>
                           kept.is_allocated /\ ~d.defined
    PROVE  /\ EntriesFollowDeclarations' /\ LinkedVariablesAreOneObject'
           /\ DeclaredTypesAgree' /\ RedefinitionsAreReported'
  <1>1. \A m \in Names \ {n} : Variables(m)' = Variables(m)
    BY DEF Variables
  <1>2. Variables(n) \subseteq Variables(n)'
        /\ Variables(n)' \subseteq Variables(n) \cup {d}
    BY DEF Variables
  <1>3. \A m \in Names : NeverStatic(m)' => NeverStatic(m)
    BY <1>1, <1>2 DEF NeverStatic
  <1>4. \A m \in Names : \A e \in Variables(m) :
            Declared(m) /\ globObjects[m].obj = e.obj
    BY DEF IInv, EntriesFollowDeclarations
  <1>5. \A e \in Variables(n)' : e.obj = kept.obj
    BY <1>2, <1>4 DEF Updates
  <1>6. ASSUME NeverStatic(n)', NEW e \in Variables(n)'
        PROVE  d.storage # "static"
    BY <1>5, <1>6 DEF NeverStatic
  <1>7. ASSUME NeverStatic(n)', NEW e \in Variables(n)'
        PROVE  /\ kept.type = e.type
               /\ e.defined => kept.is_allocated
    <2>1. d.storage # "static"  BY <1>6, <1>7
    <2>2. CASE e = d  BY <2>1, <2>2
    <2>3. CASE e \in Variables(n)
      <3>1. /\ Declared(n) /\ globObjects[n].type = e.type
            /\ e.defined => globObjects[n].is_allocated
        BY <1>3, <1>7, <2>3 DEF IInv, EntriesFollowDeclarations
      <3> QED  BY <2>1, <3>1
    <2> QED  BY <1>2, <2>2, <2>3
  <1>8. EntriesFollowDeclarations'
    <2>1. ASSUME NEW m \in Names
          PROVE  /\ Declared(m)' => globObjects'[m].obj # NoObject
                 /\ \A e \in Variables(m)' :
                     /\ Declared(m)' /\ globObjects'[m].obj = e.obj
                     /\ NeverStatic(m)' =>
                           /\ globObjects'[m].type = e.type
                           /\ e.defined => globObjects'[m].is_allocated
      <3>1. CASE m = n
        <4>1. Declared(n)' /\ globObjects'[n] = kept /\ kept.obj # NoObject
          BY EntriesAfter DEF IInv, Updates
        <4>2. ASSUME NEW e \in Variables(n)'
              PROVE  /\ globObjects'[n].obj = e.obj
                     /\ NeverStatic(n)' =>
                           /\ globObjects'[n].type = e.type
                           /\ e.defined => globObjects'[n].is_allocated
          <5>1. globObjects'[n].obj = e.obj  BY <1>5, <4>1
          <5>2. ASSUME NeverStatic(n)'
                PROVE  /\ globObjects'[n].type = e.type
                       /\ e.defined => globObjects'[n].is_allocated
            <6>1. kept.type = e.type /\ (e.defined => kept.is_allocated)
              BY <1>7, <5>2
            <6> QED  BY <4>1, <6>1
          <5> QED  BY <5>1, <5>2
        <4> QED  BY <3>1, <4>1, <4>2
      <3>2. CASE m # n
        BY <1>1, <1>3, <1>4, <3>2, EntriesAfter
           DEF IInv, EntriesFollowDeclarations
      <3> QED  BY <3>1, <3>2
    <2> QED  BY <2>1 DEF EntriesFollowDeclarations
  <1>9. LinkedVariablesAreOneObject'
    BY <1>1, <1>5 DEF IInv, LinkedVariablesAreOneObject
  <1>10. DeclaredTypesAgree'
    <2>1. ASSUME NeverStatic(n)'
          PROVE  \A e, f \in Variables(n)' : e.type = f.type
      BY <1>7, <2>1
    <2>2. ASSUME NEW m \in Names \ {n}, NeverStatic(m)'
          PROVE  \A e, f \in Variables(m)' : e.type = f.type
      BY <1>1, <1>3, <2>2 DEF IInv, DeclaredTypesAgree
    <2>3. ASSUME NEW m \in Names, NeverStatic(m)'
          PROVE  \A e, f \in Variables(m)' : e.type = f.type
      <3>1. CASE m = n  BY <2>1, <2>3, <3>1
      <3>2. CASE m # n  BY <2>2, <2>3, <3>2
      <3> QED  BY <3>1, <3>2
    <2> QED  BY <2>3 DEF DeclaredTypesAgree
  <1>11. RedefinitionsAreReported'
    <2>1. ASSUME NeverStatic(n)', NEW e \in Variables(n)',
                 NEW f \in Variables(n)', e.defined, f.defined
          PROVE  e = f
      <3>1. d.storage # "static"  BY <1>6, <2>1
      <3>2. ASSUME NEW g \in Variables(n), g.defined  PROVE ~d.defined
        <4>1. Declared(n) /\ globObjects[n].is_allocated
          BY <1>3, <2>1, <3>2 DEF IInv, EntriesFollowDeclarations
        <4> QED  BY <3>1, <4>1
      <3>3. CASE e \in Variables(n) /\ f \in Variables(n)
        BY <1>3, <2>1, <3>3 DEF IInv, RedefinitionsAreReported
      <3> QED  BY <1>2, <2>1, <3>2, <3>3
    <2>2. ASSUME NEW m \in Names \ {n}, NeverStatic(m)'
          PROVE  \A e, f \in Variables(m)' :
                     e.defined /\ f.defined => e = f
      BY <1>1, <1>3, <2>2 DEF IInv, RedefinitionsAreReported
    <2> QED  BY <2>1, <2>2 DEF RedefinitionsAreReported
  <1> QED  BY <1>8, <1>9, <1>10, <1>11

\* A function's body: globObjects is not told of it.
LEMMA BindBody ==
    ASSUME IInv, pc = "unit", UNCHANGED globObjects,
           NEW d, d.type \in FunctionTypes, denotes' = denotes \cup {d}
    PROVE  /\ EntriesFollowDeclarations' /\ LinkedVariablesAreOneObject'
           /\ DeclaredTypesAgree' /\ RedefinitionsAreReported'
  <1>1. \A m \in Names : Variables(m)' = Variables(m)
    BY TypesApart DEF Variables
  <1>2. \A m \in Names : NeverStatic(m)' => NeverStatic(m)
    BY <1>1 DEF NeverStatic
  <1>3. \A m \in Names : Declared(m)' <=> Declared(m)
    BY NoGlobal' = NoGlobal DEF Declared
  <1>4. EntriesFollowDeclarations'
    BY <1>1, <1>2, <1>3 DEF IInv, EntriesFollowDeclarations
  <1> QED
    BY <1>1, <1>2, <1>4
       DEF IInv, LinkedVariablesAreOneObject, DeclaredTypesAgree,
           RedefinitionsAreReported

----------------------------------------------------------------------------
(* One lemma per action *)

\* The walk of the unit has a scope.
LEMMA InUnit ==
    ASSUME IInv, pc = "unit"
    PROVE  TypeOK /\ depth > 0 /\ symTable \in Seq([Names -> Symbols])
  BY DEF IInv, TypeOK

LEMMA StopKeepsInv ==
    ASSUME IInv, NEW how \in {"halted", "crashed"}, Stop(how),
           declarations' \in Nat
    PROVE  IInv'
  <1>1. TypeOK'
    <2>1. Entry' = Entry /\ Symbols' = Symbols
      BY DEF Stop, Entry, Symbols
    <2>2. errors' \in BOOLEAN  BY DEF Stop, IInv, TypeOK
    <2>3. /\ objects' \in Seq(Object) /\ globObjects' \in [Names -> Entry']
          /\ symTable' \in Seq([Names -> Symbols'])
      BY <2>1, TypeParts DEF IInv, Stop
    <2> QED  BY <2>2, <2>3, TypeIntro DEF Stop
  <1>2. UNCHANGED denotes /\ pc' # "unit"  BY DEF Stop
  <1> QED  BY <1>1, <1>2, Quiet DEF IInv

\* A step that binds a local or a type, or only reports.
LEMMA LocalKeepsInv ==
    ASSUME IInv, Visit, NEW n \in Names, NEW symbol \in Symbols,
           InsertIf(n, symbol), UNCHANGED <<objects, globObjects, pc, denotes>>
    PROVE  IInv'
  <1>1. pc = "unit" /\ pc' = "unit"  BY DEF Visit
  <1>2. TypeOK /\ depth > 0 /\ symTable \in Seq([Names -> Symbols])
    BY <1>1, InUnit
  <1>3. Entry' = Entry /\ Symbols' = Symbols  BY DEF Entry, Symbols
  <1>4. symTable' \in Seq([Names -> Symbols']) /\ Len(symTable') > 0
    BY <1>2, <1>3, InsertType DEF InsertIf, depth
  <1>5. errors' \in BOOLEAN  BY <1>2 DEF InsertIf, TypeOK
  <1>6. declarations' \in Nat  BY <1>2 DEF Visit, TypeOK
  <1>7. TypeOK'
    BY <1>1, <1>2, <1>3, <1>4, <1>5, <1>6, TypeParts, TypeIntro
  <1> QED  BY <1>1, <1>7, Quiet DEF IInv

LEMMA TypedefNameKeepsInv ==
    ASSUME IInv, NEW n \in Names, NEW t \in ObjectTypes \cup FunctionTypes,
           TypedefName(n, t)
    PROVE  IInv'
  <1>1. Typedef(t) \in Symbols
    BY DEF Typedef, Symbols, VariableTypes, NoObject
  <1>2. Visit /\ InsertIf(n, Typedef(t))
        /\ UNCHANGED <<objects, globObjects, pc, denotes>>
    BY DEF TypedefName
  <1> HIDE DEF Typedef
  <1> QED  BY <1>1, <1>2, LocalKeepsInv

LEMMA DeclareLocalKeepsInv ==
    ASSUME IInv, NEW n \in Names, NEW t \in VariableTypes,
           NEW init \in Inits \cup {"none"}, DeclareLocal(n, t, init)
    PROVE  IInv'
  <1>1. Value(NoObject, Completed(t, init)) \in Symbols
    BY DEF Value, Completed, Symbols, VariableTypes, NoObject
  <1>2. Visit /\ InsertIf(n, Value(NoObject, Completed(t, init)))
        /\ UNCHANGED <<objects, globObjects, pc, denotes>>
    BY DEF DeclareLocal
  <1> QED  BY <1>1, <1>2, LocalKeepsInv

LEMMA UnallocableKeepsInv == IInv /\ Unallocable => IInv'
  <1> SUFFICES ASSUME IInv, Unallocable  PROVE IInv'  OBVIOUS
  <1>1. pc = "unit" /\ pc' = "unit"  BY DEF Visit, Unallocable
  <1>2. Entry' = Entry /\ Symbols' = Symbols
    BY DEF Entry, Symbols, Unallocable
  <1>3. TypeOK /\ depth > 0  BY <1>1, InUnit
  <1>4. TypeOK'
    <2>1. declarations' \in Nat /\ errors' = TRUE
      BY <1>3 DEF Visit, Unallocable, TypeOK
    <2>2. /\ objects' \in Seq(Object) /\ globObjects' \in [Names -> Entry']
          /\ symTable' \in Seq([Names -> Symbols']) /\ Len(symTable') > 0
      BY <1>2, <1>3, TypeParts DEF Unallocable, depth
    <2> QED  BY <1>1, <2>1, <2>2, TypeIntro
  <1> QED  BY <1>1, <1>4, Quiet DEF IInv, Unallocable

LEMMA RejectsKeepInv ==
    ASSUME IInv, Visit, Halt
    PROVE  IInv'
  <1>1. declarations' \in Nat  BY DEF Visit, IInv, TypeOK
  <1> QED  BY <1>1, StopKeepsInv DEF Halt

LEMMA SemanticErrorKeepsInv == IInv /\ SemanticError => IInv'
  <1> SUFFICES ASSUME IInv, SemanticError  PROVE IInv'  OBVIOUS
  <1>1. declarations' \in Nat  BY DEF SemanticError, IInv, TypeOK
  <1> QED  BY <1>1, StopKeepsInv DEF SemanticError, Halt

LEMMA InitializeFunctionKeepsInv ==
    ASSUME IInv, NEW n, NEW t, NEW storage, NEW init,
           InitializeFunction(n, t, storage, init)
    PROVE  IInv'
  <1>1. declarations' \in Nat
    BY DEF InitializeFunction, Visit, IInv, TypeOK
  <1> QED  BY <1>1, StopKeepsInv DEF InitializeFunction

\* A step that enters a global keeps the types.
LEMMA GlobalStepTypes ==
    ASSUME IInv, Visit, pc' \in {"unit", "halted"},
           objects' \in Seq(Object), Len(objects') >= Len(objects),
           NEW n \in Names, NEW kept \in Entry', NEW symbol \in Symbols',
           globObjects' = [globObjects EXCEPT ![n] = kept],
           Insert(n, symbol), errors' \in BOOLEAN
    PROVE  TypeOK'
  <1>1. pc = "unit"  BY DEF Visit
  <1>2. TypeOK /\ depth > 0  BY <1>1, InUnit
  <1>3. globObjects \in [Names -> Entry'] /\ symTable \in Seq([Names -> Symbols'])
    BY <1>2, Growth
  <1>4. globObjects' \in [Names -> Entry']  BY <1>3
  <1>5. symTable' \in Seq([Names -> Symbols']) /\ Len(symTable') > 0
    BY <1>2, <1>3, InsertType DEF depth
  <1>6. declarations' \in Nat  BY <1>2 DEF Visit, TypeOK
  <1> QED  BY <1>4, <1>5, <1>6, TypeIntro

LEMMA RedeclareFunctionKeepsInv ==
    ASSUME IInv, NEW n \in Names, NEW t \in FunctionTypes,
           NEW storage \in Storages, NEW initialized \in BOOLEAN,
           RedeclareFunction(n, t, storage, initialized)
    PROVE  IInv'
  <1> DEFINE g == globObjects[n]
             curr == Global(g.obj, t, storage = "static", FALSE)
             d == [entity |-> Entity(n, storage), obj |-> g.obj, type |-> t,
                   storage |-> storage, defined |-> FALSE, at |-> declarations]
  <1>1. Visit /\ pc = "unit" /\ pc' = "unit" /\ Declared(n)
    BY DEF RedeclareFunction, Visit
  <1>2. PICK kept \in DeclareGlobal(g, curr) :
            /\ globObjects' = [globObjects EXCEPT ![n] = kept]
            /\ Insert(n, Value(g.obj, t))
            /\ Bound(n, g.obj, t, storage, FALSE)
    BY DEF RedeclareFunction
  <1>3. g \in Entry /\ g.obj # NoObject /\ TypeOK
    BY <1>1, TypeParts DEF IInv, EntriesFollowDeclarations
  <1>4. /\ kept \in {g, curr} /\ kept.obj = g.obj /\ g.type = t
    <2>1. g.is_allocated \in BOOLEAN  BY <1>3 DEF Entry
    <2>2. /\ curr.is_allocated = FALSE /\ curr.obj = g.obj /\ curr.type = t
      BY DEF Global
    <2> HIDE DEF g, curr
    <2>3. curr.is_allocated \in BOOLEAN /\ g.obj = curr.obj  BY <2>2
    <2>4. kept \in {g, curr}  BY <2>1, <2>3, Kept
    <2>5. kept.obj = curr.obj  BY <2>3, <2>4
    <2>6. g.type = curr.type  BY <2>1, <2>3, Kept
    <2> QED  BY <2>2, <2>4, <2>5, <2>6
  <1>5. objects' = objects /\ errors' \in BOOLEAN
    BY <1>3 DEF RedeclareFunction, TypeOK
  <1>6. Entry' = Entry /\ Symbols' = Symbols
    BY <1>5 DEF Entry, Symbols
  <1>7. curr \in Entry /\ Value(g.obj, t) \in Symbols
    BY <1>3 DEF Entry, Type, Global, Value, Symbols
  <1>8. objects' \in Seq(Object) /\ Len(objects') >= Len(objects)
    BY <1>3, <1>5, TypeParts
  <1>9. TypeOK'
    <2> HIDE DEF g, curr
    <2> QED
      BY <1>1, <1>2, <1>3, <1>4, <1>5, <1>6, <1>7, <1>8, GlobalStepTypes
  <1>10. denotes' = denotes \cup {d} /\ d.type = t
    BY <1>2 DEF Bound
  <1>11. Updates(n, kept)
    BY <1>2, <1>3, <1>4 DEF Updates
  <1> HIDE DEF d, g, curr
  <1>12. d.type \in FunctionTypes /\ globObjects[n].type \in FunctionTypes
    BY <1>4, <1>10 DEF g
  <1>13. /\ EntriesFollowDeclarations' /\ LinkedVariablesAreOneObject'
         /\ DeclaredTypesAgree' /\ RedefinitionsAreReported'
    BY <1>1, <1>10, <1>11, <1>12, BindFunction
  <1> QED  BY <1>9, <1>13 DEF IInv

LEMMA DeclareFunctionKeepsInv ==
    ASSUME IInv, NEW n \in Names, NEW t \in FunctionTypes,
           NEW storage \in Storages, NEW initialized \in BOOLEAN,
           DeclareFunction(n, t, storage, initialized)
    PROVE  IInv'
  <1> DEFINE kept == Global(new, t, storage = "static", FALSE)
             d == [entity |-> Entity(n, storage), obj |-> new, type |-> t,
                   storage |-> storage, defined |-> FALSE, at |-> declarations]
  <1>1. Visit /\ pc = "unit" /\ pc' = "unit" /\ ~Declared(n)
    BY DEF DeclareFunction, Visit
  <1>2. /\ globObjects' = [globObjects EXCEPT ![n] = kept]
        /\ Insert(n, Value(new, t))
        /\ denotes' = denotes \cup {d}
    BY DEF DeclareFunction, Bound
  <1>3. TypeOK  BY DEF IInv
  <1>4. /\ objects' \in Seq(Object) /\ Len(objects') = new
        /\ new \in Nat /\ new > 0 /\ new = Len(objects) + 1
    BY <1>3, NewObjectType DEF DeclareFunction
  <1>5. errors' \in BOOLEAN  BY <1>3 DEF DeclareFunction, TypeOK
  <1>6. kept \in Entry' /\ Value(new, t) \in Symbols'
    BY <1>4 DEF Entry, Type, Global, Value, Symbols
  <1>7. kept.obj = new /\ d.type = t  BY DEF Global
  <1> HIDE DEF kept, d
  <1>8. Len(objects') >= Len(objects)
    BY <1>3, <1>4, TypeParts, LenProperties
  <1>9. TypeOK'
    BY <1>1, <1>2, <1>4, <1>5, <1>6, <1>8, GlobalStepTypes
  <1>10. Updates(n, kept)
    BY <1>1, <1>2, <1>4, <1>7 DEF Updates, NoObject
  <1>11. /\ EntriesFollowDeclarations' /\ LinkedVariablesAreOneObject'
         /\ DeclaredTypesAgree' /\ RedefinitionsAreReported'
    BY <1>1, <1>2, <1>7, <1>10, BindFunction
  <1> QED  BY <1>9, <1>11 DEF IInv

LEMMA DeclareVariableKeepsInv ==
    ASSUME IInv, NEW n \in Names, NEW t \in VariableTypes,
           NEW storage \in Storages, NEW init \in Inits \cup {"none"},
           DeclareVariable(n, t, storage, init)
    PROVE  IInv'
  <1> DEFINE type == Completed(t, init)
             defined == init # "none"
             kept == Global(new, type, storage = "static", defined)
             d == [entity |-> Entity(n, storage), obj |-> new, type |-> type,
                   storage |-> storage, defined |-> defined,
                   at |-> declarations]
  <1>1. Visit /\ pc = "unit" /\ pc' = "unit" /\ ~Declared(n)
    BY DEF DeclareVariable, Visit
  <1>2. /\ globObjects' = [globObjects EXCEPT ![n] = kept]
        /\ Insert(n, Value(new, type))
        /\ denotes' = denotes \cup {d}
    BY DEF DeclareVariable, Bound
  <1>3. TypeOK  BY DEF IInv
  <1>4. /\ objects' \in Seq(Object) /\ Len(objects') = new
        /\ new \in Nat /\ new > 0 /\ new = Len(objects) + 1
    <2> DEFINE linkage == CASE storage = "extern" -> "external"
                            [] storage = "static" -> "internal"
                            [] OTHER -> "weak"
               value == IF storage # "extern" /\ init = "none"
                        THEN "zero" ELSE init
    <2>1. objects' = Append(objects, NewObject(n, "variable", linkage, value))
      BY DEF DeclareVariable
    <2>2. linkage \in {"external", "internal", "weak"}  OBVIOUS
    <2>3. value \in Inits \cup {"none", "zero"}  OBVIOUS
    <2> HIDE DEF linkage, value
    <2> QED  BY <1>3, <2>1, <2>2, <2>3, NewObjectType
  <1>5. errors' \in BOOLEAN  BY <1>3 DEF DeclareVariable, TypeOK
  <1>6. type \in VariableTypes  BY DEF Completed, VariableTypes
  <1>7. d.entity = <<"linked", n>> \/ d.entity[1] = "local"
    BY DEF Entity
  <1>8. storage # "static" => d.entity = <<"linked", n>>
    BY DEF Entity
  <1> HIDE DEF type
  <1>9. kept \in Entry' /\ Value(new, type) \in Symbols'
    BY <1>4, <1>6 DEF Entry, Type, Global, Value, Symbols
  <1>10. /\ kept.obj = new /\ kept.type = type
         /\ kept.is_allocated <=> defined
         /\ d.type = type /\ d.obj = new /\ d.storage = storage
         /\ d.defined <=> defined
         /\ d.defined \in BOOLEAN
    BY DEF Global
  <1> HIDE DEF kept, d, defined
  <1>11. Len(objects') >= Len(objects)
    BY <1>3, <1>4, TypeParts, LenProperties
  <1>12. TypeOK'
    BY <1>1, <1>2, <1>4, <1>5, <1>9, <1>11, GlobalStepTypes
  <1>13. Updates(n, kept)
    BY <1>1, <1>2, <1>4, <1>10 DEF Updates, NoObject
  <1>14. /\ EntriesFollowDeclarations' /\ LinkedVariablesAreOneObject'
         /\ DeclaredTypesAgree' /\ RedefinitionsAreReported'
    BY <1>1, <1>2, <1>6, <1>7, <1>8, <1>10, <1>13, BindVariable
  <1> QED  BY <1>12, <1>14 DEF IInv

LEMMA RedeclareVariableKeepsInv ==
    ASSUME IInv, NEW n \in Names, NEW t \in VariableTypes,
           NEW storage \in Storages, NEW init \in Inits \cup {"none"},
           RedeclareVariable(n, t, storage, init)
    PROVE  IInv'
  <1> DEFINE g == globObjects[n]
             type == Completed(t, init)
             defined == init # "none"
             curr == Global(g.obj, type, storage = "static", defined)
             sets == ~g.is_allocated /\ defined
             d == [entity |-> Entity(n, storage), obj |-> g.obj, type |-> type,
                   storage |-> storage, defined |-> defined,
                   at |-> declarations]
  <1>1. Visit /\ pc = "unit" /\ Declared(n) /\ UNCHANGED errors
    BY DEF RedeclareVariable, Visit
  <1>2. TypeOK  BY DEF IInv
  <1>3. g \in Entry /\ g.obj # NoObject
    BY <1>1, <1>2, TypeParts DEF IInv, EntriesFollowDeclarations
  <1>4. objects' \in Seq(Object) /\ Len(objects') = Len(objects)
    <2>1. objects \in Seq(Object)  BY <1>2, TypeParts
    <2>2. g.obj \in 1..Len(objects)
      BY <1>3, <2>1, LenProperties DEF Entry, NoObject
    <2>3. [objects[g.obj] EXCEPT !.init = init] \in Object
      <3>1. objects[g.obj] \in Object  BY <2>1, <2>2
      <3>2. init \in Inits \cup {"none", "zero"}  OBVIOUS
      <3> HIDE DEF g
      <3> QED  BY <3>1, <3>2 DEF Object
    <2>4. objects' = [objects EXCEPT ![g.obj] =
                        [objects[g.obj] EXCEPT !.init = init]]
          \/ objects' = objects
      BY DEF RedeclareVariable
    <2> QED  BY <2>1, <2>2, <2>3, <2>4
  <1>5. Entry' = Entry /\ Symbols' = Symbols
    BY <1>4 DEF Entry, Symbols
  <1>6. CASE /\ storage # "static" /\ DeclareGlobal(g, curr) = {}
             /\ pc' = "halted" /\ UNCHANGED <<globObjects, symTable, denotes>>
    <2>1. declarations' \in Nat /\ errors' \in BOOLEAN
      BY <1>1, <1>2 DEF Visit, TypeOK
    <2>2. TypeOK'
      BY <1>2, <1>4, <1>5, <1>6, <2>1, TypeParts, TypeIntro
    <2> QED  BY <1>6, <2>2, Quiet DEF IInv
  <1>7. CASE \E kept \in IF storage = "static" THEN {curr}
                         ELSE DeclareGlobal(g, curr) :
                /\ globObjects' = [globObjects EXCEPT ![n] = kept]
                /\ Insert(n, Value(g.obj, type))
                /\ Bound(n, g.obj, type, storage, defined)
                /\ UNCHANGED pc
    <2>1. PICK kept \in IF storage = "static" THEN {curr}
                       ELSE DeclareGlobal(g, curr) :
                /\ globObjects' = [globObjects EXCEPT ![n] = kept]
                /\ Insert(n, Value(g.obj, type))
                /\ Bound(n, g.obj, type, storage, defined)
                /\ UNCHANGED pc
      BY <1>7
    <2>2. denotes' = denotes \cup {d}  BY <2>1 DEF Bound
    <2>3. type \in VariableTypes  BY DEF Completed, VariableTypes
    <2>4. /\ d.entity = <<"linked", n>> \/ d.entity[1] = "local"
          /\ storage # "static" => d.entity = <<"linked", n>>
      BY DEF Entity
    <2> HIDE DEF type
    <2>5. curr \in Entry /\ Value(g.obj, type) \in Symbols
      BY <1>3, <2>3 DEF Entry, Type, Global, Value, Symbols
    <2>6. /\ curr.obj = g.obj /\ curr.type = type
          /\ curr.is_allocated \in BOOLEAN
          /\ curr.is_allocated <=> defined
      BY DEF Global
    <2>7. /\ d.type = type /\ d.obj = g.obj /\ d.storage = storage
          /\ d.defined \in BOOLEAN
          /\ d.defined <=> defined
      OBVIOUS
    <2>8. g.is_allocated \in BOOLEAN  BY <1>3 DEF Entry
    <2> HIDE DEF d, curr, g, defined
    <2>9. CASE storage = "static"
      <3>1. kept = curr  BY <2>1, <2>9
      <3> QED
        <4>1. TypeOK'
          <5>1. errors' \in BOOLEAN  BY <1>1, <1>2 DEF TypeOK
          <5>2. pc' = "unit" /\ Len(objects') >= Len(objects)
            BY <1>1, <1>2, <1>4, <2>1, TypeParts, LenProperties
          <5> QED
            BY <1>1, <1>4, <1>5, <2>1, <2>5, <3>1, <5>1, <5>2, GlobalStepTypes
        <4>2. Updates(n, kept)
          BY <1>3, <2>1, <2>6, <3>1 DEF Updates, g
        <4>3. /\ EntriesFollowDeclarations' /\ LinkedVariablesAreOneObject'
              /\ DeclaredTypesAgree' /\ RedefinitionsAreReported'
          BY <1>1, <2>2, <2>3, <2>4, <2>6, <2>7, <2>9, <3>1, <4>2, BindVariable
        <4> QED  BY <4>1, <4>3 DEF IInv
    <2>10. CASE storage # "static"
      <3>1. kept \in DeclareGlobal(g, curr)  BY <2>1, <2>10
      <3>2. g.obj = curr.obj /\ kept \in {g, curr}
        BY <2>6, <2>8, <3>1, Kept
      <3>3. kept.obj = g.obj /\ kept \in Entry
        BY <1>3, <2>5, <2>6, <3>2
      <3>4. kept.type = type  BY <2>6, <2>8, <3>1, Kept
      <3>5. g.type = type  BY <2>6, <2>8, <3>1, Kept
      <3>6. ~(g.is_allocated /\ defined)  BY <2>6, <2>8, <3>1, Kept
      <3>7. g.is_allocated \/ defined => kept.is_allocated
        BY <2>6, <2>8, <3>1, Kept
      <3>8. TypeOK'
        <4>1. errors' \in BOOLEAN  BY <1>1, <1>2 DEF TypeOK
        <4>2. pc' = "unit" /\ Len(objects') >= Len(objects)
          BY <1>1, <1>2, <1>4, <2>1, TypeParts, LenProperties
        <4> QED
          BY <1>1, <1>4, <1>5, <2>1, <2>5, <3>3, <4>1, <4>2, GlobalStepTypes
      <3>9. Updates(n, kept)
        BY <1>3, <2>1, <3>3 DEF Updates, g
      <3>10. Declared(n) => /\ globObjects[n].type = d.type
                            /\ globObjects[n].is_allocated =>
                                  kept.is_allocated /\ ~d.defined
        BY <2>7, <3>5, <3>6, <3>7 DEF g
      <3>11. kept.type = d.type /\ (d.defined => kept.is_allocated)
        BY <2>7, <3>4, <3>7
      <3>12. d.obj = kept.obj /\ d.type \in VariableTypes
        BY <2>3, <2>7, <3>3
      <3>13. /\ EntriesFollowDeclarations' /\ LinkedVariablesAreOneObject'
             /\ DeclaredTypesAgree' /\ RedefinitionsAreReported'
        BY <1>1, <2>2, <2>4, <2>7, <2>10, <3>9, <3>10, <3>11, <3>12,
           BindVariable
      <3> QED  BY <3>8, <3>13 DEF IInv
    <2> QED  BY <2>9, <2>10
  <1> QED  BY <1>6, <1>7 DEF RedeclareVariable

LEMMA FunctionDefinitionKeepsInv ==
    ASSUME IInv, NEW n \in Names, NEW t \in FunctionTypes,
           NEW parameters \in SUBSET Names, FunctionDefinition(n, t, parameters)
    PROVE  IInv'
  <1> DEFINE body == BodyOf(n)
             o == IF body = {} THEN new ELSE CHOOSE b \in body : TRUE
             object == NewObject(n, "function", "external", "none")
             created == IF body = {} THEN Append(objects, object) ELSE objects
             d == [entity |-> Entity(n, "none"), obj |-> o, type |-> t,
                   storage |-> "none", defined |-> TRUE, at |-> declarations]
             scope == [symTable[1] EXCEPT ![n] = Value(o, t)]
             inner == [p \in Names |-> IF p \in parameters
                         THEN Value(NoObject, "none") ELSE Unbound]
  <1>1. /\ Visit /\ pc = "unit" /\ pc' = "unit" /\ depth = 1
        /\ UNCHANGED globObjects
    BY DEF FunctionDefinition, Visit
  <1>2. TypeOK /\ objects \in Seq(Object)  BY TypeParts DEF IInv
  <1>2a. errors' \in BOOLEAN
    <2>1. errors' \in {errors} \/ errors' \in {errors, TRUE}
      BY DEF FunctionDefinition
    <2>2. errors \in BOOLEAN  BY <1>2 DEF TypeOK
    <2> QED  BY <2>1, <2>2
  <1>3. /\ object \in Object /\ Append(objects, object) \in Seq(Object)
        /\ Len(Append(objects, object)) = new
        /\ new \in Nat /\ new > 0 /\ new = Len(objects) + 1
    BY <1>2, NewObjectType
  <1>4. body \subseteq 1..Len(objects)
    BY <1>2 DEF BodyOf, Objects
  <1>5. /\ objects' = [created EXCEPT ![o].bodies = @ + 1]
        /\ symTable' = <<scope, inner>>
        /\ denotes' = denotes \cup {d}
    BY DEF FunctionDefinition, Bound
  <1> HIDE DEF object, body
  <1>6. /\ created \in Seq(Object) /\ o \in 1..Len(created)
        /\ Len(created) >= Len(objects)
    <2>1. CASE body = {}  BY <1>2, <1>3, <2>1, LenProperties
    <2>2. CASE body # {}
      <3>1. created = objects /\ o = CHOOSE b \in body : TRUE  BY <2>2
      <3>2. o \in body  BY <2>2, <3>1
      <3>3. o \in 1..Len(objects)  BY <1>4, <3>2
      <3> HIDE DEF created, o
      <3> QED  BY <1>2, <3>1, <3>3, LenProperties
    <2> QED  BY <2>1, <2>2
  <1> HIDE DEF created, o
  <1>7. objects' \in Seq(Object) /\ Len(objects') = Len(created)
    <2>1. created[o] \in Object  BY <1>6
    <2>2. [created[o] EXCEPT !.bodies = @ + 1] \in Object
      BY <2>1 DEF Object
    <2> QED  BY <1>5, <1>6, <2>2
  <1>8. Len(objects') >= Len(objects)  BY <1>6, <1>7
  <1>9. /\ globObjects \in [Names -> Entry']
        /\ symTable \in Seq([Names -> Symbols'])
    BY <1>2, <1>7, <1>8, Growth
  <1>10. scope \in [Names -> Symbols']
    <2>1. symTable[1] \in [Names -> Symbols']
      <3>1. Len(symTable) = 1  BY <1>1 DEF depth
      <3> DEFINE S == [Names -> Symbols']
      <3>2. symTable \in Seq(S)  BY <1>9
      <3> HIDE DEF S
      <3>3. symTable[1] \in S  BY <3>1, <3>2
      <3> QED  BY <3>3 DEF S
    <2>2. Value(o, t) \in Symbols'
      BY <1>6, <1>7 DEF Value, Symbols
    <2> QED  BY <2>1, <2>2
  <1>11. inner \in [Names -> Symbols']
    <2>1. 0 \in 0..Len(objects')  BY <1>7, LenProperties
    <2>2. Value(NoObject, "none") \in Symbols' /\ Unbound \in Symbols'
      BY <2>1 DEF Value, Unbound, Symbols, NoObject
    <2> QED  BY <2>2
  <1> HIDE DEF scope, inner
  <1>12. symTable' \in Seq([Names -> Symbols']) /\ Len(symTable') > 0
    BY <1>5, <1>10, <1>11
  <1>13. TypeOK'
    <2>1. declarations' \in Nat /\ errors' \in BOOLEAN
      BY <1>1, <1>2, <1>2a DEF Visit, TypeOK
    <2> QED  BY <1>1, <1>7, <1>9, <1>12, <2>1, TypeIntro
  <1>14. d.type \in FunctionTypes  OBVIOUS
  <1> HIDE DEF d
  <1>15. /\ EntriesFollowDeclarations' /\ LinkedVariablesAreOneObject'
         /\ DeclaredTypesAgree' /\ RedefinitionsAreReported'
    BY <1>1, <1>5, <1>14, BindBody
  <1> QED  BY <1>13, <1>15 DEF IInv

\* Steps that change only the scopes, or end the unit.
LEMMA ScopeStep ==
    ASSUME IInv, UNCHANGED <<objects, errors, declarations, denotes>>,
           symTable' \in Seq([Names -> Symbols]),
           globObjects' \in [Names -> Entry],
           \/ pc = "unit" /\ pc' = "unit" /\ UNCHANGED globObjects
              /\ Len(symTable') > 0
           \/ pc' = "finished"
    PROVE  IInv'
  <1>1. Entry' = Entry /\ Symbols' = Symbols  BY DEF Entry, Symbols
  <1>2. errors' \in BOOLEAN /\ declarations' \in Nat
    BY DEF IInv, TypeOK
  <1>3. objects' \in Seq(Object)  BY TypeParts DEF IInv
  <1>4. TypeOK'  BY <1>1, <1>2, <1>3, TypeIntro
  <1> QED  BY <1>4, Quiet DEF IInv

LEMMA OpenScopeKeepsInv == IInv /\ OpenScope => IInv'
  <1> SUFFICES ASSUME IInv, OpenScope  PROVE IInv'  OBVIOUS
  <1>1. symTable \in Seq([Names -> Symbols]) /\ globObjects \in [Names -> Entry]
    BY TypeParts DEF IInv
  <1>2. EmptyScope \in [Names -> Symbols]
    <2>1. 0 \in 0..Len(objects)  BY TypeParts, LenProperties DEF IInv
    <2> QED  BY <2>1 DEF EmptyScope, Unbound, Symbols, NoObject
  <1>3. symTable' = Append(symTable, EmptyScope)  BY DEF OpenScope
  <1> DEFINE S == [Names -> Symbols]
  <1> HIDE DEF S, EmptyScope
  <1>4. symTable' \in Seq(S) /\ Len(symTable') = Len(symTable) + 1
    BY <1>1, <1>2, <1>3, AppendProperties DEF S
  <1>5. Len(symTable') > 0  BY <1>1, <1>4, LenProperties
  <1> QED  BY <1>1, <1>4, <1>5, ScopeStep DEF OpenScope, S

LEMMA CloseScopeKeepsInv == IInv /\ CloseScope => IInv'
  <1> SUFFICES ASSUME IInv, CloseScope  PROVE IInv'  OBVIOUS
  <1> DEFINE S == [Names -> Symbols]
  <1>1. symTable \in Seq(S) /\ globObjects \in [Names -> Entry]
    BY TypeParts DEF IInv
  <1> HIDE DEF S
  <1>2. symTable' = SubSeq(symTable, 1, Len(symTable) - 1) /\ Len(symTable) > 1
    BY DEF CloseScope, depth
  <1>3. symTable' \in Seq(S) /\ Len(symTable') > 0
    BY <1>1, <1>2
  <1> QED  BY <1>1, <1>3, ScopeStep DEF CloseScope, S

LEMMA UnitEndKeepsInv == IInv /\ UnitEnd => IInv'
  <1> SUFFICES ASSUME IInv, UnitEnd  PROVE IInv'  OBVIOUS
  <1>1. NoGlobal \in Entry
    <2>1. 0 \in 0..Len(objects)  BY TypeParts, LenProperties DEF IInv
    <2> QED  BY <2>1 DEF NoGlobal, Global, Entry, Type, NoObject
  <1>2. globObjects' \in [Names -> Entry]  BY <1>1 DEF UnitEnd
  <1>3. symTable' \in Seq([Names -> Symbols])  BY EmptySeq DEF UnitEnd
  <1> QED  BY <1>2, <1>3, ScopeStep DEF UnitEnd

LEMMA StutterKeepsInv == IInv /\ UNCHANGED vars => IInv'
  <1> SUFFICES ASSUME IInv, UNCHANGED vars  PROVE IInv'  OBVIOUS
  <1>1. /\ UNCHANGED <<objects, globObjects, symTable, pc, errors>>
        /\ UNCHANGED <<declarations, denotes>>
    BY DEF vars
  <1>2. Entry' = Entry /\ Symbols' = Symbols  BY <1>1 DEF Entry, Symbols
  <1>3. /\ errors' \in BOOLEAN /\ declarations' \in Nat
        /\ pc' \in {"unit", "finished", "halted", "crashed"}
        /\ pc' = "unit" => Len(symTable') > 0
    BY <1>1 DEF IInv, TypeOK, depth
  <1>4. /\ objects' \in Seq(Object) /\ globObjects' \in [Names -> Entry']
        /\ symTable' \in Seq([Names -> Symbols'])
    BY <1>1, <1>2, TypeParts DEF IInv
  <1>5. TypeOK'  BY <1>3, <1>4, TypeIntro
  <1> QED  BY <1>1, <1>5, Quiet DEF IInv

----------------------------------------------------------------------------
(* The invariant *)

LEMMA InitInv == Init => IInv
  <1> SUFFICES ASSUME Init  PROVE IInv  OBVIOUS
  <1>1. denotes = {} /\ Len(objects) = 0 /\ objects = <<>>  BY DEF Init
  <1>2. Unbound \in Symbols /\ NoGlobal \in Entry
    BY <1>1 DEF Unbound, Symbols, NoGlobal, Global, Entry, Type, NoObject
  <1>3. objects \in Seq(Object)  BY <1>1, EmptySeq
  <1>4. globObjects \in [Names -> Entry]  BY <1>2 DEF Init
  <1>5. /\ symTable \in Seq([Names -> Symbols]) /\ Len(symTable) > 0
    <2>1. EmptyScope \in [Names -> Symbols]  BY <1>2 DEF EmptyScope
    <2> DEFINE S == [Names -> Symbols]
    <2> HIDE DEF S, EmptyScope
    <2>2. EmptyScope \in S  BY <2>1 DEF S
    <2>3. symTable = <<EmptyScope>>  BY DEF Init
    <2>4. symTable \in Seq(S) /\ Len(symTable) = 1  BY <2>2, <2>3
    <2> QED  BY <2>4 DEF S
  <1>6. errors \in BOOLEAN  BY Zenon DEF Init
  <1>7. declarations \in Nat /\ pc = "unit"  BY DEF Init
  <1>8. TypeOK
    BY <1>3, <1>4, <1>5, <1>6, <1>7
       DEF TypeOK, Object, Entry, Type, depth
  <1>9. \A n \in Names : Variables(n) = {}  BY <1>1 DEF Variables
  <1>10. \A n \in Names : ~Declared(n)  BY DEF Init, Declared
  <1> QED
    BY <1>8, <1>9, <1>10
       DEF IInv, EntriesFollowDeclarations, LinkedVariablesAreOneObject,
           DeclaredTypesAgree, RedefinitionsAreReported

LEMMA NextKeepsInv == IInv /\ [Next]_vars => IInv'
  <1> SUFFICES ASSUME IInv, [Next]_vars  PROVE IInv'  OBVIOUS
  <1>1. CASE FunctionDeclaration
    <2>1. PICK n \in Names, t \in FunctionTypes, storage \in Storages,
               i \in BOOLEAN :
            \/ DeclareFunction(n, t, storage, i)
            \/ RedeclareFunction(n, t, storage, i)
            \/ RejectFunction(n, t, storage, i)
      BY <1>1 DEF FunctionDeclaration
    <2>2. CASE RejectFunction(n, t, storage, i)
      BY <2>2, RejectsKeepInv DEF RejectFunction
    <2> QED
      BY <2>1, <2>2, DeclareFunctionKeepsInv, RedeclareFunctionKeepsInv
  <1>2. CASE VariableDeclaration
    <2>1. PICK t \in VariableTypes, storage \in Storages,
               init \in Inits \cup {"none"} :
            \/ \E n \in Names : \/ DeclareVariable(n, t, storage, init)
                                \/ RedeclareVariable(n, t, storage, init)
                                \/ InitializeFunction(n, t, storage, init)
            \/ RejectVariable(t, storage, init)
      BY <1>2 DEF VariableDeclaration
    <2>2. CASE RejectVariable(t, storage, init)
      BY <2>2, RejectsKeepInv DEF RejectVariable
    <2> QED
      BY <2>1, <2>2, DeclareVariableKeepsInv, RedeclareVariableKeepsInv,
         InitializeFunctionKeepsInv
  <1>3. CASE \E n \in Names, t \in VariableTypes, i \in Inits \cup {"none"} :
                DeclareLocal(n, t, i)
    BY <1>3, DeclareLocalKeepsInv
  <1>4. CASE \E n \in Names, t \in ObjectTypes \cup FunctionTypes :
                TypedefName(n, t)
    BY <1>4, TypedefNameKeepsInv
  <1>5. CASE \E n \in Names, t \in FunctionTypes :
                \/ \E parameters \in SUBSET Names :
                      FunctionDefinition(n, t, parameters)
                \/ RejectDefinition(n, t)
    <2>1. PICK n \in Names, t \in FunctionTypes :
            \/ \E parameters \in SUBSET Names :
                  FunctionDefinition(n, t, parameters)
            \/ RejectDefinition(n, t)
      BY <1>5
    <2>2. CASE RejectDefinition(n, t)
      BY <2>2, RejectsKeepInv DEF RejectDefinition
    <2> QED  BY <2>1, <2>2, FunctionDefinitionKeepsInv
  <1>6. CASE Unallocable \/ OpenScope \/ CloseScope \/ SemanticError \/ UnitEnd
    BY <1>6, UnallocableKeepsInv, OpenScopeKeepsInv, CloseScopeKeepsInv,
       SemanticErrorKeepsInv, UnitEndKeepsInv
  <1>7. CASE Stay \/ UNCHANGED vars  BY <1>7, StutterKeepsInv DEF Stay
  <1> QED  BY <1>1, <1>2, <1>3, <1>4, <1>5, <1>6, <1>7 DEF Next

\* In every unit, of whatever length, each variable's entry in globObjects sums
\* up the declarations that were bound to it.
THEOREM Invariance == Spec => []IInv
  BY InitInv, NextKeepsInv, PTL DEF Spec

\* Every binding names an object of the module.
THEOREM TypeCorrect == Spec => []TypeOK
  <1>1. IInv => TypeOK  BY DEF IInv
  <1> QED  BY <1>1, Invariance, PTL

\* The declarations of a variable with linkage, in any scope, denote one object.
THEOREM OneObject == Spec => []LinkedVariablesAreOneObject
  <1>1. IInv => LinkedVariablesAreOneObject  BY DEF IInv
  <1> QED  BY <1>1, Invariance, PTL

\* Away from `static`, declare_global lets no two types of a variable pass.
THEOREM TypesAgree == Spec => []DeclaredTypesAgree
  <1>1. IInv => DeclaredTypesAgree  BY DEF IInv
  <1> QED  BY <1>1, Invariance, PTL

\* Away from `static`, no second initialized definition is accepted.
THEOREM OneDefinition == Spec => []RedefinitionsAreReported
  <1>1. IInv => RedefinitionsAreReported  BY DEF IInv
  <1> QED  BY <1>1, Invariance, PTL

----------------------------------------------------------------------------
(* Bodies *)

\* Objects stay what they are: none changes its kind or its symbol.
Stays(o) == /\ o \in Objects'
            /\ objects'[o].kind = objects[o].kind
            /\ objects'[o].symbol = objects[o].symbol
SameObjects == Len(objects') = Len(objects) /\ \A o \in Objects : Stays(o)

\* Steps that add no object and bind no global.
LEMMA QuietBodies ==
    ASSUME IInv, Bodies, SameObjects, UNCHANGED denotes,
           declarations' \in Nat, declarations' >= declarations,
           pc' = "unit" => pc = "unit" /\ UNCHANGED globObjects
    PROVE  Bodies'
  <1>1. \A n \in Names : Functions(n)' = Functions(n)
    BY DEF Functions
  <1>2. \A n \in Names : HasBody(n)' <=> HasBody(n)
    BY <1>1 DEF HasBody
  <1>3. Dated'
    BY DEF Bodies, Dated, IInv, TypeOK
  <1>4. Objects' = Objects /\ objects \in Seq(Object)
    BY TypeParts DEF IInv, SameObjects, Objects, Stays
  <1>5. pc' = "unit" => \A n \in Names : Declared(n)' <=> Declared(n)
    BY DEF Declared, NoGlobal, Global
  <1>6. \A n \in Names : pc = "unit" /\ Declared(n) => globObjects[n].obj \in Objects
    BY <1>4, TypeParts
       DEF IInv, EntriesFollowDeclarations, Entry, Objects, NoObject
  <1>7. FunctionsAreFunctions'
    BY <1>1, <1>4, <1>5, <1>6 DEF Bodies, FunctionsAreFunctions, SameObjects, Stays
  <1>8. EntriesHoldSymbols'
    BY <1>1, <1>2, <1>4, <1>5 DEF Bodies, EntriesHoldSymbols, SameObjects, Stays
  <1>9. BodyCompletesDeclarations'
    BY <1>1 DEF Bodies, BodyCompletesDeclarations
  <1> QED  BY <1>3, <1>7, <1>8, <1>9 DEF Bodies

\* The step that binds declaration d of n to the object of `kept`, which is the
\* object n is declared as, or a new one.
Enters(n, kept, d) ==
    /\ Updates(n, kept) /\ kept.obj \in Objects'
    /\ denotes' = denotes \cup {d}
    /\ d.obj = kept.obj /\ d.at = declarations
    /\ d.entity = <<"linked", n>> \/ d.entity[1] = "local"
    /\ d.type \in FunctionTypes => ~d.defined
    /\ kept.type \in FunctionTypes \/ d.type \in FunctionTypes =>
          objects'[kept.obj].kind = "function"
    /\ \/ Declared(n) /\ SameObjects
       \/ /\ ~Declared(n) /\ kept.obj = new
          /\ Len(objects') = new /\ \A o \in Objects : Stays(o)
          /\ objects'[new].symbol =
                IF \E o \in Objects : objects[o].symbol = n THEN "renamed" ELSE n
    /\ pc = "unit" /\ pc' = "unit" /\ declarations' = declarations + 1

LEMMA EntersFacts ==
    ASSUME IInv, NEW n \in Names, NEW kept, NEW d, Enters(n, kept, d),
           objects' \in Seq(Object)
    PROVE  /\ Objects = 1..Len(objects) /\ Len(objects) \in Nat
           /\ Objects' = 1..Len(objects') /\ Len(objects') \in Nat
           /\ declarations \in Nat
           /\ \A o \in Objects : Stays(o)
           /\ \A o \in Objects' : o \in Objects \/ (~Declared(n) /\ o = new)
           /\ \A m \in Names : Declared(m) => globObjects[m].obj \in Objects
           /\ globObjects'[n] = kept /\ Declared(n)'
           /\ \A m \in Names \ {n} :
                 /\ globObjects'[m] = globObjects[m]
                 /\ Declared(m)' <=> Declared(m)
                 /\ Functions(m)' = Functions(m)
                 /\ HasBody(m)' <=> HasBody(m)
           /\ Functions(n) \subseteq Functions(n)'
           /\ Functions(n)' \subseteq Functions(n) \cup {d}
           /\ d \in Functions(n)' => d.type \in FunctionTypes
           /\ HasBody(n)' <=> HasBody(n)
  <1>1. /\ Objects = 1..Len(objects) /\ Len(objects) \in Nat
        /\ Objects' = 1..Len(objects') /\ Len(objects') \in Nat
    BY TypeParts DEF IInv, Objects
  <1>2. /\ \A o \in Objects : Stays(o)
        /\ \A o \in Objects' : o \in Objects \/ (~Declared(n) /\ o = new)
    BY <1>1 DEF Enters, SameObjects, new
  <1>3. \A m \in Names : Declared(m) => globObjects[m].obj \in Objects
    BY <1>1, TypeParts
       DEF IInv, Enters, EntriesFollowDeclarations, Entry, NoObject
  <1>4. /\ globObjects'[n] = kept /\ Declared(n)'
        /\ \A m \in Names \ {n} : /\ globObjects'[m] = globObjects[m]
                                  /\ Declared(m)' <=> Declared(m)
    BY EntriesAfter DEF IInv, Enters
  <1>5. \A m \in Names \ {n} : Functions(m)' = Functions(m)
    BY DEF Enters, Functions
  <1>6. /\ Functions(n) \subseteq Functions(n)'
        /\ Functions(n)' \subseteq Functions(n) \cup {d}
        /\ d \in Functions(n)' => d.type \in FunctionTypes
    BY DEF Enters, Functions
  <1>7. \A m \in Names : HasBody(m)' <=> HasBody(m)
    BY <1>5, <1>6 DEF HasBody, Enters
  <1>8. declarations \in Nat  BY DEF IInv, TypeOK
  <1> QED  BY <1>1, <1>2, <1>3, <1>4, <1>5, <1>6, <1>7, <1>8

LEMMA EntersKeepsBodies ==
    ASSUME IInv, Bodies, NEW n \in Names, NEW kept, NEW d, Enters(n, kept, d),
           objects' \in Seq(Object)
    PROVE  Bodies'
  <1>1. Dated'
    <2>1. declarations \in Nat  BY EntersFacts
    <2> QED  BY <2>1 DEF Bodies, Dated, Enters
  <1>2. FunctionsAreFunctions'
    <2>1. ASSUME NEW m \in Names, NEW e \in Functions(m)'
          PROVE  e.obj \in Objects' /\ objects'[e.obj].kind = "function"
      <3>1. CASE e \in Functions(m)
        BY <3>1, EntersFacts DEF Bodies, FunctionsAreFunctions, Stays
      <3>2. CASE e = d /\ m = n  BY <3>2, <2>1, EntersFacts DEF Enters
      <3> QED  BY <2>1, <3>1, <3>2, EntersFacts
    <2>2. ASSUME NEW m \in Names, Declared(m)',
                 globObjects'[m].type \in FunctionTypes
          PROVE  objects'[globObjects'[m].obj].kind = "function"
      <3>1. CASE m = n  BY <2>2, <3>1, EntersFacts DEF Enters
      <3>2. CASE m # n
        <4>1. Declared(m) /\ globObjects[m].type \in FunctionTypes
              /\ globObjects[m].obj \in Objects
              /\ globObjects'[m] = globObjects[m]
          BY <2>2, <3>2, EntersFacts
        <4>2. objects[globObjects[m].obj].kind = "function"
          BY <4>1 DEF Bodies, FunctionsAreFunctions, Enters
        <4> QED  BY <4>1, <4>2, EntersFacts DEF Stays
      <3> QED  BY <3>1, <3>2
    <2> QED  BY <2>1, <2>2 DEF FunctionsAreFunctions
  <1>3. ASSUME NEW m \in Names, NEW e \in Functions(m)', ~e.defined
        PROVE  Declared(m)' /\ globObjects'[m].obj = e.obj
    <2>1. CASE e \in Functions(m)
      <3>1. Declared(m) /\ globObjects[m].obj = e.obj
        BY <1>3, <2>1 DEF Bodies, EntriesHoldSymbols, Enters
      <3>2. CASE m = n
        <4>1. kept.obj = globObjects[n].obj
          BY <3>1, <3>2 DEF Enters, Updates
        <4> QED  BY <3>1, <3>2, <4>1, EntersFacts
      <3>3. CASE m # n  BY <3>1, <3>3, EntersFacts
      <3> QED  BY <3>2, <3>3
    <2>2. CASE e = d /\ m = n  BY <2>2, EntersFacts DEF Enters
    <2> QED  BY <1>3, <2>1, <2>2, EntersFacts
  <1>4. ASSUME NEW m \in Names, ~HasBody(m)', NEW o \in Objects'
        PROVE  objects'[o].symbol = m
                   <=> Declared(m)' /\ globObjects'[m].obj = o
    <2>1. ~HasBody(m)  BY <1>4, EntersFacts
    <2>2. \A p \in Objects : objects[p].symbol = m
                                <=> Declared(m) /\ globObjects[m].obj = p
      BY <2>1 DEF Bodies, EntriesHoldSymbols, Enters
    <2>3. CASE o \in Objects /\ m # n
      BY <2>2, <2>3, EntersFacts DEF Stays
    <2>4. CASE o \in Objects /\ m = n /\ Declared(n)
      <3>1. objects'[o].symbol = objects[o].symbol
        BY <2>4, EntersFacts DEF Stays
      <3>2. Declared(n)' /\ globObjects'[n].obj = globObjects[n].obj
        BY <2>4, EntersFacts DEF Enters, Updates
      <3> QED  BY <2>2, <2>4, <3>1, <3>2
    <2>5. CASE o \in Objects /\ m = n /\ ~Declared(n)
      <3>1. objects'[o].symbol # n  BY <2>2, <2>5, EntersFacts DEF Stays
      <3>2. kept.obj = new /\ new # o
        BY <2>5, EntersFacts DEF Enters, SameObjects, new
      <3> QED  BY <2>5, <3>1, <3>2, EntersFacts
    <2>6. CASE ~Declared(n) /\ o = new
      <3>1. kept.obj = new
            /\ objects'[new].symbol =
                IF \E p \in Objects : objects[p].symbol = n THEN "renamed" ELSE n
        BY <2>6 DEF Enters, SameObjects
      <3>2. CASE m = n
        <4>1. \A p \in Objects : objects[p].symbol # n
          BY <2>2, <2>6, <3>2
        <4> QED  BY <2>6, <3>1, <3>2, <4>1, EntersFacts
      <3>3. CASE m # n
        <4>1. objects'[new].symbol # m
          BY <3>1, <3>3, GlobalSymbolsAssumption
        <4>2. Declared(m)' => globObjects'[m].obj \in Objects
          BY <3>3, EntersFacts
        <4>3. new \notin Objects  BY EntersFacts DEF new
        <4> QED  BY <2>6, <4>1, <4>2, <4>3
      <3> QED  BY <3>2, <3>3
    <2> QED  BY <2>3, <2>4, <2>5, <2>6, EntersFacts
  <1>5. EntriesHoldSymbols'
    BY <1>3, <1>4 DEF EntriesHoldSymbols
  <1>6. BodyCompletesDeclarations'
    <2> SUFFICES ASSUME NEW m \in Names,
                        NEW e \in Functions(m)', NEW f \in Functions(m)',
                        \A b \in Functions(m)' : b.defined => e.at <= b.at,
                        \A b \in Functions(m)' : b.defined => f.at <= b.at
                 PROVE  e.obj = f.obj
      BY DEF BodyCompletesDeclarations
    <2>1. CASE HasBody(m)
      <3>1. PICK b \in Functions(m) : b.defined  BY <2>1 DEF HasBody
      <3>2. b.at < declarations /\ b.at \in Nat /\ b \in Functions(m)'
        BY <3>1, EntersFacts DEF Bodies, Dated, Functions
      <3>3. e \in Functions(m) /\ f \in Functions(m)
        <4>1. d.at = declarations /\ declarations \in Nat
          BY EntersFacts DEF Enters
        <4>2. e # d /\ f # d  BY <3>1, <3>2, <4>1
        <4> QED  BY <4>2, EntersFacts
      <3>4. Functions(m) \subseteq Functions(m)'  BY EntersFacts
      <3> QED  BY <3>3, <3>4 DEF Bodies, BodyCompletesDeclarations
    <2>2. CASE ~HasBody(m)
      <3>1. ~e.defined /\ ~f.defined  BY <2>2, EntersFacts DEF HasBody
      <3> QED  BY <1>3, <3>1
    <2> QED  BY <2>1, <2>2
  <1> QED  BY <1>1, <1>2, <1>5, <1>6 DEF Bodies

LEMMA Appended ==
    ASSUME TypeOK, NEW n \in Names, NEW kind \in {"function", "variable"},
           NEW linkage \in {"external", "internal", "weak"},
           NEW init \in Inits \cup {"none", "zero"},
           objects' = Append(objects, NewObject(n, kind, linkage, init))
    PROVE  /\ objects' \in Seq(Object) /\ Len(objects') = new /\ DOMAIN objects' = 1..new
           /\ \A o \in Objects : objects'[o] = objects[o]
           /\ objects'[new].kind = kind
           /\ objects'[new].symbol =
                IF \E o \in Objects : objects[o].symbol = n THEN "renamed" ELSE n
           /\ new \in Nat /\ new > 0 /\ Objects = 1..(new - 1)
  <1> DEFINE object == NewObject(n, kind, linkage, init)
  <1>1. objects \in Seq(Object)  BY TypeParts
  <1>2. /\ object \in Object /\ objects' \in Seq(Object)
        /\ Len(objects') = new /\ new = Len(objects) + 1 /\ new \in Nat /\ new > 0
    BY NewObjectType
  <1>3. /\ object.kind = kind
        /\ object.symbol =
              IF \E o \in Objects : objects[o].symbol = n THEN "renamed" ELSE n
    BY DEF NewObject
  <1> HIDE DEF object
  <1>4. /\ objects'[new] = object
        /\ \A o \in 1..Len(objects) : objects'[o] = objects[o]
    BY <1>1, <1>2 DEF object
  <1>5. Objects = 1..(new - 1)  BY <1>1, <1>2 DEF Objects
  <1> QED  BY <1>1, <1>2, <1>3, <1>4, <1>5

LEMMA DeclareFunctionKeepsBodies ==
    ASSUME IInv, Bodies, NEW n \in Names, NEW t \in FunctionTypes,
           NEW storage \in Storages, NEW initialized \in BOOLEAN,
           DeclareFunction(n, t, storage, initialized)
    PROVE  Bodies'
  <1> DEFINE kept == Global(new, t, storage = "static", FALSE)
             d == [entity |-> Entity(n, storage), obj |-> new, type |-> t,
                   storage |-> storage, defined |-> FALSE, at |-> declarations]
  <1>1. /\ pc = "unit" /\ pc' = "unit" /\ ~Declared(n)
        /\ declarations' = declarations + 1
        /\ globObjects' = [globObjects EXCEPT ![n] = kept]
        /\ denotes' = denotes \cup {d}
        /\ objects' = Append(objects, NewObject(n, "function", "external", "none"))
    BY DEF DeclareFunction, Visit, Bound
  <1>2. /\ objects' \in Seq(Object) /\ Len(objects') = new
        /\ DOMAIN objects' = 1..new
        /\ \A o \in Objects : objects'[o] = objects[o]
        /\ objects'[new].kind = "function"
        /\ objects'[new].symbol =
              IF \E o \in Objects : objects[o].symbol = n THEN "renamed" ELSE n
        /\ new \in Nat /\ new > 0 /\ Objects = 1..(new - 1)
    BY <1>1, Appended DEF IInv
  <1>3. /\ kept.obj = new /\ d.type = t /\ d.obj = new /\ ~d.defined
        /\ d.at = declarations
        /\ d.entity = <<"linked", n>> \/ d.entity[1] = "local"
    BY DEF Global, Entity
  <1> HIDE DEF kept, d
  <1>4. \A o \in Objects : Stays(o)  BY <1>2 DEF Stays, Objects
  <1>5. kept.obj \in Objects' /\ kept.obj # NoObject
    BY <1>2, <1>3 DEF Objects, NoObject
  <1>6. Enters(n, kept, d)
    BY <1>1, <1>2, <1>3, <1>4, <1>5 DEF Enters, Updates
  <1> QED  BY <1>2, <1>6, EntersKeepsBodies

LEMMA DeclareVariableKeepsBodies ==
    ASSUME IInv, Bodies, NEW n \in Names, NEW t \in VariableTypes,
           NEW storage \in Storages, NEW init \in Inits \cup {"none"},
           DeclareVariable(n, t, storage, init)
    PROVE  Bodies'
  <1> DEFINE type == Completed(t, init)
             linkage == CASE storage = "extern" -> "external"
                          [] storage = "static" -> "internal"
                          [] OTHER -> "weak"
             value == IF storage # "extern" /\ init = "none" THEN "zero" ELSE init
             kept == Global(new, type, storage = "static", init # "none")
             d == [entity |-> Entity(n, storage), obj |-> new, type |-> type,
                   storage |-> storage, defined |-> init # "none",
                   at |-> declarations]
  <1>1. /\ pc = "unit" /\ pc' = "unit" /\ ~Declared(n)
        /\ declarations' = declarations + 1
        /\ globObjects' = [globObjects EXCEPT ![n] = kept]
        /\ denotes' = denotes \cup {d}
        /\ objects' = Append(objects, NewObject(n, "variable", linkage, value))
    BY DEF DeclareVariable, Visit, Bound
  <1>2. /\ linkage \in {"external", "internal", "weak"}
        /\ value \in Inits \cup {"none", "zero"}
    OBVIOUS
  <1> HIDE DEF linkage, value
  <1>3. /\ objects' \in Seq(Object) /\ Len(objects') = new
        /\ DOMAIN objects' = 1..new
        /\ \A o \in Objects : objects'[o] = objects[o]
        /\ objects'[new].symbol =
              IF \E o \in Objects : objects[o].symbol = n THEN "renamed" ELSE n
        /\ new \in Nat /\ new > 0 /\ Objects = 1..(new - 1)
    BY <1>1, <1>2, Appended DEF IInv
  <1>4. /\ kept.obj = new /\ kept.type = type /\ d.type = type /\ d.obj = new
        /\ d.at = declarations
        /\ d.entity = <<"linked", n>> \/ d.entity[1] = "local"
    BY DEF Global, Entity
  <1>5. type \notin FunctionTypes
    BY TypesApart DEF Completed, VariableTypes
  <1> HIDE DEF kept, d, type
  <1>6. \A o \in Objects : Stays(o)  BY <1>3 DEF Stays, Objects
  <1>7. kept.obj \in Objects' /\ kept.obj # NoObject
    BY <1>3, <1>4 DEF Objects, NoObject
  <1>8. Enters(n, kept, d)
    BY <1>1, <1>3, <1>4, <1>5, <1>6, <1>7 DEF Enters, Updates
  <1> QED  BY <1>3, <1>8, EntersKeepsBodies

LEMMA RedeclareFunctionKeepsBodies ==
    ASSUME IInv, Bodies, NEW n \in Names, NEW t \in FunctionTypes,
           NEW storage \in Storages, NEW initialized \in BOOLEAN,
           RedeclareFunction(n, t, storage, initialized)
    PROVE  Bodies'
  <1> DEFINE g == globObjects[n]
             curr == Global(g.obj, t, storage = "static", FALSE)
             d == [entity |-> Entity(n, storage), obj |-> g.obj, type |-> t,
                   storage |-> storage, defined |-> FALSE, at |-> declarations]
  <1>1. /\ pc = "unit" /\ pc' = "unit" /\ Declared(n) /\ objects' = objects
        /\ declarations' = declarations + 1
    BY DEF RedeclareFunction, Visit
  <1>2. PICK kept \in DeclareGlobal(g, curr) :
            /\ globObjects' = [globObjects EXCEPT ![n] = kept]
            /\ denotes' = denotes \cup {d}
    BY DEF RedeclareFunction, Bound
  <1>3. g \in Entry /\ g.obj # NoObject
    BY <1>1, TypeParts DEF IInv, EntriesFollowDeclarations
  <1>4. kept.obj = g.obj /\ g.type = t /\ kept.type = t
    <2>1. /\ g.is_allocated \in BOOLEAN /\ curr.is_allocated \in BOOLEAN
          /\ curr.obj = g.obj /\ curr.type = t
      BY <1>3 DEF Entry, Global
    <2> HIDE DEF g, curr
    <2>2. kept.obj = curr.obj  BY <2>1, Kept
    <2>3. kept.type = curr.type  BY <2>1, Kept
    <2>4. g.type = curr.type  BY <2>1, Kept
    <2> QED  BY <2>1, <2>2, <2>3, <2>4
  <1>5. /\ d.type = t /\ d.obj = g.obj /\ ~d.defined /\ d.at = declarations
        /\ d.entity = <<"linked", n>> \/ d.entity[1] = "local"
    BY DEF Entity
  <1> HIDE DEF curr, d
  <1>6. objects \in Seq(Object) /\ SameObjects /\ g.obj \in Objects
    BY <1>1, <1>3, TypeParts
       DEF IInv, SameObjects, Stays, Objects, Entry, NoObject
  <1>7. objects[g.obj].kind = "function"
    BY <1>1, <1>4 DEF Bodies, FunctionsAreFunctions
  <1>8. Updates(n, kept)  BY <1>2, <1>3, <1>4 DEF Updates
  <1>9. kept.obj \in Objects'  BY <1>1, <1>4, <1>6 DEF Objects
  <1> HIDE DEF g
  <1>10. Enters(n, kept, d)
    BY <1>1, <1>2, <1>4, <1>5, <1>6, <1>7, <1>8, <1>9 DEF Enters
  <1> QED  BY <1>1, <1>6, <1>10, EntersKeepsBodies

LEMMA RedeclareVariableKeepsBodies ==
    ASSUME IInv, Bodies, NEW n \in Names, NEW t \in VariableTypes,
           NEW storage \in Storages, NEW init \in Inits \cup {"none"},
           RedeclareVariable(n, t, storage, init)
    PROVE  Bodies'
  <1> DEFINE g == globObjects[n]
             type == Completed(t, init)
             defined == init # "none"
             curr == Global(g.obj, type, storage = "static", defined)
             d == [entity |-> Entity(n, storage), obj |-> g.obj, type |-> type,
                   storage |-> storage, defined |-> defined,
                   at |-> declarations]
  <1>1. /\ pc = "unit" /\ Declared(n) /\ declarations' = declarations + 1
        /\ declarations \in Nat
    BY DEF RedeclareVariable, Visit, IInv, TypeOK
  <1>2. g \in Entry /\ g.obj # NoObject
    BY <1>1, TypeParts DEF IInv, EntriesFollowDeclarations
  <1>3. objects \in Seq(Object) /\ g.obj \in Objects
    BY <1>2, TypeParts DEF IInv, Objects, Entry, NoObject
  <1>4. SameObjects /\ objects' \in Seq(Object)
    <2>1. objects' = [objects EXCEPT ![g.obj] =
                        [objects[g.obj] EXCEPT !.init = init]]
          \/ objects' = objects
      BY DEF RedeclareVariable
    <2>2. objects[g.obj] \in Object  BY <1>3 DEF Objects
    <2> DEFINE object == [objects[g.obj] EXCEPT !.init = init]
    <2>3. /\ object \in Object
          /\ object.kind = objects[g.obj].kind
          /\ object.symbol = objects[g.obj].symbol
      BY <2>2 DEF Object
    <2> HIDE DEF object, g
    <2>4. \/ objects' = [objects EXCEPT ![g.obj] = object]
          \/ objects' = objects
      BY <2>1 DEF object
    <2>5. objects' \in Seq(Object) /\ Len(objects') = Len(objects)
      BY <1>3, <2>3, <2>4 DEF Objects
    <2>6. \A o \in Objects : Stays(o)
      BY <1>3, <2>3, <2>4, <2>5 DEF Stays, Objects
    <2> QED  BY <2>5, <2>6 DEF SameObjects
  <1>5. CASE pc' = "halted" /\ UNCHANGED denotes
    BY <1>1, <1>4, <1>5, QuietBodies
  <1>6. CASE \E kept \in IF storage = "static" THEN {curr}
                         ELSE DeclareGlobal(g, curr) :
                /\ globObjects' = [globObjects EXCEPT ![n] = kept]
                /\ Bound(n, g.obj, type, storage, defined)
                /\ UNCHANGED pc
    <2>1. PICK kept \in IF storage = "static" THEN {curr}
                        ELSE DeclareGlobal(g, curr) :
                /\ globObjects' = [globObjects EXCEPT ![n] = kept]
                /\ Bound(n, g.obj, type, storage, defined)
                /\ UNCHANGED pc
      BY <1>6
    <2>2. denotes' = denotes \cup {d}  BY <2>1 DEF Bound
    <2>3. type \notin FunctionTypes
      BY TypesApart DEF Completed, VariableTypes
    <2>4. /\ g.is_allocated \in BOOLEAN /\ curr.is_allocated \in BOOLEAN
          /\ curr.obj = g.obj /\ curr.type = type
      BY <1>2 DEF Entry, Global
    <2>5. /\ d.type = type /\ d.obj = g.obj /\ d.at = declarations
          /\ d.entity = <<"linked", n>> \/ d.entity[1] = "local"
      BY DEF Entity
    <2> HIDE DEF type, defined, curr, d
    <2>6. kept.obj = g.obj /\ kept.type = type
      <3>1. CASE storage = "static"  BY <2>1, <2>4, <3>1
      <3>2. CASE storage # "static"
        <4> HIDE DEF g
        <4>1. kept \in DeclareGlobal(g, curr)  BY <2>1, <3>2
        <4>2. kept.obj = curr.obj  BY <2>4, <4>1, Kept
        <4>3. kept.type = curr.type  BY <2>4, <4>1, Kept
        <4> QED  BY <2>4, <4>2, <4>3
      <3> QED  BY <3>1, <3>2
    <2>7. Updates(n, kept)  BY <1>2, <2>1, <2>6 DEF Updates
    <2>8. kept.obj \in Objects'  BY <1>3, <1>4, <2>6 DEF SameObjects, Stays
    <2> HIDE DEF g
    <2>9. Enters(n, kept, d)
      BY <1>1, <1>4, <2>1, <2>2, <2>3, <2>5, <2>6, <2>7, <2>8 DEF Enters
    <2> QED  BY <1>4, <2>9, EntersKeepsBodies
  <1> QED  BY <1>5, <1>6 DEF RedeclareVariable

\* The first body of n is given to the object of its declarations.
LEMMA FirstBody ==
    ASSUME IInv, Bodies, pc = "unit", NEW n \in Names, ~HasBody(n),
           NEW e \in Functions(n)
    PROVE  BodyOf(n) = {e.obj}
  <1>1. ~e.defined  BY DEF HasBody
  <1>2. /\ e.obj \in Objects /\ objects[e.obj].kind = "function"
        /\ Declared(n) /\ globObjects[n].obj = e.obj
    BY <1>1 DEF Bodies, FunctionsAreFunctions, EntriesHoldSymbols
  <1>3. \A o \in Objects : objects[o].symbol = n <=> o = e.obj
    BY <1>2 DEF Bodies, EntriesHoldSymbols
  <1> QED  BY <1>2, <1>3 DEF BodyOf

LEMMA FunctionDefinitionKeepsBodies ==
    ASSUME IInv, Bodies, NEW n \in Names, NEW t \in FunctionTypes,
           NEW parameters \in SUBSET Names, FunctionDefinition(n, t, parameters)
    PROVE  Bodies'
  <1> DEFINE body == BodyOf(n)
             o == IF body = {} THEN new ELSE CHOOSE b \in body : TRUE
             object == NewObject(n, "function", "external", "none")
             created == IF body = {} THEN Append(objects, object) ELSE objects
             d == [entity |-> Entity(n, "none"), obj |-> o, type |-> t,
                   storage |-> "none", defined |-> TRUE, at |-> declarations]
  <1>1. /\ pc = "unit" /\ pc' = "unit" /\ UNCHANGED globObjects
        /\ declarations' = declarations + 1 /\ declarations \in Nat
        /\ objects' = [created EXCEPT ![o].bodies = @ + 1]
        /\ denotes' = denotes \cup {d}
    BY DEF FunctionDefinition, Visit, Bound, IInv, TypeOK
  <1>2. objects \in Seq(Object) /\ Objects = 1..Len(objects)
        /\ Len(objects) \in Nat
    BY TypeParts DEF IInv, Objects
  <1>3. /\ object \in Object /\ Append(objects, object) \in Seq(Object)
        /\ Len(Append(objects, object)) = new /\ new = Len(objects) + 1
        /\ object.kind = "function" /\ object.symbol \in {n, "renamed"}
    <2>1. /\ object \in Object /\ Append(objects, object) \in Seq(Object)
          /\ Len(Append(objects, object)) = new /\ new = Len(objects) + 1
      BY NewObjectType DEF IInv
    <2>2. object.kind = "function" /\ object.symbol \in {n, "renamed"}
      BY DEF NewObject
    <2> QED  BY <2>1, <2>2
  <1>4. /\ d.obj = o /\ d.defined /\ d.at = declarations /\ d.type = t
        /\ d.entity = <<"linked", n>>
    BY DEF Entity
  <1>5. body # {} => o \in body
    BY DEF BodyOf
  <1>6. \A b \in body : b \in Objects /\ objects[b].kind = "function"
                        /\ objects[b].symbol = n
    BY DEF BodyOf
  <1> HIDE DEF object, body
  <1>7. /\ created \in Seq(Object) /\ o \in DOMAIN created
        /\ created[o].kind = "function" /\ created[o].symbol \in {n, "renamed"}
        /\ \A p \in Objects : p \in DOMAIN created /\ created[p] = objects[p]
        /\ \A p \in DOMAIN created : p \in Objects \/ p = o
    <2>1. CASE body = {}
      <3>1. created = Append(objects, object) /\ o = Len(objects) + 1
        BY <1>3, <2>1
      <3> HIDE DEF created, o
      <3> QED  BY <1>2, <1>3, <3>1
    <2>2. CASE body # {}
      <3>1. created = objects /\ o \in body  BY <1>5, <2>2
      <3> HIDE DEF created, o
      <3> QED  BY <1>2, <1>6, <3>1
    <2> QED  BY <2>1, <2>2
  <1> HIDE DEF created, o, d
  <1>8. /\ objects' \in Seq(Object) /\ Objects' = DOMAIN created
        /\ \A p \in Objects' : /\ objects'[p].kind = created[p].kind
                               /\ objects'[p].symbol = created[p].symbol
    <2>1. created[o] \in Object  BY <1>7
    <2> DEFINE after == [created[o] EXCEPT !.bodies = @ + 1]
    <2>2. /\ after \in Object /\ after.kind = created[o].kind
          /\ after.symbol = created[o].symbol
      BY <2>1 DEF Object
    <2> HIDE DEF after
    <2>3. objects' = [created EXCEPT ![o] = after]  BY <1>1 DEF after
    <2> QED  BY <1>7, <2>2, <2>3 DEF Objects
  <1>9. \A p \in Objects : Stays(p)  BY <1>7, <1>8 DEF Stays
  <1>10. /\ \A m \in Names \ {n} : Functions(m)' = Functions(m)
         /\ Functions(n)' = Functions(n) \cup {d}
    BY <1>1, <1>4 DEF Functions
  <1>11. HasBody(n)' /\ \A m \in Names \ {n} : HasBody(m)' <=> HasBody(m)
    BY <1>4, <1>10 DEF HasBody
  <1>12. \A m \in Names : /\ Declared(m)' <=> Declared(m)
                          /\ Declared(m) => globObjects[m].obj \in Objects
    BY <1>1, <1>2, TypeParts
       DEF IInv, EntriesFollowDeclarations, Entry, NoObject, Declared,
           NoGlobal, Global
  <1>13. Dated'  BY <1>1, <1>4 DEF Bodies, Dated
  <1>14. FunctionsAreFunctions'
    <2>1. ASSUME NEW m \in Names, NEW e \in Functions(m)'
          PROVE  e.obj \in Objects' /\ objects'[e.obj].kind = "function"
      <3>1. CASE e \in Functions(m)
        BY <1>9, <3>1 DEF Bodies, FunctionsAreFunctions, Stays
      <3>2. CASE e = d  BY <1>4, <1>7, <1>8, <3>2
      <3> QED  BY <1>10, <2>1, <3>1, <3>2
    <2>2. ASSUME NEW m \in Names, Declared(m)',
                 globObjects'[m].type \in FunctionTypes
          PROVE  objects'[globObjects'[m].obj].kind = "function"
      BY <1>1, <1>9, <1>12, <2>2 DEF Bodies, FunctionsAreFunctions, Stays
    <2> QED  BY <2>1, <2>2 DEF FunctionsAreFunctions
  <1>15. EntriesHoldSymbols'
    <2>1. ASSUME NEW m \in Names, NEW e \in Functions(m)', ~e.defined
          PROVE  Declared(m)' /\ globObjects'[m].obj = e.obj
      <3>1. e \in Functions(m)  BY <1>4, <1>10, <2>1
      <3> QED  BY <1>1, <1>12, <2>1, <3>1 DEF Bodies, EntriesHoldSymbols
    <2>2. ASSUME NEW m \in Names, ~HasBody(m)', NEW p \in Objects'
          PROVE  objects'[p].symbol = m
                     <=> Declared(m)' /\ globObjects'[m].obj = p
      <3>1. m # n /\ ~HasBody(m)  BY <1>11, <2>2
      <3>2. \A q \in Objects : objects[q].symbol = m
                                  <=> Declared(m) /\ globObjects[m].obj = q
        BY <1>1, <3>1 DEF Bodies, EntriesHoldSymbols
      <3>3. CASE p \in Objects
        BY <1>1, <1>9, <1>12, <3>2, <3>3 DEF Stays
      <3>4. CASE p \notin Objects
        <4>1. p = o  BY <1>7, <1>8, <3>4
        <4>2. objects'[p].symbol # m
          BY <1>7, <1>8, <3>1, <4>1, GlobalSymbolsAssumption
        <4> QED  BY <1>1, <1>12, <3>4, <4>2
      <3> QED  BY <3>3, <3>4
    <2> QED  BY <2>1, <2>2 DEF EntriesHoldSymbols
  <1>16. BodyCompletesDeclarations'
    <2> SUFFICES ASSUME NEW m \in Names,
                        NEW e \in Functions(m)', NEW f \in Functions(m)',
                        \A b \in Functions(m)' : b.defined => e.at <= b.at,
                        \A b \in Functions(m)' : b.defined => f.at <= b.at
                 PROVE  e.obj = f.obj
      BY DEF BodyCompletesDeclarations
    <2>1. CASE m # n
      BY <1>10, <2>1 DEF Bodies, BodyCompletesDeclarations
    <2>2. CASE m = n /\ HasBody(n)
      <3>1. PICK b \in Functions(n) : b.defined  BY <2>2 DEF HasBody
      <3>2. b.at < declarations /\ b.at \in Nat /\ b \in Functions(n)'
        BY <1>10, <3>1 DEF Bodies, Dated, Functions
      <3>3. e # d /\ f # d  BY <1>1, <1>4, <2>2, <3>1, <3>2
      <3>4. e \in Functions(n) /\ f \in Functions(n)  BY <1>10, <2>2, <3>3
      <3> QED  BY <1>10, <2>2, <3>4 DEF Bodies, BodyCompletesDeclarations
    <2>3. CASE m = n /\ ~HasBody(n)
      <3>1. ASSUME NEW g \in Functions(n)  PROVE g.obj = o
        <4>1. body = {g.obj}  BY <1>1, <2>3, FirstBody DEF body
        <4> QED  BY <1>5, <4>1
      <3>2. \A g \in Functions(n)' : g.obj = o  BY <1>4, <1>10, <3>1
      <3> QED  BY <2>3, <3>2
    <2> QED  BY <2>1, <2>2, <2>3
  <1> QED  BY <1>13, <1>14, <1>15, <1>16 DEF Bodies

LEMMA InitBodies == Init => Bodies
  <1> SUFFICES ASSUME Init  PROVE Bodies  OBVIOUS
  <1>1. \A n \in Names : Functions(n) = {} /\ ~HasBody(n) /\ ~Declared(n)
    BY DEF Init, Functions, HasBody, Declared
  <1>2. Objects = {}  BY DEF Init, Objects
  <1> QED
    BY <1>1, <1>2
       DEF Init, Bodies, Dated, FunctionsAreFunctions, EntriesHoldSymbols,
           BodyCompletesDeclarations

\* The steps that add and change no object.
LEMMA UnboundKeepsBodies ==
    ASSUME IInv, Bodies, UNCHANGED <<objects, denotes>>,
           Visit \/ UNCHANGED declarations,
           pc' = "unit" => pc = "unit" /\ UNCHANGED globObjects
    PROVE  Bodies'
  <1>1. declarations' \in Nat /\ declarations' >= declarations
    BY DEF Visit, IInv, TypeOK
  <1>2. SameObjects  BY DEF SameObjects, Stays, Objects
  <1> QED  BY <1>1, <1>2, QuietBodies

LEMMA NextKeepsBodies == IInv /\ Bodies /\ [Next]_vars => Bodies'
  <1> SUFFICES ASSUME IInv, Bodies, [Next]_vars  PROVE Bodies'  OBVIOUS
  <1>1. CASE FunctionDeclaration
    <2>1. PICK n \in Names, t \in FunctionTypes, storage \in Storages,
               i \in BOOLEAN :
            \/ DeclareFunction(n, t, storage, i)
            \/ RedeclareFunction(n, t, storage, i)
            \/ RejectFunction(n, t, storage, i)
      BY <1>1 DEF FunctionDeclaration
    <2>2. CASE RejectFunction(n, t, storage, i)
      BY <2>2, UnboundKeepsBodies DEF RejectFunction, Halt, Stop
    <2> QED
      BY <2>1, <2>2, DeclareFunctionKeepsBodies, RedeclareFunctionKeepsBodies
  <1>2. CASE VariableDeclaration
    <2>1. PICK t \in VariableTypes, storage \in Storages,
               init \in Inits \cup {"none"} :
            \/ \E n \in Names : \/ DeclareVariable(n, t, storage, init)
                                \/ RedeclareVariable(n, t, storage, init)
                                \/ InitializeFunction(n, t, storage, init)
            \/ RejectVariable(t, storage, init)
      BY <1>2 DEF VariableDeclaration
    <2>2. CASE RejectVariable(t, storage, init)
                \/ \E n \in Names : InitializeFunction(n, t, storage, init)
      BY <2>2, UnboundKeepsBodies
         DEF RejectVariable, InitializeFunction, Halt, Stop
    <2> QED
      BY <2>1, <2>2, DeclareVariableKeepsBodies, RedeclareVariableKeepsBodies
  <1>3. CASE \E n \in Names, t \in FunctionTypes :
                \/ \E parameters \in SUBSET Names :
                      FunctionDefinition(n, t, parameters)
                \/ RejectDefinition(n, t)
    <2>1. PICK n \in Names, t \in FunctionTypes :
            \/ \E parameters \in SUBSET Names :
                  FunctionDefinition(n, t, parameters)
            \/ RejectDefinition(n, t)
      BY <1>3
    <2>2. CASE RejectDefinition(n, t)
      BY <2>2, UnboundKeepsBodies DEF RejectDefinition, Halt, Stop
    <2> QED  BY <2>1, <2>2, FunctionDefinitionKeepsBodies
  <1>4. CASE \/ \E n \in Names, t \in VariableTypes, i \in Inits \cup {"none"} :
                   DeclareLocal(n, t, i)
             \/ \E n \in Names, t \in ObjectTypes \cup FunctionTypes :
                   TypedefName(n, t)
             \/ Unallocable \/ OpenScope \/ CloseScope \/ SemanticError
             \/ UnitEnd \/ Stay \/ UNCHANGED vars
    BY <1>4, UnboundKeepsBodies
       DEF DeclareLocal, TypedefName, Unallocable, OpenScope, CloseScope,
           SemanticError, UnitEnd, Stay, Halt, Stop, Visit, vars
  <1> QED  BY <1>1, <1>2, <1>3, <1>4 DEF Next

\* A function's first body is given to the object that every declaration before
\* it denotes.
THEOREM BodiesComplete == Spec => []BodyCompletesDeclarations
  <1>1. Bodies => BodyCompletesDeclarations  BY DEF Bodies
  <1>2. Spec => []Bodies
    BY InitBodies, NextKeepsBodies, Invariance, PTL DEF Spec
  <1> QED  BY <1>1, <1>2, PTL
=============================================================================
