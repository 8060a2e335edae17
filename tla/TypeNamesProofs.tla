-------------------------- MODULE TypeNamesProofs --------------------------
(***************************************************************************)
(* What is accepted was read as in C, for units of any length, names and   *)
(* nesting.                                                                *)
(***************************************************************************)
EXTENDS TypeNames, SequenceTheorems, WellFoundedInduction, TLAPS

\* The typedef names whose declaration has not ended.
Pending == IF decl.typedef /\ ~Member THEN decl.list ELSE {}

\* What the parser's place says of the declaration it reads.
DeclarationsInPlace ==
    running =>
        /\ phase \in {"start", "open", "enumerators"} => decl = NoDecl
        /\ phase \in {"specifiers", "name"} => decl.params = {}
        /\ phase = "specifiers" => decl.list = {}
        /\ phase \in {"declarator", "parameters", "initializer"} => decl.name \in Names
        /\ phase \in {"name", "declarator", "parameters", "initializer"} => decl.types < 2
        /\ phase = "initializer" => ~decl.typedef
        /\ phase = "initializer" \/ (phase \in {"name", "declarator", "parameters"} /\ ~Member)
              => IS_TYPEDEF = decl.typedef
        /\ \A i \in DOMAIN braces :
              /\ braces[i].kind = "initializer" <=> phase = "initializer"
              /\ phase = "initializer" => braces[i].decl = decl
              /\ braces[i].kind = "enum" => phase = "enumerators" /\ i = Len(braces)
              /\ braces[i].kind # "initializer" => braces[i].decl.list = {} /\ braces[i].decl.params = {}
ScopesInStep ==
    /\ TYPE_SET # <<>> /\ TYPE_SET[1] = Builtins
    /\ phase = "start" => symTable = <<>>
    /\ running /\ phase # "start" => Len(symTable) = Len(env) - 1

\* The sets hold C's types scope by scope, and no value hides a type.
SetsHoldTypes ==
    running =>
        /\ \A i \in DOMAIN env, n \in Names :
              env[i][n] = "type" <=> n \in TYPE_SET[i] \/ (i = Len(env) /\ n \in Pending)
        /\ \A i \in DOMAIN TYPE_SET : i > Len(env) /\ phase # "start" => TYPE_SET[i] = {}
        /\ \A i, j \in DOMAIN env, n \in Names : i < j /\ env[j][n] = "value" => env[i][n] # "type"
        /\ \A n \in Pending : symTable[Len(symTable)][n] = "type"
NamesAreNoTypes ==
    running =>
        /\ phase \in {"declarator", "parameters", "initializer"} => ~is_type(decl.name)
        /\ phase \in {"declarator", "parameters"} => \A n \in decl.params : ~is_type(n)
\* Where a name was read otherwise than in C, two types end in one declaration.
StrayedIsRefused ==
    running /\ "name" \in strayed =>
        \/ phase = "specifiers" /\ decl.types = 2
        \/ \E i \in DOMAIN braces : braces[i].decl.types = 2

\* The inductive invariant of the proofs.
IInv == /\ TypeOK /\ DeclarationsInPlace /\ ScopesInStep
        /\ SetsHoldTypes /\ NamesAreNoTypes /\ StrayedIsRefused
-----------------------------------------------------------------------------
\* A set of numbers that has a bound has a greatest.
Less == {ss \in Nat \X Nat : ss[1] < ss[2]}

LEMMA Least ==
    ASSUME NEW T, T \subseteq Nat, T # {}
    PROVE  \E x \in T : \A y \in T : x <= y
  <1>1. IsWellFoundedOn(Less, Nat)
    BY NatLessThanWellFounded DEF OpToRel, Less
  <1>2. PICK x \in T : \A y \in T : ~(<<y, x>> \in Less)
    BY <1>1, WFMin
  <1>3. \A y \in T : ~(y < x)
    BY <1>2 DEF Less
  <1> QED  BY <1>3

LEMMA Greatest ==
    ASSUME NEW n \in Nat, NEW T, T \subseteq 1 .. n, T # {}
    PROVE  \E x \in T : \A y \in T : y <= x
  <1> DEFINE U == {n - i : i \in T}
  <1>1. \A i \in T : n - i \in Nat
    OBVIOUS
  <1>2. U \subseteq Nat /\ U # {}
    BY <1>1
  <1>3. PICK u \in U : \A v \in U : u <= v
    BY <1>2, Least
  <1>4. PICK x \in T : u = n - x
    OBVIOUS
  <1>5. \A y \in T : n - x <= n - y
    BY <1>3, <1>4
  <1> QED  BY <1>5

Scopes == Seq([Names -> Kinds])

\* find returns what one scope says of the name, if any does: the innermost.
LEMMA Found ==
    ASSUME NEW sc \in Scopes, NEW n \in Names, NEW k \in DOMAIN sc, sc[k][n] # "none"
    PROVE  \E i \in DOMAIN sc : /\ sc[i][n] # "none"
                                /\ \A j \in DOMAIN sc : i < j => sc[j][n] = "none"
                                /\ find(sc, n) = sc[i][n]
  <1> DEFINE I == {i \in DOMAIN sc : sc[i][n] # "none"}
             Innermost(i) == /\ sc[i][n] # "none"
                             /\ \A j \in DOMAIN sc : i < j => sc[j][n] = "none"
  <1>1. DOMAIN sc = 1 .. Len(sc) /\ Len(sc) \in Nat
    BY DEF Scopes
  <1>2. PICK x \in I : \A y \in I : y <= x
    BY <1>1, Greatest
  <1>3. \E i \in DOMAIN sc : Innermost(i)
    BY <1>1, <1>2
  <1>4. find(sc, n) = sc[CHOOSE i \in DOMAIN sc : Innermost(i)][n]
    BY DEF find
  <1> HIDE DEF Innermost
  <1>5. PICK i \in DOMAIN sc : Innermost(i) /\ find(sc, n) = sc[i][n]
    BY <1>3, <1>4
  <1> QED  BY <1>5 DEF Innermost

LEMMA NotFound ==
    ASSUME NEW sc, NEW n, \A k \in DOMAIN sc : sc[k][n] = "none"
    PROVE  find(sc, n) = "none"
  BY DEF find

\* Where no value hides a type, a name is found as a type if any scope has
\* it as one.
LEMMA FoundAsType ==
    ASSUME NEW sc \in Scopes, NEW n \in Names,
           \A i, j \in DOMAIN sc : i < j /\ sc[j][n] = "value" => sc[i][n] # "type"
    PROVE  find(sc, n) = "type" <=> \E i \in DOMAIN sc : sc[i][n] = "type"
  <1>1. DOMAIN sc = 1 .. Len(sc) /\ Len(sc) \in Nat /\ \A i \in DOMAIN sc : sc[i][n] \in Kinds
    BY DEF Scopes
  <1>2. CASE \A k \in DOMAIN sc : sc[k][n] = "none"
    BY <1>2, NotFound
  <1>3. CASE \E k \in DOMAIN sc : sc[k][n] # "none"
    <2>1. PICK i \in DOMAIN sc : /\ sc[i][n] # "none"
                                 /\ \A j \in DOMAIN sc : i < j => sc[j][n] = "none"
                                 /\ find(sc, n) = sc[i][n]
      BY <1>3, Found
    <2>2. ASSUME NEW k \in DOMAIN sc, sc[k][n] = "type"  PROVE sc[i][n] = "type"
      <3>1. ~(i < k)
        BY <2>1, <2>2
      <3>2. k = i \/ k < i
        BY <1>1, <3>1
      <3>3. sc[i][n] # "value" \/ k = i
        BY <2>2, <3>2
      <3> QED  BY <1>1, <2>1, <2>2, <3>3 DEF Kinds
    <2> QED  BY <2>1, <2>2
  <1> QED  BY <1>2, <1>3

\* The innermost scope decides.
LEMMA FoundOnTop ==
    ASSUME NEW sc \in Scopes, NEW n \in Names, Len(sc) > 0, sc[Len(sc)][n] # "none"
    PROVE  find(sc, n) = sc[Len(sc)][n]
  <1>1. DOMAIN sc = 1 .. Len(sc) /\ Len(sc) \in DOMAIN sc
    BY DEF Scopes
  <1>2. PICK i \in DOMAIN sc : /\ \A j \in DOMAIN sc : i < j => sc[j][n] = "none"
                               /\ find(sc, n) = sc[i][n]
    BY <1>1, Found
  <1>3. i = Len(sc)
    BY <1>1, <1>2
  <1> QED  BY <1>2, <1>3

LEMMA Popped ==
    ASSUME NEW S, NEW s \in Seq(S), Len(s) > 0
    PROVE  /\ pop(s) \in Seq(S) /\ Len(pop(s)) = Len(s) - 1
           /\ DOMAIN pop(s) = 1 .. Len(s) - 1
           /\ \A i \in 1 .. Len(s) - 1 : pop(s)[i] = s[i]
  <1>1. Len(s) - 1 \in Int /\ Len(s) \in Nat /\ \A i \in 1 .. Len(s) - 1 : s[i] \in S
    OBVIOUS
  <1> DEFINE t == SubSeq(s, 1, Len(s) - 1)
             l == Len(s) - 1
  <1>2. l \in Nat
    BY <1>1
  <1>3. pop(s) = t
    BY DEF pop
  <1>4. /\ t \in Seq(S)
        /\ Len(t) = IF 1 <= l THEN l - 1 + 1 ELSE 0
        /\ \A i \in 1 .. l - 1 + 1 : t[i] = s[1 + i - 1]
    BY <1>1, SubSeqProperties
  <1> HIDE DEF t, l
  <1>5. Len(t) = l
    BY <1>2, <1>4
  <1>6. DOMAIN t = 1 .. l
    BY <1>4, <1>5
  <1>7. ASSUME NEW i \in 1 .. l  PROVE t[i] = s[i]
    <2>1. i \in 1 .. l - 1 + 1 /\ 1 + i - 1 = i
      BY <1>2
    <2> QED  BY <1>4, <2>1
  <1> QED  BY <1>3, <1>4, <1>5, <1>6, <1>7 DEF l

LEMMA Inserted ==
    ASSUME NEW sc \in Scopes, Len(sc) > 0, NEW ns, NEW kind \in Kinds
    PROVE  /\ insert(sc, ns, kind) \in Scopes /\ Len(insert(sc, ns, kind)) = Len(sc)
           /\ DOMAIN insert(sc, ns, kind) = DOMAIN sc
           /\ \A i \in DOMAIN sc, n \in Names :
                 insert(sc, ns, kind)[i][n] = IF i = Len(sc) /\ n \in ns THEN kind ELSE sc[i][n]
  <1>1. Len(sc) \in 1 .. Len(sc) /\ sc[Len(sc)] \in [Names -> Kinds] /\ DOMAIN sc = 1 .. Len(sc)
    BY DEF Scopes
  <1> DEFINE e == [n \in Names |-> IF n \in ns THEN kind ELSE sc[Len(sc)][n]]
  <1>2. e \in [Names -> Kinds]
    BY <1>1
  <1>3. insert(sc, ns, kind) = [sc EXCEPT ![Len(sc)] = e]
    BY DEF insert
  <1> HIDE DEF e
  <1>4. /\ insert(sc, ns, kind) \in Scopes /\ Len(insert(sc, ns, kind)) = Len(sc)
        /\ \A j \in 1 .. Len(sc) : insert(sc, ns, kind)[j] = IF j = Len(sc) THEN e ELSE sc[j]
    BY <1>1, <1>2, <1>3, ExceptSeq DEF Scopes
  <1>5. DOMAIN insert(sc, ns, kind) = DOMAIN sc
    BY <1>1, <1>3
  <1> QED  BY <1>1, <1>4, <1>5 DEF e

LEMMA Registered ==
    ASSUME TYPE_SET \in Seq(SUBSET Names), Len(TYPE_SET) > 0, NEW ns, ns \subseteq Names
    PROVE  /\ register_types(ns) \in Seq(SUBSET Names) /\ Len(register_types(ns)) = Len(TYPE_SET)
           /\ \A i \in 1 .. Len(TYPE_SET) :
                 register_types(ns)[i] = IF i = Len(TYPE_SET) THEN TYPE_SET[i] \cup ns ELSE TYPE_SET[i]
  <1>1. Len(TYPE_SET) \in 1 .. Len(TYPE_SET) /\ TYPE_SET[Len(TYPE_SET)] \in SUBSET Names
    OBVIOUS
  <1> DEFINE e == TYPE_SET[Len(TYPE_SET)] \cup ns
  <1>2. e \in SUBSET Names
    BY <1>1
  <1>3. register_types(ns) = [TYPE_SET EXCEPT ![Len(TYPE_SET)] = e]
    BY DEF register_types
  <1> HIDE DEF e
  <1>4. /\ register_types(ns) \in Seq(SUBSET Names) /\ Len(register_types(ns)) = Len(TYPE_SET)
        /\ \A j \in 1 .. Len(TYPE_SET) :
              register_types(ns)[j] = IF j = Len(TYPE_SET) THEN e ELSE TYPE_SET[j]
    BY <1>1, <1>2, <1>3, ExceptSeq
  <1> QED  BY <1>4 DEF e
-----------------------------------------------------------------------------
\* The sets tell C's types, but for those whose typedef is being read.
LEMMA Reads ==
    ASSUME TypeOK, SetsHoldTypes, running, phase # "start", NEW n \in Names
    PROVE  /\ is_type(n) => find(env, n) = "type"
           /\ find(env, n) = "type" => is_type(n) \/ n \in Pending
           /\ n \in Pending => find(symTable, n) = "type"
  <1>1. /\ env \in Scopes /\ symTable \in Scopes
        /\ DOMAIN env = 1 .. Len(env) /\ DOMAIN TYPE_SET = 1 .. Len(TYPE_SET)
        /\ Len(env) \in Nat /\ Len(TYPE_SET) \in Nat /\ Len(env) <= Len(TYPE_SET)
        /\ Len(env) >= 2 /\ Len(symTable) > 0
    BY DEF TypeOK, Scopes
  <1>2. find(env, n) = "type" <=> \E i \in DOMAIN env : env[i][n] = "type"
    BY <1>1, FoundAsType DEF SetsHoldTypes
  <1>3. ASSUME is_type(n)  PROVE \E i \in DOMAIN env : env[i][n] = "type"
    <2>1. PICK i \in DOMAIN TYPE_SET : n \in TYPE_SET[i]
      BY <1>3 DEF is_type
    <2>2. i \in DOMAIN env
      BY <1>1, <2>1 DEF SetsHoldTypes
    <2> QED  BY <2>1, <2>2 DEF SetsHoldTypes
  <1>4. ASSUME NEW i \in DOMAIN env, env[i][n] = "type"  PROVE is_type(n) \/ n \in Pending
    BY <1>1, <1>4 DEF SetsHoldTypes, is_type
  <1>5. ASSUME n \in Pending  PROVE find(symTable, n) = "type"
    <2>1. symTable[Len(symTable)][n] = "type"
      BY <1>5 DEF SetsHoldTypes
    <2> QED  BY <1>1, <2>1, FoundOnTop
  <1> QED  BY <1>2, <1>3, <1>4, <1>5

\* A step that leaves the sets, the scopes and the braces.
LEMMA Quiet ==
    ASSUME IInv, running, UNCHANGED <<TYPE_SET, symTable, env, braces>>,
           phase # "start", phase' \in Phases \ {"start"}, decl' \in Declarations,
           outcome' \in Outcomes, IS_TYPEDEF' \in BOOLEAN, strayed' \subseteq {"name", "parameter"}, Pending' = Pending
    PROVE  TypeOK' /\ ScopesInStep' /\ SetsHoldTypes'
  <1>1. TypeOK'
    BY DEF IInv, TypeOK
  <1>2. ScopesInStep'
    BY DEF IInv, ScopesInStep
  <1>3. SetsHoldTypes'
    BY DEF IInv, SetsHoldTypes
  <1> QED  BY <1>1, <1>2, <1>3

\* Between specifiers no list is open, and no brace but a struct's.
LEMMA AtSpecifiers ==
    ASSUME IInv, Specifying
    PROVE  /\ decl \in Declarations /\ decl.list = {} /\ decl.params = {} /\ Pending = {}
           /\ \A i \in DOMAIN braces : braces[i].kind = "struct" /\ braces[i].decl.list = {}
                                       /\ braces[i].decl.params = {}
           /\ phase = "open" => decl = NoDecl
  <1> USE DEF Specifying, IInv
  <1>1. phase = "open" => decl = NoDecl
    BY DEF DeclarationsInPlace
  <1>2. NoDecl.list = {} /\ NoDecl.params = {}
    BY DEF NoDecl
  <1>3. decl \in Declarations /\ decl.list = {} /\ decl.params = {}
    BY <1>1, <1>2 DEF TypeOK, DeclarationsInPlace
  <1>4. Pending = {}
    BY <1>3 DEF Pending
  <1>5. \A i \in DOMAIN braces : braces[i] \in OpenBraces
    BY DEF TypeOK
  <1>6. \A i \in DOMAIN braces : braces[i].kind = "struct" /\ braces[i].decl.list = {}
                                 /\ braces[i].decl.params = {}
    BY <1>5 DEF DeclarationsInPlace, OpenBraces
  <1> QED  BY <1>1, <1>3, <1>4, <1>6

LEMMA TypedefKeeps ==
    ASSUME IInv, Typedef  PROVE IInv'
  <1> USE DEF Typedef, Specifying, lexer, scopes
  <1>1. /\ decl' \in Declarations /\ decl'.list = {} /\ decl'.params = {} /\ decl'.types = decl.types
        /\ Pending = {} /\ \A i \in DOMAIN braces : braces[i].kind = "struct"
    BY AtSpecifiers DEF Declarations
  <1>2. TypeOK' /\ ScopesInStep' /\ SetsHoldTypes'
    <2>1. Pending' = Pending
      BY <1>1 DEF Pending
    <2> QED  BY <1>1, <2>1, Quiet DEF IInv, TypeOK, Phases
  <1>3. DeclarationsInPlace'
    BY <1>1 DEF IInv, DeclarationsInPlace
  <1>4. NamesAreNoTypes'
    BY DEF IInv, NamesAreNoTypes
  <1>5. StrayedIsRefused'
    BY <1>1 DEF IInv, StrayedIsRefused
  <1> QED  BY <1>2, <1>3, <1>4, <1>5 DEF IInv

LEMMA QualifierKeeps ==
    ASSUME IInv, Qualifier  PROVE IInv'
  <1> USE DEF Qualifier, Specifying, lexer, scopes
  <1>1. /\ decl.list = {} /\ decl.params = {} /\ Pending = {}
        /\ \A i \in DOMAIN braces : braces[i].kind = "struct"
    BY AtSpecifiers
  <1>2. TypeOK' /\ ScopesInStep' /\ SetsHoldTypes'
    <2>1. Pending' = Pending
      BY <1>1 DEF Pending
    <2> QED  BY <2>1, Quiet DEF IInv, TypeOK, Phases
  <1>3. DeclarationsInPlace'
    BY <1>1 DEF IInv, DeclarationsInPlace
  <1>4. NamesAreNoTypes'
    BY DEF IInv, NamesAreNoTypes
  <1>5. StrayedIsRefused'
    BY DEF IInv, StrayedIsRefused
  <1> QED  BY <1>2, <1>3, <1>4, <1>5 DEF IInv

LEMMA BasicTypeKeeps ==
    ASSUME IInv, BasicType  PROVE IInv'
  <1> USE DEF BasicType, Specifying, lexer, scopes
  <1>1. /\ decl' \in Declarations /\ decl'.list = {} /\ decl'.params = {} /\ decl.types # 2
        /\ Pending = {} /\ \A i \in DOMAIN braces : braces[i].kind = "struct"
    BY AtSpecifiers DEF Declarations
  <1>2. TypeOK' /\ ScopesInStep' /\ SetsHoldTypes'
    <2>1. Pending' = Pending
      BY <1>1 DEF Pending
    <2> QED  BY <1>1, <2>1, Quiet DEF IInv, TypeOK, Phases
  <1>3. DeclarationsInPlace'
    BY <1>1 DEF IInv, DeclarationsInPlace
  <1>4. NamesAreNoTypes'
    BY DEF IInv, NamesAreNoTypes
  <1>5. StrayedIsRefused'
    BY <1>1 DEF IInv, StrayedIsRefused
  <1> QED  BY <1>2, <1>3, <1>4, <1>5 DEF IInv

\* A second type ends up in a declaration of two types, so a name read
\* otherwise than in C is refused.
LEMMA TypeNameKeeps ==
    ASSUME IInv, NEW n \in Names, TypeName(n)  PROVE IInv'
  <1> USE DEF TypeName, Specifying, lexer, scopes
  <1>1. /\ decl' \in Declarations /\ decl'.list = {} /\ decl'.params = {} /\ decl.types # 2
        /\ decl'.types = decl.types + 1 /\ decl.types \in 0 .. 1
        /\ Pending = {} /\ \A i \in DOMAIN braces : braces[i].kind = "struct"
    BY AtSpecifiers DEF Declarations
  <1>2. TypeOK' /\ ScopesInStep' /\ SetsHoldTypes'
    <2>1. Pending' = Pending
      BY <1>1 DEF Pending
    <2>2. outcome' \in Outcomes
      BY DEF AsType, Outcomes
    <2>3. strayed' \subseteq {"name", "parameter"}
      BY DEF IInv, TypeOK, Stray, TypeInC
    <2> QED  BY <1>1, <2>1, <2>2, <2>3, Quiet DEF IInv, TypeOK, Phases
  <1>3. DeclarationsInPlace'
    BY <1>1 DEF IInv, DeclarationsInPlace
  <1>4. NamesAreNoTypes'
    BY DEF IInv, NamesAreNoTypes
  <1>5. StrayedIsRefused'
    <2>1. SUFFICES ASSUME "name" \in strayed'
                   PROVE  decl'.types = 2 \/ \E i \in DOMAIN braces : braces[i].decl.types = 2
      BY DEF StrayedIsRefused
    <2>2. find(env, n) = "type"
      BY <2>1, Reads DEF IInv
    <2>3. "name" \in strayed \/ decl.types > 0
      BY <2>1, <2>2 DEF Stray, TypeInC
    <2>4. CASE "name" \in strayed
      BY <1>1, <2>1, <2>4 DEF IInv, StrayedIsRefused
    <2>5. CASE decl.types > 0
      BY <1>1, <2>5
    <2> QED  BY <2>3, <2>4, <2>5
  <1> QED  BY <1>2, <1>3, <1>4, <1>5 DEF IInv

LEMMA FirstNameKeeps ==
    ASSUME IInv, NEW n \in Names, FirstName(n)  PROVE IInv'
  <1> USE DEF FirstName, lexer, scopes, OneType, running
  <1>1. /\ decl' \in Declarations /\ decl'.list = {} /\ decl'.params = {} /\ decl'.name = n
        /\ decl'.types = decl.types /\ decl'.typedef = decl.typedef /\ decl.types \in 0 .. 2
        /\ Pending = {} /\ \A i \in DOMAIN braces : braces[i].kind = "struct"
        /\ \A i \in DOMAIN braces : braces[i].decl.list = {} /\ braces[i].decl.params = {}
    BY AtSpecifiers DEF Declarations, Specifying
  <1>2. TypeOK' /\ ScopesInStep' /\ SetsHoldTypes'
    <2>1. Pending' = Pending
      BY <1>1 DEF Pending
    <2>2. IS_TYPEDEF' \in BOOLEAN
      BY <1>1, AtSpecifiers DEF Specifiers, IInv, TypeOK, Declarations, Specifying
    <2>3. strayed' \subseteq {"name", "parameter"}
      BY DEF IInv, TypeOK, Stray, TypeInC
    <2> QED  BY <1>1, <2>1, <2>2, <2>3, Quiet DEF IInv, TypeOK, Phases, Outcomes
  <1>3. DeclarationsInPlace'
    BY <1>1 DEF DeclarationsInPlace, Specifiers, Member, InBraces
  <1>4. NamesAreNoTypes'
    BY <1>1 DEF NamesAreNoTypes, is_type
  <1>5. StrayedIsRefused'
    <2>1. SUFFICES ASSUME "name" \in strayed', running'
                   PROVE  \E i \in DOMAIN braces : braces[i].decl.types = 2
      BY DEF StrayedIsRefused
    <2>2. ~(find(env, n) = "type")
      BY <1>1, <2>1, Reads DEF IInv
    <2>3. "name" \in strayed
      BY <2>1, <2>2 DEF Stray, TypeInC, is_type
    <2>4. decl.types < 2
      BY <2>1
    <2> QED  BY <2>1, <2>3, <2>4 DEF IInv, StrayedIsRefused
  <1> QED  BY <1>2, <1>3, <1>4, <1>5 DEF IInv

LEMMA PointerKeeps ==
    ASSUME IInv, Pointer  PROVE IInv'
  <1> USE DEF Pointer, lexer, scopes, OneType, running
  <1>1. /\ decl \in Declarations /\ decl.list = {} /\ decl.params = {} /\ decl.types \in 0 .. 2
        /\ Pending = {} /\ \A i \in DOMAIN braces : braces[i].kind = "struct"
        /\ \A i \in DOMAIN braces : braces[i].decl.list = {} /\ braces[i].decl.params = {}
    BY AtSpecifiers DEF Declarations, Specifying
  <1>2. TypeOK' /\ ScopesInStep' /\ SetsHoldTypes'
    <2>1. Pending' = Pending
      BY <1>1 DEF Pending
    <2>2. IS_TYPEDEF' \in BOOLEAN
      BY <1>1 DEF Specifiers, IInv, TypeOK, Declarations
    <2> QED  BY <1>1, <2>1, <2>2, Quiet DEF IInv, TypeOK, Phases, Outcomes
  <1>3. DeclarationsInPlace'
    BY <1>1 DEF DeclarationsInPlace, Specifiers, Member, InBraces
  <1>4. NamesAreNoTypes'
    BY DEF NamesAreNoTypes
  <1>5. StrayedIsRefused'
    BY DEF IInv, StrayedIsRefused
  <1> QED  BY <1>2, <1>3, <1>4, <1>5 DEF IInv

LEMMA NameKeeps ==
    ASSUME IInv, NEW n \in Names, Name(n)  PROVE IInv'
  <1> USE DEF Name, lexer, scopes
  <1>1. /\ decl \in Declarations /\ decl.params = {} /\ decl'.params = {} /\ decl.types < 2
        /\ \A i \in DOMAIN braces : braces[i].kind # "initializer" /\ braces[i].kind # "enum"
    BY DEF IInv, TypeOK, DeclarationsInPlace, Declarations
  <1>2. /\ decl' \in Declarations /\ decl'.typedef = decl.typedef /\ decl'.list = decl.list
        /\ decl'.types = decl.types
    BY <1>1 DEF Declarations
  <1>3. TypeOK' /\ ScopesInStep' /\ SetsHoldTypes'
    <2>1. Pending' = Pending
      BY <1>2 DEF Pending, Member, InBraces
    <2> QED  BY <1>2, <2>1, Quiet DEF IInv, TypeOK, Phases, Outcomes
  <1>4. DeclarationsInPlace'
    BY <1>1, <1>2 DEF IInv, DeclarationsInPlace, Member, InBraces, Declarations
  <1>5. NamesAreNoTypes'
    BY <1>1 DEF IInv, TypeOK, Declarations, NamesAreNoTypes, is_type
  <1>6. StrayedIsRefused'
    BY DEF IInv, StrayedIsRefused
  <1> QED  BY <1>3, <1>4, <1>5, <1>6 DEF IInv

\* What a declarator has read when its parameters are, and that reading a
\* parameter adds a name that is no type, or none.
LEMMA ParameterRead ==
    ASSUME IInv, running, phase \in {"declarator", "parameters"}, phase' \in {"declarator", "parameters"},
           decl' \in Declarations, decl'.typedef = decl.typedef, decl'.list = decl.list,
           decl'.types = decl.types, decl'.name = decl.name,
           outcome' \in Outcomes, strayed' \subseteq {"name", "parameter"},
           UNCHANGED <<lexer, scopes, braces>>,
           outcome' = "running" /\ phase = phase' => phase = "parameters",
           outcome' = "running" => \A n \in decl'.params : n \in decl.params \/ ~is_type(n),
           outcome' = "running" /\ "name" \in strayed' => "name" \in strayed
    PROVE  IInv'
  <1> USE DEF lexer, scopes
  <1>1. /\ decl.name \in Names /\ decl.types < 2
        /\ \A i \in DOMAIN braces : braces[i].kind # "initializer" /\ braces[i].kind # "enum"
    BY DEF IInv, DeclarationsInPlace
  <1>2. TypeOK' /\ ScopesInStep' /\ SetsHoldTypes'
    <2>1. Pending' = Pending
      BY DEF Pending, Member, InBraces
    <2>2. IS_TYPEDEF' \in BOOLEAN
      BY DEF IInv, TypeOK
    <2> QED  BY <2>1, <2>2, Quiet DEF Phases
  <1>3. DeclarationsInPlace'
    BY <1>1 DEF IInv, DeclarationsInPlace, Member, InBraces
  <1>4. NamesAreNoTypes'
    <2>1. running => ~is_type(decl.name) /\ \A n \in decl.params : ~is_type(n)
      BY DEF IInv, NamesAreNoTypes
    <2>2. \A n : is_type(n)' <=> is_type(n)
      BY DEF is_type
    <2> QED  BY <2>1, <2>2 DEF NamesAreNoTypes, running
  <1>5. StrayedIsRefused'
    BY <1>1 DEF IInv, StrayedIsRefused, running
  <1> QED  BY <1>2, <1>3, <1>4, <1>5 DEF IInv

LEMMA BracketKeeps ==
    ASSUME IInv, OpenParameters \/ CloseParameters  PROVE IInv'
  <1> USE DEF OpenParameters, CloseParameters, lexer, scopes, running
  <1>1. decl \in Declarations
    BY DEF IInv, TypeOK
  <1>2. /\ decl' \in Declarations /\ decl'.typedef = decl.typedef /\ decl'.list = decl.list
        /\ decl'.types = decl.types /\ decl'.name = decl.name /\ decl'.params = decl.params
    BY <1>1 DEF Declarations
  <1>3. outcome' \in Outcomes /\ strayed' \subseteq {"name", "parameter"}
    BY DEF IInv, TypeOK
  <1> QED  BY <1>2, <1>3, ParameterRead

\* A parameter is misread only where it names a type of the typedef's own
\* list; any other name is a type for the lexer where it is one in C.
LEMMA ParameterKeeps ==
    ASSUME IInv, NEW n \in Names,
           \/ TypedParameter(n) \/ BareParameter(n) \/ QualifiedParameter(n)
           \/ \E t \in Names : NamedParameter(t, n)
    PROVE  IInv'
  <1> USE DEF TypedParameter, BareParameter, QualifiedParameter, NamedParameter, lexer, scopes, running
  <1>1. /\ running /\ phase = "parameters" /\ phase' = "parameters" /\ UNCHANGED <<lexer, scopes, braces>>
        /\ decl \in Declarations
    BY DEF IInv, TypeOK
  <1>2. PICK p \in Names \cup {NoName} : decl' = [decl EXCEPT !.params = @ \cup {p}]
    OBVIOUS
  <1>3. /\ decl' \in Declarations /\ decl'.typedef = decl.typedef /\ decl'.list = decl.list
        /\ decl'.types = decl.types /\ decl'.name = decl.name /\ decl'.params = decl.params \cup {p}
    BY <1>1, <1>2 DEF Declarations
  <1>4. outcome' \in Outcomes
    BY DEF AsType, Outcomes
  <1>5. strayed' \subseteq {"name", "parameter"}
    BY DEF IInv, TypeOK, Stray
  <1>6. ~is_type(NoName)
    BY TypeNamesAssumption DEF IInv, TypeOK, is_type
  <1>7. ASSUME outcome' = "running", NEW q \in decl'.params  PROVE q \in decl.params \/ ~is_type(q)
    <2>1. ASSUME ~(q \in decl.params)
          PROVE  q = NoName \/ (q = n /\ ~is_type(n))
      <3>1. decl'.params = decl.params \cup {n} \/ decl'.params = decl.params \cup {NoName}
        BY <1>1 DEF Declarations
      <3>2. is_type(n) /\ (TypedParameter(n) \/ \E t \in Names : NamedParameter(t, n)) => FALSE
        BY <1>7
      <3>3. QualifiedParameter(n) /\ is_type(n) => decl'.params = decl.params \cup {NoName}
        BY <1>1 DEF Declarations
      <3>4. BareParameter(n) => decl'.params = decl.params \cup {NoName}
        BY <1>1 DEF Declarations
      <3> HIDE DEF TypedParameter, BareParameter, QualifiedParameter, NamedParameter
      <3> QED  BY <1>7, <2>1, <3>1, <3>2, <3>3, <3>4
    <2> QED  BY <1>6, <2>1
  <1>8. ASSUME NEW m \in Names
        PROVE  TypeInC(m) => is_type(m) \/ (decl.typedef /\ m \in decl.list)
    <2>1. find(env, m) = "type" => is_type(m) \/ m \in Pending
      BY <1>1, Reads DEF IInv
    <2> QED  BY <2>1 DEF TypeInC, Pending
  <1>9. ASSUME NEW m \in Names, is_type(m)  PROVE TypeInC(m)
    <2>1. find(env, m) = "type"
      BY <1>1, <1>9, Reads DEF IInv
    <2>2. ~(m \in decl.params)
      BY <1>1, <1>9 DEF IInv, NamesAreNoTypes
    <2> QED  BY <2>1, <2>2 DEF TypeInC
  <1>10. ASSUME outcome' = "running", "name" \in strayed'  PROVE "name" \in strayed
    <2>1. CASE TypedParameter(n)
      BY <1>10, <2>1
    <2>2. CASE BareParameter(n)
      <3>1. is_type(n)
        BY <1>10, <2>2
      <3> QED  BY <1>9, <1>10, <2>2, <3>1 DEF Stray
    <2>3. CASE QualifiedParameter(n)
      <3>1. CASE is_type(n)
        BY <1>9, <1>10, <2>3, <3>1 DEF Stray
      <3>2. CASE ~is_type(n)
        <4>1. is_type(n) = FALSE
          BY <3>2 DEF is_type
        <4>2. CASE TypeInC(n)
          <5>1. strayed' = strayed \cup {"parameter"}
            BY <1>8, <2>3, <3>2, <4>2
          <5> QED  BY <1>10, <5>1
        <4>3. CASE ~TypeInC(n)
          BY <1>10, <2>3, <3>2, <4>1, <4>3 DEF Stray, TypeInC
        <4> QED  BY <4>2, <4>3
      <3> QED  BY <3>1, <3>2
    <2>4. ASSUME NEW t \in Names, NamedParameter(t, n)  PROVE "name" \in strayed
      <3>1. is_type(t)
        BY <1>10, <2>4
      <3> QED  BY <1>9, <1>10, <2>4, <3>1 DEF Stray
    <2> QED  BY <2>1, <2>2, <2>3, <2>4
  <1> HIDE DEF TypedParameter, BareParameter, QualifiedParameter, NamedParameter
  <1> QED  BY <1>1, <1>3, <1>4, <1>5, <1>7, <1>10, ParameterRead

\* A name that the typedef itself declares is a value for the lexer, and
\* refused by the generator.
LEMMA UseKeeps ==
    ASSUME IInv, NEW n \in Names, NEW operand \in BOOLEAN, Use(n, operand)  PROVE IInv'
  <1> USE DEF Use, lexer, scopes, running
  <1>1. phase # "start"
    OBVIOUS
  <1>2. TypeOK' /\ ScopesInStep' /\ SetsHoldTypes'
    <2>1. Pending' = Pending
      BY DEF Pending, Member, InBraces
    <2>2. outcome' \in Outcomes
      BY DEF AsType, AsValue, Outcomes
    <2>3. strayed' \subseteq {"name", "parameter"}
      BY DEF IInv, TypeOK, Stray, TypeInC
    <2> QED  BY <1>1, <2>1, <2>2, <2>3, Quiet DEF IInv, TypeOK
  <1>3. DeclarationsInPlace'
    BY DEF IInv, DeclarationsInPlace, Member, InBraces
  <1>4. NamesAreNoTypes'
    BY DEF IInv, NamesAreNoTypes, is_type
  <1>5. StrayedIsRefused'
    <2>1. SUFFICES ASSUME "name" \in strayed', running'
                   PROVE  "name" \in strayed
      BY DEF IInv, StrayedIsRefused
    <2>2. CASE is_type(n)
      <3>1. find(env, n) = "type"
        BY <1>1, <2>2, Reads DEF IInv
      <3>2. phase = "parameters" => ~(n \in decl.params)
        BY <2>2 DEF IInv, NamesAreNoTypes
      <3> QED  BY <2>1, <2>2, <3>1, <3>2 DEF Stray, TypeInC
    <2>3. CASE ~is_type(n)
      <3>1. find(symTable, n) = "value"
        BY <2>1, <2>3 DEF AsValue
      <3>2. ~(n \in Pending)
        BY <1>1, <2>1, <3>1, Reads DEF IInv
      <3>3. ~(find(env, n) = "type")
        BY <1>1, <2>1, <2>3, <3>2, Reads DEF IInv
      <3>4. is_type(n) = FALSE
        BY <2>3 DEF is_type
      <3> QED  BY <2>1, <3>3, <3>4 DEF Stray, TypeInC
    <2> QED  BY <2>2, <2>3
  <1> QED  BY <1>2, <1>3, <1>4, <1>5 DEF IInv

LEMMA EndOfSpecifiersKeeps ==
    ASSUME IInv, EndOfSpecifiers  PROVE IInv'
  <1> USE DEF EndOfSpecifiers, lexer, scopes, OneType, running
  <1>1. /\ decl \in Declarations /\ Pending = {} /\ \A i \in DOMAIN braces : braces[i].kind = "struct"
        /\ \A i \in DOMAIN braces : braces[i].decl.list = {} /\ braces[i].decl.params = {}
    BY AtSpecifiers DEF Specifying
  <1>2. decl' \in Declarations /\ decl'.list = {}
    BY DEF NoDecl, Declarations
  <1>3. TypeOK' /\ ScopesInStep' /\ SetsHoldTypes'
    <2>1. Pending' = Pending
      BY <1>1, <1>2 DEF Pending
    <2>2. IS_TYPEDEF' \in BOOLEAN
      BY <1>1 DEF Specifiers, IInv, TypeOK, Declarations
    <2> QED  BY <1>2, <2>1, <2>2, Quiet DEF IInv, TypeOK, Phases, Outcomes
  <1>4. DeclarationsInPlace'
    BY <1>1 DEF DeclarationsInPlace
  <1>5. NamesAreNoTypes'
    BY DEF NamesAreNoTypes
  <1>6. StrayedIsRefused'
    BY DEF IInv, StrayedIsRefused
  <1> QED  BY <1>3, <1>4, <1>5, <1>6 DEF IInv
-----------------------------------------------------------------------------
LEMMA Pushed ==
    ASSUME NEW S, NEW s \in Seq(S), NEW e \in S
    PROVE  /\ Append(s, e) \in Seq(S) /\ Len(Append(s, e)) = Len(s) + 1
           /\ DOMAIN Append(s, e) = 1 .. Len(s) + 1 /\ Append(s, e)[Len(s) + 1] = e
           /\ \A i \in 1 .. Len(s) : Append(s, e)[i] = s[i]
  BY AppendProperties

LEMMA PushedSecond ==
    ASSUME NEW S, NEW s \in Seq(S), NEW e \in S, Len(s) = 1
    PROVE  /\ Append(s, e) \in Seq(S) /\ Len(Append(s, e)) = 2 /\ DOMAIN Append(s, e) = 1 .. 2
           /\ Append(s, e)[1] = s[1] /\ Append(s, e)[2] = e
  <1> DEFINE a == Append(s, e)
  <1>0. \A q \in Seq(S) :
           /\ Append(q, e) \in Seq(S) /\ Len(Append(q, e)) = Len(q) + 1
           /\ DOMAIN Append(q, e) = 1 .. Len(q) + 1 /\ Append(q, e)[Len(q) + 1] = e
           /\ \A i \in 1 .. Len(q) : Append(q, e)[i] = q[i]
    BY Pushed
  <1>1. /\ a \in Seq(S) /\ Len(a) = Len(s) + 1 /\ DOMAIN a = 1 .. Len(s) + 1
        /\ a[Len(s) + 1] = e /\ \A i \in 1 .. Len(s) : a[i] = s[i]
    BY <1>0
  <1> HIDE DEF a
  <1>2. Len(s) + 1 = 2 /\ 1 \in 1 .. Len(s)
    OBVIOUS
  <1> QED  BY <1>1, <1>2 DEF a

LEMMA PushedThird ==
    ASSUME NEW S, NEW s \in Seq(S), NEW e \in S, Len(s) = 2
    PROVE  /\ Append(s, e) \in Seq(S) /\ Len(Append(s, e)) = 3 /\ DOMAIN Append(s, e) = 1 .. 3
           /\ Append(s, e)[1] = s[1] /\ Append(s, e)[2] = s[2] /\ Append(s, e)[3] = e
  <1> DEFINE a == Append(s, e)
  <1>0. \A q \in Seq(S) :
           /\ Append(q, e) \in Seq(S) /\ Len(Append(q, e)) = Len(q) + 1
           /\ DOMAIN Append(q, e) = 1 .. Len(q) + 1 /\ Append(q, e)[Len(q) + 1] = e
           /\ \A i \in 1 .. Len(q) : Append(q, e)[i] = q[i]
    BY Pushed
  <1>1. /\ a \in Seq(S) /\ Len(a) = Len(s) + 1 /\ DOMAIN a = 1 .. Len(s) + 1
        /\ a[Len(s) + 1] = e /\ \A i \in 1 .. Len(s) : a[i] = s[i]
    BY <1>0
  <1> HIDE DEF a
  <1>2. Len(s) + 1 = 3 /\ 1 \in 1 .. Len(s) /\ 2 \in 1 .. Len(s)
    OBVIOUS
  <1> QED  BY <1>1, <1>2 DEF a

\* A step that opens a brace: the lexer's set of it is empty.
LEMMA PushBrace ==
    ASSUME IInv, running, phase # "start", NEW b \in OpenBraces,
           TYPE_SET' = push(TYPE_SET), braces' = Append(braces, b),
           UNCHANGED <<IS_TYPEDEF, symTable, env, outcome, strayed>>,
           phase' \in Phases \ {"start"}, decl' \in Declarations, Pending = {}, Pending' = {},
           ~(phase = "specifiers" /\ decl.types = 2)
    PROVE  /\ TypeOK' /\ ScopesInStep' /\ SetsHoldTypes' /\ StrayedIsRefused'
           /\ \A n : is_type(n)' <=> is_type(n)
  <1>1. /\ TYPE_SET \in Seq(SUBSET Names) /\ Len(TYPE_SET) \in Nat /\ DOMAIN TYPE_SET = 1 .. Len(TYPE_SET)
        /\ braces \in Seq(OpenBraces) /\ Len(braces) \in Nat /\ DOMAIN braces = 1 .. Len(braces)
        /\ env \in Seq([Names -> Kinds]) /\ Len(env) \in Nat /\ DOMAIN env = 1 .. Len(env)
        /\ Len(TYPE_SET) = Len(env) + Len(braces)
    BY DEF IInv, TypeOK
  <1>2. {} \in SUBSET Names
    OBVIOUS
  <1>3. /\ TYPE_SET' \in Seq(SUBSET Names) /\ Len(TYPE_SET') = Len(TYPE_SET) + 1
        /\ DOMAIN TYPE_SET' = 1 .. Len(TYPE_SET) + 1 /\ TYPE_SET'[Len(TYPE_SET) + 1] = {}
        /\ \A i \in 1 .. Len(TYPE_SET) : TYPE_SET'[i] = TYPE_SET[i]
    BY <1>1, <1>2, Pushed DEF push
  <1>4. /\ braces' \in Seq(OpenBraces) /\ Len(braces') = Len(braces) + 1
        /\ DOMAIN braces' = 1 .. Len(braces) + 1
        /\ \A i \in 1 .. Len(braces) : braces'[i] = braces[i]
    BY <1>1, Pushed
  <1>5. TypeOK'
    BY <1>1, <1>3, <1>4 DEF IInv, TypeOK
  <1>6. ScopesInStep'
    BY <1>1, <1>3 DEF IInv, ScopesInStep
  <1>7. SetsHoldTypes'
    <2>1. SUFFICES
                          /\ \A i \in DOMAIN env, n \in Names : env[i][n] = "type" <=> n \in TYPE_SET'[i]
                          /\ \A i \in DOMAIN TYPE_SET' : i > Len(env) => TYPE_SET'[i] = {}
                          /\ \A i, j \in DOMAIN env, n \in Names :
                                i < j /\ env[j][n] = "value" => env[i][n] # "type"
      BY DEF SetsHoldTypes
    <2>2. \A i \in DOMAIN env, n \in Names : env[i][n] = "type" <=> n \in TYPE_SET'[i]
      BY <1>1, <1>3, <2>1 DEF IInv, SetsHoldTypes
    <2>3. \A i \in DOMAIN TYPE_SET' : i > Len(env) => TYPE_SET'[i] = {}
      BY SMTT(60), <1>1, <1>3, <2>1 DEF IInv, SetsHoldTypes
    <2> QED  BY <2>1, <2>2, <2>3 DEF IInv, SetsHoldTypes
  <1>8. StrayedIsRefused'
    <2>1. SUFFICES ASSUME "name" \in strayed  PROVE \E i \in DOMAIN braces' : braces'[i].decl.types = 2
      BY DEF StrayedIsRefused
    <2>2. PICK i \in DOMAIN braces : braces[i].decl.types = 2
      BY <2>1 DEF IInv, StrayedIsRefused
    <2> QED  BY <1>1, <1>4, <2>2
  <1>9. \A n : is_type(n)' <=> is_type(n)
    BY SMTT(60), <1>1, <1>3 DEF is_type
  <1> QED  BY <1>5, <1>6, <1>7, <1>8, <1>9

LEMMA NoDeclaration ==
    NoDecl \in Declarations /\ NoDecl.list = {} /\ NoDecl.params = {} /\ NoDecl.types = 0
  BY DEF NoDecl, Declarations

\* struct { and enum { alike.
LEMMA OpenTagKeeps ==
    ASSUME IInv, OpenStruct \/ OpenEnum  PROVE IInv'
  <1> DEFINE d == [decl EXCEPT !.types = @ + 1]
  <1> USE DEF OpenStruct, OpenEnum, Specifying, lexer, scopes
  <1>1. /\ decl \in Declarations /\ decl.list = {} /\ decl.params = {} /\ Pending = {}
        /\ \A i \in DOMAIN braces : braces[i].kind = "struct" /\ braces[i].decl.list = {}
                                    /\ braces[i].decl.params = {}
    BY AtSpecifiers
  <1>2. decl.types \in 0 .. 2 /\ decl.types < 2
    BY <1>1 DEF Declarations
  <1>3. d \in Declarations /\ d.list = {} /\ d.params = {}
    BY <1>1, <1>2 DEF Declarations
  <1> HIDE DEF d
  <1>4. PICK kind \in {"struct", "enum"} :
           /\ Brace(kind, d) /\ decl' = NoDecl
           /\ phase' = IF kind = "struct" THEN "open" ELSE "enumerators"
    BY DEF d
  <1> DEFINE b == [kind |-> kind, decl |-> d]
  <1>5. b \in OpenBraces /\ b.kind = kind /\ b.decl = d
    BY <1>3 DEF OpenBraces
  <1>6. TYPE_SET' = push(TYPE_SET) /\ braces' = Append(braces, b)
    BY <1>4 DEF Brace
  <1> HIDE DEF b
  <1>7. Pending' = {}
    BY <1>4, NoDeclaration DEF Pending
  <1>8. TypeOK' /\ ScopesInStep' /\ SetsHoldTypes' /\ StrayedIsRefused'
    BY <1>1, <1>2, <1>4, <1>5, <1>6, <1>7, NoDeclaration, PushBrace DEF Phases
  <1>9. DeclarationsInPlace'
    <2>1. /\ Len(braces') = Len(braces) + 1 /\ DOMAIN braces' = 1 .. Len(braces) + 1
          /\ braces'[Len(braces) + 1] = b
          /\ \A i \in 1 .. Len(braces) : braces'[i] = braces[i]
      BY <1>5, <1>6, Pushed DEF IInv, TypeOK
    <2>2. DOMAIN braces = 1 .. Len(braces) /\ Len(braces) \in Nat
      BY DEF IInv, TypeOK
    <2>3. \A i \in DOMAIN braces' :
             /\ braces'[i].kind # "initializer"
             /\ braces'[i].kind = "enum" => phase' = "enumerators" /\ i = Len(braces')
             /\ braces'[i].decl.list = {} /\ braces'[i].decl.params = {}
      BY <1>1, <1>3, <1>4, <1>5, <2>1, <2>2
    <2> QED  BY <1>4, <2>3 DEF DeclarationsInPlace
  <1>10. NamesAreNoTypes'
    BY <1>4 DEF NamesAreNoTypes
  <1> QED  BY <1>8, <1>9, <1>10 DEF IInv

LEMMA OpenInitializerKeeps ==
    ASSUME IInv, OpenInitializer  PROVE IInv'
  <1> DEFINE b == [kind |-> "initializer", decl |-> decl]
  <1> USE DEF OpenInitializer, lexer, scopes
  <1>1. decl \in Declarations /\ ~decl.typedef
    BY DEF IInv, TypeOK, DeclarationsInPlace
  <1>2. b \in OpenBraces /\ b.kind = "initializer" /\ b.decl = decl
    BY <1>1 DEF OpenBraces
  <1>3. TYPE_SET' = push(TYPE_SET) /\ braces' = Append(braces, b)
    BY DEF Brace
  <1> HIDE DEF b
  <1>4. Pending = {} /\ Pending' = {}
    BY <1>1 DEF Pending
  <1>5. /\ TypeOK' /\ ScopesInStep' /\ SetsHoldTypes' /\ StrayedIsRefused'
        /\ \A n : is_type(n)' <=> is_type(n)
    BY <1>1, <1>2, <1>3, <1>4, PushBrace DEF Phases
  <1>6. DeclarationsInPlace'
    <2>1. /\ Len(braces') = Len(braces) + 1 /\ DOMAIN braces' = 1 .. Len(braces) + 1
          /\ braces'[Len(braces) + 1] = b
          /\ \A i \in 1 .. Len(braces) : braces'[i] = braces[i]
      BY <1>2, <1>3, Pushed DEF IInv, TypeOK
    <2>2. DOMAIN braces = 1 .. Len(braces) /\ Len(braces) \in Nat
      BY DEF IInv, TypeOK
    <2>3. \A i \in DOMAIN braces' :
             braces'[i].kind = "initializer" /\ braces'[i].decl = decl
      BY <1>2, <2>1, <2>2 DEF IInv, DeclarationsInPlace
    <2> QED  BY <2>3 DEF IInv, DeclarationsInPlace
  <1>7. NamesAreNoTypes'
    <2>1. running => ~is_type(decl.name)
      BY DEF IInv, NamesAreNoTypes
    <2> QED  BY <1>5, <2>1 DEF NamesAreNoTypes, is_type
  <1> QED  BY <1>5, <1>6, <1>7 DEF IInv

\* A step that closes one.
LEMMA PopBrace ==
    ASSUME IInv, NEW kind, Unbrace(kind), phase # "start",
           UNCHANGED <<IS_TYPEDEF, symTable, env, outcome, strayed>>,
           phase' \in Phases \ {"start"}, Pending = {}, Pending' = {}
    PROVE  /\ TypeOK' /\ ScopesInStep' /\ SetsHoldTypes'
           /\ decl' = braces[Len(braces)].decl /\ Len(braces) \in DOMAIN braces
           /\ braces[Len(braces)].kind = kind /\ braces[Len(braces)] \in OpenBraces
           /\ Len(braces') = Len(braces) - 1
           /\ DOMAIN braces = 1 .. Len(braces) /\ DOMAIN braces' = 1 .. Len(braces) - 1
           /\ \A i \in 1 .. Len(braces) - 1 : braces'[i] = braces[i]
           /\ \A n : is_type(n)' <=> is_type(n)
  <1>1. /\ TYPE_SET \in Seq(SUBSET Names) /\ Len(TYPE_SET) \in Nat /\ DOMAIN TYPE_SET = 1 .. Len(TYPE_SET)
        /\ braces \in Seq(OpenBraces) /\ Len(braces) \in Nat /\ DOMAIN braces = 1 .. Len(braces)
        /\ env \in Seq([Names -> Kinds]) /\ Len(env) \in Nat /\ DOMAIN env = 1 .. Len(env)
        /\ Len(TYPE_SET) = Len(env) + Len(braces) /\ Len(env) >= 2
    BY DEF IInv, TypeOK
  <1>2. /\ Len(braces) > 0 /\ braces[Len(braces)].kind = kind /\ running
        /\ braces' = pop(braces) /\ TYPE_SET' = pop(TYPE_SET) /\ decl' = braces[Len(braces)].decl
    BY <1>1 DEF Unbrace, InBraces
  <1>3. Len(TYPE_SET) > 0 /\ Len(TYPE_SET) - 1 >= Len(env)
    BY <1>1, <1>2
  <1>4. /\ TYPE_SET' \in Seq(SUBSET Names) /\ Len(TYPE_SET') = Len(TYPE_SET) - 1
        /\ DOMAIN TYPE_SET' = 1 .. Len(TYPE_SET) - 1
        /\ \A i \in 1 .. Len(TYPE_SET) - 1 : TYPE_SET'[i] = TYPE_SET[i]
        /\ \A i \in DOMAIN env : i \in DOMAIN TYPE_SET' /\ i \in DOMAIN TYPE_SET
        /\ \A i \in DOMAIN TYPE_SET' : i \in DOMAIN TYPE_SET /\ TYPE_SET'[i] = TYPE_SET[i]
    <2>1. /\ TYPE_SET' \in Seq(SUBSET Names) /\ Len(TYPE_SET') = Len(TYPE_SET) - 1
          /\ DOMAIN TYPE_SET' = 1 .. Len(TYPE_SET) - 1
          /\ \A i \in 1 .. Len(TYPE_SET) - 1 : TYPE_SET'[i] = TYPE_SET[i]
      BY <1>1, <1>2, <1>3, Popped
    <2>2. \A i \in 1 .. Len(env) : i \in 1 .. Len(TYPE_SET) - 1
      BY <1>1, <1>3
    <2>3. \A i \in 1 .. Len(TYPE_SET) - 1 : i \in 1 .. Len(TYPE_SET)
      BY <1>1
    <2> QED  BY <1>1, <2>1, <2>2, <2>3
  <1>5. /\ braces' \in Seq(OpenBraces) /\ Len(braces') = Len(braces) - 1
        /\ DOMAIN braces' = 1 .. Len(braces) - 1
        /\ \A i \in 1 .. Len(braces) - 1 : braces'[i] = braces[i]
    BY <1>1, <1>2, Popped
  <1>6. Len(braces) \in DOMAIN braces /\ braces[Len(braces)] \in OpenBraces
    BY <1>1, <1>2
  <1>7. decl' \in Declarations
    BY <1>2, <1>6 DEF OpenBraces
  <1>8. TypeOK'
    BY <1>1, <1>3, <1>4, <1>5, <1>7 DEF IInv, TypeOK
  <1>9. ScopesInStep'
    <2>1. TYPE_SET'[1] = TYPE_SET[1] /\ TYPE_SET' # <<>>
      BY <1>1, <1>3, <1>4
    <2> QED  BY <1>2, <2>1 DEF IInv, ScopesInStep
  <1>10. SetsHoldTypes'
    <2>1. SUFFICES
                          /\ \A i \in DOMAIN env, n \in Names : env[i][n] = "type" <=> n \in TYPE_SET'[i]
                          /\ \A i \in DOMAIN TYPE_SET' : i > Len(env) => TYPE_SET'[i] = {}
                          /\ \A i, j \in DOMAIN env, n \in Names :
                                i < j /\ env[j][n] = "value" => env[i][n] # "type"
      BY DEF SetsHoldTypes
    <2>2. \A i \in DOMAIN env, n \in Names : env[i][n] = "type" <=> n \in TYPE_SET'[i]
      BY <1>1, <1>2, <1>3, <1>4, <2>1 DEF IInv, SetsHoldTypes
    <2>3. \A i \in DOMAIN TYPE_SET' : i > Len(env) => TYPE_SET'[i] = {}
      BY <1>1, <1>2, <1>4, <2>1 DEF IInv, SetsHoldTypes
    <2> QED  BY <1>2, <2>1, <2>2, <2>3 DEF IInv, SetsHoldTypes
  <1>11. ASSUME NEW n  PROVE is_type(n)' <=> is_type(n)
    <2>1. Len(TYPE_SET) \in DOMAIN TYPE_SET /\ Len(TYPE_SET) > Len(env)
      BY <1>1, <1>3
    <2>2. TYPE_SET[Len(TYPE_SET)] = {}
      BY <1>2, <1>11, <2>1 DEF IInv, SetsHoldTypes
    <2>3. \A i \in DOMAIN TYPE_SET : i \in DOMAIN TYPE_SET' \/ i = Len(TYPE_SET)
      BY <1>1, <1>4
    <2> QED  BY <1>4, <2>2, <2>3 DEF is_type
  <1> QED  BY <1>1, <1>2, <1>5, <1>6, <1>8, <1>9, <1>10, <1>11

\* } of a struct and of an enum alike: the declaration around them goes on.
LEMMA CloseTagKeeps ==
    ASSUME IInv, CloseStruct \/ CloseEnum  PROVE IInv'
  <1> USE DEF CloseStruct, CloseEnum, lexer, scopes
  <1>1. PICK kind \in {"struct", "enum"} : Unbrace(kind)
    OBVIOUS
  <1>2. decl = NoDecl /\ running
    BY <1>1 DEF IInv, DeclarationsInPlace, Unbrace
  <1> DEFINE top == braces[Len(braces)]
  <1>3. top.decl.list = {} /\ top.decl.params = {} /\ decl' = top.decl
    <2>1. braces \in Seq(OpenBraces) /\ braces # <<>> /\ top.kind = kind /\ decl' = top.decl
      BY <1>1 DEF IInv, TypeOK, Unbrace, InBraces
    <2>2. Len(braces) \in DOMAIN braces
      BY <2>1
    <2> QED  BY <1>2, <2>1, <2>2 DEF IInv, DeclarationsInPlace
  <1>4. Pending = {} /\ Pending' = {}
    BY <1>2, <1>3, NoDeclaration DEF Pending
  <1>5. /\ TypeOK' /\ ScopesInStep' /\ SetsHoldTypes'
        /\ Len(braces') = Len(braces) - 1 /\ DOMAIN braces' = 1 .. Len(braces) - 1
        /\ DOMAIN braces = 1 .. Len(braces) /\ Len(braces) \in DOMAIN braces
        /\ \A i \in 1 .. Len(braces) - 1 : braces'[i] = braces[i]
    BY <1>1, <1>4, PopBrace DEF Phases
  <1>6. DeclarationsInPlace'
    <2>1. \A i \in DOMAIN braces' :
             /\ braces'[i].kind # "initializer"
             /\ braces'[i].kind # "enum"
             /\ braces'[i].decl.list = {} /\ braces'[i].decl.params = {}
      BY <1>2, <1>5 DEF IInv, DeclarationsInPlace
    <2> QED  BY <1>3, <2>1 DEF DeclarationsInPlace
  <1>7. phase' = "specifiers" /\ UNCHANGED strayed
    OBVIOUS
  <1>8. NamesAreNoTypes'
    BY <1>7 DEF NamesAreNoTypes
  <1>9. StrayedIsRefused'
    <2>1. SUFFICES ASSUME "name" \in strayed
                   PROVE  decl'.types = 2 \/ \E i \in DOMAIN braces' : braces'[i].decl.types = 2
      BY <1>7 DEF StrayedIsRefused
    <2>2. PICK i \in DOMAIN braces : braces[i].decl.types = 2
      BY <1>2, <2>1 DEF IInv, StrayedIsRefused
    <2>3. CASE i = Len(braces)
      BY <1>3, <2>2, <2>3
    <2>4. CASE i # Len(braces)
      BY <1>5, <2>2, <2>4
    <2> QED  BY <2>3, <2>4
  <1> QED  BY <1>5, <1>6, <1>8, <1>9 DEF IInv

LEMMA CloseInitializerKeeps ==
    ASSUME IInv, CloseInitializer  PROVE IInv'
  <1> USE DEF CloseInitializer, lexer, scopes
  <1>1. running /\ ~decl.typedef /\ decl.types < 2 /\ decl \in Declarations
    BY DEF IInv, TypeOK, DeclarationsInPlace, Unbrace
  <1>2. decl' = decl
    <2>1. /\ braces \in Seq(OpenBraces) /\ braces # <<>> /\ braces[Len(braces)].kind = "initializer"
          /\ decl' = braces[Len(braces)].decl
      BY DEF IInv, TypeOK, Unbrace, InBraces
    <2>2. Len(braces) \in DOMAIN braces
      BY <2>1
    <2> QED  BY <1>1, <2>1, <2>2 DEF IInv, DeclarationsInPlace
  <1>3. Pending = {} /\ Pending' = {}
    BY <1>1, <1>2 DEF Pending
  <1>4. /\ TypeOK' /\ ScopesInStep' /\ SetsHoldTypes'
        /\ decl' = braces[Len(braces)].decl /\ Len(braces) \in DOMAIN braces
        /\ Len(braces') = Len(braces) - 1 /\ DOMAIN braces' = 1 .. Len(braces) - 1
        /\ DOMAIN braces = 1 .. Len(braces)
        /\ \A i \in 1 .. Len(braces) - 1 : braces'[i] = braces[i]
        /\ \A n : is_type(n)' <=> is_type(n)
    BY <1>3, PopBrace DEF Phases
  <1>5. DeclarationsInPlace'
    <2>1. \A i \in DOMAIN braces' :
             braces'[i].kind = "initializer" /\ braces'[i].decl = decl
      BY <1>1, <1>4 DEF IInv, DeclarationsInPlace
    <2> QED  BY <1>1, <1>2, <2>1 DEF IInv, DeclarationsInPlace
  <1>6. NamesAreNoTypes'
    <2>1. ~is_type(decl.name)
      BY <1>1 DEF IInv, NamesAreNoTypes
    <2> QED  BY <1>2, <1>4, <2>1 DEF NamesAreNoTypes, is_type
  <1>7. StrayedIsRefused'
    <2>1. SUFFICES ASSUME "name" \in strayed
                   PROVE  \E i \in DOMAIN braces' : braces'[i].decl.types = 2
      BY DEF StrayedIsRefused
    <2>2. PICK i \in DOMAIN braces : braces[i].decl.types = 2
      BY <1>1, <2>1 DEF IInv, StrayedIsRefused
    <2>3. i # Len(braces)
      BY <1>1, <1>2, <1>4, <2>2
    <2> QED  BY <1>4, <2>2, <2>3
  <1> QED  BY <1>4, <1>5, <1>6, <1>7 DEF IInv
-----------------------------------------------------------------------------
LEMMA SomeScopes ==
    /\ BuiltinScope \in [Names -> Kinds] /\ EmptyScope \in [Names -> Kinds]
    /\ \A n \in Names : /\ BuiltinScope[n] = "type" <=> n \in Builtins
                        /\ BuiltinScope[n] # "value" /\ EmptyScope[n] = "none"
    /\ \A ns : ParameterScope(ns) \in [Names -> Kinds]
    /\ \A ns : \A n \in Names :
          ParameterScope(ns)[n] # "type" /\ (ParameterScope(ns)[n] = "value" <=> n \in ns)
  BY DEF BuiltinScope, EmptyScope, ParameterScope, Kinds

\* With no brace open a set belongs to each scope.
LEMMA Outermost ==
    ASSUME IInv, running, phase \in {"open", "start"}, braces = <<>>
    PROVE  /\ decl = NoDecl /\ Pending = {} /\ Len(braces) = 0
           /\ TYPE_SET \in Seq(SUBSET Names) /\ Len(TYPE_SET) \in Nat /\ DOMAIN TYPE_SET = 1 .. Len(TYPE_SET)
           /\ env \in Seq([Names -> Kinds]) /\ Len(env) \in Nat /\ DOMAIN env = 1 .. Len(env)
           /\ symTable \in Seq([Names -> Kinds]) /\ Len(symTable) \in Nat
           /\ Len(TYPE_SET) >= 1 /\ TYPE_SET[1] = Builtins
           /\ phase = "open" => Len(TYPE_SET) = Len(env) /\ Len(env) >= 2
           /\ ~("name" \in strayed)
  <1>1. decl = NoDecl /\ Pending = {} /\ Len(braces) = 0 /\ DOMAIN braces = {}
    BY NoDeclaration DEF IInv, DeclarationsInPlace, Pending
  <1>2. /\ TYPE_SET \in Seq(SUBSET Names) /\ Len(TYPE_SET) \in Nat /\ DOMAIN TYPE_SET = 1 .. Len(TYPE_SET)
        /\ env \in Seq([Names -> Kinds]) /\ Len(env) \in Nat /\ DOMAIN env = 1 .. Len(env)
        /\ symTable \in Seq([Names -> Kinds]) /\ Len(symTable) \in Nat
    BY DEF IInv, TypeOK
  <1>3. phase = "open" => Len(TYPE_SET) = Len(env) /\ Len(env) >= 2
    BY <1>1, <1>2 DEF IInv, TypeOK
  <1>4. TYPE_SET # <<>> /\ TYPE_SET[1] = Builtins
    BY DEF IInv, ScopesInStep
  <1>5. Len(TYPE_SET) >= 1
    BY <1>2, <1>4
  <1>6. ~("name" \in strayed)
    BY <1>1 DEF IInv, StrayedIsRefused
  <1> QED  BY <1>1, <1>2, <1>3, <1>4, <1>5, <1>6

LEMMA UnitStartKeeps ==
    ASSUME IInv, UnitStart  PROVE IInv'
  <1> USE DEF UnitStart
  <1>1. /\ running /\ braces = <<>> /\ Len(TYPE_SET) = 1
    BY DEF IInv, TypeOK
  <1>2. /\ decl = NoDecl /\ Len(braces) = 0 /\ TYPE_SET \in Seq(SUBSET Names)
        /\ TYPE_SET[1] = Builtins /\ ~("name" \in strayed)
    BY <1>1, Outermost
  <1>0. TYPE_SET' = push(TYPE_SET)
    OBVIOUS
  <1>3. /\ TYPE_SET' \in Seq(SUBSET Names) /\ Len(TYPE_SET') = 2 /\ DOMAIN TYPE_SET' = 1 .. 2
        /\ TYPE_SET'[1] = Builtins /\ TYPE_SET'[2] = {}
    <2>1. {} \in SUBSET Names
      OBVIOUS
    <2> HIDE DEF UnitStart
    <2> QED  BY <1>0, <1>1, <1>2, <2>1, PushedSecond DEF push
  <1>4. /\ env' \in Seq([Names -> Kinds]) /\ Len(env') = 2 /\ DOMAIN env' = 1 .. 2
        /\ env'[1] = BuiltinScope /\ env'[2] = EmptyScope
        /\ symTable' \in Seq([Names -> Kinds]) /\ Len(symTable') = 1 /\ symTable' # <<>>
    BY SomeScopes
  <1>5. TypeOK'
    BY <1>1, <1>2, <1>3, <1>4 DEF IInv, TypeOK, Phases
  <1>6. DeclarationsInPlace'
    <2>1. DOMAIN braces = {}
      BY <1>1
    <2> QED  BY <1>2, <2>1 DEF DeclarationsInPlace
  <1>7. ScopesInStep'
    <2>1. TYPE_SET' # <<>>
      BY <1>3
    <2>2. Len(symTable') = Len(env') - 1
      BY <1>4
    <2> HIDE DEF UnitStart
    <2>3. phase' = "open"
      BY DEF UnitStart
    <2> QED  BY <1>3, <2>1, <2>2, <2>3 DEF ScopesInStep
  <1>8. SetsHoldTypes'
    <2>1. Pending' = {}
      BY <1>2, NoDeclaration DEF Pending
    <2>2. \A i \in DOMAIN env', n \in Names : env'[i][n] = "type" <=> n \in TYPE_SET'[i]
      BY <1>3, <1>4, SomeScopes
    <2>3. \A i, j \in DOMAIN env', n \in Names : env'[j][n] # "value"
      BY <1>4, SomeScopes
    <2>4. \A i \in DOMAIN TYPE_SET' : ~(i > Len(env'))
      BY <1>3, <1>4
    <2> QED  BY <2>1, <2>2, <2>3, <2>4 DEF SetsHoldTypes
  <1>9. NamesAreNoTypes'
    BY DEF NamesAreNoTypes
  <1>10. StrayedIsRefused'
    BY <1>2 DEF StrayedIsRefused
  <1> QED  BY <1>5, <1>6, <1>7, <1>8, <1>9, <1>10 DEF IInv

LEMMA UnitEndKeeps ==
    ASSUME IInv, UnitEnd  PROVE IInv'
  <1> USE DEF UnitEnd
  <1>1. /\ decl = NoDecl /\ Len(braces) = 0 /\ TYPE_SET \in Seq(SUBSET Names)
        /\ Len(TYPE_SET) = 2 /\ TYPE_SET[1] = Builtins
    BY Outermost
  <1>2. /\ TYPE_SET' \in Seq(SUBSET Names) /\ Len(TYPE_SET') = 1 /\ TYPE_SET'[1] = Builtins
    <2>1. Len(TYPE_SET) > 0
      BY <1>1
    <2>2. /\ pop(TYPE_SET) \in Seq(SUBSET Names) /\ Len(pop(TYPE_SET)) = Len(TYPE_SET) - 1
          /\ \A i \in 1 .. Len(TYPE_SET) - 1 : pop(TYPE_SET)[i] = TYPE_SET[i]
      BY <1>1, <2>1, Popped
    <2>3. Len(TYPE_SET) - 1 = 1 /\ 1 \in 1 .. Len(TYPE_SET) - 1
      BY <1>1
    <2> QED  BY <1>1, <2>2, <2>3
  <1>3. /\ TYPE_SET' # <<>> /\ env' = <<>> /\ symTable' = <<>>
        /\ env' \in Seq([Names -> Kinds]) /\ symTable' \in Seq([Names -> Kinds])
    BY <1>2
  <1>4. TypeOK'
    BY <1>1, <1>2, <1>3 DEF IInv, TypeOK, Phases
  <1>5. DeclarationsInPlace'
    <2>1. DOMAIN braces = {}
      OBVIOUS
    <2> QED  BY <1>1, <2>1 DEF DeclarationsInPlace
  <1>6. ScopesInStep'
    BY <1>2, <1>3 DEF ScopesInStep
  <1>7. SetsHoldTypes'
    <2>1. Pending' = {} /\ DOMAIN env' = {}
      BY <1>1, <1>3, NoDeclaration DEF Pending
    <2> QED  BY <2>1 DEF SetsHoldTypes
  <1>8. NamesAreNoTypes'
    BY DEF NamesAreNoTypes
  <1>9. StrayedIsRefused'
    BY DEF StrayedIsRefused
  <1> QED  BY <1>4, <1>5, <1>6, <1>7, <1>8, <1>9 DEF IInv

LEMMA OpenBlockKeeps ==
    ASSUME IInv, OpenBlock  PROVE IInv'
  <1> USE DEF OpenBlock
  <1>1. /\ decl = NoDecl /\ Len(braces) = 0 /\ Pending = {}
        /\ TYPE_SET \in Seq(SUBSET Names) /\ Len(TYPE_SET) = Len(env) /\ TYPE_SET[1] = Builtins
        /\ env \in Seq([Names -> Kinds]) /\ symTable \in Seq([Names -> Kinds])
        /\ Len(env) \in Nat /\ Len(env) >= 3 /\ Len(env) # 2 /\ DOMAIN env = 1 .. Len(env)
        /\ ~("name" \in strayed) /\ Len(symTable) = Len(env) - 1
    <2>1. /\ decl = NoDecl /\ Len(braces) = 0 /\ Pending = {}
          /\ TYPE_SET \in Seq(SUBSET Names) /\ Len(TYPE_SET) = Len(env) /\ TYPE_SET[1] = Builtins
          /\ env \in Seq([Names -> Kinds]) /\ symTable \in Seq([Names -> Kinds])
          /\ Len(env) \in Nat /\ DOMAIN env = 1 .. Len(env)
          /\ ~("name" \in strayed)
      BY Outermost
    <2>2. Len(env) >= 3 /\ Len(env) # 2
      <3>1. Len(env) \in 3 .. MaxScopes - 1 /\ MaxScopes - 1 \in Int
        BY TypeNamesAssumption
      <3> HIDE DEF OpenBlock
      <3>2. \A h \in Int : \A k \in 3 .. h : k >= 3 /\ k # 2
        OBVIOUS
      <3> QED  BY <3>1, <3>2
    <2>3. Len(symTable) = Len(env) - 1
      BY DEF IInv, ScopesInStep
    <2> QED  BY <2>1, <2>2, <2>3
  <1>2. {} \in SUBSET Names
    OBVIOUS
  <1>3. /\ TYPE_SET' \in Seq(SUBSET Names) /\ Len(TYPE_SET') = Len(env) + 1
        /\ DOMAIN TYPE_SET' = 1 .. Len(env) + 1 /\ TYPE_SET'[Len(env) + 1] = {}
        /\ \A i \in 1 .. Len(env) : TYPE_SET'[i] = TYPE_SET[i]
    BY <1>1, <1>2, Pushed DEF push
  <1>4. /\ env' \in Seq([Names -> Kinds]) /\ Len(env') = Len(env) + 1
        /\ DOMAIN env' = 1 .. Len(env) + 1 /\ env'[Len(env) + 1] = EmptyScope
        /\ \A i \in 1 .. Len(env) : env'[i] = env[i]
    BY <1>1, SomeScopes, Pushed
  <1>5. symTable' \in Seq([Names -> Kinds]) /\ Len(symTable') = Len(env)
    BY <1>1, SomeScopes, Pushed
  <1>6. TypeOK'
    BY <1>1, <1>3, <1>4, <1>5 DEF IInv, TypeOK
  <1>7. DeclarationsInPlace'
    BY <1>1 DEF IInv, DeclarationsInPlace
  <1>8. ScopesInStep'
    BY SMTT(60), <1>1, <1>3, <1>4, <1>5 DEF ScopesInStep
  <1>9. SetsHoldTypes'
    <2>1. SUFFICES
                          /\ \A i \in DOMAIN env', n \in Names : env'[i][n] = "type" <=> n \in TYPE_SET'[i]
                          /\ \A i \in DOMAIN TYPE_SET' : ~(i > Len(env'))
                          /\ \A i, j \in DOMAIN env', n \in Names :
                                i < j /\ env'[j][n] = "value" => env'[i][n] # "type"
      BY <1>1, NoDeclaration DEF SetsHoldTypes, Pending
    <2>2. \A i \in DOMAIN env' : i \in DOMAIN env \/ i = Len(env) + 1
      BY <1>1, <1>4
    <2>3. \A i \in DOMAIN env', n \in Names : env'[i][n] = "type" <=> n \in TYPE_SET'[i]
      <3> SUFFICES ASSUME NEW i \in DOMAIN env', NEW n \in Names
                   PROVE  env'[i][n] = "type" <=> n \in TYPE_SET'[i]
        OBVIOUS
      <3>1. CASE i \in DOMAIN env
        <4>1. env[i][n] = "type" <=> n \in TYPE_SET[i]
          BY <1>1, <3>1 DEF IInv, SetsHoldTypes
        <4>2. env'[i] = env[i] /\ TYPE_SET'[i] = TYPE_SET[i]
          BY <1>1, <1>3, <1>4, <3>1
        <4> QED  BY <4>1, <4>2
      <3>2. CASE i = Len(env) + 1
        BY <1>3, <1>4, <3>2, SomeScopes
      <3> QED  BY <2>2, <3>1, <3>2
    <2>4. \A i \in DOMAIN TYPE_SET' : ~(i > Len(env'))
      BY <1>1, <1>3, <1>4
    <2>5. ASSUME NEW i \in DOMAIN env', NEW j \in DOMAIN env', NEW n \in Names, i < j, env'[j][n] = "value"
          PROVE  env'[i][n] # "type"
      <3>1. j # Len(env) + 1
        BY <1>4, <2>5, SomeScopes
      <3>2. i # Len(env) + 1
        BY <1>1, <1>4, <2>5
      <3>3. i \in DOMAIN env /\ j \in DOMAIN env /\ env'[i] = env[i] /\ env'[j] = env[j]
        BY <1>1, <1>4, <2>2, <3>1, <3>2
      <3> QED  BY <2>1, <2>5, <3>3 DEF IInv, SetsHoldTypes
    <2> QED  BY <2>3, <2>4, <2>5
  <1>10. NamesAreNoTypes'
    BY DEF NamesAreNoTypes
  <1>11. StrayedIsRefused'
    BY <1>1 DEF StrayedIsRefused
  <1> QED  BY <1>6, <1>7, <1>8, <1>9, <1>10, <1>11 DEF IInv

LEMMA CloseBlockKeeps ==
    ASSUME IInv, CloseBlock  PROVE IInv'
  <1> USE DEF CloseBlock
  <1>1. /\ decl = NoDecl /\ Len(braces) = 0 /\ Pending = {}
        /\ TYPE_SET \in Seq(SUBSET Names) /\ Len(TYPE_SET) = Len(env) /\ TYPE_SET[1] = Builtins
        /\ env \in Seq([Names -> Kinds]) /\ symTable \in Seq([Names -> Kinds])
        /\ Len(env) \in Nat /\ Len(env) >= 3 /\ DOMAIN env = 1 .. Len(env)
        /\ ~("name" \in strayed) /\ Len(symTable) = Len(env) - 1
    <2>1. /\ decl = NoDecl /\ Len(braces) = 0 /\ Pending = {}
          /\ TYPE_SET \in Seq(SUBSET Names) /\ Len(TYPE_SET) = Len(env) /\ TYPE_SET[1] = Builtins
          /\ env \in Seq([Names -> Kinds]) /\ symTable \in Seq([Names -> Kinds])
          /\ Len(env) \in Nat /\ DOMAIN env = 1 .. Len(env)
          /\ ~("name" \in strayed)
      BY Outermost
    <2>2. Len(env) >= 3 /\ Len(env) # 2
      BY <2>1
    <2>3. Len(symTable) = Len(env) - 1
      BY <2>2 DEF IInv, ScopesInStep
    <2> QED  BY <2>1, <2>2, <2>3
  <1>2. /\ TYPE_SET' \in Seq(SUBSET Names) /\ Len(TYPE_SET') = Len(env) - 1
        /\ DOMAIN TYPE_SET' = 1 .. Len(env) - 1
        /\ \A i \in 1 .. Len(env) - 1 : TYPE_SET'[i] = TYPE_SET[i]
    BY <1>1, Popped
  <1>3. /\ env' \in Seq([Names -> Kinds]) /\ Len(env') = Len(env) - 1
        /\ DOMAIN env' = 1 .. Len(env) - 1
        /\ \A i \in 1 .. Len(env) - 1 : env'[i] = env[i]
    BY <1>1, Popped
  <1>4. /\ symTable' \in Seq([Names -> Kinds]) /\ symTable' # <<>>
        /\ Len(symTable') = Len(env') - 1
    <2>1. pop(symTable) \in Seq([Names -> Kinds]) /\ Len(pop(symTable)) = Len(env) - 1 - 1
      BY <1>1, Popped
    <2> QED  BY <1>1, <1>3, <2>1
  <1>5. TypeOK'
    BY SMTT(60), <1>1, <1>2, <1>3, <1>4 DEF IInv, TypeOK
  <1>6. DeclarationsInPlace'
    BY <1>1 DEF IInv, DeclarationsInPlace
  <1>7. ScopesInStep'
    <2>1. TYPE_SET'[1] = TYPE_SET[1] /\ TYPE_SET' # <<>>
      BY <1>1, <1>2
    <2> QED  BY <1>1, <1>4, <2>1 DEF ScopesInStep
  <1>8. SetsHoldTypes'
    <2>1. SUFFICES
                          /\ \A i \in DOMAIN env', n \in Names : env'[i][n] = "type" <=> n \in TYPE_SET'[i]
                          /\ \A i \in DOMAIN TYPE_SET' : ~(i > Len(env'))
                          /\ \A i, j \in DOMAIN env', n \in Names :
                                i < j /\ env'[j][n] = "value" => env'[i][n] # "type"
      BY <1>1, NoDeclaration DEF SetsHoldTypes, Pending
    <2>2. \A i \in DOMAIN env' : i \in DOMAIN env /\ env'[i] = env[i] /\ TYPE_SET'[i] = TYPE_SET[i]
      BY <1>1, <1>2, <1>3
    <2>3. \A i \in DOMAIN TYPE_SET' : ~(i > Len(env'))
      BY <1>1, <1>2, <1>3
    <2>4. \A i \in DOMAIN env', n \in Names : env'[i][n] = "type" <=> n \in TYPE_SET'[i]
      <3>1. \A i \in DOMAIN env, n \in Names : env[i][n] = "type" <=> n \in TYPE_SET[i]
        BY <1>1 DEF IInv, SetsHoldTypes
      <3> HIDE DEF CloseBlock
      <3> QED  BY <2>2, <3>1
    <2> QED  BY <2>1, <2>2, <2>3, <2>4 DEF IInv, SetsHoldTypes
  <1>9. NamesAreNoTypes'
    BY DEF NamesAreNoTypes
  <1>10. StrayedIsRefused'
    BY <1>1 DEF StrayedIsRefused
  <1> QED  BY <1>5, <1>6, <1>7, <1>8, <1>9, <1>10 DEF IInv
-----------------------------------------------------------------------------
\* What a declared name, which is no type, does to C's scopes.
LEMMA InsertHolds ==
    ASSUME IInv, running, phase # "start", NEW ns \in SUBSET Names,
           NEW kind \in {"type", "value"}, \A n \in ns : ~is_type(n),
           kind = "value" /\ ns # {} => Pending = {}
    PROVE  LET e == insert(env, ns, kind)
           IN  /\ \A i \in DOMAIN env, n \in Names :
                     e[i][n] = "type" <=> \/ n \in TYPE_SET[i]
                                          \/ i = Len(env) /\ n \in Pending
                                          \/ i = Len(env) /\ kind = "type" /\ n \in ns
               /\ \A i, j \in DOMAIN env, n \in Names : i < j /\ e[j][n] = "value" => e[i][n] # "type"
  <1> DEFINE e == insert(env, ns, kind)
  <1>1. /\ env \in Scopes /\ Len(env) \in Nat /\ DOMAIN env = 1 .. Len(env) /\ Len(env) >= 2
        /\ Len(TYPE_SET) \in Nat /\ DOMAIN TYPE_SET = 1 .. Len(TYPE_SET) /\ Len(TYPE_SET) >= Len(env)
    BY DEF IInv, TypeOK, Scopes
  <1>2. \A i \in DOMAIN env : i \in DOMAIN TYPE_SET
    BY <1>1
  <1>3. \A i \in DOMAIN env, n \in Names : e[i][n] = IF i = Len(env) /\ n \in ns THEN kind ELSE env[i][n]
    BY <1>1, Inserted DEF Kinds
  <1> HIDE DEF e
  <1>4. \A i \in DOMAIN env, n \in Names :
           env[i][n] = "type" <=> n \in TYPE_SET[i] \/ (i = Len(env) /\ n \in Pending)
    BY DEF IInv, SetsHoldTypes
  <1>5. \A i \in DOMAIN env, n \in ns : ~(n \in TYPE_SET[i])
    BY <1>2 DEF is_type
  <1>6. ASSUME NEW i \in DOMAIN env, NEW n \in Names
        PROVE  e[i][n] = "type" <=> \/ n \in TYPE_SET[i]
                                    \/ i = Len(env) /\ n \in Pending
                                    \/ i = Len(env) /\ kind = "type" /\ n \in ns
    <2>1. CASE i = Len(env) /\ n \in ns
      BY <1>3, <1>5, <2>1
    <2>2. CASE ~(i = Len(env) /\ n \in ns)
      BY <1>3, <1>4, <2>2
    <2> QED  BY <2>1, <2>2
  <1>7. ASSUME NEW i \in DOMAIN env, NEW j \in DOMAIN env, NEW n \in Names, i < j, e[j][n] = "value"
        PROVE  e[i][n] # "type"
    <2>1. i # Len(env)
      BY <1>1, <1>7
    <2>2. e[i][n] = env[i][n]
      BY <1>3, <2>1
    <2>3. CASE n \in ns
      BY <1>4, <1>5, <2>1, <2>2, <2>3
    <2>4. CASE ~(n \in ns)
      <3>1. env[j][n] = "value"
        BY <1>3, <1>7, <2>4
      <3> QED  BY <1>7, <2>2, <3>1 DEF IInv, SetsHoldTypes
    <2> QED  BY <2>3, <2>4
  <1> QED  BY <1>6, <1>7 DEF e

LEMMA EnumeratorKeeps ==
    ASSUME IInv, NEW n \in Names, Enumerator(n)  PROVE IInv'
  <1> USE DEF Enumerator, lexer, scopes, running
  <1>1. /\ decl = NoDecl /\ Pending = {} /\ Pending' = {}
        /\ symTable \in Scopes /\ env \in Scopes /\ Len(env) \in Nat /\ Len(env) >= 2 /\ Len(symTable) > 0
        /\ DOMAIN env = 1 .. Len(env) /\ DOMAIN TYPE_SET = 1 .. Len(TYPE_SET)
    BY NoDeclaration DEF IInv, TypeOK, Scopes, DeclarationsInPlace, Pending
  <1>2. CASE outcome' # "running"
    <2>1. UNCHANGED <<symTable, env>> /\ outcome' \in Outcomes
      BY <1>2 DEF Outcomes
    <2>2. TypeOK'
      BY <2>1 DEF IInv, TypeOK
    <2>3. ScopesInStep'
      BY <1>2, <2>1 DEF IInv, ScopesInStep
    <2> QED
      BY <1>2, <2>2, <2>3
      DEF IInv, DeclarationsInPlace, SetsHoldTypes, NamesAreNoTypes, StrayedIsRefused
  <1>3. CASE outcome' = "running"
    <2>1. /\ symTable' = insert(symTable, {n}, "value") /\ env' = insert(env, {n}, "value") /\ ~is_type(n)
          /\ outcome' = outcome
      BY <1>3
    <2>2. /\ env' \in Scopes /\ Len(env') = Len(env) /\ DOMAIN env' = DOMAIN env
          /\ symTable' \in Scopes /\ Len(symTable') = Len(symTable)
      <3>1. "value" \in Kinds /\ Len(env) > 0
        BY <1>1 DEF Kinds
      <3>2. env' \in Scopes /\ Len(env') = Len(env) /\ DOMAIN env' = DOMAIN env
        BY <1>1, <2>1, <3>1, Inserted
      <3>3. symTable' \in Scopes /\ Len(symTable') = Len(symTable)
        BY <1>1, <2>1, <3>1, Inserted
      <3> QED  BY <3>2, <3>3
    <2>3. TypeOK'
      <3>1. symTable' # <<>> /\ (env' = <<>> <=> env = <<>>)
        BY <1>1, <2>2 DEF Scopes
      <3> QED  BY <2>1, <2>2, <3>1 DEF IInv, TypeOK, Scopes
    <2>4. DeclarationsInPlace'
      BY <2>1 DEF IInv, DeclarationsInPlace, Member, InBraces
    <2>5. ScopesInStep'
      BY <2>1, <2>2 DEF IInv, ScopesInStep
    <2>6. SetsHoldTypes'
      <3>1. SUFFICES
                            /\ \A i \in DOMAIN env, k \in Names : env'[i][k] = "type" <=> k \in TYPE_SET[i]
                            /\ \A i, j \in DOMAIN env, k \in Names :
                                  i < j /\ env'[j][k] = "value" => env'[i][k] # "type"
        BY <1>1, <2>2 DEF IInv, SetsHoldTypes
      <3> QED  BY <1>1, <2>1, <3>1, InsertHolds
    <2>7. NamesAreNoTypes'
      BY DEF NamesAreNoTypes
    <2>8. StrayedIsRefused'
      BY <2>1 DEF IInv, StrayedIsRefused
    <2> QED  BY <2>3, <2>4, <2>5, <2>6, <2>7, <2>8 DEF IInv
  <1> QED  BY <1>2, <1>3

\* At a declarator's end no brace is open but a struct's.
LEMMA AtDeclarator ==
    ASSUME IInv, running, phase \in {"declarator", "initializer"}, ~InBraces("initializer")
    PROVE  /\ decl \in Declarations /\ decl.name \in Names /\ decl.types < 2
           /\ \A i \in DOMAIN braces : braces[i].kind = "struct" /\ braces[i].decl.list = {}
                                       /\ braces[i].decl.params = {}
           /\ ~Member => braces = <<>> /\ IS_TYPEDEF = decl.typedef /\ Len(TYPE_SET) = Len(env)
           /\ env \in Scopes /\ Len(env) \in Nat /\ Len(env) >= 2 /\ DOMAIN env = 1 .. Len(env)
           /\ symTable \in Scopes /\ Len(symTable) > 0
           /\ Declares \in SUBSET Names /\ Kind \in {"type", "value"} /\ Kind \in Kinds
  <1>1. decl \in Declarations /\ decl.name \in Names /\ decl.types < 2
    BY DEF IInv, TypeOK, DeclarationsInPlace
  <1>2. braces \in Seq(OpenBraces) /\ \A i \in DOMAIN braces : braces[i] \in OpenBraces
    BY DEF IInv, TypeOK
  <1>3. braces # <<>> => Len(braces) \in DOMAIN braces
    BY <1>2
  <1>4. phase = "declarator" \/ braces = <<>>
    BY <1>3 DEF IInv, DeclarationsInPlace, InBraces
  <1>5. \A i \in DOMAIN braces : braces[i].kind = "struct" /\ braces[i].decl.list = {}
                                 /\ braces[i].decl.params = {}
    <2>1. CASE braces = <<>>
      BY <2>1
    <2>2. CASE phase = "declarator"
      BY <1>2, <2>2 DEF IInv, DeclarationsInPlace, OpenBraces
    <2> QED  BY <1>4, <2>1, <2>2
  <1>6. ASSUME ~Member  PROVE braces = <<>> /\ IS_TYPEDEF = decl.typedef /\ Len(TYPE_SET) = Len(env)
    <2>1. braces = <<>> /\ Len(braces) = 0
      BY <1>3, <1>5, <1>6 DEF Member, InBraces
    <2>2. IS_TYPEDEF = decl.typedef
      BY <1>6 DEF IInv, DeclarationsInPlace
    <2> QED  BY <2>1, <2>2 DEF IInv, TypeOK
  <1>7. /\ env \in Scopes /\ Len(env) \in Nat /\ Len(env) >= 2 /\ DOMAIN env = 1 .. Len(env)
        /\ symTable \in Scopes /\ Len(symTable) > 0
    BY DEF IInv, TypeOK, Scopes
  <1> QED  BY <1>1, <1>5, <1>6, <1>7 DEF Declares, Kind, Kinds

\* What a declarator's name means to C and to the lexer once it is declared.
LEMMA NameDeclared ==
    ASSUME IInv, running, phase \in {"declarator", "initializer"}, ~InBraces("initializer"),
           env' = insert(env, Declares, Kind)
    PROVE  /\ \A i \in DOMAIN env, n \in Names :
                 env'[i][n] = "type" <=> \/ n \in TYPE_SET[i]
                                         \/ i = Len(env) /\ n \in Pending
                                         \/ i = Len(env) /\ Kind = "type" /\ n \in Declares
           /\ \A i, j \in DOMAIN env, n \in Names : i < j /\ env'[j][n] = "value" => env'[i][n] # "type"
  <1>1. Kind = "value" => Pending = {}
    BY DEF Kind, Pending
  <1>2. \A n \in Declares : ~is_type(n)
    BY DEF IInv, NamesAreNoTypes, Declares
  <1>3. Declares \in SUBSET Names /\ Kind \in {"type", "value"}
    BY AtDeclarator
  <1> QED  BY <1>1, <1>2, <1>3, InsertHolds

LEMMA AssignKeeps ==
    ASSUME IInv, Assign  PROVE IInv'
  <1> USE DEF Assign, lexer, scopes, running
  <1>1. ~InBraces("initializer")
    <2>1. braces # <<>> => Len(braces) \in DOMAIN braces
      BY DEF IInv, TypeOK
    <2> QED  BY <2>1 DEF InBraces, IInv, DeclarationsInPlace
  <1>2. /\ decl \in Declarations /\ decl.name \in Names /\ decl.types < 2 /\ braces = <<>> /\ IS_TYPEDEF = decl.typedef
        /\ env \in Scopes /\ Len(env) \in Nat /\ Len(env) >= 2 /\ DOMAIN env = 1 .. Len(env)
        /\ Declares \in SUBSET Names /\ Kind \in Kinds /\ Len(env) > 0
    BY <1>1, AtDeclarator
  <1>3. env' \in Scopes /\ Len(env') = Len(env) /\ DOMAIN env' = DOMAIN env /\ env' # <<>> /\ env # <<>>
    BY <1>2, Inserted
  <1>4. TypeOK'
    BY <1>3 DEF IInv, TypeOK, Scopes, Phases, Outcomes
  <1>5. DeclarationsInPlace'
    <2>1. DOMAIN braces = {}
      BY <1>2
    <2> QED  BY <1>2, <2>1 DEF DeclarationsInPlace
  <1>6. ScopesInStep'
    BY <1>3 DEF IInv, ScopesInStep
  <1>7. SetsHoldTypes'
    <2>1. SUFFICES ASSUME ~decl.typedef
                   PROVE  /\ \A i \in DOMAIN env, n \in Names : env'[i][n] = "type" <=> n \in TYPE_SET[i]
                          /\ \A i, j \in DOMAIN env, n \in Names :
                                i < j /\ env'[j][n] = "value" => env'[i][n] # "type"
      BY <1>3 DEF IInv, SetsHoldTypes, Pending
    <2>2. Pending = {} /\ Kind = "value"
      BY <2>1 DEF Pending, Kind
    <2> QED  BY <1>1, <2>1, <2>2, NameDeclared
  <1>8. NamesAreNoTypes'
    BY DEF IInv, NamesAreNoTypes, is_type
  <1>9. StrayedIsRefused'
    BY DEF IInv, StrayedIsRefused
  <1> QED  BY <1>4, <1>5, <1>6, <1>7, <1>8, <1>9 DEF IInv

\* The scopes after a declarator.
LEMMA DeclaredScopes ==
    ASSUME IInv, Declarator, Declared
    PROVE  /\ env' \in Scopes /\ Len(env') = Len(env) /\ DOMAIN env' = DOMAIN env /\ env' # <<>>
           /\ symTable' \in Scopes /\ Len(symTable') = Len(symTable) /\ symTable' # <<>>
           /\ outcome' \in Outcomes
           /\ outcome' = "running" /\ decl.typedef =>
                 \A n \in Names : symTable'[Len(symTable)][n] =
                    IF n \in Declares THEN "type" ELSE symTable[Len(symTable)][n]
  <1>1. /\ env \in Scopes /\ Len(env) > 0 /\ symTable \in Scopes /\ Len(symTable) > 0
        /\ Declares \in SUBSET Names /\ Kind \in Kinds
    BY AtDeclarator DEF Declarator
  <1>2. env' \in Scopes /\ Len(env') = Len(env) /\ DOMAIN env' = DOMAIN env /\ env' # <<>>
    BY <1>1, Inserted DEF Declared
  <1>3. CASE symTable' = symTable /\ outcome' = "redefined"
    BY <1>1, <1>2, <1>3 DEF Outcomes
  <1>4. CASE symTable' = insert(symTable, Declares, Kind) /\ outcome' = outcome
    <2>1. /\ symTable' \in Scopes /\ Len(symTable') = Len(symTable)
          /\ \A i \in DOMAIN symTable, n \in Names :
                symTable'[i][n] = IF i = Len(symTable) /\ n \in Declares THEN Kind ELSE symTable[i][n]
      BY <1>1, <1>4, Inserted
    <2>2. Len(symTable) \in DOMAIN symTable /\ symTable' # <<>>
      BY <1>1, <2>1 DEF Scopes
    <2> QED  BY <1>2, <1>4, <2>1, <2>2 DEF Kind, Declarator, running, Outcomes
  <1> QED  BY <1>3, <1>4 DEF Declared

LEMMA CommaKeeps ==
    ASSUME IInv, Comma  PROVE IInv'
  <1> USE DEF Comma, lexer, running
  <1>1. running /\ phase \in {"declarator", "initializer"} /\ ~InBraces("initializer") /\ Declared
    BY DEF Declarator
  <1>2. /\ decl \in Declarations /\ decl.name \in Names /\ decl.types < 2
        /\ \A i \in DOMAIN braces : braces[i].kind = "struct" /\ braces[i].decl.list = {}
                                    /\ braces[i].decl.params = {}
        /\ ~Member => braces = <<>> /\ IS_TYPEDEF = decl.typedef
        /\ DOMAIN env = 1 .. Len(env) /\ Len(env) >= 2 /\ Len(env) \in Nat
    BY <1>1, AtDeclarator
  <1>3. /\ decl' \in Declarations /\ decl'.typedef = decl.typedef /\ decl'.types = decl.types
        /\ decl'.list = decl.list \cup {decl.name} /\ decl'.params = {}
    BY <1>2 DEF Declarations
  <1>4. /\ env' \in Scopes /\ Len(env') = Len(env) /\ DOMAIN env' = DOMAIN env /\ env' # <<>>
        /\ symTable' \in Scopes /\ Len(symTable') = Len(symTable) /\ symTable' # <<>>
        /\ outcome' \in Outcomes
    BY DeclaredScopes
  <1>5. TypeOK'
    BY <1>3, <1>4 DEF IInv, TypeOK, Scopes, Phases
  <1>6. DeclarationsInPlace'
    BY <1>2, <1>3 DEF DeclarationsInPlace, Member, InBraces
  <1>7. ScopesInStep'
    BY <1>1, <1>4 DEF IInv, ScopesInStep
  <1>8. ~Member /\ decl.typedef => Declares = {decl.name} /\ Kind = "type" /\ Pending = decl.list
    BY DEF Declares, Kind, Pending
  <1>9. ~(~Member /\ decl.typedef) => Pending = {} /\ (Kind = "value" \/ Declares = {})
    BY DEF Declares, Kind, Pending
  <1>10. Pending' = IF ~Member /\ decl.typedef THEN decl.list \cup {decl.name} ELSE {}
    BY <1>3 DEF Pending, Member, InBraces
  <1>11. SetsHoldTypes'
    <2>1. SUFFICES ASSUME outcome' = "running"
                   PROVE  SetsHoldTypes'
      BY DEF SetsHoldTypes
    <2>2. /\ \A i \in DOMAIN env, n \in Names :
                env'[i][n] = "type" <=> \/ n \in TYPE_SET[i]
                                        \/ i = Len(env) /\ n \in Pending
                                        \/ i = Len(env) /\ Kind = "type" /\ n \in Declares
          /\ \A i, j \in DOMAIN env, n \in Names : i < j /\ env'[j][n] = "value" => env'[i][n] # "type"
      BY <1>1, <2>1, NameDeclared DEF Declared
    <2>3. \A i \in DOMAIN env', n \in Names :
             env'[i][n] = "type" <=> n \in TYPE_SET[i] \/ (i = Len(env') /\ n \in Pending')
      BY <1>4, <1>8, <1>9, <1>10, <2>2
    <2>4. \A n \in Pending' : symTable'[Len(symTable')][n] = "type"
      <3>1. SUFFICES ASSUME ~Member, decl.typedef, NEW n \in decl.list \cup {decl.name}
                     PROVE  symTable'[Len(symTable)][n] = "type"
        BY <1>4, <1>10
      <3>2. n \in Names /\ (n \in Declares \/ n \in Pending)
        BY <1>2, <1>8, <3>1 DEF Declarations
      <3>3. symTable'[Len(symTable)][n] = IF n \in Declares THEN "type" ELSE symTable[Len(symTable)][n]
        BY <2>1, <3>1, <3>2, DeclaredScopes
      <3> QED  BY <1>1, <2>1, <3>2, <3>3 DEF IInv, SetsHoldTypes
    <2> QED  BY <1>1, <1>4, <2>1, <2>2, <2>3, <2>4 DEF IInv, SetsHoldTypes
  <1>12. NamesAreNoTypes'
    BY DEF NamesAreNoTypes
  <1>13. StrayedIsRefused'
    BY <1>1 DEF IInv, StrayedIsRefused
  <1> QED  BY <1>5, <1>6, <1>7, <1>11, <1>12, <1>13 DEF IInv

LEMMA EndKeeps ==
    ASSUME IInv, End  PROVE IInv'
  <1> USE DEF End, running
  <1>1. running /\ phase \in {"declarator", "initializer"} /\ ~InBraces("initializer") /\ Declared
    BY DEF Declarator
  <1>2. /\ decl \in Declarations /\ decl.name \in Names
        /\ \A i \in DOMAIN braces : braces[i].kind = "struct" /\ braces[i].decl.list = {}
                                    /\ braces[i].decl.params = {}
        /\ ~Member => braces = <<>> /\ IS_TYPEDEF = decl.typedef /\ Len(TYPE_SET) = Len(env)
        /\ DOMAIN env = 1 .. Len(env) /\ Len(env) >= 2 /\ Len(env) \in Nat
    BY <1>1, AtDeclarator
  <1>3. /\ env' \in Scopes /\ Len(env') = Len(env) /\ DOMAIN env' = DOMAIN env /\ env' # <<>>
        /\ symTable' \in Scopes /\ Len(symTable') = Len(symTable) /\ symTable' # <<>>
        /\ outcome' \in Outcomes
    BY DeclaredScopes
  <1>4. /\ TYPE_SET \in Seq(SUBSET Names) /\ Len(TYPE_SET) \in Nat /\ DOMAIN TYPE_SET = 1 .. Len(TYPE_SET)
        /\ Len(TYPE_SET) >= Len(env) /\ Len(TYPE_SET) >= 2 /\ Len(TYPE_SET) > 0
        /\ Len(TYPE_SET) = Len(env) + Len(braces)
    BY <1>1, <1>2 DEF IInv, TypeOK
  <1> DEFINE ns == decl.list \cup {decl.name}
  <1>5. ns \subseteq Names
    BY <1>2 DEF Declarations
  <1>6. CASE IS_TYPEDEF /\ ~Member
    <2>1. TYPE_SET' = register_types(ns) /\ decl.typedef /\ braces = <<>> /\ Len(TYPE_SET) = Len(env)
      BY <1>2, <1>6
    <2>2. /\ TYPE_SET' \in Seq(SUBSET Names) /\ Len(TYPE_SET') = Len(TYPE_SET)
          /\ \A i \in 1 .. Len(TYPE_SET) :
                TYPE_SET'[i] = IF i = Len(TYPE_SET) THEN TYPE_SET[i] \cup ns ELSE TYPE_SET[i]
      <3> HIDE DEF ns, End
      <3> QED  BY <1>4, <1>5, <2>1, Registered
    <2>3. TYPE_SET' # <<>> /\ TYPE_SET'[1] = TYPE_SET[1] /\ DOMAIN TYPE_SET' = 1 .. Len(env)
      <3> HIDE DEF ns, End
      <3>1. DOMAIN TYPE_SET' = 1 .. Len(TYPE_SET')
        BY <2>2
      <3>2. 1 \in 1 .. Len(TYPE_SET) /\ 1 # Len(TYPE_SET)
        BY <1>4
      <3>3. TYPE_SET'[1] = TYPE_SET[1]
        BY <2>2, <3>2
      <3>4. TYPE_SET' # <<>>
        BY <1>4, <2>2
      <3> QED  BY <2>1, <2>2, <3>1, <3>3, <3>4
    <2>4. TypeOK'
      BY <1>3, <1>4, <2>1, <2>2, NoDeclaration DEF IInv, TypeOK, Scopes, Phases
    <2>5. ScopesInStep'
      BY <1>1, <1>3, <2>3 DEF IInv, ScopesInStep
    <2>6. SetsHoldTypes'
      <3>1. SUFFICES ASSUME outcome' = "running"
                     PROVE  SetsHoldTypes'
        BY DEF SetsHoldTypes
      <3>2. Declares = {decl.name} /\ Kind = "type" /\ Pending = decl.list /\ Pending' = {}
        BY <1>6, <2>1, NoDeclaration DEF Declares, Kind, Pending
      <3>3. /\ \A i \in DOMAIN env, n \in Names :
                  env'[i][n] = "type" <=> \/ n \in TYPE_SET[i]
                                          \/ i = Len(env) /\ n \in Pending
                                          \/ i = Len(env) /\ Kind = "type" /\ n \in Declares
            /\ \A i, j \in DOMAIN env, n \in Names : i < j /\ env'[j][n] = "value" => env'[i][n] # "type"
        BY <1>1, <3>1, NameDeclared DEF Declared
      <3>4. ASSUME NEW i \in DOMAIN env', NEW n \in Names  PROVE env'[i][n] = "type" <=> n \in TYPE_SET'[i]
        <4>1. i \in DOMAIN env /\ i \in 1 .. Len(TYPE_SET)
          BY <1>2, <1>3, <2>1
        <4>2. TYPE_SET'[i] = IF i = Len(env) THEN TYPE_SET[i] \cup ns ELSE TYPE_SET[i]
          BY <2>1, <2>2, <4>1
        <4>3. env'[i][n] = "type" <=> n \in TYPE_SET[i] \/ (i = Len(env) /\ n \in ns)
          <5> HIDE DEF End
          <5> QED  BY <3>2, <3>3, <4>1
        <4> HIDE DEF ns, End
        <4> QED  BY <4>2, <4>3
      <3>5. \A i \in DOMAIN TYPE_SET' : ~(i > Len(env'))
        BY <1>2, <1>3, <2>3
      <3>6. \A i, j \in DOMAIN env', n \in Names : i < j /\ env'[j][n] = "value" => env'[i][n] # "type"
        BY <1>3, <3>3
      <3>7. Pending' = {}
        BY <3>2
      <3> HIDE DEF End
      <3> QED  BY <3>4, <3>5, <3>6, <3>7 DEF SetsHoldTypes
    <2> QED
      <3>1. DOMAIN braces = {}
        BY <2>1
      <3>2. DeclarationsInPlace'
        BY <3>1 DEF DeclarationsInPlace
      <3>3. NamesAreNoTypes' /\ StrayedIsRefused'
        BY <1>1 DEF NamesAreNoTypes, IInv, StrayedIsRefused
      <3> QED  BY <2>4, <2>5, <2>6, <3>2, <3>3 DEF IInv
  <1>7. CASE ~(IS_TYPEDEF /\ ~Member)
    <2>1. TYPE_SET' = TYPE_SET
      BY <1>7
    <2>2. TypeOK'
      BY <1>1, <1>3, <2>1, NoDeclaration DEF IInv, TypeOK, Scopes, Phases
    <2>3. ScopesInStep'
      BY <1>1, <1>3, <2>1 DEF IInv, ScopesInStep
    <2>4. DeclarationsInPlace'
      BY <1>2 DEF DeclarationsInPlace
    <2>5. SetsHoldTypes'
      <3>1. SUFFICES ASSUME outcome' = "running"
                     PROVE  SetsHoldTypes'
        BY DEF SetsHoldTypes
      <3>2. Pending = {} /\ (Kind = "value" \/ Declares = {}) /\ Pending' = {}
        BY <1>2, <1>7, NoDeclaration DEF Declares, Kind, Pending
      <3>3. /\ \A i \in DOMAIN env, n \in Names :
                  env'[i][n] = "type" <=> \/ n \in TYPE_SET[i]
                                          \/ i = Len(env) /\ n \in Pending
                                          \/ i = Len(env) /\ Kind = "type" /\ n \in Declares
            /\ \A i, j \in DOMAIN env, n \in Names : i < j /\ env'[j][n] = "value" => env'[i][n] # "type"
        BY <1>1, <3>1, NameDeclared DEF Declared
      <3>4. \A i \in DOMAIN env', n \in Names : env'[i][n] = "type" <=> n \in TYPE_SET'[i]
        BY <1>3, <2>1, <3>2, <3>3
      <3>5. \A i \in DOMAIN TYPE_SET' : i > Len(env') => TYPE_SET'[i] = {}
        BY <1>1, <1>3, <2>1, <3>1 DEF IInv, SetsHoldTypes
      <3>6. \A i, j \in DOMAIN env', n \in Names : i < j /\ env'[j][n] = "value" => env'[i][n] # "type"
        BY <1>3, <3>3
      <3>7. Pending' = {} /\ phase' = "open"
        BY <3>2
      <3> HIDE DEF End
      <3> QED  BY <3>4, <3>5, <3>6, <3>7 DEF SetsHoldTypes
    <2> QED
      <3>1. NamesAreNoTypes' /\ StrayedIsRefused'
        BY <1>1 DEF NamesAreNoTypes, IInv, StrayedIsRefused
      <3> QED  BY <2>2, <2>3, <2>4, <2>5, <3>1 DEF IInv
  <1> QED  BY <1>6, <1>7

LEMMA OpenBodyKeeps ==
    ASSUME IInv, OpenBody  PROVE IInv'
  <1> USE DEF OpenBody, running
  <1>1. running /\ phase = "declarator" /\ ~InBraces("initializer") /\ ~Member
    BY DEF InBraces, Member
  <1>2. /\ decl \in Declarations /\ decl.name \in Names
        /\ IS_TYPEDEF = decl.typedef /\ Len(TYPE_SET) = 2
        /\ env \in Scopes /\ Len(env) = 2 /\ Len(env) > 0 /\ DOMAIN env = 1 .. 2
        /\ symTable \in Scopes /\ Len(symTable) = 1 /\ Len(symTable) > 0
        /\ TYPE_SET \in Seq(SUBSET Names) /\ TYPE_SET[1] = Builtins
        /\ DOMAIN braces = {} /\ ~("name" \in strayed) /\ Pending = {}
    <2>1. /\ decl \in Declarations /\ decl.name \in Names
          /\ IS_TYPEDEF = decl.typedef /\ Len(TYPE_SET) = 2
          /\ env \in Scopes /\ DOMAIN env = 1 .. 2
          /\ symTable \in Scopes
      BY <1>1, AtDeclarator
    <2>2. Len(symTable) = 1 /\ TYPE_SET \in Seq(SUBSET Names) /\ TYPE_SET[1] = Builtins
      BY <1>1 DEF IInv, TypeOK, ScopesInStep
    <2>3. DOMAIN braces = {} /\ ~("name" \in strayed)
      BY <1>1 DEF IInv, StrayedIsRefused
    <2> QED  BY <2>1, <2>2, <2>3 DEF Declarations, Pending
  <1> DEFINE sets == IF IS_TYPEDEF THEN register_types({decl.name}) ELSE TYPE_SET
             e == insert(env, {decl.name}, "value")
             t == insert(symTable, {decl.name}, "value")
             p == ParameterScope(decl.params)
  <1>3. /\ TYPE_SET' = Append(sets, {}) /\ env' = Append(e, p)
        /\ \/ UNCHANGED symTable /\ outcome' \in {"typedef_body", "redefined", "name_omitted"}
           \/ symTable' = Append(t, p) /\ UNCHANGED outcome /\ ~decl.typedef
    BY DEF push
  <1> HIDE DEF OpenBody, p
  <1>4. p \in [Names -> Kinds] /\ "value" \in Kinds
    BY SomeScopes DEF Kinds, p
  <1>5. /\ TYPE_SET' \in Seq(SUBSET Names) /\ Len(TYPE_SET') = 3 /\ DOMAIN TYPE_SET' = 1 .. 3
        /\ TYPE_SET'[1] = Builtins /\ TYPE_SET'[2] = sets[2] /\ TYPE_SET'[3] = {}
    <2>1. /\ register_types({decl.name}) \in Seq(SUBSET Names)
          /\ Len(register_types({decl.name})) = Len(TYPE_SET)
          /\ \A i \in 1 .. Len(TYPE_SET) :
                register_types({decl.name})[i] =
                   IF i = Len(TYPE_SET) THEN TYPE_SET[i] \cup {decl.name} ELSE TYPE_SET[i]
      <3>1. {decl.name} \subseteq Names /\ Len(TYPE_SET) > 0
        BY <1>2
      <3> QED  BY <1>2, <3>1, Registered
    <2>2. register_types({decl.name})[1] = TYPE_SET[1]
      BY <1>2, <2>1
    <2>3. sets \in Seq(SUBSET Names) /\ Len(sets) = 2 /\ sets[1] = Builtins
      BY <1>2, <2>1, <2>2
    <2> HIDE DEF sets
    <2>4. {} \in SUBSET Names
      OBVIOUS
    <2>5. /\ Append(sets, {}) \in Seq(SUBSET Names) /\ Len(Append(sets, {})) = 3
          /\ DOMAIN Append(sets, {}) = 1 .. 3 /\ Append(sets, {})[1] = sets[1]
          /\ Append(sets, {})[2] = sets[2] /\ Append(sets, {})[3] = {}
      BY <2>3, <2>4, PushedThird
    <2> QED  BY <1>3, <2>3, <2>5
  <1>6. e \in Scopes /\ Len(e) = 2
    <2>1. env \in Scopes /\ Len(env) > 0
      BY <1>2
    <2>2. e \in Scopes /\ Len(e) = Len(env)
      BY <1>4, <2>1, Inserted
    <2> QED  BY <1>2, <2>2
  <1>7. /\ env' \in Scopes /\ Len(env') = 3 /\ DOMAIN env' = 1 .. 3
        /\ env'[1] = e[1] /\ env'[2] = e[2] /\ env'[3] = p
    <2> DEFINE F == [Names -> Kinds]
    <2> HIDE DEF e
    <2>1. e \in Seq(F) /\ p \in F /\ Len(e) = 2
      BY <1>4, <1>6 DEF Scopes
    <2> HIDE DEF F
    <2>2. /\ Append(e, p) \in Seq(F) /\ Len(Append(e, p)) = 3
          /\ DOMAIN Append(e, p) = 1 .. 3
          /\ Append(e, p)[1] = e[1] /\ Append(e, p)[2] = e[2] /\ Append(e, p)[3] = p
      BY <2>1, PushedThird
    <2> QED  BY <1>3, <2>2 DEF Scopes, F
  <1>8. /\ symTable' \in Scopes /\ symTable' # <<>>
        /\ outcome' \in Outcomes /\ (outcome' = "running" => Len(symTable') = 2)
    <2> DEFINE F == [Names -> Kinds]
    <2>1. t \in Scopes /\ Len(t) = 1
      <3>1. symTable \in Scopes /\ Len(symTable) > 0
        BY <1>2
      <3>2. t \in Scopes /\ Len(t) = Len(symTable)
        BY <1>4, <3>1, Inserted
      <3> QED  BY <1>2, <3>2
    <2>2. CASE UNCHANGED symTable /\ outcome' \in {"typedef_body", "redefined", "name_omitted"}
      <3>1. symTable # <<>>
        BY <1>1 DEF IInv, TypeOK
      <3> QED  BY <1>2, <2>2, <3>1 DEF Outcomes
    <2> HIDE DEF t
    <2>3. CASE symTable' = Append(t, p) /\ UNCHANGED outcome
      <3>1. t \in Seq(F) /\ p \in F /\ Len(t) = 1
        BY <1>4, <2>1 DEF Scopes
      <3> HIDE DEF F
      <3>2. Append(t, p) \in Seq(F) /\ Len(Append(t, p)) = 2
        BY <3>1, PushedSecond
      <3>3. symTable' # <<>>
        BY <2>3, <3>2
      <3> QED  BY <1>1, <2>3, <3>2, <3>3 DEF Scopes, Outcomes, F
    <2> QED  BY <1>3, <2>2, <2>3
  <1>9. TypeOK'
    <2>1. Len(braces) = 0
      BY <1>2 DEF IInv, TypeOK, Declarations, OpenBody
    <2>2. /\ IS_TYPEDEF' \in BOOLEAN /\ phase' = "open" /\ decl' \in Declarations
          /\ braces' \in Seq(OpenBraces) /\ braces' = braces /\ strayed' \subseteq {"name", "parameter"}
      BY NoDeclaration DEF IInv, TypeOK, OpenBody
    <2> HIDE DEF sets, e, t
    <2>3. TYPE_SET' \in Seq(SUBSET Names) /\ env' \in Seq([Names -> Kinds]) /\ symTable' \in Seq([Names -> Kinds])
      BY <1>5, <1>7, <1>8 DEF Scopes
    <2>4. Len(TYPE_SET') = Len(env') + Len(braces') /\ Len(env') >= 2
      BY <1>5, <1>7, <2>1, <2>2
    <2> QED  BY <1>8, <2>1, <2>2, <2>3, <2>4 DEF TypeOK, Phases
  <1>10. DeclarationsInPlace'
    BY <1>2 DEF DeclarationsInPlace, OpenBody
  <1>11. ScopesInStep'
    BY <1>5, <1>7, <1>8 DEF ScopesInStep, OpenBody
  <1>12. SetsHoldTypes'
    <2>1. SUFFICES ASSUME ~decl.typedef
                   PROVE  /\ \A i \in DOMAIN env', n \in Names : env'[i][n] = "type" <=> n \in TYPE_SET'[i]
                          /\ \A i \in DOMAIN TYPE_SET' : ~(i > Len(env'))
                          /\ \A i, j \in DOMAIN env', n \in Names :
                                i < j /\ env'[j][n] = "value" => env'[i][n] # "type"
      BY <1>3, NoDeclaration DEF SetsHoldTypes, Pending, OpenBody
    <2>2. sets = TYPE_SET
      BY <1>2, <2>1
    <2>3. ~is_type(decl.name) /\ \A n \in decl.params : ~is_type(n)
      BY <1>1, <2>1 DEF IInv, NamesAreNoTypes
    <2>4. {decl.name} \in SUBSET Names /\ \A n \in {decl.name} : ~is_type(n)
      BY <1>2, <2>3
    <2>5. /\ \A i \in 1 .. 2, n \in Names : e[i][n] = "type" <=> n \in TYPE_SET[i]
          /\ \A i, j \in 1 .. 2, n \in Names : i < j /\ e[j][n] = "value" => e[i][n] # "type"
      BY <1>1, <1>2, <2>1, <2>4, InsertHolds
    <2> HIDE DEF e, sets
    <2>6. \A n \in Names : p[n] # "type" /\ (p[n] = "value" <=> n \in decl.params)
      BY SomeScopes DEF p
    <2>10. TYPE_SET'[1] = TYPE_SET[1] /\ TYPE_SET'[2] = TYPE_SET[2]
      BY <1>2, <1>5, <2>2
    <2>7. \A i \in DOMAIN env', n \in Names : env'[i][n] = "type" <=> n \in TYPE_SET'[i]
      BY <1>5, <1>7, <2>10, <2>5, <2>6
    <2>8. \A i \in DOMAIN TYPE_SET' : ~(i > Len(env'))
      BY <1>5, <1>7
    <2>9. ASSUME NEW i \in DOMAIN env', NEW j \in DOMAIN env', NEW n \in Names, i < j, env'[j][n] = "value"
          PROVE  env'[i][n] # "type"
      <3>1. i \in 1 .. 2 /\ env'[i] = e[i]
        BY <1>7, <2>9
      <3>2. CASE j = 3
        <4>1. n \in decl.params
          BY <1>7, <2>6, <2>9, <3>2
        <4>2. ~(n \in TYPE_SET[i])
          <5>1. i \in DOMAIN TYPE_SET
            BY <1>2, <3>1
          <5> QED  BY <2>3, <4>1, <5>1 DEF is_type
        <4> QED  BY <2>5, <3>1, <4>2
      <3>3. CASE j # 3
        BY <1>7, <2>5, <2>9, <3>1, <3>3
      <3> QED  BY <3>2, <3>3
    <2> QED  BY <2>7, <2>8, <2>9
  <1>13. NamesAreNoTypes'
    BY DEF NamesAreNoTypes, OpenBody
  <1>14. StrayedIsRefused'
    BY <1>2 DEF StrayedIsRefused, OpenBody
  <1> QED  BY <1>9, <1>10, <1>11, <1>12, <1>13, <1>14 DEF IInv
-----------------------------------------------------------------------------
LEMMA Starts == Init => IInv
  <1> SUFFICES ASSUME Init  PROVE IInv
    OBVIOUS
  <1> USE DEF Init
  <1>1. /\ TYPE_SET \in Seq(SUBSET Names) /\ Len(TYPE_SET) = 1 /\ TYPE_SET[1] = Builtins
        /\ TYPE_SET # <<>> /\ DOMAIN env = {} /\ DOMAIN braces = {}
        /\ env \in Seq([Names -> Kinds]) /\ symTable \in Seq([Names -> Kinds]) /\ braces \in Seq(OpenBraces)
    BY TypeNamesAssumption
  <1>2. TypeOK
    BY <1>1, NoDeclaration DEF TypeOK, Phases, Outcomes
  <1>3. DeclarationsInPlace
    BY <1>1 DEF DeclarationsInPlace
  <1>4. ScopesInStep
    BY <1>1 DEF ScopesInStep
  <1>5. SetsHoldTypes
    BY <1>1, NoDeclaration DEF SetsHoldTypes, Pending
  <1>6. NamesAreNoTypes /\ StrayedIsRefused
    BY DEF NamesAreNoTypes, StrayedIsRefused
  <1> QED  BY <1>2, <1>3, <1>4, <1>5, <1>6 DEF IInv

LEMMA Stutters == IInv /\ UNCHANGED vars => IInv'
  BY DEF vars, IInv, TypeOK, DeclarationsInPlace, ScopesInStep, SetsHoldTypes, NamesAreNoTypes,
         StrayedIsRefused, Pending, Member, InBraces, running, is_type

\* Every step keeps the invariant.
THEOREM Invariance == Spec => []IInv
  <1>1. IInv /\ [Next]_vars => IInv'
    <2> SUFFICES ASSUME IInv, [Next]_vars  PROVE IInv'
      OBVIOUS
    <2>1. CASE \/ UnitStart \/ UnitEnd \/ OpenBlock \/ CloseBlock \/ OpenBody
      BY <2>1, UnitStartKeeps, UnitEndKeeps, OpenBlockKeeps, CloseBlockKeeps, OpenBodyKeeps
    <2>2. CASE \/ Typedef \/ Qualifier \/ BasicType \/ Pointer \/ EndOfSpecifiers
      BY <2>2, TypedefKeeps, QualifierKeeps, BasicTypeKeeps, PointerKeeps, EndOfSpecifiersKeeps
    <2>3. CASE \/ OpenStruct \/ CloseStruct \/ OpenEnum \/ CloseEnum
               \/ OpenInitializer \/ CloseInitializer
      BY <2>3, OpenTagKeeps, CloseTagKeeps, OpenInitializerKeeps, CloseInitializerKeeps
    <2>4. CASE Assign \/ Comma \/ End
      BY <2>4, AssignKeeps, CommaKeeps, EndKeeps
    <2>5. ASSUME NEW n \in Names,
                 \/ TypeName(n) \/ Enumerator(n) \/ FirstName(n) \/ Name(n)
                 \/ \E operand \in BOOLEAN : Use(n, operand)
          PROVE  IInv'
      BY <2>5, TypeNameKeeps, EnumeratorKeeps, FirstNameKeeps, NameKeeps, UseKeeps
    <2>6. ASSUME NEW n \in Names,
                 \/ TypedParameter(n) \/ BareParameter(n) \/ QualifiedParameter(n)
                 \/ \E t \in Names : NamedParameter(t, n)
          PROVE  IInv'
      BY <2>6, ParameterKeeps
    <2>8. CASE OpenParameters \/ CloseParameters
      BY <2>8, BracketKeeps
    <2>7. CASE UNCHANGED vars
      BY <2>7, Stutters
    <2> QED  BY <2>1, <2>2, <2>3, <2>4, <2>5, <2>6, <2>7, <2>8 DEF Next
  <1> QED  BY <1>1, Starts, PTL DEF Spec

\* The sets keep step with C's scopes and the braces between them, for any
\* names and any nesting.
THEOREM TypeCorrect == Spec => []TypeOK
  <1>1. IInv => TypeOK
    BY DEF IInv
  <1> QED  BY <1>1, Invariance, PTL

\* An accepted unit was read as in C: the lexer's sets hold C's types, and
\* every declaration that would have been read otherwise was refused.
THEOREM ReadAsC == Spec => []AcceptedUnitsAreReadAsC
  <1>1. IInv => AcceptedUnitsAreReadAsC
    <2> SUFFICES ASSUME IInv, running, phase = "open", braces = <<>>
                 PROVE  strayed \subseteq {"parameter"} /\ \A n \in Names : is_type(n) <=> find(env, n) = "type"
      BY DEF AcceptedUnitsAreReadAsC
    <2>1. strayed \subseteq {"parameter"} /\ Pending = {}
      BY Outermost DEF IInv, TypeOK
    <2>2. \A n \in Names : is_type(n) <=> find(env, n) = "type"
      BY <2>1, Reads DEF IInv
    <2> QED  BY <2>1, <2>2
  <1> QED  BY <1>1, Invariance, PTL

\* Each unit starts from the built-in types, whatever the one before declared.
THEOREM StartAlike == Spec => []UnitsStartAlike
  <1>1. IInv => UnitsStartAlike
    <2> SUFFICES ASSUME IInv, phase = "start"  PROVE TYPE_SET = <<Builtins>> /\ symTable = <<>>
      BY DEF UnitsStartAlike
    <2>1. TYPE_SET \in Seq(SUBSET Names) /\ Len(TYPE_SET) = 1 /\ TYPE_SET[1] = Builtins
      BY DEF IInv, TypeOK, ScopesInStep
    <2> QED  BY <2>1 DEF IInv, ScopesInStep
  <1> QED  BY <1>1, Invariance, PTL

-----------------------------------------------------------------------------
(* What the generator finds *)

\* The generator's outermost scope holds the types of C's two, any other
\* those of C's; and no value hides a type.
Outer(sy, en) == \A n \in Names : sy[1][n] = "type" <=> en[1][n] = "type" \/ en[2][n] = "type"
Inner(sy, en) ==
    \A i \in DOMAIN sy, n \in Names : i >= 2 => (sy[i][n] = "type" <=> en[i + 1][n] = "type")
Unhidden(sy) ==
    \A i, j \in DOMAIN sy, n \in Names : i < j /\ sy[j][n] = "value" => sy[i][n] # "type"
TypesAgree(sy, en) == Outer(sy, en) /\ Inner(sy, en) /\ Unhidden(sy)

Reading == running /\ phase # "start"
GeneratorHoldsTypes == Reading => TypesAgree(symTable, env)

LEMMA Levels ==
    ASSUME IInv, Reading
    PROVE  /\ env \in Scopes /\ symTable \in Scopes
           /\ \E m \in Nat, l \in Nat :
                 /\ m = Len(env) /\ DOMAIN env = 1 .. m /\ m >= 2
                 /\ l = Len(symTable) /\ DOMAIN symTable = 1 .. l
                 /\ l = m - 1
  <1>1. /\ env \in Scopes /\ Len(env) \in Nat /\ DOMAIN env = 1 .. Len(env) /\ Len(env) >= 2
    BY DEF IInv, TypeOK, Scopes, Reading
  <1>2. /\ symTable \in Scopes /\ Len(symTable) \in Nat /\ DOMAIN symTable = 1 .. Len(symTable)
    BY DEF IInv, TypeOK, Scopes, Reading
  <1>3. Len(symTable) = Len(env) - 1
    BY DEF IInv, ScopesInStep, Reading
  <1> QED  BY <1>1, <1>2, <1>3

LEMMA SetOfEach ==
    ASSUME IInv, Reading
    PROVE  DOMAIN env \subseteq DOMAIN TYPE_SET
  BY DEF IInv, TypeOK, Reading

\* The generator finds a type for what the lexer calls one and for what the
\* typedef being read has declared, and in no scope anywhere else.
LEMMA FoundByGenerator ==
    ASSUME IInv, GeneratorHoldsTypes, Reading, NEW n \in Names
    PROVE  /\ find(symTable, n) = "type" <=> is_type(n) \/ n \in Pending
           /\ (\E i \in DOMAIN symTable : symTable[i][n] = "type") => is_type(n) \/ n \in Pending
           /\ (\E i \in DOMAIN env : env[i][n] = "type") => is_type(n) \/ n \in Pending
  <1>a. PICK m \in Nat, l \in Nat : /\ DOMAIN env = 1 .. m /\ m >= 2 /\ DOMAIN symTable = 1 .. l
                                   /\ l = m - 1
    BY Levels
  <1>1. find(symTable, n) = "type" <=> \E i \in DOMAIN symTable : symTable[i][n] = "type"
    BY Levels, FoundAsType DEF GeneratorHoldsTypes, TypesAgree, Unhidden
  <1>2. find(env, n) = "type" <=> \E i \in DOMAIN env : env[i][n] = "type"
    BY Levels, FoundAsType DEF IInv, SetsHoldTypes, Reading
  <1>3. ASSUME NEW i \in DOMAIN symTable, symTable[i][n] = "type"
        PROVE  \E j \in DOMAIN env : env[j][n] = "type"
    <2>1. i \in Nat /\ i >= 1 /\ 1 \in DOMAIN env /\ 2 \in DOMAIN env
      BY <1>a, <1>3
    <2>2. CASE i = 1  BY <1>3, <2>1, <2>2 DEF GeneratorHoldsTypes, TypesAgree, Outer
    <2>3. CASE i # 1
      <3>1. i >= 2 /\ i + 1 \in DOMAIN env  BY <1>a, <1>3, <2>1, <2>3
      <3> QED  BY <1>3, <3>1 DEF GeneratorHoldsTypes, TypesAgree, Inner
    <2> QED  BY <2>2, <2>3
  <1>4. ASSUME NEW i \in DOMAIN env, env[i][n] = "type"
        PROVE  \E j \in DOMAIN symTable : symTable[j][n] = "type"
    <2>1. i \in Nat /\ i >= 1 /\ 1 \in DOMAIN symTable
      BY <1>a, <1>4
    <2>2. CASE i <= 2
      <3>1. i = 1 \/ i = 2  BY <2>1, <2>2
      <3> QED  BY <1>4, <2>1, <3>1 DEF GeneratorHoldsTypes, TypesAgree, Outer
    <2>3. CASE i >= 3
      <3>1. i - 1 \in DOMAIN symTable /\ i - 1 >= 2 /\ i - 1 + 1 = i  BY <1>a, <1>4, <2>1, <2>3
      <3>2. symTable[i - 1][n] = "type" <=> env[i - 1 + 1][n] = "type"
        BY <3>1 DEF GeneratorHoldsTypes, TypesAgree, Inner
      <3> QED  BY <1>4, <3>1, <3>2
    <2> QED  BY <2>1, <2>2, <2>3
  <1>5. (\E i \in DOMAIN env : env[i][n] = "type") => is_type(n) \/ n \in Pending
    BY SetOfEach DEF IInv, SetsHoldTypes, Reading, is_type
  <1>6. is_type(n) \/ n \in Pending => find(symTable, n) = "type" \/ find(env, n) = "type"
    BY Reads DEF IInv, Reading
  <1> QED  BY <1>1, <1>2, <1>3, <1>4, <1>5, <1>6

\* Both enter the same names, none of them a type.
LEMMA InsertAgrees ==
    ASSUME IInv, GeneratorHoldsTypes, Reading, NEW ns \in SUBSET Names,
           NEW kind \in {"type", "value"}, \A n \in ns : ~is_type(n),
           kind = "value" /\ ns # {} => Pending = {}
    PROVE  TypesAgree(insert(symTable, ns, kind), insert(env, ns, kind))
  <1> DEFINE sy == insert(symTable, ns, kind)
             en == insert(env, ns, kind)
  <1>a. env \in Scopes /\ symTable \in Scopes  BY Levels
  <1>1. PICK m \in Nat, l \in Nat :
                /\ m = Len(env) /\ DOMAIN env = 1 .. m /\ m >= 2
                /\ l = Len(symTable) /\ DOMAIN symTable = 1 .. l
                /\ l = m - 1
    BY Levels
  <1>2. /\ DOMAIN sy = 1 .. l /\ l \in 1 .. l
        /\ \A i \in 1 .. l, n \in Names :
              sy[i][n] = IF i = l /\ n \in ns THEN kind ELSE symTable[i][n]
        /\ \A i \in 1 .. m, n \in Names :
              en[i][n] = IF i = m /\ n \in ns THEN kind ELSE env[i][n]
    <2>1. kind \in Kinds /\ l > 0 /\ m > 0  BY <1>1 DEF Kinds
    <2>2. l > 0 => /\ DOMAIN sy = 1 .. l
                   /\ \A i \in 1 .. l, n \in Names :
                         sy[i][n] = IF i = l /\ n \in ns THEN kind ELSE symTable[i][n]
      BY <1>a, <1>1, <2>1, Inserted
    <2>3. m > 0 => \A i \in 1 .. m, n \in Names :
                      en[i][n] = IF i = m /\ n \in ns THEN kind ELSE env[i][n]
      BY <1>a, <1>1, <2>1, Inserted
    <2> HIDE DEF sy, en
    <2>4. l \in 1 .. l  BY <2>1
    <2> QED  BY <2>1, <2>2, <2>3, <2>4
  <1>3. kind = "value" => \A n \in ns : /\ \A i \in 1 .. l : symTable[i][n] # "type"
                                        /\ \A i \in 1 .. m : env[i][n] # "type"
    BY <1>1, FoundByGenerator
  <1>4. TypesAgree(symTable, env)
    BY DEF GeneratorHoldsTypes
  <1> HIDE DEF sy, en
  <1>5. Outer(sy, en)
    <2>1. \A n \in Names : symTable[1][n] = "type" <=> env[1][n] = "type" \/ env[2][n] = "type"
      BY <1>4 DEF TypesAgree, Outer
    <2>2. CASE m = 2
      <3>1. \A n \in Names : /\ sy[1][n] = IF n \in ns THEN kind ELSE symTable[1][n]
                             /\ en[2][n] = IF n \in ns THEN kind ELSE env[2][n]
                             /\ en[1][n] = env[1][n]
                             /\ kind = "value" /\ n \in ns => env[1][n] # "type"
        BY <1>1, <1>2, <1>3, <2>2
      <3> QED  BY <2>1, <3>1 DEF Outer
    <2>3. CASE m # 2
      <3>1. \A n \in Names : sy[1][n] = symTable[1][n] /\ en[1][n] = env[1][n] /\ en[2][n] = env[2][n]
        BY <1>1, <1>2, <2>3
      <3> QED  BY <2>1, <3>1 DEF Outer
    <2> QED  BY <2>2, <2>3
  <1>6. Inner(sy, en)
    <2> SUFFICES ASSUME NEW i \in 1 .. l, NEW n \in Names, i >= 2
                 PROVE  sy[i][n] = "type" <=> en[i + 1][n] = "type"
      BY <1>2 DEF Inner
    <2>1. symTable[i][n] = "type" <=> env[i + 1][n] = "type"
      BY <1>1, <1>4 DEF TypesAgree, Inner
    <2>2. i + 1 \in 1 .. m /\ (i = l <=> i + 1 = m)
      BY <1>1
    <2>3. sy[i][n] = IF i = l /\ n \in ns THEN kind ELSE symTable[i][n]
      BY <1>2
    <2>4. en[i + 1][n] = IF i + 1 = m /\ n \in ns THEN kind ELSE env[i + 1][n]
      BY <1>2, <2>2
    <2> QED  BY <2>1, <2>2, <2>3, <2>4
  <1>7. Unhidden(sy)
    <2> SUFFICES ASSUME NEW i \in 1 .. l, NEW j \in 1 .. l, NEW n \in Names,
                        i < j, sy[j][n] = "value"
                 PROVE  sy[i][n] # "type"
      BY <1>2 DEF Unhidden
    <2>1. i # l  BY <1>1
    <2>2. sy[i][n] = symTable[i][n]  BY <1>2, <2>1
    <2>3. CASE j = l /\ n \in ns  BY <1>2, <1>3, <2>2, <2>3
    <2>4. CASE ~(j = l /\ n \in ns)
      <3>1. symTable[j][n] = "value"  BY <1>2, <2>4
      <3> QED  BY <1>1, <1>4, <2>2, <3>1 DEF TypesAgree, Unhidden
    <2> QED  BY <2>3, <2>4
  <1> QED  BY <1>5, <1>6, <1>7 DEF TypesAgree, sy, en

\* A declarator that ends, in both.
LEMMA DeclaredAgrees ==
    ASSUME IInv, GeneratorHoldsTypes, Reading, Declarator, Declared, outcome' = "running"
    PROVE  TypesAgree(symTable', env')
  <1>1. Declares \in SUBSET Names /\ Kind \in {"type", "value"}
    BY AtDeclarator DEF Declarator
  <1>2. Kind = "value" => Pending = {}
    BY DEF Kind, Pending
  <1>3. \A n \in Declares : ~is_type(n)
    BY DEF IInv, NamesAreNoTypes, Declares, Declarator, Reading
  <1>4. symTable' = insert(symTable, Declares, Kind) /\ env' = insert(env, Declares, Kind)
    BY DEF Declared
  <1> QED  BY <1>1, <1>2, <1>3, <1>4, InsertAgrees

\* What ends or begins at a brace of a function or a block.
LEMMA OpenBodyAgrees ==
    ASSUME IInv, GeneratorHoldsTypes, Reading, OpenBody, outcome' = "running"
    PROVE  TypesAgree(symTable', env')
  <1> DEFINE t == insert(symTable, {decl.name}, "value")
             e == insert(env, {decl.name}, "value")
             p == ParameterScope(decl.params)
  <1>1. /\ phase = "declarator" /\ Len(env) = 2 /\ ~decl.typedef /\ Pending = {}
        /\ symTable' = Append(t, p) /\ env' = Append(e, p)
    BY DEF OpenBody, Pending
  <1>2. /\ env \in Scopes /\ symTable \in Scopes /\ Len(symTable) = 1
        /\ DOMAIN env = 1 .. 2 /\ DOMAIN symTable = 1 .. 1
    <2>1. PICK m \in Nat, l \in Nat :
                /\ m = Len(env) /\ DOMAIN env = 1 .. m
                /\ l = Len(symTable) /\ DOMAIN symTable = 1 .. l
                /\ l = m - 1
      BY Levels
    <2>2. m = 2 /\ l = 1  BY <1>1, <2>1
    <2> QED  BY <2>1, <2>2, Levels
  <1>3. /\ decl.name \in Names
        /\ ~is_type(decl.name) /\ \A n \in decl.params : ~is_type(n)
    BY <1>1 DEF IInv, DeclarationsInPlace, NamesAreNoTypes, Reading
  <1>4. TypesAgree(t, e)
    BY <1>1, <1>3, InsertAgrees
  <1>5. /\ t \in Scopes /\ Len(t) = 1 /\ e \in Scopes /\ Len(e) = 2
        /\ \A n \in Names : t[1][n] = IF n = decl.name THEN "value" ELSE symTable[1][n]
    <2>1. "value" \in Kinds /\ Len(env) > 0 /\ Len(symTable) > 0  BY <1>1, <1>2 DEF Kinds
    <2>2. e \in Scopes /\ Len(e) = 2
      <3>1. Len(insert(env, {decl.name}, "value")) = Len(env)
            /\ insert(env, {decl.name}, "value") \in Scopes
        BY <1>2, <2>1, Inserted
      <3> QED  BY <1>1, <3>1
    <2>3. /\ t \in Scopes /\ Len(t) = 1
          /\ \A i \in 1 .. 1, n \in Names :
                t[i][n] = IF i = 1 /\ n \in {decl.name} THEN "value" ELSE symTable[1][n]
      BY <1>2, <2>1, Inserted
    <2>4. \A n \in Names : t[1][n] = IF n = decl.name THEN "value" ELSE symTable[1][n]
      BY <2>3
    <2> QED  BY <2>2, <2>3, <2>4
  <1>6. \A n \in decl.params : n \in Names => t[1][n] # "type"
    <2>1. \A n \in decl.params : n \in Names => symTable[1][n] # "type"
      BY <1>1, <1>2, <1>3, FoundByGenerator
    <2> QED  BY <1>5, <2>1
  <1>7. /\ p \in [Names -> Kinds]
        /\ \A n \in Names : p[n] # "type" /\ (p[n] = "value" => n \in decl.params)
    BY SomeScopes
  <1> HIDE DEF t, e, p
  <1>8. /\ DOMAIN symTable' = 1 .. 2 /\ symTable'[1] = t[1] /\ symTable'[2] = p
        /\ env'[1] = e[1] /\ env'[2] = e[2] /\ env'[3] = p
    <2> DEFINE F == [Names -> Kinds]
    <2>1. t \in Seq(F) /\ Len(t) = 1 /\ e \in Seq(F) /\ Len(e) = 2 /\ p \in F
      BY <1>5, <1>7 DEF Scopes
    <2> HIDE DEF F
    <2>2. DOMAIN Append(t, p) = 1 .. 2 /\ Append(t, p)[1] = t[1] /\ Append(t, p)[2] = p
      BY <2>1, PushedSecond
    <2>3. Append(e, p)[1] = e[1] /\ Append(e, p)[2] = e[2] /\ Append(e, p)[3] = p
      BY <2>1, PushedThird
    <2> QED  BY <1>1, <2>2, <2>3
  <1>9. Outer(symTable', env')
    BY <1>4, <1>8 DEF TypesAgree, Outer
  <1>10. Inner(symTable', env')
    <2> SUFFICES ASSUME NEW i \in 1 .. 2, NEW n \in Names, i >= 2
                 PROVE  symTable'[i][n] = "type" <=> env'[i + 1][n] = "type"
      BY <1>8 DEF Inner
    <2>1. i = 2 /\ i + 1 = 3
      OBVIOUS
    <2> QED  BY <1>8, <2>1
  <1>11. Unhidden(symTable')
    <2> SUFFICES ASSUME NEW i \in 1 .. 2, NEW j \in 1 .. 2, NEW n \in Names,
                        i < j, symTable'[j][n] = "value"
                 PROVE  symTable'[i][n] # "type"
      BY <1>8 DEF Unhidden
    <2>1. j = 2 /\ i = 1
      OBVIOUS
    <2> QED  BY <1>6, <1>7, <1>8, <2>1
  <1> QED  BY <1>9, <1>10, <1>11 DEF TypesAgree

LEMMA OpenBlockAgrees ==
    ASSUME IInv, GeneratorHoldsTypes, Reading, OpenBlock
    PROVE  TypesAgree(symTable', env')
  <1>a. PICK m \in Nat, l \in Nat :
              /\ m = Len(env) /\ DOMAIN env = 1 .. m
              /\ l = Len(symTable) /\ DOMAIN symTable = 1 .. l
              /\ l = m - 1
    BY Levels
  <1>1. /\ symTable' = Append(symTable, EmptyScope) /\ env' = Append(env, EmptyScope)
        /\ m >= 3
    <2>1. Len(env) \in 3 .. MaxScopes - 1  BY DEF OpenBlock
    <2>2. MaxScopes \in Int  BY TypeNamesAssumption
    <2>3. m >= 3  BY <1>a, <2>1, <2>2
    <2> QED  BY <2>3 DEF OpenBlock
  <1>2. /\ env \in Scopes /\ symTable \in Scopes /\ Len(symTable) = l /\ Len(env) = m
        /\ l >= 2 /\ l + 1 = m
    BY <1>a, <1>1, Levels
  <1>3. EmptyScope \in [Names -> Kinds] /\ \A n \in Names : EmptyScope[n] = "none"
    BY SomeScopes
  <1>4. /\ DOMAIN symTable' = 1 .. l + 1
        /\ symTable'[l + 1] = EmptyScope /\ \A i \in 1 .. l : symTable'[i] = symTable[i]
    BY <1>1, <1>2, <1>3, Pushed DEF Scopes
  <1>5. env'[m + 1] = EmptyScope /\ \A i \in 1 .. m : env'[i] = env[i]
    BY <1>1, <1>2, <1>3, Pushed DEF Scopes
  <1>6. TypesAgree(symTable, env)
    BY DEF GeneratorHoldsTypes
  <1>7. Outer(symTable', env')
    <2>1. 1 \in 1 .. l /\ 1 \in 1 .. m /\ 2 \in 1 .. m  BY <1>1, <1>2
    <2> QED  BY <1>4, <1>5, <1>6, <2>1 DEF TypesAgree, Outer
  <1>8. Inner(symTable', env')
    <2> SUFFICES ASSUME NEW i \in 1 .. l + 1, NEW n \in Names, i >= 2
                 PROVE  symTable'[i][n] = "type" <=> env'[i + 1][n] = "type"
      BY <1>4 DEF Inner
    <2>1. CASE i = l + 1
      BY <1>2, <1>3, <1>4, <1>5, <2>1
    <2>2. CASE i # l + 1
      <3>1. i \in 1 .. l /\ i + 1 \in 1 .. m  BY <1>2, <2>2
      <3>2. symTable[i][n] = "type" <=> env[i + 1][n] = "type"
        BY <1>a, <1>6, <3>1 DEF TypesAgree, Inner
      <3> QED  BY <1>4, <1>5, <3>1, <3>2
    <2> QED  BY <2>1, <2>2
  <1>9. Unhidden(symTable')
    <2> SUFFICES ASSUME NEW i \in 1 .. l + 1, NEW j \in 1 .. l + 1, NEW n \in Names,
                        i < j, symTable'[j][n] = "value"
                 PROVE  symTable'[i][n] # "type"
      BY <1>4 DEF Unhidden
    <2>1. j # l + 1  BY <1>3, <1>4
    <2>2. j \in 1 .. l /\ i \in 1 .. l  BY <1>2, <2>1
    <2> QED  BY <1>a, <1>4, <1>6, <2>2 DEF TypesAgree, Unhidden
  <1> QED  BY <1>7, <1>8, <1>9 DEF TypesAgree

LEMMA CloseBlockAgrees ==
    ASSUME IInv, GeneratorHoldsTypes, Reading, CloseBlock
    PROVE  TypesAgree(symTable', env')
  <1>a. PICK m \in Nat, k \in Nat :
              /\ m = Len(env) /\ DOMAIN env = 1 .. m
              /\ k = Len(symTable) /\ DOMAIN symTable = 1 .. k
              /\ k = m - 1
    BY Levels
  <1>1. symTable' = pop(symTable) /\ env' = pop(env) /\ m >= 3 /\ k >= 2
    BY <1>a DEF CloseBlock
  <1>2. env \in Seq([Names -> Kinds]) /\ symTable \in Seq([Names -> Kinds])
    BY Levels DEF Scopes
  <1>3. /\ DOMAIN symTable' = 1 .. k - 1 /\ \A i \in 1 .. k - 1 : symTable'[i] = symTable[i]
        /\ \A i \in 1 .. m - 1 : env'[i] = env[i]
    <2>1. Len(symTable) > 0 /\ Len(env) > 0  BY <1>a, <1>1
    <2> QED  BY <1>a, <1>1, <1>2, <2>1, Popped
  <1>4. TypesAgree(symTable, env)
    BY DEF GeneratorHoldsTypes
  <1>5. \A i \in 1 .. k - 1 : i \in 1 .. k /\ i + 1 \in 1 .. m - 1
    BY <1>a
  <1>6. Outer(symTable', env')
    <2>1. 1 \in 1 .. k - 1 /\ 1 \in 1 .. m - 1 /\ 2 \in 1 .. m - 1  BY <1>a, <1>1
    <2> QED  BY <1>3, <1>4, <2>1 DEF TypesAgree, Outer
  <1>7. Inner(symTable', env')
    BY <1>a, <1>3, <1>4, <1>5 DEF TypesAgree, Inner
  <1>8. Unhidden(symTable')
    BY <1>a, <1>3, <1>4, <1>5 DEF TypesAgree, Unhidden
  <1> QED  BY <1>6, <1>7, <1>8 DEF TypesAgree

LEMMA StartAgrees ==
    ASSUME UnitStart
    PROVE  TypesAgree(symTable', env')
  <1>1. /\ symTable' = <<BuiltinScope>> /\ env' = <<BuiltinScope, EmptyScope>>
        /\ DOMAIN symTable' = {1}
    BY DEF UnitStart
  <1>2. \A n \in Names : BuiltinScope[n] # "value" /\ EmptyScope[n] = "none"
    BY SomeScopes
  <1> QED  BY <1>1, <1>2 DEF TypesAgree, Outer, Inner, Unhidden

\* C enters a name before its initializer is read; it is no type.
LEMMA AssignAgrees ==
    ASSUME IInv, GeneratorHoldsTypes, Reading, Assign, outcome' = "running"
    PROVE  TypesAgree(symTable', env')
  <1>1. /\ symTable' = symTable /\ ~decl.typedef /\ ~Member /\ phase = "declarator"
        /\ env' = insert(env, {decl.name}, "value")
    BY DEF Assign, Declares, Kind
  <1>2. decl.name \in Names /\ ~is_type(decl.name) /\ Pending = {}
    BY <1>1 DEF IInv, DeclarationsInPlace, NamesAreNoTypes, Reading, Pending
  <1>3. PICK m \in Nat, l \in Nat :
              /\ m = Len(env) /\ DOMAIN env = 1 .. m /\ m >= 2
              /\ DOMAIN symTable = 1 .. l /\ l = m - 1
    BY Levels
  <1>4. \A i \in DOMAIN env, n \in Names :
           env'[i][n] = IF i = Len(env) /\ n \in {decl.name} THEN "value" ELSE env[i][n]
    <2>1. "value" \in Kinds /\ Len(env) > 0  BY <1>3 DEF Kinds
    <2> QED  BY <1>1, <2>1, Levels, Inserted
  <1>5. \A i \in DOMAIN env : env[i][decl.name] # "type"
    BY <1>2, FoundByGenerator
  <1>6. \A i \in DOMAIN env, n \in Names : env'[i][n] = "type" <=> env[i][n] = "type"
    BY <1>4, <1>5
  <1>7. TypesAgree(symTable, env)
    BY DEF GeneratorHoldsTypes
  <1>8. Outer(symTable', env')
    <2>1. 1 \in DOMAIN env /\ 2 \in DOMAIN env  BY <1>3
    <2> QED  BY <1>1, <1>6, <1>7, <2>1 DEF TypesAgree, Outer
  <1>9. Inner(symTable', env')
    <2>1. \A i \in DOMAIN symTable : i >= 2 => i + 1 \in DOMAIN env  BY <1>3
    <2> QED  BY <1>1, <1>6, <1>7, <2>1 DEF TypesAgree, Inner
  <1> QED  BY <1>1, <1>7, <1>8, <1>9 DEF TypesAgree

\* The steps that read, and so leave the scopes.
ReadsParameter(n) == \/ TypedParameter(n) \/ BareParameter(n) \/ QualifiedParameter(n)
                     \/ \E t \in Names : NamedParameter(t, n)
ReadsOnly ==
    \/ Typedef \/ Qualifier \/ BasicType \/ OpenStruct \/ CloseStruct \/ OpenEnum \/ CloseEnum
    \/ Pointer \/ OpenInitializer \/ CloseInitializer \/ EndOfSpecifiers
    \/ \E n \in Names : \/ TypeName(n) \/ FirstName(n) \/ Name(n)
                        \/ \E operand \in BOOLEAN : Use(n, operand)
    \/ OpenParameters \/ CloseParameters \/ \E n \in Names : ReadsParameter(n)

LEMMA ReadingKeepsScopes ==
    ASSUME IInv, ReadsOnly
    PROVE  UNCHANGED <<symTable, env>> /\ running /\ phase # "start"
  <1>1. ASSUME Typedef \/ Qualifier \/ BasicType
        PROVE  UNCHANGED <<symTable, env>> /\ running /\ phase # "start"
    BY <1>1 DEF Typedef, Qualifier, BasicType, Specifying, scopes
  <1>2. ASSUME OpenStruct \/ OpenEnum \/ OpenInitializer
        PROVE  UNCHANGED <<symTable, env>> /\ running /\ phase # "start"
    BY <1>2 DEF OpenStruct, OpenEnum, OpenInitializer, Specifying, scopes
  <1>3. ASSUME CloseStruct \/ CloseEnum
        PROVE  UNCHANGED <<symTable, env>> /\ running /\ phase # "start"
    BY <1>3 DEF CloseStruct, CloseEnum, Unbrace, scopes
  <1>4. ASSUME CloseInitializer
        PROVE  UNCHANGED <<symTable, env>> /\ running /\ phase # "start"
    <2>1. /\ UNCHANGED <<symTable, env>> /\ running
          /\ braces # <<>>
      BY <1>4 DEF CloseInitializer, Unbrace, InBraces, scopes
    <2> QED  BY <2>1 DEF IInv, TypeOK
  <1>5. ASSUME Pointer \/ EndOfSpecifiers
        PROVE  UNCHANGED <<symTable, env>> /\ running /\ phase # "start"
    BY <1>5 DEF Pointer, EndOfSpecifiers, scopes
  <1>6. ASSUME NEW n \in Names, \/ TypeName(n) \/ FirstName(n) \/ Name(n)
                                \/ \E operand \in BOOLEAN : Use(n, operand)
        PROVE  UNCHANGED <<symTable, env>> /\ running /\ phase # "start"
    BY <1>6 DEF TypeName, FirstName, Name, Use, Specifying, scopes
  <1>7. ASSUME \/ OpenParameters \/ CloseParameters
               \/ \E n \in Names : ReadsParameter(n)
        PROVE  UNCHANGED <<symTable, env>> /\ running /\ phase # "start"
    BY <1>7 DEF OpenParameters, CloseParameters, ReadsParameter, TypedParameter, BareParameter,
                QualifiedParameter, NamedParameter, scopes
  <1> QED  BY <1>1, <1>2, <1>3, <1>4, <1>5, <1>6, <1>7 DEF ReadsOnly

LEMMA AgreementKept ==
    ASSUME IInv, GeneratorHoldsTypes, [Next]_vars
    PROVE  GeneratorHoldsTypes'
  <1>1. SUFFICES ASSUME Reading'  PROVE TypesAgree(symTable', env')
    BY DEF GeneratorHoldsTypes
  <1>2. outcome' = "running" /\ phase' # "start"
    BY <1>1 DEF Reading, running
  <1>3. CASE ReadsOnly
    <2>1. UNCHANGED <<symTable, env>> /\ Reading
      BY <1>2, <1>3, ReadingKeepsScopes DEF Reading
    <2> QED  BY <2>1 DEF GeneratorHoldsTypes
  <1>4. CASE UNCHANGED vars
    BY <1>1, <1>4 DEF vars, GeneratorHoldsTypes, Reading, running
  <1>5. CASE UnitStart
    BY <1>5, StartAgrees
  <1>6. CASE UnitEnd
    BY <1>2, <1>6 DEF UnitEnd
  <1>7. CASE Assign
    <2>1. Reading  BY <1>2, <1>7 DEF Assign, Reading
    <2> QED  BY <1>2, <1>7, <2>1, AssignAgrees
  <1>8. CASE Comma \/ End
    <2>1. Declarator /\ Declared /\ Reading
      BY <1>2, <1>8 DEF Comma, End, Declarator, Reading
    <2> QED  BY <1>2, <2>1, DeclaredAgrees
  <1>9. CASE OpenBody
    <2>1. Reading  BY <1>2, <1>9 DEF OpenBody, Reading
    <2> QED  BY <1>2, <1>9, <2>1, OpenBodyAgrees
  <1>10. CASE OpenBlock
    <2>1. Reading  BY <1>2, <1>10 DEF OpenBlock, Reading
    <2> QED  BY <1>10, <2>1, OpenBlockAgrees
  <1>11. CASE CloseBlock
    <2>1. Reading  BY <1>2, <1>11 DEF CloseBlock, Reading
    <2> QED  BY <1>11, <2>1, CloseBlockAgrees
  <1>12. ASSUME NEW n \in Names, Enumerator(n)  PROVE TypesAgree(symTable', env')
    <2>1. Reading /\ ~is_type(n)  BY <1>2, <1>12 DEF Enumerator, Reading
    <2>2. symTable' = insert(symTable, {n}, "value") /\ env' = insert(env, {n}, "value")
      BY <1>2, <1>12 DEF Enumerator
    <2>3. Pending = {}
      BY <1>12, NoDeclaration DEF IInv, DeclarationsInPlace, Enumerator, Pending
    <2> QED  BY <2>1, <2>2, <2>3, InsertAgrees
  <1> QED
    BY <1>3, <1>4, <1>5, <1>6, <1>7, <1>8, <1>9, <1>10, <1>11, <1>12 DEF Next, ReadsOnly, ReadsParameter

\* What a name that is read makes of the unit.
LEMMA ReadAsFound ==
    ASSUME IInv, GeneratorHoldsTypes, ResolvedAsRead, [Next]_vars
    PROVE  /\ outcome' \notin {"not_found", "not_a_type"}
           /\ outcome' = "type_as_value" => decl'.typedef /\ decl'.list # {}
  <1> DEFINE Fine == outcome' \notin {"not_found", "not_a_type", "type_as_value"}
  <1>1. CASE UNCHANGED vars  BY <1>1 DEF vars, ResolvedAsRead
  <1>2. ASSUME NEW n \in Names, is_type(n), Reading  PROVE AsType(n) = "running"
    <2>1. find(symTable, n) = "type"  BY <1>2, FoundByGenerator
    <2> QED  BY <2>1 DEF AsType
  <1>3. ASSUME NEW n \in Names, TypeName(n)  PROVE Fine
    BY <1>2, <1>3 DEF TypeName, Specifying, Reading
  <1>4. ASSUME NEW n \in Names, NEW operand \in BOOLEAN, Use(n, operand)
        PROVE  /\ outcome' \notin {"not_found", "not_a_type"}
               /\ outcome' = "type_as_value" => decl'.typedef /\ decl'.list # {}
    <2>1. Reading /\ decl' = decl  BY <1>4 DEF Use, Reading
    <2>2. CASE is_type(n)
      BY <1>2, <1>4, <2>1, <2>2 DEF Use
    <2>3. CASE ~is_type(n)
      <3>1. outcome' = AsValue(n)  BY <1>4, <2>3 DEF Use
      <3>2. outcome' \in {"running", "type_as_value", "undeclared"}
            /\ (outcome' = "type_as_value" => find(symTable, n) = "type")
        BY <3>1 DEF AsValue
      <3>3. find(symTable, n) = "type" => n \in Pending
        BY <2>1, <2>3, FoundByGenerator
      <3> QED  BY <2>1, <3>2, <3>3 DEF Pending
    <2> QED  BY <2>2, <2>3
  <1>5. ASSUME NEW n \in Names, FirstName(n) \/ Name(n)  PROVE Fine
    BY <1>5 DEF FirstName, Name, OneType, running
  <1>6. ASSUME NEW n \in Names, Enumerator(n)  PROVE Fine
    BY <1>6 DEF Enumerator, running
  <1>7. CASE OpenParameters \/ CloseParameters
    BY <1>7 DEF OpenParameters, CloseParameters, running
  <1>13. ASSUME NEW n \in Names, ReadsParameter(n)  PROVE Fine
    <2>1. Reading
      BY <1>13 DEF ReadsParameter, TypedParameter, BareParameter, QualifiedParameter,
                   NamedParameter, Reading
    <2>2. \A q \in Names : is_type(q) => AsType(q) = "running"
      BY <1>2, <2>1
    <2> QED
      BY <1>13, <2>2
      DEF ReadsParameter, TypedParameter, BareParameter, QualifiedParameter, NamedParameter
  <1>8. CASE UnitStart \/ UnitEnd \/ Typedef \/ Qualifier \/ BasicType
    BY <1>8 DEF UnitStart, UnitEnd, Typedef, Qualifier, BasicType, Specifying, running
  <1>9. CASE OpenStruct \/ CloseStruct \/ OpenEnum \/ CloseEnum \/ OpenInitializer \/ CloseInitializer
    BY <1>9 DEF OpenStruct, CloseStruct, OpenEnum, CloseEnum, OpenInitializer, CloseInitializer,
                Unbrace, Specifying, running
  <1>10. CASE Pointer \/ EndOfSpecifiers \/ Assign
    BY <1>10 DEF Pointer, EndOfSpecifiers, Assign, OneType, running
  <1>11. CASE Comma \/ End
    BY <1>11 DEF Comma, End, Declared, Declarator, running
  <1>12. CASE OpenBody \/ OpenBlock \/ CloseBlock
    BY <1>12 DEF OpenBody, OpenBlock, CloseBlock, running
  <1> QED
    BY <1>1, <1>3, <1>4, <1>5, <1>6, <1>7, <1>8, <1>9, <1>10, <1>11, <1>12, <1>13
    DEF Next, ReadsParameter

(***************************************************************************)
(* Whatever a unit declares and hides: the generator finds a type by every *)
(* name the lexer called one.  It finds one by a name that was read as a   *)
(* value only in the rest of the typedef's own list.                       *)
(***************************************************************************)
THEOREM Resolved == Spec => []ResolvedAsRead
  <1>1. Init => GeneratorHoldsTypes /\ ResolvedAsRead
    BY DEF Init, GeneratorHoldsTypes, Reading, ResolvedAsRead
  <1>2. IInv /\ GeneratorHoldsTypes /\ ResolvedAsRead /\ [Next]_vars
           => GeneratorHoldsTypes' /\ ResolvedAsRead'
    <2> SUFFICES ASSUME IInv, GeneratorHoldsTypes, ResolvedAsRead, [Next]_vars
                 PROVE  ResolvedAsRead'
      BY AgreementKept
    <2> QED  BY ReadAsFound DEF ResolvedAsRead
  <1> QED  BY <1>1, <1>2, Invariance, PTL DEF Spec
=============================================================================
