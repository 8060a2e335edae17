-------------------------- MODULE TagScopesProofs --------------------------
(***************************************************************************)
(* What tags mean, for units with any number of tags, scopes and bodies.   *)
(***************************************************************************)
EXTENDS TagScopes, SequenceTheorems, WellFoundedInduction, TLAPS

Live == ~strayed /\ ~halted

\* Every entry of a struct or union tag is C's.
EntriesAreC ==
    Live => \A i \in DOMAIN scopes, tag \in Structs : scopes[i][tag] = cscopes[i][tag]

\* The scopes C gives parameter lists are empty.
ListsDeclareNothing == Live => \A i \in DOMAIN protos, tag \in Tags : protos[i][tag] = None

\* An open body completes the object its tag names in the current scope.
BodiesResolveAsC ==
    Live => \A k \in DOMAIN bodies :
                /\ bodies[k].o = bodies[k].c
                /\ bodies[k].errs <=> "member" \in bodies[k].cerrs
                /\ "body" \notin bodies[k].cerrs
                /\ scopes[Len(scopes)][bodies[k].tag] = bodies[k].o

\* C's object of a tag is one declaration's.
ObjectsAreEnteredOnce ==
    Live => \A i, j \in DOMAIN cscopes, s, t \in Tags :
        cscopes[i][s] # None /\ cscopes[i][s] = cscopes[j][t] => i = j /\ s = t

\* The objects structs are found or cloned by, and those enums are found by.
IsStruct(o) ==
    /\ o # None
    /\ \/ \E i \in DOMAIN scopes, tag \in Structs : scopes[i][tag] = o
       \/ \E t \in types : t.tag \in Structs /\ t.of = o
IsEnum(o) == \E i \in DOMAIN scopes, tag \in Enums : o \in {scopes[i][tag], cscopes[i][tag]}

StructsApart == Live => \A o \in Objects : ~(IsStruct(o) /\ IsEnum(o))
StructsCompleteAsC ==
    Live => \A o \in Objects : IsStruct(o) => (o \in complete <=> o \in ccomplete)
ClonesNameTheirStruct ==
    Live => \A t \in types : t.tag \in Structs => t.of = t.c /\ t.of # None

IInv == /\ TypeOK /\ EntriesAreC /\ EnumTagsAreAsComplete /\ ListsDeclareNothing
        /\ BodiesResolveAsC /\ ObjectsAreEnteredOnce /\ StructsApart
        /\ StructsCompleteAsC /\ ClonesNameTheirStruct /\ HaltsAreErrors
-----------------------------------------------------------------------------
\* A set of numbers that has a bound has a greatest.
Less == {ss \in Nat \X Nat : ss[1] < ss[2]}

LEMMA Least ==
    ASSUME NEW T, T \subseteq Nat, T # {}
    PROVE  \E x \in T : \A y \in T : x <= y
  <1>1. IsWellFoundedOn(Less, Nat)
    BY NatLessThanWellFounded DEF OpToRel, Less
  <1>2. PICK x \in T : \A y \in T : ~(<<y, x>> \in Less)
    BY <1>1, WFMin
  <1>3. \A y \in T : ~(y < x)
    BY <1>2 DEF Less
  <1> QED  BY <1>3

LEMMA Greatest ==
    ASSUME NEW n \in Nat, NEW T, T \subseteq 1 .. n, T # {}
    PROVE  \E x \in T : \A y \in T : y <= x
  <1> DEFINE U == {n - i : i \in T}
  <1>1. \A i \in T : n - i \in Nat
    OBVIOUS
  <1>2. U \subseteq Nat /\ U # {}
    BY <1>1
  <1>3. PICK u \in U : \A v \in U : u <= v
    BY <1>2, Least
  <1>4. PICK x \in T : u = n - x
    OBVIOUS
  <1>5. \A y \in T : n - x <= n - y
    BY <1>3, <1>4
  <1> QED  BY <1>5

Table == Seq([Tags -> Objects \cup {None}])

\* find returns the entry of one scope, if any has one: the innermost's.
LEMMA Found ==
    ASSUME NEW sc \in Table, NEW tag \in Tags
    PROVE  \/ /\ \A i \in DOMAIN sc : sc[i][tag] = None
              /\ find(sc, tag) = None
           \/ \E i \in DOMAIN sc : /\ sc[i][tag] # None
                                   /\ \A j \in DOMAIN sc : i < j => sc[j][tag] = None
                                   /\ find(sc, tag) = sc[i][tag]
  <1> DEFINE I == {i \in DOMAIN sc : sc[i][tag] # None}
             Innermost(i) == /\ sc[i][tag] # None
                             /\ \A j \in DOMAIN sc : i < j => sc[j][tag] = None
  <1>1. CASE I = {}
    BY <1>1 DEF find
  <1>2. CASE I # {}
    <2>1. DOMAIN sc = 1 .. Len(sc) /\ Len(sc) \in Nat
      BY DEF Table
    <2>2. PICK x \in I : \A y \in I : y <= x
      BY <1>2, <2>1, Greatest
    <2>3. \E i \in DOMAIN sc : Innermost(i)
      BY <2>1, <2>2
    <2>4. find(sc, tag) = sc[CHOOSE i \in DOMAIN sc : Innermost(i)][tag]
      BY <1>2 DEF find
    <2> HIDE DEF Innermost
    <2>5. PICK i \in DOMAIN sc : Innermost(i) /\ find(sc, tag) = sc[i][tag]
      BY <2>3, <2>4
    <2> QED  BY <2>5 DEF Innermost
  <1> QED  BY <1>1, <1>2

\* Two tables that know a tag in the same scopes find it in the same scope.
LEMMA FoundAlike ==
    ASSUME NEW a \in Table, NEW b \in Table, Len(a) = Len(b),
           NEW tag \in Tags, \A i \in DOMAIN a : a[i][tag] = None <=> b[i][tag] = None
    PROVE  \/ find(a, tag) = None /\ find(b, tag) = None
           \/ \E i \in DOMAIN a : /\ a[i][tag] # None /\ b[i][tag] # None
                                  /\ find(a, tag) = a[i][tag] /\ find(b, tag) = b[i][tag]
  <1>1. DOMAIN a = DOMAIN b /\ DOMAIN a = 1 .. Len(a) /\ Len(a) \in Nat
    BY DEF Table
  <1>2. CASE \A i \in DOMAIN a : a[i][tag] = None
    <2>1. find(a, tag) = None /\ find(b, tag) = None
      BY <1>1, <1>2, Found
    <2> QED  BY <2>1
  <1>3. CASE ~ \A i \in DOMAIN a : a[i][tag] = None
    <2>1. PICK i \in DOMAIN a : /\ a[i][tag] # None
                                /\ \A j \in DOMAIN a : i < j => a[j][tag] = None
                                /\ find(a, tag) = a[i][tag]
      BY <1>3, Found
    <2>2. PICK k \in DOMAIN b : /\ b[k][tag] # None
                                /\ \A j \in DOMAIN b : k < j => b[j][tag] = None
                                /\ find(b, tag) = b[k][tag]
      <3>1. \E k \in DOMAIN b : b[k][tag] # None
        BY <1>1, <1>3
      <3>2. ~ \A k \in DOMAIN b : b[k][tag] = None
        BY <3>1
      <3> QED  BY <3>2, Found
    <2>3. i = k
      <3>1. ~(i < k) /\ ~(k < i)
        BY <1>1, <2>1, <2>2
      <3> QED  BY <1>1, <3>1
    <2> QED  BY <1>1, <2>1, <2>2, <2>3
  <1> QED  BY <1>2, <1>3

\* insert writes one entry of the innermost scope.
LEMMA InsertedSeq ==
    ASSUME NEW S, NEW sc, sc \in Seq([Tags -> S]), Len(sc) > 0, NEW tag, tag \in Tags, NEW o, o \in S
    PROVE  insert(sc, tag, o) \in Seq([Tags -> S]) /\ Len(insert(sc, tag, o)) = Len(sc)
  <1>1. Len(sc) \in 1 .. Len(sc) /\ sc[Len(sc)] \in [Tags -> S]
    OBVIOUS
  <1> DEFINE e == [sc[Len(sc)] EXCEPT ![tag] = o]
  <1>2. e \in [Tags -> S]
    BY <1>1
  <1>3. insert(sc, tag, o) = [sc EXCEPT ![Len(sc)] = e]
    BY DEF insert
  <1> HIDE DEF e
  <1> QED  BY <1>1, <1>2, <1>3, ExceptSeq

LEMMA Inserted ==
    ASSUME NEW sc \in Table, Len(sc) > 0, NEW tag \in Tags, NEW o
    PROVE  \A i \in DOMAIN sc, t \in Tags :
              insert(sc, tag, o)[i][t] = IF i = Len(sc) /\ t = tag THEN o ELSE sc[i][t]
  <1>1. Len(sc) \in 1 .. Len(sc) /\ DOMAIN sc = 1 .. Len(sc)
    BY DEF Table
  <1>2. sc[Len(sc)] \in [Tags -> Objects \cup {None}]
    BY <1>1 DEF Table
  <1> DEFINE e == [sc[Len(sc)] EXCEPT ![tag] = o]
  <1>3. e[tag] = o /\ \A t \in Tags \ {tag} : e[t] = sc[Len(sc)][t]
    BY <1>2
  <1>4. insert(sc, tag, o) = [sc EXCEPT ![Len(sc)] = e]
    BY DEF insert
  <1> HIDE DEF e
  <1>5. insert(sc, tag, o)[Len(sc)] = e
        /\ \A i \in DOMAIN sc \ {Len(sc)} : insert(sc, tag, o)[i] = sc[i]
    BY <1>1, <1>4
  <1> QED  BY <1>3, <1>5
\* C's scopes with those of the lists find what they find without, if the
\* lists declare nothing.
LEMMA FoundOutside ==
    ASSUME NEW a \in Table, NEW b \in Table, NEW tag \in Tags,
           \A i \in DOMAIN b : b[i][tag] = None
    PROVE  find(a \o b, tag) = find(a, tag)
  <1> DEFINE all == a \o b
  <1>1. all \in Table /\ Len(a) \in Nat /\ Len(b) \in Nat
    BY ConcatProperties DEF Table
  <1>2. /\ DOMAIN a = 1 .. Len(a) /\ DOMAIN b = 1 .. Len(b)
        /\ DOMAIN all = 1 .. Len(a) + Len(b)
        /\ \A i \in 1 .. Len(a) : all[i] = a[i]
        /\ \A i \in 1 .. Len(a) + Len(b) : i > Len(a) => all[i] = b[i - Len(a)]
    BY ConcatProperties DEF Table
  <1> HIDE DEF all
  <1>3. \A i \in DOMAIN all : i \in DOMAIN a \/ all[i][tag] = None
    <2> SUFFICES ASSUME NEW i \in DOMAIN all, i \notin DOMAIN a  PROVE all[i][tag] = None
      OBVIOUS
    <2>1. i > Len(a) /\ i - Len(a) \in DOMAIN b  BY <1>1, <1>2
    <2>2. all[i] = b[i - Len(a)]  BY <1>2, <2>1
    <2> QED  BY <2>1, <2>2
  <1>4. \A i \in DOMAIN a : i \in DOMAIN all /\ all[i][tag] = a[i][tag]
    BY <1>1, <1>2
  <1>5. CASE \A i \in DOMAIN a : a[i][tag] = None
    <2>1. \A i \in DOMAIN all : all[i][tag] = None  BY <1>3, <1>4, <1>5
    <2>2. find(all, tag) = None  BY <1>1, <2>1, Found
    <2>3. find(a, tag) = None  BY <1>5, Found
    <2> QED  BY <2>2, <2>3 DEF all
  <1>6. CASE ~ \A i \in DOMAIN a : a[i][tag] = None
    <2>1. PICK i \in DOMAIN a : /\ a[i][tag] # None
                                /\ \A j \in DOMAIN a : i < j => a[j][tag] = None
                                /\ find(a, tag) = a[i][tag]
      BY <1>6, Found
    <2>2. ~ \A k \in DOMAIN all : all[k][tag] = None  BY <1>4, <2>1
    <2>3. PICK k \in DOMAIN all : /\ all[k][tag] # None
                                  /\ \A j \in DOMAIN all : k < j => all[j][tag] = None
                                  /\ find(all, tag) = all[k][tag]
      BY <1>1, <2>2, Found
    <2>4. k \in DOMAIN a  BY <1>3, <2>3
    <2>5. i = k
      <3>1. ~(i < k) /\ ~(k < i)  BY <1>4, <2>1, <2>3, <2>4
      <3> QED  BY <1>1, <1>2, <2>4, <3>1
    <2> QED  BY <1>4, <2>1, <2>3, <2>5 DEF all
  <1> QED  BY <1>5, <1>6
-----------------------------------------------------------------------------
Frame == [tag : Structs, o : Objects, c : Objects, has_def : BOOLEAN, lists : Nat,
          errs : BOOLEAN, cerrs : SUBSET Errors]
Cloned == [tag : Tags, of : Objects \cup {Incomplete}, c : Objects]

LEMMA Wider ==
    ASSUME NEW m \in Nat, NEW n \in Nat, n >= m
    PROVE  1 .. m - 1 \subseteq 1 .. n - 1
  OBVIOUS

LEMMA Grown ==
    ASSUME TypeOK, next' \in Nat, next' >= next
    PROVE  /\ Objects \subseteq Objects'
           /\ Table \subseteq Table' /\ Frame \subseteq Frame' /\ Cloned \subseteq Cloned'
           /\ Seq(Frame) \subseteq Seq(Frame')
           /\ scopes \in Table' /\ cscopes \in Table' /\ protos \in Table'
           /\ bodies \in Seq(Frame')
           /\ complete \subseteq Objects' /\ ccomplete \subseteq Objects' /\ types \subseteq Cloned'
  <1>1. Objects \subseteq Objects'
    <2>1. next \in Nat
      BY DEF TypeOK
    <2>2. 1 .. next - 1 \subseteq 1 .. next' - 1
      BY <2>1, Wider
    <2> QED  BY <2>2 DEF Objects
  <1>2. [Tags -> Objects \cup {None}] \subseteq [Tags -> Objects' \cup {None}]
    BY <1>1
  <1>3. Table \subseteq Table'
    BY <1>2 DEF Table
  <1>4. Frame \subseteq Frame' /\ Cloned \subseteq Cloned'
    BY <1>1 DEF Frame, Cloned
  <1>5. Seq(Frame) \subseteq Seq(Frame')
    BY <1>4
  <1>6. /\ scopes \in Table /\ cscopes \in Table /\ protos \in Table /\ bodies \in Seq(Frame)
        /\ complete \subseteq Objects /\ ccomplete \subseteq Objects /\ types \subseteq Cloned
    BY DEF TypeOK, Table, Frame, Cloned
  <1> QED  BY <1>1, <1>3, <1>4, <1>5, <1>6

LEMMA TypeIntro ==
    ASSUME next' \in Nat \ {0}, scopes' \in Table', cscopes' \in Table', protos' \in Table',
           Len(scopes') > 0, Len(cscopes') = Len(scopes'),
           complete' \subseteq Objects', ccomplete' \subseteq Objects',
           bodies' \in Seq(Frame'), types' \subseteq Cloned',
           halted' \in BOOLEAN, strayed' \in BOOLEAN, cerrors' \subseteq Errors
    PROVE  TypeOK'
  BY DEF TypeOK, Table, Frame, Cloned

LEMMA TypeParts ==
    ASSUME TypeOK
    PROVE  /\ next \in Nat \ {0} /\ scopes \in Table /\ cscopes \in Table /\ protos \in Table
           /\ Len(scopes) > 0 /\ Len(cscopes) = Len(scopes)
           /\ complete \subseteq Objects /\ ccomplete \subseteq Objects
           /\ bodies \in Seq(Frame) /\ types \subseteq Cloned
           /\ halted \in BOOLEAN /\ strayed \in BOOLEAN /\ cerrors \subseteq Errors
  BY DEF TypeOK, Table, Frame, Cloned

\* What C means outside of parameter lists.
Outside(tag, declares) ==
    LET seen == IF declares THEN find_in_scope(cscopes, tag) ELSE find(cscopes, tag)
    IN  IF seen = None THEN next ELSE seen

\* A specifier means an object of the unit or the next one.
LEMMA Meant ==
    ASSUME TypeOK, NEW tag \in Tags, NEW own
    PROVE  /\ forward_decl(tag, own) \in Objects \cup {next}
           /\ Denoted(tag, own) \in Objects \cup {next}
           /\ Outside(tag, own) \in Objects \cup {next}
  <1>1. /\ scopes \in Table /\ cscopes \in Table /\ Len(scopes) > 0 /\ Len(cscopes) > 0
        /\ cscopes \o protos \in Table /\ Len(cscopes \o protos) > 0
    <2>1. /\ scopes \in Table /\ cscopes \in Table /\ Len(scopes) > 0 /\ Len(cscopes) > 0
          /\ protos \in Table
      BY TypeParts
    <2>2. /\ cscopes \o protos \in Table
          /\ Len(cscopes \o protos) = Len(cscopes) + Len(protos) /\ Len(protos) \in Nat
          /\ Len(cscopes) \in Nat
      BY <2>1, ConcatProperties DEF Table
    <2> QED  BY <2>1, <2>2
  <1>2. ASSUME NEW sc \in Table, Len(sc) > 0
        PROVE  find(sc, tag) \in Objects \cup {None} /\ find_in_scope(sc, tag) \in Objects \cup {None}
    <2>1. Len(sc) \in DOMAIN sc
      BY <1>2 DEF Table
    <2>2. \A i \in DOMAIN sc : sc[i][tag] \in Objects \cup {None}
      BY DEF Table
    <2>3. find(sc, tag) \in Objects \cup {None}
      BY <2>2, Found
    <2> QED  BY <2>1, <2>2, <2>3 DEF find_in_scope
  <1> QED  BY <1>1, <1>2 DEF forward_decl, Denoted, Outside

LEMMA SameLength ==
    ASSUME NEW m \in Nat, NEW n \in Nat, 1 .. m = 1 .. n
    PROVE  m = n
  <1>1. m > 0 => m \in 1 .. n
    OBVIOUS
  <1>2. n > 0 => n \in 1 .. m
    OBVIOUS
  <1> QED  BY <1>1, <1>2

\* The tables after an insertion, of objects of now and of afterwards.
LEMMA InsertedType ==
    ASSUME NEW sc, Len(sc) > 0, NEW tag \in Tags, NEW o
    PROVE  /\ sc \in Table /\ o \in Objects =>
                 insert(sc, tag, o) \in Table /\ Len(insert(sc, tag, o)) = Len(sc)
           /\ sc \in Table' /\ o \in Objects' =>
                 insert(sc, tag, o) \in Table' /\ Len(insert(sc, tag, o)) = Len(sc)
  <1>1. ASSUME NEW S, sc \in Seq([Tags -> S]), o \in S
        PROVE  insert(sc, tag, o) \in Seq([Tags -> S]) /\ Len(insert(sc, tag, o)) = Len(sc)
    <2>1. insert(sc, tag, o) \in Seq([Tags -> S])
      BY <1>1, InsertedSeq
    <2>2. Len(insert(sc, tag, o)) = Len(sc)
      <3>1. DOMAIN insert(sc, tag, o) = DOMAIN sc
        BY DEF insert
      <3>2. DOMAIN insert(sc, tag, o) = 1 .. Len(insert(sc, tag, o)) /\ DOMAIN sc = 1 .. Len(sc)
            /\ Len(insert(sc, tag, o)) \in Nat /\ Len(sc) \in Nat
        BY <1>1, <2>1
      <3> QED  BY <3>1, <3>2, SameLength
    <2> QED  BY <2>1, <2>2
  <1> QED  BY <1>1 DEF Table

\* Entering a tag that is new puts its object into the current scope.
LEMMA EnteredType ==
    ASSUME TypeOK, NEW tag \in Tags, NEW o \in Objects \cup {next},
           NEW sc \in {scopes, cscopes, protos}, Len(sc) > 0,
           next' \in Nat, next' >= next, o = next => next' = next + 1
    PROVE  Entered(sc, tag, o) \in Table' /\ Len(Entered(sc, tag, o)) = Len(sc)
  <1>1. sc \in Table' /\ Len(sc) > 0
    BY Grown, TypeParts
  <1>2. CASE o = next
    <2>1. o \in Objects'
      BY <1>2, TypeParts DEF Objects
    <2> QED  BY <1>1, <1>2, <2>1, InsertedType DEF Entered
  <1>3. CASE o # next
    BY <1>1, <1>3 DEF Entered
  <1> QED  BY <1>2, <1>3

LEMMA EnteredByCType ==
    ASSUME TypeOK, NEW tag \in Tags, NEW c \in Objects \cup {next}, EnteredByC(tag, c),
           next' \in Nat, next' >= next, c = next => next' = next + 1
    PROVE  cscopes' \in Table' /\ Len(cscopes') = Len(cscopes) /\ protos' \in Table'
  <1>1. cscopes \in Table' /\ protos \in Table' /\ Len(cscopes) > 0
    BY Grown, TypeParts
  <1>2. CASE protos = <<>>
    <2>1. cscopes' = Entered(cscopes, tag, c) /\ protos' = protos
      BY <1>2 DEF EnteredByC
    <2> QED  BY <1>1, <2>1, EnteredType
  <1>3. CASE protos # <<>>
    <2>1. protos' = Entered(protos, tag, c) /\ cscopes' = cscopes
      BY <1>3 DEF EnteredByC
    <2>2. Len(protos) > 0
      BY <1>3, TypeParts, EmptySeq DEF Table
    <2> QED  BY <1>1, <2>1, <2>2, EnteredType
  <1> QED  BY <1>2, <1>3

\* The number after those used, which are numbers of objects then.
LEMMA Numbered ==
    ASSUME TypeOK, NEW o \in Objects \cup {next}, NEW c \in Objects \cup {next},
           next' = NextAfter({o, c})
    PROVE  /\ next' \in Nat \ {0} /\ next' >= next
           /\ o = next \/ c = next => next' = next + 1
           /\ o \in Objects' /\ c \in Objects'
  <1>1. next \in Nat \ {0}
    BY TypeParts
  <1>2. next' = IF o = next \/ c = next THEN next + 1 ELSE next
    BY DEF NextAfter
  <1> QED  BY <1>1, <1>2 DEF Objects

\* What a declarator's type is cloned from has a number.
LEMMA ClonedType ==
    ASSUME types \subseteq Cloned', NEW has_def \in BOOLEAN, NEW tag \in Tags,
           NEW o \in Objects', NEW c \in Objects', Declared(has_def, tag, o, c)
    PROVE  types' \subseteq Cloned'
  <1>1. Clone(tag, o, c) \in Cloned'
    BY DEF Clone, Cloned
  <1> QED  BY <1>1 DEF Declared

LEMMA TypeStep ==
    ASSUME TypeOK, [Next]_vars
    PROVE  TypeOK'
  <1> USE TypeParts
  <1>1. ASSUME NEW tag \in Tags, NEW storage \in BOOLEAN, NEW has_def \in BOOLEAN,
               Mention(tag, storage, has_def)
        PROVE  TypeOK'
    <2> DEFINE o == forward_decl(tag, CurrScope(storage, has_def))
               c == Denoted(tag, ~storage /\ ~has_def)
    <2>1. o \in Objects \cup {next} /\ c \in Objects \cup {next}
      BY Meant
    <2>2. /\ scopes' = Entered(scopes, tag, o) /\ EnteredByC(tag, c)
          /\ next' = NextAfter({o, c}) /\ Declared(has_def, tag, o, c)
          /\ strayed' = (strayed \/ (protos # <<>> /\ c = next))
          /\ UNCHANGED <<complete, bodies, halted, ccomplete, cerrors>>
      BY <1>1 DEF Mention
    <2> HIDE DEF o, c
    <2>3. /\ next' \in Nat \ {0} /\ next' >= next /\ o \in Objects' /\ c \in Objects'
          /\ o = next \/ c = next => next' = next + 1
      BY <2>1, <2>2, Numbered
    <2>4. /\ scopes' \in Table' /\ Len(scopes') = Len(scopes)
          /\ cscopes' \in Table' /\ Len(cscopes') = Len(cscopes) /\ protos' \in Table'
      BY <2>1, <2>2, <2>3, EnteredType, EnteredByCType
    <2>5. types' \subseteq Cloned' /\ strayed' \in BOOLEAN
      BY <2>2, <2>3, Grown, ClonedType
    <2> QED  BY <2>2, <2>3, <2>4, <2>5, Grown, TypeIntro
  <1>2. ASSUME NEW tag \in Tags, Member(tag)  PROVE TypeOK'
    <2>1. UNCHANGED <<scopes, next, complete, types, halted, strayed,
                      cscopes, ccomplete, cerrors, protos>>
      BY <1>2 DEF Member
    <2>2. bodies' \in Seq(Frame')
      <3>1. Len(bodies) \in 1 .. Len(bodies) /\ bodies \in Seq(Frame')
        BY <1>2, <2>1, Grown DEF Member, InBody
      <3>2. PICK o, c : bodies' = [bodies EXCEPT ![Len(bodies)] = Checked(top, tag, o, c)]
        BY <1>2 DEF Member
      <3>3. Checked(top, tag, o, c) \in Frame'
        <4>1. top \in Frame'
          BY <3>1 DEF top
        <4> DEFINE errs == top.errs \/ (tag \notin Unions /\ o \notin complete)
                   cerrs == top.cerrs \cup (IF c \in ccomplete THEN {}
                                           ELSE IF tag \in Unions THEN {"union_member"} ELSE {"member"})
        <4>2. errs \in BOOLEAN /\ cerrs \in SUBSET Errors
          <5>1. top.cerrs \subseteq Errors  BY <4>1 DEF Frame
          <5> QED  BY <5>1 DEF Errors
        <4>3. Checked(top, tag, o, c) = [[top EXCEPT !.errs = errs] EXCEPT !.cerrs = cerrs]
          BY DEF Checked
        <4> HIDE DEF errs, cerrs
        <4>4. [top EXCEPT !.errs = errs] \in Frame'
          BY <4>1, <4>2 DEF Frame
        <4>5. [[top EXCEPT !.errs = errs] EXCEPT !.cerrs = cerrs] \in Frame'
          BY <4>2, <4>4 DEF Frame
        <4> QED  BY <4>3, <4>5
      <3> QED  BY <3>1, <3>2, <3>3
    <2> QED  BY <2>1, <2>2, Grown, TypeIntro
  <1>3. ASSUME NEW tag \in Tags, NEW storage \in BOOLEAN, NEW has_def \in BOOLEAN,
               BeginBody(tag, storage, has_def)
        PROVE  TypeOK'
    <2> DEFINE o == forward_decl(tag, CurrScope(storage, has_def))
               c == Denoted(tag, TRUE)
               frame == [tag |-> tag, o |-> o, c |-> c, has_def |-> has_def,
                         lists |-> Len(protos), errs |-> FALSE, cerrs |-> {}]
    <2>1. o \in Objects \cup {next} /\ c \in Objects \cup {next} /\ tag \in Structs
      BY <1>3, Meant DEF BeginBody
    <2>2. /\ scopes' = Entered(scopes, tag, o) /\ EnteredByC(tag, c)
          /\ next' = NextAfter({o, c}) /\ bodies' = Append(bodies, frame)
          /\ strayed' = (strayed \/ protos # <<>> \/ o # forward_decl(tag, TRUE))
          /\ UNCHANGED <<complete, types, halted, ccomplete, cerrors>>
      BY <1>3 DEF BeginBody
    <2> HIDE DEF o, c
    <2>3. /\ next' \in Nat \ {0} /\ next' >= next /\ o \in Objects' /\ c \in Objects'
          /\ o = next \/ c = next => next' = next + 1
      BY <2>1, <2>2, Numbered
    <2>4. /\ scopes' \in Table' /\ Len(scopes') = Len(scopes)
          /\ cscopes' \in Table' /\ Len(cscopes') = Len(cscopes) /\ protos' \in Table'
      BY <2>1, <2>2, <2>3, EnteredType, EnteredByCType
    <2>5. bodies' \in Seq(Frame')
      <3>1. frame \in Frame'
        <4>1. Len(protos) \in Nat
          BY TypeParts DEF Table
        <4> QED  BY <2>1, <2>3, <4>1 DEF Frame
      <3> QED  BY <2>2, <2>3, <3>1, Grown, AppendProperties
    <2>6. strayed' \in BOOLEAN
      BY <2>2
    <2> QED  BY <2>2, <2>3, <2>4, <2>5, <2>6, Grown, TypeIntro
  <1>4. ASSUME EndBody  PROVE TypeOK'
    <2>1. UNCHANGED <<next, strayed, cscopes, protos>> /\ bodies # <<>> /\ ~halted
      BY <1>4 DEF EndBody, InBody
    <2>2. Len(bodies) \in 1 .. Len(bodies) /\ top \in Frame
      BY <2>1 DEF top
    <2>3. /\ top.tag \in Structs /\ top.o \in Objects /\ top.c \in Objects /\ top.has_def \in BOOLEAN
          /\ top.cerrs \subseteq Errors
      BY <2>2 DEF Frame
    <2>4. Objects' = Objects /\ Table' = Table /\ Frame' = Frame /\ Cloned' = Cloned
      BY <2>1 DEF Objects, Table, Frame, Cloned
    <2>5. bodies' \in Seq(Frame)
      BY <1>4, <2>2, SubSeqProperties DEF EndBody
    <2>6. /\ complete' \subseteq Objects /\ halted' \in BOOLEAN
          /\ scopes' \in {scopes, insert(scopes, top.tag, top.o)}
      BY <1>4, <2>1, <2>3 DEF EndBody
    <2>7. scopes' \in Table /\ Len(scopes') = Len(scopes)
      BY <2>3, <2>6, InsertedType DEF Tags
    <2>8. ccomplete' \subseteq Objects
      BY <1>4, <2>3 DEF EndBody
    <2>9. cerrors' \subseteq Errors
      BY <1>4, <2>3 DEF EndBody, Errors
    <2>10. types' \subseteq Cloned
      <3>1. \/ types' = types
            \/ Declared(top.has_def, top.tag, top.o, top.c)
        BY <1>4 DEF EndBody
      <3> QED  BY <2>3, <2>4, <3>1, ClonedType DEF Tags
    <2> QED  BY <2>1, <2>4, <2>5, <2>6, <2>7, <2>8, <2>9, <2>10, TypeIntro
  <1>5. ASSUME NEW tag \in Tags, NEW storage \in BOOLEAN, NEW has_def \in BOOLEAN,
               EnumBody(tag, storage, has_def)
        PROVE  TypeOK'
    <2> DEFINE c == Denoted(tag, TRUE)
    <2>1. c \in Objects \cup {next}
      BY Meant
    <2>2. /\ scopes' = insert(scopes, tag, next) /\ EnteredByC(tag, c)
          /\ next' = next + 1 /\ Declared(has_def, tag, next, c)
          /\ complete' = complete \cup {next} /\ ccomplete' = ccomplete \cup {c}
          /\ cerrors' \in {cerrors, cerrors \cup {"enum_body"}}
          /\ strayed' = (strayed \/ protos # <<>>)
          /\ UNCHANGED <<bodies, halted>>
      BY <1>5 DEF EnumBody
    <2> HIDE DEF c
    <2>3. /\ next' \in Nat \ {0} /\ next' >= next /\ next \in Objects' /\ c \in Objects'
      BY <2>1, <2>2 DEF Objects
    <2>4. /\ scopes' \in Table' /\ Len(scopes') = Len(scopes)
          /\ cscopes' \in Table' /\ Len(cscopes') = Len(cscopes) /\ protos' \in Table'
      <3>1. scopes \in Table'
        BY <2>3, Grown
      <3>2. scopes' \in Table' /\ Len(scopes') = Len(scopes)
        BY <2>2, <2>3, <3>1, InsertedType
      <3>3. cscopes' \in Table' /\ Len(cscopes') = Len(cscopes) /\ protos' \in Table'
        BY <2>1, <2>2, <2>3, EnteredByCType
      <3> QED  BY <3>2, <3>3
    <2>5. types' \subseteq Cloned'
      BY <2>2, <2>3, Grown, ClonedType
    <2>6. /\ complete' \subseteq Objects' /\ ccomplete' \subseteq Objects' /\ cerrors' \subseteq Errors
          /\ strayed' \in BOOLEAN
      BY <2>2, <2>3, Grown DEF Errors
    <2> QED  BY <2>2, <2>3, <2>4, <2>5, <2>6, Grown, TypeIntro
  <1>6. ASSUME NEW last \in [Tags -> Objects \cup {None}], protos' \in Table,
               scopes' = Append(scopes, NoTags), cscopes' = Append(cscopes, last),
               UNCHANGED <<next, complete, bodies, types, halted, strayed, ccomplete, cerrors>>
        PROVE  TypeOK'
    <2>1. NoTags \in [Tags -> Objects \cup {None}]
      BY DEF NoTags
    <2>2. /\ scopes' \in Table /\ cscopes' \in Table
          /\ Len(scopes') = Len(scopes) + 1 /\ Len(cscopes') = Len(cscopes) + 1
      BY <1>6, <2>1, AppendProperties DEF Table
    <2>3. Table' = Table
      BY <1>6 DEF Table, Objects
    <2>4. Len(scopes') > 0 /\ Len(cscopes') = Len(scopes')
      BY <2>2 DEF Table
    <2> QED  BY <1>6, <2>2, <2>3, <2>4, Grown, TypeIntro
  <1>7. CASE EnterBlock
    <2>1. /\ scopes' = Append(scopes, NoTags) /\ cscopes' = Append(cscopes, NoTags)
          /\ UNCHANGED <<next, complete, bodies, types, halted, strayed, ccomplete, cerrors, protos>>
      BY <1>7 DEF EnterBlock
    <2>2. NoTags \in [Tags -> Objects \cup {None}]
      BY DEF NoTags
    <2> QED  BY <1>6, <2>1, <2>2
  <1>8. CASE EnterFunction
    <2>1. /\ scopes' = Append(scopes, NoTags) /\ cscopes' = Append(cscopes, protos[1])
          /\ protos' = <<>> /\ Len(protos) = 1
          /\ UNCHANGED <<next, complete, bodies, types, halted, strayed, ccomplete, cerrors>>
      BY <1>8 DEF EnterFunction
    <2>2. protos[1] \in [Tags -> Objects \cup {None}]
      <3>1. protos \in Seq([Tags -> Objects \cup {None}]) /\ 1 \in 1 .. Len(protos)
        BY <2>1, TypeParts DEF Table
      <3> QED  BY <3>1
    <2>3. protos' \in Table
      <3>1. <<  >> \in Seq([Tags -> Objects \cup {None}])
        BY EmptySeq
      <3> QED  BY <2>1, <3>1 DEF Table
    <2> QED  BY <1>6, <2>1, <2>2, <2>3
  <1>9. ASSUME protos' \in Table,
               \/ /\ scopes' = scopes
                  /\ cscopes' = cscopes
               \/ /\ scopes' = SubSeq(scopes, 1, Len(scopes) - 1) /\ Len(scopes) > 1
                  /\ cscopes' = SubSeq(cscopes, 1, Len(cscopes) - 1),
               UNCHANGED <<next, complete, bodies, types, halted, strayed, ccomplete, cerrors>>
        PROVE  TypeOK'
    <2>1. \A sc \in Table : Len(sc) > 1 => /\ SubSeq(sc, 1, Len(sc) - 1) \in Table
                                           /\ Len(SubSeq(sc, 1, Len(sc) - 1)) = Len(sc) - 1
      BY SubSeqProperties DEF Table
    <2>2. Table' = Table
      BY <1>9 DEF Table, Objects
    <2>3. /\ scopes' \in Table /\ cscopes' \in Table
          /\ Len(scopes') > 0 /\ Len(cscopes') = Len(scopes')
      <3>1. CASE scopes' = scopes /\ cscopes' = cscopes
        BY <3>1
      <3>2. CASE /\ scopes' = SubSeq(scopes, 1, Len(scopes) - 1) /\ Len(scopes) > 1
                 /\ cscopes' = SubSeq(cscopes, 1, Len(cscopes) - 1)
        <4>1. /\ scopes' \in Table /\ Len(scopes') = Len(scopes) - 1
              /\ cscopes' \in Table /\ Len(cscopes') = Len(cscopes) - 1
          BY <2>1, <3>2
        <4> QED  BY <3>2, <4>1 DEF Table
      <3> QED  BY <1>9, <3>1, <3>2
    <2> QED  BY <1>9, <2>2, <2>3, Grown, TypeIntro
  <1>10. CASE LeaveBlock
    BY <1>9, <1>10 DEF LeaveBlock
  <1>11. CASE BeginParameters \/ EndParameters
    <2>1. protos' \in Table
      <3>1. CASE BeginParameters
        <4>1. NoTags \in [Tags -> Objects \cup {None}] /\ protos' = Append(protos, NoTags)
          BY <3>1 DEF NoTags, BeginParameters
        <4> QED  BY <4>1, AppendProperties DEF Table
      <3>2. CASE EndParameters
        <4>1. protos' = SubSeq(protos, 1, Len(protos) - 1) /\ Len(protos) \in Nat /\ protos # <<>>
          BY <3>2 DEF EndParameters, Table
        <4>2. Len(protos) > 0
          BY <4>1, EmptySeq DEF Table
        <4> QED  BY <4>1, <4>2, SubSeqProperties DEF Table
      <3> QED  BY <1>11, <3>1, <3>2
    <2>2. UNCHANGED <<scopes, next, complete, bodies, types, halted, strayed,
                      cscopes, ccomplete, cerrors>>
      BY <1>11 DEF BeginParameters, EndParameters
    <2> QED  BY <1>9, <2>1, <2>2
  <1>12. CASE UNCHANGED vars
    BY <1>12 DEF vars, TypeOK, Objects
  <1> QED
    BY <1>1, <1>2, <1>3, <1>4, <1>5, <1>7, <1>8, <1>10, <1>11, <1>12 DEF Next, Specifier
-----------------------------------------------------------------------------
LEMMA EnteredRows ==
    ASSUME NEW sc \in Table, Len(sc) > 0, NEW tag \in Tags, NEW o
    PROVE  /\ DOMAIN Entered(sc, tag, o) = DOMAIN sc
           /\ \A i \in DOMAIN sc, t \in Tags :
                 Entered(sc, tag, o)[i][t] =
                     IF o = next /\ i = Len(sc) /\ t = tag THEN o ELSE sc[i][t]
  <1>1. CASE o = next
    <2>1. DOMAIN insert(sc, tag, o) = DOMAIN sc
      BY DEF insert
    <2> QED  BY <1>1, <2>1, Inserted DEF Entered
  <1>2. CASE o # next
    BY <1>2 DEF Entered
  <1> QED  BY <1>1, <1>2

\* The entries of the tables, and that next is none of them.
LEMMA Rows ==
    ASSUME TypeOK
    PROVE  /\ DOMAIN scopes = 1 .. Len(scopes) /\ DOMAIN cscopes = DOMAIN scopes
           /\ Len(scopes) \in DOMAIN scopes /\ Len(cscopes) = Len(scopes)
           /\ \A i \in DOMAIN scopes, t \in Tags : /\ scopes[i][t] \in Objects \cup {None}
                                                   /\ cscopes[i][t] \in Objects \cup {None}
           /\ next \notin Objects /\ None \notin Objects /\ next # None
  <1>1. scopes \in Table /\ cscopes \in Table /\ Len(scopes) > 0 /\ Len(cscopes) = Len(scopes)
    BY TypeParts
  <1>2. /\ DOMAIN scopes = 1 .. Len(scopes) /\ DOMAIN cscopes = DOMAIN scopes
        /\ Len(scopes) \in DOMAIN scopes
    BY <1>1 DEF Table
  <1>3. \A i \in DOMAIN scopes, t \in Tags : /\ scopes[i][t] \in Objects \cup {None}
                                             /\ cscopes[i][t] \in Objects \cup {None}
    BY <1>1, <1>2 DEF Table
  <1>4. next \notin Objects /\ None \notin Objects /\ next # None
    BY TypeParts DEF Objects, None
  <1> QED  BY <1>1, <1>2, <1>3, <1>4

LEMMA Frames ==
    ASSUME TypeOK
    PROVE  \A k \in DOMAIN bodies :
              /\ bodies[k] \in Frame /\ bodies[k].tag \in Structs /\ bodies[k].tag \in Tags
              /\ bodies[k].o \in Objects /\ bodies[k].o # None /\ bodies[k].c \in Objects
  <1>1. \A k \in DOMAIN bodies : bodies[k] \in Frame
    BY TypeParts
  <1>2. \A f \in Frame : f.tag \in Structs /\ f.o \in Objects /\ f.c \in Objects
    BY DEF Frame
  <1>3. None \notin Objects
    BY Rows
  <1> QED  BY <1>1, <1>2, <1>3 DEF Tags

\* A specifier's object is that of a scope, or of no scope if it is new.
LEMMA MeantBy ==
    ASSUME TypeOK, NEW tag \in Tags, NEW own \in BOOLEAN
    PROVE  /\ forward_decl(tag, own) = next => scopes[Len(scopes)][tag] = None
           /\ forward_decl(tag, own) # next =>
                 \E i \in DOMAIN scopes : /\ scopes[i][tag] = forward_decl(tag, own)
                                          /\ scopes[i][tag] # None
                                          /\ own => i = Len(scopes)
           /\ Outside(tag, own) = next => cscopes[Len(scopes)][tag] = None
           /\ Outside(tag, own) # next =>
                 \E i \in DOMAIN scopes : /\ cscopes[i][tag] = Outside(tag, own)
                                          /\ cscopes[i][tag] # None
                                          /\ own => i = Len(scopes)
  <1>1. scopes \in Table /\ cscopes \in Table
    BY TypeParts
  <1>2. CASE own
    BY <1>2, Rows DEF forward_decl, Outside, find_in_scope
  <1>3. CASE ~own
    <2>1. /\ forward_decl(tag, own) = IF find(scopes, tag) = None THEN next ELSE find(scopes, tag)
          /\ Outside(tag, own) = IF find(cscopes, tag) = None THEN next ELSE find(cscopes, tag)
      BY <1>3 DEF forward_decl, Outside
    <2>2. \/ find(scopes, tag) = None /\ \A i \in DOMAIN scopes : scopes[i][tag] = None
          \/ \E i \in DOMAIN scopes : scopes[i][tag] # None /\ find(scopes, tag) = scopes[i][tag]
      BY <1>1, Found
    <2>3. \/ find(cscopes, tag) = None /\ \A i \in DOMAIN scopes : cscopes[i][tag] = None
          \/ \E i \in DOMAIN scopes : cscopes[i][tag] # None /\ find(cscopes, tag) = cscopes[i][tag]
      BY <1>1, Found, Rows
    <2>4. \A i \in DOMAIN scopes : scopes[i][tag] # next /\ cscopes[i][tag] # next
      BY Rows
    <2>5. /\ forward_decl(tag, own) = next => scopes[Len(scopes)][tag] = None
          /\ forward_decl(tag, own) # next =>
                \E i \in DOMAIN scopes : /\ scopes[i][tag] = forward_decl(tag, own)
                                         /\ scopes[i][tag] # None
      BY <2>1, <2>2, <2>4, Rows
    <2>6. /\ Outside(tag, own) = next => cscopes[Len(scopes)][tag] = None
          /\ Outside(tag, own) # next =>
                \E i \in DOMAIN scopes : /\ cscopes[i][tag] = Outside(tag, own)
                                         /\ cscopes[i][tag] # None
      BY <2>1, <2>3, <2>4, Rows
    <2> QED  BY <1>3, <2>5, <2>6
  <1> QED  BY <1>2, <1>3

\* Both walks know a tag in the same scopes, a struct's by the same object.
LEMMA KnownAlike ==
    ASSUME IInv, Live, NEW tag \in Tags
    PROVE  /\ \A i \in DOMAIN scopes : scopes[i][tag] = None <=> cscopes[i][tag] = None
           /\ tag \in Structs => \A i \in DOMAIN scopes : scopes[i][tag] = cscopes[i][tag]
           /\ tag \in Enums => \A i \in DOMAIN scopes :
                                   scopes[i][tag] \in complete <=> cscopes[i][tag] \in ccomplete
  <1>1. tag \in Structs => \A i \in DOMAIN scopes : scopes[i][tag] = cscopes[i][tag]
    BY DEF IInv, Live, EntriesAreC
  <1>2. tag \in Enums => \A i \in DOMAIN scopes :
            /\ scopes[i][tag] = None <=> cscopes[i][tag] = None
            /\ scopes[i][tag] \in complete <=> cscopes[i][tag] \in ccomplete
    BY DEF IInv, Live, EnumTagsAreAsComplete
  <1> QED  BY <1>1, <1>2 DEF Tags

LEMMA FoundAsC ==
    ASSUME IInv, Live, NEW tag \in Tags
    PROVE  \/ find(scopes, tag) = None /\ find(cscopes, tag) = None
           \/ \E i \in DOMAIN scopes : /\ scopes[i][tag] # None /\ cscopes[i][tag] # None
                                       /\ find(scopes, tag) = scopes[i][tag]
                                       /\ find(cscopes, tag) = cscopes[i][tag]
  <1>1. scopes \in Table /\ cscopes \in Table /\ Len(scopes) = Len(cscopes)
    BY TypeParts DEF IInv
  <1>2. \A i \in DOMAIN scopes : scopes[i][tag] = None <=> cscopes[i][tag] = None
    BY KnownAlike
  <1> QED  BY <1>1, <1>2, FoundAlike

LEMMA MeantAsC ==
    ASSUME IInv, Live, NEW tag \in Tags, NEW own \in BOOLEAN
    PROVE  /\ forward_decl(tag, own) = next <=> Outside(tag, own) = next
           /\ tag \in Structs => forward_decl(tag, own) = Outside(tag, own)
  <1>1. CASE own
    <2>1. /\ find_in_scope(scopes, tag) = scopes[Len(scopes)][tag]
          /\ find_in_scope(cscopes, tag) = cscopes[Len(scopes)][tag]
          /\ scopes[Len(scopes)][tag] # next /\ cscopes[Len(scopes)][tag] # next
      BY Rows DEF find_in_scope, IInv
    <2>2. /\ scopes[Len(scopes)][tag] = None <=> cscopes[Len(scopes)][tag] = None
          /\ tag \in Structs => scopes[Len(scopes)][tag] = cscopes[Len(scopes)][tag]
      BY KnownAlike, Rows DEF IInv
    <2> QED  BY <1>1, <2>1, <2>2 DEF forward_decl, Outside
  <1>2. CASE ~own
    <2>1. \A i \in DOMAIN scopes : scopes[i][tag] # next /\ cscopes[i][tag] # next
      BY Rows DEF IInv
    <2>2. /\ find(scopes, tag) = None <=> find(cscopes, tag) = None
          /\ tag \in Structs => find(scopes, tag) = find(cscopes, tag)
          /\ find(scopes, tag) # next \/ find(scopes, tag) = None
          /\ find(cscopes, tag) # next \/ find(cscopes, tag) = None
      BY <2>1, FoundAsC, KnownAlike
    <2> QED  BY <1>2, <2>2 DEF forward_decl, Outside
  <1> QED  BY <1>1, <1>2

\* In a list, and outside, C's scopes without those of lists are enough.
LEMMA DenotedOutside ==
    ASSUME IInv, Live, NEW tag \in Tags, NEW own \in BOOLEAN, own => protos = <<>>
    PROVE  Denoted(tag, own) = Outside(tag, own)
  <1>1. cscopes \in Table /\ protos \in Table /\ \A i \in DOMAIN protos : protos[i][tag] = None
    BY TypeParts DEF IInv, ListsDeclareNothing
  <1>2. find(cscopes \o protos, tag) = find(cscopes, tag)
    BY <1>1, FoundOutside
  <1>3. CASE own
    <2>1. cscopes \o protos = cscopes
      BY <1>1, <1>3 DEF Table
    <2> QED  BY <1>3, <2>1 DEF Denoted, Outside
  <1>4. CASE ~own
    BY <1>2, <1>4 DEF Denoted, Outside
  <1> QED  BY <1>3, <1>4

\* What a list does not declare goes to the scopes outside.
LEMMA EnteredOutside ==
    ASSUME NEW tag, NEW c, EnteredByC(tag, c), protos # <<>> => c # next
    PROVE  cscopes' = Entered(cscopes, tag, c) /\ protos' = protos
  BY DEF EnteredByC, Entered
-----------------------------------------------------------------------------
\* Structs are found and cloned by numbers of objects.
LEMMA StructNumbers ==
    ASSUME IInv, Live
    PROVE  /\ \A o : IsStruct(o) => o \in Objects /\ o # next
           /\ \A t \in types : t.tag \in Structs => t.of = t.c /\ t.of \in Objects
           /\ \A o \in Objects : IsStruct(o) => ~IsEnum(o) /\ (o \in complete <=> o \in ccomplete)
           /\ ~IsEnum(next)
  <1>1. \A t \in types : t.tag \in Structs => t.of = t.c /\ t.of \in Objects
    BY TypeParts DEF IInv, Live, ClonesNameTheirStruct, Cloned
  <1>2. \A i \in DOMAIN scopes, t \in Tags : /\ scopes[i][t] \in Objects \cup {None}
                                             /\ cscopes[i][t] \in Objects \cup {None}
    BY Rows DEF IInv
  <1>3. next \notin Objects /\ next # None
    BY Rows DEF IInv
  <1>4. \A o : IsStruct(o) => o \in Objects /\ o # next
    BY <1>1, <1>2, <1>3 DEF IsStruct, Tags
  <1>5. ~IsEnum(next)
    BY <1>2, <1>3 DEF IsEnum, Tags
  <1>6. \A o \in Objects : IsStruct(o) => ~IsEnum(o) /\ (o \in complete <=> o \in ccomplete)
    BY DEF IInv, Live, StructsApart, StructsCompleteAsC
  <1> QED  BY <1>1, <1>4, <1>5, <1>6

\* What a specifier without a body, or the beginning of one, does to the
\* tables when it means what C means.
Enters(tag, o, c) ==
    /\ o \in Objects \cup {next} /\ c \in Objects \cup {next}
    /\ o = next <=> c = next
    /\ tag \in Structs => o = c
    /\ o = next => scopes[Len(scopes)][tag] = None /\ cscopes[Len(scopes)][tag] = None
    /\ o # next => \E i \in DOMAIN scopes : scopes[i][tag] = o
    /\ scopes' = Entered(scopes, tag, o) /\ cscopes' = Entered(cscopes, tag, c)
    /\ next' = NextAfter({o, c}) /\ protos' = protos
    /\ types' = types \/ \E has_def \in BOOLEAN : Declared(has_def, tag, o, c)
    /\ UNCHANGED <<complete, ccomplete, halted, cerrors>>

LEMMA EnteredViews ==
    ASSUME IInv, NEW tag \in Tags, NEW o, NEW c,
           scopes' = Entered(scopes, tag, o), cscopes' = Entered(cscopes, tag, c)
    PROVE  /\ DOMAIN scopes' = DOMAIN scopes /\ DOMAIN cscopes' = DOMAIN scopes
           /\ \A i \in DOMAIN scopes, t \in Tags :
                 /\ scopes'[i][t] = IF o = next /\ i = Len(scopes) /\ t = tag THEN next ELSE scopes[i][t]
                 /\ cscopes'[i][t] = IF c = next /\ i = Len(scopes) /\ t = tag THEN next ELSE cscopes[i][t]
  <1>1. /\ scopes \in Table /\ cscopes \in Table /\ Len(scopes) > 0
        /\ Len(cscopes) = Len(scopes) /\ DOMAIN cscopes = DOMAIN scopes
    BY TypeParts, Rows DEF IInv
  <1> QED  BY <1>1, EnteredRows

\* C's table stays without repetition.
LEMMA EnteredOnce ==
    ASSUME IInv, Live, NEW tag \in Tags, NEW c, cscopes' = Entered(cscopes, tag, c)
    PROVE  ObjectsAreEnteredOnce'
  <1>1. cscopes \in Table /\ Len(cscopes) > 0 /\ DOMAIN cscopes = DOMAIN scopes
    BY TypeParts, Rows DEF IInv
  <1>2. /\ DOMAIN cscopes' = DOMAIN cscopes
        /\ \A i \in DOMAIN cscopes, t \in Tags :
              cscopes'[i][t] = IF c = next /\ i = Len(cscopes) /\ t = tag THEN next ELSE cscopes[i][t]
    BY <1>1, EnteredRows
  <1>3. \A i \in DOMAIN cscopes, t \in Tags : cscopes[i][t] # next
    BY <1>1, Rows DEF IInv
  <1>4. \A i, j \in DOMAIN cscopes, s, t \in Tags :
           cscopes[i][s] # None /\ cscopes[i][s] = cscopes[j][t] => i = j /\ s = t
    BY DEF IInv, ObjectsAreEnteredOnce
  <1> QED  BY <1>2, <1>3, <1>4 DEF ObjectsAreEnteredOnce

LEMMA EntersKeeps ==
    ASSUME IInv, Live, NEW tag \in Tags, NEW o, NEW c, Enters(tag, o, c)
    PROVE  /\ EntriesAreC' /\ EnumTagsAreAsComplete' /\ ListsDeclareNothing'
           /\ ObjectsAreEnteredOnce' /\ StructsApart' /\ StructsCompleteAsC' /\ ClonesNameTheirStruct'
           /\ \A x : IsStruct(x)' => IsStruct(x) \/ (x = next /\ tag \in Structs)
  <1>1. /\ DOMAIN scopes' = DOMAIN scopes
        /\ \A i \in DOMAIN scopes, t \in Tags :
              /\ scopes'[i][t] = IF o = next /\ i = Len(scopes) /\ t = tag THEN next ELSE scopes[i][t]
              /\ cscopes'[i][t] = IF c = next /\ i = Len(scopes) /\ t = tag THEN next ELSE cscopes[i][t]
    BY EnteredViews DEF Enters
  <1>2. o = next <=> c = next
    BY DEF Enters
  <1>3. complete' = complete /\ ccomplete' = ccomplete
    BY DEF Enters
  <1>4. next \notin complete /\ next \notin ccomplete
    BY TypeParts, Rows DEF IInv
  <1>5. Structs \subseteq Tags /\ Enums \subseteq Tags /\ Structs \cap Enums = {}
    BY TagScopesAssumption DEF Tags
  <1>6. EntriesAreC'
    BY <1>1, <1>2, <1>5 DEF EntriesAreC, IInv, Live
  <1>7. EnumTagsAreAsComplete'
    <2>1. next # None
      BY Rows DEF IInv
    <2> QED  BY <1>1, <1>2, <1>3, <1>4, <1>5, <2>1 DEF EnumTagsAreAsComplete, IInv, Live
  <1>8. \A t \in types' \ types : t.tag = tag /\ (tag \in Structs => t.of = o /\ t.c = c)
    BY <1>5 DEF Enters, Declared, Clone
  <1>9. tag \in Structs => o = c /\ o # None
    BY TypeParts, Rows DEF Enters, IInv
  <1>10. ClonesNameTheirStruct'
    BY <1>8, <1>9 DEF ClonesNameTheirStruct, IInv, Live
  <1>11. tag \in Structs /\ o # next => IsStruct(o)
    BY <1>9 DEF Enters, IsStruct
  <1>12. \A x : IsStruct(x)' => IsStruct(x) \/ (x = next /\ tag \in Structs)
    <2> SUFFICES ASSUME NEW x, IsStruct(x)'
                 PROVE  IsStruct(x) \/ (x = next /\ tag \in Structs)
      OBVIOUS
    <2>1. x # None
      BY DEF IsStruct
    <2>2. CASE \E i \in DOMAIN scopes', t \in Structs : scopes'[i][t] = x
      BY <1>1, <1>5, <2>1, <2>2 DEF IsStruct
    <2>3. CASE \E t \in types' : t.tag \in Structs /\ t.of = x
      BY <1>8, <1>11, <2>1, <2>3 DEF IsStruct
    <2> QED  BY <2>2, <2>3 DEF IsStruct
  <1>13. \A x : IsEnum(x)' => IsEnum(x) \/ (x = next /\ tag \in Enums)
    BY <1>1, <1>2, <1>5 DEF IsEnum
  <1>14. StructsApart'
    BY <1>5, <1>12, <1>13, StructNumbers DEF StructsApart
  <1>15. StructsCompleteAsC'
    BY <1>3, <1>4, <1>12, StructNumbers DEF StructsCompleteAsC
  <1>16. ListsDeclareNothing' /\ ObjectsAreEnteredOnce'
    <2>1. protos' = protos
      BY DEF Enters
    <2>2. ListsDeclareNothing'
      BY <2>1 DEF ListsDeclareNothing, IInv
    <2> QED  BY <2>2, EnteredOnce DEF Enters
  <1> QED  BY <1>6, <1>7, <1>10, <1>12, <1>14, <1>15, <1>16
-----------------------------------------------------------------------------
\* What IInv says beside the types.
Resolved == /\ EntriesAreC /\ EnumTagsAreAsComplete /\ ListsDeclareNothing
            /\ BodiesResolveAsC /\ ObjectsAreEnteredOnce /\ StructsApart
            /\ StructsCompleteAsC /\ ClonesNameTheirStruct /\ HaltsAreErrors

\* Once the walk has strayed or halted, only its end is described.
LEMMA Strayed ==
    ASSUME ~Live', HaltsAreErrors'
    PROVE  Resolved'
  BY DEF Resolved, Live, EntriesAreC, EnumTagsAreAsComplete, BodiesResolveAsC,
         ListsDeclareNothing, ObjectsAreEnteredOnce,
         StructsApart, StructsCompleteAsC, ClonesNameTheirStruct

\* What a mention means, to the walk and in C, as long as it does not stray.
LEMMA Mentioned ==
    ASSUME IInv, Live', NEW tag \in Tags, NEW storage \in BOOLEAN, NEW has_def \in BOOLEAN,
           Mention(tag, storage, has_def)
    PROVE  LET own == CurrScope(storage, has_def)
               o == forward_decl(tag, own)
               c == Outside(tag, own)
           IN  /\ own \in BOOLEAN /\ Live /\ Enters(tag, o, c)
               /\ Declared(has_def, tag, o, c)
               /\ bodies' = bodies
  <1> DEFINE own == CurrScope(storage, has_def)
             o == forward_decl(tag, own)
             c == Outside(tag, own)
  <1>1. /\ own \in BOOLEAN /\ TypeOK /\ ~halted /\ (own => protos = <<>>)
        /\ scopes' = Entered(scopes, tag, o) /\ EnteredByC(tag, Denoted(tag, own))
        /\ next' = NextAfter({o, Denoted(tag, own)})
        /\ Declared(has_def, tag, o, Denoted(tag, own))
        /\ strayed' = (strayed \/ (protos # <<>> /\ Denoted(tag, own) = next))
        /\ UNCHANGED <<complete, bodies, halted, ccomplete, cerrors>>
    <2>1. own = (~storage /\ ~has_def)
      BY DEF CurrScope
    <2>2. own \in BOOLEAN /\ TypeOK /\ ~halted
      BY <2>1 DEF IInv, Mention, Allowed
    <2>3. own => protos = <<>>
      BY <2>1 DEF Mention, Allowed
    <2> QED  BY <2>1, <2>2, <2>3 DEF Mention
  <1> HIDE DEF own
  <1>2. Live
    BY <1>1 DEF Live
  <1>3. Denoted(tag, own) = c
    BY <1>1, <1>2, DenotedOutside
  <1>4. cscopes' = Entered(cscopes, tag, c) /\ protos' = protos
    <2>1. protos # <<>> => c # next
      BY <1>1, <1>3 DEF Live
    <2> HIDE DEF c
    <2> QED  BY <1>1, <1>3, <2>1, EnteredOutside
  <1>5. /\ o \in Objects \cup {next} /\ c \in Objects \cup {next}
        /\ o = next => scopes[Len(scopes)][tag] = None
        /\ c = next => cscopes[Len(scopes)][tag] = None
        /\ o # next => \E i \in DOMAIN scopes : scopes[i][tag] = o
    BY <1>1, Meant, MeantBy
  <1>6. (o = next <=> c = next) /\ (tag \in Structs => o = c)
    BY <1>1, <1>2, MeantAsC
  <1> HIDE DEF o, c
  <1>7. Enters(tag, o, c) /\ Declared(has_def, tag, o, c)
    BY <1>1, <1>3, <1>4, <1>5, <1>6 DEF Enters
  <1> QED  BY <1>1, <1>2, <1>7 DEF own, o, c

LEMMA MentionStep ==
    ASSUME IInv, NEW tag \in Tags, NEW storage \in BOOLEAN, NEW has_def \in BOOLEAN,
           Mention(tag, storage, has_def)
    PROVE  Resolved'
  <1> DEFINE own == CurrScope(storage, has_def)
             o == forward_decl(tag, own)
             c == Outside(tag, own)
  <1>1. HaltsAreErrors'
    <2>1. UNCHANGED <<halted, cerrors>> /\ (strayed => strayed')
      BY DEF Mention
    <2> QED  BY <2>1 DEF HaltsAreErrors, IInv
  <1>2. CASE Live'
    <2>1. own \in BOOLEAN /\ Live /\ Enters(tag, o, c) /\ bodies' = bodies
      BY <1>2, Mentioned
    <2> HIDE DEF own, o, c
    <2>2. BodiesResolveAsC'
      <3>1. /\ DOMAIN scopes' = DOMAIN scopes
            /\ \A i \in DOMAIN scopes, t \in Tags :
                  scopes'[i][t] = IF o = next /\ i = Len(scopes) /\ t = tag THEN next ELSE scopes[i][t]
        BY <2>1, EnteredViews DEF Enters
      <3>2. Len(scopes') = Len(scopes)
        BY <2>1, Numbered, EnteredType, TypeParts DEF IInv, Enters
      <3>3. \A k \in DOMAIN bodies : bodies[k].tag \in Tags /\ bodies[k].o # None
        BY Frames DEF IInv
      <3>4. Len(scopes) \in DOMAIN scopes
        BY Rows DEF IInv
      <3>5. o = next => scopes[Len(scopes)][tag] = None
        BY <2>1 DEF Enters
      <3> QED
        BY <2>1, <3>1, <3>2, <3>3, <3>4, <3>5 DEF BodiesResolveAsC, IInv
    <2> QED  BY <1>1, <2>1, <2>2, EntersKeeps DEF Resolved
  <1> QED  BY <1>1, <1>2, Strayed

LEMMA BodyBegun ==
    ASSUME IInv, Live', NEW tag \in Tags, NEW storage \in BOOLEAN, NEW has_def \in BOOLEAN,
           BeginBody(tag, storage, has_def)
    PROVE  LET o == forward_decl(tag, TRUE)
           IN  /\ Live /\ Enters(tag, o, o) /\ (o # next => scopes[Len(scopes)][tag] = o)
               /\ bodies' = Append(bodies, [tag |-> tag, o |-> o, c |-> o, has_def |-> has_def,
                                            lists |-> Len(protos), errs |-> FALSE, cerrs |-> {}])
               /\ UNCHANGED types
  <1> DEFINE o == forward_decl(tag, TRUE)
             frame(x, c) == [tag |-> tag, o |-> x, c |-> c, has_def |-> has_def,
                             lists |-> Len(protos), errs |-> FALSE, cerrs |-> {}]
             x == forward_decl(tag, CurrScope(storage, has_def))
  <1>1. /\ TypeOK /\ ~halted /\ tag \in Structs
        /\ scopes' = Entered(scopes, tag, x) /\ EnteredByC(tag, Denoted(tag, TRUE))
        /\ next' = NextAfter({x, Denoted(tag, TRUE)})
        /\ bodies' = Append(bodies, frame(x, Denoted(tag, TRUE)))
        /\ strayed' = (strayed \/ protos # <<>> \/ x # o)
        /\ UNCHANGED <<complete, types, halted, ccomplete, cerrors>>
    BY DEF BeginBody, Allowed, IInv
  <1>2. Live /\ protos = <<>> /\ x = o
    <2> HIDE DEF x, o
    <2> QED  BY <1>1 DEF Live
  <1>3. Denoted(tag, TRUE) = Outside(tag, TRUE) /\ Outside(tag, TRUE) = o
    BY <1>1, <1>2, DenotedOutside, MeantAsC
  <1>4. /\ o \in Objects \cup {next}
        /\ o = next => scopes[Len(scopes)][tag] = None /\ cscopes[Len(scopes)][tag] = None
        /\ o # next => scopes[Len(scopes)][tag] = o
    BY <1>1, <1>3, Meant, MeantBy
  <1> HIDE DEF o, x, frame
  <1>5. cscopes' = Entered(cscopes, tag, o) /\ protos' = protos
    BY <1>1, <1>2, <1>3, EnteredOutside
  <1>6. \E i \in DOMAIN scopes : o # next => scopes[i][tag] = o
    BY <1>1, <1>4, Rows
  <1>7. Enters(tag, o, o)
    BY <1>1, <1>2, <1>3, <1>4, <1>5, <1>6 DEF Enters
  <1>8. bodies' = Append(bodies, frame(o, o)) /\ types' = types
    BY <1>1, <1>2, <1>3
  <1> QED  BY <1>2, <1>4, <1>7, <1>8 DEF o, frame

LEMMA BeginBodyStep ==
    ASSUME IInv, NEW tag \in Tags, NEW storage \in BOOLEAN, NEW has_def \in BOOLEAN,
           BeginBody(tag, storage, has_def)
    PROVE  Resolved'
  <1> DEFINE o == forward_decl(tag, TRUE)
             frame == [tag |-> tag, o |-> o, c |-> o, has_def |-> has_def,
                       lists |-> Len(protos), errs |-> FALSE, cerrs |-> {}]
  <1>1. HaltsAreErrors'
    <2>1. UNCHANGED <<halted, cerrors>>
      BY DEF BeginBody
    <2>2. strayed => strayed'
      BY Zenon DEF BeginBody
    <2> QED  BY <2>1, <2>2 DEF HaltsAreErrors, IInv
  <1>2. CASE Live'
    <2>1. /\ Live /\ Enters(tag, o, o) /\ (o # next => scopes[Len(scopes)][tag] = o)
          /\ bodies' = Append(bodies, frame)
      BY <1>2, BodyBegun
    <2> HIDE DEF o
    <2>2. BodiesResolveAsC'
      <3>1. /\ DOMAIN scopes' = DOMAIN scopes
            /\ \A i \in DOMAIN scopes, t \in Tags :
                  scopes'[i][t] = IF o = next /\ i = Len(scopes) /\ t = tag THEN next ELSE scopes[i][t]
        BY <2>1, EnteredViews DEF Enters
      <3>2. Len(scopes') = Len(scopes) /\ Len(scopes) \in DOMAIN scopes
        <4>1. Len(scopes') = Len(scopes)
          BY <2>1, Numbered, EnteredType, TypeParts DEF IInv, Enters
        <4> QED  BY <4>1, Rows DEF IInv
      <3>3. scopes'[Len(scopes)][tag] = o
        BY <2>1, <3>1, <3>2
      <3>4. \A k \in DOMAIN bodies : /\ bodies[k].tag \in Tags /\ bodies[k].o # None
                                     /\ scopes[Len(scopes)][bodies[k].tag] = bodies[k].o
        BY <2>1, Frames DEF IInv, BodiesResolveAsC
      <3>5. o = next => scopes[Len(scopes)][tag] = None
        BY <2>1 DEF Enters
      <3>6. \A k \in DOMAIN bodies : scopes'[Len(scopes)][bodies[k].tag] = bodies[k].o
        BY <3>1, <3>2, <3>4, <3>5
      <3>7. \A k \in DOMAIN bodies' : bodies'[k] = frame \/ (k \in DOMAIN bodies /\ bodies'[k] = bodies[k])
        BY <2>1, TypeParts, AppendProperties DEF IInv
      <3>8. frame.tag = tag /\ frame.o = o /\ frame.c = o /\ ~frame.errs /\ frame.cerrs = {}
        OBVIOUS
      <3> HIDE DEF frame
      <3> QED  BY <2>1, <3>2, <3>3, <3>6, <3>7, <3>8 DEF BodiesResolveAsC, IInv
    <2> QED  BY <1>1, <2>1, <2>2, EntersKeeps DEF Resolved
  <1> QED  BY <1>1, <1>2, Strayed

LEMMA MemberStep ==
    ASSUME IInv, NEW tag \in Tags, Member(tag)
    PROVE  Resolved'
  <1> DEFINE o == find(scopes, tag)
             c == find(cscopes \o protos, tag)
             n == Len(bodies)
             last == Checked(top, tag, o, c)
  <1>1. /\ o # None /\ c # None /\ bodies # <<>> /\ ~halted
        /\ bodies' = [bodies EXCEPT ![n] = last]
        /\ UNCHANGED <<scopes, next, complete, types, halted, strayed,
                       cscopes, ccomplete, cerrors, protos>>
    <2>1. /\ o # None /\ c # None /\ bodies # <<>> /\ ~halted
          /\ UNCHANGED <<scopes, next, complete, types, halted, strayed,
                         cscopes, ccomplete, cerrors, protos>>
      BY DEF Member, InBody
    <2>2. bodies' = [bodies EXCEPT ![n] = last]
      BY DEF Member
    <2> QED  BY <2>1, <2>2
  <1> HIDE DEF last
  <1>2. /\ EntriesAreC' /\ EnumTagsAreAsComplete' /\ ObjectsAreEnteredOnce' /\ HaltsAreErrors'
        /\ ClonesNameTheirStruct' /\ ListsDeclareNothing'
    BY <1>1 DEF IInv, EntriesAreC, EnumTagsAreAsComplete, ObjectsAreEnteredOnce, HaltsAreErrors,
               ClonesNameTheirStruct, ListsDeclareNothing, Live
  <1>3. StructsApart' /\ StructsCompleteAsC'
    BY <1>1 DEF IInv, StructsApart, StructsCompleteAsC, Live, Objects, IsStruct, IsEnum
  <1>4. BodiesResolveAsC'
    <2> SUFFICES ASSUME Live  PROVE BodiesResolveAsC'
      BY <1>1 DEF BodiesResolveAsC, Live
    <2>1. PICK i \in DOMAIN scopes : /\ scopes[i][tag] # None
                                     /\ o = scopes[i][tag] /\ c = cscopes[i][tag]
      <3>1. cscopes \in Table /\ protos \in Table /\ \A i \in DOMAIN protos : protos[i][tag] = None
        BY TypeParts DEF IInv, ListsDeclareNothing
      <3>2. c = find(cscopes, tag)
        BY <3>1, FoundOutside
      <3> QED  BY <1>1, <3>2, FoundAsC
    <2>2. o \notin complete <=> c \notin ccomplete
      <3>1. CASE tag \in Enums
        BY <2>1, <3>1, KnownAlike
      <3>2. CASE tag \in Structs
        <4>1. o = c /\ IsStruct(o)
          BY <2>1, <3>2, KnownAlike DEF IsStruct
        <4> QED  BY <4>1, StructNumbers
      <3> QED  BY <3>1, <3>2 DEF Tags
    <2> HIDE DEF o, c
    <2>3. n \in DOMAIN bodies /\ DOMAIN bodies' = DOMAIN bodies
      BY <1>1, TypeParts DEF IInv
    <2>4. \A k \in DOMAIN bodies : bodies[k] \in Frame
      BY Frames DEF IInv
    <2>5. \A k \in DOMAIN bodies \ {n} : bodies'[k] = bodies[k]
      BY <1>1, <2>3
    <2>6. bodies'[n] = last
      <3> HIDE DEF last
      <3> QED  BY <1>1, <2>3
    <2> DEFINE b == bodies[n]
               e == b.errs \/ (tag \notin Unions /\ o \notin complete)
               new == IF c \in ccomplete THEN {}
                      ELSE IF tag \in Unions THEN {"union_member"} ELSE {"member"}
               ce == b.cerrs \cup new
    <2>7. b \in Frame
      BY <2>3, <2>4
    <2>8. bodies'[n] = [b EXCEPT !.errs = e, !.cerrs = ce]
      BY <2>6 DEF last, top, Checked
    <2>9. /\ b.errs <=> "member" \in b.cerrs
          /\ "body" \notin b.cerrs /\ b.o = b.c /\ scopes[Len(scopes)][b.tag] = b.o
      BY <2>3 DEF BodiesResolveAsC, IInv
    <2>10. "body" \notin new /\ ("member" \in new <=> tag \notin Unions /\ c \notin ccomplete)
      OBVIOUS
    <2> HIDE DEF new
    <2>11. (e <=> "member" \in ce) /\ "body" \notin ce
      BY <2>2, <2>9, <2>10
    <2> HIDE DEF b, e, ce
    <2>12. /\ bodies'[n].o = b.o /\ bodies'[n].c = b.c /\ bodies'[n].tag = b.tag
           /\ bodies'[n].errs = e /\ bodies'[n].cerrs = ce
      BY <2>7, <2>8 DEF Frame
    <2> QED  BY <1>1, <2>3, <2>5, <2>9, <2>11, <2>12 DEF BodiesResolveAsC, IInv
  <1> QED  BY <1>2, <1>3, <1>4 DEF Resolved

LEMMA EndBodyStep ==
    ASSUME IInv, EndBody
    PROVE  Resolved'
  <1> DEFINE n == Len(bodies)
  <1>1. /\ ~halted /\ bodies # <<>> /\ bodies' = SubSeq(bodies, 1, n - 1)
        /\ ccomplete' = ccomplete \cup {top.c}
        /\ cerrors' = cerrors \cup top.cerrs \cup (IF top.c \in ccomplete THEN {"body"} ELSE {})
        /\ UNCHANGED <<next, strayed, cscopes, protos>>
    BY DEF EndBody, InBody
  <1>2. /\ Refused(top) => halted' /\ UNCHANGED <<scopes, complete, types>>
        /\ ~Refused(top) => /\ complete' = complete \cup {top.o}
                            /\ scopes' = insert(scopes, top.tag, top.o)
                            /\ ~halted' /\ Declared(top.has_def, top.tag, top.o, top.c)
    BY <1>1 DEF EndBody
  <1>3. n \in DOMAIN bodies /\ TypeOK /\ top = bodies[n]
    BY <1>1, TypeParts DEF IInv, top
  <1>4. /\ top.tag \in Structs /\ top.tag \in Tags /\ top.tag \notin Enums
        /\ top.o \in Objects /\ top.o # None /\ top.c \in Objects
    BY <1>3, Frames, TagScopesAssumption
  <1>6. CASE ~Live
    <2>1. strayed'
      BY <1>1, <1>6 DEF Live
    <2> QED  BY <2>1, Strayed DEF HaltsAreErrors, Live
  <1>7. CASE Live
    <2>1. /\ top.o = top.c /\ (top.errs <=> "member" \in top.cerrs) /\ "body" \notin top.cerrs
          /\ scopes[Len(scopes)][top.tag] = top.o
      BY <1>3, <1>7 DEF IInv, BodiesResolveAsC
    <2>2. IsStruct(top.o)
      BY <1>3, <1>4, <2>1, Rows DEF IsStruct
    <2>3. Refused(top) <=> "member" \in top.cerrs \/ top.c \in ccomplete
      BY <1>4, <1>7, <2>1, <2>2, StructNumbers DEF Refused
    <2>4. "body" \notin cerrors /\ "member" \notin cerrors
      BY <1>7 DEF IInv, HaltsAreErrors, Live
    <2>5. HaltsAreErrors'
      <3>1. "member" \in cerrors' <=> "member" \in top.cerrs
        BY <1>1, <2>4
      <3>2. "body" \in cerrors' <=> top.c \in ccomplete
        BY <1>1, <2>1, <2>4
      <3>3. halted' <=> Refused(top)
        BY <1>2
      <3> QED  BY <2>3, <3>1, <3>2, <3>3 DEF HaltsAreErrors
    <2>6. CASE Refused(top)
      BY <1>2, <2>5, <2>6, Strayed DEF Live
    <2>7. CASE ~Refused(top)
      <3>1. /\ complete' = complete \cup {top.o} /\ ccomplete' = ccomplete \cup {top.o}
            /\ scopes' = insert(scopes, top.tag, top.o)
            /\ Declared(top.has_def, top.tag, top.o, top.o) /\ Live'
        BY <1>1, <1>2, <1>7, <2>1, <2>7 DEF Live
      <3>2. /\ DOMAIN scopes' = DOMAIN scopes /\ Len(scopes') = Len(scopes)
            /\ \A i \in DOMAIN scopes, t \in Tags : scopes'[i][t] = scopes[i][t]
        <4>1. scopes \in Table /\ Len(scopes) > 0
          BY TypeParts DEF IInv
        <4>2. /\ DOMAIN scopes' = DOMAIN scopes
              /\ \A i \in DOMAIN scopes, t \in Tags : scopes'[i][t] = scopes[i][t]
          <5>1. DOMAIN scopes' = DOMAIN scopes
            BY <3>1 DEF insert
          <5> QED  BY <1>4, <2>1, <3>1, <4>1, <5>1, Inserted
        <4>3. Len(scopes') = Len(scopes)
          BY <1>4, <3>1, <4>1, InsertedType
        <4> QED  BY <4>2, <4>3
      <3>3. Structs \subseteq Tags /\ Enums \subseteq Tags
        BY DEF Tags
      <3>4. EntriesAreC'
        BY <1>1, <1>7, <3>2, <3>3 DEF EntriesAreC, IInv, Live
      <3>5. ~IsEnum(top.o)
        BY <1>4, <1>7, <2>2, StructNumbers
      <3>6. EnumTagsAreAsComplete'
        BY <1>1, <1>7, <3>1, <3>2, <3>3, <3>5 DEF EnumTagsAreAsComplete, IInv, Live, IsEnum
      <3>7. BodiesResolveAsC'
        <4>1. \A k \in DOMAIN bodies' : k \in DOMAIN bodies /\ bodies'[k] = bodies[k]
          BY <1>1, <1>3, TypeParts, SubSeqProperties
        <4>2. \A k \in DOMAIN bodies : scopes'[Len(scopes)][bodies[k].tag] = scopes[Len(scopes)][bodies[k].tag]
          BY <1>3, <3>2, Frames, Rows
        <4> QED  BY <1>7, <3>2, <4>1, <4>2 DEF BodiesResolveAsC, IInv
      <3>8. \A t \in types' \ types : t.tag = top.tag /\ t.of = top.o /\ t.c = top.o
        BY <1>4, <3>1 DEF Declared, Clone
      <3>9. ClonesNameTheirStruct'
        BY <1>4, <1>7, <3>8 DEF ClonesNameTheirStruct, IInv
      <3>10. \A x : IsStruct(x)' => IsStruct(x)
        <4> SUFFICES ASSUME NEW x, IsStruct(x)'  PROVE IsStruct(x)
          OBVIOUS
        <4>1. CASE \E i \in DOMAIN scopes', t \in Structs : scopes'[i][t] = x
          BY <3>2, <3>3, <4>1 DEF IsStruct
        <4>2. CASE \E t \in types' : t.tag \in Structs /\ t.of = x
          BY <2>2, <3>8, <4>2 DEF IsStruct
        <4> QED  BY <4>1, <4>2 DEF IsStruct
      <3>11. \A x : IsEnum(x)' => IsEnum(x)
        BY <1>1, <3>2, <3>3 DEF IsEnum
      <3>12. Objects' = Objects
        BY <1>1 DEF Objects
      <3>13. StructsApart'
        BY <1>7, <3>10, <3>11, <3>12, StructNumbers DEF StructsApart
      <3>14. StructsCompleteAsC'
        BY <1>7, <3>1, <3>10, <3>12, StructNumbers DEF StructsCompleteAsC
      <3>15. ObjectsAreEnteredOnce' /\ ListsDeclareNothing'
        BY <1>1, <1>7 DEF IInv, ObjectsAreEnteredOnce, ListsDeclareNothing
      <3> QED  BY <2>5, <3>4, <3>6, <3>7, <3>9, <3>13, <3>14, <3>15 DEF Resolved
    <2> QED  BY <2>6, <2>7
  <1> QED  BY <1>6, <1>7

\* What an enum's body does, as long as the walk does not stray.
LEMMA EnumBodyGiven ==
    ASSUME IInv, Live', NEW tag \in Tags, NEW storage \in BOOLEAN, NEW has_def \in BOOLEAN,
           EnumBody(tag, storage, has_def)
    PROVE  LET c == Outside(tag, TRUE)
           IN  /\ TypeOK /\ ~halted /\ tag \in Enums /\ tag \notin Structs /\ Live
               /\ scopes' = insert(scopes, tag, next) /\ cscopes' = Entered(cscopes, tag, c)
               /\ next' = next + 1 /\ Declared(has_def, tag, next, c)
               /\ complete' = complete \cup {next} /\ ccomplete' = ccomplete \cup {c}
               /\ cerrors' = IF c \in ccomplete THEN cerrors \cup {"enum_body"} ELSE cerrors
               /\ bodies' = bodies /\ halted' = halted /\ protos' = protos
  <1> DEFINE c == Denoted(tag, TRUE)
  <1>1. /\ TypeOK /\ ~halted /\ tag \in Enums /\ tag \notin Structs
        /\ scopes' = insert(scopes, tag, next) /\ EnteredByC(tag, c)
        /\ next' = next + 1 /\ Declared(has_def, tag, next, c)
        /\ complete' = complete \cup {next} /\ ccomplete' = ccomplete \cup {c}
        /\ cerrors' = IF c \in ccomplete THEN cerrors \cup {"enum_body"} ELSE cerrors
        /\ strayed' = (strayed \/ protos # <<>>)
        /\ bodies' = bodies /\ halted' = halted
    BY TagScopesAssumption DEF EnumBody, Allowed, IInv
  <1> HIDE DEF c
  <1>2. Live /\ protos = <<>>
    BY <1>1 DEF Live
  <1>3. c = Outside(tag, TRUE)
    BY <1>2, DenotedOutside DEF c
  <1>4. cscopes' = Entered(cscopes, tag, c) /\ protos' = protos
    BY <1>1, <1>2, EnteredOutside
  <1> QED  BY <1>1, <1>2, <1>3, <1>4

LEMMA EnumBodyStep ==
    ASSUME IInv, NEW tag \in Tags, NEW storage \in BOOLEAN, NEW has_def \in BOOLEAN,
           EnumBody(tag, storage, has_def)
    PROVE  Resolved'
  <1>a. HaltsAreErrors'
    <2>1. /\ halted' = halted /\ (strayed => strayed')
          /\ cerrors' = cerrors \/ cerrors' = cerrors \cup {"enum_body"}
      BY DEF EnumBody
    <2>2. cerrors' \cap {"body", "member"} = cerrors \cap {"body", "member"}
      BY <2>1
    <2> QED  BY <2>1, <2>2 DEF HaltsAreErrors, IInv
  <1>b. SUFFICES ASSUME Live'  PROVE Resolved'
    BY <1>a, Strayed
  <1> DEFINE c == Outside(tag, TRUE)
  <1>1. /\ TypeOK /\ ~halted /\ tag \in Enums /\ tag \notin Structs /\ Live
        /\ scopes' = insert(scopes, tag, next) /\ cscopes' = Entered(cscopes, tag, c)
        /\ next' = next + 1 /\ Declared(has_def, tag, next, c)
        /\ complete' = complete \cup {next} /\ ccomplete' = ccomplete \cup {c}
        /\ bodies' = bodies /\ halted' = halted /\ protos' = protos
    BY <1>b, EnumBodyGiven
  <1>2. /\ c = next => cscopes[Len(scopes)][tag] = None
        /\ c # next => cscopes[Len(scopes)][tag] = c /\ c # None
        /\ c # None
    BY <1>1, MeantBy, Rows
  <1> HIDE DEF c
  <1>3. ObjectsAreEnteredOnce' /\ ListsDeclareNothing'
    <2>1. ListsDeclareNothing'
      BY <1>1 DEF ListsDeclareNothing, IInv
    <2> QED  BY <1>1, <2>1, EnteredOnce
  <1>6. CASE Live
    <2>1. /\ DOMAIN scopes' = DOMAIN scopes /\ Len(scopes') = Len(scopes)
          /\ \A i \in DOMAIN scopes, t \in Tags :
                scopes'[i][t] = IF i = Len(scopes) /\ t = tag THEN next ELSE scopes[i][t]
      <3>1. scopes \in Table /\ Len(scopes) > 0
        BY <1>1, TypeParts
      <3>2. DOMAIN scopes' = DOMAIN scopes
        BY <1>1 DEF insert
      <3>3. \A i \in DOMAIN scopes, t \in Tags :
                scopes'[i][t] = IF i = Len(scopes) /\ t = tag THEN next ELSE scopes[i][t]
        BY <1>1, <3>1, Inserted
      <3>4. next' \in Nat /\ next' >= next /\ next \in Objects'
        BY <1>1, TypeParts DEF Objects
      <3>5. Len(scopes') = Len(scopes)
        BY <1>1, <3>1, <3>4, Grown, InsertedType
      <3> QED  BY <3>2, <3>3, <3>5
    <2>2. /\ DOMAIN cscopes = DOMAIN scopes /\ DOMAIN cscopes' = DOMAIN scopes
          /\ \A i \in DOMAIN scopes, t \in Tags :
                cscopes'[i][t] = IF i = Len(scopes) /\ t = tag THEN c ELSE cscopes[i][t]
      <3>1. cscopes \in Table /\ Len(cscopes) > 0 /\ Len(cscopes) = Len(scopes) /\ DOMAIN cscopes = DOMAIN scopes
        BY <1>1, TypeParts, Rows
      <3>2. /\ DOMAIN cscopes' = DOMAIN cscopes
            /\ \A i \in DOMAIN cscopes, t \in Tags :
                  cscopes'[i][t] = IF c = next /\ i = Len(cscopes) /\ t = tag THEN c ELSE cscopes[i][t]
        BY <1>1, <3>1, EnteredRows
      <3> QED  BY <1>2, <3>1, <3>2
    <2>3. Structs \subseteq Tags /\ Enums \subseteq Tags
      BY DEF Tags
    <2>4. EntriesAreC'
      BY <1>1, <1>6, <2>1, <2>2, <2>3 DEF EntriesAreC, IInv, Live
    <2>5. \A i \in DOMAIN scopes, t \in Tags :
             /\ scopes[i][t] # next /\ cscopes[i][t] # next
             /\ cscopes[i][t] = c => i = Len(scopes) /\ t = tag
      <3>1. \A i \in DOMAIN scopes, t \in Tags : scopes[i][t] # next /\ cscopes[i][t] # next
        BY <1>1, Rows
      <3>2. Len(scopes) \in DOMAIN scopes
        BY <1>1, Rows
      <3> QED  BY <1>1, <1>2, <2>2, <3>1, <3>2 DEF ObjectsAreEnteredOnce, IInv
    <2>6. EnumTagsAreAsComplete'
      <3>1. next # None
        BY <1>1, Rows
      <3> QED
        BY <1>1, <1>2, <1>6, <2>1, <2>2, <2>3, <2>5, <3>1 DEF EnumTagsAreAsComplete, IInv, Live
    <2>7. BodiesResolveAsC'
      <3>1. \A k \in DOMAIN bodies : scopes'[Len(scopes)][bodies[k].tag] = scopes[Len(scopes)][bodies[k].tag]
        BY <1>1, <2>1, Frames, Rows
      <3> QED  BY <1>1, <1>6, <2>1, <3>1 DEF BodiesResolveAsC, IInv
    <2>8. \A t \in types' \ types : t.tag = tag
      BY <1>1 DEF Declared, Clone
    <2>9. ClonesNameTheirStruct'
      BY <1>1, <1>6, <2>8 DEF ClonesNameTheirStruct, IInv
    <2>10. \A x : IsStruct(x)' => IsStruct(x)
      BY <1>1, <2>1, <2>3, <2>8 DEF IsStruct
    <2>11. \A x : IsEnum(x)' => IsEnum(x) \/ x = next \/ x = c
      BY <2>1, <2>2, <2>3 DEF IsEnum
    <2>12. c = next \/ IsEnum(c)
      BY <1>1, <1>2, Rows DEF IsEnum
    <2>13. StructsApart'
      BY <1>6, <2>10, <2>11, <2>12, StructNumbers DEF StructsApart
    <2>14. StructsCompleteAsC'
      BY <1>1, <1>6, <2>10, <2>12, StructNumbers DEF StructsCompleteAsC
    <2> QED  BY <1>a, <1>3, <2>4, <2>6, <2>7, <2>9, <2>13, <2>14 DEF Resolved
  <1> QED  BY <1>1, <1>6

\* Opening and closing a block between the specifiers.
LEMMA BlockKeeps ==
    ASSUME IInv, bodies = <<>> \/ scopes' = scopes, DOMAIN cscopes' = DOMAIN scopes',
           \A i \in DOMAIN scopes', t \in Tags :
               \/ i \in DOMAIN scopes /\ scopes'[i][t] = scopes[i][t] /\ cscopes'[i][t] = cscopes[i][t]
               \/ scopes'[i][t] = None /\ cscopes'[i][t] = None,
           ListsDeclareNothing',
           UNCHANGED <<next, complete, bodies, types, halted, strayed, ccomplete, cerrors>>
    PROVE  Resolved'
  <1>1. Structs \subseteq Tags /\ Enums \subseteq Tags
    BY DEF Tags
  <1>2. None \notin complete /\ None \notin ccomplete /\ None \notin Objects
    BY TypeParts, Rows DEF IInv
  <1>3. DOMAIN cscopes = DOMAIN scopes /\ Objects' = Objects
    BY Rows DEF IInv, Objects
  <1>4. EntriesAreC'
    BY <1>1 DEF EntriesAreC, IInv, Live
  <1>5. EnumTagsAreAsComplete'
    BY <1>1, <1>2 DEF EnumTagsAreAsComplete, IInv
  <1>6. BodiesResolveAsC' /\ HaltsAreErrors' /\ ClonesNameTheirStruct'
    BY DEF BodiesResolveAsC, HaltsAreErrors, ClonesNameTheirStruct, Live, IInv
  <1>7. ObjectsAreEnteredOnce'
    BY <1>3 DEF ObjectsAreEnteredOnce, IInv, Live
  <1>8. \A x : IsStruct(x)' => IsStruct(x)
    BY <1>1 DEF IsStruct
  <1>9. \A x \in Objects : IsEnum(x)' => IsEnum(x)
    BY <1>1, <1>2 DEF IsEnum
  <1>10. StructsApart' /\ StructsCompleteAsC'
    BY <1>3, <1>8, <1>9 DEF StructsApart, StructsCompleteAsC, Live, IInv
  <1> QED  BY <1>4, <1>5, <1>6, <1>7, <1>10 DEF Resolved

\* A new scope that is empty, in C too.
LEMMA EnterStep ==
    ASSUME IInv, bodies = <<>>, NEW last \in [Tags -> Objects \cup {None}],
           \A t \in Tags : last[t] = None, ListsDeclareNothing',
           scopes' = Append(scopes, NoTags), cscopes' = Append(cscopes, last),
           UNCHANGED <<next, complete, bodies, types, halted, strayed, ccomplete, cerrors>>
    PROVE  Resolved'
  <1>2. scopes \in Table /\ cscopes \in Table /\ Len(cscopes) = Len(scopes) /\ Len(scopes) \in Nat
    BY TypeParts DEF IInv, Table
  <1>3. NoTags \in [Tags -> Objects \cup {None}] /\ \A t \in Tags : NoTags[t] = None
    BY DEF NoTags
  <1>4. /\ DOMAIN scopes' = 1 .. Len(scopes) + 1 /\ DOMAIN cscopes' = 1 .. Len(scopes) + 1
        /\ \A i \in 1 .. Len(scopes) : scopes'[i] = scopes[i] /\ cscopes'[i] = cscopes[i]
        /\ scopes'[Len(scopes) + 1] = NoTags /\ cscopes'[Len(scopes) + 1] = last
    BY <1>2, <1>3, AppendProperties DEF Table
  <1>5. DOMAIN scopes = 1 .. Len(scopes)
    BY <1>2 DEF Table
  <1>6. \A i \in DOMAIN scopes' : i \in DOMAIN scopes \/ i = Len(scopes) + 1
    BY <1>2, <1>4, <1>5
  <1> QED  BY <1>3, <1>4, <1>5, <1>6, BlockKeeps

LEMMA EnterBlockStep ==
    ASSUME IInv, EnterBlock
    PROVE  Resolved'
  <1>1. /\ scopes' = Append(scopes, NoTags) /\ cscopes' = Append(cscopes, NoTags)
        /\ bodies = <<>> /\ protos' = protos
        /\ UNCHANGED <<next, complete, bodies, types, halted, strayed, ccomplete, cerrors>>
    BY DEF EnterBlock
  <1>2. NoTags \in [Tags -> Objects \cup {None}] /\ \A t \in Tags : NoTags[t] = None
    BY DEF NoTags
  <1>3. ListsDeclareNothing'
    BY <1>1 DEF ListsDeclareNothing, IInv, Live
  <1> QED  BY <1>1, <1>2, <1>3, EnterStep

\* The tags of the list become the function's: there are none.
LEMMA EnterFunctionStep ==
    ASSUME IInv, EnterFunction
    PROVE  Resolved'
  <1>1. /\ scopes' = Append(scopes, NoTags) /\ cscopes' = Append(cscopes, protos[1])
        /\ bodies = <<>> /\ protos' = <<>> /\ Len(protos) = 1
        /\ UNCHANGED <<next, complete, bodies, types, halted, strayed, ccomplete, cerrors>>
    BY DEF EnterFunction
  <1>2. CASE Live
    <2>1. protos \in Seq([Tags -> Objects \cup {None}]) /\ 1 \in DOMAIN protos
      BY <1>1, TypeParts DEF IInv, Table
    <2>2. protos[1] \in [Tags -> Objects \cup {None}] /\ \A t \in Tags : protos[1][t] = None
      BY <1>2, <2>1 DEF IInv, ListsDeclareNothing
    <2>3. ListsDeclareNothing'
      BY <1>1 DEF ListsDeclareNothing
    <2> QED  BY <1>1, <2>2, <2>3, EnterStep
  <1>3. CASE ~Live
    <2>1. ~Live' /\ HaltsAreErrors'
      BY <1>1, <1>3 DEF Live, HaltsAreErrors, IInv
    <2> QED  BY <2>1, Strayed
  <1> QED  BY <1>2, <1>3

\* The walk does not see a parameter list begin or end.
LEMMA ParametersStep ==
    ASSUME IInv, BeginParameters \/ EndParameters
    PROVE  Resolved'
  <1>1. UNCHANGED <<scopes, next, complete, bodies, types, halted, strayed,
                    cscopes, ccomplete, cerrors>>
    BY DEF BeginParameters, EndParameters
  <1>2. protos \in Table /\ NoTags \in [Tags -> Objects \cup {None}] /\ Len(protos) \in Nat
    BY TypeParts DEF IInv, NoTags, Table
  <1>3. ListsDeclareNothing'
    <2> SUFFICES ASSUME Live, NEW i \in DOMAIN protos', NEW t \in Tags
                 PROVE  protos'[i][t] = None
      BY <1>1 DEF ListsDeclareNothing, Live
    <2>1. \A k \in DOMAIN protos : protos[k][t] = None
      BY DEF IInv, ListsDeclareNothing
    <2>2. CASE BeginParameters
      <3>1. protos' = Append(protos, NoTags)
        BY <2>2 DEF BeginParameters
      <3>2. protos'[i] = NoTags \/ (i \in DOMAIN protos /\ protos'[i] = protos[i])
        BY <1>2, <3>1, AppendProperties DEF Table
      <3> QED  BY <2>1, <3>2 DEF NoTags
    <2>3. CASE EndParameters
      <3>1. protos' = SubSeq(protos, 1, Len(protos) - 1)
        BY <2>3 DEF EndParameters
      <3>2. i \in DOMAIN protos /\ protos'[i] = protos[i]
        BY <1>2, <3>1, SubSeqProperties DEF Table
      <3> QED  BY <2>1, <3>2
    <2> QED  BY <2>2, <2>3
  <1>4. DOMAIN cscopes = DOMAIN scopes
    BY Rows DEF IInv
  <1> QED  BY <1>1, <1>3, <1>4, BlockKeeps

LEMMA LeaveBlockStep ==
    ASSUME IInv, LeaveBlock
    PROVE  Resolved'
  <1>1. /\ scopes' = SubSeq(scopes, 1, Len(scopes) - 1) /\ Len(scopes) > 1 /\ bodies = <<>>
        /\ cscopes' = SubSeq(cscopes, 1, Len(cscopes) - 1) /\ protos' = protos
        /\ UNCHANGED <<next, complete, bodies, types, halted, strayed, ccomplete, cerrors>>
    BY DEF LeaveBlock
  <1>2. scopes \in Table /\ cscopes \in Table /\ Len(cscopes) = Len(scopes) /\ Len(scopes) \in Nat
    BY TypeParts DEF IInv, Table
  <1>3. \A sc \in Table : Len(sc) > 1 =>
           /\ DOMAIN SubSeq(sc, 1, Len(sc) - 1) = 1 .. Len(sc) - 1
           /\ \A i \in 1 .. Len(sc) - 1 : SubSeq(sc, 1, Len(sc) - 1)[i] = sc[i]
           /\ 1 .. Len(sc) - 1 \subseteq DOMAIN sc
    BY SubSeqProperties DEF Table
  <1>4. /\ DOMAIN scopes' = 1 .. Len(scopes) - 1 /\ DOMAIN cscopes' = 1 .. Len(scopes) - 1
        /\ \A i \in 1 .. Len(scopes) - 1 : scopes'[i] = scopes[i] /\ cscopes'[i] = cscopes[i]
        /\ 1 .. Len(scopes) - 1 \subseteq DOMAIN scopes
    BY <1>1, <1>2, <1>3
  <1>5. ListsDeclareNothing'
    BY <1>1 DEF ListsDeclareNothing, IInv, Live
  <1> QED  BY <1>1, <1>4, <1>5, BlockKeeps
-----------------------------------------------------------------------------
LEMMA Start == Init => IInv
  <1> SUFFICES ASSUME Init  PROVE IInv
    OBVIOUS
  <1>1. /\ scopes = <<NoTags>> /\ cscopes = <<NoTags>> /\ next = 1 /\ complete = {} /\ ccomplete = {}
        /\ bodies = <<>> /\ types = {} /\ halted = FALSE /\ strayed = FALSE /\ cerrors = {}
        /\ protos = <<>>
    BY DEF Init
  <1>2. NoTags \in [Tags -> Objects \cup {None}] /\ \A t \in Tags : NoTags[t] = None
    BY DEF NoTags
  <1>3. /\ scopes \in Seq([Tags -> Objects \cup {None}]) /\ Len(scopes) = 1 /\ Len(cscopes) = 1
        /\ DOMAIN scopes = {1} /\ DOMAIN cscopes = {1} /\ scopes[1] = NoTags /\ cscopes[1] = NoTags
    BY <1>1, <1>2
  <1>4. TypeOK
    <2>1. next \in Nat \ {0} /\ complete \subseteq Objects /\ ccomplete \subseteq Objects
      BY <1>1
    <2>2. /\ halted \in BOOLEAN /\ strayed \in BOOLEAN /\ cerrors \subseteq Errors
          /\ types \subseteq [tag : Tags, of : Objects \cup {Incomplete}, c : Objects]
      BY <1>1
    <2>3. /\ bodies \in Seq([tag : Structs, o : Objects, c : Objects, has_def : BOOLEAN, lists : Nat,
                             errs : BOOLEAN, cerrs : SUBSET Errors])
          /\ protos \in Seq([Tags -> Objects \cup {None}])
      BY <1>1, EmptySeq
    <2>4. /\ cscopes \in Seq([Tags -> Objects \cup {None}])
          /\ Len(scopes) > 0 /\ Len(cscopes) = Len(scopes)
      BY <1>1, <1>3
    <2> QED  BY <1>3, <2>1, <2>2, <2>3, <2>4 DEF TypeOK
  <1>5. Structs \subseteq Tags /\ Enums \subseteq Tags
    BY DEF Tags
  <1>6. EntriesAreC /\ EnumTagsAreAsComplete /\ ObjectsAreEnteredOnce /\ ListsDeclareNothing
    BY <1>1, <1>2, <1>3, <1>5 DEF EntriesAreC, EnumTagsAreAsComplete, ObjectsAreEnteredOnce,
                                  ListsDeclareNothing
  <1>7. \A o : ~IsStruct(o)
    BY <1>1, <1>2, <1>3, <1>5 DEF IsStruct
  <1>8. StructsApart /\ StructsCompleteAsC
    BY <1>7 DEF StructsApart, StructsCompleteAsC
  <1>9. BodiesResolveAsC /\ ClonesNameTheirStruct /\ HaltsAreErrors
    BY <1>1 DEF BodiesResolveAsC, ClonesNameTheirStruct, HaltsAreErrors
  <1> QED  BY <1>4, <1>6, <1>8, <1>9 DEF IInv

LEMMA Step ==
    ASSUME IInv, [Next]_vars
    PROVE  IInv'
  <1>1. TypeOK'
    BY TypeStep DEF IInv
  <1>2. Resolved'
    <2>1. ASSUME NEW tag \in Tags, NEW storage \in BOOLEAN, NEW has_def \in BOOLEAN,
                 Specifier(tag, storage, has_def)
          PROVE  Resolved'
      BY <2>1, MentionStep, BeginBodyStep, EnumBodyStep DEF Specifier
    <2>2. ASSUME UNCHANGED vars  PROVE Resolved'
      BY <2>2 DEF vars, Resolved, IInv, Live, EntriesAreC, EnumTagsAreAsComplete, BodiesResolveAsC,
                  ObjectsAreEnteredOnce, ListsDeclareNothing, StructsApart, StructsCompleteAsC,
                  ClonesNameTheirStruct, HaltsAreErrors, IsStruct, IsEnum, Objects
    <2> QED
      BY <2>1, <2>2, MemberStep, EndBodyStep, ParametersStep, EnterFunctionStep,
         EnterBlockStep, LeaveBlockStep DEF Next
  <1> QED  BY <1>1, <1>2 DEF IInv, Resolved

(***************************************************************************)
(* The invariant: every entry, open body and clone of a struct names C's   *)
(* object, and structs are as complete as in C.                            *)
(***************************************************************************)
THEOREM Invariance == Spec => []IInv
  <1>1. Init => IInv  BY Start
  <1>2. IInv /\ [Next]_vars => IInv'  BY Step
  <1> QED  BY <1>1, <1>2, PTL DEF Spec

(***************************************************************************)
(* In units of any size every entry, body and clone is of an object the    *)
(* unit has, and both walks are in as many scopes.                         *)
(***************************************************************************)
THEOREM TypeCorrect == Spec => []TypeOK
  <1>1. IInv => TypeOK  BY DEF IInv
  <1> QED  BY <1>1, Invariance, PTL

(***************************************************************************)
(* However tags are mentioned, defined and shadowed, a struct's names C's  *)
(* object at every point, in parameter lists too, unless a body went to a  *)
(* tag of an outer scope or a list declared a tag of its own.              *)
(***************************************************************************)
THEOREM StructTags == Spec => []TagsResolveAsC
  <1>1. IInv => TagsResolveAsC
    <2> SUFFICES ASSUME IInv, Live, NEW tag \in Structs
                 PROVE  /\ \A i \in DOMAIN scopes : scopes[i][tag] = cscopes[i][tag]
                        /\ find(scopes, tag) = find(cscopes \o protos, tag)
      BY DEF TagsResolveAsC, Live
    <2>1. tag \in Tags
      BY DEF Tags
    <2>2. \A i \in DOMAIN scopes : scopes[i][tag] = cscopes[i][tag]
      BY <2>1, KnownAlike
    <2>3. cscopes \in Table /\ protos \in Table /\ \A i \in DOMAIN protos : protos[i][tag] = None
      BY <2>1, TypeParts DEF IInv, ListsDeclareNothing
    <2>4. find(cscopes \o protos, tag) = find(cscopes, tag)
      BY <2>1, <2>3, FoundOutside
    <2> QED  BY <2>1, <2>2, <2>4, FoundAsC
  <1> QED  BY <1>1, Invariance, PTL

(***************************************************************************)
(* Enum bodies may replace the object of a tag: each scope still knows the *)
(* enum tags C knows there, and those are as complete.                     *)
(***************************************************************************)
THEOREM EnumTags == Spec => []EnumTagsAreAsComplete
  <1>1. IInv => EnumTagsAreAsComplete  BY DEF IInv
  <1> QED  BY <1>1, Invariance, PTL

(***************************************************************************)
(* A type cloned from an incomplete struct is complete as soon as C's is,  *)
(* that of a union from the start.                                         *)
(***************************************************************************)
THEOREM CompleteClones == Spec => []ClonesSeeTheBody
  <1>1. IInv => ClonesSeeTheBody
    <2> SUFFICES ASSUME IInv, Regular, NEW t \in types, t.tag \in Structs
                 PROVE  is_complete(t) <=> t.tag \in Unions \/ t.c \in ccomplete
      BY DEF ClonesSeeTheBody
    <2>1. Live
      BY DEF IInv, HaltsAreErrors, Regular, Live
    <2>2. t.of = t.c /\ t.of \in Objects /\ t.of # None
      BY <2>1, StructNumbers, Rows DEF IInv
    <2>3. IsStruct(t.of)
      BY <2>2 DEF IsStruct
    <2> QED  BY <2>1, <2>2, <2>3, StructNumbers DEF is_complete
  <1> QED  BY <1>1, Invariance, PTL

(***************************************************************************)
(* The walk halts on a struct or union body exactly if it is C's second    *)
(* one, or has a member C finds incomplete whose type is not a union.      *)
(***************************************************************************)
THEOREM Halts == Spec => []HaltsAreErrors
  <1>1. IInv => HaltsAreErrors  BY DEF IInv
  <1> QED  BY <1>1, Invariance, PTL

-----------------------------------------------------------------------------
(* Types that compare as the same *)

\* An enum with a body and what C calls it, by a tag or by a clone.
EnumPair(o, c) ==
    /\ o \in complete
    /\ \/ \E i \in DOMAIN scopes, tag \in Enums : scopes[i][tag] = o /\ cscopes[i][tag] = c
       \/ \E t \in types : t.tag \in Enums /\ t.of = o /\ t.c = c

\* An enum's body is given to one of C's objects, and each has one.
EnumsPaired == Regular => \A o, c, p, d : EnumPair(o, c) /\ EnumPair(p, d) => (o = p <=> c = d)

\* What an enum was cloned from is no struct, and has its body if it had an id.
EnumClones ==
    Regular => \A t \in types : t.tag \in Enums =>
                  /\ ~IsStruct(t.c)
                  /\ t.of # Incomplete => t.of \in complete /\ t.c \in ccomplete

Paired == EnumsPaired /\ EnumClones

LEMMA RegularIsLive == ASSUME IInv, Regular  PROVE Live
  BY DEF IInv, HaltsAreErrors, Regular, Live

\* What was not irregular afterwards was not before.
LEMMA RegularBefore ==
    ASSUME [Next]_vars, Regular'
    PROVE  Regular
  <1>1. SUFFICES (strayed => strayed') /\ cerrors \subseteq cerrors'
    BY DEF Regular
  <1>2. ASSUME NEW tag \in Tags, NEW storage \in BOOLEAN, NEW has_def \in BOOLEAN,
               Specifier(tag, storage, has_def)
        PROVE  (strayed => strayed') /\ cerrors \subseteq cerrors'
    <2>1. CASE Mention(tag, storage, has_def)
      BY <2>1 DEF Mention
    <2>2. CASE BeginBody(tag, storage, has_def)
      <3>1. cerrors' = cerrors  BY <2>2 DEF BeginBody
      <3>2. strayed => strayed'
        BY <2>2, Zenon DEF BeginBody
      <3> QED  BY <3>1, <3>2
    <2>3. CASE EnumBody(tag, storage, has_def)
      BY <2>3 DEF EnumBody
    <2> QED  BY <1>2, <2>1, <2>2, <2>3 DEF Specifier
  <1>3. ASSUME EndBody  PROVE (strayed => strayed') /\ cerrors \subseteq cerrors'
    BY <1>3 DEF EndBody
  <1>4. ASSUME \/ \E tag \in Tags : Member(tag)
               \/ BeginParameters \/ EndParameters
               \/ EnterFunction \/ EnterBlock \/ LeaveBlock \/ UNCHANGED vars
        PROVE  (strayed => strayed') /\ cerrors \subseteq cerrors'
    BY <1>4 DEF Member, BeginParameters, EndParameters, EnterFunction, EnterBlock, LeaveBlock, vars
  <1> QED  BY <1>2, <1>3, <1>4 DEF Next

LEMMA PairFacts ==
    ASSUME IInv, Paired, Regular
    PROVE  \A o, c : EnumPair(o, c) => o \in Objects /\ o # next /\ c \in ccomplete
  <1>1. Live /\ TypeOK  BY RegularIsLive DEF IInv
  <1>2. complete \subseteq Objects /\ next \notin Objects /\ Incomplete \notin Objects
    BY <1>1, TypeParts, Rows DEF Objects, Incomplete
  <1>3. SUFFICES ASSUME NEW o, NEW c, EnumPair(o, c)
                 PROVE  o \in Objects /\ o # next /\ c \in ccomplete
    OBVIOUS
  <1>4. o \in complete /\ o \in Objects /\ o # next /\ o # Incomplete
    BY <1>2, <1>3 DEF EnumPair
  <1>5. CASE \E i \in DOMAIN scopes, tag \in Enums : scopes[i][tag] = o /\ cscopes[i][tag] = c
    BY <1>1, <1>4, <1>5 DEF IInv, EnumTagsAreAsComplete, Live
  <1>6. CASE \E t \in types : t.tag \in Enums /\ t.of = o /\ t.c = c
    BY <1>4, <1>6 DEF Paired, EnumClones
  <1> QED  BY <1>3, <1>4, <1>5, <1>6 DEF EnumPair

\* A step that completes at most one enum, for an object C has not completed.
LEMMA PairedStep ==
    ASSUME IInv, Paired, Regular, NEW k, k \notin ccomplete,
           complete \subseteq complete', ccomplete \subseteq ccomplete',
           \A o, c : EnumPair(o, c)' => EnumPair(o, c) \/ (o = next /\ c = k),
           \A x \in Objects : IsStruct(x)' /\ ~IsStruct(x) =>
               \A t \in types : t.tag \in Enums => t.c # x,
           \A t \in types' \ types : t.tag \in Enums =>
               /\ ~IsStruct(t.c)'
               /\ t.of # Incomplete => t.of \in complete' /\ t.c \in ccomplete'
    PROVE  Paired'
  <1>1. \A o, c : EnumPair(o, c) => o # next /\ c # k
    BY PairFacts
  <1>2. EnumsPaired'
    <2> SUFFICES ASSUME NEW o, NEW c, NEW p, NEW d, EnumPair(o, c)', EnumPair(p, d)'
                 PROVE  o = p <=> c = d
      BY DEF EnumsPaired
    <2>1. CASE EnumPair(o, c) /\ EnumPair(p, d)
      BY <2>1 DEF Paired, EnumsPaired
    <2>2. CASE EnumPair(o, c) /\ ~EnumPair(p, d)
      BY <1>1, <2>2
    <2>3. CASE ~EnumPair(o, c) /\ EnumPair(p, d)
      BY <1>1, <2>3
    <2>4. CASE ~EnumPair(o, c) /\ ~EnumPair(p, d)
      BY <2>4
    <2> QED  BY <2>1, <2>2, <2>3, <2>4
  <1>3. EnumClones'
    <2> SUFFICES ASSUME NEW t \in types', t.tag \in Enums
                 PROVE  /\ ~IsStruct(t.c)'
                        /\ t.of # Incomplete => t.of \in complete' /\ t.c \in ccomplete'
      BY DEF EnumClones
    <2>1. CASE t \in types
      <3>1. t.c \in Objects
        BY <2>1, TypeParts DEF IInv, Cloned
      <3> QED  BY <2>1, <3>1 DEF Paired, EnumClones
    <2> QED  BY <2>1
  <1> QED  BY <1>2, <1>3 DEF Paired

\* A tag is looked up in the scope where C looks it up.
LEMMA MeantTogether ==
    ASSUME IInv, Live, NEW tag \in Tags, NEW own \in BOOLEAN, forward_decl(tag, own) # next
    PROVE  \E i \in DOMAIN scopes : /\ scopes[i][tag] = forward_decl(tag, own)
                                    /\ cscopes[i][tag] = Outside(tag, own)
  <1>1. CASE own
    <2>1. Outside(tag, own) # next /\ TypeOK  BY MeantAsC DEF IInv
    <2>2. \E i \in DOMAIN scopes : scopes[i][tag] = forward_decl(tag, own) /\ i = Len(scopes)
      BY <1>1, <2>1, MeantBy
    <2>3. \E i \in DOMAIN scopes : cscopes[i][tag] = Outside(tag, own) /\ i = Len(scopes)
      BY <1>1, <2>1, MeantBy
    <2> QED  BY <2>2, <2>3
  <1>2. CASE ~own
    <2>1. forward_decl(tag, own) = find(scopes, tag) /\ find(scopes, tag) # None
      BY <1>2 DEF forward_decl
    <2>2. Outside(tag, own) = find(cscopes, tag) \/ Outside(tag, own) = next
      BY <1>2 DEF Outside
    <2>3. Outside(tag, own) # next  BY MeantAsC
    <2> QED  BY <2>1, <2>2, <2>3, FoundAsC
  <1> QED  BY <1>1, <1>2

LEMMA MentionPairs ==
    ASSUME IInv, Paired, Regular, Regular', IInv', NEW tag \in Tags, NEW storage \in BOOLEAN, NEW has_def \in BOOLEAN,
           Mention(tag, storage, has_def)
    PROVE  Paired'
  <1> DEFINE own == CurrScope(storage, has_def)
             o == forward_decl(tag, own)
             c == Outside(tag, own)
  <1>a. Live'
    BY DEF IInv, HaltsAreErrors, Regular, Live
  <1>1. /\ own \in BOOLEAN /\ TypeOK /\ Live /\ Enters(tag, o, c)
        /\ scopes' = Entered(scopes, tag, o) /\ cscopes' = Entered(cscopes, tag, c)
        /\ next' = NextAfter({o, c}) /\ Declared(has_def, tag, o, c)
        /\ UNCHANGED <<complete, halted, ccomplete, cerrors>>
    <2>1. own \in BOOLEAN /\ Live /\ Enters(tag, o, c) /\ Declared(has_def, tag, o, c)
      BY <1>a, Mentioned
    <2> HIDE DEF own, o, c
    <2> QED  BY <2>1 DEF Enters, IInv
  <1> HIDE DEF own
  <1>2. /\ o \in Objects \cup {next} /\ c \in Objects \cup {next}
        /\ o = next => scopes[Len(scopes)][tag] = None
        /\ c = next => cscopes[Len(scopes)][tag] = None
        /\ o # next => \E i \in DOMAIN scopes : scopes[i][tag] = o
        /\ o # next => \E i \in DOMAIN scopes : scopes[i][tag] = o /\ cscopes[i][tag] = c
    BY <1>1, Meant, MeantBy, MeantTogether
  <1>3. (o = next <=> c = next) /\ (tag \in Structs => o = c)
    BY <1>1, MeantAsC
  <1> HIDE DEF o, c
  <1>5. /\ DOMAIN scopes' = DOMAIN scopes /\ DOMAIN cscopes' = DOMAIN scopes
        /\ \A i \in DOMAIN scopes, t \in Tags :
              /\ scopes'[i][t] = IF o = next /\ i = Len(scopes) /\ t = tag THEN next ELSE scopes[i][t]
              /\ cscopes'[i][t] = IF c = next /\ i = Len(scopes) /\ t = tag THEN next ELSE cscopes[i][t]
    BY <1>1, EnteredViews
  <1>6. /\ next \notin complete /\ next \notin ccomplete /\ next \notin Objects
        /\ Structs \cap Enums = {} /\ Enums \subseteq Tags
    BY <1>1, TypeParts, Rows, TagScopesAssumption DEF Tags
  <1>7. \A x : IsStruct(x)' => IsStruct(x) \/ (x = next /\ tag \in Structs)
    BY <1>1, EntersKeeps
  <1>8. \A t \in types' \ types :
           t.tag = tag /\ t.c = c /\ (tag \in Enums => t.of = IF o \in complete THEN o ELSE Incomplete)
    BY <1>1 DEF Declared, Clone
  <1>9. o \in complete /\ tag \in Enums => EnumPair(o, c)
    BY <1>2, <1>6 DEF EnumPair
  <1>10. Incomplete \notin complete
    BY <1>1, TypeParts DEF Objects, Incomplete
  <1>11. \A p, d : EnumPair(p, d)' => EnumPair(p, d)
    <2> SUFFICES ASSUME NEW p, NEW d, EnumPair(p, d)'  PROVE EnumPair(p, d)
      OBVIOUS
    <2>1. p \in complete /\ p # next
      BY <1>1, <1>6 DEF EnumPair
    <2>2. CASE \E i \in DOMAIN scopes', t \in Enums : scopes'[i][t] = p /\ cscopes'[i][t] = d
      BY <1>3, <1>5, <1>6, <2>1, <2>2 DEF EnumPair
    <2>3. CASE \E t \in types' : t.tag \in Enums /\ t.of = p /\ t.c = d
      <3>1. PICK t \in types' : t.tag \in Enums /\ t.of = p /\ t.c = d  BY <2>3
      <3>2. CASE t \in types  BY <2>1, <3>1, <3>2 DEF EnumPair
      <3>3. CASE t \notin types
        <4>1. tag \in Enums /\ c = d /\ p = IF o \in complete THEN o ELSE Incomplete
          BY <1>8, <3>1, <3>3
        <4>2. o \in complete /\ p = o  BY <1>10, <2>1, <4>1
        <4> QED  BY <1>9, <4>1, <4>2
      <3> QED  BY <3>2, <3>3
    <2> QED  BY <2>2, <2>3 DEF EnumPair
  <1>12. \A t \in types' \ types : t.tag \in Enums =>
            /\ ~IsStruct(t.c)'
            /\ t.of # Incomplete => t.of \in complete' /\ t.c \in ccomplete'
    <2> SUFFICES ASSUME NEW t \in types' \ types, t.tag \in Enums
                 PROVE  /\ ~IsStruct(t.c)'
                        /\ t.of # Incomplete => t.of \in complete' /\ t.c \in ccomplete'
      OBVIOUS
    <2>1. /\ tag \in Enums /\ tag \notin Structs /\ t.c = c
          /\ t.of = IF o \in complete THEN o ELSE Incomplete
      BY <1>6, <1>8
    <2>2. ~IsStruct(c)
      <3>1. CASE c = next  BY <1>1, <1>6, <3>1, StructNumbers
      <3>2. CASE c # next
        <4>1. IsEnum(c)  BY <1>2, <1>3, <2>1, <3>2 DEF IsEnum
        <4> QED  BY <1>1, <1>2, <3>2, <4>1, StructNumbers
      <3> QED  BY <3>1, <3>2
    <2>3. \A x : x = c => ~IsStruct(x)'  BY <1>7, <2>1, <2>2
    <2>4. o \in complete => c \in ccomplete  BY <1>9, <2>1, PairFacts
    <2> QED  BY <1>1, <2>1, <2>3, <2>4
  <1>13. \A x \in Objects : IsStruct(x)' => IsStruct(x)
    BY <1>6, <1>7
  <1> QED  BY <1>1, <1>6, <1>11, <1>12, <1>13, PairedStep

LEMMA BeginBodyPairs ==
    ASSUME IInv, Paired, Regular, Regular', IInv',
           NEW tag \in Tags, NEW storage \in BOOLEAN, NEW has_def \in BOOLEAN,
           BeginBody(tag, storage, has_def)
    PROVE  Paired'
  <1> DEFINE o == forward_decl(tag, TRUE)
             c == o
  <1>a. Live' /\ tag \in Structs
    BY DEF IInv, HaltsAreErrors, Regular, Live, BeginBody
  <1>1. /\ TypeOK /\ Live /\ tag \in Structs
        /\ scopes' = Entered(scopes, tag, o) /\ cscopes' = Entered(cscopes, tag, c)
        /\ UNCHANGED <<complete, types, ccomplete>>
    <2>1. Live /\ Enters(tag, o, o) /\ types' = types
      BY <1>a, BodyBegun
    <2> HIDE DEF o
    <2> QED  BY <1>a, <2>1 DEF Enters, IInv
  <1>2. /\ next \notin ccomplete /\ next \notin Objects
        /\ Structs \cap Enums = {} /\ Enums \subseteq Tags /\ Structs \subseteq Tags
    BY <1>1, TypeParts, Rows, TagScopesAssumption DEF Tags
  <1> HIDE DEF o, c
  <1>3. /\ DOMAIN scopes' = DOMAIN scopes /\ DOMAIN cscopes' = DOMAIN scopes
        /\ \A i \in DOMAIN scopes, t \in Tags :
              /\ scopes'[i][t] = IF o = next /\ i = Len(scopes) /\ t = tag THEN next ELSE scopes[i][t]
              /\ cscopes'[i][t] = IF c = next /\ i = Len(scopes) /\ t = tag THEN next ELSE cscopes[i][t]
    BY <1>1, EnteredViews
  <1>4. \A p, d : EnumPair(p, d)' => EnumPair(p, d)
    BY <1>1, <1>2, <1>3 DEF EnumPair
  <1>5. \A x \in Objects : IsStruct(x)' => IsStruct(x)
    BY <1>1, <1>2, <1>3 DEF IsStruct
  <1> QED  BY <1>1, <1>2, <1>4, <1>5, PairedStep

LEMMA EndBodyPairs ==
    ASSUME IInv, Paired, Regular, Regular', IInv', EndBody
    PROVE  Paired'
  <1> DEFINE n == Len(bodies)
  <1>1. /\ ~halted /\ bodies # <<>> /\ ccomplete' = ccomplete \cup {top.c}
        /\ UNCHANGED <<next, cscopes>> /\ Live
    BY RegularIsLive DEF EndBody, InBody
  <1>a. ~halted'
    <2>1. HaltsAreErrors'  BY DEF IInv
    <2> QED  BY <2>1 DEF HaltsAreErrors, Regular
  <1>2. /\ complete' = complete \cup {top.o} /\ scopes' = insert(scopes, top.tag, top.o)
        /\ Declared(top.has_def, top.tag, top.o, top.c)
    BY <1>a DEF EndBody
  <1>3. n \in DOMAIN bodies /\ TypeOK /\ top = bodies[n]
    BY <1>1, TypeParts DEF IInv, top
  <1>4. /\ top.tag \in Structs /\ top.tag \in Tags /\ top.tag \notin Enums
        /\ top.o \in Objects /\ top.o # None
    BY <1>3, Frames, TagScopesAssumption
  <1>5. top.o = top.c /\ scopes[Len(scopes)][top.tag] = top.o
    BY <1>1, <1>3 DEF IInv, BodiesResolveAsC
  <1>6. IsStruct(top.o) /\ ~IsEnum(top.o)
    <2>1. IsStruct(top.o)  BY <1>3, <1>4, <1>5, Rows DEF IsStruct
    <2> QED  BY <1>1, <1>4, <2>1, StructNumbers
  <1>7. /\ DOMAIN scopes' = DOMAIN scopes
        /\ \A i \in DOMAIN scopes, t \in Tags : scopes'[i][t] = scopes[i][t]
    <2>1. scopes \in Table /\ Len(scopes) > 0
      BY TypeParts DEF IInv
    <2>2. DOMAIN scopes' = DOMAIN scopes
      BY <1>2 DEF insert
    <2> QED  BY <1>4, <1>5, <1>2, <2>1, <2>2, Inserted
  <1>8. Structs \subseteq Tags /\ Enums \subseteq Tags /\ next \notin ccomplete
        /\ Incomplete \notin Objects
    BY <1>3, TypeParts, Rows DEF Tags, Objects, Incomplete
  <1>9. \A t \in types' \ types : t.tag = top.tag /\ t.of = top.o
    BY <1>2, <1>4 DEF Declared, Clone
  <1>10. \A p, d : EnumPair(p, d)' => EnumPair(p, d)
    <2> SUFFICES ASSUME NEW p, NEW d, EnumPair(p, d)'  PROVE EnumPair(p, d)
      OBVIOUS
    <2>1. p \in complete \/ p = top.o  BY <1>2 DEF EnumPair
    <2>2. CASE \E i \in DOMAIN scopes', t \in Enums : scopes'[i][t] = p /\ cscopes'[i][t] = d
      <3>1. \E i \in DOMAIN scopes, t \in Enums : scopes[i][t] = p /\ cscopes[i][t] = d
        BY <1>1, <1>7, <1>8, <2>2
      <3>2. IsEnum(p)  BY <3>1 DEF IsEnum
      <3> QED  BY <1>6, <2>1, <3>1, <3>2 DEF EnumPair
    <2>3. CASE \E t \in types' : t.tag \in Enums /\ t.of = p /\ t.c = d
      <3>1. PICK t \in types' : t.tag \in Enums /\ t.of = p /\ t.c = d  BY <2>3
      <3>2. t \in types  BY <1>4, <1>9, <3>1
      <3>3. p # Incomplete
        <4>1. complete \subseteq Objects  BY <1>3, TypeParts
        <4> QED  BY <1>4, <1>8, <2>1, <4>1
      <3>4. p \in complete  BY <3>1, <3>2, <3>3 DEF Paired, EnumClones
      <3> QED  BY <3>1, <3>2, <3>4 DEF EnumPair
    <2> QED  BY <2>2, <2>3 DEF EnumPair
  <1>11. \A x : IsStruct(x)' => IsStruct(x)
    <2> SUFFICES ASSUME NEW x, IsStruct(x)'  PROVE IsStruct(x)
      OBVIOUS
    <2>1. CASE \E i \in DOMAIN scopes', t \in Structs : scopes'[i][t] = x
      BY <1>7, <1>8, <2>1 DEF IsStruct
    <2>2. CASE \E t \in types' : t.tag \in Structs /\ t.of = x
      BY <1>6, <1>9, <2>2 DEF IsStruct
    <2> QED  BY <2>1, <2>2 DEF IsStruct
  <1> HIDE DEF n
  <1>12. complete \subseteq complete' /\ ccomplete \subseteq ccomplete'
    BY <1>1, <1>2
  <1>13. \A t \in types' \ types : t.tag \notin Enums
    BY <1>4, <1>9
  <1> QED  BY <1>8, <1>10, <1>11, <1>12, <1>13, PairedStep

LEMMA EnumBodyPairs ==
    ASSUME IInv, Paired, Regular, Regular', IInv',
           NEW tag \in Tags, NEW storage \in BOOLEAN, NEW has_def \in BOOLEAN,
           EnumBody(tag, storage, has_def)
    PROVE  Paired'
  <1> DEFINE c == Outside(tag, TRUE)
  <1>a. Live'
    BY DEF IInv, HaltsAreErrors, Regular, Live
  <1>1. /\ TypeOK /\ Live /\ tag \in Enums /\ tag \notin Structs
        /\ scopes' = insert(scopes, tag, next) /\ cscopes' = Entered(cscopes, tag, c)
        /\ Declared(has_def, tag, next, c)
        /\ complete' = complete \cup {next} /\ ccomplete' = ccomplete \cup {c}
        /\ c \notin ccomplete
    <2>1. /\ TypeOK /\ Live /\ tag \in Enums /\ tag \notin Structs
          /\ scopes' = insert(scopes, tag, next) /\ cscopes' = Entered(cscopes, tag, c)
          /\ Declared(has_def, tag, next, c)
          /\ complete' = complete \cup {next} /\ ccomplete' = ccomplete \cup {c}
          /\ cerrors' = IF c \in ccomplete THEN cerrors \cup {"enum_body"} ELSE cerrors
      BY <1>a, EnumBodyGiven
    <2> HIDE DEF c
    <2> QED  BY <2>1 DEF Regular
  <1>2. /\ c \in Objects \cup {next}
        /\ c # next => cscopes[Len(scopes)][tag] = c
    BY <1>1, Meant, MeantBy
  <1> HIDE DEF c
  <1>3. /\ DOMAIN scopes' = DOMAIN scopes
        /\ \A i \in DOMAIN scopes, t \in Tags :
              scopes'[i][t] = IF i = Len(scopes) /\ t = tag THEN next ELSE scopes[i][t]
    <2>1. scopes \in Table /\ Len(scopes) > 0
      BY <1>1, TypeParts
    <2>2. DOMAIN scopes' = DOMAIN scopes
      BY <1>1 DEF insert
    <2> QED  BY <1>1, <2>1, <2>2, Inserted
  <1>4. \A i \in DOMAIN scopes, t \in Tags :
           cscopes'[i][t] = IF i = Len(scopes) /\ t = tag THEN c ELSE cscopes[i][t]
    <2>1. /\ cscopes \in Table /\ Len(cscopes) > 0 /\ Len(cscopes) = Len(scopes)
          /\ DOMAIN cscopes = DOMAIN scopes
      BY <1>1, TypeParts, Rows
    <2>2. \A i \in DOMAIN cscopes, t \in Tags :
             cscopes'[i][t] = IF c = next /\ i = Len(cscopes) /\ t = tag THEN c ELSE cscopes[i][t]
      BY <1>1, <2>1, EnteredRows
    <2> QED  BY <1>2, <2>1, <2>2
  <1>5. /\ Structs \subseteq Tags /\ Enums \subseteq Tags
        /\ next \notin Objects /\ Len(scopes) \in DOMAIN scopes
    BY <1>1, Rows DEF Tags
  <1>6. \A t \in types' \ types : t.tag = tag /\ t.of = next /\ t.c = c
    BY <1>1 DEF Declared, Clone
  <1>7. \A i \in DOMAIN scopes, t \in Tags : scopes[i][t] # next
    <2>1. next # None /\ \A i \in DOMAIN scopes, t \in Tags : scopes[i][t] \in Objects \cup {None}
      BY <1>1, Rows
    <2> QED  BY <1>5, <2>1
  <1>8. \A p, d : EnumPair(p, d)' => EnumPair(p, d) \/ (p = next /\ d = c)
    <2> SUFFICES ASSUME NEW p, NEW d, EnumPair(p, d)'
                 PROVE  EnumPair(p, d) \/ (p = next /\ d = c)
      OBVIOUS
    <2>1. p \in complete \/ p = next  BY <1>1 DEF EnumPair
    <2>2. CASE \E i \in DOMAIN scopes', t \in Enums : scopes'[i][t] = p /\ cscopes'[i][t] = d
      <3>1. PICK i \in DOMAIN scopes, t \in Enums : scopes'[i][t] = p /\ cscopes'[i][t] = d
        BY <1>3, <2>2
      <3>2. CASE i = Len(scopes) /\ t = tag  BY <1>3, <1>4, <1>5, <3>1, <3>2
      <3>3. CASE ~(i = Len(scopes) /\ t = tag)
        <4>1. scopes[i][t] = p /\ cscopes[i][t] = d  BY <1>3, <1>4, <1>5, <3>1, <3>3
        <4>2. p # next  BY <1>5, <1>7, <4>1
        <4> QED  BY <2>1, <4>1, <4>2 DEF EnumPair
      <3> QED  BY <3>2, <3>3
    <2>3. CASE \E t \in types' : t.tag \in Enums /\ t.of = p /\ t.c = d
      <3>1. PICK t \in types' : t.tag \in Enums /\ t.of = p /\ t.c = d  BY <2>3
      <3>2. CASE t \in types
        <4>1. t.of # next
          <5>1. t.of \in Objects \cup {Incomplete}
            BY <1>1, <3>2, TypeParts DEF Cloned
          <5>2. next # Incomplete  BY <1>1, TypeParts DEF Incomplete
          <5> QED  BY <1>5, <5>1, <5>2
        <4> QED  BY <2>1, <3>1, <3>2, <4>1 DEF EnumPair
      <3>3. CASE t \notin types  BY <1>6, <3>1, <3>3
      <3> QED  BY <3>2, <3>3
    <2> QED  BY <2>2, <2>3 DEF EnumPair
  <1>9. \A x : IsStruct(x)' => IsStruct(x)
    BY <1>1, <1>3, <1>5, <1>6 DEF IsStruct
  <1>10. ~IsStruct(c)
    <2>1. CASE c = next  BY <1>1, <1>5, <2>1, StructNumbers
    <2>2. CASE c # next
      <3>1. IsEnum(c)  BY <1>1, <1>2, <1>5, <2>2 DEF IsEnum
      <3> QED  BY <1>1, <1>2, <2>2, <3>1, StructNumbers
    <2> QED  BY <2>1, <2>2
  <1> QED  BY <1>1, <1>6, <1>8, <1>9, <1>10, PairedStep

\* What neither enters nor completes anything.
LEMMA QuietPairs ==
    ASSUME IInv, Paired, Regular, UNCHANGED <<complete, ccomplete, types>>,
           \A i \in DOMAIN scopes', t \in Tags :
               \/ i \in DOMAIN scopes /\ scopes'[i][t] = scopes[i][t] /\ cscopes'[i][t] = cscopes[i][t]
               \/ scopes'[i][t] = None
    PROVE  Paired'
  <1>1. None \notin complete /\ next \notin ccomplete
    BY TypeParts, Rows DEF IInv
  <1>2. Structs \subseteq Tags /\ Enums \subseteq Tags
    BY DEF Tags
  <1>3. \A p, d : EnumPair(p, d)' => EnumPair(p, d)
    BY <1>1, <1>2 DEF EnumPair
  <1>4. \A x : IsStruct(x)' => IsStruct(x)
    BY <1>2 DEF IsStruct
  <1> QED  BY <1>1, <1>3, <1>4, PairedStep

LEMMA BlockPairs ==
    ASSUME IInv, Paired, Regular, EnterFunction \/ EnterBlock \/ LeaveBlock
    PROVE  Paired'
  <1>1. scopes \in Table /\ cscopes \in Table /\ Len(cscopes) = Len(scopes) /\ Len(scopes) \in Nat
    BY TypeParts DEF IInv, Table
  <1>2. \A i \in 1 .. Len(scopes) : i \in DOMAIN scopes
    BY <1>1 DEF Table
  <1>3. CASE EnterFunction \/ EnterBlock
    <2>1. /\ scopes' = Append(scopes, NoTags) /\ \E last : cscopes' = Append(cscopes, last)
          /\ UNCHANGED <<complete, types, ccomplete>>
      BY <1>3 DEF EnterFunction, EnterBlock
    <2>2. NoTags \in [Tags -> Objects \cup {None}] /\ \A t \in Tags : NoTags[t] = None
      BY DEF NoTags
    <2>3. /\ \A i \in 1 .. Len(scopes) : scopes'[i] = scopes[i] /\ cscopes'[i] = cscopes[i]
          /\ \A i \in DOMAIN scopes' : i \in 1 .. Len(scopes) \/ scopes'[i] = NoTags
      BY <1>1, <2>1, <2>2, AppendProperties DEF Table
    <2> QED  BY <1>2, <2>1, <2>2, <2>3, QuietPairs
  <1>4. CASE LeaveBlock
    <2>1. /\ scopes' = SubSeq(scopes, 1, Len(scopes) - 1) /\ Len(scopes) > 1
          /\ cscopes' = SubSeq(cscopes, 1, Len(cscopes) - 1)
          /\ UNCHANGED <<complete, types, ccomplete>>
      BY <1>4 DEF LeaveBlock
    <2>2. \A sc \in Table : Len(sc) > 1 =>
             /\ DOMAIN SubSeq(sc, 1, Len(sc) - 1) = 1 .. Len(sc) - 1
             /\ \A i \in 1 .. Len(sc) - 1 : SubSeq(sc, 1, Len(sc) - 1)[i] = sc[i]
             /\ 1 .. Len(sc) - 1 \subseteq DOMAIN sc
      BY SubSeqProperties DEF Table
    <2>3. /\ DOMAIN scopes' = 1 .. Len(scopes) - 1
          /\ \A i \in 1 .. Len(scopes) - 1 : scopes'[i] = scopes[i] /\ cscopes'[i] = cscopes[i]
          /\ 1 .. Len(scopes) - 1 \subseteq DOMAIN scopes
      BY <1>1, <2>1, <2>2
    <2> QED  BY <2>1, <2>3, QuietPairs
  <1> QED  BY <1>3, <1>4

LEMMA PairsStep ==
    ASSUME IInv, IInv', Paired, [Next]_vars
    PROVE  Paired'
  <1>1. CASE ~Regular'
    BY <1>1 DEF Paired, EnumsPaired, EnumClones
  <1>2. CASE Regular'
    <2>1. Regular  BY <1>2, RegularBefore
    <2>2. ASSUME NEW tag \in Tags, NEW storage \in BOOLEAN, NEW has_def \in BOOLEAN,
                 Specifier(tag, storage, has_def)
          PROVE  Paired'
      BY <1>2, <2>1, <2>2, MentionPairs, BeginBodyPairs, EnumBodyPairs DEF Specifier
    <2>3. CASE EndBody
      BY <1>2, <2>1, <2>3, EndBodyPairs
    <2>4. CASE (\E tag \in Tags : Member(tag)) \/ BeginParameters \/ EndParameters \/ UNCHANGED vars
      <3>1. UNCHANGED <<complete, ccomplete, types, scopes, cscopes>>
        BY <2>4 DEF Member, BeginParameters, EndParameters, vars
      <3> QED  BY <2>1, <3>1, QuietPairs
    <2>5. CASE EnterFunction \/ EnterBlock \/ LeaveBlock
      BY <2>1, <2>5, BlockPairs
    <2> QED  BY <2>2, <2>3, <2>4, <2>5 DEF Next
  <1> QED  BY <1>1, <1>2

(***************************************************************************)
(* Through any unit in which tags go where C puts them: what compares as   *)
(* one type is one type of C's, and what is one compares so; an enum's     *)
(* new object does not come between the types it is cloned into.           *)
(***************************************************************************)
THEOREM SameTypes == Spec => []SameTypesAreC
  <1>1. Init => Paired
    BY DEF Init, Paired, EnumsPaired, EnumClones, EnumPair
  <1>2. Spec => []Paired
    BY <1>1, PairsStep, Invariance, PTL DEF Spec
  <1>3. IInv /\ Paired => SameTypesAreC
    <2> SUFFICES ASSUME IInv, Paired, Regular, NEW t \in types, NEW u \in types,
                        Incomplete \notin {t.of, u.of}
                 PROVE  is_same(t, u) <=> t.c = u.c
      BY DEF SameTypesAreC
    <2>1. /\ Live /\ Structs \cap Enums = {}
          /\ t.tag \in Structs \cup Enums /\ u.tag \in Structs \cup Enums
      BY RegularIsLive, TypeParts, TagScopesAssumption DEF IInv, Cloned, Tags
    <2>2. \A v \in types : v.tag \in Structs => v.of = v.c /\ IsStruct(v.c)
      BY <2>1, StructNumbers DEF ClonesNameTheirStruct, IInv, IsStruct
    <2>3. \A v \in types : v.tag \in Enums /\ v.of # Incomplete =>
             ~IsStruct(v.c) /\ EnumPair(v.of, v.c)
      BY DEF Paired, EnumClones, EnumPair
    <2>4. CASE t.tag \in Structs /\ u.tag \in Structs
      BY <2>1, <2>2, <2>4 DEF is_same
    <2>5. CASE t.tag \in Enums /\ u.tag \in Enums
      BY <2>3, <2>5 DEF is_same, Paired, EnumsPaired
    <2>6. CASE (t.tag \in Structs /\ u.tag \in Enums) \/ (t.tag \in Enums /\ u.tag \in Structs)
      BY <2>1, <2>2, <2>3, <2>6 DEF is_same
    <2> QED  BY <2>1, <2>4, <2>5, <2>6
  <1> QED  BY <1>2, <1>3, Invariance, PTL
=============================================================================
