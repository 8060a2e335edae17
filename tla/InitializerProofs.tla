------------------------ MODULE InitializerProofs ------------------------
(***************************************************************************)
(* The walks over initializer lists against C's placement of items, for    *)
(* any types and initializers, nested to any depth.                        *)
(*                                                                         *)
(* C says by the order of places what the next item initializes; the walk  *)
(* knows a cursor in a list and a frame in an aggregate.  Rest is what a   *)
(* frame has still to fill, Left what is left of a list's object behind    *)
(* its items, and Track says that they are the same: therefore the next    *)
(* component is the first place left, and the next item's object           *)
(* (NextItem).  An item that is a value has a scalar for its object, so    *)
(* when an aggregate is entered without braces only the scalars left have  *)
(* to be the same.                                                         *)
(*                                                                         *)
(* An item is behind the walk if a list on the stack has passed it         *)
(* (Consumed).  What was stored and warned of is C's for the items that    *)
(* are (Settled); in the end all are.                                      *)
(***************************************************************************)
EXTENDS Initializer, FiniteSetTheorems, WellFoundedInduction, TLAPS

-----------------------------------------------------------------------------
(* Induction.                                                              *)

\* Every nonempty set of naturals has a least element.
LEMMA Least ==
    ASSUME NEW T, T \subseteq Nat, T # {}
    PROVE  \E x \in T : \A y \in T : x <= y
  <1>1. PICK x \in T : \A y \in T : ~(<<y, x>> \in OpToRel(<, Nat))
    BY NatLessThanWellFounded, WFMin
  <1>2. ASSUME NEW y \in T  PROVE x <= y
    <2>1. x \in Nat /\ y \in Nat /\ <<y, x>> \in Nat \X Nat  OBVIOUS
    <2>2. y < x => <<y, x>> \in OpToRel(<, Nat)  BY <2>1 DEF OpToRel
    <2>3. ~(y < x)  BY <1>1, <2>2
    <2> QED  BY <2>1, <2>3
  <1> QED  BY <1>2

\* Induction, as it is needed here: a set of naturals that is closed under
\* successors and begins at 0 has them all.
LEMMA Induction ==
    ASSUME NEW S, 0 \in S, \A n \in Nat : n \in S => n + 1 \in S
    PROVE  \A n \in Nat : n \in S
  <1> SUFFICES ASSUME NEW n \in Nat, n \notin S  PROVE FALSE  OBVIOUS
  <1> DEFINE T == {k \in Nat : k \notin S}
  <1>1. T \subseteq Nat /\ T # {}  OBVIOUS
  <1>2. PICK x \in T : \A y \in T : x <= y  BY <1>1, Least
  <1>3. x \in Nat /\ x # 0 /\ x - 1 \in Nat /\ ~(x <= x - 1)  BY <1>2
  <1>4. x - 1 \in S  BY <1>2, <1>3
  <1>5. (x - 1) + 1 \in S  BY <1>3, <1>4
  <1>6. (x - 1) + 1 = x  BY <1>3
  <1> QED  BY <1>2, <1>5, <1>6

-----------------------------------------------------------------------------
(* Places and their order.                                                 *)

Places == Seq(Nat)

LEMMA WithinIs ==
    ASSUME NEW p \in Places, NEW q \in Places
    PROVE  Within(p, q) <=> Len(p) <= Len(q) /\ \A k \in 1 .. Len(p) : p[k] = q[k]
  BY DEF Within, Places

\* The front part of a sequence.
LEMMA SubSeqFacts ==
    ASSUME NEW p \in Places, NEW n \in 0 .. Len(p)
    PROVE  /\ SubSeq(p, 1, n) \in Places /\ Len(SubSeq(p, 1, n)) = n
           /\ \A j \in 1 .. n : SubSeq(p, 1, n)[j] = p[j]
  <1>1. p \in Seq(Nat) /\ Len(p) \in Nat /\ n \in Nat /\ \A j \in 1 .. n : p[j] \in Nat
    BY DEF Places
  <1>2. SubSeq(p, 1, n) = [j \in 1 .. n |-> p[j]]  BY <1>1
  <1>3. [j \in 1 .. n |-> p[j]] \in Seq(Nat) /\ Len([j \in 1 .. n |-> p[j]]) = n  BY <1>1
  <1> QED  BY <1>1, <1>2, <1>3 DEF Places

LEMMA BeforeIs ==
    ASSUME NEW p \in Places, NEW q \in Places
    PROVE  Before(p, q) <=> \E k \in 1 .. Len(p) : /\ k <= Len(q) /\ p[k] < q[k]
                                                   /\ \A j \in 1 .. k - 1 : p[j] = q[j]
  <1>1. ASSUME NEW k \in 1 .. Len(p), k <= Len(q)
        PROVE  SubSeq(p, 1, k - 1) = SubSeq(q, 1, k - 1) <=> \A j \in 1 .. k - 1 : p[j] = q[j]
    <2>1. k - 1 \in 0 .. Len(p) /\ k - 1 \in 0 .. Len(q)  BY <1>1 DEF Places
    <2> DEFINE a == SubSeq(p, 1, k - 1)
               b == SubSeq(q, 1, k - 1)
    <2>2. /\ a \in Places /\ Len(a) = k - 1 /\ \A j \in 1 .. k - 1 : a[j] = p[j]
          /\ b \in Places /\ Len(b) = k - 1 /\ \A j \in 1 .. k - 1 : b[j] = q[j]
      BY <2>1, SubSeqFacts
    <2> HIDE DEF a, b
    <2>3. a = b <=> \A j \in 1 .. k - 1 : a[j] = b[j]  BY <2>2 DEF Places
    <2>4. a = b <=> \A j \in 1 .. k - 1 : p[j] = q[j]  BY <2>2, <2>3
    <2> QED  BY <2>4 DEF a, b
  <1>2. \A k : k \in DOMAIN p \cap DOMAIN q <=> k \in 1 .. Len(p) /\ k <= Len(q)
    BY DEF Places
  <1> QED  BY <1>1, <1>2 DEF Before

LEMMA WithinRefl == ASSUME NEW p \in Places  PROVE Within(p, p)
  BY WithinIs DEF Places

LEMMA WithinTrans ==
    ASSUME NEW p \in Places, NEW q \in Places, NEW r \in Places, Within(p, q), Within(q, r)
    PROVE  Within(p, r)
  BY WithinIs DEF Places

LEMMA WithinAntisym ==
    ASSUME NEW p \in Places, NEW q \in Places, Within(p, q), Within(q, p)
    PROVE  p = q
  <1>1. Len(p) = Len(q) /\ \A k \in 1 .. Len(p) : p[k] = q[k]  BY WithinIs DEF Places
  <1> QED  BY <1>1 DEF Places

\* Two that a place is a part of are one within the other.
LEMMA WithinBoth ==
    ASSUME NEW p \in Places, NEW q \in Places, NEW r \in Places, Within(p, r), Within(q, r)
    PROVE  Within(p, q) \/ Within(q, p)
  <1>1. Len(p) \in Nat /\ Len(q) \in Nat /\ Len(r) \in Nat  BY DEF Places
  <1>2. /\ Len(p) <= Len(r) /\ \A k \in 1 .. Len(p) : p[k] = r[k]
        /\ Len(q) <= Len(r) /\ \A k \in 1 .. Len(q) : q[k] = r[k]
    BY WithinIs
  <1>3. CASE Len(p) <= Len(q)
    <2>1. \A k \in 1 .. Len(p) : p[k] = q[k]  BY <1>1, <1>2, <1>3
    <2> QED  BY <1>3, <2>1, WithinIs
  <1>4. CASE Len(q) <= Len(p)
    <2>1. \A k \in 1 .. Len(q) : q[k] = p[k]  BY <1>1, <1>2, <1>4
    <2> QED  BY <1>4, <2>1, WithinIs
  <1> QED  BY <1>1, <1>3, <1>4

LEMMA BeforeParts ==
    ASSUME NEW p \in Places, NEW q \in Places, NEW r \in Places, Before(p, q)
    PROVE  /\ Within(q, r) => Before(p, r)
           /\ Within(p, r) => Before(r, q)
  <1>1. PICK k \in 1 .. Len(p) : /\ k <= Len(q) /\ p[k] < q[k]
                                 /\ \A j \in 1 .. k - 1 : p[j] = q[j]
    BY BeforeIs
  <1>2. Len(p) \in Nat /\ Len(q) \in Nat /\ Len(r) \in Nat /\ k \in Nat  BY <1>1 DEF Places
  <1>3. ASSUME Within(q, r)  PROVE Before(p, r)
    <2>1. Len(q) <= Len(r) /\ \A j \in 1 .. Len(q) : q[j] = r[j]  BY <1>3, WithinIs
    <2>2. k <= Len(r) /\ q[k] = r[k] /\ \A j \in 1 .. k - 1 : p[j] = r[j]  BY <1>1, <1>2, <2>1
    <2> QED  BY <1>1, <2>2, BeforeIs
  <1>4. ASSUME Within(p, r)  PROVE Before(r, q)
    <2>1. Len(p) <= Len(r) /\ \A j \in 1 .. Len(p) : p[j] = r[j]  BY <1>4, WithinIs
    <2>2. k \in 1 .. Len(r) /\ p[k] = r[k] /\ \A j \in 1 .. k - 1 : r[j] = q[j]  BY <1>1, <1>2, <2>1
    <2> QED  BY <1>1, <2>2, BeforeIs
  <1> QED  BY <1>3, <1>4

LEMMA BeforeTrans ==
    ASSUME NEW p \in Places, NEW q \in Places, NEW r \in Places, Before(p, q), Before(q, r)
    PROVE  Before(p, r)
  <1>1. PICK k \in 1 .. Len(p) : /\ k <= Len(q) /\ p[k] < q[k]
                                 /\ \A j \in 1 .. k - 1 : p[j] = q[j]
    BY BeforeIs
  <1>2. PICK m \in 1 .. Len(q) : /\ m <= Len(r) /\ q[m] < r[m]
                                 /\ \A j \in 1 .. m - 1 : q[j] = r[j]
    BY BeforeIs
  <1>3. \A x \in 1 .. Len(p) : p[x] \in Nat  BY DEF Places
  <1>4. \A x \in 1 .. Len(q) : q[x] \in Nat  BY DEF Places
  <1>5. \A x \in 1 .. Len(r) : r[x] \in Nat  BY DEF Places
  <1>6. Len(p) \in Nat /\ Len(q) \in Nat /\ Len(r) \in Nat  BY DEF Places
  <1>7. CASE k <= m
    <2>1. k <= Len(r) /\ p[k] < r[k] /\ \A j \in 1 .. k - 1 : p[j] = r[j]
      BY <1>1, <1>2, <1>3, <1>4, <1>5, <1>6, <1>7
    <2> QED  BY <2>1, BeforeIs
  <1>8. CASE m < k
    <2>1. m \in 1 .. Len(p) /\ m <= Len(r) /\ p[m] < r[m] /\ \A j \in 1 .. m - 1 : p[j] = r[j]
      BY <1>1, <1>2, <1>3, <1>4, <1>5, <1>6, <1>8
    <2> QED  BY <2>1, BeforeIs
  <1> QED  BY <1>6, <1>7, <1>8

LEMMA BeforeOnly ==
    ASSUME NEW p \in Places, NEW q \in Places, Before(p, q)
    PROVE  ~Within(p, q) /\ ~Within(q, p) /\ ~Before(q, p)
  <1>1. PICK k \in 1 .. Len(p) : /\ k <= Len(q) /\ p[k] < q[k]
                                 /\ \A j \in 1 .. k - 1 : p[j] = q[j]
    BY BeforeIs
  <1>2. p[k] \in Nat /\ q[k] \in Nat /\ k \in 1 .. Len(q)  BY <1>1 DEF Places
  <1>3. ~Within(p, q) /\ ~Within(q, p)  BY <1>1, <1>2, WithinIs
  <1>4. ASSUME Before(q, p)  PROVE FALSE
    <2>1. PICK m \in 1 .. Len(q) : /\ m <= Len(p) /\ q[m] < p[m]
                                   /\ \A j \in 1 .. m - 1 : q[j] = p[j]
      BY <1>4, BeforeIs
    <2>2. p[m] \in Nat /\ q[m] \in Nat  BY <2>1 DEF Places
    <2>3. k < m \/ m < k \/ k = m  OBVIOUS
    <2> QED  BY <1>1, <1>2, <2>1, <2>2, <2>3
  <1> QED  BY <1>3, <1>4

LEMMA PlacesCompare ==
    ASSUME NEW p \in Places, NEW q \in Places
    PROVE  Within(p, q) \/ Within(q, p) \/ Before(p, q) \/ Before(q, p)
  <1> DEFINE T == {k \in Nat : k \in 1 .. Len(p) /\ k \in 1 .. Len(q) /\ p[k] # q[k]}
  <1>0. Len(p) \in Nat /\ Len(q) \in Nat  BY DEF Places
  <1>1. CASE T = {}
    <2>1. \A k \in 1 .. Len(p) : k <= Len(q) => p[k] = q[k]  BY <1>0, <1>1
    <2>2. CASE Len(p) <= Len(q)  BY <1>0, <2>1, <2>2, WithinIs
    <2>3. CASE Len(q) <= Len(p)  BY <1>0, <2>1, <2>3, WithinIs
    <2> QED  BY <1>0, <2>2, <2>3
  <1>2. CASE T # {}
    <2>1. PICK k \in T : \A y \in T : k <= y  BY <1>2, Least
    <2>2. \A j \in 1 .. k - 1 : p[j] = q[j]  BY <1>0, <2>1
    <2>3. p[k] \in Nat /\ q[k] \in Nat  BY <2>1 DEF Places
    <2>4. CASE p[k] < q[k]  BY <1>0, <2>1, <2>2, <2>4, BeforeIs
    <2>5. CASE q[k] < p[k]  BY <1>0, <2>1, <2>2, <2>5, BeforeIs
    <2> QED  BY <2>1, <2>3, <2>4, <2>5
  <1> QED  BY <1>1, <1>2

\* The parts of a part, and what comes behind it.
LEMMA AppendPlace ==
    ASSUME NEW p \in Places, NEW i \in Nat
    PROVE  /\ Append(p, i) \in Places /\ Append(p, i) # p /\ Len(Append(p, i)) = Len(p) + 1
           /\ Within(p, Append(p, i)) /\ Last(Append(p, i)) = i /\ Front(Append(p, i)) = p
  <1> DEFINE a == Append(p, i)
  <1>1. a \in Places /\ Len(a) = Len(p) + 1 /\ a[Len(p) + 1] = i
        /\ \A k \in 1 .. Len(p) : a[k] = p[k]
    BY DEF Places
  <1>2. Len(p) \in Nat  BY DEF Places
  <1> HIDE DEF a
  <1>3. Within(p, a)  BY <1>1, <1>2, WithinIs
  <1>4. a # p  BY <1>1, <1>2
  <1>5. Last(a) = i  BY <1>1 DEF Last
  <1>6. Front(a) = p
    <2>1. Front(a) = SubSeq(a, 1, Len(p))  BY <1>1, <1>2 DEF Front
    <2>2. /\ SubSeq(a, 1, Len(p)) \in Places /\ Len(SubSeq(a, 1, Len(p))) = Len(p)
          /\ \A j \in 1 .. Len(p) : SubSeq(a, 1, Len(p))[j] = a[j]
      BY <1>1, <1>2, SubSeqFacts
    <2> DEFINE b == SubSeq(a, 1, Len(p))
    <2> HIDE DEF b
    <2>3. b \in Places /\ Len(b) = Len(p) /\ \A j \in 1 .. Len(p) : b[j] = p[j]
      BY <1>1, <2>2 DEF b
    <2>4. b = p  BY <2>3 DEF Places
    <2> QED  BY <2>1, <2>4 DEF b
  <1> QED  BY <1>1, <1>3, <1>4, <1>5, <1>6 DEF a

LEMMA AppendWithin ==
    ASSUME NEW p \in Places, NEW i \in Nat, NEW r \in Places
    PROVE  Within(Append(p, i), r) <=> Within(p, r) /\ Len(p) < Len(r) /\ r[Len(p) + 1] = i
  <1> DEFINE a == Append(p, i)
  <1>1. a \in Places /\ Len(a) = Len(p) + 1 /\ a[Len(p) + 1] = i
        /\ \A k \in 1 .. Len(p) : a[k] = p[k]
    BY DEF Places
  <1>2. Len(p) \in Nat /\ Len(r) \in Nat  BY DEF Places
  <1> HIDE DEF a
  <1>3. Within(a, r) <=> Len(a) <= Len(r) /\ \A k \in 1 .. Len(a) : a[k] = r[k]  BY <1>1, WithinIs
  <1>4. Within(p, r) <=> Len(p) <= Len(r) /\ \A k \in 1 .. Len(p) : p[k] = r[k]  BY WithinIs
  <1>5. \A k \in 1 .. Len(a) : k \in 1 .. Len(p) \/ k = Len(p) + 1  BY <1>1, <1>2
  <1>6. Within(a, r) => Within(p, r) /\ Len(p) < Len(r) /\ r[Len(p) + 1] = i
    BY <1>1, <1>2, <1>3, <1>4
  <1>7. Within(p, r) /\ Len(p) < Len(r) /\ r[Len(p) + 1] = i => Within(a, r)
    BY <1>1, <1>2, <1>3, <1>4, <1>5
  <1>8. Within(a, r) <=> Within(p, r) /\ Len(p) < Len(r) /\ r[Len(p) + 1] = i  BY <1>6, <1>7
  <1> QED  BY <1>8 DEF a

LEMMA AppendBefore ==
    ASSUME NEW p \in Places, NEW i \in Nat, NEW r \in Places
    PROVE  Before(Append(p, i), r) <=> \/ Before(p, r)
                                       \/ Within(p, r) /\ Len(p) < Len(r) /\ i < r[Len(p) + 1]
  <1> DEFINE a == Append(p, i)
  <1>1. a \in Places /\ Len(a) = Len(p) + 1 /\ a[Len(p) + 1] = i
        /\ \A k \in 1 .. Len(p) : a[k] = p[k]
    BY DEF Places
  <1>2. Len(p) \in Nat /\ Len(r) \in Nat  BY DEF Places
  <1> HIDE DEF a
  <1>3. ASSUME Before(a, r), ~Before(p, r)
        PROVE  Within(p, r) /\ Len(p) < Len(r) /\ i < r[Len(p) + 1]
    <2>1. PICK k \in 1 .. Len(a) : /\ k <= Len(r) /\ a[k] < r[k]
                                   /\ \A j \in 1 .. k - 1 : a[j] = r[j]
      BY <1>1, <1>3, BeforeIs
    <2>2. k \notin 1 .. Len(p)
      <3> SUFFICES ASSUME k \in 1 .. Len(p)  PROVE FALSE  OBVIOUS
      <3>1. p[k] < r[k] /\ \A j \in 1 .. k - 1 : p[j] = r[j]  BY <1>1, <1>2, <2>1
      <3> QED  BY <1>3, <2>1, <3>1, BeforeIs
    <2>3. k = Len(p) + 1  BY <1>1, <1>2, <2>1, <2>2
    <2>4. \A j \in 1 .. Len(p) : p[j] = r[j]  BY <1>1, <1>2, <2>1, <2>3
    <2>5. Within(p, r)  BY <1>2, <2>1, <2>3, <2>4, WithinIs
    <2> QED  BY <1>1, <1>2, <2>1, <2>3, <2>5
  <1>4. ASSUME Before(p, r)  PROVE Before(a, r)
    <2>1. Within(p, a)  BY <1>1, <1>2, WithinIs
    <2> QED  BY <1>1, <1>4, <2>1, BeforeParts
  <1>5. ASSUME Within(p, r), Len(p) < Len(r), i < r[Len(p) + 1]  PROVE Before(a, r)
    <2>1. \A j \in 1 .. Len(p) : p[j] = r[j]  BY <1>5, WithinIs
    <2>2. Len(p) + 1 \in 1 .. Len(a) /\ Len(p) + 1 <= Len(r)  BY <1>1, <1>2, <1>5
    <2>3. \A j \in 1 .. (Len(p) + 1) - 1 : a[j] = r[j]  BY <1>1, <1>2, <2>1
    <2> QED  BY <1>1, <1>5, <2>2, <2>3, BeforeIs
  <1>6. Before(a, r) <=> \/ Before(p, r)
                         \/ Within(p, r) /\ Len(p) < Len(r) /\ i < r[Len(p) + 1]
    BY <1>3, <1>4, <1>5
  <1> QED  BY <1>6 DEF a

\* A place is a part of its front.
LEMMA FrontPlace ==
    ASSUME NEW p \in Places, p # <<>>
    PROVE  /\ Front(p) \in Places /\ Last(p) \in Nat /\ Len(Front(p)) = Len(p) - 1
           /\ p = Append(Front(p), Last(p)) /\ Within(Front(p), p) /\ Front(p) # p
  <1>1. Len(p) \in Nat \ {0}  BY DEF Places
  <1>2. /\ Front(p) \in Places /\ Last(p) \in Nat /\ Len(Front(p)) = Len(p) - 1
        /\ \A j \in 1 .. Len(p) - 1 : Front(p)[j] = p[j]
    <2>1. Len(p) - 1 \in 0 .. Len(p)  BY <1>1
    <2>2. Front(p) = SubSeq(p, 1, Len(p) - 1) /\ Last(p) = p[Len(p)]  BY DEF Front, Last
    <2>3. p[Len(p)] \in Nat  BY <1>1 DEF Places
    <2>4. /\ SubSeq(p, 1, Len(p) - 1) \in Places /\ Len(SubSeq(p, 1, Len(p) - 1)) = Len(p) - 1
          /\ \A j \in 1 .. Len(p) - 1 : SubSeq(p, 1, Len(p) - 1)[j] = p[j]
      BY <2>1, SubSeqFacts
    <2> QED  BY <2>2, <2>3, <2>4
  <1>3. p = Append(Front(p), Last(p))
    <2> DEFINE f == Front(p)
    <2>1. f \in Places /\ Len(f) = Len(p) - 1 /\ \A j \in 1 .. Len(p) - 1 : f[j] = p[j]  BY <1>2
    <2>2. Last(p) = p[Len(p)]  BY DEF Last
    <2> HIDE DEF f
    <2>3. p = Append(f, Last(p))  BY <1>1, <1>2, <2>1, <2>2 DEF Places
    <2> QED  BY <2>3 DEF f
  <1>4. Within(Front(p), p) /\ Front(p) # p  BY <1>2, <1>3, AppendPlace
  <1> QED  BY <1>2, <1>3, <1>4

\* What a place is strictly within, it is within the front of.
LEMMA WithinFront ==
    ASSUME NEW p \in Places, NEW q \in Places, Within(p, q), p # q
    PROVE  q # <<>> /\ Within(p, Front(q)) /\ Len(p) < Len(q)
  <1>1. Len(p) \in Nat /\ Len(q) \in Nat /\ Len(p) <= Len(q)  BY WithinIs DEF Places
  <1>2. Len(p) # Len(q)
    <2> SUFFICES ASSUME Len(p) = Len(q)  PROVE FALSE  OBVIOUS
    <2>1. Within(q, p)  BY WithinIs
    <2> QED  BY <2>1, WithinAntisym
  <1>3. Len(p) < Len(q)  BY <1>1, <1>2
  <1>4. q # <<>>  BY <1>1, <1>3
  <1>5. Front(q) \in Places /\ Len(Front(q)) = Len(q) - 1 /\ Within(Front(q), q)
    BY <1>4, FrontPlace
  <1>6. Within(p, Front(q)) \/ Within(Front(q), p)  BY <1>5, WithinBoth
  <1>7. CASE Within(Front(q), p)
    <2>1. Len(p) = Len(Front(q))  BY <1>1, <1>3, <1>5, <1>7, WithinIs
    <2>2. \A k \in 1 .. Len(p) : Front(q)[k] = p[k]  BY <1>5, <1>7, <2>1, WithinIs
    <2> QED  BY <1>3, <1>4, <1>5, <2>1, <2>2, WithinIs
  <1> QED  BY <1>3, <1>4, <1>6, <1>7

-----------------------------------------------------------------------------
(* The first of a set of places.                                           *)

NotAfter(p, q) == Within(p, q) \/ Before(p, q)

LEMMA NotAfterTrans ==
    ASSUME NEW p \in Places, NEW q \in Places, NEW r \in Places, NotAfter(p, q), NotAfter(q, r)
    PROVE  NotAfter(p, r)
  <1>1. CASE Within(p, q) /\ Within(q, r)  BY <1>1, WithinTrans DEF NotAfter
  <1>2. CASE Before(p, q) /\ Within(q, r)  BY <1>2, BeforeParts DEF NotAfter
  <1>3. CASE Before(p, q) /\ Before(q, r)  BY <1>3, BeforeTrans DEF NotAfter
  <1>4. CASE Within(p, q) /\ Before(q, r)
    <2>1. Within(p, r) \/ Within(r, p) \/ Before(p, r) \/ Before(r, p)  BY PlacesCompare
    <2>2. ASSUME Within(r, p)  PROVE FALSE
      <3>1. Within(r, q)  BY <1>4, <2>2, WithinTrans
      <3> QED  BY <1>4, <3>1, BeforeOnly
    <2>3. ASSUME Before(r, p)  PROVE FALSE
      <3>1. Before(r, q)  BY <1>4, <2>3, BeforeParts
      <3> QED  BY <1>4, <3>1, BeforeOnly
    <2> QED  BY <2>1, <2>2, <2>3 DEF NotAfter
  <1> QED  BY <1>1, <1>2, <1>3, <1>4 DEF NotAfter

LEMMA NotAfterAntisym ==
    ASSUME NEW p \in Places, NEW q \in Places, NotAfter(p, q), NotAfter(q, p)
    PROVE  p = q
  <1>1. ~Before(p, q) /\ ~Before(q, p)  BY BeforeOnly DEF NotAfter
  <1> QED  BY <1>1, WithinAntisym DEF NotAfter

\* Every finite set of places has a first one.
LEMMA FirstExists ==
    ASSUME NEW S \in SUBSET Places, IsFiniteSet(S), S # {}
    PROVE  \E p \in S : \A q \in S : NotAfter(p, q)
  <1> DEFINE T == {n \in Nat : \A A \in SUBSET Places :
                       IsFiniteSet(A) /\ A # {} /\ Cardinality(A) = n
                           => \E p \in A : \A q \in A : NotAfter(p, q)}
  <1>1. 0 \in T
    <2> SUFFICES ASSUME NEW A \in SUBSET Places, IsFiniteSet(A), A # {}, Cardinality(A) = 0
                 PROVE  FALSE
      OBVIOUS
    <2> QED  BY FS_EmptySet
  <1>2. ASSUME NEW n \in Nat, n \in T  PROVE n + 1 \in T
    <2> SUFFICES ASSUME NEW A \in SUBSET Places, IsFiniteSet(A), A # {}, Cardinality(A) = n + 1
                 PROVE  \E p \in A : \A q \in A : NotAfter(p, q)
      OBVIOUS
    <2>1. PICK x \in A : TRUE  OBVIOUS
    <2> DEFINE B == A \ {x}
    <2>2. IsFiniteSet(B) /\ Cardinality(B) = n
      <3>1. IsFiniteSet(A \ {x}) /\ Cardinality(A \ {x}) = Cardinality(A) - 1
        BY <2>1, FS_RemoveElement
      <3> QED  BY <3>1
    <2>3. x \in Places /\ NotAfter(x, x)  BY <2>1, WithinRefl DEF NotAfter
    <2>4. CASE B = {}  BY <2>1, <2>3, <2>4
    <2>5. CASE B # {}
      <3>1. B \in SUBSET Places  OBVIOUS
      <3>2. PICK y \in B : \A q \in B : NotAfter(y, q)  BY <1>2, <2>2, <2>5, <3>1
      <3>3. y \in Places /\ y \in A  BY <3>1, <3>2
      <3>4. NotAfter(x, y) \/ NotAfter(y, x)  BY <2>3, <3>3, PlacesCompare DEF NotAfter
      <3>5. CASE NotAfter(x, y)
        <4>1. \A q \in B : NotAfter(x, q)  BY <2>3, <3>1, <3>2, <3>3, <3>5, NotAfterTrans
        <4> QED  BY <2>1, <2>3, <4>1
      <3>6. CASE NotAfter(y, x)  BY <3>2, <3>3, <3>6
      <3> QED  BY <3>4, <3>5, <3>6
    <2> QED  BY <2>4, <2>5
  <1> HIDE DEF T
  <1>3. \A n \in Nat : n \in T  BY <1>1, <1>2, Induction
  <1>4. Cardinality(S) \in Nat  BY FS_CardinalityType
  <1> QED  BY <1>3, <1>4 DEF T

LEMMA FirstIn ==
    ASSUME NEW S \in SUBSET Places, IsFiniteSet(S), S # {}
    PROVE  FirstOf(S) \in S /\ \A q \in S : NotAfter(FirstOf(S), q)
  <1>1. \E p \in S : \A q \in S : Within(p, q) \/ Before(p, q)  BY FirstExists DEF NotAfter
  <1>2. FirstOf(S) = CHOOSE p \in S : \A q \in S : Within(p, q) \/ Before(p, q)  BY DEF FirstOf
  <1> QED  BY <1>1, <1>2 DEF NotAfter

\* There is one first place at most.
LEMMA FirstIs ==
    ASSUME NEW S \in SUBSET Places, NEW p \in S, \A q \in S : NotAfter(p, q)
    PROVE  FirstOf(S) = p
  <1>1. \E x \in S : \A q \in S : Within(x, q) \/ Before(x, q)  BY DEF NotAfter
  <1> DEFINE f == CHOOSE x \in S : \A q \in S : Within(x, q) \/ Before(x, q)
  <1>2. FirstOf(S) = f  BY DEF FirstOf
  <1>3. f \in S /\ \A q \in S : Within(f, q) \/ Before(f, q)  BY <1>1
  <1> HIDE DEF f
  <1>4. NotAfter(f, p) /\ NotAfter(p, f) /\ f \in Places /\ p \in Places  BY <1>3 DEF NotAfter
  <1>5. f = p  BY <1>4, NotAfterAntisym
  <1> QED  BY <1>2, <1>5

LEMMA FirstOfNone == FirstOf({}) = End
  BY DEF FirstOf

-----------------------------------------------------------------------------
(* Trees.                                                                  *)

\* What TypesAssumption and ListsAssumption say of every tree.
TreeOK(t) ==
    /\ IsFiniteSet(DOMAIN t) /\ <<>> \in DOMAIN t
    /\ t[<<>>].len = 1 /\ Parts(t[<<>>]) = 1
    /\ \A p \in DOMAIN t :
          /\ p \in Places /\ Parts(t[p]) \in Nat
          /\ p # <<>> => Front(p) \in DOMAIN t /\ Last(p) \in 1 .. Parts(t[Front(p)])
          /\ \A i \in 1 .. Parts(t[p]) : Append(p, i) \in DOMAIN t

LEMMA TypeTree ==
    ASSUME NEW t \in Types
    PROVE  /\ TreeOK(t)
           /\ t[<<>>].kind = "array"
           /\ t \in [DOMAIN t -> [kind : {"scalar", "array", "struct", "union"},
                                  len : Nat \cup {Unsized}]]
           /\ \A p \in DOMAIN t : /\ t[p].kind = "scalar" => Parts(t[p]) = 0
                                  /\ t[p].len = Unsized => p = <<1>> /\ t[p].kind = "array"
  <1>1. IsTree(t, {"scalar", "array", "struct", "union"}, Nat \cup {Unsized})
    BY TypesAssumption
  <1>2. t \in [DOMAIN t -> [kind : {"scalar", "array", "struct", "union"},
                            len : Nat \cup {Unsized}]]
    BY <1>1 DEF IsTree
  <1>3. \A p \in DOMAIN t : t[p].len \in Nat \cup {Unsized}  BY <1>2
  <1>4. \A p \in DOMAIN t : Parts(t[p]) \in Nat  BY <1>3, BoundAssumption DEF Parts
  <1>5. TreeOK(t)  BY <1>1, <1>4 DEF IsTree, TreeOK, Places
  <1>6. \A p \in DOMAIN t : /\ t[p].kind = "scalar" => t[p].len = 0
                            /\ t[p].len = Unsized => p = <<1>> /\ t[p].kind = "array"
    BY TypesAssumption
  <1>7. t[<<>>].kind = "array"  BY TypesAssumption
  <1>8. \A p \in DOMAIN t : t[p].kind = "scalar" => Parts(t[p]) = 0
    BY <1>6, BoundAssumption DEF Parts
  <1> QED  BY <1>2, <1>5, <1>6, <1>7, <1>8

LEMMA ListTree ==
    ASSUME NEW l \in Lists
    PROVE  /\ TreeOK(l)
           /\ l[<<>>].kind = "list"
           /\ \A p \in DOMAIN l : /\ l[p].kind \in {"list", "constant"} \cup NotConstant
                                  /\ l[p].len \in Nat /\ Parts(l[p]) = l[p].len
                                  /\ l[p].kind # "list" => l[p].len = 0
  <1>1. IsTree(l, {"list", "constant"} \cup NotConstant, Nat)
    <2>1. {"list", "constant"} \cup NotConstant = {"list", "constant", "var", "aggregate"}
      BY DEF NotConstant
    <2> QED  BY <2>1, ListsAssumption
  <1>2. l \in [DOMAIN l -> [kind : {"list", "constant"} \cup NotConstant, len : Nat]]  BY <1>1 DEF IsTree
  <1>3. \A p \in DOMAIN l : l[p].kind \in {"list", "constant"} \cup NotConstant /\ l[p].len \in Nat
    BY <1>2
  <1>4. \A p \in DOMAIN l : Parts(l[p]) = l[p].len
    BY <1>3, BoundAssumption DEF Parts, NotConstant
  <1>5. TreeOK(l)  BY <1>1, <1>3, <1>4 DEF IsTree, TreeOK, Places
  <1>6. l[<<>>].kind = "list" /\ \A p \in DOMAIN l : l[p].kind # "list" => l[p].len = 0
    BY ListsAssumption
  <1> QED  BY <1>3, <1>4, <1>5, <1>6

\* Whatever has a part in a tree is in it.
LEMMA TreeWithin ==
    ASSUME NEW t, TreeOK(t), NEW q \in DOMAIN t, NEW p \in Places, Within(p, q)
    PROVE  p \in DOMAIN t
  <1> DEFINE T == {n \in Nat : \A r \in DOMAIN t : Len(r) = n /\ Within(p, r) => p \in DOMAIN t}
  <1>1. 0 \in T
    <2> SUFFICES ASSUME NEW r \in DOMAIN t, Len(r) = 0, Within(p, r)  PROVE p \in DOMAIN t
      OBVIOUS
    <2>1. r \in Places  BY DEF TreeOK
    <2>2. p = r
      <3> SUFFICES ASSUME p # r  PROVE FALSE  OBVIOUS
      <3>1. r # <<>>  BY <2>1, WithinFront
      <3> QED  BY <2>1, <3>1 DEF Places
    <2> QED  BY <2>2
  <1>2. ASSUME NEW n \in Nat, n \in T  PROVE n + 1 \in T
    <2> SUFFICES ASSUME NEW r \in DOMAIN t, Len(r) = n + 1, Within(p, r)  PROVE p \in DOMAIN t
      OBVIOUS
    <2>1. r \in Places /\ (r # <<>> => Front(r) \in DOMAIN t)  BY DEF TreeOK
    <2>2. CASE p = r  BY <2>2
    <2>3. CASE p # r
      <3>1. r # <<>> /\ Within(p, Front(r))  BY <2>1, <2>3, WithinFront
      <3>2. Len(Front(r)) = n  BY <2>1, <3>1, FrontPlace
      <3> QED  BY <1>2, <2>1, <3>1, <3>2
    <2> QED  BY <2>2, <2>3
  <1> HIDE DEF T
  <1>3. \A n \in Nat : n \in T  BY <1>1, <1>2, Induction
  <1>4. q \in Places /\ Len(q) \in Nat  BY DEF TreeOK, Places
  <1> QED  BY <1>3, <1>4 DEF T

\* From a place to a part of it the way leads through one of its parts.
LEMMA TreePart ==
    ASSUME NEW t, TreeOK(t), NEW q \in DOMAIN t, NEW p \in Places, Within(p, q), p # q
    PROVE  LET i == q[Len(p) + 1]
           IN  /\ p \in DOMAIN t /\ i \in 1 .. Parts(t[p]) /\ Len(p) < Len(q)
               /\ Append(p, i) \in DOMAIN t /\ Within(Append(p, i), q)
  <1> DEFINE i == q[Len(p) + 1]
  <1>1. q \in Places /\ Len(p) \in Nat /\ Len(q) \in Nat  BY DEF TreeOK, Places
  <1>2. Len(p) < Len(q)  BY <1>1, WithinFront
  <1>3. i \in Nat  BY <1>1, <1>2 DEF Places
  <1> HIDE DEF i
  <1>4. Within(Append(p, i), q)  BY <1>1, <1>2, <1>3, AppendWithin DEF i
  <1>5. Append(p, i) \in Places /\ Append(p, i) # <<>>
        /\ Front(Append(p, i)) = p /\ Last(Append(p, i)) = i
    <2>1. /\ Append(p, i) \in Places /\ Len(Append(p, i)) = Len(p) + 1
          /\ Front(Append(p, i)) = p /\ Last(Append(p, i)) = i
      BY <1>3, AppendPlace
    <2>2. Append(p, i) # <<>>
      <3> SUFFICES ASSUME Append(p, i) = <<>>  PROVE FALSE  OBVIOUS
      <3>1. Len(Append(p, i)) = 0  OBVIOUS
      <3> QED  BY <1>1, <2>1, <3>1
    <2> QED  BY <2>1, <2>2
  <1>6. Append(p, i) \in DOMAIN t  BY <1>4, <1>5, TreeWithin
  <1>7. p \in DOMAIN t /\ i \in 1 .. Parts(t[p])  BY <1>5, <1>6 DEF TreeOK
  <1> QED  BY <1>2, <1>4, <1>6, <1>7 DEF i

\* The root has one part, and all others are within that.
LEMMA TreeRoot ==
    ASSUME NEW t, TreeOK(t)
    PROVE  /\ <<1>> \in DOMAIN t
           /\ \A p \in DOMAIN t \ {<<>>} : Within(<<1>>, p) /\ p[1] = 1
  <1>1. <<>> \in DOMAIN t /\ Parts(t[<<>>]) = 1 /\ <<>> \in Places /\ Append(<<>>, 1) = <<1>>
    BY DEF TreeOK, Places
  <1>2. <<1>> \in DOMAIN t
    <2>1. 1 \in 1 .. Parts(t[<<>>])  BY <1>1
    <2> QED  BY <1>1, <2>1 DEF TreeOK
  <1>3. ASSUME NEW p \in DOMAIN t, p # <<>>  PROVE Within(<<1>>, p) /\ p[1] = 1
    <2>1. p \in Places  BY DEF TreeOK
    <2>2. Within(<<>>, p)  BY <1>1, <2>1, WithinIs
    <2>3. Len(<<>>) + 1 = 1  OBVIOUS
    <2>4. p[1] \in 1 .. Parts(t[<<>>]) /\ Within(Append(<<>>, p[1]), p)
      BY <1>1, <1>3, <2>2, <2>3, TreePart
    <2> QED  BY <1>1, <2>4
  <1> QED  BY <1>2, <1>3

-----------------------------------------------------------------------------
(* C's objects.  Objects is a recursive function over the items: the list  *)
(* before its items, and an item before the next one.                      *)

\* The item before the k-th one is the one with k - 1.
LEMMA PreviousIs ==
    ASSUME NEW p \in Places, NEW k \in Nat \ {0}
    PROVE  Previous(Append(p, k)) = Append(p, k - 1)
  <1> DEFINE a == Append(p, k)
             b == Append(p, k - 1)
  <1>1. /\ a \in Places /\ Len(a) = Len(p) + 1 /\ a[Len(p) + 1] = k
        /\ \A j \in 1 .. Len(p) : a[j] = p[j]
    BY DEF Places
  <1>2. /\ b \in Places /\ Len(b) = Len(p) + 1 /\ b[Len(p) + 1] = k - 1
        /\ \A j \in 1 .. Len(p) : b[j] = p[j]
    BY DEF Places
  <1>3. Len(p) \in Nat  BY DEF Places
  <1> HIDE DEF a, b
  <1>4. Previous(a) = [a EXCEPT ![Len(p) + 1] = k - 1]  BY <1>1, <1>3 DEF Previous
  <1>5. [a EXCEPT ![Len(p) + 1] = k - 1] = b
    <2> DEFINE e == [a EXCEPT ![Len(p) + 1] = k - 1]
    <2>1. a \in Seq(Nat) /\ b \in Seq(Nat) /\ k - 1 \in Nat  BY <1>1, <1>2 DEF Places
    <2>2. /\ e \in Seq(Nat) /\ Len(e) = Len(p) + 1
          /\ \A j \in 1 .. Len(p) + 1 : e[j] = IF j = Len(p) + 1 THEN k - 1 ELSE a[j]
      BY <1>1, <1>3, <2>1
    <2> HIDE DEF e
    <2>3. \A j \in 1 .. Len(p) + 1 : e[j] = b[j]  BY <1>1, <1>2, <1>3, <2>2
    <2>4. e = b  BY <1>2, <2>1, <2>2, <2>3
    <2> QED  BY <2>4 DEF e
  <1> QED  BY <1>4, <1>5 DEF a, b

\* An item of a set that comes before all others of it.
LEMMA Earliest ==
    ASSUME NEW S \in SUBSET Places, S # {}
    PROVE  \E p \in S : p # <<>> => Front(p) \notin S /\ (Last(p) # 0 => Previous(p) \notin S)
  <1> DEFINE Lens == {n \in Nat : \E p \in S : Len(p) = n}
  <1>1. Lens # {} /\ Lens \subseteq Nat  BY DEF Places
  <1>2. PICK m \in Lens : \A n \in Lens : m <= n  BY <1>1, Least
  <1>3. PICK x \in S : Len(x) = m  BY <1>2
  <1>4. CASE m = 0
    <2>1. x = <<>>  BY <1>3, <1>4 DEF Places
    <2> QED  BY <2>1
  <1>5. CASE m # 0
    <2> DEFINE Lasts == {n \in Nat : \E p \in S : Len(p) = m /\ Last(p) = n}
    <2>1. x # <<>> /\ x \in Places  BY <1>3, <1>5
    <2>2. Last(x) \in Nat  BY <2>1, FrontPlace
    <2>3. Lasts # {} /\ Lasts \subseteq Nat  BY <1>3, <2>2
    <2>4. PICK a \in Lasts : \A n \in Lasts : a <= n  BY <2>3, Least
    <2>5. PICK p \in S : Len(p) = m /\ Last(p) = a  BY <2>4
    <2>6. p # <<>> /\ p \in Places  BY <1>5, <2>5
    <2>7. Front(p) \in Places /\ Len(Front(p)) = m - 1 /\ p = Append(Front(p), Last(p))
          /\ Last(p) \in Nat
      BY <2>5, <2>6, FrontPlace
    <2>8. Front(p) \notin S
      <3> SUFFICES ASSUME Front(p) \in S  PROVE FALSE  OBVIOUS
      <3>1. m - 1 \in Lens  BY <1>2, <1>5, <2>7
      <3> QED  BY <1>2, <3>1
    <2>9. ASSUME Last(p) # 0  PROVE Previous(p) \notin S
      <3> SUFFICES ASSUME Previous(p) \in S  PROVE FALSE  OBVIOUS
      <3>1. Previous(p) = Append(Front(p), a - 1) /\ a - 1 \in Nat
        <4>1. a \in Nat \ {0} /\ p = Append(Front(p), a)  BY <2>5, <2>7, <2>9
        <4>2. Previous(Append(Front(p), a)) = Append(Front(p), a - 1)  BY <2>7, <4>1, PreviousIs
        <4>3. a - 1 \in Nat  BY <4>1
        <4>4. Previous(p) = Append(Front(p), a - 1)  BY <4>1, <4>2, Zenon
        <4> QED  BY <4>3, <4>4
      <3>2. Len(Previous(p)) = m /\ Last(Previous(p)) = a - 1
        BY <1>2, <2>7, <3>1, AppendPlace
      <3>3. a - 1 \in Lasts  BY <3>1, <3>2
      <3> QED  BY <2>4, <3>3
    <2> QED  BY <2>5, <2>8, <2>9
  <1> QED  BY <1>4, <1>5

\* ObjectOf looks at the list and at the item before only.
LEMMA ObjectOfSame ==
    ASSUME NEW t, NEW l, NEW f, NEW g, NEW p,
           p # <<>> => f[Front(p)] = g[Front(p)] /\ (Last(p) # 1 => f[Previous(p)] = g[Previous(p)])
    PROVE  ObjectOf(t, l, f, p) = ObjectOf(t, l, g, p)
  <1>1. CASE p = <<>>  BY <1>1 DEF ObjectOf
  <1>2. CASE p # <<>> /\ Last(p) = 1  BY <1>2 DEF ObjectOf
  <1>3. CASE p # <<>> /\ Last(p) # 1  BY <1>3 DEF ObjectOf
  <1> QED  BY <1>1, <1>2, <1>3

\* A set that has with every item the list and the item before.
Closed(C) == \A p \in C : p # <<>> => Front(p) \in C /\ (Last(p) # 1 => Previous(p) \in C)
Solves(t, l, f, C) == f = [p \in C |-> ObjectOf(t, l, f, p)]

\* What solves the equations of a closed set can be continued by an item.
LEMMA SolveNext ==
    ASSUME NEW t, NEW l, NEW f, NEW C, Closed(C), Solves(t, l, f, C),
           NEW p, p \notin C,
           p # <<>> => Front(p) \in C /\ (Last(p) # 1 => Previous(p) \in C)
    PROVE  /\ Closed(C \cup {p})
           /\ \E g : Solves(t, l, g, C \cup {p})
  <1>1. Closed(C \cup {p})  BY DEF Closed
  <1> DEFINE B == C \cup {p}
             g == [q \in B |-> IF q = p THEN ObjectOf(t, l, f, p) ELSE f[q]]
  <1>2. \A q \in C : g[q] = f[q]  OBVIOUS
  <1>3. DOMAIN g = B /\ g[p] = ObjectOf(t, l, f, p)  OBVIOUS
  <1> HIDE DEF g
  <1>4. ASSUME NEW q \in B  PROVE g[q] = ObjectOf(t, l, g, q)
    <2>1. q # <<>> => Front(q) \in C /\ (Last(q) # 1 => Previous(q) \in C)
      BY DEF Closed
    <2>2. ObjectOf(t, l, f, q) = ObjectOf(t, l, g, q)  BY <1>2, <2>1, ObjectOfSame
    <2>3. CASE q = p  BY <1>3, <2>2, <2>3
    <2>4. CASE q \in C
      <3>1. f[q] = ObjectOf(t, l, f, q)  BY <2>4 DEF Solves
      <3> QED  BY <1>2, <2>2, <2>4, <3>1
    <2> QED  BY <2>3, <2>4
  <1>5. g = [q \in B |-> ObjectOf(t, l, g, q)]
    <2>1. g = [q \in B |-> g[q]]  BY <1>3 DEF g
    <2> QED  BY <1>4, <2>1
  <1> QED  BY <1>1, <1>5 DEF Solves

\* There is a solution for all items of an initializer.
LEMMA Solvable ==
    ASSUME NEW t, NEW l, TreeOK(l)
    PROVE  \E f : Solves(t, l, f, DOMAIN l)
  <1> DEFINE I == DOMAIN l
             T == {n \in Nat : \E C \in SUBSET I :
                      /\ Closed(C) /\ Cardinality(I \ C) = n
                      /\ \E f : Solves(t, l, f, C)}
  <1>1. IsFiniteSet(I) /\ I \subseteq Places  BY DEF TreeOK
  <1>2. Closed({})  BY DEF Closed
  <1>3. \E f : Solves(t, l, f, {})
    <2> DEFINE f == [p \in {} |-> 0]
    <2>1. f = [p \in {} |-> ObjectOf(t, l, f, p)]  OBVIOUS
    <2> QED  BY <2>1 DEF Solves
  <1>4. Cardinality(I) \in T
    <2>1. Cardinality(I) \in Nat  BY <1>1, FS_CardinalityType
    <2>2. I \ {} = I /\ {} \in SUBSET I  OBVIOUS
    <2> QED  BY <1>2, <1>3, <2>1, <2>2
  <1>5. PICK n \in T : \A k \in T : n <= k
    <2>1. T \subseteq Nat /\ T # {}  BY <1>4
    <2> QED  BY <2>1, Least
  <1>6. PICK C \in SUBSET I : /\ Closed(C) /\ Cardinality(I \ C) = n
                              /\ \E f : Solves(t, l, f, C)
    BY <1>5
  <1>7. CASE C = I  BY <1>6, <1>7
  <1>8. CASE C # I
    <2> DEFINE S == I \ C
    <2>1. S # {} /\ S \in SUBSET Places  BY <1>1, <1>6, <1>8
    <2>2. PICK p \in S : p # <<>> => Front(p) \notin S /\ (Last(p) # 0 => Previous(p) \notin S)
      BY <2>1, Earliest
    <2>3. p \in I /\ p \notin C /\ p \in Places  BY <1>1, <2>2
    <2>4. ASSUME p # <<>>  PROVE Front(p) \in C /\ (Last(p) # 1 => Previous(p) \in C)
      <3>1. Front(p) \in I /\ Last(p) \in 1 .. Parts(l[Front(p)]) /\ Parts(l[Front(p)]) \in Nat
        BY <2>3, <2>4 DEF TreeOK
      <3>2. Front(p) \in C  BY <2>2, <2>4, <3>1
      <3>3. ASSUME Last(p) # 1  PROVE Previous(p) \in C
        <4>1. Front(p) \in Places /\ p = Append(Front(p), Last(p))  BY <2>3, <2>4, FrontPlace
        <4>2. Last(p) \in Nat \ {0} /\ Last(p) - 1 \in 1 .. Parts(l[Front(p)])  BY <3>1, <3>3
        <4>3. Previous(p) = Append(Front(p), Last(p) - 1)  BY <4>1, <4>2, PreviousIs
        <4>4. Previous(p) \in I  BY <3>1, <4>2, <4>3 DEF TreeOK
        <4> QED  BY <2>2, <2>4, <4>2, <4>4
      <3> QED  BY <3>2, <3>3
    <2> DEFINE B == C \cup {p}
    <2>5. Closed(B) /\ \E g : Solves(t, l, g, B)  BY <1>6, <2>3, <2>4, SolveNext
    <2>6. Cardinality(I \ B) = n - 1 /\ n - 1 \in Nat
      <3>1. IsFiniteSet(S)  BY <1>1, FS_Subset
      <3>2. IsFiniteSet(S \ {p}) /\ Cardinality(S \ {p}) = Cardinality(S) - 1
        BY <2>2, <3>1, FS_RemoveElement
      <3>3. Cardinality(S \ {p}) \in Nat  BY <3>2, FS_CardinalityType
      <3>4. I \ B = S \ {p}  OBVIOUS
      <3> HIDE DEF S, B
      <3>5. Cardinality(S) = n  BY <1>6 DEF S
      <3> QED  BY <1>5, <3>2, <3>3, <3>4, <3>5
    <2>7. B \in SUBSET I  BY <1>6, <2>3
    <2>8. n - 1 \in T  BY <2>5, <2>6, <2>7
    <2> QED  BY <1>5, <2>6, <2>8
  <1> QED  BY <1>7, <1>8

\* So Objects obeys its equations.
LEMMA ObjectsIs ==
    ASSUME NEW t, NEW l, TreeOK(l)
    PROVE  /\ DOMAIN Objects(t, l) = DOMAIN l
           /\ \A p \in DOMAIN l : Objects(t, l)[p] = ObjectOf(t, l, Objects(t, l), p)
  <1> DEFINE object == CHOOSE f : f = [p \in DOMAIN l |-> ObjectOf(t, l, f, p)]
  <1>1. \E f : f = [p \in DOMAIN l |-> ObjectOf(t, l, f, p)]  BY Solvable DEF Solves
  <1>2. object = [p \in DOMAIN l |-> ObjectOf(t, l, object, p)]  BY <1>1
  <1>3. Objects(t, l) = [p \in DOMAIN l |-> object[p]]  BY DEF Objects
  <1> HIDE DEF object
  <1>4. Objects(t, l) = object
    <2>1. DOMAIN object = DOMAIN l  BY <1>2
    <2>2. object = [p \in DOMAIN l |-> object[p]]  BY <1>2
    <2> QED  BY <1>3, <2>2
  <1>5. DOMAIN object = DOMAIN l /\ \A p \in DOMAIN l : object[p] = ObjectOf(t, l, object, p)
    BY <1>2
  <1> QED  BY <1>4, <1>5

-----------------------------------------------------------------------------
(* What the declaration and the initializer are: this never changes.       *)

Given ==
    /\ declared \in Types /\ init \in Lists
    /\ IsList(<<1>>) \/ declared[<<1>>].kind = "scalar"
    /\ objects = Objects(declared, init)
    /\ static \in BOOLEAN

\* The parts of P behind a.
Behind(P, a) == {p \in Subobjects(declared, P) : Before(a, p)}

\* What is left of a list's object behind its first c items.
Left(list, c) ==
    IF c = 0 THEN Subobjects(declared, objects[list])
    ELSE Behind(objects[list], objects[Append(list, c)])

\* The objects that an item can have: a list's is any, a value's a scalar.
Fit(p, S) == IF IsList(p) THEN S ELSE S \cap Scalars(declared)

LEMMA DeclaredIs ==
    ASSUME Given
    PROVE  /\ TreeOK(declared) /\ IsFiniteSet(DOMAIN declared)
           /\ DOMAIN declared \subseteq Places /\ <<>> \in DOMAIN declared
           /\ <<1>> \in DOMAIN declared /\ End \notin DOMAIN declared /\ End \in Places
           /\ <<>> \in Places /\ <<1>> \in Places
           /\ Scalars(declared) \subseteq DOMAIN declared /\ <<>> \notin Scalars(declared)
           /\ \A p \in DOMAIN declared : Parts(declared[p]) \in Nat
           /\ \A p \in DOMAIN declared : p \in Scalars(declared) <=> IsScalar(p)
           /\ \A p \in Scalars(declared) : Parts(declared[p]) = 0
  <1>1. TreeOK(declared) /\ declared[<<>>].kind = "array"
        /\ \A p \in DOMAIN declared : declared[p].kind = "scalar" => Parts(declared[p]) = 0
    BY TypeTree DEF Given
  <1>2. /\ IsFiniteSet(DOMAIN declared) /\ <<>> \in DOMAIN declared
        /\ \A p \in DOMAIN declared : p \in Places /\ Parts(declared[p]) \in Nat
    BY <1>1 DEF TreeOK
  <1>3. <<1>> \in DOMAIN declared /\ \A p \in DOMAIN declared \ {<<>>} : p[1] = 1
    BY <1>1, TreeRoot
  <1>4. End \notin DOMAIN declared
    <2>1. End # <<>> /\ End[1] = 2  BY DEF End
    <2> QED  BY <1>3, <2>1
  <1>5. End \in Places /\ <<>> \in Places /\ <<1>> \in Places  BY DEF End, Places
  <1>6. /\ Scalars(declared) \subseteq DOMAIN declared /\ <<>> \notin Scalars(declared)
        /\ \A p \in DOMAIN declared : p \in Scalars(declared) <=> IsScalar(p)
    BY <1>1 DEF Scalars, IsScalar
  <1>7. \A p \in Scalars(declared) : Parts(declared[p]) = 0  BY <1>1 DEF Scalars
  <1> QED  BY <1>1, <1>2, <1>3, <1>4, <1>5, <1>6, <1>7

LEMMA InitIs ==
    ASSUME Given
    PROVE  /\ TreeOK(init) /\ IsFiniteSet(DOMAIN init)
           /\ DOMAIN init \subseteq Places /\ <<>> \in DOMAIN init /\ <<1>> \in DOMAIN init
           /\ IsList(<<>>) /\ Size(<<>>) = 1
           /\ \A p \in DOMAIN init : /\ Size(p) \in Nat /\ Parts(init[p]) = Size(p)
                                     /\ ~IsList(p) => Size(p) = 0
                                     /\ ~IsList(p) <=> init[p].kind \in {"constant"} \cup NotConstant
           /\ DOMAIN objects = DOMAIN init
           /\ \A p \in DOMAIN init : objects[p] = ObjectOf(declared, init, objects, p)
  <1>1. /\ TreeOK(init) /\ init[<<>>].kind = "list"
        /\ \A p \in DOMAIN init : /\ init[p].kind \in {"list", "constant"} \cup NotConstant
                                  /\ init[p].len \in Nat /\ Parts(init[p]) = init[p].len
                                  /\ init[p].kind # "list" => init[p].len = 0
    BY ListTree DEF Given
  <1>2. /\ IsFiniteSet(DOMAIN init) /\ DOMAIN init \subseteq Places /\ <<>> \in DOMAIN init
        /\ init[<<>>].len = 1
    BY <1>1 DEF TreeOK
  <1>3. <<1>> \in DOMAIN init  BY <1>1, TreeRoot
  <1>4. /\ DOMAIN objects = DOMAIN init
        /\ \A p \in DOMAIN init : objects[p] = ObjectOf(declared, init, objects, p)
    BY <1>1, ObjectsIs DEF Given
  <1>5. \A p \in DOMAIN init : ~IsList(p) <=> init[p].kind \in {"constant"} \cup NotConstant
    BY <1>1 DEF IsList, NotConstant
  <1> QED  BY <1>1, <1>2, <1>3, <1>4, <1>5 DEF IsList, Size

\* The items of a list.
LEMMA ItemIs ==
    ASSUME Given, NEW list \in DOMAIN init, NEW k \in 1 .. Size(list)
    PROVE  /\ list \in Places /\ k \in Nat \ {0} /\ IsList(list)
           /\ Append(list, k) \in DOMAIN init /\ Append(list, k) \in Places
           /\ Append(list, k) # <<>> /\ Front(Append(list, k)) = list /\ Last(Append(list, k)) = k
           /\ Within(list, Append(list, k)) /\ Len(Append(list, k)) = Len(list) + 1
  <1>1. list \in Places /\ Size(list) \in Nat /\ Parts(init[list]) = Size(list) /\ TreeOK(init)
        /\ (~IsList(list) => Size(list) = 0)
    BY InitIs
  <1>2. k \in Nat \ {0} /\ IsList(list)  BY <1>1
  <1>3. Append(list, k) \in DOMAIN init  BY <1>1 DEF TreeOK
  <1>4. /\ Append(list, k) \in Places /\ Front(Append(list, k)) = list
        /\ Last(Append(list, k)) = k /\ Within(list, Append(list, k))
        /\ Len(Append(list, k)) = Len(list) + 1
    BY <1>1, <1>2, AppendPlace
  <1>5. Append(list, k) # <<>>
    <2>1. Len(list) \in Nat  BY <1>1 DEF Places
    <2>2. Len(<<>>) = 0  OBVIOUS
    <2> QED  BY <1>4, <2>1, <2>2
  <1> QED  BY <1>1, <1>2, <1>3, <1>4, <1>5

\* Every place but the root is an item.
LEMMA IsItem ==
    ASSUME Given, NEW p \in DOMAIN init, p # <<>>
    PROVE  /\ Front(p) \in DOMAIN init /\ Last(p) \in 1 .. Size(Front(p))
           /\ p = Append(Front(p), Last(p)) /\ Len(Front(p)) = Len(p) - 1
           /\ Within(Front(p), p) /\ p \in Places /\ Front(p) \in Places
  <1>1. p \in Places /\ TreeOK(init) /\ \A q \in DOMAIN init : Parts(init[q]) = Size(q)
    BY InitIs
  <1>2. Front(p) \in DOMAIN init /\ Last(p) \in 1 .. Parts(init[Front(p)])  BY <1>1 DEF TreeOK
  <1>3. /\ Front(p) \in Places /\ p = Append(Front(p), Last(p)) /\ Within(Front(p), p)
        /\ Len(Front(p)) = Len(p) - 1
    BY <1>1, FrontPlace
  <1> QED  BY <1>1, <1>2, <1>3

LEMMA ObjectOfItem ==
    ASSUME Given, NEW list \in DOMAIN init, NEW k \in 1 .. Size(list)
    PROVE  objects[Append(list, k)] =
               IF objects[list] \in Scalars(declared) THEN IF k = 1 THEN objects[list] ELSE End
               ELSE FirstOf(Fit(Append(list, k), Left(list, k - 1)))
  <1> DEFINE p == Append(list, k)
  <1>1. /\ list \in Places /\ k \in Nat \ {0} /\ p \in DOMAIN init /\ p # <<>>
        /\ Front(p) = list /\ Last(p) = k
    BY ItemIs
  <1>2. Previous(p) = Append(list, k - 1)  BY <1>1, PreviousIs
  <1>3. objects[p] = ObjectOf(declared, init, objects, p)  BY <1>1, InitIs
  <1> HIDE DEF p
  <1>4. k - 1 = 0 <=> k = 1  BY <1>1
  <1> DEFINE left == IF k = 1 THEN Subobjects(declared, objects[list])
                     ELSE {q \in Subobjects(declared, objects[list]) :
                              Before(objects[Append(list, k - 1)], q)}
  <1>5. left = Left(list, k - 1)  BY <1>4 DEF Left, Behind
  <1>6. objects[p] = IF objects[list] \in Scalars(declared)
                     THEN IF k = 1 THEN objects[list] ELSE End
                     ELSE IF init[p].kind = "list" THEN FirstOf(left)
                     ELSE FirstOf(left \cap Scalars(declared))
    BY <1>1, <1>2, <1>3 DEF ObjectOf
  <1> HIDE DEF left
  <1>7. objects[p] = IF objects[list] \in Scalars(declared)
                     THEN IF k = 1 THEN objects[list] ELSE End
                     ELSE FirstOf(Fit(p, left))
    BY <1>6 DEF Fit, IsList
  <1> QED  BY <1>5, <1>7 DEF p

LEMMA RootObject ==
    ASSUME Given
    PROVE  objects[<<>>] = <<>>
  <1>1. objects[<<>>] = ObjectOf(declared, init, objects, <<>>)  BY InitIs
  <1> QED  BY <1>1 DEF ObjectOf

\* The first of some of the type's places.
LEMMA FirstIn2 ==
    ASSUME Given, NEW S \in SUBSET DOMAIN declared
    PROVE  /\ FirstOf(S) = End <=> S = {}
           /\ S # {} => FirstOf(S) \in S /\ \A q \in S : NotAfter(FirstOf(S), q)
           /\ \A p \in S : (\A q \in S : NotAfter(p, q)) => FirstOf(S) = p
  <1>1. IsFiniteSet(S) /\ S \in SUBSET Places /\ End \notin S  BY DeclaredIs, FS_Subset
  <1>2. S # {} => FirstOf(S) \in S /\ \A q \in S : NotAfter(FirstOf(S), q)  BY <1>1, FirstIn
  <1>3. S = {} => FirstOf(S) = End  BY FirstOfNone
  <1>4. \A p \in S : (\A q \in S : NotAfter(p, q)) => FirstOf(S) = p  BY <1>1, FirstIs
  <1> QED  BY <1>1, <1>2, <1>3, <1>4

\* What is left is within the type; behind no object there is none.
LEMMA LeftIn ==
    ASSUME Given, NEW list, NEW c
    PROVE  /\ Left(list, c) \subseteq Subobjects(declared, objects[list])
           /\ Left(list, c) \subseteq DOMAIN declared
           /\ \A q \in Left(list, c) : Within(objects[list], q) /\ q # objects[list]
           /\ objects[list] = End => Left(list, c) = {}
           /\ c # 0 /\ objects[Append(list, c)] = End => Left(list, c) = {}
  <1>1. Left(list, c) \subseteq Subobjects(declared, objects[list])  BY DEF Left, Behind
  <1>2. \A q \in Subobjects(declared, objects[list]) :
            q \in DOMAIN declared /\ q # objects[list] /\ Within(objects[list], q)
    BY DEF Subobjects
  <1>3. \A q \in DOMAIN declared : q \in Places /\ ~Within(End, q) /\ ~Before(End, q)
    <2> TAKE q \in DOMAIN declared
    <2>1. q \in Places /\ End \in Places /\ TreeOK(declared)  BY DeclaredIs
    <2>2. Len(End) = 1 /\ End[1] = 2  BY DEF End
    <2>3. CASE q = <<>>
      <3>1. Len(q) = 0  BY <2>3
      <3> QED  BY <2>1, <2>2, <3>1, WithinIs, BeforeIs
    <2>4. CASE q # <<>>
      <3>1. q[1] = 1  BY <2>1, <2>4, TreeRoot
      <3>2. ~Within(End, q)  BY <2>1, <2>2, <3>1, WithinIs
      <3>3. ~Before(End, q)
        <4> SUFFICES ASSUME Before(End, q)  PROVE FALSE  OBVIOUS
        <4>1. PICK j \in 1 .. Len(End) : End[j] < q[j]  BY <2>1, BeforeIs
        <4>2. j = 1  BY <2>2, <4>1
        <4> QED  BY <2>2, <3>1, <4>1, <4>2
      <3> QED  BY <2>1, <3>2, <3>3
    <2> QED  BY <2>3, <2>4
  <1>4. objects[list] = End => Left(list, c) = {}  BY <1>1, <1>2, <1>3
  <1>5. c # 0 /\ objects[Append(list, c)] = End => Left(list, c) = {}
    <2> SUFFICES ASSUME c # 0, objects[Append(list, c)] = End  PROVE Left(list, c) = {}
      OBVIOUS
    <2>1. \A q \in Left(list, c) : Before(End, q) /\ q \in DOMAIN declared  BY <1>2 DEF Left, Behind
    <2> QED  BY <1>3, <2>1
  <1> QED  BY <1>1, <1>2, <1>4, <1>5

\* An object is one of the type's, or none.
LEMMA ObjectIn ==
    ASSUME Given, NEW p \in DOMAIN init
    PROVE  objects[p] \in DOMAIN declared \cup {End}
  <1>1. CASE p = <<>>  BY <1>1, RootObject, DeclaredIs
  <1>2. CASE p # <<>>
    <2> DEFINE list == Front(p)
               k == Last(p)
    <2>1. list \in DOMAIN init /\ k \in 1 .. Size(list) /\ p = Append(list, k)
      BY <1>2, IsItem
    <2> HIDE DEF list, k
    <2>2. objects[p] = IF objects[list] \in Scalars(declared)
                       THEN IF k = 1 THEN objects[list] ELSE End
                       ELSE FirstOf(Fit(Append(list, k), Left(list, k - 1)))
      BY <2>1, ObjectOfItem
    <2>3. Fit(Append(list, k), Left(list, k - 1)) \in SUBSET DOMAIN declared
      BY LeftIn DEF Fit
    <2>4. FirstOf(Fit(Append(list, k), Left(list, k - 1))) \in DOMAIN declared \cup {End}
      BY <2>3, FirstIn2
    <2> QED  BY <2>2, <2>4, DeclaredIs
  <1> QED  BY <1>1, <1>2

\* The object of an item is within its list's.
LEMMA ItemWithin ==
    ASSUME Given, NEW list \in DOMAIN init, NEW k \in 1 .. Size(list),
           objects[Append(list, k)] # End
    PROVE  /\ objects[list] # End /\ Within(objects[list], objects[Append(list, k)])
           /\ objects[list] \in Scalars(declared) =>
                  k = 1 /\ objects[Append(list, k)] = objects[list]
           /\ objects[list] \notin Scalars(declared) =>
                  /\ objects[Append(list, k)] # objects[list]
                  /\ objects[Append(list, k)] \in Fit(Append(list, k), Left(list, k - 1))
  <1> DEFINE p == Append(list, k)
             F == Fit(p, Left(list, k - 1))
  <1>1. objects[p] = IF objects[list] \in Scalars(declared)
                     THEN IF k = 1 THEN objects[list] ELSE End
                     ELSE FirstOf(F)
    BY ObjectOfItem
  <1>2. F \in SUBSET DOMAIN declared /\ F \subseteq Left(list, k - 1)  BY LeftIn DEF Fit
  <1> HIDE DEF F
  <1>3. CASE objects[list] \in Scalars(declared)
    <2>1. k = 1 /\ objects[p] = objects[list]  BY <1>1, <1>3
    <2>2. objects[list] \in Places /\ objects[list] # End  BY <1>3, DeclaredIs
    <2> QED  BY <1>3, <2>1, <2>2, WithinRefl
  <1>4. CASE objects[list] \notin Scalars(declared)
    <2>1. objects[p] = FirstOf(F)  BY <1>1, <1>4
    <2>2. F # {} /\ objects[p] \in F  BY <1>2, <2>1, FirstIn2
    <2>3. objects[p] \in Left(list, k - 1)  BY <1>2, <2>2
    <2>4. objects[list] # End /\ Within(objects[list], objects[p]) /\ objects[p] # objects[list]
      BY <2>3, LeftIn
    <2> QED  BY <1>4, <2>2, <2>4 DEF F
  <1> QED  BY <1>3, <1>4

\* The object of a part is within the object of the whole.
LEMMA ObjectDescend ==
    ASSUME Given, NEW p \in DOMAIN init, NEW q \in DOMAIN init, Within(p, q), objects[q] # End
    PROVE  objects[p] # End /\ Within(objects[p], objects[q])
  <1> DEFINE T == {n \in Nat : \A r \in DOMAIN init :
                      Len(r) = n /\ Within(p, r) /\ objects[r] # End
                          => objects[p] # End /\ Within(objects[p], objects[r])}
  <1>0. ASSUME NEW r \in DOMAIN init, objects[r] # End, r = p
        PROVE  objects[p] # End /\ Within(objects[p], objects[r])
    <2>1. objects[r] \in Places  BY <1>0, ObjectIn, DeclaredIs
    <2> QED  BY <1>0, <2>1, WithinRefl
  <1>1. 0 \in T
    <2> SUFFICES ASSUME NEW r \in DOMAIN init, Len(r) = 0, Within(p, r), objects[r] # End
                 PROVE  objects[p] # End /\ Within(objects[p], objects[r])
      OBVIOUS
    <2>1. p \in Places /\ r \in Places  BY InitIs
    <2>2. r = p
      <3> SUFFICES ASSUME p # r  PROVE FALSE  OBVIOUS
      <3>1. r # <<>>  BY <2>1, WithinFront
      <3> QED  BY <2>1, <3>1 DEF Places
    <2> QED  BY <1>0, <2>2
  <1>2. ASSUME NEW n \in Nat, n \in T  PROVE n + 1 \in T
    <2> SUFFICES ASSUME NEW r \in DOMAIN init, Len(r) = n + 1, Within(p, r), objects[r] # End
                 PROVE  objects[p] # End /\ Within(objects[p], objects[r])
      OBVIOUS
    <2>1. p \in Places /\ r \in Places  BY InitIs
    <2>2. CASE r = p  BY <1>0, <2>2
    <2>3. CASE r # p
      <3> DEFINE list == Front(r)
                 k == Last(r)
      <3>1. r # <<>> /\ Within(p, list)  BY <2>1, <2>3, WithinFront
      <3>2. list \in DOMAIN init /\ k \in 1 .. Size(list) /\ r = Append(list, k)
            /\ Len(list) = Len(r) - 1
        BY <3>1, IsItem
      <3> HIDE DEF list, k
      <3>3. Len(list) = n  BY <3>2
      <3>4. objects[list] # End /\ Within(objects[list], objects[r])
        BY <3>2, ItemWithin
      <3>5. objects[p] # End /\ Within(objects[p], objects[list])  BY <1>2, <3>1, <3>2, <3>3, <3>4
      <3>6. objects[p] \in Places /\ objects[list] \in Places /\ objects[r] \in Places
        BY <3>2, ObjectIn, DeclaredIs
      <3> QED  BY <3>4, <3>5, <3>6, WithinTrans
    <2> QED  BY <2>2, <2>3
  <1> HIDE DEF T
  <1>3. \A n \in Nat : n \in T  BY <1>1, <1>2, Induction
  <1>4. Len(q) \in Nat  BY InitIs DEF Places
  <1> QED  BY <1>3, <1>4 DEF T

\* An item has an object only if all before it have one, in their order.
LEMMA ObjectOrder ==
    ASSUME Given, NEW list \in DOMAIN init, NEW j \in 1 .. Size(list), NEW k \in 1 .. Size(list),
           j < k, objects[Append(list, k)] # End
    PROVE  /\ objects[list] \notin Scalars(declared)
           /\ objects[Append(list, j)] # End
           /\ Before(objects[Append(list, j)], objects[Append(list, k)])
  <1>0. Size(list) \in Nat  BY InitIs
  <1> DEFINE T == {n \in Nat : \A m \in 1 .. Size(list) :
                      m = j + n + 1 /\ objects[Append(list, m)] # End
                          => /\ objects[Append(list, j)] # End
                             /\ Before(objects[Append(list, j)], objects[Append(list, m)])}
  <1>1. ASSUME NEW m \in 1 .. Size(list), m > 1, objects[Append(list, m)] # End
        PROVE  /\ objects[list] \notin Scalars(declared)
               /\ m - 1 \in 1 .. Size(list) /\ objects[Append(list, m - 1)] # End
               /\ Before(objects[Append(list, m - 1)], objects[Append(list, m)])
    <2>1. objects[list] \notin Scalars(declared)  BY <1>0, <1>1, ItemWithin
    <2>2. objects[Append(list, m)] \in Left(list, m - 1)  BY <1>1, <2>1, ItemWithin DEF Fit
    <2>3. m - 1 \in 1 .. Size(list) /\ m - 1 # 0  BY <1>0, <1>1
    <2>4. objects[Append(list, m - 1)] # End  BY <2>2, <2>3, LeftIn
    <2>5. Before(objects[Append(list, m - 1)], objects[Append(list, m)])
      BY <2>2, <2>3 DEF Left, Behind
    <2> QED  BY <2>1, <2>3, <2>4, <2>5
  <1>2. 0 \in T
    <2> SUFFICES ASSUME NEW m \in 1 .. Size(list), m = j + 0 + 1, objects[Append(list, m)] # End
                 PROVE  /\ objects[Append(list, j)] # End
                        /\ Before(objects[Append(list, j)], objects[Append(list, m)])
      OBVIOUS
    <2>1. m > 1 /\ m - 1 = j  BY <1>0
    <2> QED  BY <1>1, <2>1
  <1>3. ASSUME NEW n \in Nat, n \in T  PROVE n + 1 \in T
    <2> SUFFICES ASSUME NEW m \in 1 .. Size(list), m = j + (n + 1) + 1,
                        objects[Append(list, m)] # End
                 PROVE  /\ objects[Append(list, j)] # End
                        /\ Before(objects[Append(list, j)], objects[Append(list, m)])
      OBVIOUS
    <2>1. m > 1 /\ m - 1 = j + n + 1  BY <1>0
    <2>2. /\ m - 1 \in 1 .. Size(list) /\ objects[Append(list, m - 1)] # End
          /\ Before(objects[Append(list, m - 1)], objects[Append(list, m)])
      BY <1>1, <2>1
    <2>3. /\ objects[Append(list, j)] # End
          /\ Before(objects[Append(list, j)], objects[Append(list, m - 1)])
      BY <1>3, <2>1, <2>2
    <2>4. /\ Append(list, j) \in DOMAIN init /\ Append(list, m - 1) \in DOMAIN init
          /\ Append(list, m) \in DOMAIN init
      BY <2>2, ItemIs
    <2>5. /\ objects[Append(list, j)] \in Places /\ objects[Append(list, m - 1)] \in Places
          /\ objects[Append(list, m)] \in Places
      BY <2>4, ObjectIn, DeclaredIs
    <2> QED  BY <2>2, <2>3, <2>5, BeforeTrans
  <1> HIDE DEF T
  <1>4. \A n \in Nat : n \in T  BY <1>2, <1>3, Induction
  <1>5. k - j - 1 \in Nat /\ k = j + (k - j - 1) + 1 /\ k > 1  BY <1>0
  <1>6. objects[list] \notin Scalars(declared)  BY <1>1, <1>5
  <1> QED  BY <1>4, <1>5, <1>6 DEF T

\* Two places of an initializer of which one is not within the other are in
\* different items of one list.
LEMMA Divide ==
    ASSUME Given, NEW p \in DOMAIN init, NEW q \in DOMAIN init, Before(p, q)
    PROVE  \E list \in DOMAIN init : \E j, k \in 1 .. Size(list) :
               /\ j < k
               /\ Within(Append(list, j), p) /\ Within(Append(list, k), q)
  <1>1. p \in Places /\ q \in Places /\ TreeOK(init)  BY InitIs
  <1>2. PICK n \in 1 .. Len(p) : /\ n <= Len(q) /\ p[n] < q[n]
                                 /\ \A m \in 1 .. n - 1 : p[m] = q[m]
    BY <1>1, BeforeIs
  <1> DEFINE list == SubSeq(p, 1, n - 1)
  <1>3. n - 1 \in 0 .. Len(p) /\ Len(p) \in Nat /\ Len(q) \in Nat /\ n \in Nat
    BY <1>1, <1>2 DEF Places
  <1>4. list \in Places /\ Len(list) = n - 1 /\ \A m \in 1 .. n - 1 : list[m] = p[m]
    BY <1>1, <1>3, SubSeqFacts
  <1> HIDE DEF list
  <1>5. Within(list, p) /\ Within(list, q)  BY <1>1, <1>2, <1>3, <1>4, WithinIs
  <1>6. list # p /\ list # q /\ Len(list) + 1 = n  BY <1>2, <1>3, <1>4
  <1>7. list \in DOMAIN init /\ p[n] \in 1 .. Parts(init[list]) /\ Within(Append(list, p[n]), p)
    BY <1>1, <1>4, <1>5, <1>6, TreePart
  <1>8. q[n] \in 1 .. Parts(init[list]) /\ Within(Append(list, q[n]), q)
    BY <1>1, <1>4, <1>5, <1>6, TreePart
  <1>9. Parts(init[list]) = Size(list)  BY <1>7, InitIs
  <1> QED  BY <1>2, <1>7, <1>8, <1>9

\* What is within no object has none; a value has no parts.
LEMMA ValueOnly ==
    ASSUME Given, NEW p \in DOMAIN init, NEW q \in DOMAIN init, Size(p) = 0, Within(p, q)
    PROVE  q = p
  <1> SUFFICES ASSUME q # p  PROVE FALSE  OBVIOUS
  <1>1. p \in Places /\ TreeOK(init) /\ Parts(init[p]) = Size(p)  BY InitIs
  <1>2. q[Len(p) + 1] \in 1 .. Parts(init[p])  BY <1>1, TreePart
  <1> QED  BY <1>1, <1>2

\* No two values have the same object.
LEMMA ObjectInjective ==
    ASSUME Given, NEW p \in DOMAIN init, NEW q \in DOMAIN init, ~IsList(p), ~IsList(q),
           objects[p] = objects[q], objects[p] # End
    PROVE  p = q
  <1>1. p \in Places /\ q \in Places /\ Size(p) = 0 /\ Size(q) = 0  BY InitIs
  <1>2. Within(p, q) \/ Within(q, p) \/ Before(p, q) \/ Before(q, p)  BY <1>1, PlacesCompare
  <1>3. CASE Within(p, q)  BY <1>1, <1>3, ValueOnly
  <1>4. CASE Within(q, p)  BY <1>1, <1>4, ValueOnly
  <1>5. ASSUME NEW x \in DOMAIN init, NEW y \in DOMAIN init, Before(x, y),
               objects[x] # End, objects[y] # End
        PROVE  objects[x] # objects[y]
    <2>1. PICK list \in DOMAIN init : \E j, k \in 1 .. Size(list) :
               j < k /\ Within(Append(list, j), x) /\ Within(Append(list, k), y)
      BY <1>5, Divide
    <2>2. PICK j \in 1 .. Size(list), k \in 1 .. Size(list) :
               j < k /\ Within(Append(list, j), x) /\ Within(Append(list, k), y)
      BY <2>1
    <2> DEFINE a == Append(list, j)
               b == Append(list, k)
    <2>3. a \in DOMAIN init /\ b \in DOMAIN init  BY ItemIs
    <2>4. /\ objects[a] # End /\ Within(objects[a], objects[x])
          /\ objects[b] # End /\ Within(objects[b], objects[y])
      BY <1>5, <2>2, <2>3, ObjectDescend
    <2>5. Before(objects[a], objects[b])  BY <2>2, <2>4, ObjectOrder
    <2> HIDE DEF a, b
    <2>6. /\ objects[a] \in Places /\ objects[b] \in Places
          /\ objects[x] \in Places /\ objects[y] \in Places
      BY <2>3, ObjectIn, DeclaredIs
    <2>7. Before(objects[x], objects[b])  BY <2>4, <2>5, <2>6, BeforeParts
    <2>8. Before(objects[x], objects[y])  BY <2>4, <2>6, <2>7, BeforeParts
    <2> SUFFICES ASSUME objects[x] = objects[y]  PROVE FALSE  OBVIOUS
    <2>9. Within(objects[x], objects[y])  BY <2>6, WithinRefl
    <2> QED  BY <2>6, <2>8, <2>9, BeforeOnly
  <1>6. CASE Before(p, q)  BY <1>5, <1>6
  <1>7. CASE Before(q, p)  BY <1>5, <1>7
  <1> QED  BY <1>2, <1>3, <1>4, <1>6, <1>7

\* The object of a value is a scalar.
LEMMA ValueScalar ==
    ASSUME Given, NEW p \in DOMAIN init, ~IsList(p), objects[p] # End
    PROVE  objects[p] \in Scalars(declared) /\ p # <<>>
  <1>1. p # <<>>  BY InitIs
  <1> DEFINE list == Front(p)
             k == Last(p)
  <1>2. list \in DOMAIN init /\ k \in 1 .. Size(list) /\ p = Append(list, k)  BY <1>1, IsItem
  <1> HIDE DEF list, k
  <1>3. objects[list] \in Scalars(declared) => objects[p] = objects[list]  BY <1>2, ItemWithin
  <1>4. objects[list] \notin Scalars(declared) => objects[p] \in Fit(p, Left(list, k - 1))
    BY <1>2, ItemWithin
  <1> QED  BY <1>1, <1>3, <1>4 DEF Fit

\* The initializer's object is the variable.
LEMMA VariableObject ==
    ASSUME Given
    PROVE  objects[<<1>>] = <<1>>
  <1>1. /\ <<>> \in DOMAIN init /\ Size(<<>>) = 1 /\ objects[<<>>] = <<>>
        /\ <<>> \notin Scalars(declared) /\ <<1>> \in DOMAIN declared /\ <<>> \in Places
        /\ <<1>> \in Places /\ TreeOK(declared)
    BY InitIs, DeclaredIs, RootObject
  <1>2. Append(<<>>, 1) = <<1>>  OBVIOUS
  <1>3. objects[<<1>>] = FirstOf(Fit(<<1>>, Left(<<>>, 0)))
    <2>1. 1 \in 1 .. Size(<<>>) /\ 1 - 1 = 0  BY <1>1
    <2> QED  BY <1>1, <1>2, <2>1, ObjectOfItem
  <1>4. Left(<<>>, 0) = Subobjects(declared, <<>>)  BY <1>1 DEF Left
  <1>5. \A q \in Left(<<>>, 0) : q \in DOMAIN declared /\ Within(<<1>>, q)
    BY <1>1, <1>4, TreeRoot DEF Subobjects
  <1>6. <<1>> \in Left(<<>>, 0)
    <2>1. Within(<<>>, <<1>>) /\ <<1>> # <<>>  BY <1>1, <1>2, AppendPlace
    <2> QED  BY <1>1, <1>4, <2>1 DEF Subobjects
  <1>7. <<1>> \in Fit(<<1>>, Left(<<>>, 0))  BY <1>1, <1>6 DEF Fit, Given, Scalars
  <1> DEFINE F == Fit(<<1>>, Left(<<>>, 0))
  <1>8. \A q \in F : q \in DOMAIN declared /\ NotAfter(<<1>>, q)  BY <1>5 DEF Fit, NotAfter
  <1>9. F \in SUBSET DOMAIN declared  BY <1>8
  <1> QED  BY <1>3, <1>7, <1>8, <1>9, FirstIn2

-----------------------------------------------------------------------------
(* The value within the braces around a scalar.                            *)

\* Every finite set of places has a longest one.
LEMMA Longest ==
    ASSUME NEW S \in SUBSET Places, IsFiniteSet(S), S # {}
    PROVE  \E p \in S : \A q \in S : Len(q) <= Len(p)
  <1> DEFINE T == {n \in Nat : \A A \in SUBSET Places :
                       IsFiniteSet(A) /\ A # {} /\ Cardinality(A) = n
                           => \E p \in A : \A q \in A : Len(q) <= Len(p)}
  <1>1. 0 \in T
    <2> SUFFICES ASSUME NEW A \in SUBSET Places, IsFiniteSet(A), A # {}, Cardinality(A) = 0
                 PROVE  FALSE
      OBVIOUS
    <2> QED  BY FS_EmptySet
  <1>2. ASSUME NEW n \in Nat, n \in T  PROVE n + 1 \in T
    <2> SUFFICES ASSUME NEW A \in SUBSET Places, IsFiniteSet(A), A # {}, Cardinality(A) = n + 1
                 PROVE  \E p \in A : \A q \in A : Len(q) <= Len(p)
      OBVIOUS
    <2>1. PICK x \in A : TRUE  OBVIOUS
    <2> DEFINE B == A \ {x}
    <2>2. IsFiniteSet(B) /\ Cardinality(B) = n
      <3>1. IsFiniteSet(A \ {x}) /\ Cardinality(A \ {x}) = Cardinality(A) - 1
        BY <2>1, FS_RemoveElement
      <3> QED  BY <3>1
    <2>3. \A q \in A : Len(q) \in Nat  BY DEF Places
    <2>4. CASE B = {}  BY <2>1, <2>3, <2>4
    <2>5. CASE B # {}
      <3>1. B \in SUBSET Places  OBVIOUS
      <3>2. PICK y \in B : \A q \in B : Len(q) <= Len(y)  BY <1>2, <2>2, <2>5, <3>1
      <3>3. y \in A /\ x \in A /\ \A q \in A : q = x \/ q \in B  BY <2>1, <3>2
      <3> HIDE DEF B
      <3>4. CASE Len(x) <= Len(y)  BY <2>3, <3>2, <3>3, <3>4
      <3>5. CASE Len(y) <= Len(x)
        <4>1. \A q \in A : Len(q) <= Len(x)  BY <2>3, <3>2, <3>3, <3>5
        <4> QED  BY <3>3, <4>1
      <3> QED  BY <2>3, <3>3, <3>4, <3>5
    <2> QED  BY <2>4, <2>5
  <1> HIDE DEF T
  <1>3. \A n \in Nat : n \in T  BY <1>1, <1>2, Induction
  <1>4. Cardinality(S) \in Nat  BY FS_CardinalityType
  <1> QED  BY <1>3, <1>4 DEF T

\* A place, its first part, the first part of that, ...
Firsts(place) == {p \in DOMAIN init : /\ Within(place, p)
                                      /\ \A k \in Len(place) + 1 .. Len(p) : p[k] = 1}

LEMMA FirstsIs ==
    ASSUME Given, NEW place \in DOMAIN init
    PROVE  /\ place \in Firsts(place)
           /\ \A p \in Firsts(place) : p \in DOMAIN init /\ p \in Places /\ Within(place, p)
           /\ \A p \in Firsts(place) :
                 Append(p, 1) \in DOMAIN init => Append(p, 1) \in Firsts(place)
           /\ \A p \in Firsts(place) :
                 p # place => p # <<>> /\ Front(p) \in Firsts(place) /\ Last(p) = 1
           /\ \A p, q \in Firsts(place) : Len(p) <= Len(q) => Within(p, q)
  <1>1. place \in Places /\ Len(place) \in Nat  BY InitIs DEF Places
  <1>2. \A p \in Firsts(place) : /\ p \in DOMAIN init /\ p \in Places /\ Within(place, p)
                                 /\ Len(p) \in Nat /\ Len(place) <= Len(p)
                                 /\ \A k \in 1 .. Len(place) : place[k] = p[k]
                                 /\ \A k \in Len(place) + 1 .. Len(p) : p[k] = 1
    <2> TAKE p \in Firsts(place)
    <2>1. p \in DOMAIN init /\ Within(place, p) /\ \A k \in Len(place) + 1 .. Len(p) : p[k] = 1
      BY DEF Firsts
    <2>2. p \in Places /\ Len(p) \in Nat  BY <2>1, InitIs DEF Places
    <2> QED  BY <1>1, <2>1, <2>2, WithinIs
  <1>3. place \in Firsts(place)
    <2>1. Within(place, place)  BY <1>1, WithinRefl
    <2>2. Len(place) + 1 .. Len(place) = {}  BY <1>1
    <2> QED  BY <2>1, <2>2 DEF Firsts
  <1>4. ASSUME NEW p \in Firsts(place), Append(p, 1) \in DOMAIN init
        PROVE  Append(p, 1) \in Firsts(place)
    <2> DEFINE a == Append(p, 1)
    <2>1. /\ a \in Places /\ Len(a) = Len(p) + 1 /\ a[Len(p) + 1] = 1
          /\ \A k \in 1 .. Len(p) : a[k] = p[k]
      BY <1>2 DEF Places
    <2>2. Within(p, a)  BY <1>2, AppendPlace
    <2> HIDE DEF a
    <2>3. Within(place, a)  BY <1>1, <1>2, <2>1, <2>2, WithinTrans
    <2>4. \A k \in Len(place) + 1 .. Len(a) : k \in 1 .. Len(p) \/ k = Len(p) + 1
      BY <1>1, <1>2, <2>1
    <2>5. \A k \in Len(place) + 1 .. Len(a) : a[k] = 1  BY <1>1, <1>2, <2>1, <2>4
    <2> QED  BY <1>4, <2>3, <2>5 DEF Firsts, a
  <1>5. ASSUME NEW p \in Firsts(place), p # place
        PROVE  p # <<>> /\ Front(p) \in Firsts(place) /\ Last(p) = 1
    <2>1. p # <<>> /\ Within(place, Front(p)) /\ Len(place) < Len(p)
      BY <1>1, <1>2, <1>5, WithinFront
    <2>2. Front(p) \in DOMAIN init  BY <1>2, <2>1, IsItem
    <2>3. /\ Front(p) \in Places /\ Len(Front(p)) = Len(p) - 1 /\ Within(Front(p), p)
      BY <1>2, <2>1, FrontPlace
    <2>4. \A k \in 1 .. Len(p) - 1 : Front(p)[k] = p[k]  BY <1>2, <2>3, WithinIs
    <2>5. \A k \in Len(place) + 1 .. Len(Front(p)) : Front(p)[k] = 1
      BY <1>1, <1>2, <2>3, <2>4
    <2>6. Last(p) = 1  BY <1>1, <1>2, <2>1 DEF Last
    <2> QED  BY <2>1, <2>2, <2>5, <2>6 DEF Firsts
  <1>6. ASSUME NEW p \in Firsts(place), NEW q \in Firsts(place), Len(p) <= Len(q)
        PROVE  Within(p, q)
    <2>1. \A k \in 1 .. Len(p) : p[k] = q[k]
      <3> TAKE k \in 1 .. Len(p)
      <3>1. CASE k <= Len(place)  BY <1>1, <1>2, <3>1
      <3>2. CASE k > Len(place)  BY <1>1, <1>2, <1>6, <3>2
      <3> QED  BY <1>1, <3>1, <3>2
    <2> QED  BY <1>2, <1>6, <2>1, WithinIs
  <1> QED  BY <1>2, <1>3, <1>4, <1>5, <1>6

\* A scalar's item: all that has the object is the item, its first, ...; the
\* last of these is what the walk finds.
LEMMA Innermost ==
    ASSUME Given, NEW place \in DOMAIN init, objects[place] \in Scalars(declared)
    PROVE  \E u \in DOMAIN init :
              /\ Within(place, u) /\ Size(u) = 0 /\ u # <<>> /\ objects[u] = objects[place]
              /\ Unbraced(place) = IF IsList(u) THEN NoItem ELSE u
              /\ \A q \in DOMAIN init : Within(place, q) /\ objects[q] # End
                                           => objects[q] = objects[place] /\ Within(q, u)
  <1> DEFINE F == Firsts(place)
  <1>1. /\ place \in F
        /\ \A p \in F : p \in DOMAIN init /\ p \in Places /\ Within(place, p)
        /\ \A p \in F : Append(p, 1) \in DOMAIN init => Append(p, 1) \in F
        /\ \A p \in F : p # place => p # <<>> /\ Front(p) \in F /\ Last(p) = 1
        /\ \A p, q \in F : Len(p) <= Len(q) => Within(p, q)
    BY FirstsIs
  <1>2. F = {p \in DOMAIN init : /\ Within(place, p)
                                 /\ \A k \in Len(place) + 1 .. Len(p) : p[k] = 1}
    BY DEF Firsts
  <1> HIDE DEF F
  <1>3. PICK u \in F : \A q \in F : Len(q) <= Len(u)
    <2>1. IsFiniteSet(DOMAIN init)  BY InitIs
    <2>2. F \subseteq DOMAIN init /\ F \in SUBSET Places /\ F # {}  BY <1>1
    <2>3. IsFiniteSet(F)  BY <2>1, <2>2, FS_Subset
    <2> QED  BY <2>2, <2>3, Longest
  <1>4. u \in DOMAIN init /\ u \in Places /\ Len(u) \in Nat /\ Size(u) \in Nat
    BY <1>1, <1>3, InitIs DEF Places
  <1>5. Size(u) = 0
    <2> SUFFICES ASSUME Size(u) # 0  PROVE FALSE  OBVIOUS
    <2>1. 1 \in 1 .. Size(u)  BY <1>4
    <2>2. Append(u, 1) \in DOMAIN init /\ Len(Append(u, 1)) = Len(u) + 1  BY <1>4, <2>1, ItemIs
    <2>3. Len(Append(u, 1)) <= Len(u)  BY <1>1, <1>3, <2>2
    <2> QED  BY <1>4, <2>2, <2>3
  <1>6. \A p \in F : objects[p] = objects[place]
    <2> DEFINE T == {n \in Nat : \A p \in F : Len(p) = n => objects[p] = objects[place]}
    <2>1. ASSUME NEW p \in F, p # place, objects[Front(p)] = objects[place]
          PROVE  objects[p] = objects[place]
      <3> DEFINE list == Front(p)
                 k == Last(p)
      <3>1. list \in DOMAIN init /\ k \in 1 .. Size(list) /\ p = Append(list, k) /\ k = 1
        BY <1>1, <2>1, IsItem
      <3>2. objects[list] = objects[place]  BY <2>1
      <3> HIDE DEF list, k
      <3>3. objects[Append(list, k)] = objects[list]  BY <3>1, <3>2, ObjectOfItem
      <3> QED  BY <3>1, <3>2, <3>3
    <2>2. \A p \in F : Len(p) \in Nat /\ (p # place => Len(Front(p)) = Len(p) - 1 /\ p # <<>>)
      BY <1>1, IsItem DEF Places
    <2>3. 0 \in T
      <3> SUFFICES ASSUME NEW p \in F, Len(p) = 0  PROVE objects[p] = objects[place]  OBVIOUS
      <3>1. CASE p = place  BY <3>1
      <3>2. CASE p # place
        <4>1. p # <<>> /\ p \in Places  BY <1>1, <3>2
        <4> QED  BY <4>1 DEF Places
      <3> QED  BY <3>1, <3>2
    <2>4. ASSUME NEW n \in Nat, n \in T  PROVE n + 1 \in T
      <3> SUFFICES ASSUME NEW p \in F, Len(p) = n + 1  PROVE objects[p] = objects[place]  OBVIOUS
      <3>1. CASE p = place  BY <3>1
      <3>2. CASE p # place
        <4>1. Front(p) \in F /\ Len(Front(p)) = n  BY <1>1, <2>2, <3>2
        <4> QED  BY <2>1, <2>4, <3>2, <4>1
      <3> QED  BY <3>1, <3>2
    <2> HIDE DEF T
    <2>5. \A n \in Nat : n \in T  BY <2>3, <2>4, Induction
    <2> QED  BY <2>2, <2>5 DEF T
  <1>7. \A q \in DOMAIN init : Within(place, q) /\ objects[q] # End => q \in F
    <2> DEFINE T == {n \in Nat : \A q \in DOMAIN init :
                        Len(q) = n /\ Within(place, q) /\ objects[q] # End => q \in F}
    <2>1. place \in Places /\ \A q \in DOMAIN init : q \in Places /\ Len(q) \in Nat
      BY InitIs DEF Places
    <2>2. ASSUME NEW q \in DOMAIN init, Within(place, q), objects[q] # End, q # place
          PROVE  /\ q # <<>> /\ Front(q) \in DOMAIN init /\ Len(Front(q)) = Len(q) - 1
                 /\ Within(place, Front(q)) /\ objects[Front(q)] # End
                 /\ Front(q) \in F => q \in F
      <3> DEFINE list == Front(q)
                 k == Last(q)
      <3>1. q # <<>> /\ Within(place, list)  BY <2>1, <2>2, WithinFront
      <3>2. list \in DOMAIN init /\ k \in 1 .. Size(list) /\ q = Append(list, k)
            /\ Len(list) = Len(q) - 1
        BY <3>1, IsItem
      <3> HIDE DEF list, k
      <3>3. objects[list] # End /\ (objects[list] \in Scalars(declared) => k = 1)
        BY <2>2, <3>2, ItemWithin
      <3>4. list \in F => q \in F
        <4> SUFFICES ASSUME list \in F  PROVE q \in F  OBVIOUS
        <4>1. objects[list] = objects[place]  BY <1>6
        <4>2. q = Append(list, 1)  BY <3>2, <3>3, <4>1
        <4> QED  BY <1>1, <2>2, <4>2
      <3> QED  BY <3>1, <3>2, <3>3, <3>4 DEF list
    <2>3. 0 \in T
      <3> SUFFICES ASSUME NEW q \in DOMAIN init, Len(q) = 0, Within(place, q), objects[q] # End
                   PROVE  q \in F
        OBVIOUS
      <3>1. CASE q = place  BY <1>1, <3>1
      <3>2. CASE q # place
        <4>1. q # <<>> /\ q \in Places  BY <2>1, <2>2, <3>2
        <4> QED  BY <4>1 DEF Places
      <3> QED  BY <3>1, <3>2
    <2>4. ASSUME NEW n \in Nat, n \in T  PROVE n + 1 \in T
      <3> SUFFICES ASSUME NEW q \in DOMAIN init, Len(q) = n + 1, Within(place, q), objects[q] # End
                   PROVE  q \in F
        OBVIOUS
      <3>1. CASE q = place  BY <1>1, <3>1
      <3>2. CASE q # place
        <4>1. /\ Front(q) \in DOMAIN init /\ Len(Front(q)) = n
              /\ Within(place, Front(q)) /\ objects[Front(q)] # End
              /\ Front(q) \in F => q \in F
          BY <2>2, <3>2
        <4> QED  BY <2>4, <4>1
      <3> QED  BY <3>1, <3>2
    <2> HIDE DEF T
    <2>5. \A n \in Nat : n \in T  BY <2>3, <2>4, Induction
    <2> QED  BY <2>1, <2>5 DEF T
  <1>8. \A p \in F : Size(p) = 0 => p = u
    <2> TAKE p \in F
    <2>1. Within(p, u)  BY <1>1, <1>3
    <2>2. p \in DOMAIN init  BY <1>1
    <2> QED  BY <1>4, <2>1, <2>2, ValueOnly
  <1>9. Unbraced(place) = IF IsList(u) THEN NoItem ELSE u
    <2> DEFINE inner == CHOOSE p \in F : Size(p) = 0
    <2>1. inner \in F /\ Size(inner) = 0  BY <1>3, <1>5
    <2>2. inner = u  BY <1>8, <2>1
    <2>3. Unbraced(place) = IF IsList(inner) THEN NoItem ELSE inner  BY <1>2 DEF Unbraced
    <2> QED  BY <2>2, <2>3
  <1>10. u # <<>>
    <2>1. Size(<<>>) = 1  BY InitIs
    <2> QED  BY <1>5, <2>1
  <1>11. \A q \in DOMAIN init : Within(place, q) /\ objects[q] # End
                                   => objects[q] = objects[place] /\ Within(q, u)
    BY <1>1, <1>3, <1>6, <1>7
  <1> QED  BY <1>1, <1>3, <1>4, <1>5, <1>6, <1>9, <1>10, <1>11

-----------------------------------------------------------------------------
(* What a frame has still to fill of the object P.                         *)

Rest(P, at, i) ==
    {p \in Subobjects(declared, P) :
        Before(at, p) \/ (Within(at, p) /\ p # at /\ p[Len(at) + 1] >= i)}

LEMMA RestIs ==
    ASSUME Given, NEW P, NEW at \in Places, NEW i \in Nat, NEW p \in Rest(P, at, i)
    PROVE  /\ p \in DOMAIN declared /\ p \in Places /\ p # P /\ Within(P, p)
           /\ Before(at, p) \/ Within(at, p)
           /\ Within(at, p) => /\ p # at /\ Len(at) < Len(p) /\ Len(at) + 1 \in 1 .. Len(p)
                               /\ at \in DOMAIN declared
                               /\ p[Len(at) + 1] >= i
                               /\ p[Len(at) + 1] \in 1 .. Parts(declared[at])
                               /\ Within(Append(at, p[Len(at) + 1]), p)
  <1>1. p \in DOMAIN declared /\ p # P /\ Within(P, p)  BY DEF Rest, Subobjects
  <1>2. Before(at, p) \/ (Within(at, p) /\ p # at /\ p[Len(at) + 1] >= i)  BY DEF Rest
  <1>3. p \in Places /\ TreeOK(declared)  BY <1>1, DeclaredIs
  <1>4. ASSUME Within(at, p)
        PROVE  /\ p # at /\ Len(at) < Len(p) /\ Len(at) + 1 \in 1 .. Len(p)
               /\ at \in DOMAIN declared
               /\ p[Len(at) + 1] >= i
               /\ p[Len(at) + 1] \in 1 .. Parts(declared[at])
               /\ Within(Append(at, p[Len(at) + 1]), p)
    <2>1. ~Before(at, p)  BY <1>3, <1>4, BeforeOnly
    <2>2. p # at /\ p[Len(at) + 1] >= i  BY <1>2, <2>1
    <2>3. /\ at \in DOMAIN declared /\ p[Len(at) + 1] \in 1 .. Parts(declared[at])
          /\ Len(at) < Len(p) /\ Within(Append(at, p[Len(at) + 1]), p)
      BY <1>1, <1>3, <1>4, <2>2, TreePart
    <2>4. Len(at) \in Nat /\ Len(p) \in Nat  BY <1>3 DEF Places
    <2> QED  BY <2>2, <2>3, <2>4
  <1> QED  BY <1>1, <1>2, <1>3, <1>4

\* Behind a component comes the next one.
LEMMA RestNext ==
    ASSUME Given, NEW P, NEW at \in Places, NEW i \in Nat
    PROVE  Rest(P, at, i + 1) = Behind(P, Append(at, i))
  <1> SUFFICES ASSUME NEW p \in Subobjects(declared, P)
               PROVE  (Before(at, p) \/ (Within(at, p) /\ p # at /\ p[Len(at) + 1] >= i + 1))
                          <=> Before(Append(at, i), p)
    BY DEF Rest, Behind
  <1>1. p \in Places /\ Len(at) \in Nat /\ Len(p) \in Nat  BY DeclaredIs DEF Subobjects, Places
  <1>2. Before(Append(at, i), p) <=> \/ Before(at, p)
                                     \/ Within(at, p) /\ Len(at) < Len(p) /\ i < p[Len(at) + 1]
    BY <1>1, AppendBefore
  <1>3. Within(at, p) => (p # at <=> Len(at) < Len(p))
    <2>1. Within(at, p) /\ p # at => Len(at) < Len(p)  BY <1>1, WithinFront
    <2> QED  BY <1>1, <2>1
  <1>4. Len(at) < Len(p) => p[Len(at) + 1] \in Nat  BY <1>1 DEF Places
  <1>5. Len(at) < Len(p) => (i < p[Len(at) + 1] <=> p[Len(at) + 1] >= i + 1)  BY <1>4
  <1> QED  BY <1>2, <1>3, <1>5

\* The first of it is the next component.
LEMMA RestFirst ==
    ASSUME Given, NEW P \in Places, NEW at \in DOMAIN declared, NEW i \in Nat,
           Within(P, at), Append(at, i) \in DOMAIN declared
    PROVE  /\ Append(at, i) \in Rest(P, at, i)
           /\ \A q \in Rest(P, at, i) : NotAfter(Append(at, i), q)
           /\ Rest(P, Append(at, i), 1) = Rest(P, at, i) \ {Append(at, i)}
  <1> DEFINE part == Append(at, i)
  <1>1. at \in Places /\ TreeOK(declared)  BY DeclaredIs
  <1>2. /\ part \in Places /\ Len(part) = Len(at) + 1 /\ part[Len(at) + 1] = i
        /\ Within(at, part) /\ part # at /\ Len(at) \in Nat /\ Len(part) \in Nat
    <2>1. part[Len(at) + 1] = i /\ Len(at) \in Nat  BY <1>1 DEF Places
    <2>2. part \in Places /\ Len(part) = Len(at) + 1 /\ Within(at, part) /\ part # at
      BY <1>1, AppendPlace
    <2> QED  BY <2>1, <2>2
  <1>3. \A q \in Places : Before(part, q) <=> \/ Before(at, q)
                                              \/ Within(at, q) /\ Len(at) < Len(q) /\ i < q[Len(at) + 1]
    BY <1>1, AppendBefore
  <1>4. \A q \in Places : Within(part, q) <=> Within(at, q) /\ Len(at) < Len(q) /\ q[Len(at) + 1] = i
    BY <1>1, AppendWithin
  <1>5. \A p \in Subobjects(declared, P) : p \in DOMAIN declared /\ p \in Places
    BY DeclaredIs DEF Subobjects
  <1>6. part \in DOMAIN declared  OBVIOUS
  <1> HIDE DEF part
  <1>7. part \in Rest(P, at, i)
    <2>1. Within(P, part)  BY <1>1, <1>2, WithinTrans
    <2>2. part # P
      <3> SUFFICES ASSUME part = P  PROVE FALSE  OBVIOUS
      <3>1. Within(part, at)  OBVIOUS
      <3> QED  BY <1>1, <1>2, <3>1, WithinAntisym
    <2> QED  BY <1>2, <1>6, <2>1, <2>2 DEF Rest, Subobjects
  <1>8. \A q \in Rest(P, at, i) : NotAfter(part, q)
    <2> TAKE q \in Rest(P, at, i)
    <2>1. q \in Places /\ (Before(at, q) \/ Within(at, q))  BY <1>1, RestIs
    <2>2. CASE Before(at, q)  BY <1>3, <2>1, <2>2 DEF NotAfter
    <2>3. CASE Within(at, q)
      <3>1. Len(at) < Len(q) /\ q[Len(at) + 1] >= i /\ q[Len(at) + 1] \in 1 .. Parts(declared[at])
        BY <1>1, <2>3, RestIs
      <3>2. q[Len(at) + 1] = i \/ i < q[Len(at) + 1]  BY <3>1
      <3> QED  BY <1>3, <1>4, <2>1, <2>3, <3>1, <3>2 DEF NotAfter
    <2> QED  BY <2>1, <2>2, <2>3
  <1>9. ASSUME NEW p \in Subobjects(declared, P)
        PROVE  p \in Rest(P, part, 1) <=> p \in Rest(P, at, i) \ {part}
    <2>1. p \in DOMAIN declared /\ p \in Places  BY <1>5
    <2>2. p \in Rest(P, at, i) <=> Before(at, p) \/ (Within(at, p) /\ p # at /\ p[Len(at) + 1] >= i)
      BY DEF Rest
    <2>3. p \in Rest(P, part, 1) <=>
              Before(part, p) \/ (Within(part, p) /\ p # part /\ p[Len(part) + 1] >= 1)
      BY DEF Rest
    <2>4. Within(part, p) /\ p # part => p[Len(part) + 1] \in 1 .. Parts(declared[part])
      BY <1>1, <1>2, <2>1, TreePart
    <2>5. p \in Rest(P, part, 1) <=> Before(part, p) \/ (Within(part, p) /\ p # part)
      BY <1>1, <1>6, <2>3, <2>4 DEF TreeOK
    <2>6. ASSUME p \in Rest(P, at, i), p # part  PROVE p \in Rest(P, part, 1)
      <3>1. NotAfter(part, p)  BY <1>8, <2>6
      <3> QED  BY <2>5, <2>6, <3>1 DEF NotAfter
    <2>7. ASSUME p \in Rest(P, part, 1)  PROVE p \in Rest(P, at, i) /\ p # part
      <3>1. p # part
        <4>1. Within(part, part)  BY <1>2, WithinRefl
        <4>2. ~Before(part, part)  BY <1>2, <4>1, BeforeOnly
        <4> QED  BY <2>5, <2>7, <4>2
      <3>2. Before(at, p) \/ (Within(at, p) /\ Len(at) < Len(p) /\ p[Len(at) + 1] >= i)
        <4>1. Len(p) \in Nat /\ (Len(at) < Len(p) => p[Len(at) + 1] \in Nat)
          BY <1>2, <2>1 DEF Places
        <4> QED  BY <1>3, <1>4, <2>1, <2>5, <2>7, <4>1
      <3>3. Len(at) < Len(p) => p # at  BY <1>2
      <3> QED  BY <2>2, <3>1, <3>2, <3>3
    <2> QED  BY <2>6, <2>7
  <1>10. Rest(P, part, 1) \subseteq Subobjects(declared, P)
         /\ Rest(P, at, i) \subseteq Subobjects(declared, P)
    BY DEF Rest
  <1>11. Rest(P, part, 1) = Rest(P, at, i) \ {part}  BY <1>9, <1>10
  <1> QED  BY <1>7, <1>8, <1>11 DEF part

\* At first it is the whole object.
LEMMA RestAll ==
    ASSUME Given, NEW at \in DOMAIN declared
    PROVE  Rest(at, at, 1) = Subobjects(declared, at)
  <1>1. at \in Places /\ TreeOK(declared) /\ \A p \in DOMAIN declared : Parts(declared[p]) \in Nat
    BY DeclaredIs
  <1>2. ASSUME NEW p \in Subobjects(declared, at)  PROVE p \in Rest(at, at, 1)
    <2>1. p \in DOMAIN declared /\ p # at /\ Within(at, p)  BY DEF Subobjects
    <2>2. p[Len(at) + 1] \in 1 .. Parts(declared[at])  BY <1>1, <2>1, TreePart
    <2> QED  BY <1>1, <2>1, <2>2 DEF Rest
  <1> QED  BY <1>2 DEF Rest

\* In the end it is what comes behind the object.
LEMMA RestEnd ==
    ASSUME Given, NEW P, NEW at \in Places, NEW j \in Nat,
           Append(at, j) \in DOMAIN declared,
           NEW i \in Nat, i > Parts(declared[Append(at, j)])
    PROVE  Rest(P, Append(at, j), i) = Rest(P, at, j + 1)
  <1> DEFINE part == Append(at, j)
  <1>1. part \in Places /\ Parts(declared[part]) \in Nat  BY DeclaredIs
  <1>2. \A p \in Rest(P, part, i) : ~Within(part, p)
    <2> SUFFICES ASSUME NEW p \in Rest(P, part, i), Within(part, p)  PROVE FALSE  OBVIOUS
    <2>1. p[Len(part) + 1] >= i /\ p[Len(part) + 1] \in 1 .. Parts(declared[part])
      BY <1>1, RestIs
    <2> QED  BY <1>1, <2>1
  <1> HIDE DEF part
  <1>3. Rest(P, part, i) = Behind(P, part)
    BY <1>2 DEF Rest, Behind
  <1>4. Rest(P, at, j + 1) = Behind(P, part)
    BY RestNext DEF part
  <1> QED  BY <1>3, <1>4 DEF part

LEMMA RestNone ==
    ASSUME Given, NEW at \in DOMAIN declared, NEW i \in Nat, i > Parts(declared[at])
    PROVE  Rest(at, at, i) = {}
  <1> SUFFICES ASSUME NEW p \in Rest(at, at, i)  PROVE FALSE  OBVIOUS
  <1>1. at \in Places /\ Parts(declared[at]) \in Nat  BY DeclaredIs
  <1>2. Within(at, p)  BY <1>1, RestIs
  <1>3. p[Len(at) + 1] >= i /\ p[Len(at) + 1] \in 1 .. Parts(declared[at])  BY <1>1, <1>2, RestIs
  <1> QED  BY <1>1, <1>3

-----------------------------------------------------------------------------
(***************************************************************************)
(* The inductive invariant.  The operators take the stack, the cursors and *)
(* the type that a step changes as parameters: what is given stays.        *)
(***************************************************************************)

\* The elements that C counts in an unsized array, whose items all have one.
Counted(n) ==
    /\ n \in 0 .. MaxElems
    /\ \A k \in 1 .. Size(<<1>>) : objects[<<1, k>>] # End /\ objects[<<1, k>>][2] <= n
    /\ n = 0 \/ \E k \in 1 .. Size(<<1>>) : objects[<<1, k>>][2] = n

\* The type is completed behind the constant walk.
TypeNow ==
    /\ pass \in {"begin", "constant", "local", "done", "halted"}
    /\ array_len \in Nat
    /\ pass \in {"begin", "constant"} => type = declared
    /\ \/ type = declared
       \/ /\ declared[<<1>>].len = Unsized /\ Counted(array_len)
          /\ type = [declared EXCEPT ![<<1>>].len = array_len]
    /\ pass \in {"local", "done"} => type[<<1>>].len # Unsized

CursorsOK(c) == \A list \in DOMAIN c : list \in DOMAIN init /\ c[list] \in 0 .. Size(list)

Frames == [at : DOMAIN declared, list : DOMAIN init, i : Nat \ {0}, braced : BOOLEAN]

\* A frame is within the object of its list, and its list's items so far
\* have objects.
FrameOK(f, c, t) ==
    /\ f.list \in DOMAIN c /\ IsList(f.list)
    /\ f.i <= Parts(t[f.at]) + 1
    /\ objects[f.list] \in DOMAIN declared /\ objects[f.list] \notin Scalars(declared)
    /\ Within(objects[f.list], f.at)
    /\ \A k \in 1 .. c[f.list] : objects[Append(f.list, k)] # End

\* g fills the component of f that was entered last, from braces of its own
\* or from f's list.
Entered(f, g, c) ==
    /\ f.i > 1 /\ g.at = Append(f.at, f.i - 1)
    /\ IF g.braced
       THEN /\ c[f.list] < Size(f.list)
            /\ g.list = Append(f.list, c[f.list] + 1) /\ objects[g.list] = g.at
       ELSE g.list = f.list

StackIs(s, c, t) ==
    /\ s \in Seq(Frames)
    /\ \A k \in 1 .. Len(s) : FrameOK(s[k], c, t) /\ Len(s[k].at) = k - 1
    /\ s # <<>> => /\ s[1].at = <<>> /\ s[1].list = <<>> /\ ~s[1].braced
                   /\ s[1].i = 1 => c[<<>>] = 0
    /\ \A k \in 1 .. Len(s) - 1 : Entered(s[k], s[k + 1], c)
    /\ Len(s) > 1 => s[2].braced
    /\ \A j, k \in 1 .. Len(s) : j <= k => /\ Within(s[j].at, s[k].at)
                                           /\ Len(s[j].list) <= Len(s[k].list)

StackOK == CursorsOK(curr) /\ StackIs(stack, curr, type)

\* The cursor of a list and the frame that fills from it agree on what is
\* left: a value may find an aggregate entered that its scalar is in.
Track(list, at, i, c) ==
    c[list] < Size(list) =>
        \/ Left(list, c[list]) = Rest(objects[list], at, i)
        \/ /\ ~IsList(Append(list, c[list] + 1))
           /\ Left(list, c[list]) \cap Scalars(declared)
                 = Rest(objects[list], at, i) \cap Scalars(declared)

TrackedIs(s, c, p) ==
    s # <<>> /\ p \in {"constant", "local"} /\ ~(p = "local" /\ is_all_constant(Last(s).list))
        => Track(Last(s).list, Last(s).at, Last(s).i, c)

Tracked == TrackedIs(stack, curr, pass)

LEMMA TypeIs ==
    ASSUME Given, TypeNow
    PROVE  /\ DOMAIN type = DOMAIN declared
           /\ \A p \in DOMAIN declared :
                 /\ type[p].kind = declared[p].kind
                 /\ Parts(type[p]) \in Nat /\ Parts(type[p]) <= Parts(declared[p])
                 /\ p # <<1>> => type[p].len # Unsized /\ Parts(type[p]) = Parts(declared[p])
           /\ type # declared => /\ declared[<<1>>].len = Unsized /\ Counted(array_len)
                                 /\ type[<<1>>].len = array_len
                                 /\ Parts(type[<<1>>]) = array_len
  <1>1. /\ declared \in [DOMAIN declared -> [kind : {"scalar", "array", "struct", "union"},
                                             len : Nat \cup {Unsized}]]
        /\ \A p \in DOMAIN declared :
              declared[p].len = Unsized => p = <<1>> /\ declared[p].kind = "array"
    BY TypeTree DEF Given
  <1>2. <<1>> \in DOMAIN declared /\ \A p \in DOMAIN declared : Parts(declared[p]) \in Nat
    BY DeclaredIs
  <1>3. CASE type = declared  BY <1>1, <1>2, <1>3
  <1>4. CASE type # declared
    <2>1. /\ declared[<<1>>].len = Unsized /\ Counted(array_len) /\ array_len \in 0 .. MaxElems
          /\ type = [declared EXCEPT ![<<1>>].len = array_len]
      BY <1>4 DEF TypeNow, Counted
    <2>2. declared[<<1>>].kind = "array" /\ declared[<<1>>] \in [kind : {"scalar", "array", "struct", "union"}, len : Nat \cup {Unsized}]
      BY <1>1, <1>2, <2>1
    <2>3. /\ DOMAIN type = DOMAIN declared
          /\ \A p \in DOMAIN declared : p # <<1>> => type[p] = declared[p]
          /\ type[<<1>>] = [declared[<<1>>] EXCEPT !.len = array_len]
      BY <1>2, <2>1
    <2>4. type[<<1>>].kind = "array" /\ type[<<1>>].len = array_len  BY <2>2, <2>3
    <2>5. Parts(declared[<<1>>]) = MaxElems  BY <2>1, <2>2 DEF Parts
    <2>6. Parts(type[<<1>>]) = array_len
      <3>1. array_len # Unsized  BY <2>1, BoundAssumption
      <3> QED  BY <2>4, <3>1 DEF Parts
    <2>7. array_len \in Nat /\ array_len <= MaxElems  BY <2>1, BoundAssumption
    <2>8. ASSUME NEW p \in DOMAIN declared
          PROVE  /\ type[p].kind = declared[p].kind
                 /\ Parts(type[p]) \in Nat /\ Parts(type[p]) <= Parts(declared[p])
                 /\ p # <<1>> => type[p].len # Unsized /\ Parts(type[p]) = Parts(declared[p])
      <3>1. CASE p = <<1>>  BY <2>2, <2>4, <2>5, <2>6, <2>7, <3>1
      <3>2. CASE p # <<1>>
        <4>1. type[p] = declared[p] /\ Parts(declared[p]) \in Nat  BY <1>2, <2>3, <3>2
        <4>2. declared[p].len # Unsized  BY <1>1, <3>2
        <4> QED  BY <3>2, <4>1, <4>2
      <3> QED  BY <3>1, <3>2
    <2> QED  BY <2>1, <2>3, <2>4, <2>6, <2>8
  <1> QED  BY <1>3, <1>4

-----------------------------------------------------------------------------
(* The stack.                                                              *)

LEMMA NextIs ==
    ASSUME stack \in Seq(Frames), stack # <<>>
    PROVE  /\ Len(stack) \in Nat \ {0} /\ top = stack[Len(stack)] /\ top \in Frames
           /\ NextComponent \in Seq(Frames) /\ Len(NextComponent) = Len(stack)
           /\ NextComponent # <<>>
           /\ \A k \in 1 .. Len(stack) :
                 /\ NextComponent[k].at = stack[k].at /\ NextComponent[k].list = stack[k].list
                 /\ NextComponent[k].braced = stack[k].braced
                 /\ k # Len(stack) => NextComponent[k] = stack[k]
           /\ NextComponent[Len(stack)].i = top.i + 1
  <1>1. Len(stack) \in Nat \ {0} /\ top = stack[Len(stack)] /\ top \in Frames
    BY DEF top, Last
  <1> DEFINE n == Len(stack)
             f == [stack[n] EXCEPT !.i = @ + 1]
  <1>2. stack[n] \in Frames /\ stack[n].i \in Nat \ {0}  BY <1>1 DEF Frames
  <1>3. /\ f \in Frames /\ f.at = stack[n].at /\ f.list = stack[n].list
        /\ f.braced = stack[n].braced /\ f.i = stack[n].i + 1
    BY <1>2 DEF Frames
  <1>4. NextComponent = [stack EXCEPT ![n] = f]  BY DEF NextComponent
  <1> HIDE DEF f
  <1>5. /\ NextComponent \in Seq(Frames) /\ Len(NextComponent) = n
        /\ \A k \in 1 .. n : NextComponent[k] = IF k = n THEN f ELSE stack[k]
    BY <1>1, <1>3, <1>4
  <1>6. NextComponent # <<>>
    <2>1. Len(<<>>) = 0  OBVIOUS
    <2> QED  BY <1>1, <1>5, <2>1
  <1> QED  BY <1>1, <1>3, <1>5, <1>6

\* What holds of every frame of the stack and of its top.
LEMMA TopIs ==
    ASSUME Given, TypeNow, StackOK, Running
    PROVE  /\ Len(stack) \in Nat \ {0} /\ top = stack[Len(stack)] /\ top \in Frames
           /\ top.at \in DOMAIN declared /\ top.at \in Places
           /\ top.list \in DOMAIN init /\ top.list \in Places
           /\ top.i \in Nat \ {0} /\ FrameOK(top, curr, type)
           /\ curr[top.list] \in 0 .. Size(top.list) /\ curr[top.list] \in Nat
           /\ Size(top.list) \in Nat /\ objects[top.list] \in Places
  <1>1. stack # <<>> /\ stack \in Seq(Frames)  BY DEF Running, StackOK, StackIs
  <1>2. Len(stack) \in Nat \ {0} /\ top = stack[Len(stack)] /\ top \in Frames  BY <1>1, NextIs
  <1>3. top.at \in DOMAIN declared /\ top.list \in DOMAIN init /\ top.i \in Nat \ {0}
    BY <1>2 DEF Frames
  <1>4. FrameOK(top, curr, type)  BY <1>2 DEF StackOK, StackIs
  <1>5. curr[top.list] \in 0 .. Size(top.list)  BY <1>4 DEF FrameOK, StackOK, CursorsOK
  <1>6. Size(top.list) \in Nat /\ top.list \in Places  BY <1>3, InitIs
  <1>7. top.at \in Places /\ objects[top.list] \in Places
    BY <1>3, ObjectIn, DeclaredIs
  <1> QED  BY <1>2, <1>3, <1>4, <1>5, <1>6, <1>7

\* The component that comes next.
LEMMA ElemIs ==
    ASSUME Given, TypeNow, StackOK, Visits
    PROVE  /\ Running /\ top.i <= Parts(type[top.at])
           /\ elem \in DOMAIN declared /\ elem \in Places /\ elem = Append(top.at, top.i)
           /\ Within(top.at, elem) /\ Len(elem) = Len(top.at) + 1
           /\ Within(objects[top.list], elem) /\ objects[top.list] # elem
           /\ type[elem].kind = declared[elem].kind
  <1>1. Running /\ top.i <= Parts(type[top.at])  BY DEF Visits
  <1>2. /\ top.at \in DOMAIN declared /\ top.at \in Places /\ top.i \in Nat \ {0}
        /\ objects[top.list] \in Places /\ Within(objects[top.list], top.at)
    BY <1>1, TopIs DEF FrameOK
  <1>3. Parts(type[top.at]) \in Nat /\ Parts(type[top.at]) <= Parts(declared[top.at])
        /\ Parts(declared[top.at]) \in Nat /\ TreeOK(declared)
    BY <1>2, TypeIs, DeclaredIs
  <1>4. top.i \in 1 .. Parts(declared[top.at])  BY <1>1, <1>2, <1>3
  <1>5. elem \in DOMAIN declared  BY <1>2, <1>3, <1>4 DEF TreeOK, elem
  <1>6. /\ elem \in Places /\ elem # top.at /\ Within(top.at, elem)
        /\ Len(elem) = Len(top.at) + 1
    BY <1>2, AppendPlace DEF elem
  <1>7. Within(objects[top.list], elem)  BY <1>2, <1>6, WithinTrans
  <1>8. objects[top.list] # elem
    <2>1. Len(objects[top.list]) <= Len(top.at) /\ Len(top.at) \in Nat  BY <1>2, WithinIs DEF Places
    <2>2. Len(objects[top.list]) # Len(elem)  BY <1>6, <2>1, <1>2 DEF Places
    <2> QED  BY <2>2
  <1>9. type[elem].kind = declared[elem].kind  BY <1>5, TypeIs
  <1> QED  BY <1>1, <1>5, <1>6, <1>7, <1>8, <1>9 DEF elem

\* What C makes of the item that comes next.
LEMMA ItemObject ==
    ASSUME Given, TypeNow, StackOK, Tracked, Running, HasItem, ~Returns
    PROVE  /\ item \in DOMAIN init /\ item = Append(top.list, curr[top.list] + 1)
           /\ curr[top.list] + 1 \in 1 .. Size(top.list)
           /\ item \in Places /\ Len(item) = Len(top.list) + 1 /\ Front(item) = top.list
           /\ item # <<>>
           /\ objects[item] = FirstOf(Fit(item, Rest(objects[top.list], top.at, top.i)))
           /\ \/ Left(top.list, curr[top.list]) = Rest(objects[top.list], top.at, top.i)
              \/ ~IsList(item)
           /\ Left(top.list, curr[top.list]) \cap Scalars(declared)
                 = Rest(objects[top.list], top.at, top.i) \cap Scalars(declared)
  <1> DEFINE list == top.list
             c == curr[list]
             P == objects[list]
             R == Rest(P, top.at, top.i)
             L == Left(list, c)
  <1>1. /\ list \in DOMAIN init /\ c \in Nat /\ Size(list) \in Nat
        /\ P \notin Scalars(declared)
    BY TopIs DEF FrameOK
  <1>2. c < Size(list)  BY DEF HasItem
  <1>3. c + 1 \in 1 .. Size(list) /\ (c + 1) - 1 = c  BY <1>1, <1>2
  <1>4. item = Append(list, c + 1)  BY DEF item
  <1>5. /\ item \in DOMAIN init /\ item \in Places /\ item # <<>>
        /\ Len(item) = Len(list) + 1 /\ Front(item) = list
    BY <1>1, <1>3, <1>4, ItemIs
  <1>6. L = R \/ (~IsList(item) /\ L \cap Scalars(declared) = R \cap Scalars(declared))
    <2>1. Track(top.list, top.at, top.i, curr)
      BY DEF Tracked, TrackedIs, Running, Returns, top
    <2> QED  BY <1>2, <1>4, <2>1 DEF Track
  <1>7. objects[item] = FirstOf(Fit(item, L))  BY <1>1, <1>3, <1>4, ObjectOfItem
  <1> HIDE DEF L, R
  <1>8. Fit(item, L) = Fit(item, R)  BY <1>6 DEF Fit
  <1>9. L \cap Scalars(declared) = R \cap Scalars(declared)  BY <1>6
  <1> QED  BY <1>3, <1>4, <1>5, <1>6, <1>7, <1>8, <1>9 DEF L, R

\* The item that comes next has the next component for its object, if it
\* can.
LEMMA NextItem ==
    ASSUME Given, TypeNow, StackOK, Tracked, Visits, HasItem, ~Returns,
           IsList(item) \/ elem \in Scalars(declared)
    PROVE  objects[item] = elem
  <1> DEFINE P == objects[top.list]
             R == Rest(P, top.at, top.i)
             F == Fit(item, R)
  <1>1. /\ Running /\ elem \in DOMAIN declared /\ elem = Append(top.at, top.i)
    BY ElemIs
  <1>2. /\ P \in Places /\ top.at \in DOMAIN declared /\ top.i \in Nat /\ Within(P, top.at)
    BY <1>1, TopIs DEF FrameOK
  <1>3. elem \in R /\ \A q \in R : NotAfter(elem, q)  BY <1>1, <1>2, RestFirst
  <1>4. R \in SUBSET DOMAIN declared  BY DEF Rest, Subobjects
  <1>5. objects[item] = FirstOf(F)  BY <1>1, ItemObject
  <1> HIDE DEF R
  <1>6. elem \in F  BY <1>3 DEF Fit
  <1>7. F \in SUBSET DOMAIN declared /\ \A q \in F : NotAfter(elem, q)  BY <1>3, <1>4 DEF Fit
  <1> HIDE DEF F
  <1>8. FirstOf(F) = elem  BY <1>6, <1>7, FirstIn2
  <1> QED  BY <1>5, <1>8

LEMMA FramesIs ==
    ASSUME Given, NEW f \in Frames
    PROVE  /\ f.at \in DOMAIN declared /\ f.at \in Places /\ Len(f.at) \in Nat
           /\ f.list \in DOMAIN init /\ f.list \in Places /\ Len(f.list) \in Nat
           /\ f.i \in Nat \ {0} /\ f.braced \in BOOLEAN
  <1>1. f.at \in DOMAIN declared /\ f.list \in DOMAIN init /\ f.i \in Nat \ {0} /\ f.braced \in BOOLEAN
    BY DEF Frames
  <1>2. f.at \in Places /\ f.list \in Places  BY <1>1, DeclaredIs, InitIs
  <1> QED  BY <1>1, <1>2 DEF Places

\* The frames below the top have been entered.
LEMMA Below ==
    ASSUME Given, TypeNow, StackOK, NEW k \in 1 .. Len(stack), k # Len(stack)
    PROVE  /\ k + 1 \in 1 .. Len(stack) /\ k \in 1 .. Len(stack) - 1
           /\ stack[k].i > 1
           /\ stack[k + 1].braced => stack[k].list # stack[k + 1].list
                                     /\ Len(stack[k].list) < Len(stack[k + 1].list)
           /\ ~stack[k + 1].braced => stack[k].list = stack[k + 1].list
           /\ Entered(stack[k], stack[k + 1], curr)
  <1>1. stack \in Seq(Frames) /\ Len(stack) \in Nat  BY DEF StackOK, StackIs
  <1>2. k + 1 \in 1 .. Len(stack) /\ k \in 1 .. Len(stack) - 1  BY <1>1
  <1>3. Entered(stack[k], stack[k + 1], curr)  BY <1>2 DEF StackOK, StackIs
  <1>4. stack[k].list \in Places /\ Len(stack[k].list) \in Nat /\ stack[k].list \in DOMAIN init
    <2>1. stack[k] \in Frames  BY <1>1
    <2> QED  BY <2>1, FramesIs
  <1>5. FrameOK(stack[k], curr, type)  BY DEF StackOK, StackIs
  <1>6. curr[stack[k].list] \in Nat /\ Size(stack[k].list) \in Nat
    BY <1>4, <1>5, InitIs DEF FrameOK, StackOK, CursorsOK
  <1>7. ASSUME stack[k + 1].braced
        PROVE  Len(stack[k].list) < Len(stack[k + 1].list)
    <2>1. stack[k + 1].list = Append(stack[k].list, curr[stack[k].list] + 1)
      BY <1>3, <1>7 DEF Entered
    <2>2. Len(stack[k + 1].list) = Len(stack[k].list) + 1  BY <1>4, <1>6, <2>1, AppendPlace
    <2> QED  BY <1>4, <2>2
  <1>8. ASSUME stack[k + 1].braced
        PROVE  stack[k].list # stack[k + 1].list
    BY <1>4, <1>7, <1>8
  <1>9. stack[k].i > 1 /\ (~stack[k + 1].braced => stack[k].list = stack[k + 1].list)
    BY <1>3 DEF Entered
  <1> QED  BY <1>2, <1>3, <1>7, <1>8, <1>9

\* A braced list is not among those below it.
LEMMA BelowBraced ==
    ASSUME Given, TypeNow, StackOK, NEW k \in 1 .. Len(stack), NEW m \in 1 .. Len(stack),
           k < m, stack[k + 1].braced
    PROVE  stack[k].list # stack[m].list
  <1>1. stack \in Seq(Frames) /\ Len(stack) \in Nat  BY DEF StackOK, StackIs
  <1>2. k # Len(stack) /\ k + 1 <= m  BY <1>1
  <1>3. k + 1 \in 1 .. Len(stack) /\ Len(stack[k].list) < Len(stack[k + 1].list)
    BY <1>2, Below
  <1>4. Len(stack[k + 1].list) <= Len(stack[m].list)  BY <1>2, <1>3 DEF StackOK, StackIs
  <1>5. stack[k] \in Frames /\ stack[k + 1] \in Frames /\ stack[m] \in Frames  BY <1>1, <1>3
  <1>6. /\ Len(stack[k].list) \in Nat /\ Len(stack[k + 1].list) \in Nat
        /\ Len(stack[m].list) \in Nat
    BY <1>5, FramesIs
  <1> QED  BY <1>3, <1>4, <1>6

\* The next component, with the cursor moved or not.
LEMMA StackNext ==
    ASSUME Given, TypeNow, StackOK, Visits, NEW c,
           \A k \in 1 .. Len(stack) :
              /\ stack[k].list \in DOMAIN c
              /\ stack[k].list # top.list => c[stack[k].list] = curr[stack[k].list],
           \A k \in 1 .. c[top.list] : objects[Append(top.list, k)] # End
    PROVE  StackIs(NextComponent, c, type)
  <1> DEFINE n == Len(stack)
             s == NextComponent
  <1>1. Running /\ stack # <<>> /\ stack \in Seq(Frames) /\ top.i <= Parts(type[top.at])
    BY DEF Visits, Running, StackOK, StackIs
  <1>2. /\ n \in Nat \ {0} /\ top = stack[n] /\ top \in Frames
        /\ s \in Seq(Frames) /\ Len(s) = n
        /\ \A k \in 1 .. n : /\ s[k].at = stack[k].at /\ s[k].list = stack[k].list
                             /\ s[k].braced = stack[k].braced
                             /\ k # n => s[k] = stack[k]
        /\ s[n].i = top.i + 1
    BY <1>1, NextIs
  <1> HIDE DEF s
  <1>3. ASSUME NEW k \in 1 .. n  PROVE FrameOK(s[k], c, type) /\ Len(s[k].at) = k - 1
    <2>1. FrameOK(stack[k], curr, type) /\ Len(stack[k].at) = k - 1  BY DEF StackOK, StackIs
    <2>2. s[k].at = stack[k].at /\ s[k].list = stack[k].list  BY <1>2
    <2>3. s[k].i <= Parts(type[s[k].at]) + 1
      <3>1. CASE k # n  BY <1>2, <2>1, <3>1 DEF FrameOK
      <3>2. CASE k = n
        <4>1. top.i \in Nat /\ Parts(type[top.at]) \in Nat  BY <1>2, TypeIs DEF Frames
        <4> QED  BY <1>1, <1>2, <3>2, <4>1
      <3> QED  BY <3>1, <3>2
    <2>4. \A j \in 1 .. c[s[k].list] : objects[Append(s[k].list, j)] # End
      <3>1. CASE stack[k].list = top.list  BY <2>2, <3>1
      <3>2. CASE stack[k].list # top.list  BY <2>1, <2>2, <3>2 DEF FrameOK
      <3> QED  BY <3>1, <3>2
    <2> QED  BY <2>1, <2>2, <2>3, <2>4 DEF FrameOK
  <1>4. s # <<>> => /\ s[1].at = <<>> /\ s[1].list = <<>> /\ ~s[1].braced
                    /\ s[1].i = 1 => c[<<>>] = 0
    <2>1. 1 \in 1 .. n  BY <1>2
    <2>2. s[1].at = <<>> /\ s[1].list = <<>> /\ ~s[1].braced
      BY <1>1, <1>2, <2>1 DEF StackOK, StackIs
    <2>3. s[1].i # 1
      <3>1. CASE n = 1
        <4>1. top.i \in Nat \ {0}  BY <1>2 DEF Frames
        <4> QED  BY <1>2, <3>1, <4>1
      <3>2. CASE n # 1
        <4>1. stack[1].i > 1 /\ s[1] = stack[1]  BY <1>2, <2>1, <3>2, Below
        <4> QED  BY <4>1
      <3> QED  BY <3>1, <3>2
    <2> QED  BY <2>2, <2>3
  <1>5. ASSUME NEW k \in 1 .. n - 1  PROVE Entered(s[k], s[k + 1], c)
    <2>1. k \in 1 .. n /\ k # n /\ k + 1 \in 1 .. n /\ k < n /\ n \in 1 .. n  BY <1>2
    <2>2. Entered(stack[k], stack[k + 1], curr)  BY <2>1, Below
    <2>3. /\ s[k] = stack[k] /\ s[k + 1].at = stack[k + 1].at
          /\ s[k + 1].list = stack[k + 1].list /\ s[k + 1].braced = stack[k + 1].braced
      BY <1>2, <2>1
    <2>4. stack[k + 1].braced => c[stack[k].list] = curr[stack[k].list]
      <3> SUFFICES ASSUME stack[k + 1].braced  PROVE c[stack[k].list] = curr[stack[k].list]
        OBVIOUS
      <3>1. stack[k].list # stack[n].list  BY <2>1, BelowBraced
      <3> QED  BY <1>2, <2>1, <3>1
    <2> QED  BY <2>2, <2>3, <2>4 DEF Entered
  <1>6. n > 1 => s[2].braced
    <2> SUFFICES ASSUME n > 1  PROVE s[2].braced  OBVIOUS
    <2>1. 2 \in 1 .. n  BY <1>2
    <2>2. stack[2].braced  BY DEF StackOK, StackIs
    <2> QED  BY <1>2, <2>1, <2>2
  <1>7. \A j, k \in 1 .. n : j <= k => /\ Within(s[j].at, s[k].at)
                                       /\ Len(s[j].list) <= Len(s[k].list)
    BY <1>2 DEF StackOK, StackIs
  <1> QED  BY <1>2, <1>3, <1>4, <1>5, <1>6, <1>7 DEF StackIs, s

\* A frame on top.
LEMMA StackPush ==
    ASSUME Given, NEW s, NEW c, NEW t, StackIs(s, c, t), s # <<>>,
           NEW g \in Frames, FrameOK(g, c, t), Len(g.at) = Len(s),
           Entered(s[Len(s)], g, c), Len(s) = 1 => g.braced,
           Within(s[Len(s)].at, g.at), Len(s[Len(s)].list) <= Len(g.list)
    PROVE  StackIs(Append(s, g), c, t)
  <1> DEFINE n == Len(s)
             a == Append(s, g)
  <1>1. s \in Seq(Frames) /\ n \in Nat \ {0}  BY DEF StackIs
  <1>2. /\ a \in Seq(Frames) /\ Len(a) = n + 1 /\ a[n + 1] = g
        /\ \A k \in 1 .. n : a[k] = s[k]
    BY <1>1
  <1> HIDE DEF a
  <1>3. \A k \in 1 .. n + 1 : k \in 1 .. n \/ k = n + 1  BY <1>1
  <1>4. ASSUME NEW k \in 1 .. n + 1  PROVE FrameOK(a[k], c, t) /\ Len(a[k].at) = k - 1
    <2>1. CASE k \in 1 .. n  BY <1>2, <2>1 DEF StackIs
    <2>2. CASE k = n + 1  BY <1>1, <1>2, <2>2
    <2> QED  BY <1>3, <2>1, <2>2
  <1>5. 1 \in 1 .. n /\ a[1] = s[1]  BY <1>1, <1>2
  <1>6. /\ a[1].at = <<>> /\ a[1].list = <<>> /\ ~a[1].braced
        /\ a[1].i = 1 => c[<<>>] = 0
    BY <1>5 DEF StackIs
  <1>7. ASSUME NEW k \in 1 .. (n + 1) - 1  PROVE Entered(a[k], a[k + 1], c)
    <2>1. CASE k \in 1 .. n - 1
      <3>1. k \in 1 .. n /\ k + 1 \in 1 .. n  BY <1>1, <2>1
      <3>2. Entered(s[k], s[k + 1], c)  BY <2>1 DEF StackIs
      <3> QED  BY <1>2, <3>1, <3>2
    <2>2. CASE k = n  BY <1>1, <1>2, <2>2
    <2>3. k \in 1 .. n - 1 \/ k = n  BY <1>1
    <2> QED  BY <2>1, <2>2, <2>3
  <1>8. a[2].braced
    <2>1. CASE n = 1  BY <1>2, <2>1
    <2>2. CASE n > 1
      <3>1. 2 \in 1 .. n  BY <1>1, <2>2
      <3> QED  BY <1>2, <2>2, <3>1 DEF StackIs
    <2>3. n = 1 \/ n > 1  BY <1>1
    <2> QED  BY <2>1, <2>2, <2>3
  <1>9. ASSUME NEW j \in 1 .. n + 1, NEW k \in 1 .. n + 1, j <= k
        PROVE  Within(a[j].at, a[k].at) /\ Len(a[j].list) <= Len(a[k].list)
    <2>1. g.at \in Places /\ Len(g.list) \in Nat /\ \A x \in 1 .. n : s[x].at \in Places /\ Len(s[x].list) \in Nat
      <3>1. \A f \in Frames : f.at \in Places /\ f.list \in Places
        BY DeclaredIs, InitIs DEF Frames
      <3>2. \A x \in 1 .. n : s[x] \in Frames  BY <1>1
      <3> QED  BY <3>1, <3>2 DEF Places
    <2>2. CASE k \in 1 .. n
      <3>1. j \in 1 .. n  BY <1>1, <1>9, <2>2
      <3> QED  BY <1>2, <1>9, <2>2, <3>1 DEF StackIs
    <2>3. CASE k = n + 1 /\ j \in 1 .. n
      <3>1. n \in 1 .. n /\ j <= n  BY <1>1, <2>3
      <3>2. Within(s[j].at, s[n].at) /\ Len(s[j].list) <= Len(s[n].list)
        BY <2>3, <3>1 DEF StackIs
      <3>3. Within(s[j].at, g.at)  BY <2>1, <2>3, <3>1, <3>2, WithinTrans
      <3>4. Len(s[j].list) <= Len(g.list)  BY <2>1, <2>3, <3>1, <3>2
      <3> QED  BY <1>2, <2>3, <3>3, <3>4
    <2>4. CASE k = n + 1 /\ j = n + 1
      <3>1. Within(g.at, g.at)  BY <2>1, WithinRefl
      <3> QED  BY <1>2, <2>1, <2>4, <3>1
    <2> QED  BY <1>3, <2>2, <2>3, <2>4
  <1> QED  BY <1>1, <1>2, <1>4, <1>6, <1>7, <1>8, <1>9 DEF StackIs, a

LEMMA FrontIs ==
    ASSUME stack \in Seq(Frames), stack # <<>>
    PROVE  /\ Len(stack) \in Nat \ {0} /\ Front(stack) \in Seq(Frames)
           /\ Len(Front(stack)) = Len(stack) - 1
           /\ \A k \in 1 .. Len(stack) - 1 : k \in 1 .. Len(stack) /\ Front(stack)[k] = stack[k]
  <1>1. Len(stack) \in Nat \ {0}  OBVIOUS
  <1> DEFINE n == Len(stack) - 1
             f == [k \in 1 .. n |-> stack[k]]
  <1>2. n \in Nat /\ \A k \in 1 .. n : k \in 1 .. Len(stack) /\ stack[k] \in Frames  BY <1>1
  <1>3. Front(stack) = f  BY <1>1 DEF Front
  <1>4. f \in Seq(Frames) /\ Len(f) = n /\ \A k \in 1 .. n : f[k] = stack[k]  BY <1>2
  <1> HIDE DEF f
  <1> QED  BY <1>1, <1>2, <1>3, <1>4

\* The top is done; the cursor of the list below has moved or not.
LEMMA StackPop ==
    ASSUME Given, TypeNow, StackOK, Running, NEW c,
           \A k \in 1 .. Len(stack) - 1 :
              /\ stack[k].list \in DOMAIN c
              /\ stack[k].list # stack[Len(stack) - 1].list
                    => c[stack[k].list] = curr[stack[k].list],
           Len(stack) > 1 => \A k \in 1 .. c[stack[Len(stack) - 1].list] :
                                objects[Append(stack[Len(stack) - 1].list, k)] # End
    PROVE  StackIs(Front(stack), c, type)
  <1> DEFINE m == Len(stack) - 1
             s == Front(stack)
  <1>1. stack # <<>> /\ stack \in Seq(Frames)  BY DEF Running, StackOK, StackIs
  <1>2. /\ Len(stack) \in Nat \ {0} /\ s \in Seq(Frames) /\ Len(s) = m
        /\ \A k \in 1 .. m : k \in 1 .. Len(stack) /\ s[k] = stack[k]
    BY <1>1, FrontIs
  <1> HIDE DEF s
  <1>3. ASSUME NEW k \in 1 .. m  PROVE FrameOK(s[k], c, type) /\ Len(s[k].at) = k - 1
    <2>1. FrameOK(stack[k], curr, type) /\ Len(stack[k].at) = k - 1 /\ s[k] = stack[k]
      BY <1>2 DEF StackOK, StackIs
    <2>2. Len(stack) > 1  BY <1>2
    <2>3. \A j \in 1 .. c[stack[k].list] : objects[Append(stack[k].list, j)] # End
      <3>1. CASE stack[k].list = stack[m].list  BY <2>2, <3>1
      <3>2. CASE stack[k].list # stack[m].list  BY <2>1, <3>2 DEF FrameOK
      <3> QED  BY <3>1, <3>2
    <2> QED  BY <2>1, <2>3 DEF FrameOK
  <1>4. s # <<>> => /\ s[1].at = <<>> /\ s[1].list = <<>> /\ ~s[1].braced
                    /\ s[1].i = 1 => c[<<>>] = 0
    <2> SUFFICES ASSUME s # <<>>
                 PROVE  /\ s[1].at = <<>> /\ s[1].list = <<>> /\ ~s[1].braced
                        /\ s[1].i = 1 => c[<<>>] = 0
      OBVIOUS
    <2>1. 1 \in 1 .. m /\ 1 # Len(stack)
      <3>1. Len(s) # 0  BY <1>2
      <3> QED  BY <1>2, <3>1
    <2>2. s[1] = stack[1] /\ 1 \in 1 .. Len(stack)  BY <1>2, <2>1
    <2>3. stack[1].i > 1  BY <2>1, <2>2, Below
    <2> QED  BY <1>1, <2>2, <2>3 DEF StackOK, StackIs
  <1>5. ASSUME NEW k \in 1 .. m - 1  PROVE Entered(s[k], s[k + 1], c)
    <2>1. /\ k \in 1 .. Len(stack) /\ k # Len(stack) /\ m \in 1 .. Len(stack) /\ k < m
          /\ k \in 1 .. m /\ k + 1 \in 1 .. m
      BY <1>2
    <2>2. Entered(stack[k], stack[k + 1], curr)  BY <2>1, Below
    <2>3. s[k] = stack[k] /\ s[k + 1] = stack[k + 1]  BY <1>2, <2>1
    <2>4. stack[k + 1].braced => c[stack[k].list] = curr[stack[k].list]
      <3> SUFFICES ASSUME stack[k + 1].braced  PROVE c[stack[k].list] = curr[stack[k].list]
        OBVIOUS
      <3>1. stack[k].list # stack[m].list  BY <2>1, BelowBraced
      <3> QED  BY <2>1, <3>1
    <2> QED  BY <2>2, <2>3, <2>4 DEF Entered
  <1>6. m > 1 => s[2].braced
    <2> SUFFICES ASSUME m > 1  PROVE s[2].braced  OBVIOUS
    <2>1. 2 \in 1 .. m /\ Len(stack) > 1  BY <1>2
    <2> QED  BY <1>2, <2>1 DEF StackOK, StackIs
  <1>7. \A j, k \in 1 .. m : j <= k => /\ Within(s[j].at, s[k].at)
                                       /\ Len(s[j].list) <= Len(s[k].list)
    BY <1>2 DEF StackOK, StackIs
  <1> QED  BY <1>2, <1>3, <1>4, <1>5, <1>6, <1>7 DEF StackIs, s

-----------------------------------------------------------------------------
(* The cursors stay with the frames.                                       *)

\* The second frame is the variable's own.
LEMMA SecondIs ==
    ASSUME Given, TypeNow, StackOK, Len(stack) > 1
    PROVE  /\ stack[2].at = <<1>> /\ stack[2].list = <<1>> /\ stack[2].braced
           /\ stack[1].i = 2 /\ curr[<<>>] = 0
  <1>1. stack \in Seq(Frames) /\ Len(stack) \in Nat /\ stack # <<>>  BY DEF StackOK, StackIs
  <1>2. 1 \in 1 .. Len(stack) /\ 2 \in 1 .. Len(stack) /\ 1 # Len(stack) /\ 1 + 1 = 2  BY <1>1
  <1>3. Entered(stack[1], stack[2], curr) /\ stack[1].i > 1  BY <1>2, Below
  <1>4. stack[1].at = <<>> /\ stack[1].list = <<>> /\ stack[2].braced /\ FrameOK(stack[1], curr, type)
    BY <1>1, <1>2 DEF StackOK, StackIs
  <1>5. <<>> \in DOMAIN declared /\ <<>> # <<1>> /\ Parts(declared[<<>>]) = 1 /\ Size(<<>>) = 1
    BY DeclaredIs, InitIs DEF TreeOK
  <1>6. Parts(type[<<>>]) = 1  BY <1>5, TypeIs
  <1>7. stack[1] \in Frames  BY <1>1, <1>2
  <1>8. stack[1].i \in Nat  BY <1>7, FramesIs
  <1>9. stack[1].i = 2  BY <1>3, <1>4, <1>6, <1>8 DEF FrameOK
  <1>10. curr[<<>>] \in 0 .. Size(<<>>)  BY <1>4 DEF FrameOK, StackOK, CursorsOK
  <1>11. curr[<<>>] < Size(<<>>)  BY <1>3, <1>4 DEF Entered
  <1>12. curr[<<>>] = 0  BY <1>5, <1>10, <1>11
  <1>13. Append(<<>>, 2 - 1) = <<1>> /\ Append(<<>>, 0 + 1) = <<1>>  OBVIOUS
  <1>14. stack[2].at = Append(<<>>, 2 - 1)  BY <1>3, <1>4, <1>9 DEF Entered
  <1>15. stack[2].list = Append(<<>>, 0 + 1)  BY <1>3, <1>4, <1>12 DEF Entered
  <1> QED  BY <1>4, <1>9, <1>12, <1>13, <1>14, <1>15

\* A frame under the top.
LEMMA UnderIs ==
    ASSUME Given, TypeNow, StackOK, Running, Len(stack) > 1
    PROVE  LET f == stack[Len(stack) - 1]
           IN  /\ Len(stack) - 1 \in 1 .. Len(stack) /\ Len(stack) - 1 # Len(stack)
               /\ f \in Frames /\ FrameOK(f, curr, type) /\ Entered(f, top, curr)
               /\ f.i > 1 /\ f.i - 1 \in Nat /\ top.at = Append(f.at, f.i - 1)
               /\ Front(stack) # <<>> /\ Last(Front(stack)) = f
               /\ curr[f.list] \in Nat /\ Size(f.list) \in Nat
  <1> DEFINE n == Len(stack)
             f == stack[n - 1]
  <1>1. stack # <<>> /\ stack \in Seq(Frames)  BY DEF Running, StackOK, StackIs
  <1>2. /\ n \in Nat \ {0} /\ top = stack[n]  BY <1>1, NextIs
  <1>3. n - 1 \in 1 .. n /\ n - 1 # n /\ (n - 1) + 1 = n  BY <1>2
  <1>4. f \in Frames
    <2>1. \A k \in 1 .. n : stack[k] \in Frames  BY <1>1
    <2> QED  BY <1>3, <2>1
  <1>5. FrameOK(f, curr, type)  BY <1>3 DEF StackOK, StackIs
  <1>6. Entered(f, top, curr) /\ f.i > 1  BY <1>2, <1>3, Below
  <1>7. f.i - 1 \in Nat /\ top.at = Append(f.at, f.i - 1)  BY <1>4, <1>6, FramesIs DEF Entered
  <1>8. /\ Front(stack) \in Seq(Frames) /\ Len(Front(stack)) = n - 1
        /\ \A k \in 1 .. n - 1 : Front(stack)[k] = stack[k]
    BY <1>1, FrontIs
  <1>9. Front(stack) # <<>> /\ Last(Front(stack)) = f
    <2>1. Len(Front(stack)) # 0 /\ n - 1 \in 1 .. n - 1  BY <1>2, <1>8
    <2>2. Front(stack) # <<>>
      <3> SUFFICES ASSUME Front(stack) = <<>>  PROVE FALSE  OBVIOUS
      <3> QED  BY <2>1
    <2> QED  BY <1>8, <2>1, <2>2 DEF Last
  <1>10. curr[f.list] \in Nat /\ Size(f.list) \in Nat
    BY <1>4, <1>5, FramesIs, InitIs DEF FrameOK, StackOK, CursorsOK
  <1> QED  BY <1>3, <1>4, <1>5, <1>6, <1>7, <1>9, <1>10

LEMMA RootStack ==
    ASSUME Given, NEW t, Parts(t[<<>>]) \in Nat, NEW p
    PROVE  CursorsOK(Cursors) /\ StackIs(Root, Cursors, t) /\ TrackedIs(Root, Cursors, p)
  <1> DEFINE r == Frame(<<>>, <<>>, FALSE)
  <1>1. /\ <<>> \in DOMAIN declared /\ <<>> \in DOMAIN init /\ Size(<<>>) = 1 /\ IsList(<<>>)
        /\ <<>> \notin Scalars(declared) /\ objects[<<>>] = <<>> /\ <<>> \in Places
    BY DeclaredIs, InitIs, RootObject
  <1>2. /\ r.at = <<>> /\ r.list = <<>> /\ r.i = 1 /\ r.braced = FALSE /\ r \in Frames
    BY <1>1 DEF Frame, Frames
  <1>3. DOMAIN Cursors = {<<>>} /\ Cursors[<<>>] = 0  BY DEF Cursors
  <1>4. Root = <<r>>  BY DEF Root
  <1> HIDE DEF r
  <1>5. /\ Root \in Seq(Frames) /\ Len(Root) = 1 /\ Root[1] = r /\ Root # <<>> /\ Last(Root) = r
    BY <1>2, <1>4 DEF Last
  <1>6. CursorsOK(Cursors)  BY <1>1, <1>3 DEF CursorsOK
  <1>7. Within(<<>>, <<>>)  BY <1>1, WithinRefl
  <1>8. FrameOK(r, Cursors, t)  BY <1>1, <1>2, <1>3, <1>7 DEF FrameOK
  <1>9. Len(<<>>) = 0  OBVIOUS
  <1>10. StackIs(Root, Cursors, t)
    <2>1. \A k \in 1 .. Len(Root) : k = 1  BY <1>5
    <2>2. 1 .. Len(Root) - 1 = {} /\ ~(Len(Root) > 1)  BY <1>5
    <2>3. \A k \in 1 .. Len(Root) : FrameOK(Root[k], Cursors, t) /\ Len(Root[k].at) = k - 1
      BY <1>2, <1>5, <1>8, <1>9, <2>1
    <2>4. \A j, k \in 1 .. Len(Root) : /\ Within(Root[j].at, Root[k].at)
                                       /\ Len(Root[j].list) <= Len(Root[k].list)
      BY <1>2, <1>5, <1>7, <1>9, <2>1
    <2>5. /\ Root[1].at = <<>> /\ Root[1].list = <<>> /\ ~Root[1].braced /\ Cursors[<<>>] = 0
      BY <1>2, <1>3, <1>5
    <2> QED  BY <1>5, <2>2, <2>3, <2>4, <2>5 DEF StackIs
  <1>11. Track(<<>>, <<>>, 1, Cursors)
    <2>1. Left(<<>>, 0) = Subobjects(declared, <<>>)  BY <1>1 DEF Left
    <2>2. Rest(<<>>, <<>>, 1) = Subobjects(declared, <<>>)  BY <1>1, RestAll
    <2> QED  BY <1>1, <1>3, <2>1, <2>2 DEF Track
  <1>12. TrackedIs(Root, Cursors, p)  BY <1>2, <1>5, <1>11 DEF TrackedIs
  <1> QED  BY <1>6, <1>10, <1>12

LEMMA PassOverStack ==
    ASSUME Given, TypeNow, StackOK, Tracked, Visits, ~HasItem \/ Returns
    PROVE  StackIs(NextComponent, curr, type) /\ TrackedIs(NextComponent, curr, pass)
  <1>1. Running /\ stack # <<>> /\ stack \in Seq(Frames)
    BY DEF Visits, Running, StackOK, StackIs
  <1>2. FrameOK(top, curr, type)  BY <1>1, TopIs
  <1>3. StackIs(NextComponent, curr, type)
    <2>1. \A k \in 1 .. Len(stack) : stack[k].list \in DOMAIN curr
      BY DEF StackOK, StackIs, FrameOK
    <2>2. \A k \in 1 .. curr[top.list] : objects[Append(top.list, k)] # End
      BY <1>2 DEF FrameOK
    <2> QED  BY <2>1, <2>2, StackNext
  <1>4. Last(NextComponent).list = top.list
    <2>1. /\ Len(stack) \in 1 .. Len(stack) /\ top = stack[Len(stack)]
          /\ Len(NextComponent) = Len(stack)
          /\ NextComponent[Len(stack)].list = stack[Len(stack)].list
      BY <1>1, NextIs
    <2> QED  BY <2>1 DEF Last
  <1>5. CASE ~HasItem
    <2>1. ~(curr[top.list] < Size(top.list))  BY <1>5 DEF HasItem
    <2> QED  BY <1>3, <1>4, <2>1 DEF TrackedIs, Track
  <1>6. CASE Returns  BY <1>3, <1>4, <1>6 DEF Returns, TrackedIs
  <1> QED  BY <1>5, <1>6

LEMMA EnterSharedStack ==
    ASSUME Given, TypeNow, StackOK, Tracked, Visits, HasItem, ~Returns,
           type[elem].kind # "scalar", ~IsList(item)
    PROVE  LET s == Append(NextComponent, Frame(elem, top.list, FALSE))
           IN  StackIs(s, curr, type) /\ TrackedIs(s, curr, pass)
  <1> DEFINE g == Frame(elem, top.list, FALSE)
             s == NextComponent
             n == Len(stack)
             list == top.list
             P == objects[list]
  <1>1. /\ Running /\ elem \in DOMAIN declared /\ elem = Append(top.at, top.i)
        /\ Within(top.at, elem) /\ Len(elem) = Len(top.at) + 1 /\ Within(P, elem)
        /\ type[elem].kind = declared[elem].kind
    BY ElemIs
  <1>2. stack # <<>> /\ stack \in Seq(Frames)  BY <1>1 DEF Running, StackOK, StackIs
  <1>3. /\ n \in Nat \ {0} /\ top = stack[n] /\ top \in Frames
        /\ s \in Seq(Frames) /\ Len(s) = n /\ s # <<>>
        /\ s[n].at = top.at /\ s[n].list = list /\ s[n].i = top.i + 1
    <2>1. n \in 1 .. n  BY <1>2
    <2> QED  BY <1>2, <2>1, NextIs
  <1>4. /\ top.at \in DOMAIN declared /\ top.i \in Nat \ {0} /\ list \in DOMAIN init
        /\ FrameOK(top, curr, type) /\ P \in Places /\ list \in Places
    BY <1>1, TopIs
  <1>5. elem \notin Scalars(declared)  BY <1>1 DEF Scalars
  <1>6. g.at = elem /\ g.list = list /\ g.i = 1 /\ g.braced = FALSE /\ g \in Frames
    BY <1>1, <1>4 DEF Frame, Frames
  <1> HIDE DEF g, s
  <1>7. StackIs(s, curr, type)
    <2>1. \A k \in 1 .. Len(stack) : stack[k].list \in DOMAIN curr
      BY DEF StackOK, StackIs, FrameOK
    <2>2. \A k \in 1 .. curr[top.list] : objects[Append(top.list, k)] # End
      BY <1>4 DEF FrameOK
    <2> QED  BY <2>1, <2>2, StackNext DEF s
  <1>8. FrameOK(g, curr, type)
    <2>1. Parts(type[elem]) \in Nat  BY <1>1, TypeIs
    <2> QED  BY <1>1, <1>4, <1>6, <2>1 DEF FrameOK
  <1>9. Entered(s[n], g, curr)  BY <1>1, <1>3, <1>4, <1>6 DEF Entered
  <1>10. n # 1
    <2> SUFFICES ASSUME n = 1  PROVE FALSE  OBVIOUS
    <2>1. top.at = <<>> /\ list = <<>>  BY <1>2, <1>3 DEF StackOK, StackIs
    <2>2. top.i <= 1
      <3>1. top.i <= Parts(type[top.at])  BY ElemIs
      <3>2. <<>> # <<1>> /\ Parts(declared[<<>>]) = 1  BY DeclaredIs DEF TreeOK
      <3>3. Parts(type[<<>>]) = 1  BY <1>4, <2>1, <3>2, TypeIs
      <3> QED  BY <2>1, <3>1, <3>3
    <2>3. top.i = 1 /\ Append(<<>>, 1) = <<1>>  BY <1>4, <2>2
    <2>4. elem = <<1>>  BY <1>1, <2>1, <2>3
    <2>5. curr[<<>>] + 1 \in 1 .. 1 /\ item = Append(<<>>, curr[<<>>] + 1)
      BY <1>1, <2>1, ItemObject, InitIs
    <2>6. curr[<<>>] + 1 = 1  BY <2>5
    <2>7. item = <<1>>  BY <2>3, <2>5, <2>6
    <2> QED  BY <1>1, <2>4, <2>7 DEF Given
  <1>11. Len(g.at) = Len(s)
    <2>1. n \in 1 .. n  BY <1>3
    <2>2. Len(top.at) = n - 1  BY <1>3, <2>1 DEF StackOK, StackIs
    <2> QED  BY <1>1, <1>3, <1>6, <2>2
  <1>12. Len(list) <= Len(list)
    <2>1. Len(list) \in Nat  BY <1>4 DEF Places
    <2> QED  BY <2>1
  <1>13. StackIs(Append(s, g), curr, type)
    <2>1. Within(s[Len(s)].at, g.at) /\ Len(s[Len(s)].list) <= Len(g.list)
      BY <1>1, <1>3, <1>6, <1>12
    <2> QED  BY <1>3, <1>6, <1>7, <1>8, <1>9, <1>10, <1>11, <2>1, StackPush
  <1>14. Last(Append(s, g)) = g
    <2>1. Len(Append(s, g)) = n + 1 /\ Append(s, g)[n + 1] = g  BY <1>3
    <2> QED  BY <2>1 DEF Last
  <1>15. Track(list, elem, 1, curr)
    <2>1. Rest(P, elem, 1) = Rest(P, top.at, top.i) \ {elem}
      BY <1>1, <1>4, RestFirst DEF FrameOK
    <2>2. Left(list, curr[list]) \cap Scalars(declared)
             = Rest(P, top.at, top.i) \cap Scalars(declared)
      BY <1>1, ItemObject
    <2>3. Rest(P, elem, 1) \cap Scalars(declared) = Rest(P, top.at, top.i) \cap Scalars(declared)
      BY <1>5, <2>1
    <2>4. ~IsList(Append(list, curr[list] + 1))  BY DEF item
    <2> QED  BY <2>2, <2>3, <2>4 DEF Track
  <1>16. TrackedIs(Append(s, g), curr, pass)  BY <1>6, <1>14, <1>15 DEF TrackedIs
  <1> QED  BY <1>13, <1>16 DEF s, g

ItemCursors == [list \in DOMAIN curr \cup {item} |-> IF list = item THEN 0 ELSE curr[list]]

LEMMA EnterBracedStack ==
    ASSUME Given, TypeNow, StackOK, Tracked, Visits, HasItem, ~Returns,
           type[elem].kind # "scalar", IsList(item)
    PROVE  LET s == Append(NextComponent, Frame(elem, item, TRUE))
           IN  /\ CursorsOK(ItemCursors) /\ StackIs(s, ItemCursors, type)
               /\ TrackedIs(s, ItemCursors, pass)
  <1> DEFINE g == Frame(elem, item, TRUE)
             s == NextComponent
             n == Len(stack)
             list == top.list
             c == ItemCursors
  <1>1. /\ Running /\ elem \in DOMAIN declared /\ elem = Append(top.at, top.i)
        /\ elem \in Places
        /\ Within(top.at, elem) /\ Len(elem) = Len(top.at) + 1
        /\ type[elem].kind = declared[elem].kind
    BY ElemIs
  <1>2. stack # <<>> /\ stack \in Seq(Frames)  BY <1>1 DEF Running, StackOK, StackIs
  <1>3. /\ n \in Nat \ {0} /\ top = stack[n] /\ top \in Frames
        /\ s \in Seq(Frames) /\ Len(s) = n /\ s # <<>>
        /\ s[n].at = top.at /\ s[n].list = list /\ s[n].i = top.i + 1 /\ n \in 1 .. n
    <2>1. n \in 1 .. n  BY <1>2
    <2> QED  BY <1>2, <2>1, NextIs
  <1>4. /\ top.at \in DOMAIN declared /\ top.i \in Nat \ {0} /\ list \in DOMAIN init
        /\ FrameOK(top, curr, type) /\ list \in Places /\ Len(list) \in Nat
    BY <1>1, TopIs DEF Places
  <1>5. elem \notin Scalars(declared)  BY <1>1 DEF Scalars
  <1>6. /\ item \in DOMAIN init /\ item = Append(list, curr[list] + 1) /\ item \in Places
        /\ Len(item) = Len(list) + 1 /\ objects[item] = elem
    BY <1>1, ItemObject, NextItem
  <1>7. g.at = elem /\ g.list = item /\ g.i = 1 /\ g.braced = TRUE /\ g \in Frames
    BY <1>1, <1>6 DEF Frame, Frames
  <1>8. /\ DOMAIN c = DOMAIN curr \cup {item} /\ c[item] = 0
        /\ \A x \in DOMAIN curr : x # item => c[x] = curr[x]
    BY DEF ItemCursors
  <1> HIDE DEF g, s, c
  <1>9. \A k \in 1 .. n : stack[k].list \in DOMAIN curr /\ stack[k].list # item
    <2> TAKE k \in 1 .. n
    <2>1. stack[k].list \in DOMAIN curr  BY DEF StackOK, StackIs, FrameOK
    <2>2. Len(stack[k].list) <= Len(stack[n].list)
      <3>1. k <= n  BY <1>3
      <3> QED  BY <1>3, <3>1 DEF StackOK, StackIs
    <2>3. Len(stack[k].list) # Len(item)
      <3>1. stack[k] \in Frames  BY <1>2
      <3>2. Len(stack[k].list) \in Nat  BY <3>1, FramesIs
      <3> QED  BY <1>3, <1>4, <1>6, <2>2, <3>2
    <2> QED  BY <2>1, <2>3
  <1>10. list \in DOMAIN curr /\ list # item /\ c[list] = curr[list]  BY <1>3, <1>8, <1>9
  <1>11. CursorsOK(c)
    <2> SUFFICES ASSUME NEW x \in DOMAIN c  PROVE x \in DOMAIN init /\ c[x] \in 0 .. Size(x)
      BY DEF CursorsOK
    <2>1. CASE x = item
      <3>1. Size(item) \in Nat  BY <1>6, InitIs
      <3> QED  BY <1>6, <1>8, <2>1, <3>1
    <2>2. CASE x # item  BY <1>8, <2>2 DEF StackOK, CursorsOK
    <2> QED  BY <2>1, <2>2
  <1>12. StackIs(s, c, type)
    <2>1. \A k \in 1 .. Len(stack) : stack[k].list \in DOMAIN c
                                     /\ c[stack[k].list] = curr[stack[k].list]
      BY <1>8, <1>9
    <2>2. \A k \in 1 .. c[top.list] : objects[Append(top.list, k)] # End
      BY <1>4, <1>10 DEF FrameOK
    <2> QED  BY <2>1, <2>2, StackNext DEF s
  <1>13. FrameOK(g, c, type)
    <2>1. Parts(type[elem]) \in Nat  BY <1>1, TypeIs
    <2>2. Within(elem, elem)  BY <1>1, WithinRefl
    <2>3. 1 .. 0 = {}  OBVIOUS
    <2>4. \A k \in 1 .. c[g.list] : objects[Append(g.list, k)] # End  BY <1>7, <1>8, <2>3
    <2>5. g.list \in DOMAIN c /\ IsList(g.list)  BY <1>7, <1>8
    <2>6. g.i <= Parts(type[g.at]) + 1  BY <1>7, <2>1
    <2>7. objects[g.list] = elem /\ Within(objects[g.list], g.at)  BY <1>6, <1>7, <2>2
    <2> QED  BY <1>1, <1>5, <2>4, <2>5, <2>6, <2>7 DEF FrameOK
  <1>14. Entered(s[n], g, c)
    <2>1. curr[list] < Size(list)  BY DEF HasItem
    <2> QED  BY <1>1, <1>3, <1>4, <1>6, <1>7, <1>10, <2>1 DEF Entered
  <1>15. Len(g.at) = Len(s)
    <2>1. Len(top.at) = n - 1  BY <1>3 DEF StackOK, StackIs
    <2> QED  BY <1>1, <1>3, <1>7, <2>1
  <1>16. StackIs(Append(s, g), c, type)
    <2>1. Within(s[Len(s)].at, g.at) /\ Len(s[Len(s)].list) <= Len(g.list)
      BY <1>1, <1>3, <1>4, <1>6, <1>7
    <2> QED  BY <1>3, <1>7, <1>12, <1>13, <1>14, <1>15, <2>1, StackPush
  <1>17. Last(Append(s, g)) = g
    <2>1. Len(Append(s, g)) = n + 1 /\ Append(s, g)[n + 1] = g  BY <1>3
    <2> QED  BY <2>1 DEF Last
  <1>18. Track(item, elem, 1, c)
    <2>1. Rest(elem, elem, 1) = Subobjects(declared, elem)  BY <1>1, RestAll
    <2>2. Left(item, 0) = Subobjects(declared, elem)  BY <1>6 DEF Left
    <2> QED  BY <1>6, <1>8, <2>1, <2>2 DEF Track
  <1>19. TrackedIs(Append(s, g), c, pass)  BY <1>7, <1>17, <1>18 DEF TrackedIs
  <1> QED  BY <1>11, <1>16, <1>19 DEF s, g, c

NextCursors == [curr EXCEPT ![top.list] = @ + 1]

LEMMA ObjectStack ==
    ASSUME Given, TypeNow, StackOK, Tracked, Visits, HasItem, ~Returns,
           type[elem].kind = "scalar"
    PROVE  /\ CursorsOK(NextCursors) /\ StackIs(NextComponent, NextCursors, type)
           /\ TrackedIs(NextComponent, NextCursors, pass)
           /\ elem \in Scalars(declared) /\ objects[item] = elem
           /\ DOMAIN NextCursors = DOMAIN curr /\ NextCursors[top.list] = curr[top.list] + 1
           /\ \A x \in DOMAIN curr : x # top.list => NextCursors[x] = curr[x]
           /\ top.list \in DOMAIN curr
  <1> DEFINE s == NextComponent
             n == Len(stack)
             list == top.list
             c == NextCursors
             P == objects[list]
  <1>1. /\ Running /\ elem \in DOMAIN declared /\ elem = Append(top.at, top.i)
        /\ type[elem].kind = declared[elem].kind
    BY ElemIs
  <1>2. stack # <<>> /\ stack \in Seq(Frames)  BY <1>1 DEF Running, StackOK, StackIs
  <1>3. /\ n \in Nat \ {0} /\ top = stack[n] /\ top \in Frames
        /\ s \in Seq(Frames) /\ Len(s) = n /\ s # <<>>
        /\ s[n].at = top.at /\ s[n].list = list /\ s[n].i = top.i + 1 /\ n \in 1 .. n
    <2>1. n \in 1 .. n  BY <1>2
    <2> QED  BY <1>2, <2>1, NextIs
  <1>4. /\ top.at \in DOMAIN declared /\ top.at \in Places /\ top.i \in Nat /\ list \in DOMAIN init
        /\ FrameOK(top, curr, type) /\ list \in DOMAIN curr
        /\ curr[list] \in Nat /\ Size(list) \in Nat
    BY <1>1, TopIs DEF FrameOK
  <1>5. elem \in Scalars(declared) /\ End \notin Scalars(declared)
    BY <1>1, DeclaredIs DEF Scalars
  <1>6. /\ item \in DOMAIN init /\ item = Append(list, curr[list] + 1)
        /\ curr[list] + 1 \in 1 .. Size(list)
        /\ objects[item] = elem
    BY <1>1, <1>5, ItemObject, NextItem
  <1>7. /\ DOMAIN c = DOMAIN curr /\ c[list] = curr[list] + 1
        /\ \A x \in DOMAIN curr : x # list => c[x] = curr[x]
    BY <1>4 DEF NextCursors
  <1> HIDE DEF s, c
  <1>8. CursorsOK(c)
    <2> SUFFICES ASSUME NEW x \in DOMAIN c  PROVE x \in DOMAIN init /\ c[x] \in 0 .. Size(x)
      BY DEF CursorsOK
    <2>1. CASE x = list  BY <1>4, <1>6, <1>7, <2>1
    <2>2. CASE x # list  BY <1>7, <2>2 DEF StackOK, CursorsOK
    <2> QED  BY <2>1, <2>2
  <1>9. StackIs(s, c, type)
    <2>1. \A k \in 1 .. Len(stack) :
              /\ stack[k].list \in DOMAIN c
              /\ stack[k].list # top.list => c[stack[k].list] = curr[stack[k].list]
      BY <1>7 DEF StackOK, StackIs, FrameOK
    <2>2. ASSUME NEW k \in 1 .. c[top.list]  PROVE objects[Append(top.list, k)] # End
      <3>1. k \in 1 .. curr[list] \/ k = curr[list] + 1  BY <1>4, <1>7
      <3>2. CASE k \in 1 .. curr[list]  BY <1>4, <3>2 DEF FrameOK
      <3>3. CASE k = curr[list] + 1  BY <1>5, <1>6, <3>3
      <3> QED  BY <3>1, <3>2, <3>3
    <2> QED  BY <2>1, <2>2, StackNext DEF s
  <1>10. Last(s) = s[n]  BY <1>3 DEF Last
  <1>11. Track(list, top.at, top.i + 1, c)
    <2>1. Rest(P, top.at, top.i + 1) = Behind(P, elem)
      BY <1>4, RestNext DEF elem
    <2>2. Left(list, c[list]) = Behind(P, elem)
      <3>1. c[list] # 0 /\ c[list] = curr[list] + 1  BY <1>4, <1>7
      <3> QED  BY <1>6, <3>1 DEF Left
    <2> QED  BY <2>1, <2>2 DEF Track
  <1>12. TrackedIs(s, c, pass)  BY <1>3, <1>10, <1>11 DEF TrackedIs
  <1> QED  BY <1>4, <1>5, <1>6, <1>7, <1>8, <1>9, <1>12 DEF s, c

LEMMA PairPlace ==
    ASSUME NEW k \in Nat
    PROVE  Append(<<1>>, k) = <<1, k>> /\ <<1, k>> \in Places
  <1> DEFINE a == Append(<<1>>, k)
             b == <<1, k>>
  <1>1. <<1>> \in Seq(Nat) /\ Len(<<1>>) = 1 /\ <<1>>[1] = 1  OBVIOUS
  <1>2. a \in Seq(Nat) /\ Len(a) = 2 /\ a[1] = 1 /\ a[2] = k  BY <1>1
  <1>3. b \in Seq(Nat) /\ Len(b) = 2 /\ b[1] = 1 /\ b[2] = k  OBVIOUS
  <1> HIDE DEF a, b
  <1>4. \A j \in 1 .. 2 : j = 1 \/ j = 2  OBVIOUS
  <1>5. a = b  BY <1>2, <1>3, <1>4
  <1> QED  BY <1>3, <1>5 DEF a, b, Places

LEMMA NoMore ==
    ASSUME Given, TypeNow, StackOK, Running, ~More
    PROVE  /\ type[top.at].len = Unsized => ~HasItem /\ top.at = <<1>> /\ type = declared
           /\ type[top.at].len # Unsized => top.i > Parts(type[top.at])
  <1>1. top.at \in DOMAIN declared /\ top.i \in Nat  BY TopIs
  <1>2. Parts(type[top.at]) \in Nat /\ (top.at # <<1>> => type[top.at].len # Unsized)
    BY <1>1, TypeIs
  <1>3. type # declared => array_len \in Nat /\ type[<<1>>].len = array_len
    BY TypeIs DEF TypeNow
  <1>4. type[top.at].len = Unsized => type = declared  BY <1>2, <1>3, BoundAssumption
  <1> QED  BY <1>1, <1>2, <1>4 DEF More

\* A frame of its own list lies on the frame that had this list next.
LEMMA BracedIs ==
    ASSUME Given, TypeNow, StackOK, Running, top.braced
    PROVE  LET f == stack[Len(stack) - 1]
           IN  /\ Len(stack) > 1
               /\ curr[f.list] < Size(f.list) /\ curr[f.list] + 1 \in 1 .. Size(f.list)
               /\ top.list = Append(f.list, curr[f.list] + 1)
               /\ objects[top.list] = top.at /\ Front(top.list) = f.list /\ top.list # <<>>
               /\ Len(top.list) = Len(f.list) + 1
               /\ f.list \in DOMAIN curr /\ f.list \in DOMAIN init
  <1> DEFINE n == Len(stack)
             f == stack[n - 1]
  <1>1. n \in Nat \ {0} /\ top = stack[n] /\ stack # <<>>  BY TopIs DEF Running
  <1>2. n > 1
    <2>1. n = 1 \/ n > 1  BY <1>1
    <2>2. ~stack[1].braced  BY <1>1 DEF StackOK, StackIs
    <2>3. n # 1  BY <1>1, <2>2
    <2> QED  BY <2>1, <2>3
  <1>3. /\ f \in Frames /\ FrameOK(f, curr, type) /\ Entered(f, top, curr)
        /\ curr[f.list] \in Nat /\ Size(f.list) \in Nat
    BY <1>2, UnderIs
  <1>4. f.list \in DOMAIN curr /\ f.list \in DOMAIN init  BY <1>3, FramesIs DEF FrameOK
  <1>5. /\ curr[f.list] < Size(f.list) /\ top.list = Append(f.list, curr[f.list] + 1)
        /\ objects[top.list] = top.at
    BY <1>3 DEF Entered
  <1>6. curr[f.list] + 1 \in 1 .. Size(f.list)  BY <1>3, <1>5
  <1>7. Front(top.list) = f.list /\ top.list # <<>> /\ Len(top.list) = Len(f.list) + 1
    BY <1>4, <1>5, <1>6, ItemIs
  <1> QED  BY <1>2, <1>4, <1>5, <1>6, <1>7

\* What is left of a list in braces that is done has no object.
LEMMA ListDone ==
    ASSUME Given, TypeNow, StackOK, Tracked, Running, ~More, ~Returns, HasItem, top.braced
    PROVE  objects[item] = End
  <1> DEFINE at == top.at
             list == top.list
             R == Rest(at, at, top.i)
  <1>1. objects[list] = at /\ Len(stack) > 1  BY BracedIs
  <1>2. /\ at \in DOMAIN declared /\ at \in Places /\ top.i \in Nat
        /\ Len(stack) \in Nat \ {0} /\ top = stack[Len(stack)]
    BY TopIs
  <1>3. type[at].len # Unsized /\ top.i > Parts(type[at])  BY NoMore
  <1>4. objects[item] = FirstOf(Fit(item, R)) /\ item = Append(list, curr[list] + 1)
        /\ curr[list] + 1 \in 1 .. Size(list)
    BY <1>1, ItemObject
  <1>5. CASE at # <<1>> \/ type = declared
    <2>1. Parts(type[at]) = Parts(declared[at])  BY <1>2, <1>5, TypeIs
    <2>2. R = {}  BY <1>2, <1>3, <2>1, RestNone
    <2>3. Fit(item, R) = {}  BY <2>2 DEF Fit
    <2> QED  BY <1>4, <2>3, FirstOfNone
  <1>6. CASE at = <<1>> /\ type # declared
    <2>1. Counted(array_len) /\ Parts(type[<<1>>]) = array_len  BY <1>6, TypeIs
    <2>2. array_len \in Nat  BY DEF TypeNow
    <2>3. Len(stack) = 2
      <3>1. Len(at) = Len(stack) - 1  BY <1>2 DEF StackOK, StackIs
      <3>2. Len(<<1>>) = 1  OBVIOUS
      <3> QED  BY <1>2, <1>6, <3>1, <3>2
    <2>4. list = <<1>>  BY <1>2, <2>3, SecondIs
    <2> DEFINE k == curr[list] + 1
    <2>5. k \in 1 .. Size(<<1>>) /\ k \in Nat /\ item = <<1, k>>
      <3>1. curr[list] \in Nat  BY TopIs
      <3>2. k \in Nat  BY <3>1
      <3> HIDE DEF k
      <3>3. Append(<<1>>, k) = <<1, k>>  BY <3>2, PairPlace
      <3>4. item = Append(<<1>>, k) /\ k \in 1 .. Size(<<1>>)  BY <1>4, <2>4 DEF k
      <3> QED  BY <3>2, <3>3, <3>4
    <2> HIDE DEF k
    <2>6. objects[item] # End /\ objects[item][2] <= array_len  BY <2>1, <2>5 DEF Counted
    <2>7. Fit(item, R) \in SUBSET DOMAIN declared  BY DEF Fit, Rest, Subobjects
    <2>8. objects[item] \in Fit(item, R)  BY <1>4, <2>6, <2>7, FirstIn2
    <2>9. objects[item] \in R  BY <2>8 DEF Fit
    <2>10. Len(at) + 1 = 2  BY <1>6
    <2>11. Within(at, objects[item])  BY <1>2, <2>9, RestIs
    <2>12. objects[item][2] >= top.i /\ objects[item][2] \in 1 .. Parts(declared[at])
      BY <1>2, <2>9, <2>10, <2>11, RestIs
    <2>13. Parts(declared[at]) \in Nat  BY <1>2, DeclaredIs
    <2> QED  BY <1>2, <1>3, <1>6, <2>1, <2>2, <2>6, <2>12, <2>13
  <1> QED  BY <1>5, <1>6

LEMMA ReturnSharedStack ==
    ASSUME Given, TypeNow, StackOK, Tracked, Running, ~More, ~top.braced
    PROVE  StackIs(Front(stack), curr, type) /\ TrackedIs(Front(stack), curr, pass)
  <1> DEFINE n == Len(stack)
             f == stack[n - 1]
             P == objects[top.list]
  <1>1. n \in Nat \ {0} /\ stack # <<>> /\ stack \in Seq(Frames) /\ top = stack[n]
    BY TopIs DEF Running, StackOK, StackIs
  <1>2. StackIs(Front(stack), curr, type)
    <2>1. \A k \in 1 .. n : /\ stack[k].list \in DOMAIN curr
                            /\ \A j \in 1 .. curr[stack[k].list] : objects[Append(stack[k].list, j)] # End
      BY DEF StackOK, StackIs, FrameOK
    <2>2. \A k \in 1 .. n - 1 : k \in 1 .. n  BY <1>1
    <2>3. n > 1 => n - 1 \in 1 .. n  BY <1>1
    <2> QED  BY <2>1, <2>2, <2>3, StackPop
  <1>3. CASE n = 1
    <2>1. Front(stack) = <<>>
      <3>1. Front(stack) \in Seq(Frames) /\ Len(Front(stack)) = 0  BY <1>1, <1>3, FrontIs
      <3> QED  BY <3>1
    <2> QED  BY <1>2, <2>1 DEF TrackedIs
  <1>4. CASE n > 1
    <2>1. /\ f \in Frames /\ Entered(f, top, curr) /\ f.i - 1 \in Nat
          /\ top.at = Append(f.at, f.i - 1) /\ Last(Front(stack)) = f
          /\ f.at \in Places /\ f.i \in Nat
      BY <1>4, UnderIs, FramesIs
    <2>2. f.list = top.list  BY <2>1 DEF Entered
    <2>3. /\ top.at \in DOMAIN declared /\ top.i \in Nat /\ top.at \in Places
      BY TopIs
    <2>4. top.at # <<1>>
      <3> SUFFICES ASSUME top.at = << 1 >>  PROVE FALSE  OBVIOUS
      <3>0. n \in 1 .. n  BY <1>1
      <3>1. Len(top.at) = n - 1 /\ Len(<<1>>) = 1  BY <1>1, <3>0 DEF StackOK, StackIs
      <3>2. n = 2  BY <1>1, <3>1
      <3>3. stack[2].braced  BY <1>4, SecondIs
      <3> QED  BY <1>1, <3>2, <3>3
    <2>5. top.i > Parts(declared[top.at])  BY <2>3, <2>4, TypeIs, NoMore
    <2>6. Rest(P, top.at, top.i) = Rest(P, f.at, f.i)
      <3>1. Append(f.at, f.i - 1) \in DOMAIN declared
            /\ top.i > Parts(declared[Append(f.at, f.i - 1)])
        BY <2>1, <2>3, <2>5
      <3>2. Rest(P, Append(f.at, f.i - 1), top.i) = Rest(P, f.at, (f.i - 1) + 1)
        BY <2>1, <2>3, <3>1, RestEnd
      <3>3. (f.i - 1) + 1 = f.i  BY <2>1
      <3> QED  BY <2>1, <3>2, <3>3
    <2>7. ASSUME ~Returns  PROVE Track(f.list, f.at, f.i, curr)
      <3>1. Track(top.list, top.at, top.i, curr)
        BY <2>7 DEF Tracked, TrackedIs, Running, Returns, top
      <3> QED  BY <2>2, <2>6, <3>1 DEF Track
    <2> QED  BY <1>2, <2>1, <2>2, <2>7 DEF TrackedIs, Returns
  <1>5. n = 1 \/ n > 1  BY <1>1
  <1> QED  BY <1>3, <1>4, <1>5

ReturnCursors == [curr EXCEPT ![Front(top.list)] = @ + 1]

LEMMA ReturnBracedStack ==
    ASSUME Given, TypeNow, StackOK, Tracked, Running, ~More, top.braced
    PROVE  /\ CursorsOK(ReturnCursors) /\ StackIs(Front(stack), ReturnCursors, type)
           /\ TrackedIs(Front(stack), ReturnCursors, pass)
           /\ DOMAIN ReturnCursors = DOMAIN curr
           /\ ReturnCursors[Front(top.list)] = curr[Front(top.list)] + 1
           /\ \A x \in DOMAIN curr : x # Front(top.list) => ReturnCursors[x] = curr[x]
  <1> DEFINE n == Len(stack)
             f == stack[n - 1]
             list == f.list
             c == ReturnCursors
             P == objects[list]
  <1>1. n \in Nat \ {0} /\ stack # <<>> /\ stack \in Seq(Frames) /\ top = stack[n]
    BY TopIs DEF Running, StackOK, StackIs
  <1>2. /\ n > 1 /\ curr[list] < Size(list) /\ curr[list] + 1 \in 1 .. Size(list)
        /\ top.list = Append(list, curr[list] + 1)
        /\ objects[top.list] = top.at /\ Front(top.list) = list
        /\ list \in DOMAIN curr /\ list \in DOMAIN init
    BY BracedIs
  <1>3. /\ f \in Frames /\ FrameOK(f, curr, type) /\ f.i - 1 \in Nat /\ f.i \in Nat
        /\ top.at = Append(f.at, f.i - 1) /\ Last(Front(stack)) = f
        /\ f.at \in Places /\ curr[list] \in Nat /\ Size(list) \in Nat
        /\ top.at \in DOMAIN declared
    BY <1>2, UnderIs, FramesIs, TopIs
  <1>4. /\ DOMAIN c = DOMAIN curr /\ c[list] = curr[list] + 1
        /\ \A x \in DOMAIN curr : x # list => c[x] = curr[x]
    BY <1>2 DEF ReturnCursors
  <1> HIDE DEF c
  <1>5. CursorsOK(c)
    <2> SUFFICES ASSUME NEW x \in DOMAIN c  PROVE x \in DOMAIN init /\ c[x] \in 0 .. Size(x)
      BY DEF CursorsOK
    <2>1. CASE x = list  BY <1>2, <1>3, <1>4, <2>1
    <2>2. CASE x # list  BY <1>4, <2>2 DEF StackOK, CursorsOK
    <2> QED  BY <2>1, <2>2
  <1>6. StackIs(Front(stack), c, type)
    <2>1. \A k \in 1 .. n : stack[k].list \in DOMAIN curr  BY DEF StackOK, StackIs, FrameOK
    <2>2. \A k \in 1 .. n - 1 : /\ stack[k].list \in DOMAIN c
                                /\ stack[k].list # list => c[stack[k].list] = curr[stack[k].list]
      BY <1>1, <1>4, <2>1
    <2>3. ASSUME NEW k \in 1 .. c[list]  PROVE objects[Append(list, k)] # End
      <3>1. k \in 1 .. curr[list] \/ k = curr[list] + 1  BY <1>3, <1>4
      <3>2. CASE k \in 1 .. curr[list]  BY <1>3, <3>2 DEF FrameOK
      <3>3. CASE k = curr[list] + 1
        <4>1. top.at # End  BY <1>3, DeclaredIs
        <4> QED  BY <1>2, <3>3, <4>1
      <3> QED  BY <3>1, <3>2, <3>3
    <2> QED  BY <2>2, <2>3, StackPop
  <1>7. Track(list, f.at, f.i, c)
    <2>1. Rest(P, f.at, (f.i - 1) + 1) = Behind(P, Append(f.at, f.i - 1))
      BY <1>3, RestNext
    <2>2. (f.i - 1) + 1 = f.i  BY <1>3
    <2>3. Left(list, c[list]) = Behind(P, objects[Append(list, c[list])])
      <3>1. c[list] # 0  BY <1>3, <1>4
      <3> QED  BY <3>1 DEF Left
    <2>4. objects[Append(list, c[list])] = Append(f.at, f.i - 1)  BY <1>2, <1>3, <1>4
    <2>5. Left(list, c[list]) = Rest(P, f.at, f.i)  BY <2>1, <2>2, <2>3, <2>4
    <2> QED  BY <2>5 DEF Track
  <1>8. TrackedIs(Front(stack), c, pass)  BY <1>3, <1>7 DEF TrackedIs
  <1> QED  BY <1>2, <1>4, <1>5, <1>6, <1>8 DEF c

-----------------------------------------------------------------------------
(* The length of an unsized array.                                         *)

UnsizedOK(s, c, n, p) ==
    p = "constant" /\ declared[<<1>>].len = Unsized =>
        /\ Len(s) > 1 /\ c[<<1>>] = Size(<<1>>) => Counted(s[2].i - 1)
        /\ s = <<>> \/ (Len(s) = 1 /\ s[1].i = 2) => Counted(n)

LEMMA UnsizedIs ==
    ASSUME Given, declared[<< 1 >>].len = Unsized
    PROVE  /\ <<1>> \notin Scalars(declared) /\ Parts(declared[<<1>>]) = MaxElems
           /\ declared[<<1>>].kind = "array" /\ IsList(<<1>>)
           /\ MaxElems \in Nat /\ Size(<<1>>) \in Nat
  <1>1. <<1>> \in DOMAIN declared /\ <<1>> \in DOMAIN init  BY DeclaredIs, InitIs
  <1>2. declared[<<1>>].kind = "array"  BY <1>1, TypeTree DEF Given
  <1>3. <<1>> \notin Scalars(declared) /\ IsList(<<1>>)  BY <1>2 DEF Scalars, Given
  <1>4. Parts(declared[<<1>>]) = MaxElems  BY <1>2 DEF Parts
  <1> QED  BY <1>1, <1>2, <1>3, <1>4, InitIs, BoundAssumption

\* The object of an item of the variable's list is in an element.
LEMMA ElementOf ==
    ASSUME Given, << 1 >> \notin Scalars(declared), NEW k \in 1 .. Size(<< 1 >>),
           objects[<<1, k>>] # End
    PROVE  /\ <<1, k>> \in DOMAIN init /\ objects[<<1, k>>] \in DOMAIN declared
           /\ objects[<<1, k>>] \in Places
           /\ Len(objects[<<1, k>>]) > 1 /\ Len(objects[<<1, k>>]) \in Nat
           /\ objects[<<1, k>>][1] = 1
           /\ objects[<<1, k>>][2] \in 1 .. Parts(declared[<<1>>])
  <1> DEFINE o == objects[<<1, k>>]
  <1>1. <<1>> \in DOMAIN init /\ Size(<<1>>) \in Nat /\ <<1>> \in Places  BY InitIs, DeclaredIs
  <1>2. Append(<<1>>, k) = <<1, k>>  BY <1>1, PairPlace
  <1>3. <<1, k>> \in DOMAIN init  BY <1>1, <1>2, ItemIs
  <1>4. objects[<<1>>] = <<1>>  BY VariableObject
  <1>5. Within(<<1>>, o) /\ o # <<1>>  BY <1>1, <1>2, <1>4, ItemWithin
  <1>6. o \in DOMAIN declared /\ o \in Places /\ TreeOK(declared)  BY <1>3, ObjectIn, DeclaredIs
  <1> HIDE DEF o
  <1>7. Len(<<1>>) = 1 /\ Len(<<1>>) + 1 = 2  OBVIOUS
  <1>8. Len(<<1>>) < Len(o) /\ o[2] \in 1 .. Parts(declared[<<1>>])
    BY <1>1, <1>5, <1>6, <1>7, TreePart
  <1>9. Len(o) > 1 /\ Len(o) \in Nat  BY <1>6, <1>7, <1>8 DEF Places
  <1>10. o # <<>>  BY <1>9
  <1>11. o[1] = 1  BY <1>6, <1>10, TreeRoot
  <1> QED  BY <1>3, <1>6, <1>8, <1>9, <1>11 DEF o

\* The element of the last item is the last one.
LEMMA CountedLast ==
    ASSUME Given, declared[<< 1 >>].len = Unsized, Size(<< 1 >>) > 0,
           objects[<<1, Size(<< 1 >>)>>] # End
    PROVE  Counted(objects[<<1, Size(<<1>>)>>][2])
  <1> DEFINE m == Size(<<1>>)
             o == objects[<<1, m>>]
  <1>1. /\ <<1>> \notin Scalars(declared) /\ Parts(declared[<<1>>]) = MaxElems
        /\ MaxElems \in Nat /\ m \in Nat
    BY UnsizedIs
  <1>2. m \in 1 .. m  BY <1>1
  <1>3. /\ o \in Places /\ Len(o) > 1 /\ Len(o) \in Nat /\ o[1] = 1 /\ o[2] \in 1 .. MaxElems
    BY <1>1, <1>2, ElementOf
  <1>4. ASSUME NEW k \in 1 .. m
        PROVE  objects[<<1, k>>] # End /\ objects[<<1, k>>][2] <= o[2]
    <2>1. CASE k = m  BY <1>3, <2>1
    <2>2. CASE k # m
      <3> DEFINE q == objects[<<1, k>>]
      <3>1. k < m /\ k \in Nat  BY <1>1, <2>2
      <3>2. Append(<<1>>, k) = <<1, k>> /\ Append(<<1>>, m) = <<1, m>>
        BY <1>1, <3>1, PairPlace
      <3>3. q # End /\ Before(q, o)
        <4>1. <<1>> \in DOMAIN init  BY InitIs
        <4> QED  BY <1>2, <3>1, <3>2, <4>1, ObjectOrder
      <3>4. q \in Places /\ Len(q) > 1 /\ Len(q) \in Nat /\ q[1] = 1 /\ q[2] \in 1 .. MaxElems
        BY <1>1, <3>3, ElementOf
      <3> HIDE DEF q, o
      <3>5. PICK x \in 1 .. Len(q) : /\ x <= Len(o) /\ q[x] < o[x]
                                     /\ \A j \in 1 .. x - 1 : q[j] = o[j]
        BY <1>3, <3>3, <3>4, BeforeIs
      <3>6. x # 1  BY <1>3, <3>4, <3>5
      <3>7. q[2] <= o[2]
        <4>1. CASE x = 2  BY <1>1, <1>3, <3>4, <3>5, <4>1
        <4>2. CASE x # 2
          <5>1. 2 \in 1 .. x - 1  BY <3>4, <3>5, <3>6, <4>2
          <5>2. q[2] = o[2]  BY <3>5, <5>1
          <5> QED  BY <1>1, <1>3, <5>2
        <4> QED  BY <4>1, <4>2
      <3> QED  BY <3>3, <3>7 DEF q
    <2> QED  BY <2>1, <2>2
  <1>5. o[2] \in 0 .. MaxElems  BY <1>1, <1>3
  <1> QED  BY <1>2, <1>4, <1>5 DEF Counted

\* What is entered is in the element the variable's frame is at.
LEMMA AtElement ==
    ASSUME Given, TypeNow, StackOK, Len(stack) > 2, Running
    PROVE  /\ top.at[2] = stack[2].i - 1 /\ Len(top.at) >= 2 /\ top.at[1] = 1
           /\ stack[2].i - 1 \in Nat
  <1> DEFINE n == Len(stack)
  <1>1. stack \in Seq(Frames) /\ n \in Nat /\ top = stack[n] /\ top.at \in Places
    BY TopIs DEF StackOK, StackIs
  <1>2. 2 \in 1 .. n /\ 2 # n /\ 3 \in 1 .. n /\ n \in 1 .. n /\ 3 <= n /\ 2 + 1 = 3  BY <1>1
  <1>3. stack[2].at = <<1>>  BY SecondIs
  <1>4. Entered(stack[2], stack[3], curr) /\ stack[2].i > 1  BY <1>2, Below
  <1>5. stack[2] \in Frames  BY <1>1, <1>2
  <1> DEFINE j == stack[2].i - 1
  <1>6. j \in Nat  BY <1>4, <1>5, FramesIs
  <1>7. stack[3].at = Append(<<1>>, j)  BY <1>3, <1>4 DEF Entered
  <1> HIDE DEF j
  <1>8. stack[3].at = <<1, j>> /\ <<1, j>> \in Places  BY <1>6, <1>7, PairPlace
  <1>9. Within(<<1, j>>, top.at)
    <2>1. Within(stack[3].at, stack[n].at)  BY <1>2 DEF StackOK, StackIs
    <2> QED  BY <1>1, <1>8, <2>1
  <1>10. Len(<<1, j>>) = 2 /\ <<1, j>>[2] = j /\ <<1, j>>[1] = 1  OBVIOUS
  <1>11. 2 <= Len(top.at) /\ top.at[2] = j /\ top.at[1] = 1
    <2>1. /\ Len(<<1, j>>) <= Len(top.at)
          /\ \A k \in 1 .. Len(<<1, j>>) : <<1, j>>[k] = top.at[k]
      BY <1>1, <1>8, <1>9, WithinIs
    <2> QED  BY <1>10, <2>1
  <1>12. Len(top.at) \in Nat  BY <1>1 DEF Places
  <1> QED  BY <1>6, <1>11, <1>12 DEF j

LEMMA PassOverUnsized ==
    ASSUME Given, TypeNow, StackOK, Visits, ~HasItem \/ Returns,
           UnsizedOK(stack, curr, array_len, pass)
    PROVE  UnsizedOK(NextComponent, curr, array_len, pass)
  <1> SUFFICES ASSUME pass = "constant", declared[<< 1 >>].len = Unsized
               PROVE  /\ Len(NextComponent) > 1 /\ curr[<<1>>] = Size(<<1>>)
                            => Counted(NextComponent[2].i - 1)
                      /\ NextComponent = <<>> \/ (Len(NextComponent) = 1 /\ NextComponent[1].i = 2)
                            => Counted(array_len)
    BY DEF UnsizedOK
  <1> DEFINE n == Len(stack)
  <1>1. ~HasItem /\ type = declared  BY DEF Returns, TypeNow
  <1>2. /\ stack # <<>> /\ stack \in Seq(Frames) /\ More /\ Running
        /\ top.i <= Parts(type[top.at])
    BY DEF Visits, Running, StackOK, StackIs
  <1>3. /\ n \in Nat \ {0} /\ top = stack[n] /\ Len(NextComponent) = n /\ NextComponent # <<>>
        /\ \A k \in 1 .. n : k # n => NextComponent[k] = stack[k]
    BY <1>2, NextIs
  <1>4. n # 1
    <2> SUFFICES ASSUME n = 1  PROVE FALSE  OBVIOUS
    <2>1. /\ top.at = <<>> /\ top.list = <<>> /\ (top.i = 1 => curr[<<>>] = 0)
      BY <1>2, <1>3 DEF StackOK, StackIs
    <2>2. Parts(declared[<<>>]) = 1 /\ Size(<<>>) = 1  BY DeclaredIs, InitIs DEF TreeOK
    <2>3. top.i \in Nat \ {0}  BY <1>2, TopIs
    <2>4. top.i = 1  BY <1>1, <1>2, <2>1, <2>2, <2>3
    <2> QED  BY <1>1, <2>1, <2>2, <2>4 DEF HasItem
  <1>5. n # 2
    <2> SUFFICES ASSUME n = 2  PROVE FALSE  OBVIOUS
    <2>1. top.at = <<1>>  BY <1>3, SecondIs
    <2> QED  BY <1>1, <1>2, <2>1 DEF More
  <1>6. n > 1 /\ 2 \in 1 .. n  BY <1>3, <1>4
  <1>7. NextComponent[2] = stack[2]  BY <1>3, <1>5, <1>6
  <1> QED  BY <1>3, <1>4, <1>6, <1>7 DEF UnsizedOK

LEMMA EnterUnsized ==
    ASSUME Given, TypeNow, StackOK, Tracked, Visits, HasItem, ~Returns,
           type[elem].kind # "scalar",
           UnsizedOK(stack, curr, array_len, pass), NEW g \in Frames, NEW c,
           \/ ~IsList(item) /\ c = curr
           \/ IsList(item) /\ c = ItemCursors /\ g.i = 1
    PROVE  UnsizedOK(Append(NextComponent, g), c, array_len, pass)
  <1> DEFINE s == Append(NextComponent, g)
             n == Len(stack)
  <1> SUFFICES ASSUME pass = "constant", declared[<< 1 >>].len = Unsized
               PROVE  /\ Len(s) > 1 /\ c[<<1>>] = Size(<<1>>) => Counted(s[2].i - 1)
                      /\ s = <<>> \/ (Len(s) = 1 /\ s[1].i = 2) => Counted(array_len)
    BY DEF UnsizedOK
  <1>1. stack # <<>> /\ stack \in Seq(Frames) /\ Running
    BY DEF Visits, Running, StackOK, StackIs
  <1>2. /\ n \in Nat \ {0} /\ top = stack[n]
        /\ NextComponent \in Seq(Frames) /\ Len(NextComponent) = n
        /\ \A k \in 1 .. n : k # n => NextComponent[k] = stack[k]
    BY <1>1, NextIs
  <1>3. /\ Len(s) = n + 1 /\ s[n + 1] = g /\ \A k \in 1 .. n : s[k] = NextComponent[k]
        /\ s # <<>>
    <2>1. Len(s) = n + 1 /\ s[n + 1] = g /\ \A k \in 1 .. n : s[k] = NextComponent[k]  BY <1>2
    <2>2. s # <<>>
      <3> SUFFICES ASSUME s = <<>>  PROVE FALSE  OBVIOUS
      <3>1. Len(s) = 0  OBVIOUS
      <3> QED  BY <1>2, <2>1, <3>1
    <2> QED  BY <2>1, <2>2
  <1> HIDE DEF s
  <1>4. /\ item = Append(top.list, curr[top.list] + 1) /\ item \in DOMAIN init
        /\ curr[top.list] + 1 \in 1 .. Size(top.list) /\ Len(item) = Len(top.list) + 1
        /\ top.list \in Places
    BY <1>1, ItemObject, TopIs
  <1>5. ASSUME Len(s) > 1, c[<< 1 >>] = Size(<< 1 >>)  PROVE Counted(s[2].i - 1)
    <2>1. CASE n = 1
      <3>1. top.list = <<>>  BY <1>1, <1>2, <2>1 DEF StackOK, StackIs
      <3>2. item = <<1>>
        <4>1. Size(<<>>) = 1 /\ Append(<<>>, 1) = <<1>>  BY InitIs
        <4>2. curr[<<>>] + 1 = 1  BY <1>4, <3>1, <4>1
        <4> QED  BY <1>4, <3>1, <4>1, <4>2
      <3>3. IsList(<<1>>) /\ <<1>> \in DOMAIN init /\ MaxElems \in Nat  BY UnsizedIs, InitIs
      <3>4. c = ItemCursors /\ g.i = 1  BY <3>2, <3>3
      <3>5. c[<<1>>] = 0  BY <3>2, <3>4 DEF ItemCursors
      <3>6. Size(<<1>>) = 0 /\ s[2] = g  BY <1>2, <1>3, <1>5, <2>1, <3>5
      <3>7. Counted(0)
        <4>1. 1 .. Size(<<1>>) = {}  BY <3>6
        <4> QED  BY <3>3, <4>1 DEF Counted
      <3> QED  BY <3>4, <3>6, <3>7
    <2>2. CASE n > 1
      <3>0. 2 \in 1 .. n /\ stack[2].list = <<1>>  BY <1>2, <2>2, SecondIs
      <3>1. c[<<1>>] = curr[<<1>>]
        <4>1. item # <<1>>
          <5>1. n \in 1 .. n /\ 2 <= n  BY <1>2, <2>2
          <5>2. Len(stack[2].list) <= Len(stack[n].list)  BY <3>0, <5>1 DEF StackOK, StackIs
          <5>3. Len(<<1>>) = 1 /\ Len(top.list) \in Nat  BY <1>4 DEF Places
          <5>4. Len(item) > 1  BY <1>2, <1>4, <3>0, <5>2, <5>3
          <5> SUFFICES ASSUME item = << 1 >>  PROVE FALSE  OBVIOUS
          <5>5. Len(item) = 1  BY <5>3
          <5> QED  BY <5>4, <5>5
        <4>2. <<1>> \in DOMAIN curr  BY <3>0 DEF StackOK, StackIs, FrameOK
        <4> QED  BY <4>1, <4>2 DEF ItemCursors
      <3>2. CASE n = 2
        <4>1. top.list = <<1>>  BY <1>2, <3>0, <3>2
        <4>2. curr[<<1>>] \in Nat /\ curr[<<1>>] < Size(<<1>>) /\ Size(<<1>>) \in Nat
          BY <1>1, <4>1, TopIs DEF HasItem
        <4> QED  BY <1>5, <3>1, <4>2
      <3>3. CASE n # 2
        <4>1. s[2] = stack[2]  BY <1>2, <1>3, <3>0, <3>3
        <4>2. curr[<<1>>] = Size(<<1>>)  BY <1>5, <3>1
        <4> QED  BY <2>2, <4>1, <4>2 DEF UnsizedOK
      <3> QED  BY <3>2, <3>3
    <2>3. n = 1 \/ n > 1  BY <1>2
    <2> QED  BY <2>1, <2>2, <2>3
  <1>6. ~(Len(s) = 1)  BY <1>2, <1>3
  <1> QED  BY <1>3, <1>5, <1>6 DEF s

LEMMA ObjectUnsized ==
    ASSUME Given, TypeNow, StackOK, Tracked, Visits, HasItem, ~Returns,
           type[elem].kind = "scalar",
           UnsizedOK(stack, curr, array_len, pass)
    PROVE  UnsizedOK(NextComponent, NextCursors, array_len, pass)
  <1> DEFINE s == NextComponent
             c == NextCursors
             n == Len(stack)
  <1> SUFFICES ASSUME pass = "constant", declared[<< 1 >>].len = Unsized
               PROVE  /\ Len(s) > 1 /\ c[<<1>>] = Size(<<1>>) => Counted(s[2].i - 1)
                      /\ s = <<>> \/ (Len(s) = 1 /\ s[1].i = 2) => Counted(array_len)
    BY DEF UnsizedOK
  <1>1. stack # <<>> /\ stack \in Seq(Frames) /\ Running
    BY DEF Visits, Running, StackOK, StackIs
  <1>2. /\ n \in Nat \ {0} /\ top = stack[n] /\ Len(s) = n /\ s # <<>>
        /\ \A k \in 1 .. n : k # n => s[k] = stack[k]
        /\ s[n].i = top.i + 1
    BY <1>1, NextIs
  <1>3. /\ elem \in DOMAIN declared /\ elem \in Places /\ elem = Append(top.at, top.i)
        /\ Within(top.at, elem) /\ Len(elem) = Len(top.at) + 1
        /\ type[elem].kind = declared[elem].kind
    BY ElemIs
  <1>4. /\ item = Append(top.list, curr[top.list] + 1)
        /\ curr[top.list] + 1 \in 1 .. Size(top.list)
        /\ top.at \in Places /\ top.i \in Nat \ {0} /\ curr[top.list] \in Nat
        /\ Size(top.list) \in Nat
    BY <1>1, ItemObject, TopIs
  <1>5. /\ c[top.list] = curr[top.list] + 1 /\ objects[item] = elem
        /\ \A x \in DOMAIN curr : x # top.list => c[x] = curr[x]
    BY ObjectStack
  <1> HIDE DEF s, c
  <1>6. n # 1
    <2> SUFFICES ASSUME n = 1  PROVE FALSE  OBVIOUS
    <2>1. top.at = <<>>  BY <1>1, <1>2 DEF StackOK, StackIs
    <2>2. Parts(declared[<<>>]) = 1 /\ <<>> # <<1>> /\ <<>> \in DOMAIN declared
      BY DeclaredIs DEF TreeOK
    <2>3. top.i = 1
      <3>1. Parts(type[<<>>]) = 1  BY <2>2, TypeIs
      <3>2. top.i <= 1  BY <2>1, <3>1 DEF Visits
      <3> QED  BY <1>4, <3>2
    <2>4. elem = <<1>>
      <3>1. Append(<<>>, 1) = <<1>>  OBVIOUS
      <3> QED  BY <1>3, <2>1, <2>3, <3>1
    <2> QED  BY <1>3, <2>4, UnsizedIs
  <1>7. n > 1 /\ 2 \in 1 .. n /\ ~(Len(s) = 1)  BY <1>2, <1>6
  <1>8. stack[2].list = <<1>> /\ stack[2].at = <<1>>  BY <1>7, SecondIs
  <1>9. elem[2] = s[2].i - 1
    <2>1. CASE n = 2
      <3>1. top.at = <<1>>  BY <1>2, <1>8, <2>1
      <3>2. elem = <<1, top.i>>  BY <1>3, <1>4, <3>1, PairPlace
      <3>3. elem[2] = top.i  BY <3>2
      <3>4. s[2].i = top.i + 1  BY <1>2, <2>1
      <3> QED  BY <1>4, <3>3, <3>4
    <2>2. CASE n # 2
      <3>0. Len(stack) > 2
        <4>1. n \in Nat /\ n > 2  BY <1>2, <1>7, <2>2
        <4> QED  BY <4>1
      <3>1. top.at[2] = stack[2].i - 1 /\ Len(top.at) >= 2  BY <1>1, <3>0, AtElement
      <3>2. 2 \in 1 .. Len(top.at)
        <4>1. Len(top.at) \in Nat  BY <1>4 DEF Places
        <4> QED  BY <3>1, <4>1
      <3>3. elem[2] = top.at[2]  BY <1>3, <1>4, <3>2, WithinIs
      <3>4. s[2] = stack[2]  BY <1>2, <1>7, <2>2
      <3> QED  BY <3>1, <3>3, <3>4
    <2> QED  BY <2>1, <2>2
  <1>10. ASSUME c[<< 1 >>] = Size(<< 1 >>)  PROVE Counted(s[2].i - 1)
    <2>1. CASE top.list = <<1>>
      <3>1. curr[<<1>>] + 1 = Size(<<1>>) /\ Size(<<1>>) \in Nat /\ Size(<<1>>) > 0
        BY <1>4, <1>5, <1>10, <2>1
      <3>2. item = <<1, Size(<<1>>)>>  BY <1>4, <2>1, <3>1, PairPlace
      <3>3. objects[<<1, Size(<<1>>)>>] = elem /\ elem # End
        BY <1>3, <1>5, <3>2, DeclaredIs
      <3>4. Counted(elem[2])  BY <3>1, <3>3, CountedLast
      <3> QED  BY <1>9, <3>4
    <2>2. CASE top.list # <<1>>
      <3>1. <<1>> \in DOMAIN curr  BY <1>7, <1>8 DEF StackOK, StackIs, FrameOK
      <3>2. curr[<<1>>] = Size(<<1>>)  BY <1>5, <1>10, <2>2, <3>1
      <3>3. n # 2  BY <1>2, <1>8, <2>2
      <3>4. s[2] = stack[2]  BY <1>2, <1>7, <3>3
      <3> QED  BY <1>7, <3>2, <3>4 DEF UnsizedOK
    <2> QED  BY <2>1, <2>2
  <1> QED  BY <1>2, <1>7, <1>10 DEF s, c

\* What the array's length is set to when its frame is done.
LengthNow == IF type[top.at].len = Unsized THEN Elements(top) ELSE array_len

LEMMA LengthNowIs ==
    ASSUME Given, TypeNow, StackOK, Running, ~More
    PROVE  /\ LengthNow \in Nat
           /\ LengthNow = array_len \/ type = declared
           /\ top.at # <<1>> => LengthNow = array_len
  <1>1. top.at \in DOMAIN declared /\ top.i \in Nat \ {0} /\ array_len \in Nat
    BY TopIs DEF TypeNow
  <1>2. LengthNow \in Nat  BY <1>1 DEF LengthNow, Elements
  <1>3. type[top.at].len = Unsized => top.at = <<1>> /\ type = declared  BY NoMore
  <1> QED  BY <1>2, <1>3 DEF LengthNow

LEMMA ReturnUnsized ==
    ASSUME Given, TypeNow, StackOK, Tracked, Running, ~More,
           UnsizedOK(stack, curr, array_len, pass), NEW c,
           \/ top.braced /\ c = ReturnCursors
           \/ ~top.braced /\ c = curr
    PROVE  UnsizedOK(Front(stack), c, LengthNow, pass)
  <1> DEFINE s == Front(stack)
             n == Len(stack)
  <1> SUFFICES ASSUME pass = "constant", declared[<< 1 >>].len = Unsized
               PROVE  /\ Len(s) > 1 /\ c[<<1>>] = Size(<<1>>) => Counted(s[2].i - 1)
                      /\ s = <<>> \/ (Len(s) = 1 /\ s[1].i = 2) => Counted(LengthNow)
    BY DEF UnsizedOK
  <1>1. stack # <<>> /\ stack \in Seq(Frames) /\ type = declared
    BY DEF Running, StackOK, StackIs, TypeNow
  <1>2. /\ n \in Nat \ {0} /\ top = stack[n] /\ s \in Seq(Frames) /\ Len(s) = n - 1
        /\ \A k \in 1 .. n - 1 : s[k] = stack[k]
    BY <1>1, FrontIs, TopIs
  <1> HIDE DEF s
  <1>3. CASE n = 1
    <2>1. ~(Len(s) > 1)  BY <1>2, <1>3
    <2>2. top.at = <<>> /\ top = stack[1]  BY <1>1, <1>2, <1>3 DEF StackOK, StackIs
    <2>3. <<>> # <<1>> /\ Parts(declared[<<>>]) = 1 /\ <<>> \in DOMAIN declared
      BY DeclaredIs DEF TreeOK
    <2>4. LengthNow = array_len  BY <2>2, <2>3, LengthNowIs
    <2>5. top.i = 2
      <3>1. declared[<<>>].len # Unsized  BY <1>1, <2>3, TypeIs
      <3>2. top.i > 1  BY <1>1, <2>2, <2>3, <3>1, NoMore
      <3>3. top.i <= 1 + 1 /\ top.i \in Nat  BY <1>1, <2>2, <2>3, TopIs DEF FrameOK
      <3> QED  BY <3>2, <3>3
    <2>6. Counted(array_len)  BY <1>3, <2>2, <2>5 DEF UnsizedOK
    <2> QED  BY <2>1, <2>4, <2>6
  <1>4. CASE n = 2
    <2>1. ~(Len(s) > 1)  BY <1>2, <1>4
    <2>2. top.at = <<1>> /\ top.list = <<1>> /\ top = stack[2]  BY <1>2, <1>4, SecondIs
    <2>3. ~HasItem /\ LengthNow = top.i - 1  BY <1>1, <2>2, NoMore DEF LengthNow, Elements
    <2>4. curr[<<1>>] = Size(<<1>>)
      <3>1. curr[<<1>>] \in 0 .. Size(<<1>>) /\ Size(<<1>>) \in Nat  BY <2>2, TopIs
      <3>2. ~(curr[<<1>>] < Size(<<1>>))  BY <2>2, <2>3 DEF HasItem
      <3> QED  BY <3>1, <3>2
    <2>5. Counted(top.i - 1)  BY <1>4, <2>2, <2>4 DEF UnsizedOK
    <2> QED  BY <2>1, <2>3, <2>5
  <1>5. CASE n > 2
    <2>1. s # <<>> /\ ~(Len(s) = 1) /\ 2 \in 1 .. n - 1 /\ 2 \in 1 .. n /\ n > 1
      <3>1. Len(s) # 0 /\ Len(s) # 1  BY <1>2, <1>5
      <3>2. s # <<>>
        <4> SUFFICES ASSUME s = <<>>  PROVE FALSE  OBVIOUS
        <4> QED  BY <3>1
      <3> QED  BY <1>2, <1>5, <3>1, <3>2
    <2>2. s[2] = stack[2]  BY <1>2, <2>1
    <2>3. stack[2].list = <<1>> /\ top.at[2] = stack[2].i - 1  BY <1>5, <2>1, SecondIs, AtElement
    <2>4. ASSUME c[<< 1 >>] = Size(<< 1 >>)  PROVE Counted(s[2].i - 1)
      <3>1. <<1>> \in DOMAIN curr  BY <2>1, <2>3 DEF StackOK, StackIs, FrameOK
      <3>2. CASE c[<<1>>] = curr[<<1>>]
        <4>1. curr[<<1>>] = Size(<<1>>)  BY <2>4, <3>2
        <4> QED  BY <2>1, <2>2, <4>1 DEF UnsizedOK
      <3>3. CASE c[<<1>>] # curr[<<1>>]
        <4>1. top.braced /\ c = ReturnCursors  BY <3>3
        <4>2. Front(top.list) = <<1>> /\ c[<<1>>] = curr[<<1>>] + 1
          BY <3>1, <3>3, <4>1, ReturnBracedStack
        <4>3. /\ top.list = Append(<<1>>, curr[<<1>>] + 1) /\ objects[top.list] = top.at
              /\ curr[<<1>>] + 1 \in 1 .. Size(<<1>>)
          BY <4>1, <4>2, BracedIs
        <4>4. Size(<<1>>) \in Nat /\ Size(<<1>>) > 0 /\ curr[<<1>>] + 1 = Size(<<1>>)
          BY <2>4, <4>2, <4>3, UnsizedIs
        <4>5. top.list = <<1, Size(<<1>>)>>  BY <4>3, <4>4, PairPlace
        <4>6. top.at # End  BY TopIs, DeclaredIs
        <4>7. Counted(top.at[2])  BY <4>3, <4>4, <4>5, <4>6, CountedLast
        <4> QED  BY <2>2, <2>3, <4>7
      <3> QED  BY <3>2, <3>3
    <2> QED  BY <2>1, <2>4
  <1>6. n = 1 \/ n = 2 \/ n > 2  BY <1>2
  <1> QED  BY <1>3, <1>4, <1>5, <1>6 DEF s

-----------------------------------------------------------------------------
(* What was consumed.                                                      *)

\* p is in one of the items the list's cursor has passed.
Takes(p, list, c) == \E j \in 1 .. c[list] : Within(Append(list, j), p)

\* p is in an item that a list on the stack has passed; all are in the end.
Consumed(p, s, c) ==
    p # <<>> /\ (s # <<>> => \E k \in 1 .. Len(s) : Takes(p, s[k].list, c))

\* The constant walk, the local one is behind p.
Past(p, s, c, ps) == \/ ps \in {"local", "done"} /\ p # <<>>
                     \/ ps = "constant" /\ Consumed(p, s, c)
PastLocal(p, s, c, ps) == ps = "done" \/ (ps = "local" /\ Consumed(p, s, c))

Stored(p, s, c, ps) ==
    /\ objects[p] # End
    /\ \/ init[p].kind = "constant" /\ Past(p, s, c, ps)
       \/ init[p].kind \in NotConstant /\ PastLocal(p, s, c, ps)

ConstantWarned(w) == {x[2] : x \in {v \in w : v[1] = "constant"}}

\* What was stored and warned of is C's for all that the walks are behind.
Settled(o, w, s, c, ps) ==
    /\ o = {<<objects[p], p>> : p \in {q \in DOMAIN init : Stored(q, s, c, ps)}}
    /\ ConstantWarned(w) = {list \in ExcessLists : ~TooManyBraces(list) /\ Past(list, s, c, ps)}
    /\ \A p \in DOMAIN init : Past(p, s, c, ps) => ~EmptyScalar(p)

LEMMA ConsumedPassOver ==
    ASSUME stack \in Seq(Frames), stack # <<>>, NEW p
    PROVE  Consumed(p, NextComponent, curr) <=> Consumed(p, stack, curr)
  <1>1. /\ NextComponent # <<>> /\ Len(NextComponent) = Len(stack)
        /\ \A k \in 1 .. Len(stack) : NextComponent[k].list = stack[k].list
    BY NextIs
  <1> QED  BY <1>1 DEF Consumed

LEMMA ConsumedEnterShared ==
    ASSUME stack \in Seq(Frames), stack # <<>>, NEW p, NEW g \in Frames, g.list = top.list
    PROVE  Consumed(p, Append(NextComponent, g), curr) <=> Consumed(p, stack, curr)
  <1> DEFINE s == Append(NextComponent, g)
             n == Len(stack)
  <1>1. /\ NextComponent \in Seq(Frames) /\ Len(NextComponent) = n /\ n \in Nat \ {0}
        /\ top = stack[n]
        /\ \A k \in 1 .. n : NextComponent[k].list = stack[k].list
    BY NextIs
  <1>2. /\ Len(s) = n + 1 /\ s[n + 1] = g /\ \A k \in 1 .. n : s[k] = NextComponent[k]
    BY <1>1
  <1>3. s # <<>>
    <2> SUFFICES ASSUME s = <<>>  PROVE FALSE  OBVIOUS
    <2>1. Len(s) = 0  OBVIOUS
    <2> QED  BY <1>1, <1>2, <2>1
  <1> HIDE DEF s
  <1>4. \A k \in 1 .. n : k \in 1 .. Len(s) /\ s[k].list = stack[k].list  BY <1>1, <1>2
  <1>5. \A k \in 1 .. Len(s) : k \in 1 .. n \/ k = n + 1  BY <1>1, <1>2
  <1>6. s[n + 1].list = stack[n].list /\ n \in 1 .. n  BY <1>1, <1>2
  <1>7. Consumed(p, s, curr) <=> Consumed(p, stack, curr)
    BY <1>3, <1>4, <1>5, <1>6 DEF Consumed
  <1> QED  BY <1>7 DEF s

\* A list that is entered in braces has passed nothing.
LEMMA ConsumedEnterBraced ==
    ASSUME Given, TypeNow, StackOK, Tracked, Visits, HasItem, ~Returns,
           type[elem].kind # "scalar", IsList(item), NEW p, NEW g \in Frames, g.list = item
    PROVE  Consumed(p, Append(NextComponent, g), ItemCursors) <=> Consumed(p, stack, curr)
  <1> DEFINE s == Append(NextComponent, g)
             n == Len(stack)
             c == ItemCursors
  <1>0. Running /\ stack \in Seq(Frames) /\ stack # <<>>
    BY DEF Visits, Running, StackOK, StackIs
  <1>1. /\ NextComponent \in Seq(Frames) /\ Len(NextComponent) = n /\ n \in Nat \ {0}
        /\ top = stack[n]
        /\ \A k \in 1 .. n : NextComponent[k].list = stack[k].list
    BY <1>0, NextIs
  <1>2. /\ Len(s) = n + 1 /\ s[n + 1] = g /\ \A k \in 1 .. n : s[k] = NextComponent[k]
    BY <1>1
  <1>3. s # <<>>
    <2> SUFFICES ASSUME s = <<>>  PROVE FALSE  OBVIOUS
    <2>1. Len(s) = 0  OBVIOUS
    <2> QED  BY <1>1, <1>2, <2>1
  <1> HIDE DEF s
  <1>4. \A k \in 1 .. n : k \in 1 .. Len(s) /\ s[k].list = stack[k].list  BY <1>1, <1>2
  <1>5. \A k \in 1 .. Len(s) : k \in 1 .. n \/ k = n + 1  BY <1>1, <1>2
  <1>6. Len(item) = Len(top.list) + 1 /\ Len(top.list) \in Nat
    BY <1>0, ItemObject, TopIs DEF Places
  <1>7. \A k \in 1 .. n : c[stack[k].list] = curr[stack[k].list]
    <2> TAKE k \in 1 .. n
    <2>1. k <= n /\ n \in 1 .. n  BY <1>1
    <2>2. Len(stack[k].list) <= Len(stack[n].list)  BY <2>1 DEF StackOK, StackIs
    <2>3. stack[k] \in Frames  BY <1>0
    <2>4. Len(stack[k].list) \in Nat  BY <2>3, FramesIs
    <2>5. Len(stack[k].list) # Len(item)  BY <1>1, <1>6, <2>2, <2>4
    <2>6. stack[k].list # item  BY <2>5
    <2>7. stack[k].list \in DOMAIN curr  BY DEF StackOK, StackIs, FrameOK
    <2> QED  BY <2>6, <2>7 DEF ItemCursors
  <1>8. c[item] = 0  BY DEF ItemCursors
  <1> HIDE DEF c
  <1>9. \A k \in 1 .. n : Takes(p, s[k].list, c) <=> Takes(p, stack[k].list, curr)
    BY <1>4, <1>7 DEF Takes
  <1>10. ~Takes(p, s[n + 1].list, c)
    <2>1. 1 .. 0 = {}  OBVIOUS
    <2> QED  BY <1>2, <1>8, <2>1 DEF Takes
  <1>11. Consumed(p, s, c) <=> Consumed(p, stack, curr)
    BY <1>0, <1>3, <1>4, <1>5, <1>9, <1>10 DEF Consumed
  <1> QED  BY <1>11 DEF s, c

\* A scalar's item is consumed with all its parts.
LEMMA ConsumedObject ==
    ASSUME Given, TypeNow, StackOK, Tracked, Visits, HasItem, ~Returns,
           type[elem].kind = "scalar", NEW p \in DOMAIN init
    PROVE  Consumed(p, NextComponent, NextCursors) <=> Consumed(p, stack, curr) \/ Within(item, p)
  <1> DEFINE s == NextComponent
             n == Len(stack)
             c == NextCursors
  <1>0. Running /\ stack \in Seq(Frames) /\ stack # <<>>
    BY DEF Visits, Running, StackOK, StackIs
  <1>1. /\ Len(s) = n /\ n \in Nat \ {0} /\ s # <<>> /\ top = stack[n] /\ n \in 1 .. n
        /\ \A k \in 1 .. n : s[k].list = stack[k].list
    BY <1>0, NextIs
  <1>2. /\ DOMAIN c = DOMAIN curr /\ c[top.list] = curr[top.list] + 1
        /\ \A x \in DOMAIN curr : x # top.list => c[x] = curr[x]
    BY ObjectStack
  <1>3. /\ item = Append(top.list, curr[top.list] + 1) /\ item \in Places /\ item # <<>>
        /\ curr[top.list] \in Nat
    BY <1>0, ItemObject, TopIs
  <1> HIDE DEF s, c
  <1>4. Takes(p, top.list, c) <=> Takes(p, top.list, curr) \/ Within(item, p)
    <2>1. \A j : j \in 1 .. c[top.list] <=> j \in 1 .. curr[top.list] \/ j = curr[top.list] + 1
      BY <1>2, <1>3
    <2> QED  BY <1>3, <2>1 DEF Takes
  <1>5. \A k \in 1 .. n : stack[k].list # top.list
            => (Takes(p, stack[k].list, c) <=> Takes(p, stack[k].list, curr))
    <2> TAKE k \in 1 .. n
    <2>1. stack[k].list \in DOMAIN curr  BY DEF StackOK, StackIs, FrameOK
    <2> QED  BY <1>2, <2>1 DEF Takes
  <1>6. Within(item, p) => p # <<>>
    <2> SUFFICES ASSUME Within(item, p), p = <<>>  PROVE FALSE  OBVIOUS
    <2>1. Len(item) <= Len(<<>>) /\ Len(<<>>) = 0 /\ Len(item) \in Nat
      BY <1>3, WithinIs DEF Places, Within
    <2>2. Len(item) = 0  BY <2>1
    <2> QED  BY <1>3, <2>2 DEF Places
  <1>7. (\E k \in 1 .. Len(s) : Takes(p, s[k].list, c))
            <=> (\E k \in 1 .. n : Takes(p, stack[k].list, curr)) \/ Within(item, p)
    <2>1. ASSUME NEW k \in 1 .. n, Takes(p, stack[k].list, c)
          PROVE  (\E m \in 1 .. n : Takes(p, stack[m].list, curr)) \/ Within(item, p)
      BY <1>4, <1>5, <2>1
    <2>2. ASSUME NEW k \in 1 .. n, Takes(p, stack[k].list, curr)
          PROVE  \E m \in 1 .. n : Takes(p, stack[m].list, c)
      BY <1>4, <1>5, <2>2
    <2>3. Within(item, p) => Takes(p, stack[n].list, c)  BY <1>1, <1>4
    <2> QED  BY <1>1, <2>1, <2>2, <2>3
  <1>8. Consumed(p, s, c) <=> Consumed(p, stack, curr) \/ Within(item, p)
    BY <1>0, <1>1, <1>6, <1>7 DEF Consumed
  <1> QED  BY <1>8 DEF s, c

\* Behind its braces a list is consumed with all its items.
LEMMA ConsumedReturnBraced ==
    ASSUME Given, TypeNow, StackOK, Tracked, Running, ~More, top.braced, NEW p \in DOMAIN init
    PROVE  Consumed(p, Front(stack), ReturnCursors)
               <=> Consumed(p, stack, curr) \/ Within(top.list, p)
  <1> DEFINE n == Len(stack)
             f == stack[n - 1]
             list == f.list
             s == Front(stack)
             c == ReturnCursors
  <1>1. /\ n \in Nat \ {0} /\ stack # <<>> /\ stack \in Seq(Frames) /\ top = stack[n]
        /\ top.list \in Places /\ top.list \in DOMAIN init
        /\ curr[top.list] \in 0 .. Size(top.list) /\ Size(top.list) \in Nat
    BY TopIs DEF Running, StackOK, StackIs
  <1>2. /\ n > 1 /\ top.list = Append(list, curr[list] + 1) /\ Front(top.list) = list
        /\ list \in DOMAIN curr /\ top.list # <<>>
        /\ Len(top.list) = Len(list) + 1 /\ list \in DOMAIN init
    BY BracedIs
  <1>3. s # <<>> /\ curr[list] \in Nat  BY <1>2, UnderIs
  <1>4. /\ Len(s) = n - 1 /\ \A k \in 1 .. n - 1 : k \in 1 .. n /\ s[k] = stack[k]
    BY <1>1, FrontIs
  <1>5. /\ c[list] = curr[list] + 1 /\ \A x \in DOMAIN curr : x # list => c[x] = curr[x]
    BY <1>2, ReturnBracedStack
  <1> HIDE DEF s, c
  <1>6. Takes(p, list, c) <=> Takes(p, list, curr) \/ Within(top.list, p)
    <2>1. \A j : j \in 1 .. c[list] <=> j \in 1 .. curr[list] \/ j = curr[list] + 1
      BY <1>3, <1>5
    <2> QED  BY <1>2, <2>1 DEF Takes
  <1>7. \A k \in 1 .. n : stack[k].list # list
            => (Takes(p, stack[k].list, c) <=> Takes(p, stack[k].list, curr))
    <2> TAKE k \in 1 .. n
    <2>1. stack[k].list \in DOMAIN curr  BY DEF StackOK, StackIs, FrameOK
    <2> QED  BY <1>5, <2>1 DEF Takes
  <1>8. Takes(p, top.list, curr) => Within(top.list, p)
    <2> SUFFICES ASSUME NEW j \in 1 .. curr[top.list], Within(Append(top.list, j), p)
                 PROVE  Within(top.list, p)
      BY DEF Takes
    <2>1. j \in 1 .. Size(top.list)  BY <1>1
    <2>2. Append(top.list, j) \in Places /\ Within(top.list, Append(top.list, j)) /\ p \in Places
      BY <1>1, <2>1, ItemIs, InitIs
    <2> QED  BY <1>1, <2>2, WithinTrans
  <1>9. Within(top.list, p) => p # <<>>
    <2> SUFFICES ASSUME Within(top.list, p), p = <<>>  PROVE FALSE  OBVIOUS
    <2>1. Len(top.list) <= Len(<<>>) /\ Len(<<>>) = 0 /\ Len(top.list) \in Nat
      BY <1>1 DEF Places, Within
    <2>2. Len(top.list) = 0  BY <2>1
    <2> QED  BY <1>1, <1>2, <2>2 DEF Places
  <1>10. (\E k \in 1 .. Len(s) : Takes(p, s[k].list, c))
            <=> (\E k \in 1 .. n : Takes(p, stack[k].list, curr)) \/ Within(top.list, p)
    <2>1. ASSUME NEW k \in 1 .. n - 1, Takes(p, stack[k].list, c)
          PROVE  (\E m \in 1 .. n : Takes(p, stack[m].list, curr)) \/ Within(top.list, p)
      BY <1>4, <1>6, <1>7, <2>1
    <2>2. ASSUME NEW k \in 1 .. n, Takes(p, stack[k].list, curr)
          PROVE  \E m \in 1 .. n - 1 : Takes(p, stack[m].list, c)
      <3>1. n - 1 \in 1 .. n - 1  BY <1>1, <1>2
      <3>2. CASE k = n  BY <1>1, <1>6, <1>8, <2>2, <3>1, <3>2
      <3>3. CASE k # n
        <4>1. k \in 1 .. n - 1  BY <1>1, <3>3
        <4> QED  BY <1>6, <1>7, <2>2, <4>1
      <3> QED  BY <3>2, <3>3
    <2>3. Within(top.list, p) => \E m \in 1 .. n - 1 : Takes(p, stack[m].list, c)
      <3>1. n - 1 \in 1 .. n - 1  BY <1>1, <1>2
      <3> QED  BY <1>6, <3>1
    <2> QED  BY <1>4, <2>1, <2>2, <2>3
  <1>11. Consumed(p, s, c) <=> Consumed(p, stack, curr) \/ Within(top.list, p)
    BY <1>1, <1>3, <1>9, <1>10 DEF Consumed
  <1> QED  BY <1>11 DEF s, c

LEMMA ConsumedReturnShared ==
    ASSUME Given, TypeNow, StackOK, Tracked, Running, ~More, ~top.braced, Len(stack) > 1, NEW p
    PROVE  Consumed(p, Front(stack), curr) <=> Consumed(p, stack, curr)
  <1> DEFINE n == Len(stack)
             s == Front(stack)
  <1>1. /\ n \in Nat \ {0} /\ stack # <<>> /\ stack \in Seq(Frames) /\ top = stack[n]
    BY TopIs DEF Running, StackOK, StackIs
  <1>2. s # <<>> /\ stack[n - 1].list = stack[n].list
    BY <1>1, UnderIs DEF Entered
  <1>3. /\ Len(s) = n - 1 /\ \A k \in 1 .. n - 1 : k \in 1 .. n /\ s[k] = stack[k]
    BY <1>1, FrontIs
  <1>4. n - 1 \in 1 .. n - 1 /\ \A k \in 1 .. n : k \in 1 .. n - 1 \/ k = n  BY <1>1
  <1> HIDE DEF s
  <1>5. Consumed(p, s, curr) <=> Consumed(p, stack, curr)
    BY <1>1, <1>2, <1>3, <1>4 DEF Consumed
  <1> QED  BY <1>5 DEF s

\* At the end of the walk everything is consumed.
LEMMA ConsumedRoot ==
    ASSUME Given, TypeNow, StackOK, Tracked, Running, ~More, Len(stack) = 1
    PROVE  /\ Front(stack) = <<>>
           /\ Returns => is_all_constant(<<>>)
           /\ ~Returns => \A p \in DOMAIN init : p # <<>> => Consumed(p, stack, curr)
  <1>1. /\ stack # <<>> /\ stack \in Seq(Frames) /\ top = stack[1]
        /\ top.at = <<>> /\ top.list = <<>>
    BY TopIs DEF Running, StackOK, StackIs
  <1>2. Front(stack) = <<>>
    <2>1. Front(stack) \in Seq(Frames) /\ Len(Front(stack)) = 0  BY <1>1, FrontIs
    <2> QED  BY <2>1
  <1>3. Returns => is_all_constant(<<>>)  BY <1>1 DEF Returns
  <1>4. ASSUME ~Returns  PROVE ~HasItem
    <2> SUFFICES ASSUME HasItem  PROVE FALSE  OBVIOUS
    <2>1. Parts(declared[<<>>]) = 1 /\ <<>> # <<1>> /\ <<>> \in DOMAIN declared
          /\ objects[<<>>] = <<>> /\ objects[<<1>>] = <<1>> /\ Size(<<>>) = 1
          /\ End # <<1>>
      BY DeclaredIs, InitIs, RootObject, VariableObject DEF TreeOK
    <2>2. Parts(type[<<>>]) = 1 /\ type[<<>>].len # Unsized  BY <2>1, TypeIs
    <2>3. top.i > Parts(declared[<<>>]) /\ top.i \in Nat  BY <1>1, <2>1, <2>2, NoMore, TopIs
    <2>4. Rest(<<>>, <<>>, top.i) = {}  BY <2>1, <2>3, RestNone
    <2>5. objects[item] = FirstOf(Fit(item, {}))  BY <1>1, <1>4, <2>1, <2>4, ItemObject
    <2>6. objects[item] = End
      <3>1. Fit(item, {}) = {}  BY DEF Fit
      <3> QED  BY <2>5, <3>1, FirstOfNone
    <2>7. item = <<1>>
      <3>1. curr[<<>>] + 1 \in 1 .. 1 /\ item = Append(<<>>, curr[<<>>] + 1)
        BY <1>1, <1>4, <2>1, ItemObject
      <3>2. curr[<<>>] + 1 = 1 /\ Append(<<>>, 1) = <<1>>  BY <3>1
      <3> QED  BY <3>1, <3>2
    <2> QED  BY <2>1, <2>6, <2>7
  <1>5. ASSUME ~Returns, NEW p \in DOMAIN init, p # <<>>  PROVE Consumed(p, stack, curr)
    <2>1. curr[<<>>] \in 0 .. Size(<<>>) /\ Size(<<>>) = 1  BY <1>1, TopIs, InitIs
    <2>2. curr[<<>>] = 1  BY <1>1, <1>4, <1>5, <2>1 DEF HasItem
    <2>3. Within(<<1>>, p)  BY <1>5, TreeRoot, InitIs
    <2>4. 1 \in 1 .. 1 /\ Append(<<>>, 1) = <<1>>  OBVIOUS
    <2>5. Takes(p, stack[1].list, curr)  BY <1>1, <2>2, <2>3, <2>4 DEF Takes
    <2>6. 1 \in 1 .. Len(stack)  OBVIOUS
    <2> QED  BY <1>5, <2>5, <2>6 DEF Consumed
  <1> QED  BY <1>2, <1>3, <1>5

LEMMA ConsumedNone == ASSUME NEW p  PROVE ~Consumed(p, Root, Cursors)
  <1>1. /\ Root # <<>> /\ Len(Root) = 1 /\ Root[1].list = <<>>  BY DEF Root, Frame
  <1>2. Cursors[<<>>] = 0  BY DEF Cursors
  <1>3. 1 .. 0 = {} /\ \A k \in 1 .. 1 : k = 1  OBVIOUS
  <1>4. \A k \in 1 .. Len(Root) : ~Takes(p, Root[k].list, Cursors)
    BY <1>1, <1>2, <1>3 DEF Takes
  <1> QED  BY <1>1, <1>4 DEF Consumed

-----------------------------------------------------------------------------
(* What was stored and warned of, step by step.                            *)

LEMMA SettledIs ==
    ASSUME NEW o, NEW w, NEW s, NEW c, NEW ps
    PROVE  Settled(o, w, s, c, ps) <=>
               /\ \A x : x \in o <=> \E q \in DOMAIN init : /\ x = <<objects[q], q>>
                                                            /\ Stored(q, s, c, ps)
               /\ \A l : (\E x \in w : x[1] = "constant" /\ x[2] = l)
                             <=> l \in ExcessLists /\ ~TooManyBraces(l) /\ Past(l, s, c, ps)
               /\ \A p \in DOMAIN init : Past(p, s, c, ps) => ~EmptyScalar(p)
  <1> DEFINE O == {<<objects[p], p>> : p \in {q \in DOMAIN init : Stored(q, s, c, ps)}}
             W == {list \in ExcessLists : ~TooManyBraces(list) /\ Past(list, s, c, ps)}
  <1>1. \A x : x \in O <=> \E q \in DOMAIN init : x = <<objects[q], q>> /\ Stored(q, s, c, ps)
    OBVIOUS
  <1>2. \A l : l \in W <=> l \in ExcessLists /\ ~TooManyBraces(l) /\ Past(l, s, c, ps)
    OBVIOUS
  <1>3. \A l : l \in ConstantWarned(w) <=> \E x \in w : x[1] = "constant" /\ x[2] = l
    BY DEF ConstantWarned
  <1>4. Settled(o, w, s, c, ps) <=> /\ o = O /\ ConstantWarned(w) = W
                                    /\ \A p \in DOMAIN init : Past(p, s, c, ps) => ~EmptyScalar(p)
    BY DEF Settled
  <1> HIDE DEF O, W
  <1>5. o = O <=> \A x : x \in o <=> x \in O  OBVIOUS
  <1>6. ConstantWarned(w) = W <=> \A l : l \in ConstantWarned(w) <=> l \in W  OBVIOUS
  <1> QED  BY <1>1, <1>2, <1>3, <1>4, <1>5, <1>6

\* The lists with excess items.
LEMMA ExcessIs ==
    ASSUME Given
    PROVE  /\ \A l \in ExcessLists :
                 /\ l \in DOMAIN init /\ objects[l] # End
                 /\ \E k \in 1 .. Size(l) : objects[Append(l, k)] = End
           /\ \A l \in DOMAIN init : \A k \in 1 .. Size(l) :
                 objects[l] # End /\ objects[Append(l, k)] = End => l \in ExcessLists
  <1>1. ASSUME NEW l \in ExcessLists
        PROVE  /\ l \in DOMAIN init /\ objects[l] # End
               /\ \E k \in 1 .. Size(l) : objects[Append(l, k)] = End
    <2>1. PICK q \in DOMAIN init : l = Front(q) /\ q # <<>> /\ objects[q] = End
                                   /\ objects[Front(q)] # End
      BY DEF ExcessLists
    <2> QED  BY <2>1, IsItem
  <1>2. ASSUME NEW l \in DOMAIN init, NEW k \in 1 .. Size(l),
               objects[l] # End, objects[Append(l, k)] = End
        PROVE  l \in ExcessLists
    <2>1. /\ Append(l, k) \in DOMAIN init /\ Append(l, k) # <<>> /\ Front(Append(l, k)) = l
      BY ItemIs
    <2> DEFINE q == Append(l, k)
    <2>2. q \in DOMAIN init /\ q # <<>> /\ objects[q] = End /\ objects[Front(q)] # End /\ Front(q) = l
      BY <1>2, <2>1
    <2> HIDE DEF q
    <2> QED  BY <2>2 DEF ExcessLists
  <1> QED  BY <1>1, <1>2

LEMMA SettledSame ==
    ASSUME Given, NEW o, NEW w, NEW s, NEW c, NEW ps, NEW r, NEW d, NEW pr,
           Settled(o, w, s, c, ps),
           \A p \in DOMAIN init : /\ Past(p, r, d, pr) <=> Past(p, s, c, ps)
                                  /\ Stored(p, r, d, pr) <=> Stored(p, s, c, ps)
    PROVE  Settled(o, w, r, d, pr)
  <1>1. /\ \A x : x \in o <=> \E q \in DOMAIN init : x = <<objects[q], q>> /\ Stored(q, s, c, ps)
        /\ \A l : (\E x \in w : x[1] = "constant" /\ x[2] = l)
                      <=> l \in ExcessLists /\ ~TooManyBraces(l) /\ Past(l, s, c, ps)
        /\ \A p \in DOMAIN init : Past(p, s, c, ps) => ~EmptyScalar(p)
    BY SettledIs
  <1>2. \A x : x \in o <=> \E q \in DOMAIN init : x = <<objects[q], q>> /\ Stored(q, r, d, pr)
    BY <1>1
  <1>3. \A l : (\E x \in w : x[1] = "constant" /\ x[2] = l)
                      <=> l \in ExcessLists /\ ~TooManyBraces(l) /\ Past(l, r, d, pr)
    BY <1>1, ExcessIs
  <1>4. \A p \in DOMAIN init : Past(p, r, d, pr) => ~EmptyScalar(p)  BY <1>1
  <1> QED  BY <1>2, <1>3, <1>4, SettledIs

\* What was consumed decides, within one walk.
LEMMA SettledWithin ==
    ASSUME Given, NEW s, NEW c, Settled(obj, warned, stack, curr, pass),
           \A p \in DOMAIN init : Consumed(p, s, c) <=> Consumed(p, stack, curr)
    PROVE  Settled(obj, warned, s, c, pass)
  <1>1. \A p \in DOMAIN init : /\ Past(p, s, c, pass) <=> Past(p, stack, curr, pass)
                               /\ PastLocal(p, s, c, pass) <=> PastLocal(p, stack, curr, pass)
    BY DEF Past, PastLocal
  <1>2. \A p \in DOMAIN init : Stored(p, s, c, pass) <=> Stored(p, stack, curr, pass)
    BY <1>1 DEF Stored
  <1> QED  BY <1>1, <1>2, SettledSame

\* A scalar's item, and what is in it: one value is stored, if it has one,
\* and the item's braces are the only ones to be warned of.
LEMMA ScalarItem ==
    ASSUME Given, TypeNow, StackOK, Tracked, Visits, HasItem, ~Returns,
           type[elem].kind = "scalar"
    PROVE  \E u \in DOMAIN init :
              /\ u # <<>> /\ Size(u) = 0 /\ objects[u] = elem /\ Within(item, u)
              /\ Unbraced(item) = IF IsList(u) THEN NoItem ELSE u
              /\ \A p \in DOMAIN init : Within(item, p) /\ objects[p] # End /\ Size(p) = 0 => p = u
              /\ \A l \in ExcessLists : Within(item, l) /\ ~TooManyBraces(l)
                                            => l = item /\ IsList(item) /\ Size(item) > 1
              /\ IsList(item) /\ Size(item) > 1 => item \in ExcessLists /\ ~TooManyBraces(item)
  <1>1. /\ item \in DOMAIN init /\ item \in Places /\ Front(item) = top.list /\ item # <<>>
    BY ItemObject DEF Visits
  <1>2. elem \in Scalars(declared) /\ objects[item] = elem  BY ObjectStack
  <1>3. /\ elem # End /\ Scalars(declared) \subseteq DOMAIN declared /\ End \notin DOMAIN declared
    BY <1>2, DeclaredIs
  <1>4. PICK u \in DOMAIN init :
              /\ Within(item, u) /\ Size(u) = 0 /\ u # <<>> /\ objects[u] = objects[item]
              /\ Unbraced(item) = IF IsList(u) THEN NoItem ELSE u
              /\ \A q \in DOMAIN init : Within(item, q) /\ objects[q] # End
                                           => objects[q] = objects[item] /\ Within(q, u)
    BY <1>1, <1>2, Innermost
  <1>5. ASSUME NEW p \in DOMAIN init, Within(item, p), objects[p] # End, Size(p) = 0
        PROVE  p = u
    <2>1. Within(p, u)  BY <1>4, <1>5
    <2> QED  BY <1>5, <2>1, ValueOnly
  <1>6. ASSUME NEW l \in ExcessLists, Within(item, l), ~TooManyBraces(l)
        PROVE  l = item /\ IsList(item) /\ Size(item) > 1
    <2>1. l \in DOMAIN init /\ objects[l] # End /\ \E k \in 1 .. Size(l) : objects[Append(l, k)] = End
      BY ExcessIs
    <2>2. l \in Places  BY <2>1, InitIs
    <2>3. l = item
      <3> SUFFICES ASSUME l # item  PROVE FALSE  OBVIOUS
      <3>1. l # <<>> /\ Within(item, Front(l))  BY <1>1, <1>6, <2>2, WithinFront
      <3>2. /\ Front(l) \in DOMAIN init /\ Within(Front(l), l)  BY <2>1, <3>1, IsItem
      <3>3. objects[Front(l)] # End  BY <2>1, <3>2, ObjectDescend
      <3>4. objects[Front(l)] = elem  BY <1>2, <1>4, <3>1, <3>2, <3>3
      <3> QED  BY <1>2, <1>6, <3>1, <3>4 DEF TooManyBraces
    <2>4. PICK k \in 1 .. Size(item) : objects[Append(item, k)] = End  BY <2>1, <2>3
    <2>5. IsList(item) /\ k \in Nat \ {0}  BY <1>1, <2>4, ItemIs
    <2>6. k # 1  BY <1>1, <1>2, <1>3, <2>4, ObjectOfItem
    <2>7. Size(item) \in Nat  BY <1>1, InitIs
    <2> QED  BY <2>3, <2>4, <2>5, <2>6, <2>7
  <1>7. ASSUME IsList(item), Size(item) > 1
        PROVE  item \in ExcessLists /\ ~TooManyBraces(item)
    <2>1. Size(item) \in Nat  BY <1>1, InitIs
    <2>2. 2 \in 1 .. Size(item) /\ 2 # 1  BY <1>7, <2>1
    <2>3. objects[Append(item, 2)] = End  BY <1>1, <1>2, <2>2, ObjectOfItem
    <2>4. item \in ExcessLists  BY <1>1, <1>2, <1>3, <2>2, <2>3, ExcessIs
    <2>5. objects[top.list] \notin Scalars(declared)  BY TopIs DEF Visits, FrameOK
    <2> QED  BY <1>1, <2>4, <2>5 DEF TooManyBraces
  <1> QED  BY <1>2, <1>4, <1>5, <1>6, <1>7

NextObj(value) == IF Written(value) THEN obj \cup {<<elem, value>>} ELSE obj
NextWarned == IF IsList(item) /\ Size(item) > 1 THEN warned \cup {<<pass, item>>} ELSE warned

\* The value of a scalar's item is stored by the walk it belongs to.
LEMMA ObjectSettled ==
    ASSUME Given, TypeNow, StackOK, Tracked, Visits, HasItem, ~Returns,
           type[elem].kind = "scalar", Unbraced(item) # NoItem,
           Settled(obj, warned, stack, curr, pass)
    PROVE  Settled(NextObj(Unbraced(item)), NextWarned, NextComponent, NextCursors, pass)
  <1> DEFINE s == NextComponent
             c == NextCursors
  <1>1. PICK u \in DOMAIN init :
              /\ u # <<>> /\ Size(u) = 0 /\ objects[u] = elem /\ Within(item, u)
              /\ Unbraced(item) = IF IsList(u) THEN NoItem ELSE u
              /\ \A p \in DOMAIN init : Within(item, p) /\ objects[p] # End /\ Size(p) = 0 => p = u
              /\ \A l \in ExcessLists : Within(item, l) /\ ~TooManyBraces(l)
                                            => l = item /\ IsList(item) /\ Size(item) > 1
              /\ IsList(item) /\ Size(item) > 1 => item \in ExcessLists /\ ~TooManyBraces(item)
    BY ScalarItem
  <1>2. ~IsList(u) /\ Unbraced(item) = u  BY <1>1
  <1>3. /\ item \in DOMAIN init /\ item \in Places /\ pass \in {"constant", "local"}
    BY ItemObject DEF Visits, Running
  <1>4. /\ elem # End /\ Scalars(declared) \subseteq DOMAIN declared /\ End \notin DOMAIN declared
        /\ elem \in Scalars(declared)
    BY ObjectStack, DeclaredIs
  <1>5. /\ \A p \in DOMAIN init : Consumed(p, s, c) <=> Consumed(p, stack, curr) \/ Within(item, p)
        /\ item # <<>>
    BY ConsumedObject, ItemObject DEF Visits
  <1>6. /\ \A x : x \in obj <=> \E q \in DOMAIN init : x = <<objects[q], q>> /\ Stored(q, stack, curr, pass)
        /\ \A l : (\E x \in warned : x[1] = "constant" /\ x[2] = l)
                      <=> l \in ExcessLists /\ ~TooManyBraces(l) /\ Past(l, stack, curr, pass)
        /\ \A p \in DOMAIN init : Past(p, stack, curr, pass) => ~EmptyScalar(p)
    BY SettledIs
  <1>7. \A x : x \in NextObj(u) <=> x \in obj \/ (Written(u) /\ x = <<elem, u>>)
    BY DEF NextObj
  <1>8. \A x : x \in NextWarned <=> x \in warned \/ (IsList(item) /\ Size(item) > 1 /\ x = <<pass, item>>)
    BY DEF NextWarned
  <1>9. \A p \in DOMAIN init : /\ ~IsList(p) <=> init[p].kind \in {"constant"} \cup NotConstant
                               /\ ~IsList(p) => Size(p) = 0
    BY InitIs
  <1>10. ASSUME NEW p \in DOMAIN init, Within(item, p), objects[p] # End, ~IsList(p)
         PROVE  p = u
    BY <1>1, <1>9, <1>10
  <1>11. ASSUME NEW p \in DOMAIN init, Within(item, p)  PROVE ~EmptyScalar(p)
    <2> SUFFICES ASSUME IsList(p), Size(p) = 0, objects[p] \in Scalars(declared)  PROVE FALSE
      BY DEF EmptyScalar
    <2>1. objects[p] # End  BY <1>4
    <2>2. p = u  BY <1>1, <1>11, <2>1
    <2> QED  BY <1>2, <2>2
  <1> HIDE DEF s, c
  <1>12. CASE pass = "constant"
    <2>1. \A p \in DOMAIN init : /\ Past(p, s, c, pass) <=> Past(p, stack, curr, pass) \/ Within(item, p)
                                 /\ ~PastLocal(p, s, c, pass) /\ ~PastLocal(p, stack, curr, pass)
      BY <1>5, <1>12 DEF Past, PastLocal
    <2>2. Written(u) <=> init[u].kind = "constant"  BY <1>12 DEF Written
    <2>3. ASSUME NEW p \in DOMAIN init
          PROVE  Stored(p, s, c, pass) <=> Stored(p, stack, curr, pass) \/ (Written(u) /\ p = u)
      <3>1. Stored(p, s, c, pass) <=> /\ objects[p] # End /\ init[p].kind = "constant"
                                      /\ Past(p, stack, curr, pass) \/ Within(item, p)
        BY <2>1 DEF Stored
      <3>2. Stored(p, stack, curr, pass) <=> /\ objects[p] # End /\ init[p].kind = "constant"
                                             /\ Past(p, stack, curr, pass)
        BY <2>1 DEF Stored
      <3>3. objects[p] # End /\ init[p].kind = "constant" /\ Within(item, p)
                <=> init[u].kind = "constant" /\ p = u
        BY <1>1, <1>4, <1>9, <1>10
      <3> QED  BY <2>2, <3>1, <3>2, <3>3
    <2>4. \A x : x \in NextObj(u) <=> \E q \in DOMAIN init : /\ x = <<objects[q], q>>
                                                             /\ Stored(q, s, c, pass)
      BY <1>1, <1>6, <1>7, <2>3
    <2>5. \A l : (\E x \in NextWarned : x[1] = "constant" /\ x[2] = l)
                      <=> l \in ExcessLists /\ ~TooManyBraces(l) /\ Past(l, s, c, pass)
      <3> TAKE l
      <3>1. (\E x \in NextWarned : x[1] = "constant" /\ x[2] = l)
                <=> \/ \E x \in warned : x[1] = "constant" /\ x[2] = l
                    \/ IsList(item) /\ Size(item) > 1 /\ l = item
        <4>1. <<pass, item>>[1] = "constant" /\ <<pass, item>>[2] = item  BY <1>12
        <4> QED  BY <1>8, <4>1
      <3>2. IsList(item) /\ Size(item) > 1 /\ l = item
                <=> l \in ExcessLists /\ ~TooManyBraces(l) /\ Within(item, l)
        <4>1. Within(item, item)  BY <1>3, WithinRefl
        <4> QED  BY <1>1, <4>1
      <3>3. l \in ExcessLists => l \in DOMAIN init  BY ExcessIs
      <3> QED  BY <1>6, <2>1, <3>1, <3>2, <3>3
    <2>6. \A p \in DOMAIN init : Past(p, s, c, pass) => ~EmptyScalar(p)
      BY <1>6, <1>11, <2>1
    <2> QED  BY <1>2, <2>4, <2>5, <2>6, SettledIs DEF s, c
  <1>13. CASE pass = "local"
    <2>1. \A p \in DOMAIN init :
             /\ Past(p, s, c, pass) <=> Past(p, stack, curr, pass)
             /\ PastLocal(p, s, c, pass) <=> PastLocal(p, stack, curr, pass) \/ Within(item, p)
      BY <1>5, <1>13 DEF Past, PastLocal
    <2>2. Written(u) <=> init[u].kind \in NotConstant
      BY <1>2, <1>9, <1>13 DEF Written, NotConstant
    <2>3. ASSUME NEW p \in DOMAIN init
          PROVE  Stored(p, s, c, pass) <=> Stored(p, stack, curr, pass) \/ (Written(u) /\ p = u)
      <3>3. objects[p] # End /\ init[p].kind \in NotConstant /\ Within(item, p)
                <=> init[u].kind \in NotConstant /\ p = u
        BY <1>1, <1>4, <1>9, <1>10
      <3> QED  BY <2>1, <2>2, <3>3 DEF Stored
    <2>4. \A x : x \in NextObj(u) <=> \E q \in DOMAIN init : /\ x = <<objects[q], q>>
                                                             /\ Stored(q, s, c, pass)
      BY <1>1, <1>6, <1>7, <2>3
    <2>5. \A l : (\E x \in NextWarned : x[1] = "constant" /\ x[2] = l)
                      <=> l \in ExcessLists /\ ~TooManyBraces(l) /\ Past(l, s, c, pass)
      <3> TAKE l
      <3>1. (\E x \in NextWarned : x[1] = "constant" /\ x[2] = l)
                <=> \E x \in warned : x[1] = "constant" /\ x[2] = l
        <4>1. <<pass, item>>[1] # "constant"  BY <1>13
        <4> QED  BY <1>8, <4>1
      <3>3. l \in ExcessLists => l \in DOMAIN init  BY ExcessIs
      <3> QED  BY <1>6, <2>1, <3>1, <3>3
    <2>6. \A p \in DOMAIN init : Past(p, s, c, pass) => ~EmptyScalar(p)
      BY <1>6, <2>1
    <2> QED  BY <1>2, <2>4, <2>5, <2>6, SettledIs DEF s, c
  <1> QED  BY <1>3, <1>12, <1>13

\* A braced list that is done has no object for what was not consumed.
LEMMA ReturnGain ==
    ASSUME Given, TypeNow, StackOK, Tracked, Running, ~More, ~Returns, top.braced,
           NEW p \in DOMAIN init, Within(top.list, p), p # top.list
    PROVE  Consumed(p, stack, curr) \/ objects[p] = End
  <1> DEFINE list == top.list
             k == p[Len(list) + 1]
  <1>1. /\ list \in DOMAIN init /\ list \in Places /\ p \in Places /\ TreeOK(init)
        /\ curr[list] \in 0 .. Size(list) /\ curr[list] \in Nat /\ Size(list) \in Nat
        /\ Len(stack) \in Nat \ {0} /\ top = stack[Len(stack)]
    BY TopIs, InitIs
  <1>2. k \in 1 .. Parts(init[list]) /\ Append(list, k) \in DOMAIN init /\ Within(Append(list, k), p)
    BY <1>1, TreePart
  <1>3. k \in 1 .. Size(list)  BY <1>1, <1>2, InitIs
  <1>4. p # <<>>
    <2>1. list # <<>>  BY BracedIs
    <2> SUFFICES ASSUME p = <<>>  PROVE FALSE  OBVIOUS
    <2>2. Len(list) <= Len(<<>>) /\ Len(<<>>) = 0  BY DEF Within
    <2> QED  BY <1>1, <2>1, <2>2 DEF Places
  <1> HIDE DEF k
  <1>5. CASE k <= curr[list]
    <2>1. k \in 1 .. curr[list]  BY <1>1, <1>3, <1>5
    <2>2. Takes(p, stack[Len(stack)].list, curr)  BY <1>1, <1>2, <2>1 DEF Takes
    <2>3. Len(stack) \in 1 .. Len(stack)  BY <1>1
    <2> QED  BY <1>4, <2>2, <2>3 DEF Consumed
  <1>6. CASE k > curr[list]
    <2>1. HasItem  BY <1>1, <1>3, <1>6 DEF HasItem
    <2> DEFINE j == curr[list] + 1
    <2>2. j \in 1 .. Size(list) /\ item = Append(list, j) /\ objects[item] = End
      BY <2>1, ItemObject, ListDone
    <2>3. j <= k  BY <1>1, <1>3, <1>6
    <2> HIDE DEF j
    <2>4. objects[Append(list, k)] = End
      <3>1. CASE j = k  BY <2>2, <3>1
      <3>2. CASE j < k  BY <1>1, <1>3, <2>2, <3>2, ObjectOrder
      <3>3. j = k \/ j < k  BY <1>3, <2>2, <2>3
      <3> QED  BY <3>1, <3>2, <3>3
    <2>5. objects[p] = End  BY <1>2, <2>4, ObjectDescend
    <2> QED  BY <2>5
  <1>7. k <= curr[list] \/ k > curr[list]  BY <1>1, <1>3
  <1> QED  BY <1>5, <1>6, <1>7

ReturnWarned == IF Size(top.list) > curr[top.list] THEN warned \cup {<<pass, top.list>>} ELSE warned

\* The warning at the end of a braced list.
LEMMA ReturnExcess ==
    ASSUME Given, TypeNow, StackOK, Tracked, Running, ~More, ~Returns, top.braced
    PROVE  /\ top.list \in DOMAIN init /\ IsList(top.list)
           /\ ~EmptyScalar(top.list) /\ ~TooManyBraces(top.list)
           /\ top.list \in ExcessLists <=> Size(top.list) > curr[top.list]
  <1> DEFINE f == stack[Len(stack) - 1]
  <1>1. /\ top.list \in DOMAIN init /\ FrameOK(top, curr, type)
        /\ curr[top.list] \in Nat /\ Size(top.list) \in Nat
    BY TopIs
  <1>2. objects[top.list] \notin Scalars(declared) /\ objects[top.list] # End /\ IsList(top.list)
    BY <1>1, DeclaredIs DEF FrameOK
  <1>3. Front(top.list) = f.list /\ Len(stack) > 1  BY BracedIs
  <1>4. objects[f.list] \notin Scalars(declared)  BY <1>3, UnderIs DEF FrameOK
  <1>5. ASSUME top.list \in ExcessLists  PROVE Size(top.list) > curr[top.list]
    <2>1. PICK k \in 1 .. Size(top.list) : objects[Append(top.list, k)] = End  BY <1>5, ExcessIs
    <2>2. k \notin 1 .. curr[top.list]  BY <1>1, <2>1 DEF FrameOK
    <2> QED  BY <1>1, <2>1, <2>2
  <1>6. ASSUME Size(top.list) > curr[top.list]  PROVE top.list \in ExcessLists
    <2>1. HasItem  BY <1>1, <1>6 DEF HasItem
    <2>2. /\ curr[top.list] + 1 \in 1 .. Size(top.list) /\ item = Append(top.list, curr[top.list] + 1)
          /\ objects[item] = End
      BY <2>1, ItemObject, ListDone
    <2> QED  BY <1>1, <1>2, <2>2, ExcessIs
  <1> QED  BY <1>1, <1>2, <1>3, <1>4, <1>5, <1>6 DEF EmptyScalar, TooManyBraces

LEMMA ReturnBracedSettled ==
    ASSUME Given, TypeNow, StackOK, Tracked, Running, ~More, top.braced,
           Settled(obj, warned, stack, curr, pass)
    PROVE  Settled(obj, ReturnWarned, Front(stack), ReturnCursors, pass)
  <1> DEFINE s == Front(stack)
             c == ReturnCursors
  <1>1. \A p \in DOMAIN init : Consumed(p, s, c) <=> Consumed(p, stack, curr) \/ Within(top.list, p)
    BY ConsumedReturnBraced
  <1>2. /\ \A x : x \in obj <=> \E q \in DOMAIN init : x = <<objects[q], q>> /\ Stored(q, stack, curr, pass)
        /\ \A l : (\E x \in warned : x[1] = "constant" /\ x[2] = l)
                      <=> l \in ExcessLists /\ ~TooManyBraces(l) /\ Past(l, stack, curr, pass)
        /\ \A p \in DOMAIN init : Past(p, stack, curr, pass) => ~EmptyScalar(p)
    BY SettledIs
  <1>3. \A x : x \in ReturnWarned <=> \/ x \in warned
                                      \/ Size(top.list) > curr[top.list] /\ x = <<pass, top.list>>
    BY DEF ReturnWarned
  <1>4. top.list \in DOMAIN init /\ top.list \in Places /\ IsList(top.list)
    BY TopIs DEF FrameOK
  <1>5. pass \in {"constant", "local"}  BY DEF Running
  <1> HIDE DEF s, c
  <1>6. CASE pass = "constant"
    <2>0. ~Returns  BY <1>6 DEF Returns
    <2>1. \A p \in DOMAIN init : /\ Past(p, s, c, pass) <=> Past(p, stack, curr, pass) \/ Within(top.list, p)
                                 /\ ~PastLocal(p, s, c, pass) /\ ~PastLocal(p, stack, curr, pass)
      BY <1>1, <1>6 DEF Past, PastLocal
    <2>2. ASSUME NEW p \in DOMAIN init, Within(top.list, p), objects[p] # End
          PROVE  p = top.list \/ Past(p, stack, curr, pass)
      BY <1>6, <2>0, <2>2, ReturnGain DEF Past
    <2>3. ASSUME NEW p \in DOMAIN init
          PROVE  Stored(p, s, c, pass) <=> Stored(p, stack, curr, pass)
      <3>1. init[p].kind = "constant" => p # top.list  BY <1>4 DEF IsList
      <3> QED  BY <2>1, <2>2, <3>1 DEF Stored
    <2>4. \A x : x \in obj <=> \E q \in DOMAIN init : x = <<objects[q], q>> /\ Stored(q, s, c, pass)
      BY <1>2, <2>3
    <2>5. \A l : (\E x \in ReturnWarned : x[1] = "constant" /\ x[2] = l)
                      <=> l \in ExcessLists /\ ~TooManyBraces(l) /\ Past(l, s, c, pass)
      <3> TAKE l
      <3>1. (\E x \in ReturnWarned : x[1] = "constant" /\ x[2] = l)
                <=> \/ \E x \in warned : x[1] = "constant" /\ x[2] = l
                    \/ Size(top.list) > curr[top.list] /\ l = top.list
        <4> DEFINE y == <<pass, top.list>>
        <4>1. y[1] = "constant" /\ y[2] = top.list  BY <1>6
        <4>2. \A x : x \in ReturnWarned <=> x \in warned \/ (Size(top.list) > curr[top.list] /\ x = y)
          BY <1>3
        <4> HIDE DEF y
        <4> QED  BY <4>1, <4>2
      <3>2. l \in ExcessLists => l \in DOMAIN init /\ objects[l] # End  BY ExcessIs
      <3>3. Within(top.list, top.list)  BY <1>4, WithinRefl
      <3>4. /\ ~TooManyBraces(top.list)
            /\ top.list \in ExcessLists <=> Size(top.list) > curr[top.list]
        BY <2>0, ReturnExcess
      <3>5. CASE l = top.list  BY <1>2, <1>4, <2>1, <3>1, <3>3, <3>4, <3>5
      <3>6. CASE l # top.list  BY <1>2, <2>1, <2>2, <3>1, <3>2, <3>6
      <3> QED  BY <3>5, <3>6
    <2>6. ASSUME NEW p \in DOMAIN init, Past(p, s, c, pass)  PROVE ~EmptyScalar(p)
      <3> SUFFICES ASSUME EmptyScalar(p)  PROVE FALSE  OBVIOUS
      <3>1. objects[p] # End  BY DeclaredIs DEF EmptyScalar
      <3>2. p = top.list \/ Past(p, stack, curr, pass)  BY <2>1, <2>2, <2>6, <3>1
      <3> QED  BY <1>2, <2>0, <3>2, ReturnExcess
    <2> QED  BY <2>4, <2>5, <2>6, SettledIs DEF s, c
  <1>7. CASE pass = "local"
    <2>1. \A p \in DOMAIN init :
             /\ Past(p, s, c, pass) <=> Past(p, stack, curr, pass)
             /\ PastLocal(p, s, c, pass) <=> PastLocal(p, stack, curr, pass) \/ Within(top.list, p)
      BY <1>1, <1>7 DEF Past, PastLocal
    <2>2. ASSUME NEW p \in DOMAIN init, Within(top.list, p), objects[p] # End, init[p].kind \in NotConstant
          PROVE  PastLocal(p, stack, curr, pass)
      <3>1. CASE Returns  BY <2>2, <3>1 DEF Returns, is_all_constant
      <3>2. CASE ~Returns
        <4>1. p # top.list  BY <1>4, <2>2 DEF IsList, NotConstant
        <4> QED  BY <1>7, <2>2, <3>2, <4>1, ReturnGain DEF PastLocal
      <3> QED  BY <3>1, <3>2
    <2>3. ASSUME NEW p \in DOMAIN init
          PROVE  Stored(p, s, c, pass) <=> Stored(p, stack, curr, pass)
      BY <2>1, <2>2 DEF Stored
    <2>4. \A x : x \in obj <=> \E q \in DOMAIN init : x = <<objects[q], q>> /\ Stored(q, s, c, pass)
      BY <1>2, <2>3
    <2>5. \A l : (\E x \in ReturnWarned : x[1] = "constant" /\ x[2] = l)
                      <=> l \in ExcessLists /\ ~TooManyBraces(l) /\ Past(l, s, c, pass)
      <3> TAKE l
      <3>1. (\E x \in ReturnWarned : x[1] = "constant" /\ x[2] = l)
                <=> \E x \in warned : x[1] = "constant" /\ x[2] = l
        <4> DEFINE y == <<pass, top.list>>
        <4>1. y[1] # "constant"  BY <1>7
        <4>2. \A x : x \in ReturnWarned => x \in warned \/ x = y  BY <1>3
        <4>3. \A x \in warned : x \in ReturnWarned  BY <1>3
        <4> HIDE DEF y
        <4> QED  BY <4>1, <4>2, <4>3
      <3>2. l \in ExcessLists => l \in DOMAIN init  BY ExcessIs
      <3> QED  BY <1>2, <2>1, <3>1, <3>2
    <2>6. \A p \in DOMAIN init : Past(p, s, c, pass) => ~EmptyScalar(p)  BY <1>2, <2>1
    <2> QED  BY <2>4, <2>5, <2>6, SettledIs DEF s, c
  <1> QED  BY <1>5, <1>6, <1>7

LEMMA ReturnSharedSettled ==
    ASSUME Given, TypeNow, StackOK, Tracked, Running, ~More, ~top.braced,
           Settled(obj, warned, stack, curr, pass)
    PROVE  Settled(obj, warned, Front(stack), curr, pass)
  <1> DEFINE s == Front(stack)
  <1>0. Len(stack) \in Nat \ {0}  BY TopIs
  <1>1. CASE Len(stack) > 1
    <2>1. \A p \in DOMAIN init : Consumed(p, s, curr) <=> Consumed(p, stack, curr)
      BY <1>1, ConsumedReturnShared
    <2> HIDE DEF s
    <2> QED  BY <2>1, SettledWithin DEF s
  <1>2. CASE Len(stack) = 1
    <2>1. /\ s = <<>>
          /\ Returns => is_all_constant(<<>>)
          /\ ~Returns => \A p \in DOMAIN init : p # <<>> => Consumed(p, stack, curr)
      BY <1>2, ConsumedRoot
    <2>3. \A p : Consumed(p, stack, curr) => p # <<>>  BY DEF Consumed
    <2> HIDE DEF s
    <2>2. \A p : Consumed(p, s, curr) <=> p # <<>>  BY <2>1 DEF Consumed
    <2>4. CASE ~Returns
      <3>1. \A p \in DOMAIN init : Consumed(p, s, curr) <=> Consumed(p, stack, curr)
        BY <2>1, <2>2, <2>3, <2>4
      <3> QED  BY <3>1, SettledWithin DEF s
    <2>5. CASE Returns
      <3>1. pass = "local"  BY <2>5 DEF Returns
      <3>2. \A p \in DOMAIN init : Past(p, s, curr, pass) <=> Past(p, stack, curr, pass)
        BY <3>1 DEF Past
      <3>3. \A p \in DOMAIN init : init[p].kind \notin NotConstant
        <4>1. \A p \in DOMAIN init : Within(<<>>, p)
          BY InitIs, WithinIs DEF Places
        <4>2. is_all_constant(<<>>)  BY <2>1, <2>5
        <4> QED  BY <4>1, <4>2 DEF is_all_constant
      <3>4. \A p \in DOMAIN init : Stored(p, s, curr, pass) <=> Stored(p, stack, curr, pass)
        BY <3>2, <3>3 DEF Stored
      <3> QED  BY <3>2, <3>4, SettledSame DEF s
    <2> QED  BY <2>4, <2>5
  <1>3. Len(stack) > 1 \/ Len(stack) = 1  BY <1>0
  <1> QED  BY <1>1, <1>2, <1>3

\* The first walk begins with nothing stored.
LEMMA BeginSettled ==
    ASSUME Given, pass = "begin", Settled(obj, warned, stack, curr, pass)
    PROVE  Settled(obj, warned, Root, Cursors, "constant")
  <1>1. \A p \in DOMAIN init : ~Past(p, stack, curr, pass) /\ ~PastLocal(p, stack, curr, pass)
    BY DEF Past, PastLocal
  <1>2. \A p \in DOMAIN init : ~Past(p, Root, Cursors, "constant")
                               /\ ~PastLocal(p, Root, Cursors, "constant")
    BY ConsumedNone DEF Past, PastLocal
  <1>3. \A p \in DOMAIN init : Stored(p, Root, Cursors, "constant") <=> Stored(p, stack, curr, pass)
    BY <1>1, <1>2 DEF Stored
  <1> QED  BY <1>1, <1>2, <1>3, SettledSame

\* The second walk begins with all constants stored.
LEMMA LocalSettled ==
    ASSUME Given, pass = "constant", stack = <<>>, Settled(obj, warned, stack, curr, pass)
    PROVE  Settled(obj, warned, Root, Cursors, "local")
  <1>1. \A p \in DOMAIN init : /\ Past(p, stack, curr, pass) <=> p # <<>>
                               /\ ~PastLocal(p, stack, curr, pass)
    BY DEF Past, PastLocal, Consumed
  <1>2. \A p \in DOMAIN init : /\ Past(p, Root, Cursors, "local") <=> p # <<>>
                               /\ ~PastLocal(p, Root, Cursors, "local")
    BY ConsumedNone DEF Past, PastLocal
  <1>3. \A p \in DOMAIN init : Stored(p, Root, Cursors, "local") <=> Stored(p, stack, curr, pass)
    BY <1>1, <1>2 DEF Stored
  <1> QED  BY <1>1, <1>2, <1>3, SettledSame

\* With the last walk everything is stored.
LEMMA DoneSettled ==
    ASSUME Given, stack = <<>>, Settled(obj, warned, stack, curr, pass),
           pass = "local" \/ (pass = "constant" /\ is_all_constant(<<>>))
    PROVE  Settled(obj, warned, stack, curr, "done")
  <1>1. \A p \in DOMAIN init : /\ Past(p, stack, curr, pass) <=> p # <<>>
                               /\ pass = "local" => (PastLocal(p, stack, curr, pass) <=> p # <<>>)
    BY DEF Past, PastLocal, Consumed
  <1>2. \A p \in DOMAIN init : /\ Past(p, stack, curr, "done") <=> p # <<>>
                               /\ PastLocal(p, stack, curr, "done")
    BY DEF Past, PastLocal
  <1>3. /\ init[<<>>].kind \notin NotConstant /\ init[<<>>].kind # "constant"
        /\ \A p \in DOMAIN init : Within(<<>>, p)
    <2>1. init[<<>>].kind = "list"  BY InitIs DEF IsList
    <2>2. \A p \in DOMAIN init : p \in Places  BY InitIs
    <2>3. \A p \in Places : Within(<<>>, p)
      <3> TAKE p \in Places
      <3>1. <<>> \in Places /\ Len(<<>>) = 0 /\ Len(p) \in Nat /\ 1 .. 0 = {}  BY DEF Places
      <3> QED  BY <3>1, WithinIs
    <2> QED  BY <2>1, <2>2, <2>3 DEF NotConstant
  <1>4. ASSUME NEW p \in DOMAIN init
        PROVE  Stored(p, stack, curr, "done") <=> Stored(p, stack, curr, pass)
    <2>1. CASE pass = "local"  BY <1>1, <1>2, <1>3, <2>1 DEF Stored
    <2>2. CASE pass = "constant" /\ is_all_constant(<<>>)
      <3>1. init[p].kind \notin NotConstant  BY <1>3, <2>2 DEF is_all_constant
      <3> QED  BY <1>1, <1>2, <3>1 DEF Stored
    <2> QED  BY <2>1, <2>2
  <1> QED  BY <1>1, <1>2, <1>4, SettledSame

-----------------------------------------------------------------------------
(* The invariant and its steps.                                            *)

Halts ==
    /\ pass = "halted" => \/ \E p \in DOMAIN init : EmptyScalar(p) \/ StructValue(p)
                          \/ static /\ \E p \in DOMAIN init : init[p].kind \in NotConstant
    /\ static /\ pass \notin {"begin", "halted"} => is_all_constant(<<>>)
    /\ pass = "local" => ~static

WarnedLocal == \A w \in warned : w[1] = "local" => w[2] \in ExcessLists \/ is_all_constant(w[2])

\* No struct value was ever stored into a scalar.
NoStructs == \A o \in obj : init[o[2]].kind # "aggregate"

Behaved ==
    /\ pass # "halted" => Settled(obj, warned, stack, curr, pass)
    /\ obj \subseteq CObjects /\ NoStructs
    /\ WarnedLocal /\ Halts

IInv ==
    /\ Given /\ TypeNow /\ StackOK /\ Tracked
    /\ UnsizedOK(stack, curr, array_len, pass)
    /\ Behaved

\* What a step leaves alone keeps its meaning.
LEMMA Kept ==
    ASSUME Unchanging
    PROVE  /\ Given => Given'
           /\ Frames' = Frames
           /\ DOMAIN init' = DOMAIN init /\ declared' = declared /\ objects' = objects
           /\ Scalars(declared)' = Scalars(declared)
           /\ \A p : /\ IsList(p)' <=> IsList(p)
                     /\ Size(p)' = Size(p)
                     /\ is_all_constant(p)' <=> is_all_constant(p)
                     /\ EmptyScalar(p)' <=> EmptyScalar(p)
                     /\ StructValue(p)' <=> StructValue(p)
                     /\ TooManyBraces(p)' <=> TooManyBraces(p)
           /\ ExcessLists' = ExcessLists /\ CObjects' = CObjects
  BY DEF Unchanging, Given, Frames, IsList, Size, is_all_constant, EmptyScalar, StructValue,
         TooManyBraces, ExcessLists, CObjects

LEMMA KeptStack ==
    ASSUME Unchanging, CursorsOK(curr'), StackIs(stack', curr', type')
    PROVE  StackOK'
  BY Kept DEF Unchanging, StackOK, CursorsOK, StackIs, FrameOK, Entered

LEMMA KeptTrack ==
    ASSUME Unchanging, TrackedIs(stack', curr', pass')
    PROVE  Tracked'
  BY Kept DEF Unchanging, Tracked, TrackedIs, Track, Left, Behind, Rest

LEMMA KeptUnsized ==
    ASSUME Unchanging, UnsizedOK(stack', curr', array_len', pass')
    PROVE  UnsizedOK(stack, curr, array_len, pass)'
  BY Kept DEF Unchanging, UnsizedOK, Counted, Size

LEMMA KeptSettled ==
    ASSUME Unchanging, Settled(obj', warned', stack', curr', pass')
    PROVE  Settled(obj, warned, stack, curr, pass)'
  BY Kept DEF Unchanging, Settled, Stored, Past, PastLocal, Consumed, Takes, ConstantWarned

\* A step within a walk that leaves the type alone.
LEMMA StepKeeps ==
    ASSUME IInv, Unchanging, pass' = pass, type' = type,
           array_len' = array_len,
           CursorsOK(curr'), StackIs(stack', curr', type'), TrackedIs(stack', curr', pass'),
           UnsizedOK(stack', curr', array_len', pass')
    PROVE  /\ Given /\ TypeNow /\ StackOK /\ Tracked
           /\ UnsizedOK(stack, curr, array_len, pass)
           /\ Halts /\ Given' /\ TypeNow' /\ StackOK' /\ Tracked' /\ Halts'
           /\ UnsizedOK(stack, curr, array_len, pass)'
  <1>1. /\ Given /\ TypeNow /\ StackOK /\ Tracked /\ Halts
        /\ UnsizedOK(stack, curr, array_len, pass)
    BY DEF IInv, Behaved
  <1>2. Given'  BY <1>1, Kept
  <1>3. TypeNow'
    <2>1. \A n : Counted(n)' <=> Counted(n)  BY Kept DEF Counted
    <2> QED  BY <1>1, <2>1 DEF TypeNow, Unchanging
  <1>4. Halts'  BY <1>1, Kept DEF Halts, Unchanging
  <1> QED  BY <1>1, <1>2, <1>3, <1>4, KeptStack, KeptTrack, KeptUnsized

LEMMA PassOverKeeps == ASSUME IInv, PassOver  PROVE IInv'
  <1>1. /\ Visits
        /\ ~HasItem \/ Returns
        /\ stack' = NextComponent /\ Unchanging /\ type' = type /\ pass' = pass /\ curr' = curr
        /\ array_len' = array_len /\ obj' = obj /\ warned' = warned
    BY DEF PassOver
  <1>2. /\ Given /\ TypeNow /\ StackOK /\ Tracked /\ UnsizedOK(stack, curr, array_len, pass)
        /\ Behaved
    BY DEF IInv
  <1>3. CursorsOK(curr') /\ StackIs(stack', curr', type') /\ TrackedIs(stack', curr', pass')
    BY <1>1, <1>2, PassOverStack DEF StackOK
  <1>4. UnsizedOK(stack', curr', array_len', pass')  BY <1>1, <1>2, PassOverUnsized
  <1>5. stack \in Seq(Frames) /\ stack # <<>> /\ pass # "halted"
    BY <1>1, <1>2 DEF Visits, Running, StackOK, StackIs
  <1>6. Settled(obj', warned', stack', curr', pass')
    <2>1. \A p \in DOMAIN init : Consumed(p, NextComponent, curr) <=> Consumed(p, stack, curr)
      BY <1>5, ConsumedPassOver
    <2>2. Settled(obj, warned, stack, curr, pass)  BY <1>2, <1>5 DEF Behaved
    <2>3. Settled(obj, warned, NextComponent, curr, pass)  BY <1>2, <2>1, <2>2, SettledWithin
    <2> QED  BY <1>1, <2>3
  <1>7. Behaved'
    <2>1. WarnedLocal'  BY <1>1, <1>2, Kept DEF Behaved, WarnedLocal
    <2>2. obj' \subseteq CObjects' /\ NoStructs'
      BY <1>1, <1>2, Kept DEF Behaved, NoStructs, Unchanging
    <2> QED  BY <1>1, <1>3, <1>4, <1>6, <2>1, <2>2, KeptSettled, StepKeeps DEF Behaved
  <1> QED  BY <1>1, <1>3, <1>4, <1>7, StepKeeps DEF IInv

LEMMA EnterSharedKeeps == ASSUME IInv, EnterShared  PROVE IInv'
  <1> DEFINE g == Frame(elem, top.list, FALSE)
             s == Append(NextComponent, g)
  <1>1. /\ Visits /\ HasItem /\ ~Returns /\ type[elem].kind # "scalar" /\ ~IsList(item)
        /\ stack' = s /\ Unchanging /\ type' = type /\ pass' = pass /\ curr' = curr
        /\ array_len' = array_len /\ obj' = obj /\ warned' = warned
    BY DEF EnterShared, Enter
  <1>2. /\ Given /\ TypeNow /\ StackOK /\ Tracked /\ UnsizedOK(stack, curr, array_len, pass)
        /\ Behaved
    BY DEF IInv
  <1>3. CursorsOK(curr') /\ StackIs(stack', curr', type') /\ TrackedIs(stack', curr', pass')
    BY <1>1, <1>2, EnterSharedStack DEF StackOK
  <1>4. g \in Frames /\ g.list = top.list
    <2>1. top.list \in DOMAIN init /\ elem \in DOMAIN declared
      BY <1>1, <1>2, TopIs, ElemIs DEF Visits
    <2> QED  BY <2>1 DEF Frame, Frames
  <1> HIDE DEF g
  <1>5. UnsizedOK(stack', curr', array_len', pass')
    BY <1>1, <1>2, <1>4, EnterUnsized
  <1>6. stack \in Seq(Frames) /\ stack # <<>> /\ pass # "halted"
    BY <1>1, <1>2 DEF Visits, Running, StackOK, StackIs
  <1>7. Settled(obj', warned', stack', curr', pass')
    <2>1. \A p \in DOMAIN init : Consumed(p, s, curr) <=> Consumed(p, stack, curr)
      BY <1>4, <1>6, ConsumedEnterShared
    <2>2. Settled(obj, warned, stack, curr, pass)  BY <1>2, <1>6 DEF Behaved
    <2> HIDE DEF s
    <2>3. Settled(obj, warned, s, curr, pass)  BY <1>2, <2>1, <2>2, SettledWithin
    <2> QED  BY <1>1, <2>3
  <1>8. Behaved'
    <2>1. WarnedLocal'  BY <1>1, <1>2, Kept DEF Behaved, WarnedLocal
    <2>2. obj' \subseteq CObjects' /\ NoStructs'
      BY <1>1, <1>2, Kept DEF Behaved, NoStructs, Unchanging
    <2> QED  BY <1>1, <1>3, <1>5, <1>7, <2>1, <2>2, KeptSettled, StepKeeps DEF Behaved
  <1> QED  BY <1>1, <1>3, <1>5, <1>8, StepKeeps DEF IInv

LEMMA EnterBracedKeeps == ASSUME IInv, EnterBraced  PROVE IInv'
  <1> DEFINE g == Frame(elem, item, TRUE)
             s == Append(NextComponent, g)
  <1>1. /\ Visits /\ HasItem /\ ~Returns /\ type[elem].kind # "scalar" /\ IsList(item)
        /\ stack' = s /\ Unchanging /\ type' = type /\ pass' = pass /\ curr' = ItemCursors
        /\ array_len' = array_len /\ obj' = obj /\ warned' = warned
    BY DEF EnterBraced, Enter, ItemCursors
  <1>2. /\ Given /\ TypeNow /\ StackOK /\ Tracked /\ UnsizedOK(stack, curr, array_len, pass)
        /\ Behaved
    BY DEF IInv
  <1>3. CursorsOK(curr') /\ StackIs(stack', curr', type') /\ TrackedIs(stack', curr', pass')
    BY <1>1, <1>2, EnterBracedStack
  <1>4. g \in Frames /\ g.list = item /\ g.i = 1
    <2>1. item \in DOMAIN init /\ elem \in DOMAIN declared
      BY <1>1, <1>2, ItemObject, ElemIs DEF Visits
    <2> QED  BY <2>1 DEF Frame, Frames
  <1> HIDE DEF g
  <1>5. UnsizedOK(stack', curr', array_len', pass')
    BY <1>1, <1>2, <1>4, EnterUnsized
  <1>6. pass # "halted"
    BY <1>1, <1>2 DEF Visits, Running
  <1>7. Settled(obj', warned', stack', curr', pass')
    <2>1. \A p \in DOMAIN init : Consumed(p, s, ItemCursors) <=> Consumed(p, stack, curr)
      BY <1>1, <1>2, <1>4, ConsumedEnterBraced
    <2>2. Settled(obj, warned, stack, curr, pass)  BY <1>2, <1>6 DEF Behaved
    <2> HIDE DEF s
    <2>3. Settled(obj, warned, s, ItemCursors, pass)  BY <1>2, <2>1, <2>2, SettledWithin
    <2> QED  BY <1>1, <2>3
  <1>8. Behaved'
    <2>1. WarnedLocal'  BY <1>1, <1>2, Kept DEF Behaved, WarnedLocal
    <2>2. obj' \subseteq CObjects' /\ NoStructs'
      BY <1>1, <1>2, Kept DEF Behaved, NoStructs, Unchanging
    <2> QED  BY <1>1, <1>3, <1>5, <1>7, <2>1, <2>2, KeptSettled, StepKeeps DEF Behaved
  <1> QED  BY <1>1, <1>3, <1>5, <1>8, StepKeeps DEF IInv

\* A scalar's item whose braces are empty, or a struct value for a scalar.
LEMMA ObjectHalts ==
    ASSUME IInv, InitializeObject, Unbraced(item) = NoItem \/ NoCast(Unbraced(item))
    PROVE  IInv'
  <1>1. /\ Visits /\ HasItem /\ ~Returns /\ type[elem].kind = "scalar"
        /\ stack' = stack /\ Unchanging /\ type' = type /\ pass' = "halted" /\ curr' = curr
        /\ array_len' = array_len /\ obj' = obj /\ warned' = warned
    BY DEF InitializeObject, InitializeScalar
  <1>2. /\ Given /\ TypeNow /\ StackOK /\ Tracked /\ Behaved
    BY DEF IInv
  <1>3. \E p \in DOMAIN init : EmptyScalar(p) \/ StructValue(p)
    <2>1. PICK u \in DOMAIN init :
              /\ u # <<>> /\ Size(u) = 0 /\ objects[u] = elem
              /\ Unbraced(item) = IF IsList(u) THEN NoItem ELSE u
      BY <1>1, <1>2, ScalarItem
    <2>2. elem \in Scalars(declared) /\ elem # End
      BY <1>1, <1>2, ObjectStack, DeclaredIs
    <2>3. CASE IsList(u)  BY <2>1, <2>2, <2>3 DEF EmptyScalar
    <2>4. CASE ~IsList(u)
      <3>1. Unbraced(item) = u /\ Unbraced(item) # NoItem  BY <2>1, <2>4 DEF NoItem
      <3>2. init[u].kind = "aggregate"  BY <3>1 DEF NoCast
      <3> QED  BY <2>1, <2>2, <3>2 DEF StructValue
    <2> QED  BY <2>3, <2>4
  <1>4. Given'  BY <1>1, <1>2, Kept
  <1>5. TypeNow'
    <2>1. \A n : Counted(n)' <=> Counted(n)  BY <1>1, Kept DEF Counted
    <2> QED  BY <1>1, <1>2, <2>1 DEF TypeNow, Unchanging
  <1>6. StackOK'  BY <1>1, <1>2, KeptStack DEF StackOK
  <1>7. Tracked'  BY <1>1 DEF Tracked, TrackedIs
  <1>8. UnsizedOK(stack, curr, array_len, pass)'  BY <1>1 DEF UnsizedOK
  <1>9. Behaved'
    <2>1. WarnedLocal'  BY <1>1, <1>2, Kept DEF Behaved, WarnedLocal
    <2>2. obj' \subseteq CObjects' /\ NoStructs'
      BY <1>1, <1>2, Kept DEF Behaved, NoStructs, Unchanging
    <2>3. Halts'  BY <1>1, <1>3, Kept DEF Halts, Unchanging
    <2> QED  BY <1>1, <2>1, <2>2, <2>3 DEF Behaved
  <1> QED  BY <1>4, <1>5, <1>6, <1>7, <1>8, <1>9 DEF IInv

LEMMA ObjectKeeps == ASSUME IInv, InitializeObject  PROVE IInv'
  <1>1. CASE Unbraced(item) = NoItem \/ NoCast(Unbraced(item))  BY <1>1, ObjectHalts
  <1>2. CASE Unbraced(item) # NoItem /\ ~NoCast(Unbraced(item))
    <2>1. /\ Visits /\ HasItem /\ ~Returns /\ type[elem].kind = "scalar"
          /\ stack' = NextComponent /\ Unchanging /\ type' = type /\ pass' = pass
          /\ curr' = NextCursors
          /\ array_len' = array_len /\ obj' = NextObj(Unbraced(item)) /\ warned' = NextWarned
      BY <1>2 DEF InitializeObject, InitializeScalar, NextCursors, NextObj, NextWarned
    <2>2. /\ Given /\ TypeNow /\ StackOK /\ Tracked /\ UnsizedOK(stack, curr, array_len, pass)
          /\ Behaved /\ pass # "halted"
      BY <2>1 DEF IInv, Visits, Running
    <2>3. CursorsOK(curr') /\ StackIs(stack', curr', type') /\ TrackedIs(stack', curr', pass')
      BY <2>1, <2>2, ObjectStack
    <2>4. UnsizedOK(stack', curr', array_len', pass')  BY <2>1, <2>2, ObjectUnsized
    <2>5. Settled(obj', warned', stack', curr', pass')
      <3>1. Settled(obj, warned, stack, curr, pass)  BY <2>2 DEF Behaved
      <3> QED  BY <1>2, <2>1, <2>2, <3>1, ObjectSettled
    <2>6. Given' /\ Settled(obj, warned, stack, curr, pass)'
      BY <2>1, <2>3, <2>4, <2>5, StepKeeps, KeptSettled
    <2>7. obj' \subseteq CObjects'
      <3> DEFINE value == Unbraced(item)
      <3>1. PICK u \in DOMAIN init :
               /\ objects[u] = elem
               /\ Unbraced(item) = IF IsList(u) THEN NoItem ELSE u
        BY <2>1, <2>2, ScalarItem
      <3>2. value = u /\ ~IsList(u)  BY <1>2, <3>1
      <3>3. elem # End  BY <2>1, <2>2, ObjectStack, DeclaredIs
      <3>4. <<elem, value>> \in CObjects  BY <3>1, <3>2, <3>3 DEF CObjects
      <3>5. obj \subseteq CObjects  BY <2>2 DEF Behaved
      <3>6. NextObj(value) \subseteq CObjects  BY <3>4, <3>5 DEF NextObj
      <3> QED  BY <2>1, <3>6, Kept
    <2>10. NoStructs'
      <3> DEFINE value == Unbraced(item)
                 y == <<elem, value>>
      <3>1. y[2] = value  OBVIOUS
      <3>2. Written(value) => init[value].kind # "aggregate"  BY <1>2 DEF NoCast
      <3> HIDE DEF y, value
      <3>3. \A o \in NextObj(value) : o \in obj \/ (Written(value) /\ o = y)
        BY DEF NextObj, y
      <3>4. NoStructs  BY <2>2 DEF Behaved
      <3>5. \A o \in NextObj(value) : init[o[2]].kind # "aggregate"
        BY <3>1, <3>2, <3>3, <3>4 DEF NoStructs
      <3>6. obj' = NextObj(value) /\ init' = init  BY <2>1 DEF value, Unchanging
      <3> QED  BY <3>5, <3>6 DEF NoStructs
    <2>8. WarnedLocal'
      <3>1. IsList(item) /\ Size(item) > 1 => item \in ExcessLists
        BY <2>1, <2>2, ScalarItem
      <3>2. WarnedLocal  BY <2>2 DEF Behaved
      <3>3. \A w \in NextWarned : w[1] = "local" => w[2] \in ExcessLists \/ is_all_constant(w[2])
        <4> DEFINE y == <<pass, item>>
        <4>1. y[2] = item  OBVIOUS
        <4>2. \A x \in NextWarned : x \in warned \/ (IsList(item) /\ Size(item) > 1 /\ x = y)
          BY DEF NextWarned
        <4> HIDE DEF y
        <4> QED  BY <3>1, <3>2, <4>1, <4>2 DEF WarnedLocal
      <3> QED  BY <2>1, <3>3, Kept DEF WarnedLocal
    <2>9. Behaved'
      BY <2>1, <2>3, <2>4, <2>6, <2>7, <2>8, <2>10, StepKeeps DEF Behaved
    <2> QED  BY <2>1, <2>3, <2>4, <2>9, StepKeeps DEF IInv
  <1> QED  BY <1>1, <1>2

\* The end of an aggregate, with the cursors and warnings that follow.
LEMMA LeaveKeeps ==
    ASSUME IInv, Running, ~More, Unchanging, type' = type, pass' = pass, obj' = obj,
           stack' = Front(stack), array_len' = LengthNow,
           \/ top.braced /\ curr' = ReturnCursors /\ warned' = ReturnWarned
           \/ ~top.braced /\ curr' = curr /\ warned' = warned
    PROVE  IInv'
  <1>1. /\ Given /\ TypeNow /\ StackOK /\ Tracked /\ UnsizedOK(stack, curr, array_len, pass)
        /\ Behaved /\ pass # "halted" /\ Settled(obj, warned, stack, curr, pass)
    BY DEF IInv, Behaved, Running
  <1>2. CursorsOK(curr') /\ StackIs(stack', curr', type') /\ TrackedIs(stack', curr', pass')
    <2>1. CASE top.braced /\ curr' = ReturnCursors  BY <1>1, <2>1, ReturnBracedStack
    <2>2. CASE ~top.braced /\ curr' = curr  BY <1>1, <2>2, ReturnSharedStack DEF StackOK
    <2> QED  BY <2>1, <2>2
  <1>3. UnsizedOK(stack', curr', array_len', pass')  BY <1>1, ReturnUnsized
  <1>4. Settled(obj', warned', stack', curr', pass')
    <2>1. CASE top.braced /\ curr' = ReturnCursors /\ warned' = ReturnWarned
      BY <1>1, <2>1, ReturnBracedSettled
    <2>2. CASE ~top.braced /\ curr' = curr /\ warned' = warned
      BY <1>1, <2>2, ReturnSharedSettled
    <2> QED  BY <2>1, <2>2
  <1>5. Given'  BY <1>1, Kept
  <1>6. StackOK' /\ Tracked' /\ UnsizedOK(stack, curr, array_len, pass)'
        /\ Settled(obj, warned, stack, curr, pass)'
    BY <1>2, <1>3, <1>4, KeptStack, KeptTrack, KeptUnsized, KeptSettled
  <1>7. TypeNow'
    <2>1. \A n : Counted(n)' <=> Counted(n)  BY Kept DEF Counted
    <2>2. LengthNow \in Nat /\ (LengthNow = array_len \/ type = declared)  BY <1>1, LengthNowIs
    <2>3. CASE LengthNow = array_len  BY <1>1, <2>1, <2>2, <2>3 DEF TypeNow, Unchanging
    <2>4. CASE type = declared  BY <1>1, <2>1, <2>2, <2>4 DEF TypeNow, Unchanging
    <2> QED  BY <2>2, <2>3, <2>4
  <1>8. WarnedLocal'
    <2>1. WarnedLocal  BY <1>1 DEF Behaved
    <2>2. CASE ~top.braced /\ warned' = warned  BY <2>1, <2>2, Kept DEF WarnedLocal
    <2>3. CASE top.braced /\ warned' = ReturnWarned
      <3>1. pass = "local" /\ Size(top.list) > curr[top.list]
                => top.list \in ExcessLists \/ is_all_constant(top.list)
        <4>1. CASE Returns  BY <4>1 DEF Returns
        <4>2. CASE ~Returns  BY <1>1, <2>3, <4>2, ReturnExcess
        <4> QED  BY <4>1, <4>2
      <3> DEFINE y == <<pass, top.list>>
      <3>2. y[1] = pass /\ y[2] = top.list  OBVIOUS
      <3>3. \A x \in ReturnWarned : x \in warned \/ (Size(top.list) > curr[top.list] /\ x = y)
        BY DEF ReturnWarned
      <3> HIDE DEF y
      <3>4. \A w \in ReturnWarned : w[1] = "local" => w[2] \in ExcessLists \/ is_all_constant(w[2])
        BY <2>1, <3>1, <3>2, <3>3 DEF WarnedLocal
      <3> QED  BY <2>3, <3>4, Kept DEF WarnedLocal
    <2> QED  BY <2>2, <2>3
  <1>9. Behaved'
    <2>1. obj' \subseteq CObjects' /\ NoStructs'
      BY <1>1, Kept DEF Behaved, NoStructs, Unchanging
    <2>2. Halts'  BY <1>1, Kept DEF Behaved, Halts, Unchanging
    <2> QED  BY <1>6, <1>8, <2>1, <2>2 DEF Behaved
  <1> QED  BY <1>5, <1>6, <1>7, <1>9 DEF IInv

LEMMA ReturnKeeps == ASSUME IInv, Return  PROVE IInv'
  <1>1. /\ Running /\ ~More /\ Unchanging /\ type' = type /\ pass' = pass /\ obj' = obj
        /\ stack' = Front(stack) /\ array_len' = LengthNow
        /\ \/ top.braced /\ curr' = ReturnCursors /\ warned' = ReturnWarned
           \/ ~top.braced /\ curr' = curr /\ warned' = warned
    BY DEF Return, Leave, LengthNow, ReturnCursors, ReturnWarned
  <1> QED  BY <1>1, LeaveKeeps

LEMMA BeginKeeps == ASSUME IInv, Begin  PROVE IInv'
  <1>1. /\ pass = "begin" /\ Unchanging /\ type' = type /\ array_len' = array_len
        /\ obj' = obj /\ warned' = warned
    BY DEF Begin
  <1>2. /\ Given /\ TypeNow /\ StackOK /\ Tracked /\ UnsizedOK(stack, curr, array_len, pass)
        /\ Behaved /\ Settled(obj, warned, stack, curr, pass)
    BY <1>1 DEF IInv, Behaved
  <1>3. Given'  BY <1>1, <1>2, Kept
  <1>4. pass' \in {"constant", "halted"}  BY DEF Begin
  <1>5. TypeNow'
    <2>1. \A n : Counted(n)' <=> Counted(n)  BY <1>1, Kept DEF Counted
    <2> QED  BY <1>1, <1>2, <1>4, <2>1 DEF TypeNow, Unchanging
  <1>6. WarnedLocal' /\ obj' \subseteq CObjects' /\ NoStructs'
    BY <1>1, <1>2, Kept DEF Behaved, WarnedLocal, NoStructs, Unchanging
  <1>7. CASE static /\ ~is_all_constant(<<>>)
    <2>1. pass' = "halted" /\ stack' = stack /\ curr' = curr  BY <1>7 DEF Begin
    <2>2. StackOK'  BY <1>1, <1>2, <2>1, KeptStack DEF StackOK
    <2>3. Tracked' /\ UnsizedOK(stack, curr, array_len, pass)'
      BY <2>1 DEF Tracked, TrackedIs, UnsizedOK
    <2>4. Halts'
      <3>1. \E p \in DOMAIN init : init[p].kind \in NotConstant  BY <1>7 DEF is_all_constant
      <3> QED  BY <1>1, <1>7, <2>1, <3>1 DEF Halts, Unchanging
    <2> QED  BY <1>3, <1>5, <1>6, <2>1, <2>2, <2>3, <2>4 DEF IInv, Behaved
  <1>8. CASE ~(static /\ ~is_all_constant(<<>>))
    <2>1. pass' = "constant" /\ stack' = Root /\ curr' = Cursors  BY <1>8 DEF Begin
    <2>2. Parts(type[<<>>]) \in Nat  BY <1>2, TypeIs, DeclaredIs
    <2>3. StackOK' /\ Tracked'
      BY <1>1, <1>2, <2>1, <2>2, RootStack, KeptStack, KeptTrack
    <2>4. UnsizedOK(stack', curr', array_len', pass')
      <3>1. Len(Root) = 1 /\ Root[1].i = 1 /\ Root # <<>>  BY DEF Root, Frame
      <3> QED  BY <2>1, <3>1 DEF UnsizedOK
    <2>5. Settled(obj', warned', stack', curr', pass')
      BY <1>1, <1>2, <2>1, BeginSettled
    <2>6. Halts'
      BY <1>1, <1>8, <2>1, Kept DEF Halts, Unchanging
    <2> QED  BY <1>1, <1>3, <1>5, <1>6, <2>1, <2>3, <2>4, <2>5, <2>6, KeptUnsized, KeptSettled
             DEF IInv, Behaved
  <1> QED  BY <1>7, <1>8

LEMMA EndPassKeeps == ASSUME IInv, EndPass  PROVE IInv'
  <1>1. /\ pass \in {"constant", "local"} /\ stack = <<>> /\ Unchanging /\ array_len' = array_len
        /\ obj' = obj /\ warned' = warned
        /\ type' = IF type[<<1>>].len = Unsized THEN [type EXCEPT ![<<1>>].len = array_len]
                   ELSE type
    BY DEF EndPass
  <1>2. /\ Given /\ TypeNow /\ StackOK /\ Tracked /\ UnsizedOK(stack, curr, array_len, pass)
        /\ Behaved /\ Settled(obj, warned, stack, curr, pass)
    BY <1>1 DEF IInv, Behaved
  <1>3. Given'  BY <1>1, <1>2, Kept
  <1>4. pass' \in {"local", "done"}  BY DEF EndPass
  <1>5. /\ <<1>> \in DOMAIN declared /\ DOMAIN declared = DOMAIN type
        /\ declared \in [DOMAIN declared -> [kind : {"scalar", "array", "struct", "union"},
                                             len : Nat \cup {Unsized}]]
    BY <1>2, DeclaredIs, TypeTree, TypeIs DEF Given
  <1>6. TypeNow' /\ Parts(type'[<<>>]) \in Nat
    <2>1. \A n : Counted(n)' <=> Counted(n)  BY <1>1, Kept DEF Counted
    <2>2. <<>> # <<1>> /\ Parts(type[<<>>]) \in Nat  BY <1>2, TypeIs, DeclaredIs
    <2>3. CASE type[<<1>>].len = Unsized
      <3>1. pass = "constant"  BY <1>1, <1>2, <2>3 DEF TypeNow
      <3>2. type = declared  BY <1>2, <3>1 DEF TypeNow
      <3>3. Counted(array_len)  BY <1>1, <1>2, <2>3, <3>1, <3>2 DEF UnsizedOK
      <3>4. type' = [declared EXCEPT ![<<1>>].len = array_len]  BY <1>1, <2>3, <3>2
      <3>5. type'[<<1>>].len = array_len /\ type'[<<>>] = type[<<>>]
        <4>1. type'[<<1>>] = [declared[<<1>>] EXCEPT !.len = array_len]  BY <1>5, <3>4
        <4>2. declared[<<1>>] \in [kind : {"scalar", "array", "struct", "union"},
                                   len : Nat \cup {Unsized}]
          BY <1>5
        <4>3. type'[<<1>>].len = array_len  BY <4>1, <4>2
        <4>4. <<>> \in DOMAIN declared  BY <1>2, DeclaredIs
        <4>5. type'[<<>>] = declared[<<>>]  BY <1>5, <2>2, <3>4, <4>4
        <4> QED  BY <3>2, <4>3, <4>5
      <3>6. array_len \in Nat /\ array_len # Unsized  BY <1>2, BoundAssumption DEF TypeNow
      <3>7. declared[<<1>>].len = Unsized  BY <2>3, <3>2
      <3> QED  BY <1>1, <1>4, <2>1, <2>2, <3>3, <3>4, <3>5, <3>6, <3>7 DEF TypeNow, Unchanging
    <2>4. CASE type[<<1>>].len # Unsized
      <3>1. type' = type  BY <1>1, <2>4
      <3> QED  BY <1>1, <1>2, <1>4, <2>1, <2>2, <2>4, <3>1 DEF TypeNow, Unchanging
    <2> QED  BY <2>3, <2>4
  <1>7. WarnedLocal' /\ obj' \subseteq CObjects' /\ NoStructs'
    BY <1>1, <1>2, Kept DEF Behaved, WarnedLocal, NoStructs, Unchanging
  <1>8. UnsizedOK(stack, curr, array_len, pass)'  BY <1>4 DEF UnsizedOK
  <1>9. CASE pass = "constant" /\ ~static
    <2>1. pass' = "local" /\ stack' = Root /\ curr' = Cursors  BY <1>9 DEF EndPass
    <2>2. StackOK' /\ Tracked'
      BY <1>1, <1>2, <1>6, <2>1, RootStack, KeptStack, KeptTrack
    <2>3. Settled(obj', warned', stack', curr', pass')
      BY <1>1, <1>2, <1>9, <2>1, LocalSettled
    <2>4. Halts'  BY <1>1, <1>9, <2>1 DEF Halts, Unchanging
    <2> QED  BY <1>1, <1>3, <1>6, <1>7, <1>8, <2>1, <2>2, <2>3, <2>4, KeptSettled DEF IInv, Behaved
  <1>10. CASE ~(pass = "constant" /\ ~static)
    <2>1. pass' = "done" /\ stack' = stack /\ curr' = curr  BY <1>10 DEF EndPass
    <2>2. StackIs(stack', curr', type') /\ CursorsOK(curr')
      <3>1. stack' = <<>> /\ Len(<<>>) = 0 /\ 1 .. 0 = {} /\ 1 .. 0 - 1 = {}  BY <1>1, <2>1
      <3>2. <<>> \in Seq(Frames)  OBVIOUS
      <3>3. CursorsOK(curr')  BY <1>2, <2>1 DEF StackOK
      <3> QED  BY <3>1, <3>2, <3>3 DEF StackIs
    <2>3. StackOK' /\ Tracked'
      BY <1>1, <2>1, <2>2, KeptStack DEF Tracked, TrackedIs
    <2>4. pass = "local" \/ (pass = "constant" /\ is_all_constant(<<>>))
      BY <1>1, <1>2, <1>10 DEF Behaved, Halts
    <2>5. Settled(obj', warned', stack', curr', pass')
      BY <1>1, <1>2, <2>1, <2>4, DoneSettled
    <2>6. Halts'  BY <1>1, <1>2, <2>1, Kept DEF Behaved, Halts, Unchanging
    <2> QED  BY <1>1, <1>3, <1>6, <1>7, <1>8, <2>1, <2>3, <2>5, <2>6, KeptSettled DEF IInv, Behaved
  <1> QED  BY <1>9, <1>10

LEMMA InitIInv == Init => IInv
  <1> SUFFICES ASSUME Init  PROVE IInv  OBVIOUS
  <1>1. Given /\ pass = "begin" /\ stack = <<>> /\ curr = <<>> /\ array_len = 0
        /\ obj = {} /\ warned = {} /\ type = declared
    BY DEF Init, Given
  <1>2. TypeNow  BY <1>1 DEF TypeNow
  <1>3. StackOK
    <2>1. Len(<<>>) = 0 /\ 1 .. 0 = {} /\ 1 .. 0 - 1 = {} /\ DOMAIN <<>> = {}  OBVIOUS
    <2>2. <<>> \in Seq(Frames)  OBVIOUS
    <2> QED  BY <1>1, <2>1, <2>2 DEF StackOK, StackIs, CursorsOK
  <1>4. Tracked /\ UnsizedOK(stack, curr, array_len, pass)
    BY <1>1 DEF Tracked, TrackedIs, UnsizedOK
  <1>5. Settled(obj, warned, stack, curr, pass)
    <2>1. \A p : ~Past(p, stack, curr, pass) /\ ~PastLocal(p, stack, curr, pass)
      BY <1>1 DEF Past, PastLocal
    <2>2. \A p : ~Stored(p, stack, curr, pass)  BY <2>1 DEF Stored
    <2> QED  BY <1>1, <2>1, <2>2, SettledIs
  <1>6. Halts /\ WarnedLocal /\ NoStructs  BY <1>1 DEF Halts, WarnedLocal, NoStructs
  <1> QED  BY <1>1, <1>2, <1>3, <1>4, <1>5, <1>6 DEF IInv, Behaved

LEMMA StutterIInv == ASSUME IInv, UNCHANGED vars  PROVE IInv'
  <1>1. /\ Unchanging /\ type' = type /\ pass' = pass /\ stack' = stack /\ curr' = curr
        /\ array_len' = array_len /\ obj' = obj /\ warned' = warned
    BY DEF vars, Unchanging
  <1>2. /\ Given /\ TypeNow /\ StackOK /\ Tracked /\ UnsizedOK(stack, curr, array_len, pass)
        /\ Behaved
    BY DEF IInv
  <1>3. CursorsOK(curr') /\ StackIs(stack', curr', type') /\ TrackedIs(stack', curr', pass')
        /\ UnsizedOK(stack', curr', array_len', pass')
    BY <1>1, <1>2 DEF StackOK, Tracked
  <1>4. pass' # "halted" => Settled(obj', warned', stack', curr', pass')
    BY <1>1, <1>2 DEF Behaved
  <1>5. WarnedLocal' /\ obj' \subseteq CObjects' /\ NoStructs'
    BY <1>1, <1>2, Kept DEF Behaved, WarnedLocal, NoStructs, Unchanging
  <1> QED  BY <1>1, <1>3, <1>4, <1>5, StepKeeps, KeptSettled DEF IInv, Behaved

(***************************************************************************)
(* The frames, the cursors and C's objects agree in every state of both    *)
(* walks, in the way they do for the aggregates without braces: what is    *)
(* left of a list's object behind its items is what its innermost frame    *)
(* has still to fill.                                                      *)
(***************************************************************************)
THEOREM Invariance == Spec => []IInv
  <1>1. Init => IInv  BY InitIInv
  <1>2. IInv /\ [Next]_vars => IInv'
    <2> SUFFICES ASSUME IInv, [Next]_vars  PROVE IInv'  OBVIOUS
    <2>1. CASE Begin  BY <2>1, BeginKeeps
    <2>2. CASE PassOver  BY <2>2, PassOverKeeps
    <2>3. CASE EnterBraced  BY <2>3, EnterBracedKeeps
    <2>4. CASE EnterShared  BY <2>4, EnterSharedKeeps
    <2>5. CASE InitializeObject  BY <2>5, ObjectKeeps
    <2>6. CASE Return  BY <2>6, ReturnKeeps
    <2>7. CASE EndPass  BY <2>7, EndPassKeeps
    <2>8. CASE UNCHANGED vars  BY <2>8, StutterIInv
    <2> QED  BY <2>1, <2>2, <2>3, <2>4, <2>5, <2>6, <2>7, <2>8 DEF Next
  <1> QED  BY <1>1, <1>2, PTL DEF Spec

-----------------------------------------------------------------------------
(* What the walks come to.                                                 *)

(***************************************************************************)
(* No cursor of make_constant_object or make_local_object leaves its list, *)
(* no frame its aggregate, and only scalars hold values.                   *)
(***************************************************************************)
THEOREM TypeCorrect == Spec => []TypeOK
  <1>1. IInv => TypeOK
    <2> SUFFICES ASSUME IInv  PROVE TypeOK  OBVIOUS
    <2>1. /\ Given /\ TypeNow /\ StackOK /\ obj \subseteq CObjects
      BY DEF IInv, Behaved
    <2>2. pass \in {"begin", "constant", "local", "done", "halted"}  BY <2>1 DEF TypeNow
    <2>3. stack \in Seq(Frames) /\ DOMAIN stack = 1 .. Len(stack) /\ Len(stack) \in Nat
      BY <2>1 DEF StackOK, StackIs
    <2>4. ASSUME NEW k \in DOMAIN stack
          PROVE  /\ stack[k].i \in 1 .. Parts(type[stack[k].at]) + 1
                 /\ stack[k].list \in DOMAIN curr
                 /\ k > 1 => stack[k].at = Append(stack[k - 1].at, stack[k - 1].i - 1)
      <3>1. k \in 1 .. Len(stack) /\ stack[k] \in Frames  BY <2>3
      <3>2. FrameOK(stack[k], curr, type)  BY <2>1, <3>1 DEF StackOK, StackIs
      <3>3. stack[k].i \in Nat \ {0} /\ stack[k].at \in DOMAIN declared
        BY <2>1, <3>1, FramesIs
      <3>4. Parts(type[stack[k].at]) \in Nat  BY <2>1, <3>3, TypeIs, DeclaredIs
      <3>5. stack[k].i \in 1 .. Parts(type[stack[k].at]) + 1  BY <3>2, <3>3, <3>4 DEF FrameOK
      <3>6. ASSUME k > 1  PROVE stack[k].at = Append(stack[k - 1].at, stack[k - 1].i - 1)
        <4>1. k - 1 \in 1 .. Len(stack) - 1 /\ (k - 1) + 1 = k  BY <2>3, <3>1, <3>6
        <4>2. Entered(stack[k - 1], stack[k], curr)  BY <2>1, <4>1 DEF StackOK, StackIs
        <4> QED  BY <4>2 DEF Entered
      <3> QED  BY <3>2, <3>5, <3>6 DEF FrameOK
    <2>5. \A list \in DOMAIN curr : curr[list] \in 0 .. Size(list)
      BY <2>1 DEF StackOK, CursorsOK
    <2>6. ASSUME NEW o \in obj  PROVE IsScalar(o[1]) /\ ~IsList(o[2])
      <3>1. PICK q \in DOMAIN init : o = <<objects[q], q>> /\ ~IsList(q) /\ objects[q] # End
        BY <2>1 DEF CObjects
      <3>2. objects[q] \in Scalars(declared)  BY <2>1, <3>1, ValueScalar
      <3>3. IsScalar(objects[q])  BY <2>1, <3>2, DeclaredIs
      <3> QED  BY <3>1, <3>3
    <2> QED  BY <2>2, <2>4, <2>5, <2>6 DEF TypeOK
  <1> QED  BY <1>1, Invariance, PTL

(***************************************************************************)
(* After the walks every scalar holds the value that C99 6.7.8 gives it,   *)
(* for every type and every nesting of braces, and none was stored twice.  *)
(***************************************************************************)
THEOREM InitializedObjects == Spec => []ObjectsAreC
  <1>1. IInv => ObjectsAreC
    <2> SUFFICES ASSUME IInv  PROVE ObjectsAreC  OBVIOUS
    <2>1. Given /\ obj \subseteq CObjects  BY DEF IInv, Behaved
    <2>2. ASSUME pass = "done"  PROVE CObjects \subseteq obj
      <3>1. Settled(obj, warned, stack, curr, pass)  BY <2>2 DEF IInv, Behaved
      <3> SUFFICES ASSUME NEW x \in CObjects  PROVE x \in obj  OBVIOUS
      <3>2. PICK q \in DOMAIN init : x = <<objects[q], q>> /\ ~IsList(q) /\ objects[q] # End
        BY DEF CObjects
      <3>3. q # <<>> /\ init[q].kind \in {"constant"} \cup NotConstant
        BY <2>1, <3>2, InitIs, ValueScalar
      <3>4. Past(q, stack, curr, pass) /\ PastLocal(q, stack, curr, pass)
        BY <2>2, <3>3 DEF Past, PastLocal
      <3>5. Stored(q, stack, curr, pass)  BY <3>2, <3>3, <3>4 DEF Stored
      <3> QED  BY <3>1, <3>2, <3>5, SettledIs
    <2>3. ASSUME NEW o \in obj, NEW u \in obj, o[1] = u[1]  PROVE o = u
      <3>1. PICK p \in DOMAIN init : o = <<objects[p], p>> /\ ~IsList(p) /\ objects[p] # End
        BY <2>1 DEF CObjects
      <3>2. PICK q \in DOMAIN init : u = <<objects[q], q>> /\ ~IsList(q) /\ objects[q] # End
        BY <2>1 DEF CObjects
      <3>3. objects[p] = objects[q]  BY <2>3, <3>1, <3>2
      <3>4. p = q  BY <2>1, <3>1, <3>2, <3>3, ObjectInjective
      <3> QED  BY <3>1, <3>2, <3>4
    <2> QED  BY <2>1, <2>2, <2>3 DEF ObjectsAreC
  <1> QED  BY <1>1, Invariance, PTL

(***************************************************************************)
(* The walk gives up on exactly a scalar's empty braces, values in a       *)
(* static variable's initializer, and struct or union values for which a   *)
(* list has a place, whether C allows them there (6.7.8p13) or not.        *)
(***************************************************************************)
THEOREM Refusals == Spec => []RefusedInitializers
  <1>1. IInv => RefusedInitializers
    <2> SUFFICES ASSUME IInv  PROVE RefusedInitializers  OBVIOUS
    <2>1. Given /\ Halts /\ NoStructs  BY DEF IInv, Behaved
    <2>2. ASSUME pass = "done", NEW p \in DOMAIN init  PROVE ~EmptyScalar(p)
      <3>1. Settled(obj, warned, stack, curr, pass)  BY <2>2 DEF IInv, Behaved
      <3>2. CASE p = <<>>
        <4>1. Size(<<>>) # 0  BY <2>1, InitIs
        <4> QED  BY <3>2, <4>1 DEF EmptyScalar
      <3>3. CASE p # <<>>  BY <2>2, <3>1, <3>3, SettledIs DEF Past
      <3> QED  BY <3>2, <3>3
    <2>3. ASSUME pass = "done", static, NEW p \in DOMAIN init
          PROVE  init[p].kind \notin NotConstant
      <3>1. is_all_constant(<<>>)  BY <2>1, <2>3 DEF Halts
      <3>2. p \in Places  BY <2>1, InitIs
      <3>3. <<>> \in Places /\ Len(<<>>) = 0 /\ Len(p) \in Nat /\ 1 .. 0 = {}  BY <3>2 DEF Places
      <3>4. Within(<<>>, p)  BY <3>2, <3>3, WithinIs
      <3> QED  BY <3>1, <3>4 DEF is_all_constant
    <2>4. ASSUME pass = "done", NEW p \in DOMAIN init, StructValue(p)  PROVE FALSE
      <3>1. Settled(obj, warned, stack, curr, pass)  BY <2>4 DEF IInv, Behaved
      <3>2. objects[p] # End /\ init[p].kind = "aggregate"  BY <2>4 DEF StructValue
      <3>3. Stored(p, stack, curr, pass)
        BY <2>4, <3>2 DEF Stored, PastLocal, NotConstant
      <3> DEFINE o == <<objects[p], p>>
      <3>4. o \in obj  BY <2>1, <3>1, <3>3, SettledIs
      <3>5. o[2] = p  OBVIOUS
      <3> HIDE DEF o
      <3> QED  BY <2>1, <3>2, <3>4, <3>5 DEF NoStructs
    <2> QED  BY <2>1, <2>2, <2>3, <2>4 DEF RefusedInitializers, Stopped, Halts
  <1> QED  BY <1>1, Invariance, PTL

\* An object in the variable that is not the variable is in the element that
\* the item of the variable's list has.
LEMMA UsedIs ==
    ASSUME Given, declared[<< 1 >>].len = Unsized, NEW q \in DOMAIN init, Len(objects[q]) > 1
    PROVE  \E k \in 1 .. Size(<<1>>) : /\ objects[<<1, k>>] # End
                                       /\ objects[q][2] = objects[<<1, k>>][2]
  <1>1. /\ q \in Places /\ <<1>> \in Places /\ <<1>> \in DOMAIN init /\ TreeOK(init)
        /\ Size(<<1>>) = Parts(init[<<1>>])
    BY InitIs, DeclaredIs
  <1>2. Len(End) = 1 /\ Len(<<1>>) = 1 /\ Len(<<>>) = 0  BY DEF End
  <1>3. objects[q] # End /\ q # <<>> /\ q # <<1>>
    <2>1. ASSUME objects[q] = End  PROVE FALSE
      <3>1. Len(objects[q]) = 1  BY <1>2, <2>1
      <3> QED  BY <3>1
    <2>2. ASSUME q = <<>>  PROVE FALSE
      <3>1. Len(objects[q]) = 0  BY <1>2, <2>2, RootObject
      <3> QED  BY <3>1
    <2>3. ASSUME q = << 1 >>  PROVE FALSE
      <3>1. Len(objects[q]) = 1  BY <1>2, <2>3, VariableObject
      <3> QED  BY <3>1
    <2> QED  BY <2>1, <2>2, <2>3
  <1>4. Within(<<1>>, q)  BY <1>1, <1>3, TreeRoot
  <1> DEFINE k == q[Len(<<1>>) + 1]
  <1>5. k \in 1 .. Parts(init[<<1>>]) /\ Append(<<1>>, k) \in DOMAIN init
        /\ Within(Append(<<1>>, k), q)
    BY <1>1, <1>3, <1>4, TreePart
  <1>6. k \in 1 .. Size(<<1>>) /\ k \in Nat /\ Append(<<1>>, k) = <<1, k>>
    <2>1. Size(<<1>>) \in Nat  BY <1>1, InitIs
    <2>2. k \in Nat  BY <1>1, <1>5, <2>1
    <2> QED  BY <1>1, <1>5, <2>2, PairPlace
  <1> HIDE DEF k
  <1>7. objects[<<1, k>>] # End /\ Within(objects[<<1, k>>], objects[q])
    BY <1>3, <1>5, <1>6, ObjectDescend
  <1>8. <<1>> \notin Scalars(declared)  BY UnsizedIs
  <1>9. objects[<<1, k>>] \in Places /\ Len(objects[<<1, k>>]) > 1
    BY <1>6, <1>7, <1>8, ElementOf
  <1>10. objects[q] \in Places  BY ObjectIn, DeclaredIs
  <1>11. 2 \in 1 .. Len(objects[<<1, k>>])  BY <1>9 DEF Places
  <1>12. objects[q][2] = objects[<<1, k>>][2]  BY <1>7, <1>9, <1>10, <1>11, WithinIs
  <1> QED  BY <1>6, <1>7, <1>12

(***************************************************************************)
(* int a[] = {...} has as many elements as C counts from its initializer,  *)
(* before its values are stored, if none is a struct value.                *)
(***************************************************************************)
THEOREM ArrayLength == Spec => []LengthIsC
  <1>1. IInv => LengthIsC
    <2> DEFINE used == {objects[p][2] : p \in {q \in DOMAIN init : Len(objects[q]) > 1}}
    <2> SUFFICES ASSUME IInv, pass \in {"local", "done"}, declared[<< 1 >>].len = Unsized
                 PROVE  type[<<1>>].len = IF used = {} THEN 0
                                          ELSE CHOOSE n \in used : \A m \in used : m <= n
      BY DEF LengthIsC
    <2>1. Given /\ TypeNow  BY DEF IInv
    <2>2. type # declared  BY <2>1 DEF TypeNow
    <2> DEFINE n == array_len
    <2>3. type[<<1>>].len = n /\ Counted(n)  BY <2>1, <2>2, TypeIs
    <2>4. n \in Nat
      <3>1. n \in 0 .. MaxElems /\ MaxElems \in Nat  BY <2>3, BoundAssumption DEF Counted
      <3> QED  BY <3>1
    <2>5. \A m : m \in used <=> \E q \in DOMAIN init : Len(objects[q]) > 1 /\ m = objects[q][2]
      OBVIOUS
    <2>6. ASSUME NEW k \in 1 .. Size(<< 1 >>), objects[<<1, k>>] # End
          PROVE  objects[<<1, k>>][2] \in used /\ objects[<<1, k>>][2] \in Nat \ {0}
      <3>1. /\ <<1, k>> \in DOMAIN init /\ Len(objects[<<1, k>>]) > 1
            /\ objects[<<1, k>>][2] \in 1 .. Parts(declared[<<1>>])
        BY <2>1, <2>6, UnsizedIs, ElementOf
      <3>2. Parts(declared[<<1>>]) \in Nat  BY <2>1, DeclaredIs
      <3>3. objects[<<1, k>>][2] \in used  BY <2>5, <3>1
      <3> QED  BY <3>1, <3>2, <3>3
    <2>7. ASSUME NEW m \in used  PROVE m \in Nat \ {0} /\ m <= n
      <3>1. PICK q \in DOMAIN init : Len(objects[q]) > 1 /\ m = objects[q][2]  BY <2>5
      <3>2. PICK k \in 1 .. Size(<<1>>) : objects[<<1, k>>] # End /\ m = objects[<<1, k>>][2]
        BY <2>1, <3>1, UsedIs
      <3> QED  BY <2>3, <2>6, <3>2 DEF Counted
    <2> HIDE DEF used, n
    <2>8. CASE n = 0
      <3>1. used = {}
        <4> SUFFICES ASSUME NEW m \in used  PROVE FALSE  OBVIOUS
        <4> QED  BY <2>7, <2>8
      <3> QED  BY <2>3, <2>8, <3>1
    <2>9. CASE n # 0
      <3>1. n \in used  BY <2>3, <2>6, <2>9 DEF Counted
      <3>2. \A m \in used : m <= n  BY <2>7
      <3>3. ASSUME NEW x \in used, \A m \in used : m <= x  PROVE x = n
        <4>1. n <= x /\ x <= n /\ x \in Nat  BY <2>7, <3>1, <3>3
        <4> QED  BY <2>4, <4>1
      <3>4. (CHOOSE x \in used : \A m \in used : m <= x) = n  BY <3>1, <3>2, <3>3
      <3> QED  BY <2>3, <3>1, <3>4
    <2> QED  BY <2>8, <2>9
  <1> QED  BY <1>1, Invariance, PTL

(***************************************************************************)
(* "excess elements" is said of exactly the lists that have items without  *)
(* an object, once by the constant walk; the local walk repeats it for     *)
(* such lists and says it without need of lists of constants only.         *)
(***************************************************************************)
THEOREM Warnings == Spec => []WarningsAreC
  <1>1. IInv => WarningsAreC
    <2> SUFFICES ASSUME IInv  PROVE WarningsAreC  OBVIOUS
    <2>1. Given /\ WarnedLocal  BY DEF IInv, Behaved
    <2>2. ASSUME pass \in {"local", "done"}
          PROVE  {w[2] : w \in {v \in warned : v[1] = "constant"}}
                     = {list \in ExcessLists : ~TooManyBraces(list)}
      <3>1. Settled(obj, warned, stack, curr, pass)  BY <2>2 DEF IInv, Behaved
      <3>2. <<>> \notin ExcessLists
        <4> SUFFICES ASSUME <<>> \in ExcessLists  PROVE FALSE  OBVIOUS
        <4>1. PICK k \in 1 .. Size(<<>>) : objects[Append(<<>>, k)] = End  BY <2>1, ExcessIs
        <4>2. k = 1  BY <2>1, <4>1, InitIs
        <4>3. Append(<<>>, 1) = <<1>> /\ <<1>> # End  BY DEF End
        <4> QED  BY <2>1, <4>1, <4>2, <4>3, VariableObject
      <3>3. \A l \in ExcessLists : Past(l, stack, curr, pass)  BY <2>2, <3>2 DEF Past
      <3>4. ConstantWarned(warned)
                = {list \in ExcessLists : ~TooManyBraces(list) /\ Past(list, stack, curr, pass)}
        BY <3>1 DEF Settled
      <3>5. {list \in ExcessLists : ~TooManyBraces(list) /\ Past(list, stack, curr, pass)}
                = {list \in ExcessLists : ~TooManyBraces(list)}
        BY <3>3
      <3> QED  BY <3>4, <3>5 DEF ConstantWarned
    <2> QED  BY <2>1, <2>2 DEF WarningsAreC, WarnedLocal
  <1> QED  BY <1>1, Invariance, PTL
=============================================================================
