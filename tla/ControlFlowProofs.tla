------------------------- MODULE ControlFlowProofs -------------------------
(***************************************************************************)
(* Type correctness and the stack discipline of ControlFlow, and then the  *)
(* graph of basic blocks, for programs of any size.                        *)
(***************************************************************************)
EXTENDS ControlFlow, FiniteSetTheorems, SequenceTheorems, TLAPS

LEMMA PrefixElement ==
    ASSUME NEW S, NEW s \in Seq(S), NEW n \in 0..Len(s), NEW i \in 1..n
    PROVE  SubSeq(s, 1, n)[i] = s[i]
  OBVIOUS

LEMMA PrefixLen ==
    ASSUME NEW S, NEW s \in Seq(S), NEW n \in 0..Len(s)
    PROVE  SubSeq(s, 1, n) \in Seq(S) /\ Len(SubSeq(s, 1, n)) = n
  OBVIOUS

LEMMA FrontFacts ==
    ASSUME NEW S, NEW s \in Seq(S), s # <<>>
    PROVE  /\ Front(s) \in Seq(S)
           /\ Len(Front(s)) = Len(s) - 1
           /\ Len(s) \in Nat \ {0}
           /\ \A i \in 1..(Len(s) - 1) : Front(s)[i] = s[i]
  <1>1. Len(s) \in Nat \ {0}  BY LenProperties, EmptySeq
  <1>2. Len(s) - 1 \in 0..Len(s)  BY <1>1
  <1>3. Front(s) \in Seq(S) /\ Len(Front(s)) = Len(s) - 1
    BY <1>2, PrefixLen, Zenon DEF Front
  <1>4. ASSUME NEW i \in 1..(Len(s) - 1)
        PROVE  Front(s)[i] = s[i]
    BY <1>2, PrefixElement, Zenon DEF Front
  <1> QED  BY <1>1, <1>3, <1>4

LEMMA FrontType ==
    ASSUME NEW S, NEW s \in Seq(S)
    PROVE  Front(s) \in Seq(S)
  <1>1. Len(s) \in Nat  BY LenProperties
  <1>2. \A i \in 1..(Len(s) - 1) : s[i] \in S
    BY <1>1, ElementOfSeq
  <1> QED  BY <1>1, <1>2, SubSeqProperties DEF Front

LEMMA EmitType ==
    ASSUME NEW bs \in Seq(Seq(Instr)), NEW b, NEW i \in Instr
    PROVE  /\ Emit(bs, b, i) \in Seq(Seq(Instr))
           /\ Len(Emit(bs, b, i)) = Len(bs)
  <1>1. CASE b \notin 1..Len(bs)
    <2>1. DOMAIN bs = 1..Len(bs)  BY LenProperties
    <2>2. [bs EXCEPT ![b] = Append(@, i)] = bs  BY <1>1, <2>1
    <2> QED  BY <2>2 DEF Emit
  <1>2. CASE b \in 1..Len(bs)
    <2>1. bs[b] \in Seq(Instr)  BY <1>2, ElementOfSeq
    <2>2. Append(bs[b], i) \in Seq(Instr)  BY <2>1, AppendProperties
    <2>3. [bs EXCEPT ![b] = Append(@, i)] = [bs EXCEPT ![b] = Append(bs[b], i)]
      OBVIOUS
    <2> QED  BY <1>2, <2>2, <2>3, ExceptSeq DEF Emit
  <1> QED  BY <1>1, <1>2

LEMMA GrowType ==
    ASSUME NEW bs \in Seq(Seq(Instr)), NEW n \in Nat
    PROVE  /\ Grow(bs, n) \in Seq(Seq(Instr))
           /\ Len(Grow(bs, n)) = Len(bs) + n
  <1> DEFINE new == [i \in 1..n |-> <<>>]
  <1>1. <<>> \in Seq(Instr)  BY EmptySeq
  <1>2. new \in [1..n -> Seq(Instr)]  BY <1>1
  <1>3. new \in Seq(Seq(Instr)) /\ Len(new) = n
    BY <1>2
  <1> HIDE DEF new
  <1>4. Grow(bs, n) = bs \o new  BY DEF Grow, new
  <1> QED  BY <1>3, <1>4, ConcatProperties

LEMMA InstrTypes ==
    /\ Plain \in Instr /\ Ret \in Instr
    /\ \A b \in Nat : Br(b) \in Instr
    /\ \A b, c \in Nat : CondBr(b, c) \in Instr /\ Phi(b, c) \in Instr
    /\ \A T \in SUBSET Nat : SwitchInst(T) \in Instr
  BY DEF Plain, Ret, Br, CondBr, Phi, SwitchInst, Instr, Terminators

LEMMA PatchGotosType ==
    ASSUME NEW bs \in Seq(Seq(Instr)), NEW waiting, NEW target \in Nat
    PROVE  /\ PatchGotos(bs, waiting, target) \in Seq(Seq(Instr))
           /\ Len(PatchGotos(bs, waiting, target)) = Len(bs)
  <1> DEFINE patched(b) == IF b \in waiting THEN Append(bs[b], Br(target))
                                            ELSE bs[b]
             new == [b \in DOMAIN bs |-> patched(b)]
  <1>1. Len(bs) \in Nat /\ DOMAIN bs = 1..Len(bs)  BY LenProperties
  <1>2. ASSUME NEW b \in 1..Len(bs)
        PROVE  patched(b) \in Seq(Instr)
    <2>1. bs[b] \in Seq(Instr)  BY ElementOfSeq
    <2>2. Append(bs[b], Br(target)) \in Seq(Instr)
      BY <2>1, InstrTypes, AppendProperties
    <2> QED  BY <2>1, <2>2
  <1>3. new \in [1..Len(bs) -> Seq(Instr)]  BY <1>1, <1>2
  <1>4. new \in Seq(Seq(Instr)) /\ Len(new) = Len(bs)  BY <1>1, <1>3
  <1> QED  BY <1>4 DEF PatchGotos

LEMMA CompleteSwitchType ==
    ASSUME NEW bs \in Seq(Seq(Instr)), NEW f, NEW cases, NEW default,
           {cs.block : cs \in cases} \cup
               {IF default = None THEN f.end ELSE default} \subseteq Nat
    PROVE  /\ CompleteSwitch(bs, f, cases, default) \in Seq(Seq(Instr))
           /\ Len(CompleteSwitch(bs, f, cases, default)) = Len(bs)
  <1> DEFINE i == SwitchInst({cs.block : cs \in cases} \cup
                             {IF default = None THEN f.end ELSE default})
             b == f.from
             new == [bs EXCEPT ![b] = [@ EXCEPT ![f.pos] = i]]
  <1>1. i \in Instr  BY InstrTypes
  <1>2. CompleteSwitch(bs, f, cases, default) = new  BY DEF CompleteSwitch
  <1> HIDE DEF i, b
  <1>3. CASE b \notin 1..Len(bs)
    <2>1. DOMAIN bs = 1..Len(bs)  BY LenProperties
    <2>2. new = bs  BY <1>3, <2>1
    <2> QED  BY <1>2, <2>2
  <1>4. CASE b \in 1..Len(bs)
    <2> DEFINE s == bs[b]
               t == [s EXCEPT ![f.pos] = i]
    <2>1. s \in Seq(Instr)  BY <1>4, ElementOfSeq
    <2>2. t \in Seq(Instr)
      <3>1. CASE f.pos \in 1..Len(s)  BY <1>1, <2>1, <3>1, ExceptSeq
      <3>2. CASE f.pos \notin 1..Len(s)
        <4>1. DOMAIN s = 1..Len(s)  BY <2>1, LenProperties
        <4>2. t = s  BY <2>1, <3>2, <4>1
        <4> QED  BY <2>1, <4>2
      <3> QED  BY <3>1, <3>2
    <2>3. new = [bs EXCEPT ![b] = t]  OBVIOUS
    <2> HIDE DEF s, t, new
    <2> QED  BY <1>2, <1>4, <2>2, <2>3, ExceptSeq
  <1> QED  BY <1>3, <1>4

----------------------------------------------------------------------------
(* Stacks and the frames they mirror *)

\* A handler stack is what its caller left and the innermost frame.
LEMMA FrameStack ==
    ASSUME NEW F, NEW fs \in Seq(F), fs # <<>>
    PROVE  /\ Front(fs) \in Seq(F)
           /\ Last(fs) \in F
           /\ fs = Append(Front(fs), Last(fs))
           /\ \A f \in F : [fs EXCEPT ![Len(fs)] = f] = Append(Front(fs), f)
  <1>1. /\ Front(fs) \in Seq(F)
        /\ Len(Front(fs)) = Len(fs) - 1
        /\ Len(fs) \in Nat \ {0}
        /\ \A i \in 1..(Len(fs) - 1) : Front(fs)[i] = fs[i]
    BY FrontFacts
  <1>2. Last(fs) \in F  BY <1>1, ElementOfSeq DEF Last
  <1>3. ASSUME NEW f \in F
        PROVE  [fs EXCEPT ![Len(fs)] = f] = Append(Front(fs), f)
    <2> DEFINE s == [fs EXCEPT ![Len(fs)] = f]
               t == Append(Front(fs), f)
    <2>1. /\ s \in Seq(F) /\ Len(s) = Len(fs)
          /\ \A i \in 1..Len(fs) : s[i] = IF i = Len(fs) THEN f ELSE fs[i]
      BY <1>1, ExceptSeq
    <2>2. /\ t \in Seq(F) /\ Len(t) = Len(fs)
          /\ \A i \in 1..(Len(fs) - 1) : t[i] = fs[i]
          /\ t[Len(fs)] = f
      BY <1>1, AppendProperties
    <2> HIDE DEF s, t
    <2>3. \A i \in 1..Len(s) : s[i] = t[i]  BY <1>1, <2>1, <2>2
    <2>4. s = t  BY <2>1, <2>2, <2>3, SeqEqual
    <2> QED  BY <2>4 DEF s, t
  <1>4. fs = Append(Front(fs), Last(fs))
    <2>1. [fs EXCEPT ![Len(fs)] = Last(fs)] = fs
      <3>1. Len(fs) \in DOMAIN fs  BY <1>1, LenProperties
      <3>2. fs = [i \in DOMAIN fs |-> fs[i]]  BY LenProperties
      <3> QED  BY <3>1, <3>2 DEF Last
    <2> QED  BY <1>2, <1>3, <2>1
  <1> QED  BY <1>1, <1>2, <1>3, <1>4

\* Adding a position behind all of S keeps the ranks and gives it the last.
LEMMA RankFacts ==
    ASSUME NEW n \in Nat, NEW S \in SUBSET (1..n)
    PROVE  /\ IsFiniteSet(S) /\ Cardinality(S) \in Nat
           /\ Cardinality(S \cup {n + 1}) = Cardinality(S) + 1
           /\ Rank(S \cup {n + 1}, n + 1) = Cardinality(S) + 1
           /\ \A i \in S : /\ Rank(S, i) \in 1..Cardinality(S)
                           /\ Rank(S \cup {n + 1}, i) = Rank(S, i)
  <1> DEFINE T == S \cup {n + 1}
  <1>1. IsFiniteSet(S)
    <2>1. IsFiniteSet(1..n)  BY FS_Interval
    <2> QED  BY <2>1, FS_Subset
  <1>2. Cardinality(S) \in Nat  BY <1>1, FS_CardinalityType
  <1>3. Cardinality(T) = Cardinality(S) + 1
    <2>1. n + 1 \notin S  OBVIOUS
    <2> QED  BY <1>1, <2>1, FS_AddElement
  <1>4. Rank(T, n + 1) = Cardinality(S) + 1
    <2>1. \A j \in T : j <= n + 1  OBVIOUS
    <2>2. {j \in T : j <= n + 1} = T  BY <2>1
    <2> QED  BY <1>3, <2>2, Zenon DEF Rank
  <1>5. ASSUME NEW i \in S
        PROVE  Rank(S, i) \in 1..Cardinality(S) /\ Rank(T, i) = Rank(S, i)
    <2> DEFINE R == {j \in S : j <= i}
    <2>1. {j \in T : j <= i} = R  OBVIOUS
    <2>2. /\ R \in SUBSET S /\ IsFiniteSet(R)
          /\ Cardinality(R) <= Cardinality(S)
      <3>1. R \in SUBSET S  OBVIOUS
      <3> HIDE DEF R
      <3> QED  BY <1>1, <3>1, FS_Subset
    <2>3. i \in R  OBVIOUS
    <2>4. Cardinality(R) \in Nat /\ Cardinality(R) # 0
      <3>1. R # {}  BY <2>3
      <3> HIDE DEF R
      <3> QED  BY <2>2, <3>1, FS_EmptySet, FS_CardinalityType
    <2> HIDE DEF R
    <2>5. Cardinality(R) \in 1..Cardinality(S)  BY <1>2, <2>2, <2>4
    <2> QED  BY <2>1, <2>5 DEF Rank, R
  <1> QED  BY <1>1, <1>2, <1>3, <1>4, <1>5

\* Only the targets at positions in S matter.
LEMMA MatchesSame ==
    ASSUME NEW stack, NEW S, NEW t1, NEW t2,
           \A i \in S : t1[i] = t2[i]
    PROVE  Matches(stack, S, t1) <=> Matches(stack, S, t2)
  BY DEF Matches

LEMMA MatchesPush ==
    ASSUME NEW X, NEW stack \in Seq(X), NEW x \in X,
           NEW n \in Nat, NEW S \in SUBSET (1..n),
           NEW t1, NEW t2, \A i \in S : t1[i] = t2[i],
           t2[n + 1] = x,
           Matches(stack, S, t1)
    PROVE  Matches(Append(stack, x), S \cup {n + 1}, t2)
  <1> DEFINE T == S \cup {n + 1}
             new == Append(stack, x)
  <1>1. Len(stack) = Cardinality(S) /\ \A i \in S : stack[Rank(S, i)] = t1[i]
    BY DEF Matches
  <1>2. /\ Len(new) = Len(stack) + 1
        /\ \A i \in 1..Len(stack) : new[i] = stack[i]
        /\ new[Len(stack) + 1] = x
    BY AppendProperties
  <1> HIDE DEF new
  <1>3. Len(new) = Cardinality(T)  BY <1>1, <1>2, RankFacts
  <1>4. ASSUME NEW i \in T
        PROVE  new[Rank(T, i)] = t2[i]
    <2>1. CASE i = n + 1
      <3>1. Rank(T, i) = Len(stack) + 1  BY <1>1, <2>1, RankFacts
      <3> QED  BY <1>2, <2>1, <3>1
    <2>2. CASE i \in S
      <3>1. Rank(T, i) = Rank(S, i) /\ Rank(S, i) \in 1..Len(stack)
        BY <1>1, <2>2, RankFacts
      <3> QED  BY <1>1, <1>2, <2>2, <3>1
    <2> QED  BY <2>1, <2>2
  <1> QED  BY <1>3, <1>4 DEF Matches, new

LEMMA MatchesPop ==
    ASSUME NEW X, NEW stack \in Seq(X),
           NEW n \in Nat, NEW S \in SUBSET (1..n),
           NEW t1, NEW t2, \A i \in S : t1[i] = t2[i],
           Matches(stack, S \cup {n + 1}, t2)
    PROVE  /\ stack # <<>>
           /\ Last(stack) = t2[n + 1]
           /\ Matches(Front(stack), S, t1)
  <1> DEFINE T == S \cup {n + 1}
             new == Front(stack)
  <1>1. Len(stack) = Cardinality(T) /\ \A i \in T : stack[Rank(T, i)] = t2[i]
    BY DEF Matches
  <1>2. Len(stack) = Cardinality(S) + 1 /\ Cardinality(S) \in Nat
    BY <1>1, RankFacts
  <1>3. stack # <<>>  BY <1>2, EmptySeq
  <1>4. Last(stack) = t2[n + 1]  BY <1>1, <1>2, RankFacts DEF Last
  <1>5. /\ Len(new) = Cardinality(S)
        /\ \A i \in 1..Cardinality(S) : new[i] = stack[i]
    BY <1>2, <1>3, FrontFacts
  <1> HIDE DEF new
  <1>6. ASSUME NEW i \in S
        PROVE  new[Rank(S, i)] = t1[i]
    <2>1. Rank(T, i) = Rank(S, i) /\ Rank(S, i) \in 1..Cardinality(S)
      BY RankFacts
    <2> QED  BY <1>1, <1>5, <2>1
  <1>7. Matches(new, S, t1)  BY <1>5, <1>6 DEF Matches
  <1> QED  BY <1>3, <1>4, <1>7 DEF new

LoopBody(f) == f.h \in Loops /\ f.at = "body"
SwitchBody(f) == f.h = "switch" /\ f.at = "body"
Scope(f) == f.h \in {"function", "compound"}
ContinueOf(f) == IF f.h = "for" THEN f.alt ELSE f.from

JumpsMatch(bj, cj, fs) ==
    /\ Matches(bj, OpenLoops(fs) \cup OpenSwitches(fs), BreakTargets(fs))
    /\ Matches(cj, OpenLoops(fs), ContinueTargets(fs))
SwitchesMatch(sb, fs) == Matches(sb, OpenSwitches(fs), Widths(fs))

LEMMA OpensOfAppend ==
    ASSUME NEW F, NEW fs \in Seq(F), NEW f \in F
    PROVE  LET n == Len(fs)  gs == Append(fs, f) IN
           /\ n \in Nat
           /\ OpenLoops(fs) \in SUBSET (1..n)
           /\ OpenSwitches(fs) \in SUBSET (1..n)
           /\ OpenScopes(fs) \in SUBSET (1..n)
           /\ OpenLoops(gs) = IF LoopBody(f) THEN OpenLoops(fs) \cup {n + 1}
                                             ELSE OpenLoops(fs)
           /\ OpenSwitches(gs) = IF SwitchBody(f)
                                 THEN OpenSwitches(fs) \cup {n + 1}
                                 ELSE OpenSwitches(fs)
           /\ OpenScopes(gs) = IF Scope(f) THEN OpenScopes(fs) \cup {n + 1}
                                           ELSE OpenScopes(fs)
  <1> DEFINE n == Len(fs)
             gs == Append(fs, f)
  <1>1. n \in Nat /\ DOMAIN fs = 1..n  BY LenProperties
  <1>2. /\ gs \in Seq(F) /\ Len(gs) = n + 1
        /\ \A i \in 1..n : gs[i] = fs[i]
        /\ gs[n + 1] = f
    BY AppendProperties
  <1>3. DOMAIN gs = 1..(n + 1)  BY <1>2, LenProperties
  <1>4. DOMAIN gs = DOMAIN fs \cup {n + 1} /\ n + 1 \notin DOMAIN fs
    BY <1>1, <1>3
  <1> HIDE DEF n, gs
  <1>5. OpenLoops(gs) = IF LoopBody(f) THEN OpenLoops(fs) \cup {n + 1}
                                       ELSE OpenLoops(fs)
    BY <1>1, <1>2, <1>4 DEF OpenLoops, LoopBody
  <1>6. OpenSwitches(gs) = IF SwitchBody(f) THEN OpenSwitches(fs) \cup {n + 1}
                                            ELSE OpenSwitches(fs)
    BY <1>1, <1>2, <1>4 DEF OpenSwitches, SwitchBody
  <1>7. OpenScopes(gs) = IF Scope(f) THEN OpenScopes(fs) \cup {n + 1}
                                     ELSE OpenScopes(fs)
    BY <1>1, <1>2, <1>4 DEF OpenScopes, Scope
  <1>8. /\ OpenLoops(fs) \in SUBSET (1..n)
        /\ OpenSwitches(fs) \in SUBSET (1..n)
        /\ OpenScopes(fs) \in SUBSET (1..n)
    BY <1>1 DEF OpenLoops, OpenSwitches, OpenScopes
  <1> QED  BY <1>1, <1>5, <1>6, <1>7, <1>8 DEF n, gs

LEMMA TargetsOfAppend ==
    ASSUME NEW F, NEW fs \in Seq(F), NEW f \in F
    PROVE  LET n == Len(fs)  gs == Append(fs, f) IN
           /\ \A i \in 1..n :
                /\ BreakTargets(gs)[i] = BreakTargets(fs)[i]
                /\ ContinueTargets(gs)[i] = ContinueTargets(fs)[i]
                /\ Widths(gs)[i] = Widths(fs)[i]
           /\ BreakTargets(gs)[n + 1] = f.end
           /\ ContinueTargets(gs)[n + 1] = ContinueOf(f)
           /\ Widths(gs)[n + 1] = f.bits
  <1> DEFINE n == Len(fs)
             gs == Append(fs, f)
  <1>1. n \in Nat /\ DOMAIN fs = 1..n  BY LenProperties
  <1>2. /\ gs \in Seq(F) /\ Len(gs) = n + 1
        /\ \A i \in 1..n : gs[i] = fs[i]
        /\ gs[n + 1] = f
    BY AppendProperties
  <1>3. DOMAIN gs = 1..(n + 1)  BY <1>2, LenProperties
  <1> HIDE DEF n, gs
  <1>4. ASSUME NEW i \in 1..n
        PROVE  /\ BreakTargets(gs)[i] = BreakTargets(fs)[i]
               /\ ContinueTargets(gs)[i] = ContinueTargets(fs)[i]
               /\ Widths(gs)[i] = Widths(fs)[i]
    BY <1>1, <1>2, <1>3 DEF BreakTargets, ContinueTargets, Widths
  <1>5. /\ BreakTargets(gs)[n + 1] = f.end
        /\ ContinueTargets(gs)[n + 1] = ContinueOf(f)
        /\ Widths(gs)[n + 1] = f.bits
    BY <1>1, <1>2, <1>3 DEF BreakTargets, ContinueTargets, Widths, ContinueOf
  <1> QED  BY <1>4, <1>5 DEF n, gs

\* A frame outside any body leaves the stacks as they are, ...
LEMMA StacksPlainFrame ==
    ASSUME NEW F, NEW fs \in Seq(F), NEW f \in F, NEW bj, NEW cj, NEW sb,
           ~LoopBody(f), ~SwitchBody(f)
    PROVE  /\ JumpsMatch(bj, cj, Append(fs, f)) <=> JumpsMatch(bj, cj, fs)
           /\ SwitchesMatch(sb, Append(fs, f)) <=> SwitchesMatch(sb, fs)
  <1> DEFINE gs == Append(fs, f)
             S == OpenLoops(fs) \cup OpenSwitches(fs)
  <1>1. /\ OpenLoops(gs) = OpenLoops(fs)
        /\ OpenSwitches(gs) = OpenSwitches(fs)
        /\ S \in SUBSET (1..Len(fs))
    BY OpensOfAppend
  <1>2. \A i \in S : /\ BreakTargets(gs)[i] = BreakTargets(fs)[i]
                     /\ ContinueTargets(gs)[i] = ContinueTargets(fs)[i]
                     /\ Widths(gs)[i] = Widths(fs)[i]
    BY <1>1, TargetsOfAppend
  <1> HIDE DEF gs
  <1>3. Matches(bj, S, BreakTargets(gs)) <=> Matches(bj, S, BreakTargets(fs))
    BY <1>2, MatchesSame
  <1>4. Matches(cj, OpenLoops(fs), ContinueTargets(gs))
            <=> Matches(cj, OpenLoops(fs), ContinueTargets(fs))
    BY <1>2, MatchesSame
  <1>5. Matches(sb, OpenSwitches(fs), Widths(gs))
            <=> Matches(sb, OpenSwitches(fs), Widths(fs))
    BY <1>2, MatchesSame
  <1> QED
    BY <1>1, <1>3, <1>4, <1>5, Zenon DEF JumpsMatch, SwitchesMatch, gs

\* ... entering a loop's body pushes its two targets and leaving it pops them,
LEMMA StacksLoopBody ==
    ASSUME NEW F, NEW fs \in Seq(F), NEW f \in F, NEW X,
           NEW bj \in Seq(X), NEW cj \in Seq(X), NEW sb, LoopBody(f)
    PROVE  /\ f.end \in X /\ ContinueOf(f) \in X /\ JumpsMatch(bj, cj, fs) =>
                JumpsMatch(Append(bj, f.end), Append(cj, ContinueOf(f)),
                           Append(fs, f))
           /\ JumpsMatch(bj, cj, Append(fs, f)) =>
                /\ JumpsMatch(Front(bj), Front(cj), fs)
                /\ bj # <<>> /\ cj # <<>>
           /\ SwitchesMatch(sb, Append(fs, f)) <=> SwitchesMatch(sb, fs)
  <1> DEFINE gs == Append(fs, f)
             n == Len(fs)
             S == OpenLoops(fs) \cup OpenSwitches(fs)
  <1>0. f.h # "switch"  BY DEF LoopBody, Loops
  <1>1. /\ n \in Nat
        /\ OpenLoops(gs) = OpenLoops(fs) \cup {n + 1}
        /\ OpenSwitches(gs) = OpenSwitches(fs)
        /\ S \in SUBSET (1..n) /\ OpenLoops(fs) \in SUBSET (1..n)
    BY <1>0, OpensOfAppend DEF SwitchBody
  <1>2. /\ \A i \in S : /\ BreakTargets(gs)[i] = BreakTargets(fs)[i]
                        /\ ContinueTargets(gs)[i] = ContinueTargets(fs)[i]
                        /\ Widths(gs)[i] = Widths(fs)[i]
        /\ BreakTargets(gs)[n + 1] = f.end
        /\ ContinueTargets(gs)[n + 1] = ContinueOf(f)
    BY <1>1, TargetsOfAppend
  <1>3. OpenLoops(gs) \cup OpenSwitches(gs) = S \cup {n + 1}  BY <1>1
  <1> HIDE DEF gs, n
  <1>4. ASSUME f.end \in X, ContinueOf(f) \in X, JumpsMatch(bj, cj, fs)
        PROVE  JumpsMatch(Append(bj, f.end), Append(cj, ContinueOf(f)), gs)
    <2>1. Matches(Append(bj, f.end), S \cup {n + 1}, BreakTargets(gs))
      <3>1. Matches(bj, S, BreakTargets(fs))  BY <1>4 DEF JumpsMatch
      <3>2. \A i \in S : BreakTargets(fs)[i] = BreakTargets(gs)[i]  BY <1>2
      <3> QED  BY <1>1, <1>2, <1>4, <3>1, <3>2, MatchesPush
    <2>2. Matches(Append(cj, ContinueOf(f)), OpenLoops(fs) \cup {n + 1},
                  ContinueTargets(gs))
      <3>1. Matches(cj, OpenLoops(fs), ContinueTargets(fs))
        BY <1>4 DEF JumpsMatch
      <3>2. \A i \in OpenLoops(fs) :
                ContinueTargets(fs)[i] = ContinueTargets(gs)[i]
        BY <1>2
      <3> QED  BY <1>1, <1>2, <1>4, <3>1, <3>2, MatchesPush
    <2> QED  BY <1>1, <1>3, <2>1, <2>2 DEF JumpsMatch
  <1>5. ASSUME JumpsMatch(bj, cj, gs)
        PROVE  JumpsMatch(Front(bj), Front(cj), fs) /\ bj # <<>> /\ cj # <<>>
    <2>1. /\ Matches(bj, S \cup {n + 1}, BreakTargets(gs))
          /\ Matches(cj, OpenLoops(fs) \cup {n + 1}, ContinueTargets(gs))
      BY <1>1, <1>3, <1>5 DEF JumpsMatch
    <2>2. Matches(Front(bj), S, BreakTargets(fs)) /\ bj # <<>>
      BY <1>1, <1>2, <2>1, MatchesPop
    <2>3. Matches(Front(cj), OpenLoops(fs), ContinueTargets(fs)) /\ cj # <<>>
      BY <1>1, <1>2, <2>1, MatchesPop
    <2> QED  BY <2>2, <2>3 DEF JumpsMatch
  <1>6. Matches(sb, OpenSwitches(fs), Widths(gs))
            <=> Matches(sb, OpenSwitches(fs), Widths(fs))
    BY <1>2, MatchesSame
  <1> QED  BY <1>1, <1>4, <1>5, <1>6, Zenon DEF SwitchesMatch, gs

\* ... and a switch's body has a break target and a width, but no continue
\* target.
LEMMA StacksSwitchBody ==
    ASSUME NEW F, NEW fs \in Seq(F), NEW f \in F, NEW X, NEW W,
           NEW bj \in Seq(X), NEW cj, NEW sb \in Seq(W), SwitchBody(f)
    PROVE  /\ f.end \in X /\ JumpsMatch(bj, cj, fs) =>
                JumpsMatch(Append(bj, f.end), cj, Append(fs, f))
           /\ f.bits \in W /\ SwitchesMatch(sb, fs) =>
                SwitchesMatch(Append(sb, f.bits), Append(fs, f))
           /\ JumpsMatch(bj, cj, Append(fs, f)) =>
                JumpsMatch(Front(bj), cj, fs) /\ bj # <<>>
           /\ SwitchesMatch(sb, Append(fs, f)) =>
                SwitchesMatch(Front(sb), fs) /\ sb # <<>>
  <1> DEFINE gs == Append(fs, f)
             n == Len(fs)
             S == OpenLoops(fs) \cup OpenSwitches(fs)
  <1>0. ~LoopBody(f)  BY DEF LoopBody, SwitchBody, Loops
  <1>1. /\ n \in Nat
        /\ OpenLoops(gs) = OpenLoops(fs)
        /\ OpenSwitches(gs) = OpenSwitches(fs) \cup {n + 1}
        /\ S \in SUBSET (1..n) /\ OpenSwitches(fs) \in SUBSET (1..n)
    BY <1>0, OpensOfAppend
  <1>2. /\ \A i \in S : /\ BreakTargets(gs)[i] = BreakTargets(fs)[i]
                        /\ ContinueTargets(gs)[i] = ContinueTargets(fs)[i]
                        /\ Widths(gs)[i] = Widths(fs)[i]
        /\ BreakTargets(gs)[n + 1] = f.end
        /\ Widths(gs)[n + 1] = f.bits
    BY <1>1, TargetsOfAppend
  <1>3. OpenLoops(gs) \cup OpenSwitches(gs) = S \cup {n + 1}  BY <1>1
  <1> HIDE DEF gs, n
  <1>4. Matches(cj, OpenLoops(fs), ContinueTargets(gs))
            <=> Matches(cj, OpenLoops(fs), ContinueTargets(fs))
    BY <1>2, MatchesSame
  <1>5. ASSUME f.end \in X, JumpsMatch(bj, cj, fs)
        PROVE  JumpsMatch(Append(bj, f.end), cj, gs)
    <2>1. Matches(bj, S, BreakTargets(fs))  BY <1>5 DEF JumpsMatch
    <2>2. \A i \in S : BreakTargets(fs)[i] = BreakTargets(gs)[i]  BY <1>2
    <2>3. Matches(Append(bj, f.end), S \cup {n + 1}, BreakTargets(gs))
      BY SMTT(60), <1>1, <1>2, <1>5, <2>1, <2>2, MatchesPush
    <2> QED  BY <1>1, <1>3, <1>4, <1>5, <2>3 DEF JumpsMatch
  <1>6. ASSUME f.bits \in W, SwitchesMatch(sb, fs)
        PROVE  SwitchesMatch(Append(sb, f.bits), gs)
    <2>1. Matches(sb, OpenSwitches(fs), Widths(fs))
      BY <1>6 DEF SwitchesMatch
    <2>2. \A i \in OpenSwitches(fs) : Widths(fs)[i] = Widths(gs)[i]
      BY <1>2
    <2>3. Matches(Append(sb, f.bits), OpenSwitches(fs) \cup {n + 1},
                  Widths(gs))
      BY <1>1, <1>2, <1>6, <2>1, <2>2, MatchesPush
    <2> QED  BY <1>1, <2>3 DEF SwitchesMatch
  <1>7. ASSUME JumpsMatch(bj, cj, gs)
        PROVE  JumpsMatch(Front(bj), cj, fs) /\ bj # <<>>
    <2>1. Matches(bj, S \cup {n + 1}, BreakTargets(gs))
      BY <1>1, <1>3, <1>7 DEF JumpsMatch
    <2>2. Matches(Front(bj), S, BreakTargets(fs)) /\ bj # <<>>
      BY <1>1, <1>2, <2>1, MatchesPop
    <2> QED  BY <1>1, <1>4, <1>7, <2>2 DEF JumpsMatch
  <1>8. ASSUME SwitchesMatch(sb, gs)
        PROVE  SwitchesMatch(Front(sb), fs) /\ sb # <<>>
    <2>1. Matches(sb, OpenSwitches(fs) \cup {n + 1}, Widths(gs))
      BY <1>1, <1>8 DEF SwitchesMatch
    <2>2. \A i \in OpenSwitches(fs) : Widths(fs)[i] = Widths(gs)[i]
      BY <1>2
    <2>3. Matches(Front(sb), OpenSwitches(fs), Widths(fs)) /\ sb # <<>>
      BY <1>1, <2>1, <2>2, MatchesPop
    <2> QED  BY <2>3 DEF SwitchesMatch
  <1> QED  BY <1>5, <1>6, <1>7, <1>8 DEF gs

----------------------------------------------------------------------------
(* What entering and leaving a handler does to all stacks                  *)

Stacks == [break |-> breakJump, continue |-> continueJump, cases |-> caseList,
           default |-> defaultList, bits |-> switchBits, scopes |-> symScopes]

StackTypes(B, C) ==
    [break : Seq(B), continue : Seq(B), cases : Seq(SUBSET C),
     default : Seq(B), bits : Seq(SwitchWidths), scopes : Int]

\* The case lists of the open switches, and the widths of their constants.
CasesMatch(cases, default, bits) ==
    /\ Len(cases) = Len(bits)
    /\ Len(default) = Len(bits)
    /\ \A r \in DOMAIN cases : \A cs \in cases[r] :
          cs.width = ConstantWidth(bits[r])

\* All stacks follow the handlers in progress.
Mirror(st, fs) ==
    /\ JumpsMatch(st.break, st.continue, fs)
    /\ SwitchesMatch(st.bits, fs)
    /\ CasesMatch(st.cases, st.default, st.bits)
    /\ st.scopes = 1 + Cardinality(OpenScopes(fs))

Pushed(st, f) ==
    IF LoopBody(f) THEN [st EXCEPT !.break = Append(@, f.end),
                                   !.continue = Append(@, ContinueOf(f))]
    ELSE IF SwitchBody(f) THEN [st EXCEPT !.break = Append(@, f.end),
                                          !.cases = Append(@, {}),
                                          !.default = Append(@, None),
                                          !.bits = Append(@, f.bits)]
    ELSE IF Scope(f) THEN [st EXCEPT !.scopes = @ + 1]
    ELSE st

Popped(st, f) ==
    IF LoopBody(f) THEN [st EXCEPT !.break = Front(@), !.continue = Front(@)]
    ELSE IF SwitchBody(f) THEN [st EXCEPT !.break = Front(@),
                                          !.cases = Front(@),
                                          !.default = Front(@),
                                          !.bits = Front(@)]
    ELSE IF Scope(f) THEN [st EXCEPT !.scopes = @ - 1]
    ELSE st

LEMMA ScopesOfAppend ==
    ASSUME NEW F, NEW fs \in Seq(F), NEW f \in F
    PROVE  /\ Cardinality(OpenScopes(fs)) \in Nat
           /\ Cardinality(OpenScopes(Append(fs, f))) =
                IF Scope(f) THEN Cardinality(OpenScopes(fs)) + 1
                            ELSE Cardinality(OpenScopes(fs))
  <1> DEFINE n == Len(fs)
             S == OpenScopes(fs)
  <1>1. /\ n \in Nat /\ S \in SUBSET (1..n)
        /\ OpenScopes(Append(fs, f)) = IF Scope(f) THEN S \cup {n + 1} ELSE S
    BY OpensOfAppend
  <1> HIDE DEF n, S
  <1>2. Cardinality(S) \in Nat /\ Cardinality(S \cup {n + 1}) = Cardinality(S) + 1
    BY <1>1, RankFacts
  <1> QED  BY <1>1, <1>2 DEF S

LEMMA CasesPush ==
    ASSUME NEW C, NEW B, NEW cases \in Seq(SUBSET C), NEW default \in Seq(B),
           NEW bits \in Seq(SwitchWidths), NEW w \in SwitchWidths, None \in B,
           CasesMatch(cases, default, bits)
    PROVE  CasesMatch(Append(cases, {}), Append(default, None),
                      Append(bits, w))
  <1> DEFINE cases2 == Append(cases, {})
             bits2 == Append(bits, w)
             n == Len(cases)
  <1>1. {} \in SUBSET C  OBVIOUS
  <1>2. /\ cases2 \in Seq(SUBSET C) /\ Len(cases2) = n + 1
        /\ \A r \in 1..n : cases2[r] = cases[r]
        /\ cases2[n + 1] = {}
    BY <1>1, AppendProperties
  <1>3. /\ n \in Nat /\ DOMAIN cases = 1..n /\ DOMAIN cases2 = 1..(n + 1)
    BY <1>2, LenProperties
  <1>4. /\ Len(bits) = n /\ Len(default) = n
        /\ \A r \in 1..n : \A cs \in cases[r] :
              cs.width = ConstantWidth(bits[r])
    BY <1>3 DEF CasesMatch
  <1>5. /\ Len(bits2) = n + 1
        /\ \A r \in 1..n : bits2[r] = bits[r]
    BY <1>4, AppendProperties
  <1>6. Len(Append(default, None)) = n + 1  BY <1>4, AppendProperties
  <1> HIDE DEF cases2, bits2, n
  <1>7. \A r \in 1..(n + 1) : \A cs \in cases2[r] :
            cs.width = ConstantWidth(bits2[r])
    BY <1>2, <1>3, <1>4, <1>5
  <1> QED  BY <1>2, <1>3, <1>5, <1>6, <1>7 DEF CasesMatch, cases2, bits2

LEMMA CasesPop ==
    ASSUME NEW C, NEW B, NEW cases \in Seq(SUBSET C), NEW default \in Seq(B),
           NEW bits \in Seq(SwitchWidths), bits # <<>>,
           CasesMatch(cases, default, bits)
    PROVE  /\ cases # <<>> /\ default # <<>>
           /\ CasesMatch(Front(cases), Front(default), Front(bits))
  <1> DEFINE cases2 == Front(cases)
             bits2 == Front(bits)
             n == Len(cases)
  <1>1. Len(bits) \in Nat \ {0}  BY EmptySeq
  <1>2. n \in Nat \ {0} /\ Len(bits) = n /\ Len(default) = n
    BY <1>1 DEF CasesMatch
  <1>3. cases # <<>> /\ default # <<>>  BY <1>2, EmptySeq
  <1>4. /\ cases2 \in Seq(SUBSET C) /\ Len(cases2) = n - 1
        /\ \A r \in 1..(n - 1) : cases2[r] = cases[r]
    BY <1>3, FrontFacts
  <1>5. /\ Len(bits2) = n - 1
        /\ \A r \in 1..(n - 1) : bits2[r] = bits[r]
    BY <1>2, FrontFacts
  <1>6. Len(Front(default)) = n - 1  BY <1>2, <1>3, FrontFacts
  <1>7. DOMAIN cases = 1..n /\ DOMAIN cases2 = 1..(n - 1)
    BY <1>4, LenProperties
  <1> HIDE DEF cases2, bits2, n
  <1>8. \A r \in 1..n : \A cs \in cases[r] : cs.width = ConstantWidth(bits[r])
    BY <1>7 DEF CasesMatch
  <1>9. \A r \in 1..(n - 1) : \A cs \in cases2[r] :
            cs.width = ConstantWidth(bits2[r])
    BY <1>2, <1>4, <1>5, <1>8
  <1> QED  BY <1>3, <1>4, <1>5, <1>6, <1>7, <1>9 DEF CasesMatch, cases2, bits2

\* Entering a handler, or the next part of one, keeps the stacks in step ...
LEMMA MirrorEnter ==
    ASSUME NEW F, NEW fs \in Seq(F), NEW f \in F, NEW B, NEW C,
           NEW st \in StackTypes(B, C), Mirror(st, fs),
           None \in B, f.end \in B, ContinueOf(f) \in B,
           SwitchBody(f) => f.bits \in SwitchWidths
    PROVE  /\ Pushed(st, f) \in StackTypes(B, C)
           /\ Mirror(Pushed(st, f), Append(fs, f))
  <1> DEFINE gs == Append(fs, f)
  <1>1. /\ st.break \in Seq(B) /\ st.continue \in Seq(B)
        /\ st.cases \in Seq(SUBSET C) /\ st.default \in Seq(B)
        /\ st.bits \in Seq(SwitchWidths) /\ st.scopes \in Int
    BY DEF StackTypes
  <1>2. /\ JumpsMatch(st.break, st.continue, fs)
        /\ SwitchesMatch(st.bits, fs)
        /\ CasesMatch(st.cases, st.default, st.bits)
        /\ st.scopes = 1 + Cardinality(OpenScopes(fs))
    BY DEF Mirror
  <1>3. /\ Cardinality(OpenScopes(fs)) \in Nat
        /\ Cardinality(OpenScopes(gs)) =
             IF Scope(f) THEN Cardinality(OpenScopes(fs)) + 1
                         ELSE Cardinality(OpenScopes(fs))
    BY ScopesOfAppend
  <1>4. LoopBody(f) => ~SwitchBody(f) /\ ~Scope(f)
    BY DEF LoopBody, SwitchBody, Scope, Loops
  <1>5. SwitchBody(f) => ~Scope(f)
    BY DEF SwitchBody, Scope
  <1> HIDE DEF gs
  <1>6. CASE LoopBody(f)
    <2> DEFINE bj == Append(st.break, f.end)
               cj == Append(st.continue, ContinueOf(f))
    <2>1. Pushed(st, f) = [st EXCEPT !.break = bj, !.continue = cj]
      BY <1>6 DEF Pushed
    <2>2. bj \in Seq(B) /\ cj \in Seq(B)  BY <1>1, AppendProperties
    <2>3. JumpsMatch(bj, cj, gs) /\ SwitchesMatch(st.bits, gs)
      BY <1>1, <1>2, <1>6, StacksLoopBody DEF gs
    <2> HIDE DEF bj, cj
    <2> QED  BY <1>1, <1>2, <1>3, <1>4, <1>6, <2>1, <2>2, <2>3
             DEF StackTypes, Mirror, gs
  <1>7. CASE SwitchBody(f)
    <2> DEFINE bj == Append(st.break, f.end)
               cl == Append(st.cases, {})
               dl == Append(st.default, None)
               sb == Append(st.bits, f.bits)
    <2>1. Pushed(st, f) = [st EXCEPT !.break = bj, !.cases = cl,
                                     !.default = dl, !.bits = sb]
      BY <1>4, <1>7 DEF Pushed
    <2>2. {} \in SUBSET C  OBVIOUS
    <2>3. /\ bj \in Seq(B) /\ cl \in Seq(SUBSET C)
          /\ dl \in Seq(B) /\ sb \in Seq(SwitchWidths)
      BY <1>1, <1>7, <2>2, AppendProperties
    <2>4. JumpsMatch(bj, st.continue, gs) /\ SwitchesMatch(sb, gs)
      BY <1>1, <1>2, <1>7, StacksSwitchBody DEF gs
    <2>5. CasesMatch(cl, dl, sb)
      BY <1>1, <1>2, <1>7, CasesPush
    <2> HIDE DEF bj, cl, dl, sb
    <2> QED  BY <1>1, <1>2, <1>3, <1>5, <1>7, <2>1, <2>3, <2>4, <2>5
             DEF StackTypes, Mirror, gs
  <1>8. CASE ~LoopBody(f) /\ ~SwitchBody(f)
    <2>1. /\ JumpsMatch(st.break, st.continue, gs)
          /\ SwitchesMatch(st.bits, gs)
      BY <1>2, <1>8, StacksPlainFrame DEF gs
    <2>2. CASE Scope(f)
      <3>1. Pushed(st, f) = [st EXCEPT !.scopes = st.scopes + 1]
        BY <1>8, <2>2 DEF Pushed
      <3> DEFINE new == Pushed(st, f)
      <3>2. st.scopes + 1 = 1 + Cardinality(OpenScopes(gs))
        BY <1>2, <1>3, <2>2
      <3>3. new \in StackTypes(B, C)
        <4> DEFINE d == st.scopes + 1
        <4>1. d \in Int  BY <1>1
        <4>2. new = [st EXCEPT !.scopes = d]  BY <3>1
        <4> HIDE DEF d, new
        <4> QED  BY <4>1, <4>2 DEF StackTypes
      <3>4. /\ new.break = st.break /\ new.continue = st.continue
            /\ new.cases = st.cases /\ new.default = st.default
            /\ new.bits = st.bits /\ new.scopes = st.scopes + 1
        BY <3>1 DEF StackTypes
      <3> HIDE DEF new
      <3>5. Mirror(new, gs)  BY <1>2, <2>1, <3>2, <3>4 DEF Mirror
      <3> QED  BY <3>3, <3>5 DEF new, gs
    <2>3. CASE ~Scope(f)
      <3>1. Pushed(st, f) = st  BY <1>8, <2>3 DEF Pushed
      <3> QED  BY <1>1, <1>2, <1>3, <2>1, <2>3, <3>1 DEF Mirror, gs
    <2> QED  BY <2>2, <2>3
  <1> QED  BY <1>6, <1>7, <1>8

\* ... and so does leaving one; an open switch has its case list.
LEMMA MirrorLeave ==
    ASSUME NEW F, NEW fs \in Seq(F), NEW f \in F, NEW B, NEW C,
           NEW st \in StackTypes(B, C), Mirror(st, Append(fs, f))
    PROVE  /\ Popped(st, f) \in StackTypes(B, C)
           /\ Mirror(Popped(st, f), fs)
           /\ SwitchBody(f) => st.cases # <<>> /\ st.default # <<>>
  <1> DEFINE gs == Append(fs, f)
  <1>1. /\ st.break \in Seq(B) /\ st.continue \in Seq(B)
        /\ st.cases \in Seq(SUBSET C) /\ st.default \in Seq(B)
        /\ st.bits \in Seq(SwitchWidths) /\ st.scopes \in Int
    BY DEF StackTypes
  <1>2. /\ JumpsMatch(st.break, st.continue, gs)
        /\ SwitchesMatch(st.bits, gs)
        /\ CasesMatch(st.cases, st.default, st.bits)
        /\ st.scopes = 1 + Cardinality(OpenScopes(gs))
    BY DEF Mirror
  <1>3. /\ Cardinality(OpenScopes(fs)) \in Nat
        /\ Cardinality(OpenScopes(gs)) =
             IF Scope(f) THEN Cardinality(OpenScopes(fs)) + 1
                         ELSE Cardinality(OpenScopes(fs))
    BY ScopesOfAppend
  <1>4. LoopBody(f) => ~SwitchBody(f) /\ ~Scope(f)
    BY DEF LoopBody, SwitchBody, Scope, Loops
  <1>5. SwitchBody(f) => ~Scope(f)
    BY DEF SwitchBody, Scope
  <1> HIDE DEF gs
  <1>6. CASE LoopBody(f)
    <2> DEFINE bj == Front(st.break)
               cj == Front(st.continue)
    <2>1. Popped(st, f) = [st EXCEPT !.break = bj, !.continue = cj]
      BY <1>6 DEF Popped
    <2>2. bj \in Seq(B) /\ cj \in Seq(B)  BY <1>1, FrontType
    <2>3. JumpsMatch(bj, cj, fs) /\ SwitchesMatch(st.bits, fs)
      BY <1>1, <1>2, <1>6, StacksLoopBody DEF gs
    <2> HIDE DEF bj, cj
    <2> QED  BY <1>1, <1>2, <1>3, <1>4, <1>6, <2>1, <2>2, <2>3
             DEF StackTypes, Mirror
  <1>7. CASE SwitchBody(f)
    <2> DEFINE bj == Front(st.break)
               cl == Front(st.cases)
               dl == Front(st.default)
               sb == Front(st.bits)
    <2>1. Popped(st, f) = [st EXCEPT !.break = bj, !.cases = cl,
                                     !.default = dl, !.bits = sb]
      BY <1>4, <1>7 DEF Popped
    <2>2. /\ bj \in Seq(B) /\ cl \in Seq(SUBSET C)
          /\ dl \in Seq(B) /\ sb \in Seq(SwitchWidths)
      BY <1>1, FrontType
    <2>3. /\ JumpsMatch(bj, st.continue, fs)
          /\ SwitchesMatch(sb, fs) /\ st.bits # <<>>
      BY <1>1, <1>2, <1>7, StacksSwitchBody DEF gs
    <2>4. /\ CasesMatch(cl, dl, sb)
          /\ st.cases # <<>> /\ st.default # <<>>
      BY <1>1, <1>2, <2>3, CasesPop
    <2> HIDE DEF bj, cl, dl, sb
    <2> QED  BY <1>1, <1>2, <1>3, <1>5, <1>7, <2>1, <2>2, <2>3, <2>4
             DEF StackTypes, Mirror
  <1>8. CASE ~LoopBody(f) /\ ~SwitchBody(f)
    <2>1. /\ JumpsMatch(st.break, st.continue, fs)
          /\ SwitchesMatch(st.bits, fs)
      BY <1>2, <1>8, StacksPlainFrame DEF gs
    <2>2. CASE Scope(f)
      <3>1. Popped(st, f) = [st EXCEPT !.scopes = st.scopes - 1]
        BY <1>8, <2>2 DEF Popped
      <3> DEFINE new == Popped(st, f)
      <3>2. st.scopes - 1 = 1 + Cardinality(OpenScopes(fs))
        BY <1>2, <1>3, <2>2
      <3>3. new \in StackTypes(B, C)
        <4> DEFINE d == st.scopes - 1
        <4>1. d \in Int  BY <1>1
        <4>2. new = [st EXCEPT !.scopes = d]  BY <3>1
        <4> HIDE DEF d, new
        <4> QED  BY <4>1, <4>2 DEF StackTypes
      <3>4. /\ new.break = st.break /\ new.continue = st.continue
            /\ new.cases = st.cases /\ new.default = st.default
            /\ new.bits = st.bits /\ new.scopes = st.scopes - 1
        BY <3>1 DEF StackTypes
      <3> HIDE DEF new
      <3>5. Mirror(new, fs)  BY <1>2, <2>1, <3>2, <3>4 DEF Mirror
      <3> QED  BY <1>8, <3>3, <3>5 DEF new
    <2>3. CASE ~Scope(f)
      <3>1. Popped(st, f) = st  BY <1>8, <2>3 DEF Popped
      <3> QED  BY <1>1, <1>2, <1>3, <1>8, <2>1, <2>3, <3>1 DEF Mirror
    <2> QED  BY <2>2, <2>3
  <1> QED  BY <1>6, <1>7, <1>8

----------------------------------------------------------------------------
(* Steps of the walk, by what they do to the handlers in progress          *)

Running == {"statement", "expression", "returned"}

FramesIn(fs) == fs # <<>> /\ fs[1].h = "function"
FramesWalk(fs) ==
    \A i \in DOMAIN fs :
        /\ fs[i].h = "function" => i = 1
        /\ fs[i].h \in StatementHandlers => fs[1].h = "function"
        /\ FrameOK(fs[i])

LEMMA WalkOfAppend ==
    ASSUME NEW F, NEW fs \in Seq(F), NEW f \in F
    PROVE  /\ FramesIn(Append(fs, f)) <=>
                (IF fs = <<>> THEN f.h = "function" ELSE FramesIn(fs))
           /\ FramesWalk(Append(fs, f)) <=>
                /\ FramesWalk(fs)
                /\ f.h = "function" => fs = <<>>
                /\ f.h \in StatementHandlers => FramesIn(fs)
                /\ FrameOK(f)
  <1> DEFINE n == Len(fs)
             gs == Append(fs, f)
  <1>1. n \in Nat /\ DOMAIN fs = 1..n /\ (fs = <<>> <=> n = 0)
    BY LenProperties, EmptySeq
  <1>2. /\ gs \in Seq(F) /\ gs # <<>>
        /\ \A i \in 1..n : gs[i] = fs[i]
        /\ gs[n + 1] = f
        /\ DOMAIN gs = 1..(n + 1)
    BY AppendProperties, LenProperties
  <1>3. f.h = "function" => f.h \notin StatementHandlers
    BY DEF StatementHandlers, Loops
  <1> HIDE DEF n, gs
  <1>4. gs[1] = IF fs = <<>> THEN f ELSE fs[1]  BY <1>1, <1>2
  <1>5. FramesIn(gs) <=> (IF fs = <<>> THEN f.h = "function" ELSE FramesIn(fs))
    BY <1>2, <1>4 DEF FramesIn
  <1>6. ASSUME FramesWalk(gs)
        PROVE  /\ FramesWalk(fs)
               /\ f.h = "function" => fs = <<>>
               /\ f.h \in StatementHandlers => FramesIn(fs)
               /\ FrameOK(f)
    <2>1. FramesWalk(fs)  BY <1>1, <1>2, <1>4, <1>6 DEF FramesWalk
    <2>2. n + 1 \in DOMAIN gs  BY <1>1, <1>2
    <2>3. /\ f.h = "function" => n + 1 = 1
          /\ f.h \in StatementHandlers => gs[1].h = "function"
          /\ FrameOK(f)
      BY <1>2, <1>6, <2>2 DEF FramesWalk
    <2>4. f.h \in StatementHandlers => fs # <<>> /\ fs[1].h = "function"
      BY <1>3, <1>4, <2>3
    <2> QED  BY <1>1, <2>1, <2>3, <2>4 DEF FramesIn
  <1>7. ASSUME /\ FramesWalk(fs)
               /\ f.h = "function" => fs = <<>>
               /\ f.h \in StatementHandlers => FramesIn(fs)
               /\ FrameOK(f)
        PROVE  FramesWalk(gs)
    <2> SUFFICES ASSUME NEW i \in 1..(n + 1)
                 PROVE  /\ gs[i].h = "function" => i = 1
                        /\ gs[i].h \in StatementHandlers => gs[1].h = "function"
                        /\ FrameOK(gs[i])
      BY <1>2 DEF FramesWalk
    <2>1. CASE i = n + 1  BY <1>1, <1>2, <1>4, <1>7, <2>1 DEF FramesIn
    <2>2. CASE i \in 1..n  BY <1>1, <1>2, <1>4, <1>7, <2>2 DEF FramesWalk
    <2> QED  BY <1>1, <2>1, <2>2
  <1> QED  BY <1>5, <1>6, <1>7 DEF gs

\* What every step of the walk does to the function, the labels and the rest.
FnStep ==
    /\ blocks' \in Seq(Seq(Instr)) /\ Len(blocks) <= Len(blocks')
    /\ insertAt' \in BlockId'
    /\ insertAt # None => insertAt' # None
    /\ nodes' \in Nat
    /\ gotoJump' \in [Labels -> SUBSET Nat]
    /\ labelJump' \in [Labels -> Nat]
    /\ gotoSites' \subseteq Nat \X Labels
    /\ currentFunction # "none" =>
          /\ gotoJump' \in [Labels -> SUBSET BlockId']
          /\ labelJump' \in [Labels -> BlockId']
    /\ UNCHANGED <<currentFunction, corrupted>>

LEMMA InvParts ==
    ASSUME IInv, pc \in Running
    PROVE  /\ frames \in Seq(Frame)
           /\ Stacks \in StackTypes(BlockId, CaseEntry)
           /\ Mirror(Stacks, frames)
           /\ FramesWalk(frames)
           /\ FramesIn(frames) <=> InFunction
  <1>1. frames \in Seq(Frame)  BY DEF IInv, TypeOK
  <1>2. Stacks \in StackTypes(BlockId, CaseEntry)
    BY DEF IInv, TypeOK, Stacks, StackTypes
  <1>3. FramesWalk(frames) /\ (FramesIn(frames) <=> InFunction)
    BY DEF IInv, WalkOK, FramesWalk, FramesIn, InFunction
  <1>4. /\ JumpsMatch(breakJump, continueJump, frames)
        /\ SwitchesMatch(switchBits, frames)
        /\ CasesMatch(caseList, defaultList, switchBits)
    BY DEF IInv, JumpStacksFollowNesting, SwitchStacksFollowNesting,
           JumpsMatch, SwitchesMatch, CasesMatch
  <1>5. symScopes = 1 + Cardinality(OpenScopes(frames))
    BY DEF IInv, ScopesFollowNesting, Running
  <1>6. Mirror(Stacks, frames)  BY <1>4, <1>5 DEF Mirror, Stacks
  <1> QED  BY <1>1, <1>2, <1>3, <1>6

LEMMA TypesGrow ==
    ASSUME IInv, FnStep
    PROVE  /\ Len(blocks) \in Nat /\ Len(blocks') \in Nat
           /\ BlockId \subseteq BlockId' /\ None \in BlockId'
           /\ Frame \subseteq Frame'
           /\ frames \in Seq(Frame')
           /\ Stacks \in StackTypes(BlockId', CaseEntry')
  <1>1. Len(blocks) \in Nat /\ Len(blocks') \in Nat
    BY LenProperties DEF IInv, TypeOK, FnStep
  <1>2. BlockId \subseteq BlockId' /\ None \in BlockId'
    BY <1>1 DEF BlockId, FnStep, None
  <1>3. Frame \subseteq Frame'
    BY <1>2 DEF Frame
  <1>4. SUBSET CaseEntry \subseteq SUBSET CaseEntry'
    BY <1>2 DEF CaseEntry
  <1>5. frames \in Seq(Frame')
    BY <1>3, SeqMonotonic DEF IInv, TypeOK
  <1>6. /\ breakJump \in Seq(BlockId') /\ continueJump \in Seq(BlockId')
        /\ defaultList \in Seq(BlockId')
    BY <1>2, SeqMonotonic DEF IInv, TypeOK
  <1>7. caseList \in Seq(SUBSET CaseEntry')
    BY <1>4, SeqMonotonic DEF IInv, TypeOK
  <1>8. Stacks \in StackTypes(BlockId', CaseEntry')
    BY <1>6, <1>7 DEF IInv, TypeOK, Stacks, StackTypes
  <1> QED  BY <1>1, <1>2, <1>3, <1>5, <1>8

LEMMA StepIntro ==
    ASSUME IInv, FnStep,
           frames' \in Seq(Frame'),
           Stacks' \in StackTypes(BlockId', CaseEntry'),
           Mirror(Stacks', frames'),
           FramesWalk(frames'),
           pc' \in Running,
           pc' = "statement" => FramesIn(frames'),
           FramesIn(frames') => InFunction
    PROVE  IInv'
  <1>1. TypeOK'
    <2>1. /\ breakJump' \in Seq(BlockId') /\ continueJump' \in Seq(BlockId')
          /\ caseList' \in Seq(SUBSET CaseEntry')
          /\ defaultList' \in Seq(BlockId')
          /\ switchBits' \in Seq(SwitchWidths)
          /\ symScopes' \in Int
      BY DEF Stacks, StackTypes
    <2>2. pc' \in PCs  BY DEF Running, PCs
    <2>3. /\ currentFunction' \in {"none", "void", "value"}
          /\ corrupted' \in BOOLEAN
          /\ currentFunction' # "none" =>
                /\ gotoJump' \in [Labels -> SUBSET BlockId']
                /\ labelJump' \in [Labels -> BlockId']
      BY DEF IInv, TypeOK, FnStep
    <2> QED  BY <2>1, <2>2, <2>3 DEF TypeOK, FnStep
  <1>2. WalkOK'
    <2>1. InFunction' <=> FramesIn(frames')  BY DEF InFunction, FramesIn
    <2>2. pc' \notin {"idle", "file"}  BY DEF Running
    <2>3. InFunction' => currentFunction' # "none"
      BY <2>1 DEF IInv, WalkOK, FnStep
    <2>4. currentFunction' # "none" => insertAt' # None
      BY DEF IInv, WalkOK, FnStep
    <2> QED  BY <2>1, <2>2, <2>3, <2>4 DEF WalkOK, FramesWalk
  <1>3. /\ JumpsMatch(breakJump', continueJump', frames')
        /\ SwitchesMatch(switchBits', frames')
        /\ CasesMatch(caseList', defaultList', switchBits')
        /\ symScopes' = 1 + Cardinality(OpenScopes(frames'))
    BY DEF Mirror, Stacks
  <1>4. JumpStacksFollowNesting' /\ SwitchStacksFollowNesting'
    BY <1>3 DEF JumpStacksFollowNesting, SwitchStacksFollowNesting,
                JumpsMatch, SwitchesMatch, CasesMatch
  <1>5. ScopesFollowNesting'
    BY <1>3 DEF ScopesFollowNesting, Running
  <1> QED  BY <1>1, <1>2, <1>4, <1>5 DEF IInv

\* What a frame must be like before its handler enters it.
Enterable(f) ==
    /\ f \in Frame'
    /\ f.h # "function"
    /\ FrameOK(f)
    /\ SwitchBody(f) => f.bits \in SwitchWidths

LEMMA EnterableTargets ==
    ASSUME IInv, FnStep, NEW f, Enterable(f)
    PROVE  None \in BlockId' /\ f.end \in BlockId' /\ ContinueOf(f) \in BlockId'
  BY TypesGrow DEF Enterable, Frame, ContinueOf

LEMMA CallStep ==
    ASSUME IInv, pc \in Running, FnStep, NEW f, Enterable(f),
           f.h \in StatementHandlers => InFunction,
           frames' = Append(frames, f),
           Stacks' = Pushed(Stacks, f),
           pc' \in Running,
           pc' = "statement" => InFunction
    PROVE  IInv'
  <1>1. /\ FramesWalk(frames) /\ (FramesIn(frames) <=> InFunction)
        /\ Mirror(Stacks, frames)
    BY InvParts
  <1>2. /\ frames \in Seq(Frame')
        /\ Stacks \in StackTypes(BlockId', CaseEntry')
    BY TypesGrow
  <1>3. f \in Frame' /\ f.h # "function" /\ FrameOK(f)  BY DEF Enterable
  <1>4. frames' \in Seq(Frame')  BY <1>2, <1>3, AppendProperties
  <1>5. /\ Stacks' \in StackTypes(BlockId', CaseEntry')
        /\ Mirror(Stacks', frames')
    BY <1>1, <1>2, <1>3, EnterableTargets, MirrorEnter DEF Enterable
  <1>6. /\ FramesWalk(frames')
        /\ FramesIn(frames') <=> (frames # <<>> /\ FramesIn(frames))
    BY <1>1, <1>2, <1>3, WalkOfAppend
  <1>7. InFunction => frames # <<>>  BY DEF InFunction
  <1> QED  BY <1>1, <1>4, <1>5, <1>6, <1>7, StepIntro

\* The innermost frame and what is below it.
LEMMA TopFrame ==
    ASSUME IInv, pc \in Running, FnStep, frames # <<>>, top.h # "function"
    PROVE  /\ frames = Append(Front(frames), top)
           /\ Front(frames) \in Seq(Frame')
           /\ top \in Frame /\ top \in Frame' /\ FrameOK(top)
           /\ \A f \in Frame' :
                [frames EXCEPT ![Len(frames)] = f] = Append(Front(frames), f)
           /\ Popped(Stacks, top) \in StackTypes(BlockId', CaseEntry')
           /\ Mirror(Popped(Stacks, top), Front(frames))
           /\ SwitchBody(top) => caseList # <<>> /\ defaultList # <<>>
           /\ FramesWalk(Front(frames))
           /\ FramesIn(Front(frames)) => InFunction
           /\ top.h \in StatementHandlers => FramesIn(Front(frames))
  <1>0. top = Last(frames)  BY DEF top, Last
  <1>1. /\ frames \in Seq(Frame')
        /\ Stacks \in StackTypes(BlockId', CaseEntry')
        /\ Frame \subseteq Frame'
    BY TypesGrow
  <1>2. /\ frames = Append(Front(frames), top)
        /\ Front(frames) \in Seq(Frame')
        /\ top \in Frame'
        /\ \A f \in Frame' :
             [frames EXCEPT ![Len(frames)] = f] = Append(Front(frames), f)
    BY <1>0, <1>1, FrameStack
  <1>3. frames \in Seq(Frame) /\ Mirror(Stacks, frames) /\ FramesWalk(frames)
        /\ (FramesIn(frames) <=> InFunction)
    BY InvParts
  <1>4. top \in Frame  BY <1>0, <1>3, FrameStack
  <1>5. Mirror(Stacks, Append(Front(frames), top))  BY <1>2, <1>3
  <1>6. /\ Popped(Stacks, top) \in StackTypes(BlockId', CaseEntry')
        /\ Mirror(Popped(Stacks, top), Front(frames))
        /\ SwitchBody(top) => Stacks.cases # <<>> /\ Stacks.default # <<>>
    BY <1>1, <1>2, <1>5, MirrorLeave
  <1>7. FramesWalk(Append(Front(frames), top))
        /\ (FramesIn(Append(Front(frames), top)) <=> InFunction)
    BY <1>2, <1>3
  <1>8. /\ FramesWalk(Front(frames)) /\ FrameOK(top)
        /\ top.h \in StatementHandlers => FramesIn(Front(frames))
    BY <1>2, <1>7, WalkOfAppend
  <1>9. FramesIn(Front(frames)) => InFunction
    <2>1. FramesIn(Front(frames)) => Front(frames) # <<>>  BY DEF FramesIn
    <2> QED  BY <1>2, <1>7, <2>1, WalkOfAppend
  <1> QED  BY <1>1, <1>2, <1>4, <1>6, <1>8, <1>9 DEF Stacks

LEMMA ProceedStep ==
    ASSUME IInv, pc \in Running, FnStep, frames # <<>>, top.h # "function",
           NEW f, Enterable(f), f.h = top.h,
           frames' = [frames EXCEPT ![Len(frames)] = f],
           Stacks' = Pushed(Popped(Stacks, top), f),
           pc' \in Running,
           pc' = "statement" => f.h \in StatementHandlers
    PROVE  IInv'
  <1> DEFINE rest == Front(frames)
             st == Popped(Stacks, top)
  <1>1. /\ rest \in Seq(Frame')
        /\ st \in StackTypes(BlockId', CaseEntry')
        /\ Mirror(st, rest) /\ FramesWalk(rest)
        /\ FramesIn(rest) => InFunction
        /\ f.h \in StatementHandlers => FramesIn(rest)
    BY TopFrame
  <1>2. f \in Frame' /\ f.h # "function" /\ FrameOK(f)  BY DEF Enterable
  <1>3. frames' = Append(rest, f)  BY <1>2, TopFrame
  <1> HIDE DEF rest, st
  <1>4. Append(rest, f) \in Seq(Frame')
    BY <1>1, <1>2, AppendProperties, Zenon
  <1>5. /\ Pushed(st, f) \in StackTypes(BlockId', CaseEntry')
        /\ Mirror(Pushed(st, f), Append(rest, f))
    BY <1>1, <1>2, EnterableTargets, MirrorEnter DEF Enterable
  <1>6. /\ Stacks' \in StackTypes(BlockId', CaseEntry')
        /\ Mirror(Stacks', frames')
    BY <1>3, <1>5 DEF st
  <1>7. /\ FramesWalk(Append(rest, f))
        /\ FramesIn(Append(rest, f)) => rest # <<>> /\ FramesIn(rest)
        /\ FramesIn(rest) => FramesIn(Append(rest, f))
    <2>1. FramesIn(rest) => rest # <<>>  BY DEF FramesIn
    <2>2. /\ FramesIn(Append(rest, f)) <=>
                (IF rest = <<>> THEN f.h = "function" ELSE FramesIn(rest))
          /\ FramesWalk(Append(rest, f)) <=>
                /\ FramesWalk(rest)
                /\ f.h = "function" => rest = <<>>
                /\ f.h \in StatementHandlers => FramesIn(rest)
                /\ FrameOK(f)
      BY <1>1, <1>2, WalkOfAppend
    <2> QED  BY <1>1, <1>2, <2>1, <2>2
  <1>8. /\ frames' \in Seq(Frame') /\ FramesWalk(frames')
        /\ FramesIn(frames') => InFunction
        /\ pc' = "statement" => FramesIn(frames')
    BY <1>1, <1>3, <1>4, <1>7, Zenon
  <1> QED  BY <1>6, <1>8, StepIntro

LEMMA ReturnStep ==
    ASSUME IInv, pc \in Running, FnStep, frames # <<>>, top.h # "function",
           frames' = Front(frames),
           Stacks' = Popped(Stacks, top),
           pc' = "returned"
    PROVE  IInv'
  <1>1. pc' \in Running /\ pc' # "statement"  BY DEF Running
  <1> QED  BY <1>1, TopFrame, StepIntro

LEMMA InPlaceStep ==
    ASSUME IInv, pc \in Running, FnStep,
           frames' = frames, Stacks' = Stacks,
           pc' \in Running,
           pc' = "statement" => InFunction
    PROVE  IInv'
  BY InvParts, TypesGrow, StepIntro

----------------------------------------------------------------------------
(* The actions                                                             *)

\* A step of the walk that leaves the labels alone.
Walks ==
    /\ pc \in Running
    /\ blocks' \in Seq(Seq(Instr)) /\ Len(blocks) <= Len(blocks')
    /\ insertAt' \in BlockId'
    /\ insertAt # None => insertAt' # None
    /\ nodes' \in {nodes, nodes + 1}
    /\ UNCHANGED <<labels, currentFunction, corrupted>>

LEMMA WalksIsFnStep ==
    ASSUME IInv, Walks
    PROVE  FnStep
  <1>1. Len(blocks) \in Nat /\ Len(blocks') \in Nat
    BY LenProperties DEF IInv, TypeOK, Walks
  <1>2. BlockId \subseteq BlockId'  BY <1>1 DEF BlockId, Walks
  <1>3. gotoJump' = gotoJump /\ labelJump' = labelJump
        /\ gotoSites' = gotoSites
    BY DEF Walks, labels
  <1>4. currentFunction # "none" =>
            /\ gotoJump' \in [Labels -> SUBSET BlockId']
            /\ labelJump' \in [Labels -> BlockId']
    BY <1>2, <1>3 DEF IInv, TypeOK
  <1>5. /\ gotoJump' \in [Labels -> SUBSET Nat]
        /\ labelJump' \in [Labels -> Nat]
        /\ gotoSites' \subseteq Nat \X Labels
        /\ nodes' \in Nat
    BY <1>3 DEF IInv, TypeOK, Walks
  <1> QED  BY <1>4, <1>5 DEF FnStep, Walks

\* The blocks after k new ones and one more instruction.
LEMMA Built ==
    ASSUME IInv, NEW k \in Nat, NEW b, NEW i \in Instr
    PROVE  /\ Len(blocks) \in Nat
           /\ blocks \in Seq(Seq(Instr))
           /\ Grow(blocks, k) \in Seq(Seq(Instr))
           /\ Len(Grow(blocks, k)) = Len(blocks) + k
           /\ Emit(Grow(blocks, k), b, i) \in Seq(Seq(Instr))
           /\ Len(Emit(Grow(blocks, k), b, i)) = Len(blocks) + k
           /\ Emit(blocks, b, i) \in Seq(Seq(Instr))
           /\ Len(Emit(blocks, b, i)) = Len(blocks)
  <1>1. blocks \in Seq(Seq(Instr))  BY DEF IInv, TypeOK
  <1>2. Len(blocks) \in Nat  BY <1>1, LenProperties
  <1>3. /\ Grow(blocks, k) \in Seq(Seq(Instr))
        /\ Len(Grow(blocks, k)) = Len(blocks) + k
    BY <1>1, GrowType
  <1>4. /\ Emit(blocks, b, i) \in Seq(Seq(Instr))
        /\ Len(Emit(blocks, b, i)) = Len(blocks)
    BY <1>1, EmitType
  <1>5. /\ Emit(Grow(blocks, k), b, i) \in Seq(Seq(Instr))
        /\ Len(Emit(Grow(blocks, k), b, i)) = Len(Grow(blocks, k))
    BY <1>3, EmitType
  <1> QED  BY <1>1, <1>2, <1>3, <1>4, <1>5

LEMMA NewBlocks ==
    ASSUME IInv
    PROVE  /\ Len(blocks) \in Nat /\ insertAt \in Nat
           /\ n1 \in Nat /\ n2 \in Nat /\ n3 \in Nat /\ n4 \in Nat
           /\ n1 # None /\ n2 # None /\ n3 # None /\ n4 # None
  <1>1. Len(blocks) \in Nat  BY LenProperties DEF IInv, TypeOK
  <1> QED  BY <1>1 DEF n1, n2, n3, n4, None, IInv, TypeOK, BlockId

LEMMA TopTyped ==
    ASSUME IInv, pc \in Running, frames # <<>>
    PROVE  /\ top \in Frame /\ FrameOK(top)
           /\ top.from \in BlockId /\ top.body \in BlockId
           /\ top.alt \in BlockId /\ top.end \in BlockId
           /\ BlockId \subseteq Nat
  <1>1. frames \in Seq(Frame) /\ FramesWalk(frames)  BY InvParts
  <1>2. Len(frames) \in DOMAIN frames  BY <1>1, LenProperties, EmptySeq
  <1>3. top \in Frame  BY <1>1, <1>2, LenProperties, ElementOfSeq DEF top
  <1>4. FrameOK(top)  BY <1>1, <1>2 DEF FramesWalk, top
  <1> QED  BY <1>3, <1>4 DEF Frame, BlockId

LEMMA BlocksStay ==
    ASSUME IInv, Len(blocks) <= Len(blocks'), blocks' \in Seq(Seq(Instr))
    PROVE  BlockId \subseteq BlockId' /\ None \in BlockId'
  <1>1. Len(blocks) \in Nat /\ Len(blocks') \in Nat
    BY LenProperties DEF IInv, TypeOK
  <1> QED  BY <1>1 DEF BlockId, None

\* A frame outside any body has no effect on the stacks.
Simple(f) == ~LoopBody(f) /\ ~SwitchBody(f) /\ ~Scope(f)

LEMMA SimpleStacks ==
    ASSUME NEW f, Simple(f), NEW st
    PROVE  Pushed(st, f) = st /\ Popped(st, f) = st
  BY DEF Simple, Pushed, Popped

LEMMA SameStacks ==
    ASSUME UNCHANGED <<jumps, switches, symScopes>>
    PROVE  Stacks' = Stacks
  BY DEF jumps, switches, Stacks

LEMMA EnterLoopStacks ==
    ASSUME NEW f, LoopBody(f), NEW continue, continue = ContinueOf(f),
           EnterLoop(f.end, continue), UNCHANGED <<switches, symScopes>>
    PROVE  Stacks' = Pushed(Stacks, f)
  <1>1. /\ breakJump' = Append(breakJump, f.end)
        /\ continueJump' = Append(continueJump, ContinueOf(f))
        /\ caseList' = caseList /\ defaultList' = defaultList
        /\ switchBits' = switchBits /\ symScopes' = symScopes
    BY DEF EnterLoop, Push, switches
  <1>2. Pushed(Stacks, f) =
            [Stacks EXCEPT !.break = Append(Stacks.break, f.end),
                           !.continue = Append(Stacks.continue, ContinueOf(f))]
    BY DEF Pushed
  <1>3. Stacks.break = breakJump /\ Stacks.continue = continueJump
    BY DEF Stacks
  <1> QED  BY <1>1, <1>2, <1>3 DEF Stacks

LEMMA LeaveLoopStacks ==
    ASSUME NEW f, LoopBody(f), LeaveLoop, UNCHANGED <<switches, symScopes>>
    PROVE  Stacks' = Popped(Stacks, f)
  BY DEF LeaveLoop, Pop, Stacks, Popped, switches

\* Steps between handlers outside any body.
LEMMA SimpleCall ==
    ASSUME IInv, Walks, NEW f, Enterable(f), Simple(f),
           pc = "statement" \/ f.h \notin StatementHandlers,
           frames' = Append(frames, f),
           UNCHANGED <<jumps, switches, symScopes>>,
           pc' \in Running,
           pc' = "statement" => pc = "statement"
    PROVE  IInv'
  <1>1. Stacks' = Pushed(Stacks, f)  BY SimpleStacks, SameStacks
  <1>2. pc \in Running  BY DEF Walks
  <1>3. pc = "statement" => InFunction  BY DEF IInv, WalkOK
  <1> QED  BY <1>1, <1>2, <1>3, WalksIsFnStep, CallStep

LEMMA SimpleProceed ==
    ASSUME IInv, Walks, frames # <<>>, top.h # "function", Simple(top),
           NEW f, Enterable(f), Simple(f), f.h = top.h,
           frames' = [frames EXCEPT ![Len(frames)] = f],
           UNCHANGED <<jumps, switches, symScopes>>,
           pc' \in Running,
           pc' = "statement" => f.h \in StatementHandlers
    PROVE  IInv'
  <1>1. Stacks' = Pushed(Popped(Stacks, top), f)
    BY SimpleStacks, SameStacks
  <1>2. pc \in Running  BY DEF Walks
  <1> QED  BY <1>1, <1>2, WalksIsFnStep, ProceedStep

LEMMA SimpleReturn ==
    ASSUME IInv, Walks, frames # <<>>, top.h # "function", Simple(top),
           frames' = Front(frames), pc' = "returned",
           UNCHANGED <<jumps, switches, symScopes>>
    PROVE  IInv'
  <1>1. Stacks' = Popped(Stacks, top)  BY SimpleStacks, SameStacks
  <1>2. pc \in Running  BY DEF Walks
  <1> QED  BY <1>1, <1>2, WalksIsFnStep, ReturnStep

\* A handler appends one instruction and moves the insert point.
LEMMA EmitWalks ==
    ASSUME IInv, pc \in Running, NEW i \in Instr, NEW b,
           blocks' = Emit(blocks, b, i),
           insertAt' \in BlockId, insertAt # None => insertAt' # None,
           UNCHANGED <<labels, currentFunction, corrupted, nodes>>
    PROVE  Walks /\ BlockId' = BlockId /\ Frame' = Frame
  <1>1. /\ blocks' \in Seq(Seq(Instr)) /\ Len(blocks') = Len(blocks)
        /\ Len(blocks) \in Nat
    BY EmitType, NewBlocks DEF IInv, TypeOK
  <1>2. BlockId' = BlockId  BY <1>1 DEF BlockId
  <1>3. Frame' = Frame  BY <1>2 DEF Frame
  <1> QED  BY <1>1, <1>2, <1>3 DEF Walks

LEMMA WhileKeepsInv == IInv /\ While => IInv'
  <1> SUFFICES ASSUME IInv, While  PROVE IInv'  OBVIOUS
  <1> DEFINE f == NewFrame("while", "cond", n3, n2, None, n1)
  <1>1. /\ Len(blocks) \in Nat
        /\ blocks' \in Seq(Seq(Instr)) /\ Len(blocks') = Len(blocks) + 3
    <2>1. Br(n3) \in Instr  BY NewBlocks, InstrTypes
    <2> QED  BY <2>1, Built DEF While
  <1>2. /\ n1 \in BlockId' /\ n2 \in BlockId' /\ n3 \in BlockId'
        /\ None \in BlockId' /\ n1 # None /\ n2 # None /\ n3 # None
    BY <1>1, NewBlocks DEF n1, n2, n3, BlockId, None
  <1>3. Walks
    BY <1>1, <1>2 DEF While, Visit, Walks, Running, unit
  <1>4. Enterable(f) /\ Simple(f) /\ f.h = "while"
    BY <1>2 DEF NewFrame, Frame, Handlers, Phases, Loops, Enterable, FrameOK,
                Simple, LoopBody, SwitchBody, Scope
  <1>5. frames' = Append(frames, f) /\ pc = "statement" /\ pc' = "expression"
    BY DEF While, Visit, Call
  <1> QED  BY <1>3, <1>4, <1>5, SimpleCall DEF While, unit, Running

LEMMA WhileCondKeepsInv == IInv /\ WhileCond => IInv'
  <1> SUFFICES ASSUME IInv, WhileCond  PROVE IInv'  OBVIOUS
  <1> DEFINE f == [top EXCEPT !.at = "body"]
  <1>1. /\ pc \in Running /\ frames # <<>> /\ top.h = "while"
        /\ top.at = "cond"
    BY DEF WhileCond, Returned, Running
  <1>2. /\ top \in Frame /\ FrameOK(top)
        /\ top.body \in BlockId /\ top.end \in BlockId
        /\ BlockId \subseteq Nat /\ top.body # None
    BY <1>1, TopTyped DEF FrameOK, Loops
  <1>3. CondBr(top.body, top.end) \in Instr  BY <1>2, InstrTypes
  <1>4. Walks /\ Frame' = Frame
    BY <1>1, <1>2, <1>3, EmitWalks DEF WhileCond, unit
  <1>5. /\ f \in Frame' /\ f.h = "while" /\ f.at = "body"
        /\ f.from = top.from /\ f.end = top.end
        /\ f.body = top.body /\ f.alt = top.alt
    BY <1>1, <1>2, <1>4 DEF Frame, Phases
  <1> HIDE DEF f
  <1>6. Enterable(f) /\ LoopBody(f)
    BY <1>1, <1>2, <1>5 DEF Enterable, FrameOK, LoopBody, SwitchBody, Loops
  <1>7. Stacks' = Pushed(Popped(Stacks, top), f)
    <2>1. Popped(Stacks, top) = Stacks
      BY <1>1, SimpleStacks DEF Simple, LoopBody, SwitchBody, Scope
    <2>2. ContinueOf(f) = top.from  BY <1>5 DEF ContinueOf
    <2>3. EnterLoop(f.end, top.from) /\ UNCHANGED <<switches, symScopes>>
      BY <1>5 DEF WhileCond, unit
    <2> QED  BY <1>6, <2>1, <2>2, <2>3, EnterLoopStacks
  <1>8. /\ frames' = [frames EXCEPT ![Len(frames)] = f]
        /\ pc' = "statement"
    BY DEF WhileCond, Proceed, f
  <1> QED
    BY <1>1, <1>4, <1>5, <1>6, <1>7, <1>8, WalksIsFnStep, ProceedStep
       DEF StatementHandlers, Loops, Running

LEMMA WhileEndKeepsInv == IInv /\ WhileEnd => IInv'
  <1> SUFFICES ASSUME IInv, WhileEnd  PROVE IInv'  OBVIOUS
  <1>1. /\ pc \in Running /\ frames # <<>> /\ top.h = "while"
        /\ top.at = "body"
    BY DEF WhileEnd, Returned, Running
  <1>2. /\ top.from \in BlockId /\ top.end \in BlockId
        /\ BlockId \subseteq Nat /\ top.end # None
    BY <1>1, TopTyped DEF FrameOK, Loops
  <1>3. Br(top.from) \in Instr  BY <1>2, InstrTypes
  <1>4. Walks  BY <1>1, <1>2, <1>3, EmitWalks DEF WhileEnd, unit
  <1>5. Stacks' = Popped(Stacks, top)
    <2>1. LoopBody(top)  BY <1>1 DEF LoopBody, Loops
    <2> QED  BY <2>1, LeaveLoopStacks DEF WhileEnd, unit
  <1> QED  BY <1>1, <1>4, <1>5, WalksIsFnStep, ReturnStep DEF WhileEnd, Return

LEMMA DoKeepsInv == IInv /\ Do => IInv'
  <1> SUFFICES ASSUME IInv, Do  PROVE IInv'  OBVIOUS
  <1> DEFINE f == NewFrame("do", "body", n3, n2, None, n1)
  <1>1. /\ Len(blocks) \in Nat
        /\ blocks' \in Seq(Seq(Instr)) /\ Len(blocks') = Len(blocks) + 3
    <2>1. Br(n3) \in Instr  BY NewBlocks, InstrTypes
    <2> QED  BY <2>1, Built DEF Do
  <1>2. /\ n1 \in BlockId' /\ n2 \in BlockId' /\ n3 \in BlockId'
        /\ None \in BlockId' /\ n1 # None /\ n2 # None /\ n3 # None
    BY <1>1, NewBlocks DEF n1, n2, n3, BlockId, None
  <1>3. Walks
    BY <1>1, <1>2 DEF Do, Visit, Walks, Running, unit
  <1>4. /\ Enterable(f) /\ LoopBody(f) /\ f.h = "do"
        /\ f.end = n1 /\ ContinueOf(f) = n3
    BY <1>2 DEF NewFrame, Frame, Handlers, Phases, Loops, Enterable, FrameOK,
                LoopBody, SwitchBody, ContinueOf
  <1> HIDE DEF f
  <1>5. Stacks' = Pushed(Stacks, f)
    BY <1>4, EnterLoopStacks DEF Do, unit
  <1>6. /\ frames' = Append(frames, f) /\ pc = "statement"
        /\ pc' = "statement" /\ InFunction
    BY DEF Do, Visit, Call, IInv, WalkOK, f
  <1> QED  BY <1>3, <1>4, <1>5, <1>6, WalksIsFnStep, CallStep DEF Running

LEMMA DoBodyKeepsInv == IInv /\ DoBody => IInv'
  <1> SUFFICES ASSUME IInv, DoBody  PROVE IInv'  OBVIOUS
  <1> DEFINE f == [top EXCEPT !.at = "cond"]
  <1>1. /\ pc \in Running /\ frames # <<>> /\ top.h = "do"
        /\ top.at = "body"
    BY DEF DoBody, Returned, Running
  <1>2. /\ top \in Frame /\ FrameOK(top)
        /\ top.from \in BlockId /\ BlockId \subseteq Nat /\ top.from # None
    BY <1>1, TopTyped DEF FrameOK, Loops
  <1>3. Br(top.from) \in Instr  BY <1>2, InstrTypes
  <1>4. Walks /\ Frame' = Frame
    BY <1>1, <1>2, <1>3, EmitWalks DEF DoBody, unit
  <1>5. /\ f \in Frame' /\ f.h = "do" /\ f.at = "cond"
        /\ f.from = top.from /\ f.end = top.end
        /\ f.body = top.body /\ f.alt = top.alt
    BY <1>1, <1>2, <1>4 DEF Frame, Phases
  <1> HIDE DEF f
  <1>6. Enterable(f) /\ Simple(f)
    BY <1>1, <1>2, <1>5 DEF Enterable, FrameOK, Simple, LoopBody, SwitchBody,
                            Scope, Loops
  <1>7. Stacks' = Pushed(Popped(Stacks, top), f)
    <2>1. Stacks' = Popped(Stacks, top)
      <3>1. LoopBody(top)  BY <1>1 DEF LoopBody, Loops
      <3> QED  BY <3>1, LeaveLoopStacks DEF DoBody, unit
    <2> QED  BY <1>6, <2>1, SimpleStacks
  <1>8. /\ frames' = [frames EXCEPT ![Len(frames)] = f]
        /\ pc' = "expression"
    BY DEF DoBody, Proceed, f
  <1> QED
    BY <1>1, <1>4, <1>5, <1>6, <1>7, <1>8, WalksIsFnStep, ProceedStep
       DEF Running

LEMMA DoEndKeepsInv == IInv /\ DoEnd => IInv'
  <1> SUFFICES ASSUME IInv, DoEnd  PROVE IInv'  OBVIOUS
  <1>1. /\ pc \in Running /\ frames # <<>> /\ top.h = "do"
        /\ top.at = "cond"
    BY DEF DoEnd, Returned, Running
  <1>2. /\ top.body \in BlockId /\ top.end \in BlockId
        /\ BlockId \subseteq Nat /\ top.end # None
    BY <1>1, TopTyped DEF FrameOK, Loops
  <1>3. CondBr(top.body, top.end) \in Instr  BY <1>2, InstrTypes
  <1>4. Walks  BY <1>1, <1>2, <1>3, EmitWalks DEF DoEnd, unit
  <1>5. Simple(top)  BY <1>1 DEF Simple, LoopBody, SwitchBody, Scope
  <1> QED  BY <1>1, <1>4, <1>5, SimpleReturn DEF DoEnd, Return, unit

LEMMA ForKeepsInv == IInv /\ For => IInv'
  <1> SUFFICES ASSUME IInv, For  PROVE IInv'  OBVIOUS
  <1> DEFINE f == NewFrame("for", "init", n4, n3, n2, n1)
  <1>1. /\ Len(blocks) \in Nat
        /\ blocks' \in Seq(Seq(Instr)) /\ Len(blocks') = Len(blocks) + 4
    <2>1. blocks \in Seq(Seq(Instr)) /\ Len(blocks) \in Nat
      BY NewBlocks DEF IInv, TypeOK
    <2> QED  BY <2>1, GrowType DEF For
  <1>2. /\ n1 \in BlockId' /\ n2 \in BlockId' /\ n3 \in BlockId'
        /\ n4 \in BlockId' /\ BlockId \subseteq BlockId'
        /\ n1 # None /\ n2 # None /\ n3 # None /\ n4 # None
    BY <1>1, NewBlocks DEF n1, n2, n3, n4, BlockId, None
  <1>3. Walks
    BY <1>1, <1>2 DEF For, Visit, Walks, Running, unit, IInv, TypeOK
  <1>4. Enterable(f) /\ Simple(f) /\ f.h = "for"
    BY <1>2 DEF NewFrame, Frame, Handlers, Phases, Loops, Enterable, FrameOK,
                Simple, LoopBody, SwitchBody, Scope
  <1>5. /\ frames' = Append(frames, f) /\ pc = "statement"
        /\ pc' \in {"expression", "returned"}
    BY DEF For, Visit, Call
  <1> QED  BY <1>3, <1>4, <1>5, SimpleCall DEF For, unit, Running

LEMMA ForInitKeepsInv == IInv /\ ForInit => IInv'
  <1> SUFFICES ASSUME IInv, ForInit  PROVE IInv'  OBVIOUS
  <1>1. /\ pc \in Running /\ frames # <<>> /\ top.h = "for"
        /\ top.at = "init"
    BY DEF ForInit, Returned, Running
  <1>2. /\ top \in Frame /\ FrameOK(top)
        /\ top.from \in BlockId /\ BlockId \subseteq Nat /\ top.from # None
    BY <1>1, TopTyped DEF FrameOK, Loops
  <1>3. Br(top.from) \in Instr  BY <1>2, InstrTypes
  <1>4. Walks /\ Frame' = Frame
    BY <1>1, <1>2, <1>3, EmitWalks DEF ForInit, unit
  <1>5. PICK at \in {"cond", "nocond"} :
          /\ frames' = [frames EXCEPT ![Len(frames)] = [top EXCEPT !.at = at]]
          /\ pc' \in {"expression", "returned"}
    BY DEF ForInit, Proceed
  <1> DEFINE f == [top EXCEPT !.at = at]
  <1>6. /\ f \in Frame' /\ f.h = "for" /\ f.at = at
        /\ f.from = top.from /\ f.end = top.end
        /\ f.body = top.body /\ f.alt = top.alt
    BY <1>1, <1>2, <1>4 DEF Frame, Phases
  <1>7. frames' = [frames EXCEPT ![Len(frames)] = f]  BY <1>5
  <1> HIDE DEF f
  <1>8. Enterable(f) /\ Simple(f) /\ Simple(top)
    BY <1>1, <1>2, <1>6 DEF Enterable, FrameOK, Simple, LoopBody, SwitchBody,
                            Scope, Loops
  <1> QED
    BY <1>1, <1>4, <1>5, <1>6, <1>7, <1>8, SimpleProceed
       DEF ForInit, unit, Running

LEMMA ForCondKeepsInv == IInv /\ ForCond => IInv'
  <1> SUFFICES ASSUME IInv, ForCond  PROVE IInv'  OBVIOUS
  <1>1. /\ pc \in Running /\ frames # <<>> /\ top.h = "for"
        /\ top.at \in {"cond", "nocond"}
    BY DEF ForCond, Returned, Running
  <1>2. /\ top \in Frame /\ FrameOK(top)
        /\ top.body \in BlockId /\ top.end \in BlockId
        /\ top.alt \in BlockId /\ BlockId \subseteq Nat /\ top.alt # None
    BY <1>1, TopTyped DEF FrameOK, Loops
  <1>3. PICK i \in {CondBr(top.body, top.end), Br(top.body)} :
            blocks' = Emit(blocks, insertAt, i)
    BY DEF ForCond
  <1>4. i \in Instr  BY <1>2, InstrTypes
  <1>5. Walks /\ Frame' = Frame
    BY <1>1, <1>2, <1>3, <1>4, EmitWalks DEF ForCond, unit
  <1>6. PICK at \in {"inc", "noinc"} :
          /\ frames' = [frames EXCEPT ![Len(frames)] = [top EXCEPT !.at = at]]
          /\ pc' \in {"expression", "returned"}
    BY DEF ForCond, Proceed
  <1> DEFINE f == [top EXCEPT !.at = at]
  <1>7. /\ f \in Frame' /\ f.h = "for" /\ f.at = at
        /\ f.from = top.from /\ f.end = top.end
        /\ f.body = top.body /\ f.alt = top.alt
    BY <1>1, <1>2, <1>5 DEF Frame, Phases
  <1>8. frames' = [frames EXCEPT ![Len(frames)] = f]  BY <1>6
  <1> HIDE DEF f
  <1>9. Enterable(f) /\ Simple(f) /\ Simple(top)
    BY <1>1, <1>2, <1>7 DEF Enterable, FrameOK, Simple, LoopBody, SwitchBody,
                            Scope, Loops
  <1> QED
    BY <1>1, <1>5, <1>6, <1>7, <1>8, <1>9, SimpleProceed
       DEF ForCond, unit, Running

LEMMA ForIncKeepsInv == IInv /\ ForInc => IInv'
  <1> SUFFICES ASSUME IInv, ForInc  PROVE IInv'  OBVIOUS
  <1> DEFINE f == [top EXCEPT !.at = "body"]
  <1>1. /\ pc \in Running /\ frames # <<>> /\ top.h = "for"
        /\ top.at \in {"inc", "noinc"}
    BY DEF ForInc, Returned, Running
  <1>2. /\ top \in Frame /\ FrameOK(top)
        /\ top.from \in BlockId /\ top.end \in BlockId
        /\ top.body \in BlockId /\ BlockId \subseteq Nat /\ top.body # None
    BY <1>1, TopTyped DEF FrameOK, Loops
  <1>3. PICK i \in {Br(top.from), Br(top.end)} :
            blocks' = Emit(blocks, insertAt, i)
    BY DEF ForInc
  <1>4. i \in Instr  BY <1>2, InstrTypes
  <1>5. Walks /\ Frame' = Frame
    BY <1>1, <1>2, <1>3, <1>4, EmitWalks DEF ForInc, unit
  <1>6. /\ f \in Frame' /\ f.h = "for" /\ f.at = "body"
        /\ f.from = top.from /\ f.end = top.end
        /\ f.body = top.body /\ f.alt = top.alt
    BY <1>1, <1>2, <1>5 DEF Frame, Phases
  <1> HIDE DEF f
  <1>7. Enterable(f) /\ LoopBody(f)
    BY <1>1, <1>2, <1>6 DEF Enterable, FrameOK, LoopBody, SwitchBody, Loops
  <1>8. Stacks' = Pushed(Popped(Stacks, top), f)
    <2>1. Popped(Stacks, top) = Stacks
      BY <1>1, SimpleStacks DEF Simple, LoopBody, SwitchBody, Scope
    <2>2. ContinueOf(f) = top.alt  BY <1>6 DEF ContinueOf
    <2>3. EnterLoop(f.end, top.alt) /\ UNCHANGED <<switches, symScopes>>
      BY <1>6 DEF ForInc, unit
    <2> QED  BY <1>7, <2>1, <2>2, <2>3, EnterLoopStacks
  <1>9. /\ frames' = [frames EXCEPT ![Len(frames)] = f]
        /\ pc' = "statement"
    BY DEF ForInc, Proceed, f
  <1> QED
    BY <1>1, <1>5, <1>6, <1>7, <1>8, <1>9, WalksIsFnStep, ProceedStep
       DEF StatementHandlers, Loops, Running

LEMMA ForEndKeepsInv == IInv /\ ForEnd => IInv'
  <1> SUFFICES ASSUME IInv, ForEnd  PROVE IInv'  OBVIOUS
  <1>1. /\ pc \in Running /\ frames # <<>> /\ top.h = "for"
        /\ top.at = "body"
    BY DEF ForEnd, Returned, Running
  <1>2. /\ top.alt \in BlockId /\ top.end \in BlockId
        /\ BlockId \subseteq Nat /\ top.end # None
    BY <1>1, TopTyped DEF FrameOK, Loops
  <1>3. Br(top.alt) \in Instr  BY <1>2, InstrTypes
  <1>4. Walks  BY <1>1, <1>2, <1>3, EmitWalks DEF ForEnd, unit
  <1>5. Stacks' = Popped(Stacks, top)
    <2>1. LoopBody(top)  BY <1>1 DEF LoopBody, Loops
    <2> QED  BY <2>1, LeaveLoopStacks DEF ForEnd, unit
  <1> QED  BY <1>1, <1>4, <1>5, WalksIsFnStep, ReturnStep DEF ForEnd, Return

LEMMA TempBlock ==
    ASSUME IInv, pc \in Running, NEW bs \in Seq(Seq(Instr)),
           Len(bs) = Len(blocks), OpenTempBlock(bs),
           nodes' \in {nodes, nodes + 1},
           UNCHANGED <<labels, currentFunction, corrupted>>
    PROVE  Walks
  <1>1. Len(blocks) \in Nat  BY NewBlocks
  <1>2. /\ blocks' \in Seq(Seq(Instr)) /\ Len(blocks') = Len(blocks) + 1
        /\ insertAt' = Len(blocks) + 1
    BY GrowType DEF OpenTempBlock
  <1> QED  BY <1>1, <1>2 DEF Walks, BlockId, None

\* A jump statement without a child: the block is closed, a new one opened.
LEMMA JumpStep ==
    ASSUME IInv, pc = "statement", NEW i \in Instr,
           OpenTempBlock(Emit(blocks, insertAt, i)),
           nodes' = nodes + 1, pc' = "returned",
           UNCHANGED <<frames, jumps, switches, labels, unit>>
    PROVE  IInv'
  <1>1. pc \in Running  BY DEF Running
  <1>2. /\ Emit(blocks, insertAt, i) \in Seq(Seq(Instr))
        /\ Len(Emit(blocks, insertAt, i)) = Len(blocks)
    BY EmitType DEF IInv, TypeOK
  <1>3. Walks  BY <1>1, <1>2, TempBlock DEF unit
  <1>4. Stacks' = Stacks  BY SameStacks DEF unit
  <1> QED  BY <1>1, <1>3, <1>4, WalksIsFnStep, InPlaceStep DEF Running

LEMMA LastType ==
    ASSUME NEW S, NEW s \in Seq(S), s # <<>>
    PROVE  Last(s) \in S
  BY FrontFacts, ElementOfSeq DEF Last

LEMMA ContinueKeepsInv == IInv /\ Continue => IInv'
  <1> SUFFICES ASSUME IInv, Continue  PROVE IInv'  OBVIOUS
  <1>1. Last(continueJump) \in BlockId
    BY LastType DEF IInv, TypeOK, Continue
  <1>2. Br(Last(continueJump)) \in Instr  BY <1>1, InstrTypes DEF BlockId
  <1> QED  BY <1>2, JumpStep DEF Continue, Visit

LEMMA BreakKeepsInv == IInv /\ Break => IInv'
  <1> SUFFICES ASSUME IInv, Break  PROVE IInv'  OBVIOUS
  <1>1. Last(breakJump) \in BlockId
    BY LastType DEF IInv, TypeOK, Break
  <1>2. Br(Last(breakJump)) \in Instr  BY <1>1, InstrTypes DEF BlockId
  <1> QED  BY <1>2, JumpStep DEF Break, Visit

LEMMA ReturnVoidKeepsInv == IInv /\ ReturnVoid => IInv'
  BY InstrTypes, JumpStep DEF ReturnVoid, Visit

\* HALT() and a crash leave everything where it was.
LEMMA StopKeepsInv ==
    ASSUME IInv, NEW how \in {"halted", "crashed"}, Stop(how),
           pc \notin {"idle", "internal_error"}
    PROVE  IInv'
  <1> USE DEF Stop, fnVars, jumps, switches, labels, unit
  <1>1. Frame' = Frame /\ BlockId' = BlockId /\ CaseEntry' = CaseEntry
    BY DEF Frame, BlockId, CaseEntry
  <1>2. TypeOK'  BY <1>1 DEF IInv, TypeOK, PCs, Stopped
  <1>3. WalkOK'  BY DEF IInv, WalkOK, InFunction
  <1>4. JumpStacksFollowNesting' /\ SwitchStacksFollowNesting'
    BY DEF IInv, JumpStacksFollowNesting, SwitchStacksFollowNesting
  <1>5. ScopesFollowNesting'
    BY DEF IInv, ScopesFollowNesting
  <1> QED  BY <1>2, <1>3, <1>4, <1>5 DEF IInv

LEMMA StrayJumpKeepsInv == IInv /\ StrayJump => IInv'
  BY StopKeepsInv DEF StrayJump

LEMMA SemanticErrorKeepsInv == IInv /\ SemanticError => IInv'
  BY StopKeepsInv DEF SemanticError

LEMMA DuplicateLabelKeepsInv ==
    ASSUME IInv, NEW l \in Labels, DuplicateLabel(l)
    PROVE  IInv'
  BY StopKeepsInv DEF DuplicateLabel

LEMMA CaseOutsideSwitchKeepsInv == IInv /\ CaseOutsideSwitch => IInv'
  BY StopKeepsInv DEF CaseOutsideSwitch

LEMMA UndeclaredLabelKeepsInv == IInv /\ UndeclaredLabel => IInv'
  BY StopKeepsInv DEF UndeclaredLabel, Returned

LEMMA LogicalWithoutFunctionKeepsInv ==
    ASSUME IInv, NEW op, LogicalWithoutFunction(op)
    PROVE  IInv'
  BY StopKeepsInv DEF LogicalWithoutFunction, Returned

LEMMA ReturnValueKeepsInv == IInv /\ ReturnValue => IInv'
  <1> SUFFICES ASSUME IInv, ReturnValue  PROVE IInv'  OBVIOUS
  <1> DEFINE f == NewFrame("return", "value", None, None, None, None)
  <1>1. blocks' = blocks /\ insertAt' = insertAt /\ BlockId' = BlockId
    BY DEF ReturnValue, fnVars, BlockId
  <1>2. Walks
    BY <1>1, NewBlocks DEF ReturnValue, Visit, Walks, Running, unit, IInv, TypeOK
  <1>3. Enterable(f) /\ Simple(f) /\ f.h = "return"
    BY <1>2, BlocksStay
       DEF Walks, NewFrame, Frame, Handlers, Phases, Loops, Enterable, FrameOK,
           Simple, LoopBody, SwitchBody, Scope
  <1>4. /\ frames' = Append(frames, f) /\ pc = "statement"
        /\ pc' = "expression"
    BY DEF ReturnValue, Visit, Call
  <1> QED  BY <1>2, <1>3, <1>4, SimpleCall DEF ReturnValue, unit, Running

LEMMA ReturnValueEndKeepsInv == IInv /\ ReturnValueEnd => IInv'
  <1> SUFFICES ASSUME IInv, ReturnValueEnd  PROVE IInv'  OBVIOUS
  <1>1. /\ pc \in Running /\ frames # <<>> /\ top.h = "return"
        /\ top.at = "value"
    BY DEF ReturnValueEnd, Returned, Running
  <1>2. /\ Emit(blocks, insertAt, Ret) \in Seq(Seq(Instr))
        /\ Len(Emit(blocks, insertAt, Ret)) = Len(blocks)
    BY EmitType, InstrTypes DEF IInv, TypeOK
  <1>3. Walks  BY <1>1, <1>2, TempBlock DEF ReturnValueEnd, unit
  <1>4. Simple(top)  BY <1>1 DEF Simple, LoopBody, SwitchBody, Scope, Loops
  <1> QED  BY <1>1, <1>3, <1>4, SimpleReturn DEF ReturnValueEnd, Return, unit

\* Inside a function the label tables name blocks of the function.
LEMMA GotoKeepsInv ==
    ASSUME IInv, NEW l \in Labels, Goto(l)
    PROVE  IInv'
  <1>1. /\ pc = "statement" /\ pc \in Running /\ InFunction
        /\ currentFunction # "none"
    BY DEF Goto, Visit, IInv, WalkOK, Running
  <1>2. /\ blocks \in Seq(Seq(Instr)) /\ insertAt \in BlockId
        /\ Len(blocks) \in Nat /\ BlockId \subseteq Nat
        /\ gotoJump \in [Labels -> SUBSET BlockId]
        /\ labelJump \in [Labels -> BlockId]
        /\ gotoJump \in [Labels -> SUBSET Nat]
        /\ labelJump \in [Labels -> Nat]
        /\ gotoSites \subseteq Nat \X Labels
    BY SMTT(60), <1>1, NewBlocks DEF IInv, TypeOK, BlockId
  <1>3. PICK bs \in Seq(Seq(Instr)) :
            Len(bs) = Len(blocks) /\ OpenTempBlock(bs)
    <2>1. Br(labelJump[l]) \in Instr  BY <1>2, InstrTypes
    <2>2. /\ Emit(blocks, insertAt, Br(labelJump[l])) \in Seq(Seq(Instr))
          /\ Len(Emit(blocks, insertAt, Br(labelJump[l]))) = Len(blocks)
      BY <1>2, <2>1, EmitType
    <2> QED  BY <1>2, <2>2 DEF Goto
  <1>4. /\ blocks' \in Seq(Seq(Instr)) /\ Len(blocks') = Len(blocks) + 1
        /\ insertAt' = Len(blocks) + 1
    BY <1>2, <1>3, GrowType DEF OpenTempBlock
  <1>5. /\ BlockId \subseteq BlockId' /\ insertAt' \in BlockId'
        /\ insertAt' # None
    BY <1>2, <1>4 DEF BlockId, None
  <1>6. /\ gotoJump' \in [Labels -> SUBSET BlockId']
        /\ gotoJump' \in [Labels -> SUBSET Nat]
    BY <1>2, <1>5 DEF Goto
  <1>7. gotoSites' \subseteq Nat \X Labels
    BY <1>2 DEF Goto
  <1>8. labelJump' \in [Labels -> BlockId'] /\ labelJump' \in [Labels -> Nat]
    BY <1>2, <1>5 DEF Goto
  <1>9. nodes' \in Nat /\ UNCHANGED <<currentFunction, corrupted>>
    BY DEF Goto, Visit, unit, IInv, TypeOK
  <1>10. FnStep
    BY <1>2, <1>4, <1>5, <1>6, <1>7, <1>8, <1>9 DEF FnStep
  <1>11. /\ Stacks' = Stacks /\ frames' = frames /\ pc' = "returned"
    BY SameStacks DEF Goto, unit
  <1> QED  BY <1>1, <1>10, <1>11, InPlaceStep DEF Running

LEMMA LabelKeepsInv ==
    ASSUME IInv, NEW l \in Labels, Label(l)
    PROVE  IInv'
  <1>1. /\ pc = "statement" /\ pc \in Running /\ InFunction
        /\ currentFunction # "none"
    BY DEF Label, Visit, IInv, WalkOK, Running
  <1>2. /\ blocks \in Seq(Seq(Instr)) /\ insertAt \in BlockId
        /\ Len(blocks) \in Nat /\ BlockId \subseteq Nat
        /\ gotoJump \in [Labels -> SUBSET BlockId]
        /\ labelJump \in [Labels -> BlockId]
        /\ gotoJump \in [Labels -> SUBSET Nat]
        /\ labelJump \in [Labels -> Nat]
        /\ gotoSites \subseteq Nat \X Labels
        /\ n1 \in Nat /\ n1 # None
    BY SMTT(60), <1>1, NewBlocks DEF IInv, TypeOK, BlockId
  <1>3. blocks' \in Seq(Seq(Instr)) /\ Len(blocks') = Len(blocks) + 1
    <2> DEFINE bs == Emit(Grow(blocks, 1), insertAt, Br(n1))
    <2>1. Br(n1) \in Instr  BY <1>2, InstrTypes
    <2>2. bs \in Seq(Seq(Instr)) /\ Len(bs) = Len(blocks) + 1
      BY <2>1, Built
    <2>3. blocks' = PatchGotos(bs, gotoJump[l], n1)  BY DEF Label
    <2> HIDE DEF bs
    <2> QED  BY <1>2, <2>2, <2>3, PatchGotosType
  <1>4. /\ BlockId \subseteq BlockId' /\ n1 \in BlockId' /\ insertAt' = n1
    BY <1>2, <1>3 DEF BlockId, n1, Label
  <1>5. /\ gotoJump' \in [Labels -> SUBSET BlockId']
        /\ gotoJump' \in [Labels -> SUBSET Nat]
    BY <1>2, <1>4 DEF Label
  <1>6. labelJump' \in [Labels -> BlockId'] /\ labelJump' \in [Labels -> Nat]
    BY <1>2, <1>4 DEF Label
  <1>7. /\ gotoSites' \subseteq Nat \X Labels /\ nodes' \in Nat
        /\ UNCHANGED <<currentFunction, corrupted>>
    BY <1>2 DEF Label, Visit, unit, IInv, TypeOK
  <1>8. FnStep
    BY <1>2, <1>3, <1>4, <1>5, <1>6, <1>7 DEF FnStep
  <1>9. /\ Stacks' = Stacks /\ frames' = frames /\ pc' = pc
    BY SameStacks DEF Label, unit, walk
  <1> QED  BY <1>1, <1>8, <1>9, InPlaceStep

LEMMA FallThroughType ==
    ASSUME IInv, NEW stale, NEW target \in Nat, FallThrough(stale, target)
    PROVE  blocks' \in Seq(Seq(Instr)) /\ Len(blocks') = Len(blocks) + 1
  <1>1. Br(target) \in Instr  BY InstrTypes
  <1>2. blocks' \in {Grow(blocks, 1),
                     Emit(Grow(blocks, 1), insertAt, Br(target))}
    BY DEF FallThrough
  <1>3. CASE blocks' = Grow(blocks, 1)
    BY <1>3, GrowType DEF IInv, TypeOK
  <1>4. CASE blocks' = Emit(Grow(blocks, 1), insertAt, Br(target))
    BY <1>1, <1>4, Built
  <1> QED  BY <1>2, <1>3, <1>4

LEMMA CaseKeepsInv ==
    ASSUME IInv, NEW c \in CaseValues, NEW stale, Case(c, stale)
    PROVE  IInv'
  <1>1. /\ pc = "statement" /\ pc \in Running /\ InFunction
        /\ n1 \in Nat /\ n1 # None /\ n1 = Len(blocks) + 1
    BY NewBlocks DEF Case, Visit, IInv, WalkOK, Running, n1
  <1>2. blocks' \in Seq(Seq(Instr)) /\ Len(blocks') = Len(blocks) + 1
    BY <1>1, FallThroughType DEF Case
  <1>3. /\ n1 \in BlockId' /\ insertAt' = n1
    BY <1>1, <1>2, NewBlocks DEF BlockId, Case
  <1>4. Walks
    BY <1>1, <1>2, <1>3, NewBlocks DEF Walks, Case, Visit, unit
  <1>5. FnStep  BY <1>4, WalksIsFnStep
  <1>6. /\ Stacks \in StackTypes(BlockId', CaseEntry')
        /\ Mirror(Stacks, frames) /\ frames \in Seq(Frame')
        /\ FramesWalk(frames) /\ (FramesIn(frames) <=> InFunction)
    BY <1>1, <1>5, TypesGrow, InvParts
  <1>7. /\ caseList \in Seq(SUBSET CaseEntry')
        /\ switchBits \in Seq(SwitchWidths) /\ switchBits # <<>>
        /\ CasesMatch(caseList, defaultList, switchBits)
    BY <1>6 DEF Stacks, StackTypes, Mirror, Case
  <1> DEFINE n == Len(caseList)
             old == caseList[n]
             new == InsertCase(old, c, CaseWidth, n1)
  <1>8. n \in Nat \ {0} /\ Len(switchBits) = n /\ n \in 1..n
    BY <1>7, EmptySeq, LenProperties DEF CasesMatch
  <1>9. /\ CaseWidth = ConstantWidth(switchBits[n])
        /\ CaseWidth \in {32, 64}
    BY <1>8 DEF CaseWidth, ConstantWidth, Last
  <1>10. old \in SUBSET CaseEntry'
    BY <1>7, <1>8, ElementOfSeq
  <1>11. new \in SUBSET CaseEntry'
    BY <1>3, <1>9, <1>10 DEF InsertCase, CaseEntry
  <1>12. \A cs \in new : cs.width = ConstantWidth(switchBits[n])
    <2>1. \A cs \in old : cs.width = ConstantWidth(switchBits[n])
      BY <1>7, <1>8, LenProperties DEF CasesMatch
    <2>2. [value |-> c, width |-> CaseWidth, block |-> n1].width
              = ConstantWidth(switchBits[n])
      BY <1>9
    <2> QED  BY <2>1, <2>2 DEF InsertCase
  <1>13. caseList' = [caseList EXCEPT ![n] = new]  BY DEF Case
  <1> HIDE DEF new, old
  <1>14. /\ caseList' \in Seq(SUBSET CaseEntry') /\ Len(caseList') = n
         /\ \A r \in 1..n : caseList'[r] = IF r = n THEN new ELSE caseList[r]
    BY <1>7, <1>8, <1>11, <1>13, ExceptSeq
  <1>15. CasesMatch(caseList', defaultList, switchBits)
    <2>1. DOMAIN caseList' = 1..n /\ DOMAIN caseList = 1..n
      BY <1>7, <1>14, LenProperties
    <2> QED  BY <1>7, <1>12, <1>14, <2>1 DEF CasesMatch
  <1>16. /\ breakJump' = breakJump /\ continueJump' = continueJump
         /\ defaultList' = defaultList /\ switchBits' = switchBits
         /\ symScopes' = symScopes /\ frames' = frames /\ pc' = pc
    BY DEF Case, jumps, unit, walk
  <1>17. Stacks' \in StackTypes(BlockId', CaseEntry')
    BY <1>6, <1>14, <1>16 DEF Stacks, StackTypes
  <1>18. Mirror(Stacks', frames')
    BY <1>6, <1>15, <1>16 DEF Stacks, Mirror
  <1> QED  BY <1>1, <1>5, <1>6, <1>16, <1>17, <1>18, StepIntro

LEMMA DefaultKeepsInv ==
    ASSUME IInv, NEW stale, Default(stale)
    PROVE  IInv'
  <1>1. /\ pc = "statement" /\ pc \in Running /\ InFunction
        /\ n1 \in Nat /\ n1 # None /\ n1 = Len(blocks) + 1
    BY NewBlocks DEF Default, Visit, IInv, WalkOK, Running, n1
  <1>2. blocks' \in Seq(Seq(Instr)) /\ Len(blocks') = Len(blocks) + 1
    BY <1>1, FallThroughType DEF Default
  <1>3. /\ n1 \in BlockId' /\ insertAt' = n1
    BY <1>1, <1>2, NewBlocks DEF BlockId, Default
  <1>4. Walks
    BY <1>1, <1>2, <1>3, NewBlocks DEF Walks, Default, Visit, unit
  <1>5. FnStep  BY <1>4, WalksIsFnStep
  <1>6. /\ Stacks \in StackTypes(BlockId', CaseEntry')
        /\ Mirror(Stacks, frames) /\ frames \in Seq(Frame')
        /\ FramesWalk(frames) /\ (FramesIn(frames) <=> InFunction)
    BY <1>1, <1>5, TypesGrow, InvParts
  <1>7. /\ defaultList \in Seq(BlockId') /\ defaultList # <<>>
        /\ CasesMatch(caseList, defaultList, switchBits)
    BY <1>6 DEF Stacks, StackTypes, Mirror, Default
  <1>8. Len(defaultList) \in 1..Len(defaultList)
    BY <1>7, EmptySeq
  <1>9. /\ defaultList' \in Seq(BlockId')
        /\ Len(defaultList') = Len(defaultList)
    BY <1>3, <1>7, <1>8, ExceptSeq DEF Default
  <1>10. CasesMatch(caseList, defaultList', switchBits)
    BY <1>7, <1>9 DEF CasesMatch
  <1>11. /\ breakJump' = breakJump /\ continueJump' = continueJump
         /\ caseList' = caseList /\ switchBits' = switchBits
         /\ symScopes' = symScopes /\ frames' = frames /\ pc' = pc
    BY DEF Default, jumps, unit, walk
  <1>12. Stacks' \in StackTypes(BlockId', CaseEntry')
    BY <1>6, <1>9, <1>11 DEF Stacks, StackTypes
  <1>13. Mirror(Stacks', frames')
    BY <1>6, <1>10, <1>11 DEF Stacks, Mirror
  <1> QED  BY <1>1, <1>5, <1>6, <1>11, <1>12, <1>13, StepIntro

LEMMA IfKeepsInv == IInv /\ If => IInv'
  <1> SUFFICES ASSUME IInv, If  PROVE IInv'  OBVIOUS
  <1>1. PICK k \in {2, 3}, body \in {n2, n3}, alt \in {None, n2} :
          /\ body # alt
          /\ blocks' = Grow(blocks, k)
          /\ k = 2 => body = n2 /\ alt = None
          /\ frames' = Append(frames, NewFrame("if", "cond", None, body, alt, n1))
          /\ pc' = "expression"
    <2>1. n2 # None /\ n3 # n2  BY NewBlocks DEF n2, n3
    <2> QED  BY <2>1 DEF If, Call
  <1>2. /\ blocks' \in Seq(Seq(Instr)) /\ Len(blocks') = Len(blocks) + k
        /\ Len(blocks) \in Nat
    BY <1>1, GrowType, NewBlocks DEF IInv, TypeOK
  <1>3. /\ n1 \in BlockId' /\ body \in BlockId' /\ alt \in BlockId'
        /\ None \in BlockId' /\ body # None /\ n1 # None
        /\ BlockId \subseteq BlockId'
    BY SMTT(60), <1>1, <1>2, NewBlocks DEF n1, n2, n3, BlockId, None
  <1>4. Walks
    BY <1>2, <1>3 DEF If, Visit, Walks, Running, unit, IInv, TypeOK
  <1> DEFINE f == NewFrame("if", "cond", None, body, alt, n1)
  <1>5. Enterable(f) /\ Simple(f) /\ f.h = "if"
    BY <1>3 DEF NewFrame, Frame, Handlers, Phases, Loops, Enterable, FrameOK,
                Simple, LoopBody, SwitchBody, Scope
  <1> HIDE DEF f
  <1>6. frames' = Append(frames, f)  BY <1>1 DEF f
  <1> QED  BY <1>1, <1>4, <1>5, <1>6, SimpleCall DEF If, Visit, unit, Running

LEMMA IfCondKeepsInv == IInv /\ IfCond => IInv'
  <1> SUFFICES ASSUME IInv, IfCond  PROVE IInv'  OBVIOUS
  <1> DEFINE f == [top EXCEPT !.at = "then"]
             i == CondBr(top.body, IF top.alt = None THEN top.end ELSE top.alt)
  <1>1. /\ pc \in Running /\ frames # <<>> /\ top.h = "if"
        /\ top.at = "cond"
    BY DEF IfCond, Returned, Running
  <1>2. /\ top \in Frame /\ FrameOK(top)
        /\ top.body \in BlockId /\ top.end \in BlockId /\ top.alt \in BlockId
        /\ BlockId \subseteq Nat /\ top.body # None
    BY <1>1, TopTyped DEF FrameOK, Loops
  <1>3. i \in Instr  BY <1>2, InstrTypes
  <1>4. Walks /\ Frame' = Frame
    <2> HIDE DEF i
    <2>1. blocks' = Emit(blocks, insertAt, i)  BY DEF IfCond, i
    <2> QED  BY <1>1, <1>2, <1>3, <2>1, EmitWalks DEF IfCond, unit
  <1>5. /\ f \in Frame' /\ f.h = "if" /\ f.at = "then"
        /\ f.from = top.from /\ f.end = top.end
        /\ f.body = top.body /\ f.alt = top.alt
    BY <1>1, <1>2, <1>4 DEF Frame, Phases
  <1> HIDE DEF f
  <1>6. Enterable(f) /\ Simple(f) /\ Simple(top)
    BY <1>1, <1>2, <1>5 DEF Enterable, FrameOK, Simple, LoopBody, SwitchBody,
                            Scope, Loops
  <1>7. /\ frames' = [frames EXCEPT ![Len(frames)] = f]
        /\ pc' = "statement"
    BY DEF IfCond, Proceed, f
  <1> QED
    BY <1>1, <1>4, <1>5, <1>6, <1>7, SimpleProceed
       DEF IfCond, unit, Running, StatementHandlers

LEMMA IfThenKeepsInv == IInv /\ IfThen => IInv'
  <1> SUFFICES ASSUME IInv, IfThen  PROVE IInv'  OBVIOUS
  <1>1. /\ pc \in Running /\ frames # <<>> /\ top.h = "if"
        /\ top.at = "then"
    BY DEF IfThen, Returned, Running
  <1>2. /\ top \in Frame /\ FrameOK(top)
        /\ top.body \in BlockId /\ top.end \in BlockId /\ top.alt \in BlockId
        /\ BlockId \subseteq Nat /\ top.body # None /\ top.end # None
    BY <1>1, TopTyped DEF FrameOK, Loops
  <1>3. Br(top.end) \in Instr  BY <1>2, InstrTypes
  <1>4. Simple(top)  BY <1>1 DEF Simple, LoopBody, SwitchBody, Scope, Loops
  <1>5. CASE top.alt = None /\ insertAt' = top.end /\ Return
    <2>1. Walks  BY <1>1, <1>2, <1>3, <1>5, EmitWalks DEF IfThen, unit
    <2> QED  BY <1>1, <1>4, <1>5, <2>1, SimpleReturn DEF IfThen, Return, unit
  <1>6. CASE /\ top.alt # None /\ insertAt' = top.alt
             /\ Proceed("statement", [top EXCEPT !.at = "else"])
    <2> DEFINE f == [top EXCEPT !.at = "else"]
    <2>1. Walks /\ Frame' = Frame
      BY <1>1, <1>2, <1>3, <1>6, EmitWalks DEF IfThen, unit
    <2>2. /\ f \in Frame' /\ f.h = "if" /\ f.at = "else"
          /\ f.from = top.from /\ f.end = top.end
          /\ f.body = top.body /\ f.alt = top.alt
      BY <1>1, <1>2, <2>1 DEF Frame, Phases
    <2> HIDE DEF f
    <2>3. Enterable(f) /\ Simple(f)
      BY <1>2, <2>2 DEF Enterable, FrameOK, Simple, LoopBody, SwitchBody,
                        Scope, Loops
    <2>4. /\ frames' = [frames EXCEPT ![Len(frames)] = f]
          /\ pc' = "statement"
      BY <1>6 DEF Proceed, f
    <2> QED
      BY <1>1, <1>4, <2>1, <2>2, <2>3, <2>4, SimpleProceed
         DEF IfThen, unit, Running, StatementHandlers
  <1> QED  BY <1>5, <1>6 DEF IfThen

LEMMA IfElseKeepsInv == IInv /\ IfElse => IInv'
  <1> SUFFICES ASSUME IInv, IfElse  PROVE IInv'  OBVIOUS
  <1>1. /\ pc \in Running /\ frames # <<>> /\ top.h = "if"
        /\ top.at = "else"
    BY DEF IfElse, Returned, Running
  <1>2. /\ top.end \in BlockId /\ BlockId \subseteq Nat /\ top.end # None
    BY <1>1, TopTyped DEF FrameOK, Loops
  <1>3. Br(top.end) \in Instr  BY <1>2, InstrTypes
  <1>4. Walks  BY <1>1, <1>2, <1>3, EmitWalks DEF IfElse, unit
  <1>5. Simple(top)  BY <1>1 DEF Simple, LoopBody, SwitchBody, Scope, Loops
  <1> QED  BY <1>1, <1>4, <1>5, SimpleReturn DEF IfElse, Return, unit

LEMMA SwitchKeepsInv == IInv /\ Switch => IInv'
  <1> SUFFICES ASSUME IInv, Switch  PROVE IInv'  OBVIOUS
  <1> DEFINE f == NewFrame("switch", "value", None, None, None, None)
  <1>1. blocks' = blocks /\ insertAt' = insertAt /\ BlockId' = BlockId
    BY DEF Switch, fnVars, BlockId
  <1>2. Walks
    BY <1>1, NewBlocks DEF Switch, Visit, Walks, Running, unit, IInv, TypeOK
  <1>3. Enterable(f) /\ Simple(f) /\ f.h = "switch"
    BY <1>2, BlocksStay
       DEF Walks, NewFrame, Frame, Handlers, Phases, Loops, Enterable, FrameOK,
           Simple, LoopBody, SwitchBody, Scope
  <1>4. /\ frames' = Append(frames, f) /\ pc = "statement"
        /\ pc' = "expression"
    BY DEF Switch, Visit, Call
  <1> QED
    BY <1>2, <1>3, <1>4, SimpleCall DEF Switch, unit, Running, StatementHandlers, Loops

\* The blocks stay and so does the insert point.
LEMMA QuietWalks ==
    ASSUME IInv, pc \in Running, UNCHANGED fnVars,
           nodes' \in {nodes, nodes + 1},
           UNCHANGED <<labels, currentFunction, corrupted>>
    PROVE  Walks /\ BlockId' = BlockId /\ Frame' = Frame
  <1>1. blocks' = blocks /\ insertAt' = insertAt  BY DEF fnVars
  <1>2. BlockId' = BlockId  BY <1>1 DEF BlockId
  <1>3. Frame' = Frame  BY <1>2 DEF Frame
  <1> QED  BY <1>1, <1>2, <1>3, NewBlocks DEF Walks, IInv, TypeOK

LEMMA EnterSwitchStacks ==
    ASSUME NEW f, SwitchBody(f),
           breakJump' = Push(breakJump, f.end),
           caseList' = Push(caseList, {}),
           defaultList' = Push(defaultList, None),
           switchBits' = Push(switchBits, f.bits),
           UNCHANGED <<continueJump, symScopes>>
    PROVE  Stacks' = Pushed(Stacks, f)
  <1>1. ~LoopBody(f)  BY DEF LoopBody, SwitchBody, Loops
  <1>2. Pushed(Stacks, f) =
            [Stacks EXCEPT !.break = Append(Stacks.break, f.end),
                           !.cases = Append(Stacks.cases, {}),
                           !.default = Append(Stacks.default, None),
                           !.bits = Append(Stacks.bits, f.bits)]
    BY <1>1 DEF Pushed
  <1>3. /\ Stacks.break = breakJump /\ Stacks.cases = caseList
        /\ Stacks.default = defaultList /\ Stacks.bits = switchBits
    BY DEF Stacks
  <1> QED  BY <1>2, <1>3 DEF Stacks, Push

LEMMA LeaveSwitchStacks ==
    ASSUME NEW f, SwitchBody(f), LeaveSwitch,
           UNCHANGED <<continueJump, symScopes>>
    PROVE  Stacks' = Popped(Stacks, f)
  <1>1. ~LoopBody(f)  BY DEF LoopBody, SwitchBody, Loops
  <1> QED  BY <1>1 DEF LeaveSwitch, Pop, Stacks, Popped

LEMMA SwitchValueKeepsInv ==
    ASSUME IInv, NEW bits \in SwitchWidths, SwitchValue(bits)
    PROVE  IInv'
  <1> DEFINE pos == Len(blocks[insertAt]) + 1
             f == [NewFrame("switch", "body", insertAt, None, None, n1)
                      EXCEPT !.bits = bits, !.pos = pos]
  <1>1. /\ pc \in Running /\ frames # <<>> /\ top.h = "switch"
        /\ top.at = "value"
    BY DEF SwitchValue, Returned, Running
  <1>2. InFunction
    <2>1. FrameOK(top)  BY <1>1, TopTyped
    <2>2. Len(frames) \in DOMAIN frames
      BY <1>1, LenProperties, EmptySeq DEF IInv, TypeOK
    <2>3. frames[1].h = "function"
      BY <1>1, <2>2 DEF IInv, WalkOK, StatementHandlers, top
    <2> QED  BY <1>1, <2>3 DEF InFunction
  <1>3. /\ insertAt \in BlockId /\ insertAt # None /\ Len(blocks) \in Nat
        /\ blocks \in Seq(Seq(Instr)) /\ n1 \in Nat /\ n1 # None
        /\ n1 = Len(blocks) + 1
    BY <1>2, NewBlocks DEF IInv, TypeOK, WalkOK, n1
  <1>4. pos \in Nat
    <2>1. insertAt \in 1..Len(blocks)  BY <1>3 DEF BlockId, None
    <2>2. blocks[insertAt] \in Seq(Instr)  BY <1>3, <2>1, ElementOfSeq
    <2> QED  BY <2>2, LenProperties
  <1>5. blocks' \in Seq(Seq(Instr)) /\ Len(blocks') = Len(blocks) + 1
    <2>1. SwitchInst({n1}) \in Instr  BY <1>3, InstrTypes
    <2>2. blocks' = Emit(Grow(blocks, 1), insertAt, SwitchInst({n1}))
      BY DEF SwitchValue
    <2> QED  BY <2>1, <2>2, Built
  <1>6. /\ insertAt' = insertAt /\ BlockId \subseteq BlockId'
        /\ n1 \in BlockId' /\ None \in BlockId'
    BY <1>3, <1>5 DEF SwitchValue, BlockId, None
  <1>7. Walks
    BY <1>1, <1>3, <1>5, <1>6 DEF Walks, SwitchValue, unit
  <1>8. bits \in Nat  BY ControlFlowAssumption
  <1>9. f \in Frame'
    <2> HIDE DEF pos
    <2> QED  BY <1>3, <1>4, <1>6, <1>8
             DEF NewFrame, Frame, Handlers, Phases, Loops
  <1>10. /\ f.h = "switch" /\ f.at = "body" /\ f.end = n1 /\ f.bits = bits
    BY DEF NewFrame
  <1>11. frames' = [frames EXCEPT ![Len(frames)] = f] /\ pc' = "statement"
    BY DEF SwitchValue, Proceed
  <1> HIDE DEF f
  <1>12. Enterable(f) /\ SwitchBody(f)
    BY <1>3, <1>9, <1>10 DEF Enterable, FrameOK, SwitchBody, Loops
  <1>13. Stacks' = Pushed(Popped(Stacks, top), f)
    <2>1. Popped(Stacks, top) = Stacks
      BY <1>1, SimpleStacks DEF Simple, LoopBody, SwitchBody, Scope, Loops
    <2> QED
      BY <1>10, <1>12, <2>1, EnterSwitchStacks DEF SwitchValue, unit
  <1> QED
    BY <1>1, <1>7, <1>10, <1>11, <1>12, <1>13, WalksIsFnStep, ProceedStep
       DEF Running, StatementHandlers

LEMMA SwitchEndKeepsInv == IInv /\ SwitchEnd => IInv'
  <1> SUFFICES ASSUME IInv, SwitchEnd  PROVE IInv'  OBVIOUS
  <1> DEFINE cases == Last(caseList)
             default == Last(defaultList)
             done == CompleteSwitch(blocks, top, cases, default)
  <1>1. /\ pc \in Running /\ frames # <<>> /\ top.h = "switch"
        /\ top.at = "body" /\ top.h # "function"
    BY DEF SwitchEnd, Returned, Running
  <1>2. /\ top \in Frame /\ top.end \in BlockId /\ BlockId \subseteq Nat
        /\ top.end # None
    BY <1>1, TopTyped DEF FrameOK
  <1>3. SwitchBody(top)  BY <1>1 DEF SwitchBody
  <1>4. caseList # <<>> /\ defaultList # <<>>
    <2>1. /\ frames \in Seq(Frame) /\ Mirror(Stacks, frames)
          /\ Stacks \in StackTypes(BlockId, CaseEntry)
      BY <1>1, InvParts
    <2>2. Front(frames) \in Seq(Frame) /\ frames = Append(Front(frames), top)
      BY <1>1, <2>1, FrameStack DEF top, Last
    <2>3. Mirror(Stacks, Append(Front(frames), top))  BY <2>1, <2>2
    <2>4. Stacks.cases # <<>> /\ Stacks.default # <<>>
      BY <1>2, <1>3, <2>1, <2>2, <2>3, MirrorLeave
    <2> QED  BY <2>4 DEF Stacks
  <1>5. cases \in SUBSET CaseEntry /\ default \in BlockId
    BY <1>4, LastType DEF IInv, TypeOK
  <1> HIDE DEF cases, default
  <1>6. done \in Seq(Seq(Instr)) /\ Len(done) = Len(blocks)
    <2>1. {cs.block : cs \in cases} \subseteq Nat
      BY <1>2, <1>5 DEF CaseEntry
    <2>2. (IF default = None THEN top.end ELSE default) \in Nat
      BY <1>2, <1>5
    <2> QED  BY <2>1, <2>2, CompleteSwitchType DEF IInv, TypeOK
  <1>7. blocks' = Emit(done, insertAt, Br(top.end))
    BY DEF SwitchEnd, cases, default
  <1> HIDE DEF done
  <1>8. blocks' \in Seq(Seq(Instr)) /\ Len(blocks') = Len(blocks)
    <2>1. Br(top.end) \in Instr  BY <1>2, InstrTypes
    <2> QED  BY <1>6, <1>7, <2>1, EmitType
  <1>9. Walks
    <2>1. BlockId' = BlockId  BY <1>8 DEF BlockId
    <2> QED  BY <1>1, <1>2, <1>8, <2>1, NewBlocks DEF Walks, SwitchEnd, unit
  <1>10. Stacks' = Popped(Stacks, top)
    BY <1>3, LeaveSwitchStacks DEF SwitchEnd, unit
  <1> QED
    BY <1>1, <1>9, <1>10, WalksIsFnStep, ReturnStep DEF SwitchEnd, Return

LEMMA CompoundKeepsInv == IInv /\ Compound => IInv'
  <1> SUFFICES ASSUME IInv, Compound  PROVE IInv'  OBVIOUS
  <1> DEFINE f == NewFrame("compound", "list", None, None, None, None)
  <1>1. /\ pc = "statement" /\ pc \in Running /\ InFunction
    BY DEF Compound, Visit, Running, IInv, WalkOK
  <1>2. Walks  BY <1>1, QuietWalks DEF Compound, Visit
  <1>3. /\ Enterable(f) /\ f.h = "compound"
        /\ Scope(f) /\ ~LoopBody(f) /\ ~SwitchBody(f)
    BY <1>2, BlocksStay
       DEF Walks, NewFrame, Frame, Handlers, Phases, Loops, Enterable, FrameOK,
           LoopBody, SwitchBody, Scope
  <1>4. frames' = Append(frames, f) /\ pc' = "returned"
    BY DEF Compound, Call
  <1> HIDE DEF f
  <1>5. Stacks' = Pushed(Stacks, f)
    BY <1>3 DEF Compound, jumps, switches, Stacks, Pushed
  <1> QED  BY <1>1, <1>2, <1>3, <1>4, <1>5, WalksIsFnStep, CallStep DEF Running

LEMMA CompoundEndKeepsInv == IInv /\ CompoundEnd => IInv'
  <1> SUFFICES ASSUME IInv, CompoundEnd  PROVE IInv'  OBVIOUS
  <1>1. /\ pc \in Running /\ frames # <<>> /\ top.h = "compound"
        /\ top.at = "list"
    BY DEF CompoundEnd, Returned, Running
  <1>2. Walks  BY <1>1, QuietWalks DEF CompoundEnd
  <1>3. Scope(top) /\ ~LoopBody(top) /\ ~SwitchBody(top)
    BY <1>1 DEF LoopBody, SwitchBody, Scope, Loops
  <1>4. Stacks' = Popped(Stacks, top)
    BY <1>3 DEF CompoundEnd, jumps, switches, Stacks, Popped
  <1> QED
    BY <1>1, <1>2, <1>4, WalksIsFnStep, ReturnStep DEF CompoundEnd, Return

LEMMA NextStatementKeepsInv == IInv /\ NextStatement => IInv'
  <1> SUFFICES ASSUME IInv, NextStatement  PROVE IInv'  OBVIOUS
  <1>1. /\ pc \in Running /\ frames # <<>>
        /\ top.h \in {"compound", "function"} /\ pc' = "statement"
    BY DEF NextStatement, Returned, Running
  <1>2. Walks  BY <1>1, QuietWalks DEF NextStatement, unit
  <1>3. InFunction
    <2>1. Len(frames) \in DOMAIN frames
      BY <1>1, LenProperties, EmptySeq DEF IInv, TypeOK
    <2>2. frames[1].h = "function"
      BY <1>1, <2>1 DEF IInv, WalkOK, StatementHandlers, top
    <2> QED  BY <1>1, <2>2 DEF InFunction
  <1> QED
    BY <1>1, <1>2, <1>3, WalksIsFnStep, SameStacks, InPlaceStep
       DEF NextStatement, Running, unit

LEMMA ExpressionStatementKeepsInv == IInv /\ ExpressionStatement => IInv'
  <1> SUFFICES ASSUME IInv, ExpressionStatement  PROVE IInv'  OBVIOUS
  <1>1. Walks  BY QuietWalks DEF ExpressionStatement, unit, Running
  <1> QED
    BY <1>1, WalksIsFnStep, SameStacks, InPlaceStep
       DEF ExpressionStatement, Running, unit

\* Inside an expression: at most one plain instruction.
LEMMA PlainStep ==
    ASSUME IInv, pc \in Running,
           \/ blocks' = blocks
           \/ blocks' = Emit(blocks, insertAt, Plain),
           insertAt' = insertAt, nodes' = nodes,
           UNCHANGED <<labels, currentFunction, corrupted>>
    PROVE  Walks /\ BlockId' = BlockId /\ Frame' = Frame
  <1>1. CASE blocks' = blocks  BY <1>1, QuietWalks DEF fnVars
  <1>2. CASE blocks' = Emit(blocks, insertAt, Plain)
    BY <1>2, InstrTypes, EmitWalks DEF IInv, TypeOK
  <1> QED  BY <1>1, <1>2

LEMMA OperandKeepsInv == IInv /\ Operand => IInv'
  <1> SUFFICES ASSUME IInv, Operand  PROVE IInv'  OBVIOUS
  <1>1. pc \in Running  BY DEF Operand, Running
  <1>2. Walks  BY <1>1, PlainStep DEF Operand, unit
  <1> QED
    BY <1>1, <1>2, WalksIsFnStep, SameStacks, InPlaceStep
       DEF Operand, Running, unit

LEMMA BinaryKeepsInv == IInv /\ Binary => IInv'
  <1> SUFFICES ASSUME IInv, Binary  PROVE IInv'  OBVIOUS
  <1> DEFINE f == NewFrame("binary", "lhs", None, None, None, None)
  <1>1. /\ pc = "expression" /\ pc \in Running
        /\ frames' = Append(frames, f) /\ pc' = "expression"
    BY DEF Binary, Visit, Call, Running
  <1>2. Walks  BY <1>1, QuietWalks DEF Binary, Visit, unit
  <1>3. Enterable(f) /\ Simple(f) /\ f.h \notin StatementHandlers
    BY <1>2, BlocksStay
       DEF Walks, NewFrame, Frame, Handlers, Phases, Loops, Enterable, FrameOK,
           Simple, LoopBody, SwitchBody, Scope, StatementHandlers
  <1> HIDE DEF f
  <1> QED  BY <1>1, <1>2, <1>3, SimpleCall DEF Binary, unit

LEMMA BinaryLhsKeepsInv == IInv /\ BinaryLhs => IInv'
  <1> SUFFICES ASSUME IInv, BinaryLhs  PROVE IInv'  OBVIOUS
  <1> DEFINE f == [top EXCEPT !.at = "rhs"]
  <1>1. /\ pc \in Running /\ frames # <<>> /\ top.h = "binary"
        /\ top.at = "lhs"
    BY DEF BinaryLhs, Returned, Running
  <1>2. top \in Frame  BY <1>1, TopTyped
  <1>3. Walks /\ Frame' = Frame  BY <1>1, QuietWalks DEF BinaryLhs, unit
  <1>4. f \in Frame' /\ f.h = "binary" /\ f.at = "rhs"
    BY <1>1, <1>2, <1>3 DEF Frame, Phases
  <1>5. frames' = [frames EXCEPT ![Len(frames)] = f] /\ pc' = "expression"
    BY DEF BinaryLhs, Proceed
  <1> HIDE DEF f
  <1>6. Enterable(f) /\ Simple(f) /\ Simple(top)
    BY <1>1, <1>4 DEF Enterable, FrameOK, Simple, LoopBody, SwitchBody, Scope,
                      Loops
  <1> QED
    BY <1>1, <1>3, <1>4, <1>5, <1>6, SimpleProceed DEF BinaryLhs, unit, Running

LEMMA BinaryEndKeepsInv == IInv /\ BinaryEnd => IInv'
  <1> SUFFICES ASSUME IInv, BinaryEnd  PROVE IInv'  OBVIOUS
  <1>1. /\ pc \in Running /\ frames # <<>> /\ top.h = "binary"
    BY DEF BinaryEnd, Returned, Running
  <1>2. Walks  BY <1>1, PlainStep DEF BinaryEnd, unit
  <1>3. Simple(top)  BY <1>1 DEF Simple, LoopBody, SwitchBody, Scope, Loops
  <1> QED  BY <1>1, <1>2, <1>3, SimpleReturn DEF BinaryEnd, Return, unit

LEMMA LogicalKeepsInv ==
    ASSUME IInv, NEW op \in {"and", "or"}, Logical(op)
    PROVE  IInv'
  <1> DEFINE f == NewFrame(op, "lhs", None, None, None, None)
  <1>1. /\ pc = "expression" /\ pc \in Running
        /\ frames' = Append(frames, f) /\ pc' = "expression"
    BY DEF Logical, Visit, Call, Running
  <1>2. Walks  BY <1>1, QuietWalks DEF Logical, Visit, unit
  <1>3. Enterable(f) /\ Simple(f) /\ f.h \notin StatementHandlers
    BY <1>2, BlocksStay
       DEF Walks, NewFrame, Frame, Handlers, Phases, Loops, Enterable, FrameOK,
           Simple, LoopBody, SwitchBody, Scope, StatementHandlers
  <1> HIDE DEF f
  <1> QED  BY <1>1, <1>2, <1>3, SimpleCall DEF Logical, unit

LEMMA LogicalLhsKeepsInv ==
    ASSUME IInv, NEW op \in {"and", "or"}, LogicalLhs(op)
    PROVE  IInv'
  <1> DEFINE f == NewFrame(op, "rhs", insertAt, n2, None, n1)
  <1>1. /\ pc \in Running /\ frames # <<>> /\ top.h = op /\ top.at = "lhs"
    BY DEF LogicalLhs, Returned, Running
  <1>2. /\ n1 \in Nat /\ n2 \in Nat /\ n1 # None /\ n2 # None
        /\ n1 = Len(blocks) + 1 /\ n2 = Len(blocks) + 2
        /\ Len(blocks) \in Nat /\ insertAt \in BlockId
    BY NewBlocks DEF n1, n2, IInv, TypeOK
  <1>3. blocks' \in Seq(Seq(Instr)) /\ Len(blocks') = Len(blocks) + 2
    <2>1. CondBr(n2, n1) \in Instr  BY <1>2, InstrTypes
    <2> QED  BY <2>1, Built DEF LogicalLhs
  <1>4. /\ n1 \in BlockId' /\ n2 \in BlockId' /\ None \in BlockId'
        /\ insertAt \in BlockId' /\ insertAt' = n2
    BY <1>2, <1>3 DEF BlockId, None, LogicalLhs
  <1>5. Walks
    BY <1>1, <1>2, <1>3, <1>4 DEF Walks, LogicalLhs, unit
  <1>6. f \in Frame' /\ f.h = op /\ f.at = "rhs" /\ f.end = n1
    BY <1>4 DEF NewFrame, Frame, Handlers, Phases, Loops
  <1>7. frames' = [frames EXCEPT ![Len(frames)] = f] /\ pc' = "expression"
    BY DEF LogicalLhs, Proceed
  <1> HIDE DEF f
  <1>8. Enterable(f) /\ Simple(f) /\ Simple(top) /\ top.h # "function"
    BY <1>1, <1>2, <1>6 DEF Enterable, FrameOK, Simple, LoopBody, SwitchBody,
                            Scope, Loops
  <1> QED
    BY <1>1, <1>5, <1>6, <1>7, <1>8, SimpleProceed DEF LogicalLhs, unit, Running

\* The operands are joined: some instructions in existing blocks.
LEMMA JoinWalks ==
    ASSUME IInv, pc \in Running, blocks' \in Seq(Seq(Instr)),
           Len(blocks') = Len(blocks), insertAt' \in BlockId,
           insertAt # None => insertAt' # None,
           UNCHANGED <<labels, currentFunction, corrupted, nodes>>
    PROVE  Walks
  <1>1. BlockId' = BlockId  BY DEF BlockId
  <1> QED  BY <1>1, NewBlocks DEF Walks

LEMMA LogicalEndKeepsInv ==
    ASSUME IInv, NEW op \in {"and", "or"}, LogicalEnd(op)
    PROVE  IInv'
  <1> DEFINE bs == Emit(blocks, insertAt, Br(top.end))
  <1>1. /\ pc \in Running /\ frames # <<>> /\ top.h = op /\ top.at = "rhs"
        /\ top.h # "function"
    BY DEF LogicalEnd, Returned, Running
  <1>2. /\ top.end \in BlockId /\ top.from \in BlockId /\ BlockId \subseteq Nat
        /\ top.end # None
    BY <1>1, TopTyped DEF FrameOK
  <1>3. Br(top.end) \in Instr /\ Phi(top.from, insertAt) \in Instr
    BY <1>2, NewBlocks, InstrTypes
  <1>4. bs \in Seq(Seq(Instr)) /\ Len(bs) = Len(blocks)
    BY <1>3, EmitType DEF IInv, TypeOK
  <1>5. blocks' = Emit(bs, top.end, Phi(top.from, insertAt))
    BY DEF LogicalEnd
  <1> HIDE DEF bs
  <1>6. blocks' \in Seq(Seq(Instr)) /\ Len(blocks') = Len(blocks)
    BY <1>3, <1>4, <1>5, EmitType
  <1>7. Walks  BY <1>1, <1>2, <1>6, JoinWalks DEF LogicalEnd, unit
  <1>8. Simple(top)  BY <1>1 DEF Simple, LoopBody, SwitchBody, Scope, Loops
  <1> QED  BY <1>1, <1>7, <1>8, SimpleReturn DEF LogicalEnd, Return, unit

LEMMA ConditionalKeepsInv == IInv /\ Conditional => IInv'
  <1> SUFFICES ASSUME IInv, Conditional  PROVE IInv'  OBVIOUS
  <1> DEFINE f == NewFrame("conditional", "cond", None, None, None, None)
  <1>1. /\ pc = "expression" /\ pc \in Running
        /\ frames' = Append(frames, f) /\ pc' = "expression"
    BY DEF Conditional, Visit, Call, Running
  <1>2. Walks  BY <1>1, QuietWalks DEF Conditional, Visit, unit
  <1>3. Enterable(f) /\ Simple(f) /\ f.h \notin StatementHandlers
    BY <1>2, BlocksStay
       DEF Walks, NewFrame, Frame, Handlers, Phases, Loops, Enterable, FrameOK,
           Simple, LoopBody, SwitchBody, Scope, StatementHandlers
  <1> HIDE DEF f
  <1> QED  BY <1>1, <1>2, <1>3, SimpleCall DEF Conditional, unit

LEMMA ConditionalCondKeepsInv == IInv /\ ConditionalCond => IInv'
  <1> SUFFICES ASSUME IInv, ConditionalCond  PROVE IInv'  OBVIOUS
  <1> DEFINE f == NewFrame("conditional", "fst", None, n3, n2, n1)
  <1>1. /\ pc \in Running /\ frames # <<>> /\ top.h = "conditional"
        /\ top.at = "cond"
    BY DEF ConditionalCond, Returned, Running
  <1>2. /\ n1 \in Nat /\ n2 \in Nat /\ n3 \in Nat
        /\ n1 # None /\ n2 # None /\ n3 # None
        /\ n1 = Len(blocks) + 1 /\ n2 = Len(blocks) + 2
        /\ n3 = Len(blocks) + 3 /\ Len(blocks) \in Nat
    BY NewBlocks DEF n1, n2, n3
  <1>3. blocks' \in Seq(Seq(Instr)) /\ Len(blocks') = Len(blocks) + 3
    <2>1. CondBr(n3, n2) \in Instr  BY <1>2, InstrTypes
    <2> QED  BY <2>1, Built DEF ConditionalCond
  <1>4. /\ n1 \in BlockId' /\ n2 \in BlockId' /\ n3 \in BlockId'
        /\ None \in BlockId' /\ insertAt' = n3
    BY <1>2, <1>3 DEF BlockId, None, ConditionalCond
  <1>5. Walks
    BY <1>1, <1>2, <1>3, <1>4 DEF Walks, ConditionalCond, unit
  <1>6. /\ f \in Frame' /\ f.h = "conditional" /\ f.at = "fst"
        /\ f.alt = n2 /\ f.end = n1
    BY <1>4 DEF NewFrame, Frame, Handlers, Phases, Loops
  <1>7. frames' = [frames EXCEPT ![Len(frames)] = f] /\ pc' = "expression"
    BY DEF ConditionalCond, Proceed
  <1> HIDE DEF f
  <1>8. Enterable(f) /\ Simple(f) /\ Simple(top)
    BY <1>1, <1>2, <1>6 DEF Enterable, FrameOK, Simple, LoopBody, SwitchBody,
                            Scope, Loops
  <1> QED
    BY <1>1, <1>5, <1>6, <1>7, <1>8, SimpleProceed
       DEF ConditionalCond, unit, Running

LEMMA ConditionalFstKeepsInv == IInv /\ ConditionalFst => IInv'
  <1> SUFFICES ASSUME IInv, ConditionalFst  PROVE IInv'  OBVIOUS
  <1> DEFINE f == [top EXCEPT !.at = "secd", !.from = insertAt]
  <1>1. /\ pc \in Running /\ frames # <<>> /\ top.h = "conditional"
        /\ top.at = "fst"
    BY DEF ConditionalFst, Returned, Running
  <1>2. /\ top \in Frame /\ top.alt \in BlockId /\ top.alt # None
        /\ top.end # None /\ insertAt \in BlockId
    BY <1>1, TopTyped DEF FrameOK, IInv, TypeOK
  <1>3. blocks' = blocks /\ BlockId' = BlockId /\ Frame' = Frame
    BY DEF ConditionalFst, BlockId, Frame
  <1>4. Walks
    BY <1>1, <1>2, <1>3, JoinWalks DEF ConditionalFst, unit, IInv, TypeOK
  <1>5. /\ f \in Frame' /\ f.h = "conditional" /\ f.at = "secd"
        /\ f.alt = top.alt /\ f.end = top.end
    BY <1>1, <1>2, <1>3 DEF Frame, Phases
  <1>6. frames' = [frames EXCEPT ![Len(frames)] = f] /\ pc' = "expression"
    BY DEF ConditionalFst, Proceed
  <1> HIDE DEF f
  <1>7. Enterable(f) /\ Simple(f) /\ Simple(top)
    BY <1>1, <1>2, <1>5 DEF Enterable, FrameOK, Simple, LoopBody, SwitchBody,
                            Scope, Loops
  <1> QED
    BY <1>1, <1>4, <1>5, <1>6, <1>7, SimpleProceed
       DEF ConditionalFst, unit, Running

LEMMA ConditionalEndKeepsInv == IInv /\ ConditionalEnd => IInv'
  <1> SUFFICES ASSUME IInv, ConditionalEnd  PROVE IInv'  OBVIOUS
  <1> DEFINE as == Emit(blocks, top.from, Br(top.end))
             bs == Emit(as, insertAt, Br(top.end))
  <1>1. /\ pc \in Running /\ frames # <<>> /\ top.h = "conditional"
        /\ top.at = "secd"
    BY DEF ConditionalEnd, Returned, Running
  <1>2. /\ top.end \in BlockId /\ top.from \in BlockId /\ BlockId \subseteq Nat
        /\ top.end # None
    BY <1>1, TopTyped DEF FrameOK
  <1>3. Br(top.end) \in Instr /\ Phi(top.from, insertAt) \in Instr
    BY <1>2, NewBlocks, InstrTypes
  <1>4. as \in Seq(Seq(Instr)) /\ Len(as) = Len(blocks)
    BY <1>3, EmitType DEF IInv, TypeOK
  <1>5. bs \in Seq(Seq(Instr)) /\ Len(bs) = Len(blocks)
    <2> HIDE DEF as
    <2> QED  BY <1>3, <1>4, EmitType
  <1>6. blocks' = Emit(bs, top.end, Phi(top.from, insertAt))
    BY DEF ConditionalEnd
  <1> HIDE DEF bs
  <1>7. blocks' \in Seq(Seq(Instr)) /\ Len(blocks') = Len(blocks)
    BY <1>3, <1>5, <1>6, EmitType
  <1>8. Walks  BY <1>1, <1>2, <1>7, JoinWalks DEF ConditionalEnd, unit
  <1>9. Simple(top)  BY <1>1 DEF Simple, LoopBody, SwitchBody, Scope, Loops
  <1> QED  BY <1>1, <1>8, <1>9, SimpleReturn DEF ConditionalEnd, Return, unit

LEMMA ConditionalConstantKeepsInv == IInv /\ ConditionalConstant => IInv'
  <1> SUFFICES ASSUME IInv, ConditionalConstant  PROVE IInv'  OBVIOUS
  <1>1. /\ pc \in Running /\ frames # <<>> /\ top.h = "conditional"
        /\ Simple(top)
    BY DEF ConditionalConstant, Returned, Running, Simple, LoopBody, SwitchBody,
           Scope, Loops
  <1>2. top \in Frame  BY <1>1, TopTyped
  <1>3. Walks /\ Frame' = Frame
    BY <1>1, QuietWalks DEF ConditionalConstant, unit
  <1>4. CASE Return
    BY <1>1, <1>3, <1>4, SimpleReturn DEF ConditionalConstant, Return, unit
  <1>5. ASSUME NEW at \in {"constfst", "constsecd"},
               Proceed("expression", [top EXCEPT !.at = at])
        PROVE  IInv'
    <2> DEFINE f == [top EXCEPT !.at = at]
    <2>1. f \in Frame' /\ f.h = "conditional" /\ f.at = at
      BY <1>1, <1>2, <1>3 DEF Frame, Phases
    <2>2. frames' = [frames EXCEPT ![Len(frames)] = f] /\ pc' = "expression"
      BY <1>5 DEF Proceed
    <2> HIDE DEF f
    <2>3. Enterable(f) /\ Simple(f)
      BY <1>5, <2>1 DEF Enterable, FrameOK, Simple, LoopBody, SwitchBody, Scope,
                        Loops
    <2> QED
      BY <1>1, <1>3, <2>1, <2>2, <2>3, SimpleProceed
         DEF ConditionalConstant, unit, Running
  <1> QED  BY <1>4, <1>5 DEF ConditionalConstant

\* Between declarations no handler is in progress and all stacks are empty.
LEMMA NothingOpen ==
    /\ OpenLoops(<<>>) = {} /\ OpenSwitches(<<>>) = {} /\ OpenScopes(<<>>) = {}
    /\ Cardinality({}) = 0
  <1>1. DOMAIN <<>> = {}  OBVIOUS
  <1> QED  BY <1>1, FS_EmptySet DEF OpenLoops, OpenSwitches, OpenScopes

LEMMA EmptyStacks ==
    ASSUME IInv, frames = <<>>
    PROVE  /\ breakJump = <<>> /\ continueJump = <<>> /\ switchBits = <<>>
           /\ caseList = <<>> /\ defaultList = <<>>
  <1>1. Len(breakJump) = 0 /\ Len(continueJump) = 0
    BY NothingOpen DEF IInv, JumpStacksFollowNesting, Matches
  <1>2. Len(switchBits) = 0 /\ Len(caseList) = 0 /\ Len(defaultList) = 0
    BY NothingOpen DEF IInv, SwitchStacksFollowNesting, Matches
  <1> QED  BY <1>1, <1>2, EmptySeq DEF IInv, TypeOK

LEMMA OpensOfFirst ==
    ASSUME NEW S, NEW f \in S, ~LoopBody(f), ~SwitchBody(f), Scope(f)
    PROVE  /\ OpenLoops(Append(<<>>, f)) = {}
           /\ OpenSwitches(Append(<<>>, f)) = {}
           /\ Cardinality(OpenScopes(Append(<<>>, f))) = 1
  <1>1. Append(<<>>, f) = <<f>> /\ DOMAIN <<f>> = {1} /\ <<f>>[1] = f
    OBVIOUS
  <1>2. /\ OpenLoops(<<f>>) = {} /\ OpenSwitches(<<f>>) = {}
        /\ OpenScopes(<<f>>) = {1}
    BY <1>1 DEF OpenLoops, OpenSwitches, OpenScopes, LoopBody, SwitchBody, Scope
  <1>3. Cardinality({1}) = 1  BY FS_Singleton
  <1> QED  BY <1>1, <1>2, <1>3

LEMMA FileScopes ==
    ASSUME IInv, frames = <<>>, pc \notin {"idle", "internal_error"}
    PROVE  symScopes = 1
  <1>1. symScopes = 1 + Cardinality(OpenScopes(frames))
    BY DEF IInv, ScopesFollowNesting
  <1>2. OpenScopes(frames) = {}  BY NothingOpen
  <1>3. Cardinality(OpenScopes(frames)) = 0  BY <1>2, NothingOpen
  <1> QED  BY <1>1, <1>3

LEMMA FileScopesAfter ==
    ASSUME symScopes' = 1, frames' = <<>>, pc' # "idle"
    PROVE  ScopesFollowNesting'
  <1>1. OpenScopes(frames') = {}  BY NothingOpen
  <1>2. Cardinality(OpenScopes(frames')) = 0  BY <1>1, NothingOpen
  <1> QED  BY <1>2 DEF ScopesFollowNesting

LEMMA EmptyMatches ==
    ASSUME breakJump' = <<>>, continueJump' = <<>>, switchBits' = <<>>,
           caseList' = <<>>, defaultList' = <<>>, frames' = <<>>
    PROVE  JumpStacksFollowNesting' /\ SwitchStacksFollowNesting'
  <1>1. Len(<<>>) = 0 /\ DOMAIN <<>> = {}  OBVIOUS
  <1> QED
    BY <1>1, NothingOpen
       DEF JumpStacksFollowNesting, SwitchStacksFollowNesting, Matches

LEMMA EmptyTypes ==
    ASSUME breakJump' = <<>>, continueJump' = <<>>, switchBits' = <<>>,
           caseList' = <<>>, defaultList' = <<>>
    PROVE  /\ breakJump' \in Seq(BlockId') /\ continueJump' \in Seq(BlockId')
           /\ caseList' \in Seq(SUBSET CaseEntry')
           /\ defaultList' \in Seq(BlockId')
           /\ switchBits' \in Seq(SwitchWidths)
  BY EmptySeq

LEMMA FunctionDefinitionKeepsInv ==
    ASSUME IInv, NEW kind \in ResultKinds, FunctionDefinition(kind)
    PROVE  IInv'
  <1> DEFINE f == NewFrame("function", "list", None, None, None, None)
  <1>1. pc = "file" /\ frames = <<>> /\ symScopes = 1
    BY FileScopes DEF FunctionDefinition, ClearLabels, IInv, WalkOK
  <1>2. /\ breakJump' = <<>> /\ continueJump' = <<>> /\ switchBits' = <<>>
        /\ caseList' = <<>> /\ defaultList' = <<>>
    BY <1>1, EmptyStacks DEF FunctionDefinition, ClearLabels, jumps, switches
  <1>3. kind \in {"void", "value"}  BY ControlFlowAssumption
  <1>4. blocks' \in Seq(Seq(Instr)) /\ Len(blocks') = 1 /\ insertAt' = 1
    <2>1. <<>> \in Seq(Instr)  BY EmptySeq
    <2> QED  BY <2>1 DEF FunctionDefinition, ClearLabels
  <1>5. BlockId' = 0..1  BY <1>4 DEF BlockId
  <1>6. /\ f \in Frame' /\ f.h = "function" /\ f.at = "list"
    BY <1>5 DEF NewFrame, Frame, Handlers, Phases, Loops, None
  <1>7. frames' = Append(<<>>, f) /\ pc' = "returned"
    BY <1>1 DEF FunctionDefinition, ClearLabels, Call
  <1> HIDE DEF f
  <1>8. <<>> \in Seq(Frame') /\ frames' \in Seq(Frame')
    BY <1>6, <1>7, EmptySeq, AppendProperties
  <1>9. TypeOK'
    <2>1. /\ gotoJump' \in [Labels -> SUBSET BlockId']
          /\ gotoJump' \in [Labels -> SUBSET Nat]
          /\ labelJump' \in [Labels -> BlockId']
          /\ labelJump' \in [Labels -> Nat]
          /\ gotoSites' \subseteq Nat \X Labels
      BY <1>5 DEF FunctionDefinition, ClearLabels, None
    <2>2. corrupted' \in BOOLEAN
      BY DEF FunctionDefinition, ClearLabels, IInv, TypeOK
    <2>3. symScopes' \in Int /\ nodes' \in Nat
          /\ currentFunction' \in {"none", "void", "value"} /\ pc' \in PCs
          /\ insertAt' \in BlockId'
      BY <1>1, <1>3, <1>4, <1>5, <1>7 DEF FunctionDefinition, ClearLabels, PCs
    <2> QED  BY <1>2, <1>4, <1>8, <2>1, <2>2, <2>3, EmptyTypes DEF TypeOK
  <1>10. WalkOK'
    <2>1. FramesWalk(<<>>) /\ ~FramesIn(<<>>)
      BY DEF FramesWalk, FramesIn
    <2>2. FrameOK(f)  BY <1>6 DEF FrameOK, Loops
    <2>3. f.h \notin StatementHandlers
      BY <1>6 DEF StatementHandlers, Loops
    <2>4. FramesWalk(frames') /\ FramesIn(frames')
      BY <1>6, <1>7, <1>8, <2>1, <2>2, <2>3, WalkOfAppend
    <2>5. currentFunction' # "none" /\ insertAt' # None
      BY <1>3, <1>4 DEF FunctionDefinition, ClearLabels, None
    <2> QED
      BY <1>7, <2>4, <2>5 DEF WalkOK, FramesWalk, FramesIn, InFunction
  <1>11. /\ ~LoopBody(f) /\ ~SwitchBody(f) /\ Scope(f)
    BY <1>6 DEF LoopBody, SwitchBody, Scope, Loops
  <1>12. /\ OpenLoops(frames') = {} /\ OpenSwitches(frames') = {}
         /\ Cardinality(OpenScopes(frames')) = 1
    BY <1>6, <1>7, <1>8, <1>11, OpensOfFirst
  <1>13. JumpStacksFollowNesting' /\ SwitchStacksFollowNesting'
    <2>1. Len(<<>>) = 0 /\ DOMAIN <<>> = {}  OBVIOUS
    <2> QED
      BY <1>2, <1>12, <2>1, NothingOpen
         DEF JumpStacksFollowNesting, SwitchStacksFollowNesting, Matches
  <1>14. ScopesFollowNesting'
    BY <1>1, <1>7, <1>12 DEF ScopesFollowNesting, FunctionDefinition, ClearLabels
  <1> QED  BY <1>9, <1>10, <1>13, <1>14 DEF IInv

LEMMA FunctionEndKeepsInv == IInv /\ FunctionEnd => IInv'
  <1> SUFFICES ASSUME IInv, FunctionEnd  PROVE IInv'  OBVIOUS
  <1>1. /\ pc \in Running /\ pc = "returned" /\ frames # <<>>
        /\ top.h = "function" /\ top.at = "list"
    BY DEF FunctionEnd, Returned, Running
  <1>2. /\ frames \in Seq(Frame) /\ Front(frames) \in Seq(Frame)
        /\ top \in Frame /\ frames = Append(Front(frames), top)
    BY <1>1, FrameStack DEF IInv, TypeOK, top, Last
  <1>3. Front(frames) = <<>> /\ frames = Append(<<>>, top)
    <2>1. FramesWalk(Append(Front(frames), top))
      BY <1>1, <1>2, InvParts
    <2> QED  BY <1>1, <1>2, <2>1, WalkOfAppend
  <1>4. /\ ~LoopBody(top) /\ ~SwitchBody(top) /\ Scope(top)
    BY <1>1 DEF LoopBody, SwitchBody, Scope, Loops
  <1>5. /\ OpenLoops(frames) = {} /\ OpenSwitches(frames) = {}
        /\ Cardinality(OpenScopes(frames)) = 1
    <2>1. frames = Append(<<>>, top) /\ top \in Frame  BY <1>2, <1>3
    <2> QED  BY <1>4, <2>1, OpensOfFirst
  <1>6. /\ breakJump = <<>> /\ continueJump = <<>> /\ switchBits = <<>>
        /\ caseList = <<>> /\ defaultList = <<>>
    <2>1. Len(breakJump) = 0 /\ Len(continueJump) = 0
      BY <1>5, NothingOpen DEF IInv, JumpStacksFollowNesting, Matches
    <2>2. Len(switchBits) = 0 /\ Len(caseList) = 0 /\ Len(defaultList) = 0
      BY <1>5, NothingOpen DEF IInv, SwitchStacksFollowNesting, Matches
    <2> QED  BY <2>1, <2>2, EmptySeq DEF IInv, TypeOK
  <1>7. symScopes = 2
    BY <1>1, <1>5 DEF IInv, ScopesFollowNesting
  <1>8. /\ blocks' \in Seq(Seq(Instr)) /\ Len(blocks') = Len(blocks)
    BY InstrTypes, EmitType DEF FunctionEnd, IInv, TypeOK
  <1>9. /\ BlockId' = BlockId /\ Frame' = Frame /\ CaseEntry' = CaseEntry
    BY <1>8 DEF BlockId, Frame, CaseEntry
  <1>10. /\ UNCHANGED <<insertAt, breakJump, continueJump, caseList, defaultList,
                        switchBits, gotoJump, labelJump, gotoSites,
                        currentFunction, corrupted, nodes>>
    BY DEF FunctionEnd, jumps, switches, labels
  <1>11. CASE /\ symScopes' = symScopes - 1 /\ frames' = <<>> /\ pc' = "file"
    <2>1. TypeOK'
      <3>1. frames' \in Seq(Frame')  BY <1>11, EmptySeq
      <3>2. symScopes' \in Int /\ pc' \in PCs  BY <1>7, <1>11 DEF PCs
      <3> QED  BY <1>8, <1>9, <1>10, <3>1, <3>2 DEF IInv, TypeOK
    <2>2. WalkOK'
      BY <1>10, <1>11 DEF IInv, WalkOK, InFunction
    <2>3. JumpStacksFollowNesting' /\ SwitchStacksFollowNesting'
      BY <1>6, <1>10, <1>11, EmptyMatches
    <2>4. ScopesFollowNesting'
      BY <1>7, <1>11, NothingOpen DEF ScopesFollowNesting
    <2> QED  BY <2>1, <2>2, <2>3, <2>4 DEF IInv
  <1>12. CASE pc' = "internal_error" /\ UNCHANGED <<symScopes, frames>>
    <2>1. TypeOK'
      <3>1. pc' \in PCs  BY <1>12 DEF PCs, Stopped
      <3> QED  BY <1>8, <1>9, <1>10, <1>12, <3>1 DEF IInv, TypeOK
    <2>2. WalkOK'
      BY <1>10, <1>12 DEF IInv, WalkOK, InFunction
    <2>3. JumpStacksFollowNesting' /\ SwitchStacksFollowNesting'
      BY <1>10, <1>12
         DEF IInv, JumpStacksFollowNesting, SwitchStacksFollowNesting
    <2>4. ScopesFollowNesting'  BY <1>12 DEF ScopesFollowNesting
    <2> QED  BY <2>1, <2>2, <2>3, <2>4 DEF IInv
  <1> QED  BY <1>11, <1>12 DEF FunctionEnd

LEMMA UnitStartKeepsInv == IInv /\ UnitStart => IInv'
  <1> SUFFICES ASSUME IInv, UnitStart  PROVE IInv'  OBVIOUS
  <1>1. pc = "idle" /\ frames = <<>> /\ symScopes = 0
    BY DEF UnitStart, IInv, WalkOK, ScopesFollowNesting
  <1>2. /\ breakJump' = <<>> /\ continueJump' = <<>> /\ switchBits' = <<>>
        /\ caseList' = <<>> /\ defaultList' = <<>> /\ frames' = <<>>
    BY <1>1, EmptyStacks DEF UnitStart, switches
  <1>3. blocks' \in Seq(Seq(Instr)) /\ Len(blocks') = 0 /\ insertAt' = 0
    BY EmptySeq DEF UnitStart, None
  <1>4. BlockId' = 0..0  BY <1>3 DEF BlockId
  <1>5. TypeOK'
    <2>1. frames' \in Seq(Frame')  BY <1>2, EmptySeq
    <2>2. insertAt' \in BlockId'  BY <1>3, <1>4
    <2>4. pc' \in PCs /\ currentFunction' = "none" /\ corrupted' \in BOOLEAN
      BY DEF UnitStart, PCs
    <2>5. symScopes' \in Int /\ nodes' \in Nat
      BY <1>1 DEF UnitStart
    <2>3. /\ gotoJump' \in [Labels -> SUBSET Nat]
          /\ labelJump' \in [Labels -> Nat]
          /\ gotoSites' \subseteq Nat \X Labels
      BY DEF UnitStart, labels, IInv, TypeOK
    <2> QED
      BY <1>2, <1>3, <2>1, <2>2, <2>3, <2>4, <2>5, EmptyTypes DEF TypeOK
  <1>6. WalkOK'  BY <1>2 DEF UnitStart, WalkOK, InFunction
  <1>7. JumpStacksFollowNesting' /\ SwitchStacksFollowNesting'
    BY <1>2, EmptyMatches
  <1>8. ScopesFollowNesting'
    <2>1. symScopes' = 1 /\ pc' = "file"  BY <1>1 DEF UnitStart
    <2> QED  BY <1>2, <2>1, FileScopesAfter
  <1> QED  BY <1>5, <1>6, <1>7, <1>8 DEF IInv

LEMMA UnitEndKeepsInv == IInv /\ UnitEnd => IInv'
  <1> SUFFICES ASSUME IInv, UnitEnd  PROVE IInv'  OBVIOUS
  <1> USE DEF fnVars, jumps, switches, labels
  <1>1. /\ pc = "file" /\ frames = <<>> /\ symScopes = 1
        /\ pc' \in {"internal_error", "idle"} /\ symScopes' = 0
    <2>1. pc = "file" /\ frames = <<>>  BY DEF UnitEnd, IInv, WalkOK
    <2>2. symScopes = 1  BY <2>1, FileScopes
    <2> QED  BY <2>1, <2>2 DEF UnitEnd
  <1>2. Frame' = Frame /\ BlockId' = BlockId /\ CaseEntry' = CaseEntry
    BY DEF UnitEnd, Frame, BlockId, CaseEntry
  <1>3. TypeOK'
    <2>1. pc' \in PCs /\ symScopes' \in Int  BY <1>1 DEF PCs, Stopped
    <2> QED  BY <1>2, <2>1 DEF UnitEnd, IInv, TypeOK
  <1>4. WalkOK'  BY <1>1 DEF UnitEnd, IInv, WalkOK, InFunction
  <1>5. JumpStacksFollowNesting' /\ SwitchStacksFollowNesting'
    BY DEF UnitEnd, IInv, JumpStacksFollowNesting, SwitchStacksFollowNesting
  <1>6. ScopesFollowNesting'  BY <1>1 DEF ScopesFollowNesting
  <1> QED  BY <1>3, <1>4, <1>5, <1>6 DEF IInv

\* The walk moves between the file and an expression outside any function.
LEMMA FileScopeKeepsInv ==
    ASSUME IInv, FileScopeExpression \/ FileScopeExpressionEnd
    PROVE  IInv'
  <1> USE DEF fnVars, jumps, switches, labels, unit, FileScopeExpression,
              FileScopeExpressionEnd
  <1>1. /\ frames = <<>> /\ symScopes = 1
        /\ pc' \in {"expression", "file"} /\ frames' = frames
    <2>1. frames = <<>> /\ pc \in {"file", "returned"}
      BY DEF IInv, WalkOK
    <2>2. symScopes = 1  BY <2>1, FileScopes
    <2> QED  BY <2>1, <2>2
  <1>2. Frame' = Frame /\ BlockId' = BlockId /\ CaseEntry' = CaseEntry
    BY DEF Frame, BlockId, CaseEntry
  <1>3. TypeOK'
    <2>1. pc' \in PCs  BY <1>1 DEF PCs
    <2> QED  BY <1>2, <2>1 DEF IInv, TypeOK
  <1>4. WalkOK'  BY <1>1 DEF IInv, WalkOK, InFunction
  <1>5. JumpStacksFollowNesting' /\ SwitchStacksFollowNesting'
    BY DEF IInv, JumpStacksFollowNesting, SwitchStacksFollowNesting
  <1>6. ScopesFollowNesting'
    BY <1>1, FileScopesAfter
  <1> QED  BY <1>3, <1>4, <1>5, <1>6 DEF IInv

LEMMA StutterKeepsInv == IInv /\ UNCHANGED vars => IInv'
  <1> SUFFICES ASSUME IInv, UNCHANGED vars  PROVE IInv'  OBVIOUS
  <1> USE DEF vars, fnVars, walk, jumps, switches, labels, unit
  <1>1. Frame' = Frame /\ BlockId' = BlockId /\ CaseEntry' = CaseEntry
    BY DEF Frame, BlockId, CaseEntry
  <1>2. TypeOK'  BY <1>1 DEF IInv, TypeOK
  <1>3. WalkOK'  BY DEF IInv, WalkOK, InFunction
  <1>4. JumpStacksFollowNesting' /\ SwitchStacksFollowNesting'
        /\ ScopesFollowNesting'
    BY DEF IInv, JumpStacksFollowNesting, SwitchStacksFollowNesting,
           ScopesFollowNesting
  <1> QED  BY <1>2, <1>3, <1>4 DEF IInv

----------------------------------------------------------------------------
(* The invariant                                                           *)

LEMMA InitInv == Init => IInv
  <1> SUFFICES ASSUME Init  PROVE IInv  OBVIOUS
  <1>1. TypeOK
    <2>1. /\ blocks \in Seq(Seq(Instr)) /\ frames \in Seq(Frame)
          /\ breakJump \in Seq(BlockId) /\ continueJump \in Seq(BlockId)
          /\ caseList \in Seq(SUBSET CaseEntry)
          /\ defaultList \in Seq(BlockId)
          /\ switchBits \in Seq(SwitchWidths)
      BY EmptySeq DEF Init
    <2>2. insertAt \in BlockId  BY EmptySeq DEF Init, BlockId, None
    <2>3. /\ gotoJump \in [Labels -> SUBSET Nat]
          /\ labelJump \in [Labels -> Nat]
          /\ gotoSites \subseteq Nat \X Labels
      BY DEF Init, None
    <2>4. currentFunction = "none" /\ pc \in PCs  BY DEF Init, PCs
    <2>5. symScopes \in Int /\ nodes \in Nat  BY DEF Init
    <2>6. corrupted \in BOOLEAN  BY Zenon DEF Init
    <2> QED  BY <2>1, <2>2, <2>3, <2>4, <2>5, <2>6 DEF TypeOK
  <1>2. WalkOK  BY DEF Init, WalkOK, InFunction
  <1>3. JumpStacksFollowNesting /\ SwitchStacksFollowNesting
    <2>1. Len(<<>>) = 0 /\ DOMAIN <<>> = {}  OBVIOUS
    <2> QED
      BY <2>1, NothingOpen
         DEF Init, JumpStacksFollowNesting, SwitchStacksFollowNesting, Matches
  <1>4. ScopesFollowNesting  BY DEF Init, ScopesFollowNesting
  <1> QED  BY <1>1, <1>2, <1>3, <1>4 DEF IInv

\* Every step keeps the stacks in step with the handlers in progress.
LEMMA NextKeepsInv == IInv /\ [Next]_vars => IInv'
  <1> SUFFICES ASSUME IInv, [Next]_vars  PROVE IInv'  OBVIOUS
  <1>1. CASE Iteration
    BY <1>1, WhileKeepsInv, WhileCondKeepsInv, WhileEndKeepsInv, DoKeepsInv,
       DoBodyKeepsInv, DoEndKeepsInv, ForKeepsInv, ForInitKeepsInv,
       ForCondKeepsInv, ForIncKeepsInv, ForEndKeepsInv
       DEF Iteration
  <1>2. CASE Jump
    BY <1>2, ContinueKeepsInv, BreakKeepsInv, StrayJumpKeepsInv,
       ReturnValueKeepsInv, ReturnValueEndKeepsInv, ReturnVoidKeepsInv,
       GotoKeepsInv
       DEF Jump
  <1>3. CASE Labelled
    BY <1>3, LabelKeepsInv, DuplicateLabelKeepsInv, CaseKeepsInv,
       DefaultKeepsInv, CaseOutsideSwitchKeepsInv
       DEF Labelled
  <1>4. CASE Selection
    BY <1>4, IfKeepsInv, IfCondKeepsInv, IfThenKeepsInv, IfElseKeepsInv,
       SwitchKeepsInv, SwitchValueKeepsInv, SwitchEndKeepsInv
       DEF Selection
  <1>5. CASE Grouping
    BY <1>5, CompoundKeepsInv, NextStatementKeepsInv, CompoundEndKeepsInv,
       ExpressionStatementKeepsInv
       DEF Grouping
  <1>6. CASE Expression
    BY <1>6, OperandKeepsInv, BinaryKeepsInv, BinaryLhsKeepsInv,
       BinaryEndKeepsInv, LogicalKeepsInv, LogicalLhsKeepsInv,
       LogicalWithoutFunctionKeepsInv, LogicalEndKeepsInv, ConditionalKeepsInv,
       ConditionalCondKeepsInv, ConditionalFstKeepsInv, ConditionalEndKeepsInv,
       ConditionalConstantKeepsInv
       DEF Expression
  <1>7. CASE Unit
    BY <1>7, FunctionDefinitionKeepsInv, UndeclaredLabelKeepsInv,
       FunctionEndKeepsInv, UnitStartKeepsInv, UnitEndKeepsInv,
       FileScopeKeepsInv, SemanticErrorKeepsInv
       DEF Unit
  <1>8. CASE Stay \/ UNCHANGED vars
    BY <1>8, StutterKeepsInv DEF Stay
  <1> QED
    BY <1>1, <1>2, <1>3, <1>4, <1>5, <1>6, <1>7, <1>8 DEF Next

\* In every reachable state of the walk of any program the generator's stacks,
\* the symbol table and the insert point agree with the statements that are
\* open (statement.cc's hand-written pushes and pops).
THEOREM Invariance == Spec => []IInv
  BY InitInv, NextKeepsInv, PTL DEF Spec

\* Every block that a handler, a jump stack or a label table remembers exists.
THEOREM TypeCorrect == Spec => []TypeOK
  <1>1. IInv => TypeOK  BY DEF IInv
  <1> QED  BY <1>1, Invariance, PTL

\* break and continue find the targets of the statements open around them:
\* breakJump and continueJump are pushed and popped in step.
THEOREM JumpTargets == Spec => []JumpStacksFollowNesting
  <1>1. IInv => JumpStacksFollowNesting  BY DEF IInv
  <1> QED  BY <1>1, Invariance, PTL

\* A case constant goes to the innermost open switch and has its width.
THEOREM SwitchCases == Spec => []SwitchStacksFollowNesting
  <1>1. IInv => SwitchStacksFollowNesting  BY DEF IInv
  <1> QED  BY <1>1, Invariance, PTL

\* symTable is as deep as the scopes that are open.
THEOREM Scopes == Spec => []ScopesFollowNesting
  <1>1. IInv => ScopesFollowNesting  BY DEF IInv
  <1> QED  BY <1>1, Invariance, PTL

----------------------------------------------------------------------------
(***************************************************************************)
(* What codegen() does to the basic blocks: the inductive invariant Graph  *)
(* and the properties of ControlFlow that follow from it.                  *)
(*                                                                         *)
(* The argument is one of ownership.  Of the blocks that exist, each that  *)
(* still needs instructions belongs to exactly one of: the insert point, a *)
(* handler in progress that will move the insert point there, or the gotos *)
(* that wait for a label (Owned).  A block that belongs to one of these    *)
(* has no terminator yet but possibly a switch in its middle; every other  *)
(* block ends in a terminator (Shaped).  A step takes some blocks from     *)
(* their owners and gives them to others or finishes them (Handed), which  *)
(* GraphStep turns into Graph'.  Beside that, Linked says that a phi names *)
(* its block's predecessors and that nothing may come to branch to such a  *)
(* block any more: the targets still to come are all in Aims.              *)
(***************************************************************************)

----------------------------------------------------------------------------
(* The blocks a function still has to fill *)

\* The blocks a handler has made and has yet to enter, by the field of its
\* frame that names them.
EndAhead(f) ==
    \/ f.h \in Loops \cup {"if"}
    \/ SwitchBody(f)
    \/ f.h \in {"and", "or"} /\ f.at = "rhs"
    \/ f.h = "conditional" /\ f.at \in {"fst", "secd"}
BodyAhead(f) ==
    \/ f.h \in {"while", "if"} /\ f.at = "cond"
    \/ f.h = "for" /\ f.at # "body"
AltAhead(f) ==
    \/ f.h = "for" /\ f.at \in {"init", "cond", "nocond"}
    \/ f.h = "if" /\ f.at \in {"cond", "then"}
    \/ f.h = "conditional" /\ f.at = "fst"
FromAhead(f) ==
    \/ f.h = "do" /\ f.at = "body"
    \/ f.h = "for" /\ f.at = "init"

Ahead(f) ==
    {b \in Nat \ {None} :
        \/ EndAhead(f) /\ b = f.end
        \/ BodyAhead(f) /\ b = f.body
        \/ AltAhead(f) /\ b = f.alt
        \/ FromAhead(f) /\ b = f.from}

\* ... and the block it has left and will come back to: the one in which the
\* second operand of `?:` ended.
Behind(f) ==
    {b \in Nat : f.h = "conditional" /\ f.at = "secd" /\ b = f.from}

Held(f) == Ahead(f) \cup Behind(f)

\* A handler keeps its blocks apart.
Distinct(f) ==
    /\ f.h \in Loops \cup {"if"} =>
          /\ f.end \notin {f.body, f.alt, f.from}
          /\ f.body \notin {f.alt, f.from}
          /\ f.alt = f.from => f.alt = None
    /\ f.h = "conditional" /\ f.at \in {"fst", "secd"} =>
          f.end # f.alt /\ (f.at = "secd" => f.end # f.from)

Members(fs) == {fs[i] : i \in DOMAIN fs}
HeldBy(F) == UNION {Held(f) : f \in F}
Waits(gj) == UNION {gj[l] : l \in Labels}

\* Of all handlers, the insert point and the gotos that wait for a label, no
\* two have a block in common.
Apart(fs) ==
    /\ \A f \in Members(fs) : Distinct(f)
    /\ \A i, j \in DOMAIN fs : i # j => Held(fs[i]) \cap Held(fs[j]) = {}
Owned(fs, cur, gj) ==
    /\ Apart(fs)
    /\ cur \notin HeldBy(Members(fs)) /\ cur \notin Waits(gj)
    /\ HeldBy(Members(fs)) \cap Waits(gj) = {}
    /\ \A l, m \in Labels : l # m => gj[l] \cap gj[m] = {}

\* The blocks that more instructions will be added to.
Unfinished(fs, cur, gj) == HeldBy(Members(fs)) \cup {cur} \cup Waits(gj)

----------------------------------------------------------------------------
(* What is in the blocks *)

Loose(s) == \A k \in DOMAIN s : s[k].op \in {"plain", "phi", "switch"}
Straight(s) == \A k \in 1..(Len(s) - 1) : s[k].op \in {"plain", "phi", "switch"}
Finished(s) ==
    \/ s # <<>> /\ Last(s).op \in Terminators
    \/ s = <<>> /\ TRUE \in StaleBack

\* Blocks yet to be filled are open; all others end in a terminator.
Shaped(bs, unfinished) ==
    /\ unfinished \subseteq DOMAIN bs
    /\ \A b \in DOMAIN bs :
          /\ Straight(bs[b])
          /\ IF b \in unfinished THEN Loose(bs[b]) ELSE Finished(bs[b])

\* Each goto statement waits for its label or branches to it.
Patched(bs, sites, gj, lj) ==
    /\ \A l \in Labels : lj[l] # None => gj[l] = {}
    /\ \A site \in sites :
          LET b == site[1]  l == site[2] IN
          IF lj[l] = None
          THEN b \in gj[l]
          ELSE /\ b \in DOMAIN bs /\ bs[b] # <<>>
               /\ Last(bs[b]) = Br(lj[l])

\* The SwitchInst an open switch remembers.
SwitchAt(bs, f) ==
    /\ f.from \in DOMAIN bs /\ f.pos \in DOMAIN bs[f.from]
    /\ bs[f.from][f.pos] = SwitchInst({f.end})

\* The blocks a branch may yet go to.
Goals(f) ==
    {b \in Nat :
        \/ f.h \in Loops \cup {"if"} /\ b \in {f.from, f.body, f.alt, f.end}
        \/ SwitchBody(f) /\ b = f.end}
Elements(s) == {s[i] : i \in DOMAIN s}
StackAims ==
    Elements(breakJump) \cup Elements(continueJump) \cup Elements(defaultList)
    \cup {cs.block : cs \in UNION Elements(caseList)}
GoalsBy(F) == UNION {Goals(f) : f \in F}
Aims == GoalsBy(Members(frames)) \cup Elements(labelJump) \cup StackAims \cup {None}

\* A handler that will put a phi into its last block.
Joins(f) ==
    \/ f.h \in {"and", "or"} /\ f.at = "rhs"
    \/ f.h = "conditional" /\ f.at \in {"fst", "secd"}
JoinedFrom(f) == IF f.h = "conditional" THEN {} ELSE {f.from}
Joined(bs, aims, f) ==
    /\ f.end \in DOMAIN bs \ {1} /\ f.end \notin aims
    /\ Predecessors(bs, f.end) = JoinedFrom(f)

Linked(bs, aims, J) ==
    /\ aims \subseteq 0..Len(bs)
    /\ \A b \in DOMAIN bs : \A k \in DOMAIN bs[b] : bs[b][k].to \subseteq 0..Len(bs)
    /\ 1 \notin aims /\ Predecessors(bs, 1) = {}
    /\ \A b \in DOMAIN bs : \A k \in DOMAIN bs[b] :
          bs[b][k].op = "phi" =>
              k = 1 /\ b \notin aims /\ bs[b][k].to = Predecessors(bs, b)
    /\ \A f \in J : Joined(bs, aims, f)

Joining(F) == {f \in F : Joins(f)}

AheadBy(F) == UNION {Ahead(f) : f \in F}

\* The function being generated, and the last one between two functions.
Kept ==
    /\ Owned(frames, insertAt, gotoJump)
    /\ \A b \in AheadBy(Members(frames)) : b \in DOMAIN blocks /\ blocks[b] = <<>>
    /\ HeldBy(Members(frames)) \subseteq DOMAIN blocks
    /\ \A f \in Members(frames) : SwitchBody(f) => SwitchAt(blocks, f)
    /\ Linked(blocks, Aims, Joining(Members(frames)))
Generated ==
    /\ Shaped(blocks, IF pc = "internal_error" THEN {}
                      ELSE Unfinished(frames, insertAt, gotoJump))
    /\ Patched(blocks, gotoSites, gotoJump, labelJump)
    /\ pc = "internal_error" => Waits(gotoJump) = {} /\ ~Verified(blocks)

\* The inductive invariant of this module, next to IInv.
Graph ==
    /\ currentFunction = "none" => blocks = <<>>
    /\ currentFunction # "none" => Kept
    /\ InFunction => Generated

----------------------------------------------------------------------------
(* What the steps do to the blocks *)

Before(bs, b) == IF b \in DOMAIN bs THEN bs[b] ELSE <<>>

\* New blocks at the end, and one more instruction in each block of `add`.
Wrote(bs, bs2, add) ==
    /\ bs \in Seq(Seq(Instr)) /\ bs2 \in Seq(Seq(Instr))
    /\ Len(bs) <= Len(bs2)
    /\ DOMAIN add \subseteq DOMAIN bs2
    /\ \A b \in DOMAIN add : add[b] \in Instr
    /\ \A b \in DOMAIN bs2 :
          bs2[b] = IF b \in DOMAIN add THEN Append(Before(bs, b), add[b])
                                       ELSE Before(bs, b)

Nothing == [b \in {} |-> Plain]
Only(b, i) == [c \in {b} |-> i]

LEMMA WroteFacts ==
    ASSUME NEW bs, NEW bs2, NEW add, Wrote(bs, bs2, add)
    PROVE  /\ Len(bs) \in Nat /\ Len(bs2) \in Nat /\ Len(bs) <= Len(bs2)
           /\ DOMAIN bs = 1..Len(bs) /\ DOMAIN bs2 = 1..Len(bs2)
           /\ DOMAIN bs \subseteq DOMAIN bs2
           /\ \A b \in DOMAIN bs2 : Before(bs, b) \in Seq(Instr) /\ bs2[b] \in Seq(Instr)
  <1>1. /\ bs \in Seq(Seq(Instr)) /\ bs2 \in Seq(Seq(Instr)) /\ Len(bs) <= Len(bs2)
    BY DEF Wrote
  <1>2. /\ Len(bs) \in Nat /\ Len(bs2) \in Nat
        /\ DOMAIN bs = 1..Len(bs) /\ DOMAIN bs2 = 1..Len(bs2)
    BY <1>1, LenProperties
  <1>3. DOMAIN bs \subseteq DOMAIN bs2  BY <1>1, <1>2
  <1>4. <<>> \in Seq(Instr)  BY EmptySeq
  <1>5. \A b \in DOMAIN bs2 : Before(bs, b) \in Seq(Instr) /\ bs2[b] \in Seq(Instr)
    BY <1>1, <1>2, <1>4, ElementOfSeq DEF Before
  <1> QED  BY <1>1, <1>2, <1>3, <1>5

LEMMA AppendAt ==
    ASSUME NEW s \in Seq(Instr), NEW i \in Instr
    PROVE  /\ Append(s, i) \in Seq(Instr) /\ Append(s, i) # <<>>
           /\ Len(s) \in Nat /\ DOMAIN s = 1..Len(s)
           /\ Len(Append(s, i)) = Len(s) + 1
           /\ DOMAIN Append(s, i) = 1..(Len(s) + 1)
           /\ Append(s, i)[Len(s) + 1] = i /\ Last(Append(s, i)) = i
           /\ \A k \in 1..Len(s) : Append(s, i)[k] = s[k]
  <1>1. /\ Append(s, i) \in Seq(Instr) /\ Len(Append(s, i)) = Len(s) + 1
        /\ Append(s, i)[Len(s) + 1] = i
        /\ \A k \in 1..Len(s) : Append(s, i)[k] = s[k]
    BY AppendProperties
  <1>2. Len(s) \in Nat /\ DOMAIN s = 1..Len(s)
        /\ DOMAIN Append(s, i) = 1..Len(Append(s, i))
    BY <1>1, LenProperties
  <1>3. Append(s, i) # <<>>  BY <1>1, <1>2, EmptySeq
  <1>4. Last(Append(s, i)) = i  BY <1>1 DEF Last
  <1> QED  BY <1>1, <1>2, <1>3, <1>4

\* The instructions there were stay where they were.
LEMMA WroteStays ==
    ASSUME NEW bs, NEW bs2, NEW add, Wrote(bs, bs2, add),
           NEW b \in DOMAIN bs, NEW k \in DOMAIN bs[b]
    PROVE  /\ b \in DOMAIN bs2 /\ k \in DOMAIN bs2[b] /\ bs2[b][k] = bs[b][k]
  <1>1. b \in DOMAIN bs2 /\ bs[b] \in Seq(Instr) /\ Before(bs, b) = bs[b]
    BY WroteFacts DEF Before
  <1>2. CASE b \in DOMAIN add
    <2>1. bs2[b] = Append(bs[b], add[b]) /\ add[b] \in Instr
      BY <1>1, <1>2 DEF Wrote
    <2>2. /\ DOMAIN bs[b] = 1..Len(bs[b]) /\ Len(bs[b]) \in Nat
          /\ DOMAIN Append(bs[b], add[b]) = 1..(Len(bs[b]) + 1)
          /\ \A j \in 1..Len(bs[b]) : Append(bs[b], add[b])[j] = bs[b][j]
      BY <1>1, <2>1, AppendAt
    <2> QED  BY <1>1, <2>1, <2>2
  <1>3. CASE b \notin DOMAIN add
    BY <1>1, <1>3 DEF Wrote
  <1> QED  BY <1>2, <1>3

\* What is in a block afterwards.
LEMMA WroteInstr ==
    ASSUME NEW bs, NEW bs2, NEW add, Wrote(bs, bs2, add),
           NEW b \in DOMAIN bs2, NEW k \in DOMAIN bs2[b]
    PROVE  \/ b \in DOMAIN bs /\ k \in DOMAIN bs[b] /\ bs2[b][k] = bs[b][k]
           \/ /\ b \in DOMAIN add /\ bs2[b][k] = add[b]
              /\ k = Len(Before(bs, b)) + 1 /\ k = Len(bs2[b])
  <1>1. Before(bs, b) \in Seq(Instr)  BY WroteFacts
  <1>2. k \in DOMAIN Before(bs, b) => b \in DOMAIN bs /\ k \in DOMAIN bs[b]
                                      /\ Before(bs, b) = bs[b]
    <2>1. DOMAIN <<>> = {}  OBVIOUS
    <2> QED  BY <2>1 DEF Before
  <1>3. CASE b \in DOMAIN add
    <2>1. bs2[b] = Append(Before(bs, b), add[b]) /\ add[b] \in Instr
      BY <1>3 DEF Wrote
    <2> DEFINE s == Before(bs, b)
    <2> HIDE DEF s
    <2>2. /\ DOMAIN s = 1..Len(s) /\ Len(s) \in Nat
          /\ DOMAIN Append(s, add[b]) = 1..(Len(s) + 1)
          /\ Len(Append(s, add[b])) = Len(s) + 1
          /\ Append(s, add[b])[Len(s) + 1] = add[b]
          /\ \A j \in 1..Len(s) : Append(s, add[b])[j] = s[j]
      BY <1>1, <2>1, AppendAt DEF s
    <2>3. bs2[b] = Append(s, add[b])  BY <2>1 DEF s
    <2>4. k \in 1..Len(s) \/ k = Len(s) + 1  BY <2>2, <2>3
    <2>5. CASE k \in 1..Len(s)
      <3>1. k \in DOMAIN s /\ bs2[b][k] = s[k]  BY <2>2, <2>3, <2>5
      <3> QED  BY <1>2, <3>1 DEF s
    <2>6. CASE k = Len(s) + 1
      <3>1. bs2[b][k] = add[b] /\ k = Len(bs2[b])  BY <2>2, <2>3, <2>6
      <3> QED  BY <1>3, <2>6, <3>1 DEF s
    <2> QED  BY <2>4, <2>5, <2>6
  <1>4. CASE b \notin DOMAIN add
    <2>1. bs2[b] = Before(bs, b)  BY <1>4 DEF Wrote
    <2> QED  BY <1>2, <2>1
  <1> QED  BY <1>3, <1>4

----------------------------------------------------------------------------
(* ... and what stays true of them *)

LEMMA EmptyBlock == Loose(<<>>) /\ Straight(<<>>)
  <1>1. DOMAIN <<>> = {} /\ Len(<<>>) = 0  OBVIOUS
  <1> QED  BY <1>1 DEF Loose, Straight

LEMMA LooseAppend ==
    ASSUME NEW s \in Seq(Instr), Loose(s), NEW i \in Instr
    PROVE  /\ Straight(s) /\ Straight(Append(s, i))
           /\ i.op \in {"plain", "phi", "switch"} => Loose(Append(s, i))
           /\ i.op \in Terminators => Finished(Append(s, i))
  <1> DEFINE t == Append(s, i)
  <1>1. /\ t # <<>> /\ Len(s) \in Nat /\ DOMAIN s = 1..Len(s) /\ Len(t) = Len(s) + 1
        /\ DOMAIN t = 1..(Len(s) + 1) /\ t[Len(s) + 1] = i /\ Last(t) = i
        /\ \A k \in 1..Len(s) : t[k] = s[k]
    BY AppendAt
  <1> HIDE DEF t
  <1>2. Straight(s) /\ Straight(t)  BY <1>1 DEF Loose, Straight
  <1>3. i.op \in {"plain", "phi", "switch"} => Loose(t)  BY <1>1 DEF Loose
  <1>4. i.op \in Terminators => Finished(t)  BY <1>1 DEF Finished
  <1> QED  BY <1>2, <1>3, <1>4 DEF t

\* Only blocks yet to be filled are written to; those that are done with end
\* in a terminator (or are what a stale back() left empty).
LEMMA WroteShape ==
    ASSUME NEW bs, NEW bs2, NEW add, Wrote(bs, bs2, add),
           NEW U, NEW U2, Shaped(bs, U), U2 \subseteq DOMAIN bs2,
           \A b \in DOMAIN add : b \in U \/ b \notin DOMAIN bs,
           \A b \in U2 : /\ b \in U \/ b \notin DOMAIN bs
                         /\ b \in DOMAIN add => add[b].op \in {"plain", "phi", "switch"},
           \A b \in DOMAIN bs2 \ U2 :
              b \in U \/ b \notin DOMAIN bs =>
                 \/ b \in DOMAIN add /\ add[b].op \in Terminators
                 \/ Finished(bs2[b])
    PROVE  Shaped(bs2, U2)
  <1> SUFFICES ASSUME NEW b \in DOMAIN bs2
               PROVE  /\ Straight(bs2[b])
                      /\ IF b \in U2 THEN Loose(bs2[b]) ELSE Finished(bs2[b])
    BY DEF Shaped
  <1> DEFINE s == Before(bs, b)
  <1>1. s \in Seq(Instr) /\ (b \in DOMAIN add => add[b] \in Instr)
        /\ bs2[b] = IF b \in DOMAIN add THEN Append(s, add[b]) ELSE s
    BY WroteFacts DEF Wrote
  <1>2. /\ Straight(s) /\ (b \in U \/ b \notin DOMAIN bs => Loose(s))
        /\ (b \in DOMAIN bs /\ b \notin U => Finished(s))
    BY EmptyBlock DEF Before, Shaped
  <1> HIDE DEF s
  <1>3. CASE b \in DOMAIN add
    <2>1. b \in U \/ b \notin DOMAIN bs  BY <1>3
    <2>2. Loose(s)  BY <1>2, <2>1
    <2>3. /\ Straight(bs2[b])
          /\ add[b].op \in {"plain", "phi", "switch"} => Loose(bs2[b])
          /\ add[b].op \in Terminators => Finished(bs2[b])
      BY <1>1, <1>3, <2>2, LooseAppend
    <2>4. CASE b \in U2  BY <1>3, <2>3, <2>4
    <2>5. CASE b \notin U2  BY <1>3, <2>1, <2>3, <2>5
    <2> QED  BY <2>4, <2>5
  <1>4. CASE b \notin DOMAIN add
    <2>1. bs2[b] = s  BY <1>1, <1>4
    <2> QED  BY <1>2, <1>4, <2>1
  <1> QED  BY <1>3, <1>4

\* A branch at the end of a block is the last of it.
LEMMA WroteSettled ==
    ASSUME NEW bs, NEW bs2, NEW add, Wrote(bs, bs2, add),
           \A b \in DOMAIN add : b \in DOMAIN bs => Loose(bs[b]),
           NEW b \in DOMAIN bs, bs[b] # <<>>, NEW i, Last(bs[b]) = i, i.op = "br"
    PROVE  b \notin DOMAIN add /\ b \in DOMAIN bs2 /\ bs2[b] = bs[b]
  <1>1. b \in DOMAIN bs2 /\ bs[b] \in Seq(Instr) /\ Before(bs, b) = bs[b]
    BY WroteFacts DEF Before
  <1>2. Len(bs[b]) \in DOMAIN bs[b]  BY <1>1, LenProperties, EmptySeq
  <1>3. ~Loose(bs[b])  BY <1>2 DEF Loose, Last
  <1>4. b \notin DOMAIN add  BY <1>3
  <1> QED  BY <1>1, <1>4 DEF Wrote

LEMMA WrotePatched ==
    ASSUME NEW bs, NEW bs2, NEW add, Wrote(bs, bs2, add),
           \A b \in DOMAIN add : b \in DOMAIN bs => Loose(bs[b]),
           NEW sites, NEW gj, NEW lj, Patched(bs, sites, gj, lj)
    PROVE  Patched(bs2, sites, gj, lj)
  <1> SUFFICES ASSUME NEW site \in sites, lj[site[2]] # None
               PROVE  /\ site[1] \in DOMAIN bs2 /\ bs2[site[1]] # <<>>
                      /\ Last(bs2[site[1]]) = Br(lj[site[2]])
    BY DEF Patched
  <1>1. /\ site[1] \in DOMAIN bs /\ bs[site[1]] # <<>>
        /\ Last(bs[site[1]]) = Br(lj[site[2]])
    BY DEF Patched
  <1>2. Br(lj[site[2]]).op = "br"  BY DEF Br
  <1>3. site[1] \in DOMAIN bs2 /\ bs2[site[1]] = bs[site[1]]
    BY <1>1, <1>2, WroteSettled
  <1> QED  BY <1>1, <1>3

LEMMA WroteSwitches ==
    ASSUME NEW bs, NEW bs2, NEW add, Wrote(bs, bs2, add),
           NEW f, SwitchAt(bs, f)
    PROVE  SwitchAt(bs2, f)
  BY WroteStays DEF SwitchAt

----------------------------------------------------------------------------
(* Branches and phis *)

\* A block that a branch may go to without making a phi wrong.
Free(bs, J, e) ==
    /\ e # 1
    /\ \A f \in J : e # f.end
    /\ e \in DOMAIN bs => \A k \in DOMAIN bs[e] : bs[e][k].op # "phi"

Adds(add, e) == {b \in DOMAIN add : add[b].op \in Terminators /\ e \in add[b].to}

LEMMA WrotePredecessors ==
    ASSUME NEW bs, NEW bs2, NEW add, Wrote(bs, bs2, add), NEW e
    PROVE  Predecessors(bs2, e) = Predecessors(bs, e) \cup Adds(add, e)
  <1>1. ASSUME NEW p \in Predecessors(bs2, e)
        PROVE  p \in Predecessors(bs, e) \cup Adds(add, e)
    <2>1. PICK k \in DOMAIN bs2[p] : bs2[p][k].op \in Terminators /\ e \in bs2[p][k].to
      BY DEF Predecessors
    <2>2. p \in DOMAIN bs2  BY DEF Predecessors
    <2>3. \/ p \in DOMAIN bs /\ k \in DOMAIN bs[p] /\ bs2[p][k] = bs[p][k]
          \/ p \in DOMAIN add /\ bs2[p][k] = add[p]
      BY <2>2, WroteInstr
    <2> QED  BY <2>1, <2>3 DEF Predecessors, Adds
  <1>2. ASSUME NEW p \in Predecessors(bs, e)
        PROVE  p \in Predecessors(bs2, e)
    <2>1. PICK k \in DOMAIN bs[p] : bs[p][k].op \in Terminators /\ e \in bs[p][k].to
      BY DEF Predecessors
    <2>2. p \in DOMAIN bs  BY DEF Predecessors
    <2>3. p \in DOMAIN bs2 /\ k \in DOMAIN bs2[p] /\ bs2[p][k] = bs[p][k]
      BY <2>2, WroteStays
    <2> QED  BY <2>1, <2>3 DEF Predecessors
  <1>3. ASSUME NEW p \in Adds(add, e)
        PROVE  p \in Predecessors(bs2, e)
    <2>1. /\ p \in DOMAIN add /\ add[p].op \in Terminators /\ e \in add[p].to
          /\ p \in DOMAIN bs2 /\ add[p] \in Instr
          /\ bs2[p] = Append(Before(bs, p), add[p])
          /\ Before(bs, p) \in Seq(Instr)
      BY WroteFacts DEF Adds, Wrote
    <2> DEFINE s == Before(bs, p)
    <2> HIDE DEF s
    <2>2. /\ Len(s) \in Nat /\ DOMAIN Append(s, add[p]) = 1..(Len(s) + 1)
          /\ Append(s, add[p])[Len(s) + 1] = add[p]
      BY <2>1, AppendAt DEF s
    <2>3. Len(s) + 1 \in DOMAIN bs2[p] /\ bs2[p][Len(s) + 1] = add[p]
      BY <2>1, <2>2 DEF s
    <2> QED  BY <2>1, <2>3 DEF Predecessors
  <1> QED  BY <1>1, <1>2, <1>3

LEMMA WroteLinks ==
    ASSUME NEW bs, NEW bs2, NEW add, Wrote(bs, bs2, add),
           NEW A, NEW J, Linked(bs, A, J),
           \A b \in DOMAIN add :
              /\ add[b].op # "phi"
              /\ \A e \in add[b].to : e \in 0..Len(bs2) /\ Free(bs, J, e),
           NEW A2, A2 \subseteq A \cup ((Len(bs) + 1)..Len(bs2)), 1 \in DOMAIN bs
    PROVE  Linked(bs2, A2, J)
  <1>1. /\ Len(bs) \in Nat /\ Len(bs2) \in Nat /\ Len(bs) <= Len(bs2)
        /\ DOMAIN bs = 1..Len(bs) /\ DOMAIN bs2 = 1..Len(bs2)
    BY WroteFacts
  <1>0. \A e : Adds(add, e) = {} => Predecessors(bs2, e) = Predecessors(bs, e)
    <2>1. \A e : Predecessors(bs2, e) = Predecessors(bs, e) \cup Adds(add, e)
      BY WrotePredecessors, Zenon
    <2> QED  BY <2>1
  <1>2. A2 \subseteq 0..Len(bs2)
    <2>1. 0..Len(bs) \subseteq 0..Len(bs2) /\ (Len(bs) + 1)..Len(bs2) \subseteq 0..Len(bs2)
      BY <1>1
    <2>2. A \subseteq 0..Len(bs)  BY DEF Linked
    <2> QED  BY <2>1, <2>2
  <1>3. ASSUME NEW b \in DOMAIN bs2, NEW k \in DOMAIN bs2[b]
        PROVE  bs2[b][k].to \subseteq 0..Len(bs2)
    <2>1. 0..Len(bs) \subseteq 0..Len(bs2)  BY <1>1
    <2>2. CASE b \in DOMAIN bs /\ k \in DOMAIN bs[b] /\ bs2[b][k] = bs[b][k]
      BY <2>1, <2>2 DEF Linked
    <2>3. CASE b \in DOMAIN add /\ bs2[b][k] = add[b]  BY <2>3
    <2> QED  BY <2>2, <2>3, WroteInstr
  <1>4. 1 \notin A2
    <2>1. 1 \notin A /\ 1 \notin (Len(bs) + 1)..Len(bs2)  BY <1>1 DEF Linked
    <2> QED  BY <2>1
  <1>5. Predecessors(bs2, 1) = {}
    <2>1. Adds(add, 1) = {}  BY DEF Adds, Free
    <2>2. Predecessors(bs, 1) = {}  BY DEF Linked
    <2> QED  BY <1>0, <2>1, <2>2
  <1>6. ASSUME NEW b \in DOMAIN bs2, NEW k \in DOMAIN bs2[b], bs2[b][k].op = "phi"
        PROVE  k = 1 /\ b \notin A2 /\ bs2[b][k].to = Predecessors(bs2, b)
    <2>1. b \in DOMAIN bs /\ k \in DOMAIN bs[b] /\ bs2[b][k] = bs[b][k]
      BY <1>6, WroteInstr
    <2>2. k = 1 /\ b \notin A /\ bs[b][k].to = Predecessors(bs, b)
      BY <1>6, <2>1 DEF Linked
    <2>3. b \notin A2  BY <1>1, <2>1, <2>2
    <2>4. ~Free(bs, J, b)  BY <1>6, <2>1 DEF Free
    <2>5. Adds(add, b) = {}  BY <2>4 DEF Adds
    <2>6. Predecessors(bs2, b) = Predecessors(bs, b)  BY <1>0, <2>5
    <2> QED  BY <2>1, <2>2, <2>3, <2>6
  <1>7. ASSUME NEW f \in J
        PROVE  Joined(bs2, A2, f)
    <2>1. /\ f.end \in DOMAIN bs \ {1} /\ f.end \notin A
          /\ Predecessors(bs, f.end) = JoinedFrom(f)
      BY DEF Linked, Joined
    <2>2. f.end \in DOMAIN bs2 \ {1} /\ f.end \notin A2  BY <1>1, <2>1
    <2>3. ~Free(bs, J, f.end)  BY DEF Free
    <2>4. Adds(add, f.end) = {}  BY <2>3 DEF Adds
    <2>5. Predecessors(bs2, f.end) = Predecessors(bs, f.end)  BY <1>0, <2>4
    <2> QED  BY <2>1, <2>2, <2>5 DEF Joined
  <1> QED  BY <1>2, <1>3, <1>4, <1>5, <1>6, <1>7 DEF Linked

\* What may be branched to is free, and so is what is new.
LEMMA AimsFree ==
    ASSUME NEW bs \in Seq(Seq(Instr)), NEW A, NEW J, Linked(bs, A, J), 1 \in DOMAIN bs,
           NEW e, e \in A \/ e \notin 0..Len(bs)
    PROVE  Free(bs, J, e)
  <1>1. Len(bs) \in Nat /\ DOMAIN bs = 1..Len(bs)  BY LenProperties
  <1>2. e # 1  BY <1>1 DEF Linked
  <1>3. \A f \in J : e # f.end
    <2> TAKE f \in J
    <2>1. f.end \in DOMAIN bs /\ f.end \notin A  BY DEF Linked, Joined
    <2> QED  BY <1>1, <2>1
  <1>4. ASSUME e \in DOMAIN bs, NEW k \in DOMAIN bs[e]
        PROVE  bs[e][k].op # "phi"
    <2>1. e \in A  BY <1>1, <1>4
    <2> QED  BY <1>4, <2>1 DEF Linked
  <1> QED  BY <1>2, <1>3, <1>4 DEF Free

\* Fewer blocks in view.
LEMMA LinksShrink ==
    ASSUME NEW bs, NEW A, NEW J, Linked(bs, A, J),
           NEW A2, A2 \subseteq A, NEW J2, J2 \subseteq J
    PROVE  Linked(bs, A2, J2)
  BY DEF Linked, Joined

\* A phi at the start of a block names the blocks that branch to it.
LEMMA PhiLinks ==
    ASSUME NEW bs, NEW bs2, NEW A, NEW J, Linked(bs, A, J),
           NEW e \in DOMAIN bs, bs[e] = <<>>, e \notin A,
           NEW i, i.op = "phi", i.to = Predecessors(bs, e), i.to \subseteq 0..Len(bs),
           Wrote(bs, bs2, Only(e, i)), Len(bs2) = Len(bs)
    PROVE  Linked(bs2, A, J)
  <1> DEFINE add == Only(e, i)
  <1>1. DOMAIN add = {e} /\ add[e] = i  BY DEF Only
  <1>2. i.op \notin Terminators  BY DEF Terminators
  <1>3. \A x : Adds(add, x) = {}  BY <1>1, <1>2 DEF Adds
  <1> HIDE DEF add
  <1>4. Wrote(bs, bs2, add)  BY DEF add
  <1>5. \A x : Predecessors(bs2, x) = Predecessors(bs, x)
    <2> TAKE x
    <2>1. Predecessors(bs2, x) = Predecessors(bs, x) \cup Adds(add, x)
      BY <1>4, WrotePredecessors
    <2>2. Adds(add, x) = {}  BY <1>3
    <2> QED  BY <2>1, <2>2
  <1>6. DOMAIN bs2 = DOMAIN bs  BY <1>4, WroteFacts
  <1>7. \A b \in DOMAIN bs2 : \A k \in DOMAIN bs2[b] :
           \/ b \in DOMAIN bs /\ k \in DOMAIN bs[b] /\ bs2[b][k] = bs[b][k]
           \/ b = e /\ bs2[b][k] = i /\ k = 1
    <2> TAKE b \in DOMAIN bs2
    <2> TAKE k \in DOMAIN bs2[b]
    <2>1. Len(Before(bs, e)) = 0  BY DEF Before
    <2> QED  BY <1>1, <1>4, <2>1, WroteInstr
  <1>8. ASSUME NEW b \in DOMAIN bs2, NEW k \in DOMAIN bs2[b]
        PROVE  /\ bs2[b][k].to \subseteq 0..Len(bs2)
               /\ bs2[b][k].op = "phi" =>
                    k = 1 /\ b \notin A /\ bs2[b][k].to = Predecessors(bs2, b)
    <2>1. CASE b \in DOMAIN bs /\ k \in DOMAIN bs[b] /\ bs2[b][k] = bs[b][k]
      BY <1>5, <2>1 DEF Linked
    <2>2. CASE b = e /\ bs2[b][k] = i /\ k = 1
      BY <1>5, <2>2
    <2> QED  BY <1>7, <2>1, <2>2
  <1>9. \A f \in J : Joined(bs2, A, f)
    BY <1>5, <1>6 DEF Linked, Joined
  <1> QED  BY <1>5, <1>8, <1>9 DEF Linked

----------------------------------------------------------------------------
(* The handlers and the blocks they hold *)

LEMMA AppendMembers ==
    ASSUME NEW F, NEW fs \in Seq(F), NEW f \in F
    PROVE  /\ Members(Append(fs, f)) = Members(fs) \cup {f}
           /\ Apart(Append(fs, f)) <=>
                 /\ Apart(fs) /\ Distinct(f)
                 /\ Held(f) \cap HeldBy(Members(fs)) = {}
  <1> DEFINE gs == Append(fs, f)
             n == Len(fs)
  <1>1. /\ n \in Nat /\ DOMAIN fs = 1..n /\ DOMAIN gs = 1..(n + 1)
        /\ gs[n + 1] = f /\ \A i \in 1..n : gs[i] = fs[i]
    <2>1. /\ gs \in Seq(F) /\ Len(gs) = n + 1 /\ gs[n + 1] = f
          /\ \A i \in 1..n : gs[i] = fs[i]
      BY AppendProperties
    <2> QED  BY <2>1, LenProperties
  <1> HIDE DEF gs, n
  <1>2. \A i : i \in DOMAIN gs <=> i \in DOMAIN fs \/ i = n + 1  BY <1>1
  <1>3. /\ \A i \in DOMAIN fs : gs[i] = fs[i] /\ i # n + 1
        /\ gs[n + 1] = f
    BY <1>1
  <1> HIDE DEF gs
  <1>4. Members(gs) = Members(fs) \cup {f}
    BY <1>2, <1>3 DEF Members
  <1>5. ASSUME Apart(gs)
        PROVE  Apart(fs) /\ Distinct(f) /\ Held(f) \cap HeldBy(Members(fs)) = {}
    <2>1. Distinct(f) /\ \A g \in Members(fs) : Distinct(g)
      BY <1>4, <1>5 DEF Apart
    <2>2. \A i, j \in DOMAIN fs : i # j => Held(fs[i]) \cap Held(fs[j]) = {}
      BY <1>2, <1>3, <1>5 DEF Apart
    <2>3. \A i \in DOMAIN fs : Held(fs[i]) \cap Held(f) = {}
      BY <1>2, <1>3, <1>5 DEF Apart
    <2>4. \A g \in Members(fs) : Held(g) \cap Held(f) = {}
      BY <2>3 DEF Members
    <2> QED  BY <2>1, <2>2, <2>4 DEF Apart, HeldBy
  <1>6. ASSUME Apart(fs), Distinct(f), Held(f) \cap HeldBy(Members(fs)) = {}
        PROVE  Apart(gs)
    <2>1. \A g \in Members(gs) : Distinct(g)  BY <1>4, <1>6 DEF Apart
    <2>2. \A i \in DOMAIN fs : Held(fs[i]) \cap Held(f) = {}
      BY <1>6 DEF HeldBy, Members
    <2>3. ASSUME NEW i \in DOMAIN gs, NEW j \in DOMAIN gs, i # j
          PROVE  Held(gs[i]) \cap Held(gs[j]) = {}
      <3>1. CASE i \in DOMAIN fs /\ j \in DOMAIN fs
        BY <1>3, <1>6, <2>3, <3>1 DEF Apart
      <3>2. CASE i \in DOMAIN fs /\ j = n + 1  BY <1>3, <2>2, <3>2
      <3>3. CASE i = n + 1 /\ j \in DOMAIN fs  BY <1>3, <2>2, <3>3
      <3> QED  BY <1>2, <2>3, <3>1, <3>2, <3>3
    <2> QED  BY <2>1, <2>3 DEF Apart
  <1> QED  BY <1>4, <1>5, <1>6 DEF gs

\* A step takes the frames in `old` from the stack and puts those in `new`
\* on what is left of it.
Changes(rest, old, new) ==
    /\ Members(frames) = Members(rest) \cup old
    /\ Members(frames') = Members(rest) \cup new
    /\ HeldBy(Members(rest)) \cap HeldBy(old) = {}
    /\ (\A f \in new : Distinct(f) /\ Held(f) \cap HeldBy(Members(rest)) = {})
          => Apart(frames')

LEMMA NoneHeld == HeldBy({}) = {} /\ AheadBy({}) = {}
  BY DEF HeldBy, AheadBy

LEMMA OneHeld ==
    ASSUME NEW f
    PROVE  HeldBy({f}) = Held(f) /\ AheadBy({f}) = Ahead(f)
  BY DEF HeldBy, AheadBy

LEMMA SameChange ==
    ASSUME Apart(frames), frames' = frames
    PROVE  Changes(frames, {}, {})
  BY NoneHeld DEF Changes

LEMMA PushChange ==
    ASSUME IInv, Apart(frames), NEW f, frames' = Append(frames, f)
    PROVE  Changes(frames, {}, {f})
  <1>1. frames \in Seq(Frame)  BY DEF IInv, TypeOK
  <1>2. frames \in Seq(Frame \cup {f}) /\ f \in Frame \cup {f}
    BY <1>1, SeqMonotonic
  <1>3. /\ Members(frames') = Members(frames) \cup {f}
        /\ Apart(frames') <=> /\ Apart(frames) /\ Distinct(f)
                              /\ Held(f) \cap HeldBy(Members(frames)) = {}
    BY <1>2, AppendMembers
  <1> QED  BY <1>3, NoneHeld DEF Changes

LEMMA TopMembers ==
    ASSUME IInv, Apart(frames), frames # <<>>
    PROVE  /\ Front(frames) \in Seq(Frame) /\ top \in Frame
           /\ Members(frames) = Members(Front(frames)) \cup {top}
           /\ Apart(Front(frames)) /\ Distinct(top)
           /\ Held(top) \cap HeldBy(Members(Front(frames))) = {}
  <1>1. frames \in Seq(Frame) /\ top = Last(frames)
    BY DEF IInv, TypeOK, top, Last
  <1>2. /\ Front(frames) \in Seq(Frame) /\ top \in Frame
        /\ frames = Append(Front(frames), top)
    BY <1>1, FrameStack
  <1>3. /\ Members(Append(Front(frames), top)) = Members(Front(frames)) \cup {top}
        /\ Apart(Append(Front(frames), top)) <=>
              /\ Apart(Front(frames)) /\ Distinct(top)
              /\ Held(top) \cap HeldBy(Members(Front(frames))) = {}
    BY <1>2, AppendMembers
  <1> QED  BY <1>2, <1>3

LEMMA SwapChange ==
    ASSUME IInv, Apart(frames), frames # <<>>, NEW f,
           frames' = [frames EXCEPT ![Len(frames)] = f]
    PROVE  Changes(Front(frames), {top}, {f})
  <1>1. frames \in Seq(Frame)  BY DEF IInv, TypeOK
  <1>2. frames \in Seq(Frame \cup {f}) /\ f \in Frame \cup {f}
    BY <1>1, SeqMonotonic
  <1>3. Front(frames) \in Seq(Frame \cup {f}) /\ frames' = Append(Front(frames), f)
    BY <1>2, FrameStack
  <1>4. /\ Members(frames') = Members(Front(frames)) \cup {f}
        /\ Apart(frames') <=> /\ Apart(Front(frames)) /\ Distinct(f)
                              /\ Held(f) \cap HeldBy(Members(Front(frames))) = {}
    <2>1. Front(frames) \in Seq(Frame \cup {f}) /\ f \in Frame \cup {f}
      BY <1>2, <1>3
    <2>2. Members(Append(Front(frames), f)) = Members(Front(frames)) \cup {f}
      BY <2>1, AppendMembers
    <2>3. Apart(Append(Front(frames), f)) <=>
             /\ Apart(Front(frames)) /\ Distinct(f)
             /\ Held(f) \cap HeldBy(Members(Front(frames))) = {}
      BY <2>1, AppendMembers
    <2> QED  BY <1>3, <2>2, <2>3
  <1> QED  BY <1>4, TopMembers, OneHeld DEF Changes

LEMMA PopChange ==
    ASSUME IInv, Apart(frames), frames # <<>>, frames' = Front(frames)
    PROVE  Changes(Front(frames), {top}, {})
  BY TopMembers, OneHeld DEF Changes

----------------------------------------------------------------------------
(* A step of the walk *)

Opened == DOMAIN blocks' \ DOMAIN blocks

\* Who fills which block: what the frames in `old`, the insert point and the
\* new blocks were for is now for those in `new` and the insert point, or done.
Handed(old, new, add) ==
    LET had == HeldBy(old) \cup {insertAt} \cup Opened
        has == HeldBy(new) \cup {insertAt'}
    IN  /\ has \subseteq had /\ DOMAIN add \subseteq had
        /\ \A f \in new : Distinct(f)
        /\ insertAt' \notin HeldBy(new)
        /\ AheadBy(new) \subseteq (AheadBy(old) \cup Opened) \ DOMAIN add
        /\ \A b \in has : b \in DOMAIN add => add[b].op \in {"plain", "phi", "switch"}
        /\ InFunction => \A b \in had \ has :
              \/ b \in DOMAIN add /\ add[b].op \in Terminators
              \/ Finished(blocks'[b])

\* The blocks the step begins with, and the targets and switches of the
\* handlers afterwards.
Begins(bs, rest) ==
    /\ Len(bs) = Len(blocks)
    /\ \A b \in AheadBy(Members(frames)) : bs[b] = <<>>
    /\ \A f \in Members(rest) : SwitchBody(f) => SwitchAt(bs, f)
    /\ InFunction => /\ Shaped(bs, Unfinished(frames, insertAt, gotoJump))
                     /\ Patched(bs, gotoSites, gotoJump, labelJump)
Leads(rest, new) ==
    /\ Linked(blocks', Aims', Joining(Members(rest)))
    /\ \A f \in new : Joins(f) => Joined(blocks', Aims', f)
    /\ \A f \in new : SwitchBody(f) => SwitchAt(blocks', f)

LEMMA BlockDomains ==
    ASSUME IInv, IInv', currentFunction # "none", Len(blocks) <= Len(blocks')
    PROVE  /\ DOMAIN blocks = 1..Len(blocks) /\ DOMAIN blocks' = 1..Len(blocks')
           /\ Len(blocks) \in Nat /\ Len(blocks') \in Nat
           /\ insertAt \in DOMAIN blocks /\ 1 \in DOMAIN blocks
           /\ Waits(gotoJump) \cap Opened = {}
           /\ Opened = (Len(blocks) + 1)..Len(blocks')
           /\ \A b \in Opened : b \in Nat /\ b > Len(blocks)
  <1>1. blocks \in Seq(Seq(Instr)) /\ blocks' \in Seq(Seq(Instr))
    BY DEF IInv, TypeOK
  <1>2. /\ DOMAIN blocks = 1..Len(blocks) /\ DOMAIN blocks' = 1..Len(blocks')
        /\ Len(blocks) \in Nat /\ Len(blocks') \in Nat
    BY <1>1, LenProperties
  <1>3. insertAt \in 0..Len(blocks) /\ insertAt # 0
    BY DEF IInv, TypeOK, WalkOK, BlockId, None
  <1>4. \A b \in Opened : b \in Nat /\ b > Len(blocks)
    BY <1>2 DEF Opened
  <1>5. Waits(gotoJump) \subseteq 0..Len(blocks)
    <2>1. gotoJump \in [Labels -> SUBSET BlockId]  BY DEF IInv, TypeOK
    <2> QED  BY <2>1 DEF Waits, BlockId
  <1>6. Waits(gotoJump) \cap Opened = {}
    <2>1. \A b \in 0..Len(blocks) : ~(b > Len(blocks))  BY <1>2
    <2> QED  BY <1>4, <1>5, <2>1
  <1>7. Opened = (Len(blocks) + 1)..Len(blocks')
    BY <1>2 DEF Opened
  <1> QED  BY <1>2, <1>3, <1>4, <1>6, <1>7

LEMMA GraphStep ==
    ASSUME IInv, IInv', Graph, currentFunction # "none",
           UNCHANGED <<currentFunction, labels>>,
           pc # "internal_error", pc' # "internal_error", InFunction' => InFunction,
           NEW rest, NEW old, NEW new, Changes(rest, old, new),
           NEW bs, NEW add, Begins(bs, rest), Wrote(bs, blocks', add),
           Handed(old, new, add), Leads(rest, new)
    PROVE  Graph'
  <1> DEFINE had == HeldBy(old) \cup {insertAt} \cup Opened
             has == HeldBy(new) \cup {insertAt'}
             R == HeldBy(Members(rest))
             W == Waits(gotoJump)
  <1>1. /\ DOMAIN bs = DOMAIN blocks /\ Len(blocks) <= Len(blocks')
        /\ insertAt \in DOMAIN blocks /\ W \cap Opened = {}
        /\ DOMAIN blocks \subseteq DOMAIN blocks'
        /\ DOMAIN blocks' = DOMAIN blocks \cup Opened
        /\ DOMAIN blocks \cap Opened = {}
    <2>1. Len(blocks) <= Len(blocks') /\ DOMAIN bs = 1..Len(bs)
          /\ DOMAIN bs \subseteq DOMAIN blocks'
      BY WroteFacts DEF Begins
    <2>2. DOMAIN blocks = 1..Len(blocks) /\ insertAt \in DOMAIN blocks /\ W \cap Opened = {}
      BY <2>1, BlockDomains
    <2> QED  BY <2>1, <2>2 DEF Begins, Opened
  <1>2. Kept /\ currentFunction' # "none" /\ gotoJump' = gotoJump /\ Waits(gotoJump') = W
        /\ gotoSites' = gotoSites /\ labelJump' = labelJump
    BY DEF Graph, labels
  <1>3. /\ HeldBy(Members(frames)) = R \cup HeldBy(old)
        /\ HeldBy(Members(frames')) = R \cup HeldBy(new)
        /\ AheadBy(Members(frames)) = AheadBy(Members(rest)) \cup AheadBy(old)
        /\ AheadBy(Members(frames')) = AheadBy(Members(rest)) \cup AheadBy(new)
    BY DEF Changes, HeldBy, AheadBy
  <1>4. R \cap had = {} /\ R \cap W = {} /\ had \cap W = {} /\ R \subseteq DOMAIN blocks
        /\ insertAt \notin HeldBy(old)
    BY <1>1, <1>2, <1>3 DEF Kept, Owned, Changes
  <1>5. /\ has \subseteq had /\ DOMAIN add \subseteq had /\ insertAt' \notin HeldBy(new)
        /\ had \subseteq DOMAIN blocks'
    BY <1>1, <1>2, <1>3 DEF Handed, Kept
  <1>6. AheadBy(Members(rest)) \subseteq R
    BY DEF AheadBy, HeldBy, Held
  <1>7. Owned(frames', insertAt', gotoJump')
    <2>1. \A f \in new : Held(f) \subseteq has  BY DEF HeldBy
    <2>2. Apart(frames')  BY <1>4, <1>5, <2>1 DEF Changes, Handed
    <2>3. \A l, m \in Labels : l # m => gotoJump[l] \cap gotoJump[m] = {}
      BY <1>2 DEF Kept, Owned
    <2> QED  BY <1>2, <1>3, <1>4, <1>5, <2>2, <2>3 DEF Owned
  <1>8. ASSUME NEW b \in AheadBy(Members(frames'))
        PROVE  b \in DOMAIN blocks' /\ blocks'[b] = <<>>
    <2>1. b \in DOMAIN blocks' /\ b \notin DOMAIN add
      BY <1>1, <1>2, <1>3, <1>4, <1>5, <1>6 DEF Handed, Kept
    <2>2. blocks'[b] = Before(bs, b)  BY <2>1 DEF Wrote
    <2>3. b \in Opened \/ b \in AheadBy(Members(frames))
      BY <1>3 DEF Handed
    <2> QED  BY <1>1, <2>1, <2>2, <2>3 DEF Before, Begins
  <1>9. HeldBy(Members(frames')) \subseteq DOMAIN blocks'
    BY <1>1, <1>3, <1>4, <1>5
  <1>10. ASSUME NEW f \in Members(frames'), SwitchBody(f)
         PROVE  SwitchAt(blocks', f)
    <2>1. CASE f \in new  BY <1>10, <2>1 DEF Leads
    <2>2. CASE f \in Members(rest)
      BY <1>10, <2>2, WroteSwitches DEF Begins
    <2> QED  BY <2>1, <2>2 DEF Changes
  <1>11. Linked(blocks', Aims', Joining(Members(frames')))
    <2>1. ASSUME NEW f \in Joining(Members(frames'))
          PROVE  Joined(blocks', Aims', f)
      BY DEF Joining, Changes, Leads, Linked
    <2> QED  BY <2>1 DEF Leads, Linked
  <1>12. ASSUME InFunction
         PROVE  /\ Shaped(blocks', Unfinished(frames', insertAt', gotoJump'))
                /\ Patched(blocks', gotoSites', gotoJump', labelJump')
    <2> DEFINE U == Unfinished(frames, insertAt, gotoJump)
               U2 == Unfinished(frames', insertAt', gotoJump')
    <2>1. U = R \cup HeldBy(old) \cup {insertAt} \cup W /\ U2 = R \cup W \cup has
      BY <1>2, <1>3 DEF Unfinished
    <2>2. Shaped(bs, U) /\ Patched(bs, gotoSites, gotoJump, labelJump)
      BY <1>12 DEF Begins
    <2>3. U \subseteq DOMAIN blocks /\ U2 \subseteq DOMAIN blocks'
      BY <1>1, <1>5, <2>1, <2>2 DEF Shaped
    <2> HIDE DEF U, U2, R, W, had, has
    <2>4. \A b \in DOMAIN add : b \in U \/ b \notin DOMAIN bs
      BY <1>1, <1>5, <2>1 DEF had
    <2>5. \A b \in U2 : /\ b \in U \/ b \notin DOMAIN bs
                        /\ b \in DOMAIN add => add[b].op \in {"plain", "phi", "switch"}
      <3>1. \A b \in has : b \in DOMAIN add => add[b].op \in {"plain", "phi", "switch"}
        BY DEF Handed, has
      <3>2. \A b \in R \cup W : b \notin DOMAIN add  BY <1>4, <1>5
      <3> QED  BY <1>1, <1>5, <2>1, <3>1, <3>2 DEF had
    <2>6. \A b \in DOMAIN blocks' \ U2 :
             b \in U \/ b \notin DOMAIN bs =>
                \/ b \in DOMAIN add /\ add[b].op \in Terminators
                \/ Finished(blocks'[b])
      <3>1. \A b \in had \ has : \/ b \in DOMAIN add /\ add[b].op \in Terminators
                                 \/ Finished(blocks'[b])
        BY <1>12 DEF Handed, had, has
      <3> QED  BY <1>1, <2>1, <3>1 DEF had
    <2>7. Shaped(blocks', U2)
      BY <2>2, <2>3, <2>4, <2>5, <2>6, WroteShape
    <2>8. \A b \in DOMAIN add : b \in DOMAIN bs => Loose(bs[b])
      BY <2>2, <2>4 DEF Shaped
    <2>9. Patched(blocks', gotoSites, gotoJump, labelJump)
      BY <2>2, <2>8, WrotePatched
    <2> QED  BY <1>2, <2>7, <2>9 DEF U2
  <1>13. Kept'  BY <1>7, <1>8, <1>9, <1>10, <1>11 DEF Kept
  <1>14. InFunction' => Generated'  BY <1>12 DEF Generated
  <1> QED  BY <1>2, <1>13, <1>14 DEF Graph

----------------------------------------------------------------------------
(* The steps that close the block they work on, and those that go on in it *)

\* The walk goes on inside a function, or between two.
Walking ==
    /\ pc \in Running /\ pc' \in Running
    /\ currentFunction # "none"
    /\ UNCHANGED <<currentFunction, labels>>

LEMMA StaysOutside ==
    ASSUME IInv, IInv', NEW rest, NEW old, NEW new, Changes(rest, old, new),
           \A f \in new : f.h # "function"
    PROVE  InFunction' => InFunction
  <1> SUFFICES ASSUME InFunction'  PROVE InFunction
    OBVIOUS
  <1>1. frames \in Seq(Frame) /\ frames' \in Seq(Frame')
    BY DEF IInv, TypeOK
  <1>2. 1 \in DOMAIN frames' /\ frames'[1].h = "function"
    BY <1>1, LenProperties, EmptySeq DEF InFunction
  <1>3. \E f \in Members(frames) : f.h = "function"
    BY <1>2 DEF Members, Changes
  <1>4. PICK i \in DOMAIN frames : frames[i].h = "function"
    BY <1>3 DEF Members
  <1>5. i = 1  BY <1>4 DEF IInv, WalkOK
  <1>6. frames # <<>>
    <2>1. DOMAIN <<>> = {}  OBVIOUS
    <2> QED  BY <1>4, <2>1
  <1> QED  BY <1>4, <1>5, <1>6 DEF InFunction

LEMMA BeginsAsIs ==
    ASSUME Graph, currentFunction # "none", pc \in Running,
           NEW rest, NEW old, NEW new, Changes(rest, old, new)
    PROVE  Begins(blocks, rest)
  <1>1. pc # "internal_error"  BY DEF Running
  <1> QED  BY <1>1 DEF Graph, Kept, Generated, Begins, Changes

\* What is branched to is a target of a handler, a label or a case, or new.
LEMMA LinksOf ==
    ASSUME IInv, IInv', Graph, currentFunction # "none",
           NEW rest, NEW old, NEW new, Changes(rest, old, new),
           NEW add, Wrote(blocks, blocks', add),
           \A b \in DOMAIN add : add[b].op # "phi" /\ add[b].to \subseteq Aims \cup Opened,
           Aims' \subseteq Aims \cup Opened
    PROVE  Linked(blocks', Aims', Joining(Members(rest)))
  <1> DEFINE J == Joining(Members(rest))
  <1>1. /\ Len(blocks) \in Nat /\ Len(blocks') \in Nat /\ Len(blocks) <= Len(blocks')
        /\ blocks \in Seq(Seq(Instr)) /\ 1 \in DOMAIN blocks
        /\ Opened = (Len(blocks) + 1)..Len(blocks')
    <2>1. Len(blocks) <= Len(blocks')  BY DEF Wrote
    <2> QED  BY <2>1, BlockDomains DEF IInv, TypeOK
  <1>2. Linked(blocks, Aims, J)
    <2>1. Linked(blocks, Aims, Joining(Members(frames)))  BY DEF Graph, Kept
    <2>2. J \subseteq Joining(Members(frames))  BY DEF Joining, Changes
    <2>3. Aims \subseteq Aims  OBVIOUS
    <2> HIDE DEF J
    <2> QED  BY <2>1, <2>2, <2>3, LinksShrink
  <1> HIDE DEF J
  <1>3. Aims \subseteq 0..Len(blocks)  BY <1>2 DEF Linked
  <1>4. ASSUME NEW e \in Aims \cup Opened
        PROVE  e \in 0..Len(blocks') /\ Free(blocks, J, e)
    <2>1. e \in 0..Len(blocks')
      <3>1. 0..Len(blocks) \subseteq 0..Len(blocks') /\ Opened \subseteq 0..Len(blocks')
        BY <1>1
      <3> QED  BY <1>3, <3>1
    <2>2. e \in Aims \/ e \notin 0..Len(blocks)  BY <1>1
    <2> QED  BY <1>1, <1>2, <2>1, <2>2, AimsFree
  <1>5. \A b \in DOMAIN add :
           /\ add[b].op # "phi"
           /\ \A e \in add[b].to : e \in 0..Len(blocks') /\ Free(blocks, J, e)
    BY <1>4
  <1>6. Aims' \subseteq Aims \cup ((Len(blocks) + 1)..Len(blocks'))
    BY <1>1
  <1> QED  BY <1>1, <1>2, <1>5, <1>6, WroteLinks DEF J

LEMMA OnlyFacts ==
    ASSUME NEW b, NEW i
    PROVE  DOMAIN Only(b, i) = {b} /\ Only(b, i)[b] = i
  BY DEF Only

\* One instruction at the insert point, which stays among the blocks yet to
\* be filled; or none.
LEMMA KeepStep ==
    ASSUME IInv, IInv', Graph, Walking,
           NEW rest, NEW old, NEW new, Changes(rest, old, new),
           \A f \in new : f.h # "function" /\ Distinct(f),
           NEW add, Wrote(blocks, blocks', add), DOMAIN add \subseteq {insertAt},
           \A b \in DOMAIN add :
              add[b].op \in {"plain", "switch"} /\ add[b].to \subseteq Aims \cup Opened,
           Aims' \subseteq Aims \cup Opened,
           HeldBy(new) \cup {insertAt'} = HeldBy(old) \cup Opened \cup {insertAt},
           insertAt' \notin HeldBy(new),
           AheadBy(new) \subseteq AheadBy(old) \cup Opened, insertAt \notin AheadBy(new),
           \A f \in new : Joins(f) => Joined(blocks', Aims', f),
           \A f \in new : SwitchBody(f) => SwitchAt(blocks', f)
    PROVE  Graph'
  <1>1. /\ currentFunction # "none" /\ UNCHANGED <<currentFunction, labels>>
        /\ pc # "internal_error" /\ pc' # "internal_error" /\ pc \in Running
    BY DEF Walking, Running
  <1>2. InFunction' => InFunction  BY StaysOutside
  <1>3. Begins(blocks, rest)  BY <1>1, BeginsAsIs
  <1>4. Leads(rest, new)
    <2>1. \A b \in DOMAIN add : add[b].op # "phi"  OBVIOUS
    <2> QED  BY <1>1, <2>1, LinksOf DEF Leads
  <1>5. Handed(old, new, add)
    BY DEF Handed
  <1> QED  BY <1>1, <1>2, <1>3, <1>4, <1>5, GraphStep

\* A terminator at the insert point; the insert point moves to a block that a
\* handler held or to a new one.
LEMMA CloseStep ==
    ASSUME IInv, IInv', Graph, Walking,
           NEW rest, NEW old, NEW new, Changes(rest, old, new),
           \A f \in new : f.h # "function" /\ Distinct(f),
           NEW i, i.op \in Terminators, i.to \subseteq Aims \cup Opened,
           Wrote(blocks, blocks', Only(insertAt, i)),
           Aims' \subseteq Aims \cup Opened,
           HeldBy(new) \cup {insertAt'} = HeldBy(old) \cup Opened,
           insertAt' \notin HeldBy(new),
           AheadBy(new) \subseteq AheadBy(old) \cup Opened,
           \A f \in new : Joins(f) => Joined(blocks', Aims', f),
           \A f \in new : ~SwitchBody(f)
    PROVE  Graph'
  <1> DEFINE add == Only(insertAt, i)
  <1>1. /\ currentFunction # "none" /\ UNCHANGED <<currentFunction, labels>>
        /\ pc # "internal_error" /\ pc' # "internal_error" /\ pc \in Running
    BY DEF Walking, Running
  <1>2. InFunction' => InFunction  BY StaysOutside
  <1>3. Begins(blocks, rest)  BY <1>1, BeginsAsIs
  <1>4. DOMAIN add = {insertAt} /\ add[insertAt] = i /\ i.op # "phi"
    BY OnlyFacts DEF Terminators
  <1> HIDE DEF add
  <1>5. Wrote(blocks, blocks', add)  BY DEF add
  <1>6. Leads(rest, new)
    <2>1. \A b \in DOMAIN add : add[b].op # "phi" /\ add[b].to \subseteq Aims \cup Opened
      BY <1>4
    <2> QED  BY <1>1, <1>5, <2>1, LinksOf DEF Leads
  <1>7. insertAt \notin HeldBy(old) /\ insertAt \notin Opened
    <2>1. Len(blocks) <= Len(blocks')  BY DEF Wrote
    <2>2. insertAt \in DOMAIN blocks  BY <1>1, <2>1, BlockDomains
    <2>3. insertAt \notin HeldBy(Members(frames))
      BY <1>1 DEF Graph, Kept, Owned
    <2> QED  BY <2>2, <2>3 DEF Opened, Changes, HeldBy
  <1>8. AheadBy(new) \subseteq HeldBy(new)
    BY DEF AheadBy, HeldBy, Held
  <1>9. Handed(old, new, add)
    BY <1>4, <1>7, <1>8 DEF Handed
  <1> QED  BY <1>1, <1>2, <1>3, <1>5, <1>6, <1>9, GraphStep

----------------------------------------------------------------------------
(* How the blocks change *)

\* Instructions that are not plain.
Makes(i) == i.op # "plain"

LEMMA GrowAt ==
    ASSUME NEW bs \in Seq(Seq(Instr)), NEW n \in Nat
    PROVE  /\ Len(bs) \in Nat /\ DOMAIN bs = 1..Len(bs)
           /\ Grow(bs, n) \in Seq(Seq(Instr)) /\ DOMAIN Grow(bs, n) = 1..(Len(bs) + n)
           /\ Len(Grow(bs, n)) = Len(bs) + n
           /\ \A b \in DOMAIN Grow(bs, n) : Grow(bs, n)[b] = Before(bs, b)
  <1> DEFINE new == [i \in 1..n |-> <<>>]
             gs == Grow(bs, n)
  <1>1. <<>> \in Seq(Instr)  BY EmptySeq
  <1>2. new \in [1..n -> Seq(Instr)]  BY <1>1
  <1>3. new \in Seq(Seq(Instr)) /\ Len(new) = n /\ \A i \in 1..n : new[i] = <<>>
    BY <1>2
  <1>4. gs = bs \o new  BY DEF Grow
  <1>5. gs \in Seq(Seq(Instr)) /\ Len(gs) = Len(bs) + n  BY GrowType
  <1>6. /\ Len(bs) \in Nat /\ DOMAIN bs = 1..Len(bs) /\ DOMAIN gs = 1..(Len(bs) + n)
    BY <1>5, LenProperties
  <1> HIDE DEF new, gs
  <1>7. ASSUME NEW b \in DOMAIN gs
        PROVE  gs[b] = Before(bs, b)
    <2>1. b \in 1..(Len(bs) + Len(new))  BY <1>3, <1>6
    <2>2. gs[b] = IF b <= Len(bs) THEN bs[b] ELSE new[b - Len(bs)]
      BY <1>3, <1>4, <2>1, ConcatProperties
    <2>3. CASE b <= Len(bs)
      <3>1. b \in DOMAIN bs  BY <1>3, <1>6, <2>1, <2>3
      <3> QED  BY <2>2, <2>3, <3>1 DEF Before
    <2>4. CASE ~(b <= Len(bs))
      <3>1. b \notin DOMAIN bs /\ b - Len(bs) \in 1..n  BY <1>3, <1>6, <2>1, <2>4
      <3> QED  BY <1>3, <2>2, <2>4, <3>1 DEF Before
    <2> QED  BY <2>3, <2>4
  <1> QED  BY <1>5, <1>6, <1>7 DEF gs

LEMMA GrowWrote ==
    ASSUME NEW bs \in Seq(Seq(Instr)), NEW n \in Nat
    PROVE  Wrote(bs, Grow(bs, n), Nothing)
  <1>1. DOMAIN Nothing = {}  BY DEF Nothing
  <1>2. Len(bs) <= Len(bs) + n /\ Len(bs) \in Nat  BY GrowAt
  <1> QED  BY <1>1, <1>2, GrowAt DEF Wrote

LEMMA SameWrote ==
    ASSUME NEW bs \in Seq(Seq(Instr))
    PROVE  Wrote(bs, bs, Nothing)
  <1>1. DOMAIN Nothing = {}  BY DEF Nothing
  <1>2. Len(bs) \in Nat  BY LenProperties
  <1> QED  BY <1>1, <1>2 DEF Wrote, Before

LEMMA EmitAt ==
    ASSUME NEW bs \in Seq(Seq(Instr)), NEW c \in DOMAIN bs, NEW i \in Instr, Makes(i)
    PROVE  /\ Emit(bs, c, i) \in Seq(Seq(Instr)) /\ Len(Emit(bs, c, i)) = Len(bs)
           /\ DOMAIN Emit(bs, c, i) = DOMAIN bs
           /\ Emit(bs, c, i)[c] = Append(bs[c], i)
           /\ \A b \in DOMAIN bs \ {c} : Emit(bs, c, i)[b] = bs[b]
  <1>1. Emit(bs, c, i) \in Seq(Seq(Instr)) /\ Len(Emit(bs, c, i)) = Len(bs)
    BY EmitType
  <1>2. i # Plain  BY DEF Makes, Plain
  <1>3. Emit(bs, c, i) = [bs EXCEPT ![c] = Append(@, i)]  BY <1>2 DEF Emit
  <1> QED  BY <1>1, <1>3

\* ... and how a step writes one instruction behind k new blocks.
LEMMA EmitWrote ==
    ASSUME NEW bs \in Seq(Seq(Instr)), NEW n \in Nat,
           NEW c \in DOMAIN bs, NEW i \in Instr, Makes(i)
    PROVE  /\ Wrote(bs, Emit(Grow(bs, n), c, i), Only(c, i))
           /\ Wrote(bs, Grow(Emit(bs, c, i), n), Only(c, i))
           /\ Len(Emit(Grow(bs, n), c, i)) = Len(bs) + n
           /\ Len(Grow(Emit(bs, c, i), n)) = Len(bs) + n
  <1> DEFINE gs == Grow(bs, n)
             es == Emit(bs, c, i)
  <1>1. /\ Len(bs) \in Nat /\ DOMAIN bs = 1..Len(bs) /\ gs \in Seq(Seq(Instr))
        /\ DOMAIN gs = 1..(Len(bs) + n) /\ Len(gs) = Len(bs) + n
        /\ \A b \in DOMAIN gs : gs[b] = Before(bs, b)
    BY GrowAt
  <1>2. /\ es \in Seq(Seq(Instr)) /\ Len(es) = Len(bs) /\ DOMAIN es = DOMAIN bs
        /\ es[c] = Append(bs[c], i)
        /\ \A b \in DOMAIN bs \ {c} : es[b] = bs[b]
    BY EmitAt
  <1> HIDE DEF gs, es
  <1>3. c \in DOMAIN gs /\ Len(bs) <= Len(bs) + n  BY <1>1
  <1>4. DOMAIN Only(c, i) = {c} /\ Only(c, i)[c] = i  BY OnlyFacts
  <1>5. Wrote(bs, Emit(gs, c, i), Only(c, i)) /\ Len(Emit(gs, c, i)) = Len(gs)
    <2>1. /\ Emit(gs, c, i) \in Seq(Seq(Instr)) /\ Len(Emit(gs, c, i)) = Len(gs)
          /\ DOMAIN Emit(gs, c, i) = DOMAIN gs
          /\ Emit(gs, c, i)[c] = Append(gs[c], i)
          /\ \A b \in DOMAIN gs \ {c} : Emit(gs, c, i)[b] = gs[b]
      BY <1>1, <1>3, EmitAt
    <2> QED  BY <1>1, <1>3, <1>4, <2>1 DEF Wrote
  <1>6. Wrote(bs, Grow(es, n), Only(c, i)) /\ Len(Grow(es, n)) = Len(bs) + n
    <2>1. /\ Grow(es, n) \in Seq(Seq(Instr)) /\ DOMAIN Grow(es, n) = 1..(Len(es) + n)
          /\ Len(Grow(es, n)) = Len(es) + n
          /\ \A b \in DOMAIN Grow(es, n) : Grow(es, n)[b] = Before(es, b)
      BY <1>2, GrowAt
    <2>2. /\ \A b : b # c => Before(es, b) = Before(bs, b)
          /\ Before(es, c) = Append(Before(bs, c), i)
      BY <1>2 DEF Before
    <2> QED  BY <1>1, <1>2, <1>3, <1>4, <2>1, <2>2 DEF Wrote
  <1> QED  BY <1>1, <1>5, <1>6 DEF gs, es

\* A plain instruction is written, or one that is there stands for it.
LEMMA PlainWrote ==
    ASSUME NEW bs \in Seq(Seq(Instr)), NEW c \in DOMAIN bs
    PROVE  \E add \in {Nothing, Only(c, Plain)} : Wrote(bs, Emit(bs, c, Plain), add)
  <1>1. CASE Emit(bs, c, Plain) = bs  BY <1>1, SameWrote
  <1>2. CASE Emit(bs, c, Plain) # bs
    <2> DEFINE es == Emit(bs, c, Plain)
    <2>1. es = [bs EXCEPT ![c] = Append(@, Plain)]  BY <1>2 DEF Emit
    <2>2. Plain \in Instr  BY InstrTypes
    <2>3. es \in Seq(Seq(Instr)) /\ Len(es) = Len(bs)  BY <2>2, EmitType
    <2>4. /\ DOMAIN es = DOMAIN bs /\ es[c] = Append(bs[c], Plain)
          /\ \A b \in DOMAIN bs \ {c} : es[b] = bs[b]
      BY <2>1
    <2> HIDE DEF es
    <2>5. DOMAIN Only(c, Plain) = {c} /\ Only(c, Plain)[c] = Plain  BY OnlyFacts
    <2>6. Len(bs) <= Len(es)  BY <2>3, LenProperties
    <2>7. Wrote(bs, es, Only(c, Plain))
      BY <2>2, <2>3, <2>4, <2>5, <2>6 DEF Wrote, Before
    <2> QED  BY <2>7 DEF es
  <1> QED  BY <1>1, <1>2

----------------------------------------------------------------------------
(* What each handler holds *)

Blocked(f) == {f.end, f.body, f.alt, f.from} \subseteq Nat

LEMMA HoldsNothing ==
    ASSUME NEW f, f.h \notin Loops \cup {"if"}, ~SwitchBody(f), ~Joins(f)
    PROVE  /\ Held(f) = {} /\ Ahead(f) = {} /\ Goals(f) = {} /\ Distinct(f)
  BY DEF Held, Ahead, Behind, Goals, EndAhead, BodyAhead, AltAhead, FromAhead,
         Joins, Loops, Distinct

LEMMA WhileHolds ==
    ASSUME NEW f, f.h = "while", Blocked(f), f.end # None, f.body # None, f.from # None
    PROVE  /\ f.at = "cond" => Held(f) = {f.end, f.body}
           /\ f.at = "body" => Held(f) = {f.end}
           /\ Ahead(f) = Held(f) /\ ~Joins(f) /\ ~SwitchBody(f) /\ f.h # "function"
           /\ Goals(f) = {f.from, f.body, f.alt, f.end}
  BY DEF Held, Ahead, Behind, Goals, EndAhead, BodyAhead, AltAhead, FromAhead,
         Joins, Loops, SwitchBody, Blocked

LEMMA DoHolds ==
    ASSUME NEW f, f.h = "do", Blocked(f), f.end # None, f.body # None, f.from # None
    PROVE  /\ f.at = "body" => Held(f) = {f.end, f.from}
           /\ f.at = "cond" => Held(f) = {f.end}
           /\ Ahead(f) = Held(f) /\ ~Joins(f) /\ ~SwitchBody(f) /\ f.h # "function"
           /\ Goals(f) = {f.from, f.body, f.alt, f.end}
  BY DEF Held, Ahead, Behind, Goals, EndAhead, BodyAhead, AltAhead, FromAhead,
         Joins, Loops, SwitchBody, Blocked

LEMMA ForHolds ==
    ASSUME NEW f, f.h = "for", Blocked(f),
           f.end # None, f.body # None, f.from # None, f.alt # None
    PROVE  /\ f.at = "init" => Held(f) = {f.end, f.body, f.alt, f.from}
           /\ f.at \in {"cond", "nocond"} => Held(f) = {f.end, f.body, f.alt}
           /\ f.at \in {"inc", "noinc"} => Held(f) = {f.end, f.body}
           /\ f.at = "body" => Held(f) = {f.end}
           /\ Ahead(f) = Held(f) /\ ~Joins(f) /\ ~SwitchBody(f) /\ f.h # "function"
           /\ Goals(f) = {f.from, f.body, f.alt, f.end}
  BY DEF Held, Ahead, Behind, Goals, EndAhead, BodyAhead, AltAhead, FromAhead,
         Joins, Loops, SwitchBody, Blocked

LEMMA IfHolds ==
    ASSUME NEW f, f.h = "if", Blocked(f), f.end # None, f.body # None
    PROVE  /\ f.at = "cond" => Held(f) = {f.end, f.body, f.alt} \ {None}
           /\ f.at = "then" => Held(f) = {f.end, f.alt} \ {None}
           /\ f.at = "else" => Held(f) = {f.end}
           /\ Ahead(f) = Held(f) /\ ~Joins(f) /\ ~SwitchBody(f) /\ f.h # "function"
           /\ Goals(f) = {f.from, f.body, f.alt, f.end}
  BY DEF Held, Ahead, Behind, Goals, EndAhead, BodyAhead, AltAhead, FromAhead,
         Joins, Loops, SwitchBody, Blocked

LEMMA SwitchHolds ==
    ASSUME NEW f, f.h = "switch", f.at = "body", Blocked(f), f.end # None
    PROVE  /\ Held(f) = {f.end} /\ Ahead(f) = Held(f) /\ ~Joins(f) /\ f.h # "function"
           /\ Goals(f) = {f.end} /\ Distinct(f)
  BY DEF Held, Ahead, Behind, Goals, EndAhead, BodyAhead, AltAhead, FromAhead,
         Joins, Loops, SwitchBody, Blocked, Distinct

LEMMA LogicalHolds ==
    ASSUME NEW f, f.h \in {"and", "or"}, f.at = "rhs", Blocked(f), f.end # None
    PROVE  /\ Held(f) = {f.end} /\ Ahead(f) = Held(f) /\ Goals(f) = {}
           /\ ~SwitchBody(f) /\ f.h # "function" /\ Joins(f) /\ Distinct(f)
  BY DEF Held, Ahead, Behind, Goals, EndAhead, BodyAhead, AltAhead, FromAhead,
         Loops, SwitchBody, Blocked, Distinct, Joins

LEMMA ConditionalHolds ==
    ASSUME NEW f, f.h = "conditional", f.at \in {"fst", "secd"}, Blocked(f),
           f.end # None, f.alt # None
    PROVE  /\ f.at = "fst" => Held(f) = {f.end, f.alt} /\ Ahead(f) = Held(f)
           /\ f.at = "secd" => Held(f) = {f.end, f.from} /\ Ahead(f) = {f.end}
           /\ Goals(f) = {} /\ ~SwitchBody(f) /\ f.h # "function" /\ Joins(f)
  BY DEF Held, Ahead, Behind, Goals, EndAhead, BodyAhead, AltAhead, FromAhead,
         Loops, SwitchBody, Blocked, Joins

----------------------------------------------------------------------------
(* What may be branched to *)

LEMMA AimsStep ==
    ASSUME NEW rest, NEW old, NEW new, Changes(rest, old, new),
           labelJump' = labelJump, StackAims' \subseteq Aims \cup Opened,
           \A f \in new : Goals(f) \subseteq Aims \cup Opened
    PROVE  Aims' \subseteq Aims \cup Opened
  <1>1. \A f \in Members(rest) : Goals(f) \subseteq Aims
    BY DEF Changes, Aims, GoalsBy
  <1>2. \A f \in Members(frames') : Goals(f) \subseteq Aims \cup Opened
    BY <1>1 DEF Changes
  <1>3. {None} \cup Elements(labelJump') \subseteq Aims
    BY DEF Aims
  <1>4. GoalsBy(Members(frames')) \subseteq Aims \cup Opened
    BY <1>2 DEF GoalsBy
  <1> QED  BY <1>3, <1>4 DEF Aims

LEMMA GoalsAims ==
    ASSUME NEW f \in Members(frames)
    PROVE  Goals(f) \subseteq Aims
  BY DEF Aims, GoalsBy

LEMMA StackAimsStay ==
    ASSUME UNCHANGED <<jumps, switches>>
    PROVE  StackAims' = StackAims /\ StackAims' \subseteq Aims
  <1>1. StackAims' = StackAims  BY DEF StackAims, jumps, switches
  <1> QED  BY <1>1 DEF Aims

LEMMA ElementsAppend ==
    ASSUME NEW S, NEW s \in Seq(S), NEW e \in S
    PROVE  Elements(Append(s, e)) = Elements(s) \cup {e}
  <1> DEFINE t == Append(s, e)
             n == Len(s)
  <1>1. /\ n \in Nat /\ DOMAIN s = 1..n /\ DOMAIN t = 1..(n + 1)
        /\ t[n + 1] = e /\ \A i \in 1..n : t[i] = s[i]
    <2>1. /\ t \in Seq(S) /\ Len(t) = n + 1 /\ t[n + 1] = e
          /\ \A i \in 1..n : t[i] = s[i]
      BY AppendProperties
    <2> QED  BY <2>1, LenProperties
  <1> HIDE DEF t, n
  <1>2. \A i : i \in DOMAIN t <=> i \in DOMAIN s \/ i = n + 1  BY <1>1
  <1>3. Elements(t) = Elements(s) \cup {e}
    BY <1>1, <1>2 DEF Elements
  <1> QED  BY <1>3 DEF t

LEMMA ElementsFront ==
    ASSUME NEW S, NEW s \in Seq(S)
    PROVE  Elements(Front(s)) \subseteq Elements(s)
  <1>1. CASE s = <<>>
    <2>1. Front(s) = <<>>  BY <1>1 DEF Front
    <2> QED  BY <1>1, <2>1
  <1>2. CASE s # <<>>
    <2>1. /\ Front(s) \in Seq(S) /\ Len(Front(s)) = Len(s) - 1 /\ Len(s) \in Nat \ {0}
          /\ \A i \in 1..(Len(s) - 1) : Front(s)[i] = s[i]
      BY <1>2, FrontFacts
    <2>2. DOMAIN s = 1..Len(s) /\ DOMAIN Front(s) = 1..(Len(s) - 1)
      BY <2>1, LenProperties
    <2>3. \A i \in DOMAIN Front(s) : i \in DOMAIN s /\ Front(s)[i] = s[i]
      BY <2>1, <2>2
    <2> QED  BY <2>3 DEF Elements
  <1> QED  BY <1>1, <1>2

LEMMA LastElement ==
    ASSUME NEW S, NEW s \in Seq(S), s # <<>>
    PROVE  Last(s) \in Elements(s)
  <1>1. Len(s) \in DOMAIN s  BY LenProperties, EmptySeq
  <1> QED  BY <1>1 DEF Last, Elements

LEMMA EnterLoopAims ==
    ASSUME IInv, NEW e \in Nat, NEW c \in Nat, EnterLoop(e, c), UNCHANGED switches
    PROVE  StackAims' \subseteq StackAims \cup {e, c}
  <1>1. breakJump \in Seq(Nat) /\ continueJump \in Seq(Nat)
    <2>1. BlockId \subseteq Nat  BY NewBlocks DEF BlockId
    <2> QED  BY <2>1, SeqMonotonic DEF IInv, TypeOK
  <1>2. /\ Elements(breakJump') = Elements(breakJump) \cup {e}
        /\ Elements(continueJump') = Elements(continueJump) \cup {c}
    BY <1>1, ElementsAppend DEF EnterLoop, Push
  <1> QED  BY <1>2 DEF StackAims, switches

LEMMA LeaveLoopAims ==
    ASSUME IInv, LeaveLoop, UNCHANGED switches
    PROVE  StackAims' \subseteq StackAims
  <1>1. breakJump \in Seq(BlockId) /\ continueJump \in Seq(BlockId)
    BY DEF IInv, TypeOK
  <1>2. /\ Elements(breakJump') \subseteq Elements(breakJump)
        /\ Elements(continueJump') \subseteq Elements(continueJump)
    BY <1>1, ElementsFront DEF LeaveLoop, Pop
  <1> QED  BY <1>2 DEF StackAims, switches

----------------------------------------------------------------------------
(* Steps of one handler *)

LEMMA InStatement ==
    ASSUME IInv, pc = "statement"
    PROVE  currentFunction # "none" /\ pc \in Running /\ InFunction
  BY DEF IInv, WalkOK, Running

LEMMA InHandler ==
    ASSUME IInv, pc = "returned", frames # <<>>, top.h \in StatementHandlers
    PROVE  currentFunction # "none" /\ InFunction
  <1>1. Len(frames) \in DOMAIN frames
    BY LenProperties, EmptySeq DEF IInv, TypeOK
  <1>2. frames[1].h = "function"  BY <1>1 DEF IInv, WalkOK, top
  <1> QED  BY <1>2 DEF IInv, WalkOK, InFunction

LEMMA TopBlocked ==
    ASSUME IInv, pc \in Running, frames # <<>>
    PROVE  top \in Members(frames) /\ Blocked(top) /\ FrameOK(top)
  <1>1. Len(frames) \in DOMAIN frames
    BY LenProperties, EmptySeq DEF IInv, TypeOK
  <1>2. top \in Members(frames)  BY <1>1 DEF Members, top
  <1> QED  BY <1>2, TopTyped DEF Blocked

\* After as many new blocks, with one instruction at the insert point.
LEMMA Written ==
    ASSUME IInv, currentFunction # "none", NEW n \in Nat, NEW i \in Instr, Makes(i),
           \/ blocks' = Emit(Grow(blocks, n), insertAt, i)
           \/ blocks' = Grow(Emit(blocks, insertAt, i), n)
           \/ n = 0 /\ blocks' = Emit(blocks, insertAt, i)
    PROVE  /\ Wrote(blocks, blocks', Only(insertAt, i))
           /\ Len(blocks') = Len(blocks) + n
           /\ Opened = (Len(blocks) + 1)..(Len(blocks) + n)
  <1>1. /\ blocks \in Seq(Seq(Instr)) /\ Len(blocks) \in Nat
        /\ DOMAIN blocks = 1..Len(blocks) /\ insertAt \in DOMAIN blocks
    <2>1. blocks \in Seq(Seq(Instr)) /\ insertAt \in 0..Len(blocks) /\ insertAt # 0
      BY DEF IInv, TypeOK, WalkOK, BlockId, None
    <2> QED  BY <2>1, LenProperties
  <1>2. Wrote(blocks, blocks', Only(insertAt, i)) /\ Len(blocks') = Len(blocks) + n
    <2>1. CASE blocks' = Emit(Grow(blocks, n), insertAt, i)
      BY <1>1, <2>1, EmitWrote
    <2>2. CASE blocks' = Grow(Emit(blocks, insertAt, i), n)
      BY <1>1, <2>2, EmitWrote
    <2>3. CASE n = 0 /\ blocks' = Emit(blocks, insertAt, i)
      <3>1. /\ Emit(blocks, insertAt, i) \in Seq(Seq(Instr))
            /\ Len(Emit(blocks, insertAt, i)) = Len(blocks)
            /\ DOMAIN Emit(blocks, insertAt, i) = DOMAIN blocks
            /\ Emit(blocks, insertAt, i)[insertAt] = Append(blocks[insertAt], i)
            /\ \A b \in DOMAIN blocks \ {insertAt} :
                  Emit(blocks, insertAt, i)[b] = blocks[b]
        BY <1>1, EmitAt
      <3>2. Len(blocks) <= Len(blocks)  BY <1>1
      <3>3. DOMAIN Only(insertAt, i) = {insertAt} /\ Only(insertAt, i)[insertAt] = i
        BY OnlyFacts
      <3>4. blocks' = Emit(blocks, insertAt, i) /\ Len(blocks') = Len(blocks) + n
        BY <1>1, <2>3, <3>1
      <3>5. \A b \in DOMAIN blocks : Before(blocks, b) = blocks[b]  BY DEF Before
      <3>6. Wrote(blocks, blocks', Only(insertAt, i))
        BY <1>1, <3>1, <3>2, <3>3, <3>4, <3>5 DEF Wrote
      <3> QED  BY <3>4, <3>6
    <2> QED  BY <2>1, <2>2, <2>3
  <1>3. DOMAIN blocks' = 1..Len(blocks')
    BY <1>2, WroteFacts
  <1> QED  BY <1>1, <1>2, <1>3 DEF Opened

LEMMA CloseAndSwap ==
    ASSUME IInv, IInv', Graph, pc = "returned", pc' \in Running,
           frames # <<>>, currentFunction # "none",
           UNCHANGED <<currentFunction, labels>>,
           NEW i \in Instr, i.op \in Terminators, i.to \subseteq Goals(top),
           blocks' = Emit(blocks, insertAt, i),
           NEW f, f.h # "function", Distinct(f), ~Joins(f), ~SwitchBody(f),
           Goals(f) = Goals(top), Held(f) \cup {insertAt'} = Held(top),
           insertAt' \notin Held(f), Ahead(f) \subseteq Ahead(top),
           frames' = [frames EXCEPT ![Len(frames)] = f],
           StackAims' \subseteq StackAims \cup Goals(top)
    PROVE  Graph'
  <1>1. Apart(frames)  BY DEF Graph, Kept, Owned
  <1>2. Changes(Front(frames), {top}, {f})  BY <1>1, SwapChange
  <1>3. Makes(i)  BY DEF Makes, Terminators
  <1>4. Wrote(blocks, blocks', Only(insertAt, i)) /\ Opened = {}
    <2>1. /\ Wrote(blocks, blocks', Only(insertAt, i))
          /\ Opened = (Len(blocks) + 1)..(Len(blocks) + 0)
      BY <1>3, Written
    <2>2. Len(blocks) \in Nat  BY NewBlocks
    <2> QED  BY <2>1, <2>2
  <1>5. Goals(top) \subseteq Aims
    BY TopBlocked, GoalsAims DEF Running
  <1>6. Aims' \subseteq Aims \cup Opened
    <2>1. labelJump' = labelJump /\ StackAims \subseteq Aims  BY DEF labels, Aims
    <2> QED  BY <1>2, <1>5, <2>1, AimsStep
  <1>7. Walking  BY DEF Walking, Running
  <1>8. /\ HeldBy({f}) \cup {insertAt'} = HeldBy({top}) \cup Opened
        /\ insertAt' \notin HeldBy({f})
        /\ AheadBy({f}) \subseteq AheadBy({top}) \cup Opened
    BY <1>4, OneHeld
  <1> DEFINE new == {f}
  <1>9. /\ \A g \in new : g.h # "function" /\ Distinct(g)
        /\ \A g \in new : Joins(g) => Joined(blocks', Aims', g)
        /\ \A g \in new : ~SwitchBody(g)
    OBVIOUS
  <1>10. /\ Changes(Front(frames), {top}, new) /\ i.to \subseteq Aims \cup Opened
         /\ HeldBy(new) \cup {insertAt'} = HeldBy({top}) \cup Opened
         /\ insertAt' \notin HeldBy(new)
         /\ AheadBy(new) \subseteq AheadBy({top}) \cup Opened
    BY <1>2, <1>5, <1>8
  <1> HIDE DEF new
  <1> QED  BY <1>4, <1>6, <1>7, <1>9, <1>10, CloseStep

LEMMA CloseAndPop ==
    ASSUME IInv, IInv', Graph, pc = "returned", pc' \in Running,
           frames # <<>>, currentFunction # "none",
           UNCHANGED <<currentFunction, labels>>,
           NEW i \in Instr, i.op \in Terminators, i.to \subseteq Goals(top),
           blocks' = Emit(blocks, insertAt, i),
           Held(top) = {insertAt'}, frames' = Front(frames),
           StackAims' \subseteq StackAims \cup Goals(top)
    PROVE  Graph'
  <1>1. Apart(frames)  BY DEF Graph, Kept, Owned
  <1>2. Changes(Front(frames), {top}, {})  BY <1>1, PopChange
  <1>3. Makes(i)  BY DEF Makes, Terminators
  <1>4. Wrote(blocks, blocks', Only(insertAt, i)) /\ Opened = {}
    <2>1. /\ Wrote(blocks, blocks', Only(insertAt, i))
          /\ Opened = (Len(blocks) + 1)..(Len(blocks) + 0)
      BY <1>3, Written
    <2>2. Len(blocks) \in Nat  BY NewBlocks
    <2> QED  BY <2>1, <2>2
  <1>5. Goals(top) \subseteq Aims
    BY TopBlocked, GoalsAims DEF Running
  <1>6. Aims' \subseteq Aims \cup Opened
    <2>1. labelJump' = labelJump /\ StackAims \subseteq Aims  BY DEF labels, Aims
    <2> QED  BY <1>2, <1>5, <2>1, AimsStep
  <1>7. Walking  BY DEF Walking, Running
  <1>8. /\ HeldBy({}) \cup {insertAt'} = HeldBy({top}) \cup Opened
        /\ insertAt' \notin HeldBy({}) /\ AheadBy({}) = {}
    BY <1>4, OneHeld, NoneHeld
  <1> QED  BY <1>2, <1>4, <1>5, <1>6, <1>7, <1>8, CloseStep

\* A handler that makes its blocks and leaves the current one.
LEMMA CloseAndPush ==
    ASSUME IInv, IInv', Graph, pc = "statement", pc' \in Running,
           UNCHANGED <<currentFunction, labels>>,
           NEW n \in Nat, NEW i \in Instr, i.op \in Terminators, i.to \subseteq Opened,
           blocks' = Emit(Grow(blocks, n), insertAt, i),
           NEW f, f.h # "function", Distinct(f), ~Joins(f), ~SwitchBody(f),
           Goals(f) \subseteq Opened \cup {None}, Held(f) \cup {insertAt'} = Opened,
           insertAt' \notin Held(f),
           frames' = Append(frames, f),
           StackAims' \subseteq StackAims \cup Goals(f)
    PROVE  Graph'
  <1>0. currentFunction # "none"  BY InStatement
  <1>1. Apart(frames)  BY <1>0 DEF Graph, Kept, Owned
  <1>2. Changes(frames, {}, {f})  BY <1>1, PushChange
  <1>3. Makes(i)  BY DEF Makes, Terminators
  <1>4. Wrote(blocks, blocks', Only(insertAt, i))
    BY <1>0, <1>3, Written
  <1>5. Aims' \subseteq Aims \cup Opened
    <2>1. labelJump' = labelJump /\ StackAims \subseteq Aims /\ None \in Aims
      BY DEF labels, Aims
    <2> QED  BY <1>2, <2>1, AimsStep
  <1>6. Walking  BY <1>0, InStatement DEF Walking
  <1>7. /\ HeldBy({f}) \cup {insertAt'} = HeldBy({}) \cup Opened
        /\ insertAt' \notin HeldBy({f})
        /\ AheadBy({f}) \subseteq AheadBy({}) \cup Opened
    <2>1. Ahead(f) \subseteq Held(f)  BY DEF Held
    <2> QED  BY <2>1, OneHeld, NoneHeld
  <1> DEFINE new == {f}
  <1>8. /\ \A g \in new : g.h # "function" /\ Distinct(g)
        /\ \A g \in new : Joins(g) => Joined(blocks', Aims', g)
        /\ \A g \in new : ~SwitchBody(g)
    OBVIOUS
  <1>9. /\ Changes(frames, {}, new) /\ i.to \subseteq Aims \cup Opened
        /\ HeldBy(new) \cup {insertAt'} = HeldBy({}) \cup Opened
        /\ insertAt' \notin HeldBy(new)
        /\ AheadBy(new) \subseteq AheadBy({}) \cup Opened
    BY <1>2, <1>7
  <1> HIDE DEF new
  <1> QED  BY <1>4, <1>5, <1>6, <1>8, <1>9, CloseStep

----------------------------------------------------------------------------
(* iteration_statement *)

\* The fields of a frame.
LEMMA FrameFields ==
    ASSUME NEW h, NEW at, NEW from, NEW body, NEW alt, NEW end
    PROVE  LET f == NewFrame(h, at, from, body, alt, end)
           IN  /\ f.h = h /\ f.at = at /\ f.from = from /\ f.body = body
               /\ f.alt = alt /\ f.end = end
  BY DEF NewFrame

\* A frame whose handler goes on to another child.
LEMMA Turned ==
    ASSUME NEW f, f \in Frame, NEW at,
           NEW g, g = [f EXCEPT !.at = at]
    PROVE  /\ g.h = f.h /\ g.at = at /\ g.from = f.from /\ g.body = f.body
           /\ g.alt = f.alt /\ g.end = f.end /\ g.bits = f.bits /\ g.pos = f.pos
           /\ Blocked(f) => Blocked(g)
           /\ f.h \in Loops \cup {"if"} /\ Distinct(f) => Distinct(g) /\ Goals(g) = Goals(f)
  <1>1. /\ g.h = f.h /\ g.at = at /\ g.from = f.from /\ g.body = f.body
        /\ g.alt = f.alt /\ g.end = f.end /\ g.bits = f.bits /\ g.pos = f.pos
    BY DEF Frame
  <1>2. Blocked(f) => Blocked(g)  BY <1>1 DEF Blocked
  <1>3. f.h \in Loops \cup {"if"} /\ Distinct(f) => Distinct(g)
    BY <1>1 DEF Distinct, Loops
  <1>4. f.h \in Loops \cup {"if"} => Goals(g) = Goals(f)
    BY <1>1 DEF Goals, SwitchBody, Loops
  <1> QED  BY <1>1, <1>2, <1>3, <1>4

\* The handler of a loop or an `if`, with a child back.
LEMMA LoopTop ==
    ASSUME IInv, Graph, pc = "returned", frames # <<>>, top.h \in Loops \cup {"if"}
    PROVE  /\ currentFunction # "none" /\ Blocked(top) /\ Distinct(top) /\ top \in Frame
           /\ top.end # None /\ top.body # None
           /\ top.h \in Loops => top.from # None
           /\ top.h = "for" => top.alt # None
  <1>1. currentFunction # "none"
    BY InHandler DEF StatementHandlers
  <1>2. Apart(frames)  BY <1>1 DEF Graph, Kept, Owned
  <1>3. Distinct(top) /\ top \in Frame  BY <1>2, TopMembers
  <1>4. Blocked(top) /\ FrameOK(top)  BY TopBlocked DEF Running
  <1> QED  BY <1>1, <1>3, <1>4 DEF FrameOK

LEMMA Branches ==
    /\ Ret \in Instr /\ Ret.op \in Terminators /\ Ret.to = {}
    /\ \A b \in Nat : Br(b) \in Instr /\ Br(b).op \in Terminators /\ Br(b).to = {b}
    /\ \A b, c \in Nat : /\ CondBr(b, c) \in Instr /\ CondBr(b, c).op \in Terminators
                         /\ CondBr(b, c).to = {b, c}
  BY InstrTypes DEF Ret, Br, CondBr, Terminators

LEMMA WhileGraph == ASSUME IInv, IInv', Graph, While  PROVE Graph'
  <1> DEFINE f == NewFrame("while", "cond", n3, n2, None, n1)
  <1>1. /\ pc = "statement" /\ pc' \in Running /\ insertAt' = n3
        /\ UNCHANGED <<currentFunction, labels, jumps, switches>>
        /\ blocks' = Emit(Grow(blocks, 3), insertAt, Br(n3))
        /\ frames' = Append(frames, f)
    BY DEF While, Visit, Call, unit, Running
  <1>2. /\ Br(n3) \in Instr /\ Br(n3).op \in Terminators /\ Br(n3).to = {n3}
        /\ n1 \in Nat /\ n2 \in Nat /\ n3 \in Nat
    BY NewBlocks, Branches
  <1>3. Opened = {n1, n2, n3}
    <2>1. Opened = (Len(blocks) + 1)..(Len(blocks) + 3)
      BY <1>1, <1>2, InStatement, Written DEF Makes, Br
    <2> QED  BY <2>1, NewBlocks DEF n1, n2, n3
  <1>4. /\ f.h = "while" /\ f.at = "cond" /\ f.from = n3 /\ f.body = n2
        /\ f.alt = None /\ f.end = n1
    BY FrameFields
  <1> HIDE DEF f
  <1>5. /\ n1 # n2 /\ n1 # n3 /\ n2 # n3 /\ n1 # None /\ n2 # None /\ n3 # None
    BY NewBlocks DEF n1, n2, n3
  <1>6. Blocked(f) /\ Distinct(f)
    BY <1>2, <1>4, <1>5 DEF Blocked, Distinct, None
  <1>7. /\ Held(f) = {n1, n2} /\ ~Joins(f) /\ ~SwitchBody(f) /\ f.h # "function"
        /\ Goals(f) = {n1, n2, n3, None}
    BY <1>4, <1>5, <1>6, WhileHolds
  <1>8. StackAims' \subseteq StackAims  BY <1>1, StackAimsStay
  <1> QED  BY <1>1, <1>2, <1>3, <1>5, <1>6, <1>7, <1>8, CloseAndPush

LEMMA WhileCondGraph == ASSUME IInv, IInv', Graph, WhileCond  PROVE Graph'
  <1> DEFINE f == [top EXCEPT !.at = "body"]
  <1>1. /\ pc = "returned" /\ pc' \in Running /\ frames # <<>> /\ insertAt' = top.body
        /\ UNCHANGED <<currentFunction, labels, switches>> /\ EnterLoop(top.end, top.from)
        /\ blocks' = Emit(blocks, insertAt, CondBr(top.body, top.end))
        /\ frames' = [frames EXCEPT ![Len(frames)] = f]
        /\ top.h = "while" /\ top.at = "cond" /\ top.h \in Loops
    BY DEF WhileCond, Returned, Proceed, unit, Running, Loops
  <1>2. /\ currentFunction # "none" /\ Blocked(top) /\ Distinct(top) /\ top \in Frame
        /\ top.end # None /\ top.body # None /\ top.from # None
    BY <1>1, LoopTop
  <1>3. /\ f.h = "while" /\ f.at = "body" /\ f.end = top.end /\ f.body = top.body
        /\ f.from = top.from /\ Blocked(f) /\ Distinct(f) /\ Goals(f) = Goals(top)
    BY <1>1, <1>2, Turned
  <1> HIDE DEF f
  <1>4. /\ Held(top) = {top.end, top.body} /\ Ahead(top) = Held(top)
        /\ Goals(top) = {top.from, top.body, top.alt, top.end}
    BY <1>1, <1>2, WhileHolds
  <1>5. /\ Held(f) = {top.end} /\ Ahead(f) = Held(f) /\ ~Joins(f) /\ ~SwitchBody(f)
        /\ f.h # "function"
    BY <1>2, <1>3, WhileHolds
  <1>6. /\ CondBr(top.body, top.end) \in Instr /\ CondBr(top.body, top.end).op \in Terminators
        /\ CondBr(top.body, top.end).to = {top.body, top.end}
        /\ top.end \in Nat /\ top.from \in Nat
    BY <1>2, Branches DEF Blocked
  <1>7. StackAims' \subseteq StackAims \cup Goals(top)
    BY <1>1, <1>4, <1>6, EnterLoopAims
  <1>8. top.body # top.end  BY <1>1, <1>2 DEF Distinct
  <1>9. /\ f.h # "function" /\ Distinct(f) /\ ~Joins(f) /\ ~SwitchBody(f)
        /\ Goals(f) = Goals(top) /\ Held(f) \cup {insertAt'} = Held(top)
        /\ insertAt' \notin Held(f) /\ Ahead(f) \subseteq Ahead(top)
    BY <1>1, <1>3, <1>4, <1>5, <1>8
  <1> DEFINE i == CondBr(top.body, top.end)
  <1>10. /\ i \in Instr /\ i.op \in Terminators /\ i.to \subseteq Goals(top)
         /\ blocks' = Emit(blocks, insertAt, i)
    BY <1>1, <1>4, <1>6
  <1> HIDE DEF i
  <1> QED  BY <1>1, <1>2, <1>7, <1>9, <1>10, CloseAndSwap

LEMMA WhileEndGraph == ASSUME IInv, IInv', Graph, WhileEnd  PROVE Graph'
  <1>1. /\ pc = "returned" /\ pc' \in Running /\ frames # <<>> /\ insertAt' = top.end
        /\ UNCHANGED <<currentFunction, labels, switches>> /\ LeaveLoop
        /\ blocks' = Emit(blocks, insertAt, Br(top.from)) /\ frames' = Front(frames)
        /\ top.h = "while" /\ top.at = "body" /\ top.h \in Loops
    BY DEF WhileEnd, Returned, Return, unit, Running, Loops
  <1>2. /\ currentFunction # "none" /\ Blocked(top)
        /\ top.end # None /\ top.body # None /\ top.from # None
    BY <1>1, LoopTop
  <1>3. Held(top) = {top.end} /\ Goals(top) = {top.from, top.body, top.alt, top.end}
    BY <1>1, <1>2, WhileHolds
  <1>4. Br(top.from) \in Instr /\ Br(top.from).op \in Terminators /\ Br(top.from).to = {top.from}
    BY <1>2, Branches DEF Blocked
  <1>5. StackAims' \subseteq StackAims \cup Goals(top)  BY <1>1, LeaveLoopAims
  <1> QED  BY <1>1, <1>2, <1>3, <1>4, <1>5, CloseAndPop

LEMMA DoGraph == ASSUME IInv, IInv', Graph, Do  PROVE Graph'
  <1> DEFINE f == NewFrame("do", "body", n3, n2, None, n1)
  <1>1. /\ pc = "statement" /\ pc' \in Running /\ insertAt' = n2
        /\ UNCHANGED <<currentFunction, labels, switches>> /\ EnterLoop(n1, n3)
        /\ blocks' = Emit(Grow(blocks, 3), insertAt, Br(n3))
        /\ frames' = Append(frames, f)
    BY DEF Do, Visit, Call, unit, Running
  <1>2. /\ Br(n3) \in Instr /\ Br(n3).op \in Terminators /\ Br(n3).to = {n3}
        /\ n1 \in Nat /\ n2 \in Nat /\ n3 \in Nat
    BY NewBlocks, Branches
  <1>3. Opened = {n1, n2, n3}
    <2>1. Opened = (Len(blocks) + 1)..(Len(blocks) + 3)
      BY <1>1, <1>2, InStatement, Written DEF Makes, Br
    <2> QED  BY <2>1, NewBlocks DEF n1, n2, n3
  <1>4. /\ f.h = "do" /\ f.at = "body" /\ f.from = n3 /\ f.body = n2
        /\ f.alt = None /\ f.end = n1
    BY FrameFields
  <1> HIDE DEF f
  <1>5. /\ n1 # n2 /\ n1 # n3 /\ n2 # n3 /\ n1 # None /\ n2 # None /\ n3 # None
    BY NewBlocks DEF n1, n2, n3
  <1>6. Blocked(f) /\ Distinct(f)
    BY <1>2, <1>4, <1>5 DEF Blocked, Distinct, None
  <1>7. /\ Held(f) = {n1, n3} /\ ~Joins(f) /\ ~SwitchBody(f) /\ f.h # "function"
        /\ Goals(f) = {n1, n2, n3, None}
    BY <1>4, <1>5, <1>6, DoHolds
  <1>8. StackAims' \subseteq StackAims \cup Goals(f)
    BY <1>1, <1>2, <1>7, EnterLoopAims
  <1> QED  BY <1>1, <1>2, <1>3, <1>5, <1>6, <1>7, <1>8, CloseAndPush

LEMMA DoBodyGraph == ASSUME IInv, IInv', Graph, DoBody  PROVE Graph'
  <1> DEFINE f == [top EXCEPT !.at = "cond"]
  <1>1. /\ pc = "returned" /\ pc' \in Running /\ frames # <<>> /\ insertAt' = top.from
        /\ UNCHANGED <<currentFunction, labels, switches>> /\ LeaveLoop
        /\ blocks' = Emit(blocks, insertAt, Br(top.from))
        /\ frames' = [frames EXCEPT ![Len(frames)] = f]
        /\ top.h = "do" /\ top.at = "body" /\ top.h \in Loops
    BY DEF DoBody, Returned, Proceed, unit, Running, Loops
  <1>2. /\ currentFunction # "none" /\ Blocked(top) /\ Distinct(top) /\ top \in Frame
        /\ top.end # None /\ top.body # None /\ top.from # None
    BY <1>1, LoopTop
  <1>3. /\ f.h = "do" /\ f.at = "cond" /\ f.end = top.end /\ f.body = top.body
        /\ f.from = top.from /\ Blocked(f) /\ Distinct(f) /\ Goals(f) = Goals(top)
    <2>1. top \in Frame /\ Blocked(top) /\ Distinct(top) /\ top.h \in Loops \cup {"if"}
      BY <1>1, <1>2
    <2>2. /\ f.h = top.h /\ f.end = top.end /\ f.body = top.body /\ f.alt = top.alt
          /\ f.from = top.from /\ Blocked(f) /\ Distinct(f) /\ Goals(f) = Goals(top)
      BY <2>1, Turned
    <2>3. f.at = "cond"  BY <2>1, Turned
    <2> QED  BY <1>1, <2>2, <2>3
  <1> HIDE DEF f
  <1>4. /\ Held(top) = {top.end, top.from} /\ Ahead(top) = Held(top)
        /\ Goals(top) = {top.from, top.body, top.alt, top.end}
    BY <1>1, <1>2, DoHolds
  <1>5. /\ Held(f) = {top.end} /\ Ahead(f) = Held(f) /\ ~Joins(f) /\ ~SwitchBody(f)
        /\ f.h # "function"
    BY <1>2, <1>3, DoHolds
  <1>6. Br(top.from) \in Instr /\ Br(top.from).op \in Terminators /\ Br(top.from).to = {top.from}
    BY <1>2, Branches DEF Blocked
  <1>7. StackAims' \subseteq StackAims \cup Goals(top)  BY <1>1, LeaveLoopAims
  <1>8. top.from # top.end  BY <1>1, <1>2 DEF Distinct
  <1>9. /\ Br(top.from).to \subseteq Goals(top)
        /\ Held(f) \cup {insertAt'} = Held(top)
        /\ insertAt' \notin Held(f) /\ Ahead(f) \subseteq Ahead(top)
    BY <1>1, <1>2, <1>4, <1>5, <1>6, <1>8
  <1> QED  BY <1>1, <1>2, <1>3, <1>5, <1>6, <1>7, <1>9, CloseAndSwap

LEMMA DoEndGraph == ASSUME IInv, IInv', Graph, DoEnd  PROVE Graph'
  <1>1. /\ pc = "returned" /\ pc' \in Running /\ frames # <<>> /\ insertAt' = top.end
        /\ UNCHANGED <<currentFunction, labels, jumps, switches>>
        /\ blocks' = Emit(blocks, insertAt, CondBr(top.body, top.end)) /\ frames' = Front(frames)
        /\ top.h = "do" /\ top.at = "cond" /\ top.h \in Loops
    BY DEF DoEnd, Returned, Return, unit, Running, Loops
  <1>2. /\ currentFunction # "none" /\ Blocked(top)
        /\ top.end # None /\ top.body # None /\ top.from # None
    BY <1>1, LoopTop
  <1>3. Held(top) = {top.end} /\ Goals(top) = {top.from, top.body, top.alt, top.end}
    BY <1>1, <1>2, DoHolds
  <1>4. /\ CondBr(top.body, top.end) \in Instr /\ CondBr(top.body, top.end).op \in Terminators
        /\ CondBr(top.body, top.end).to = {top.body, top.end}
    BY <1>2, Branches DEF Blocked
  <1>5. StackAims' \subseteq StackAims  BY <1>1, StackAimsStay
  <1> QED  BY <1>1, <1>2, <1>3, <1>4, <1>5, CloseAndPop

\* A handler that makes its blocks and first goes on in the current one.
LEMMA KeepAndPush ==
    ASSUME IInv, IInv', Graph, pc = "statement", pc' \in Running,
           UNCHANGED <<currentFunction, labels, jumps, switches, insertAt>>,
           NEW n \in Nat, blocks' = Grow(blocks, n),
           NEW f, f.h # "function", Distinct(f), ~Joins(f), ~SwitchBody(f),
           Goals(f) \subseteq Opened \cup {None}, Held(f) = Opened,
           frames' = Append(frames, f)
    PROVE  Graph'
  <1>0. currentFunction # "none" /\ Walking  BY InStatement DEF Walking
  <1>1. Apart(frames)  BY <1>0 DEF Graph, Kept, Owned
  <1>2. Changes(frames, {}, {f})  BY <1>1, PushChange
  <1> DEFINE add == Nothing
  <1>3. Wrote(blocks, blocks', add)
    <2>1. blocks \in Seq(Seq(Instr))  BY DEF IInv, TypeOK
    <2> QED  BY <2>1, GrowWrote
  <1>4. DOMAIN add = {}  BY DEF Nothing
  <1> HIDE DEF add
  <1>5. Aims' \subseteq Aims \cup Opened
    <2>1. labelJump' = labelJump /\ StackAims \subseteq Aims /\ None \in Aims
      BY DEF labels, Aims
    <2>2. StackAims' = StackAims  BY StackAimsStay
    <2> QED  BY <1>2, <2>1, <2>2, AimsStep
  <1>6. insertAt \notin Opened
    <2>1. Len(blocks) <= Len(blocks')  BY <1>3 DEF Wrote
    <2>2. insertAt \in DOMAIN blocks  BY <1>0, <2>1, BlockDomains
    <2> QED  BY <2>2 DEF Opened
  <1>7. /\ HeldBy({f}) \cup {insertAt'} = HeldBy({}) \cup Opened \cup {insertAt}
        /\ insertAt' \notin HeldBy({f}) /\ insertAt \notin AheadBy({f})
        /\ AheadBy({f}) \subseteq AheadBy({}) \cup Opened
    <2>1. Ahead(f) \subseteq Held(f)  BY DEF Held
    <2> QED  BY <1>6, <2>1, OneHeld, NoneHeld
  <1> DEFINE new == {f}
  <1>8. /\ \A g \in new : g.h # "function" /\ Distinct(g)
        /\ \A g \in new : Joins(g) => Joined(blocks', Aims', g)
        /\ \A g \in new : SwitchBody(g) => SwitchAt(blocks', g)
    OBVIOUS
  <1>9. /\ Changes(frames, {}, new)
        /\ HeldBy(new) \cup {insertAt'} = HeldBy({}) \cup Opened \cup {insertAt}
        /\ insertAt' \notin HeldBy(new) /\ insertAt \notin AheadBy(new)
        /\ AheadBy(new) \subseteq AheadBy({}) \cup Opened
    BY <1>2, <1>7
  <1>10. /\ DOMAIN add \subseteq {insertAt}
         /\ \A b \in DOMAIN add :
              add[b].op \in {"plain", "switch"} /\ add[b].to \subseteq Aims \cup Opened
    BY <1>4
  <1> HIDE DEF new
  <1> QED  BY <1>0, <1>3, <1>5, <1>8, <1>9, <1>10, KeepStep

LEMMA ForGraph == ASSUME IInv, IInv', Graph, For  PROVE Graph'
  <1> DEFINE f == NewFrame("for", "init", n4, n3, n2, n1)
  <1>1. /\ pc = "statement" /\ pc' \in Running
        /\ UNCHANGED <<currentFunction, labels, jumps, switches, insertAt>>
        /\ blocks' = Grow(blocks, 4) /\ frames' = Append(frames, f)
    BY DEF For, Visit, Call, unit, Running
  <1>2. n1 \in Nat /\ n2 \in Nat /\ n3 \in Nat /\ n4 \in Nat
    BY NewBlocks DEF n4
  <1>3. Opened = {n1, n2, n3, n4}
    <2>1. blocks \in Seq(Seq(Instr))  BY DEF IInv, TypeOK
    <2>2. /\ DOMAIN blocks = 1..Len(blocks) /\ DOMAIN blocks' = 1..(Len(blocks) + 4)
      BY <1>1, <2>1, GrowAt
    <2> QED  BY <2>2, NewBlocks DEF n1, n2, n3, n4, Opened
  <1>4. /\ f.h = "for" /\ f.at = "init" /\ f.from = n4 /\ f.body = n3
        /\ f.alt = n2 /\ f.end = n1
    BY FrameFields
  <1> HIDE DEF f
  <1>5. /\ n1 # n2 /\ n1 # n3 /\ n2 # n3 /\ n1 # n4 /\ n2 # n4 /\ n3 # n4
        /\ n1 # None /\ n2 # None /\ n3 # None /\ n4 # None
    BY NewBlocks DEF n1, n2, n3, n4, None
  <1>6. Blocked(f) /\ Distinct(f)
    BY <1>2, <1>4, <1>5 DEF Blocked, Distinct, None
  <1>7. /\ Held(f) = {n1, n2, n3, n4} /\ ~Joins(f) /\ ~SwitchBody(f) /\ f.h # "function"
        /\ Goals(f) = {n1, n2, n3, n4}
    BY <1>4, <1>5, <1>6, ForHolds
  <1> QED  BY <1>1, <1>3, <1>6, <1>7, KeepAndPush

LEMMA ForInitGraph == ASSUME IInv, IInv', Graph, ForInit  PROVE Graph'
  <1>1. /\ pc = "returned" /\ pc' \in Running /\ frames # <<>> /\ insertAt' = top.from
        /\ UNCHANGED <<currentFunction, labels, jumps, switches>>
        /\ blocks' = Emit(blocks, insertAt, Br(top.from))
        /\ top.h = "for" /\ top.at = "init" /\ top.h \in Loops
    BY DEF ForInit, Returned, Proceed, unit, Running, Loops
  <1>0. PICK at \in {"cond", "nocond"} :
           frames' = [frames EXCEPT ![Len(frames)] = [top EXCEPT !.at = at]]
    BY DEF ForInit, Proceed
  <1> DEFINE f == [top EXCEPT !.at = at]
  <1>2. /\ currentFunction # "none" /\ Blocked(top) /\ Distinct(top) /\ top \in Frame
        /\ top.end # None /\ top.body # None /\ top.from # None /\ top.alt # None
    BY <1>1, LoopTop
  <1>3. /\ f.h = "for" /\ f.at = at /\ f.end = top.end /\ f.body = top.body /\ f.alt = top.alt
        /\ f.from = top.from /\ Blocked(f) /\ Distinct(f) /\ Goals(f) = Goals(top)
    <2>1. top \in Frame /\ Blocked(top) /\ Distinct(top) /\ top.h \in Loops \cup {"if"}
      BY <1>1, <1>2
    <2>2. /\ f.h = top.h /\ f.end = top.end /\ f.body = top.body /\ f.alt = top.alt
          /\ f.from = top.from /\ Blocked(f) /\ Distinct(f) /\ Goals(f) = Goals(top)
      BY <2>1, Turned
    <2>3. f.at = at  BY <2>1, Turned
    <2> QED  BY <1>1, <2>2, <2>3
  <1>9. frames' = [frames EXCEPT ![Len(frames)] = f]  BY <1>0
  <1> HIDE DEF f
  <1>4. /\ Held(top) = {top.end, top.body, top.alt, top.from} /\ Ahead(top) = Held(top)
        /\ Goals(top) = {top.from, top.body, top.alt, top.end}
    BY <1>1, <1>2, ForHolds
  <1>5. /\ Held(f) = {top.end, top.body, top.alt} /\ Ahead(f) = Held(f)
        /\ ~Joins(f) /\ ~SwitchBody(f) /\ f.h # "function"
    BY <1>2, <1>3, ForHolds
  <1>6. Br(top.from) \in Instr /\ Br(top.from).op \in Terminators /\ Br(top.from).to = {top.from}
    BY <1>2, Branches DEF Blocked
  <1>7. StackAims' \subseteq StackAims \cup Goals(top)
    <2>1. UNCHANGED <<jumps, switches>>  BY <1>1
    <2> QED  BY <2>1, StackAimsStay
  <1>8. top.from \notin {top.end, top.body, top.alt}
    <2>1. /\ Distinct(top) /\ top.h \in Loops \cup {"if"} /\ top.alt # None
          /\ top.from # None
      BY <1>1, <1>2
    <2>2. /\ top.end \notin {top.body, top.alt, top.from}
          /\ top.body \notin {top.alt, top.from}
          /\ top.alt = top.from => top.alt = None
      BY <2>1 DEF Distinct
    <2> QED  BY <2>1, <2>2
  <1>10. /\ f.h # "function" /\ Distinct(f) /\ ~Joins(f) /\ ~SwitchBody(f)
         /\ Goals(f) = Goals(top) /\ Held(f) \cup {insertAt'} = Held(top)
         /\ insertAt' \notin Held(f) /\ Ahead(f) \subseteq Ahead(top)
    BY <1>1, <1>3, <1>4, <1>5, <1>8
  <1> DEFINE i == Br(top.from)
  <1>11. /\ i \in Instr /\ i.op \in Terminators /\ i.to \subseteq Goals(top)
         /\ blocks' = Emit(blocks, insertAt, i)
    BY <1>1, <1>4, <1>6
  <1> HIDE DEF i
  <1> QED  BY <1>1, <1>2, <1>7, <1>9, <1>10, <1>11, CloseAndSwap

LEMMA ForCondGraph == ASSUME IInv, IInv', Graph, ForCond  PROVE Graph'
  <1>1. /\ pc = "returned" /\ pc' \in Running /\ frames # <<>> /\ insertAt' = top.alt
        /\ UNCHANGED <<currentFunction, labels, jumps, switches>>
        /\ top.h = "for" /\ top.at \in {"cond", "nocond"} /\ top.h \in Loops
    BY DEF ForCond, Returned, Proceed, unit, Running, Loops
  <1>0. PICK at \in {"inc", "noinc"} :
           frames' = [frames EXCEPT ![Len(frames)] = [top EXCEPT !.at = at]]
    BY DEF ForCond, Proceed
  <1> DEFINE f == [top EXCEPT !.at = at]
  <1>2. /\ currentFunction # "none" /\ Blocked(top) /\ Distinct(top) /\ top \in Frame
        /\ top.end # None /\ top.body # None /\ top.from # None /\ top.alt # None
    BY <1>1, LoopTop
  <1>3. /\ f.h = "for" /\ f.at = at /\ f.end = top.end /\ f.body = top.body /\ f.alt = top.alt
        /\ f.from = top.from /\ Blocked(f) /\ Distinct(f) /\ Goals(f) = Goals(top)
    <2>1. top \in Frame /\ Blocked(top) /\ Distinct(top) /\ top.h \in Loops \cup {"if"}
      BY <1>1, <1>2
    <2>2. /\ f.h = top.h /\ f.end = top.end /\ f.body = top.body /\ f.alt = top.alt
          /\ f.from = top.from /\ Blocked(f) /\ Distinct(f) /\ Goals(f) = Goals(top)
      BY <2>1, Turned
    <2>3. f.at = at  BY <2>1, Turned
    <2> QED  BY <1>1, <2>2, <2>3
  <1>9. frames' = [frames EXCEPT ![Len(frames)] = f]  BY <1>0
  <1> HIDE DEF f
  <1>4. /\ Held(top) = {top.end, top.body, top.alt} /\ Ahead(top) = Held(top)
        /\ Goals(top) = {top.from, top.body, top.alt, top.end}
    BY <1>1, <1>2, ForHolds
  <1>5. /\ Held(f) = {top.end, top.body} /\ Ahead(f) = Held(f)
        /\ ~Joins(f) /\ ~SwitchBody(f) /\ f.h # "function"
    BY <1>2, <1>3, ForHolds
  <1>6. PICK i \in Instr : /\ i.op \in Terminators /\ i.to \subseteq {top.body, top.end}
                           /\ blocks' = Emit(blocks, insertAt, i)
    <2>1. top.body \in Nat /\ top.end \in Nat  BY <1>2 DEF Blocked
    <2>2. \/ blocks' = Emit(blocks, insertAt, CondBr(top.body, top.end))
          \/ blocks' = Emit(blocks, insertAt, Br(top.body))
      BY DEF ForCond
    <2>3. /\ CondBr(top.body, top.end) \in Instr /\ CondBr(top.body, top.end).op \in Terminators
          /\ CondBr(top.body, top.end).to = {top.body, top.end}
      BY <2>1, Branches
    <2>4. Br(top.body) \in Instr /\ Br(top.body).op \in Terminators /\ Br(top.body).to = {top.body}
      BY <2>1, Branches
    <2> QED  BY <2>2, <2>3, <2>4
  <1>7. StackAims' \subseteq StackAims \cup Goals(top)
    <2>1. UNCHANGED <<jumps, switches>>  BY <1>1
    <2> QED  BY <2>1, StackAimsStay
  <1>8. top.alt \notin {top.end, top.body}  BY <1>1, <1>2 DEF Distinct
  <1>10. /\ f.h # "function" /\ Distinct(f) /\ ~Joins(f) /\ ~SwitchBody(f)
         /\ Goals(f) = Goals(top) /\ Held(f) \cup {insertAt'} = Held(top)
         /\ insertAt' \notin Held(f) /\ Ahead(f) \subseteq Ahead(top)
    BY <1>1, <1>3, <1>4, <1>5, <1>8
  <1>11. i.to \subseteq Goals(top)  BY <1>4, <1>6
  <1> QED  BY <1>1, <1>2, <1>7, <1>6, <1>9, <1>10, <1>11, CloseAndSwap

LEMMA ForIncGraph == ASSUME IInv, IInv', Graph, ForInc  PROVE Graph'
  <1> DEFINE f == [top EXCEPT !.at = "body"]
  <1>1. /\ pc = "returned" /\ pc' \in Running /\ frames # <<>> /\ insertAt' = top.body
        /\ UNCHANGED <<currentFunction, labels, switches>> /\ EnterLoop(top.end, top.alt)
        /\ frames' = [frames EXCEPT ![Len(frames)] = f]
        /\ top.h = "for" /\ top.at \in {"inc", "noinc"} /\ top.h \in Loops
    BY DEF ForInc, Returned, Proceed, unit, Running, Loops
  <1>2. /\ currentFunction # "none" /\ Blocked(top) /\ Distinct(top) /\ top \in Frame
        /\ top.end # None /\ top.body # None /\ top.from # None /\ top.alt # None
    BY <1>1, LoopTop
  <1>3. /\ f.h = "for" /\ f.at = "body" /\ f.end = top.end /\ f.body = top.body
        /\ f.alt = top.alt
        /\ f.from = top.from /\ Blocked(f) /\ Distinct(f) /\ Goals(f) = Goals(top)
    <2>1. top \in Frame /\ Blocked(top) /\ Distinct(top) /\ top.h \in Loops \cup {"if"}
      BY <1>1, <1>2
    <2>2. /\ f.h = top.h /\ f.end = top.end /\ f.body = top.body /\ f.alt = top.alt
          /\ f.from = top.from /\ Blocked(f) /\ Distinct(f) /\ Goals(f) = Goals(top)
      BY <2>1, Turned
    <2>3. f.at = "body"  BY <2>1, Turned
    <2> QED  BY <1>1, <2>2, <2>3
  <1> HIDE DEF f
  <1>4. /\ Held(top) = {top.end, top.body} /\ Ahead(top) = Held(top)
        /\ Goals(top) = {top.from, top.body, top.alt, top.end}
    BY <1>1, <1>2, ForHolds
  <1>5. /\ Held(f) = {top.end} /\ Ahead(f) = Held(f)
        /\ ~Joins(f) /\ ~SwitchBody(f) /\ f.h # "function"
    BY <1>2, <1>3, ForHolds
  <1>6. PICK i \in Instr : /\ i.op \in Terminators /\ i.to \subseteq {top.from, top.end}
                           /\ blocks' = Emit(blocks, insertAt, i)
    <2>1. top.from \in Nat /\ top.end \in Nat  BY <1>2 DEF Blocked
    <2>2. \/ blocks' = Emit(blocks, insertAt, Br(top.from))
          \/ blocks' = Emit(blocks, insertAt, Br(top.end))
      BY DEF ForInc
    <2>3. Br(top.end) \in Instr /\ Br(top.end).op \in Terminators /\ Br(top.end).to = {top.end}
      BY <2>1, Branches
    <2>4. Br(top.from) \in Instr /\ Br(top.from).op \in Terminators /\ Br(top.from).to = {top.from}
      BY <2>1, Branches
    <2> QED  BY <2>2, <2>3, <2>4
  <1>7. StackAims' \subseteq StackAims \cup Goals(top)
    <2>1. top.alt \in Nat /\ top.end \in Nat  BY <1>2 DEF Blocked
    <2> QED  BY <1>1, <1>4, <2>1, EnterLoopAims
  <1>8. top.body # top.end  BY <1>1, <1>2 DEF Distinct
  <1>9. /\ f.h # "function" /\ Distinct(f) /\ ~Joins(f) /\ ~SwitchBody(f)
        /\ Goals(f) = Goals(top) /\ Held(f) \cup {insertAt'} = Held(top)
        /\ insertAt' \notin Held(f) /\ Ahead(f) \subseteq Ahead(top)
    BY <1>1, <1>3, <1>4, <1>5, <1>8
  <1>10. i.to \subseteq Goals(top)  BY <1>4, <1>6
  <1> QED  BY <1>1, <1>2, <1>6, <1>7, <1>9, <1>10, CloseAndSwap

LEMMA ForEndGraph == ASSUME IInv, IInv', Graph, ForEnd  PROVE Graph'
  <1>1. /\ pc = "returned" /\ pc' \in Running /\ frames # <<>> /\ insertAt' = top.end
        /\ UNCHANGED <<currentFunction, labels, switches>> /\ LeaveLoop
        /\ blocks' = Emit(blocks, insertAt, Br(top.alt)) /\ frames' = Front(frames)
        /\ top.h = "for" /\ top.at = "body" /\ top.h \in Loops
    BY DEF ForEnd, Returned, Return, unit, Running, Loops
  <1>2. /\ currentFunction # "none" /\ Blocked(top)
        /\ top.end # None /\ top.body # None /\ top.from # None /\ top.alt # None
    BY <1>1, LoopTop
  <1>3. Held(top) = {top.end} /\ Goals(top) = {top.from, top.body, top.alt, top.end}
    BY <1>1, <1>2, ForHolds
  <1>4. Br(top.alt) \in Instr /\ Br(top.alt).op \in Terminators /\ Br(top.alt).to = {top.alt}
    BY <1>2, Branches DEF Blocked
  <1>5. StackAims' \subseteq StackAims \cup Goals(top)  BY <1>1, LeaveLoopAims
  <1> QED  BY <1>1, <1>2, <1>3, <1>4, <1>5, CloseAndPop

----------------------------------------------------------------------------
(* selection_statement *)

LEMMA IfGraph == ASSUME IInv, IInv', Graph, If  PROVE Graph'
  <1>1. /\ pc = "statement" /\ pc' \in Running
        /\ UNCHANGED <<currentFunction, labels, jumps, switches, insertAt>>
    BY DEF If, Visit, Call, unit, Running
  <1>2. /\ n1 \in Nat /\ n2 \in Nat /\ n3 \in Nat
        /\ n1 # n2 /\ n1 # n3 /\ n2 # n3 /\ n1 # None /\ n2 # None /\ n3 # None
    BY NewBlocks DEF n1, n2, n3, None
  <1>3. blocks \in Seq(Seq(Instr))  BY DEF IInv, TypeOK
  <1>4. CASE /\ Call("expression", NewFrame("if", "cond", None, n3, n2, n1))
             /\ blocks' = Grow(blocks, 3)
    <2> DEFINE f == NewFrame("if", "cond", None, n3, n2, n1)
    <2>1. frames' = Append(frames, f)  BY <1>4 DEF Call
    <2>2. Opened = {n1, n2, n3}
      <3>1. DOMAIN blocks = 1..Len(blocks) /\ DOMAIN blocks' = 1..(Len(blocks) + 3)
        BY <1>3, <1>4, GrowAt
      <3> QED  BY <3>1, NewBlocks DEF n1, n2, n3, Opened
    <2>3. /\ f.h = "if" /\ f.at = "cond" /\ f.from = None /\ f.body = n3
          /\ f.alt = n2 /\ f.end = n1
      BY FrameFields
    <2> HIDE DEF f
    <2>4. Blocked(f) /\ Distinct(f)
      BY <1>2, <2>3 DEF Blocked, Distinct, None
    <2>5. /\ Held(f) = {n1, n2, n3} /\ ~Joins(f) /\ ~SwitchBody(f) /\ f.h # "function"
          /\ Goals(f) = {n1, n2, n3, None}
      BY <1>2, <2>3, <2>4, IfHolds
    <2> QED  BY <1>1, <1>4, <2>1, <2>2, <2>4, <2>5, KeepAndPush
  <1>5. CASE /\ Call("expression", NewFrame("if", "cond", None, n2, None, n1))
             /\ blocks' = Grow(blocks, 2)
    <2> DEFINE f == NewFrame("if", "cond", None, n2, None, n1)
    <2>1. frames' = Append(frames, f)  BY <1>5 DEF Call
    <2>2. Opened = {n1, n2}
      <3>1. DOMAIN blocks = 1..Len(blocks) /\ DOMAIN blocks' = 1..(Len(blocks) + 2)
        BY <1>3, <1>5, GrowAt
      <3> QED  BY <3>1, NewBlocks DEF n1, n2, Opened
    <2>3. /\ f.h = "if" /\ f.at = "cond" /\ f.from = None /\ f.body = n2
          /\ f.alt = None /\ f.end = n1
      BY FrameFields
    <2> HIDE DEF f
    <2>4. Blocked(f) /\ Distinct(f)
      BY <1>2, <2>3 DEF Blocked, Distinct, None
    <2>5. /\ Held(f) = {n1, n2} /\ ~Joins(f) /\ ~SwitchBody(f) /\ f.h # "function"
          /\ Goals(f) = {n1, n2, None}
      BY <1>2, <2>3, <2>4, IfHolds
    <2> QED  BY <1>1, <1>5, <2>1, <2>2, <2>4, <2>5, KeepAndPush
  <1> QED  BY <1>4, <1>5 DEF If

LEMMA IfCondGraph == ASSUME IInv, IInv', Graph, IfCond  PROVE Graph'
  <1> DEFINE f == [top EXCEPT !.at = "then"]
             other == IF top.alt = None THEN top.end ELSE top.alt
  <1>1. /\ pc = "returned" /\ pc' \in Running /\ frames # <<>> /\ insertAt' = top.body
        /\ UNCHANGED <<currentFunction, labels, jumps, switches>>
        /\ blocks' = Emit(blocks, insertAt, CondBr(top.body, other))
        /\ frames' = [frames EXCEPT ![Len(frames)] = f]
        /\ top.h = "if" /\ top.at = "cond"
    BY DEF IfCond, Returned, Proceed, unit, Running
  <1>2. /\ currentFunction # "none" /\ Blocked(top) /\ Distinct(top) /\ top \in Frame
        /\ top.end # None /\ top.body # None
    BY <1>1, LoopTop
  <1>3. /\ f.h = "if" /\ f.at = "then" /\ f.end = top.end /\ f.body = top.body
        /\ f.alt = top.alt /\ f.from = top.from
        /\ Blocked(f) /\ Distinct(f) /\ Goals(f) = Goals(top)
    <2>1. top \in Frame /\ Blocked(top) /\ Distinct(top) /\ top.h \in Loops \cup {"if"}
      BY <1>1, <1>2
    <2>2. /\ f.h = top.h /\ f.end = top.end /\ f.body = top.body /\ f.alt = top.alt
          /\ f.from = top.from /\ Blocked(f) /\ Distinct(f) /\ Goals(f) = Goals(top)
      BY <2>1, Turned
    <2>3. f.at = "then"  BY <2>1, Turned
    <2> QED  BY <1>1, <2>2, <2>3
  <1> HIDE DEF f
  <1>4. /\ Held(top) = {top.end, top.body, top.alt} \ {None} /\ Ahead(top) = Held(top)
        /\ Goals(top) = {top.from, top.body, top.alt, top.end}
    BY <1>1, <1>2, IfHolds
  <1>5. /\ Held(f) = {top.end, top.alt} \ {None} /\ Ahead(f) = Held(f)
        /\ ~Joins(f) /\ ~SwitchBody(f) /\ f.h # "function"
    BY <1>2, <1>3, IfHolds
  <1>6. /\ CondBr(top.body, other) \in Instr /\ CondBr(top.body, other).op \in Terminators
        /\ CondBr(top.body, other).to = {top.body, other} /\ other \in {top.end, top.alt}
    <2>1. other \in Nat /\ top.body \in Nat  BY <1>2 DEF Blocked
    <2> QED  BY <2>1, Branches
  <1> HIDE DEF other
  <1>7. StackAims' \subseteq StackAims \cup Goals(top)
    <2>1. UNCHANGED <<jumps, switches>>  BY <1>1
    <2> QED  BY <2>1, StackAimsStay
  <1>8. top.body \notin {top.end, top.alt}  BY <1>1, <1>2 DEF Distinct
  <1>9. /\ CondBr(top.body, other).to \subseteq Goals(top)
        /\ Held(f) \cup {insertAt'} = Held(top)
        /\ insertAt' \notin Held(f) /\ Ahead(f) \subseteq Ahead(top)
    BY <1>1, <1>2, <1>4, <1>5, <1>6, <1>8
  <1> QED  BY <1>1, <1>2, <1>3, <1>5, <1>6, <1>7, <1>9, CloseAndSwap

LEMMA IfThenGraph == ASSUME IInv, IInv', Graph, IfThen  PROVE Graph'
  <1>1. /\ pc = "returned" /\ pc' \in Running /\ frames # <<>>
        /\ UNCHANGED <<currentFunction, labels, jumps, switches>>
        /\ blocks' = Emit(blocks, insertAt, Br(top.end))
        /\ top.h = "if" /\ top.at = "then"
    BY DEF IfThen, Returned, Proceed, Return, unit, Running
  <1>2. /\ currentFunction # "none" /\ Blocked(top) /\ Distinct(top) /\ top \in Frame
        /\ top.end # None /\ top.body # None
    BY <1>1, LoopTop
  <1>3. /\ Held(top) = {top.end, top.alt} \ {None} /\ Ahead(top) = Held(top)
        /\ Goals(top) = {top.from, top.body, top.alt, top.end}
    BY <1>1, <1>2, IfHolds
  <1>4. Br(top.end) \in Instr /\ Br(top.end).op \in Terminators /\ Br(top.end).to = {top.end}
    BY <1>2, Branches DEF Blocked
  <1>5. StackAims' \subseteq StackAims \cup Goals(top)  BY <1>1, StackAimsStay
  <1>6. CASE top.alt = None /\ insertAt' = top.end /\ Return
    <2>1. Held(top) = {insertAt'} /\ frames' = Front(frames)
      BY <1>2, <1>3, <1>6 DEF Return
    <2> QED  BY <1>1, <1>2, <1>3, <1>4, <1>5, <2>1, CloseAndPop
  <1>7. CASE /\ top.alt # None /\ insertAt' = top.alt
             /\ Proceed("statement", [top EXCEPT !.at = "else"])
    <2> DEFINE f == [top EXCEPT !.at = "else"]
    <2>1. frames' = [frames EXCEPT ![Len(frames)] = f]  BY <1>7 DEF Proceed
    <2>2. /\ f.h = "if" /\ f.at = "else" /\ f.end = top.end /\ f.body = top.body
          /\ f.alt = top.alt /\ f.from = top.from
          /\ Blocked(f) /\ Distinct(f) /\ Goals(f) = Goals(top)
      BY <1>1, <1>2, Turned
    <2> HIDE DEF f
    <2>3. /\ Held(f) = {top.end} /\ Ahead(f) = Held(f)
          /\ ~Joins(f) /\ ~SwitchBody(f) /\ f.h # "function"
      BY <1>2, <2>2, IfHolds
    <2>4. top.alt # top.end  BY <1>1, <1>2 DEF Distinct
    <2>5. Held(f) \cup {insertAt'} = Held(top) /\ insertAt' \notin Held(f)
      BY <1>2, <1>3, <1>7, <2>3, <2>4
    <2> QED  BY <1>1, <1>2, <1>3, <1>4, <1>5, <2>1, <2>2, <2>3, <2>5, CloseAndSwap
  <1> QED  BY <1>6, <1>7 DEF IfThen

LEMMA IfElseGraph == ASSUME IInv, IInv', Graph, IfElse  PROVE Graph'
  <1>1. /\ pc = "returned" /\ pc' \in Running /\ frames # <<>> /\ insertAt' = top.end
        /\ UNCHANGED <<currentFunction, labels, jumps, switches>>
        /\ blocks' = Emit(blocks, insertAt, Br(top.end)) /\ frames' = Front(frames)
        /\ top.h = "if" /\ top.at = "else"
    BY DEF IfElse, Returned, Return, unit, Running
  <1>2. /\ currentFunction # "none" /\ Blocked(top)
        /\ top.end # None /\ top.body # None
    BY <1>1, LoopTop
  <1>3. Held(top) = {top.end} /\ Goals(top) = {top.from, top.body, top.alt, top.end}
    BY <1>1, <1>2, IfHolds
  <1>4. Br(top.end) \in Instr /\ Br(top.end).op \in Terminators /\ Br(top.end).to = {top.end}
    BY <1>2, Branches DEF Blocked
  <1>5. StackAims' \subseteq StackAims  BY <1>1, StackAimsStay
  <1> QED  BY <1>1, <1>2, <1>3, <1>4, <1>5, CloseAndPop

----------------------------------------------------------------------------
(* Steps that leave the shape of the graph alone *)

\* A handler that neither holds a block nor is a target.
Light(f) == f.h \notin Loops \cup {"if"} /\ ~SwitchBody(f) /\ ~Joins(f)

\* At most a plain instruction is added.
Plainly == \/ blocks' = blocks
           \/ InFunction /\ blocks' = Emit(blocks, insertAt, Plain)

LEMMA PlainlyWrote ==
    ASSUME IInv, Plainly, currentFunction # "none"
    PROVE  \E add \in {Nothing, Only(insertAt, Plain)} : Wrote(blocks, blocks', add)
  <1>1. blocks \in Seq(Seq(Instr)) /\ insertAt \in DOMAIN blocks
    <2>1. blocks \in Seq(Seq(Instr)) /\ insertAt \in 0..Len(blocks) /\ insertAt # 0
      BY DEF IInv, TypeOK, WalkOK, BlockId, None
    <2>2. DOMAIN blocks = 1..Len(blocks) /\ Len(blocks) \in Nat  BY <2>1, LenProperties
    <2> QED  BY <2>1, <2>2
  <1>2. CASE blocks' = blocks
    <2>1. Wrote(blocks, blocks', Nothing)  BY <1>1, <1>2, SameWrote
    <2> QED  BY <2>1
  <1>3. CASE blocks' = Emit(blocks, insertAt, Plain)  BY <1>1, <1>3, PlainWrote
  <1> QED  BY <1>2, <1>3 DEF Plainly

LEMMA PlainlyLen ==
    ASSUME IInv, Plainly, currentFunction # "none"
    PROVE  Opened = {}
  <1>1. blocks \in Seq(Seq(Instr)) /\ insertAt \in DOMAIN blocks
    <2>1. blocks \in Seq(Seq(Instr)) /\ insertAt \in 0..Len(blocks) /\ insertAt # 0
      BY DEF IInv, TypeOK, WalkOK, BlockId, None
    <2>2. DOMAIN blocks = 1..Len(blocks) /\ Len(blocks) \in Nat  BY <2>1, LenProperties
    <2> QED  BY <2>1, <2>2
  <1>2. DOMAIN blocks' = DOMAIN blocks
    <2>1. DOMAIN Emit(blocks, insertAt, Plain) = DOMAIN blocks
      BY <1>1 DEF Emit
    <2> QED  BY <2>1 DEF Plainly
  <1> QED  BY <1>2 DEF Opened

\* Before the unit's first function there is no block.
LEMMA NoFunction ==
    ASSUME IInv, IInv', Graph, currentFunction = "none",
           UNCHANGED currentFunction, Plainly
    PROVE  Graph'
  <1>1. ~InFunction /\ ~InFunction'  BY DEF IInv, WalkOK
  <1>2. blocks' = <<>>  BY <1>1 DEF Plainly, Graph
  <1> QED  BY <1>1, <1>2 DEF Graph

LEMMA LightStep ==
    ASSUME IInv, IInv', Graph, pc \in Running, pc' \in Running, currentFunction # "none",
           UNCHANGED <<insertAt, currentFunction, labels, jumps, switches>>, Plainly,
           NEW rest, NEW old, NEW new, Changes(rest, old, new),
           \A f \in old : Light(f), \A f \in new : Light(f) /\ f.h # "function"
    PROVE  Graph'
  <1>1. PICK add \in {Nothing, Only(insertAt, Plain)} : Wrote(blocks, blocks', add)
    BY PlainlyWrote
  <1>2. Opened = {}  BY PlainlyLen
  <1>3. /\ DOMAIN add \subseteq {insertAt}
        /\ \A b \in DOMAIN add :
              add[b].op \in {"plain", "switch"} /\ add[b].to \subseteq Aims \cup Opened
    BY DEF Nothing, Only, Plain
  <1>4. /\ \A f \in old : Held(f) = {} /\ Ahead(f) = {}
        /\ \A f \in new : /\ Held(f) = {} /\ Ahead(f) = {} /\ Goals(f) = {}
                          /\ Distinct(f) /\ ~Joins(f) /\ ~SwitchBody(f)
    BY HoldsNothing DEF Light
  <1>5. HeldBy(old) = {} /\ HeldBy(new) = {} /\ AheadBy(old) = {} /\ AheadBy(new) = {}
    BY <1>4 DEF HeldBy, AheadBy
  <1>6. Aims' \subseteq Aims \cup Opened
    <2>1. labelJump' = labelJump /\ StackAims' \subseteq Aims  BY StackAimsStay DEF labels
    <2>2. \A f \in new : Goals(f) \subseteq Aims \cup Opened  BY <1>4
    <2>3. StackAims' \subseteq Aims \cup Opened  BY <2>1
    <2> QED  BY <2>1, <2>2, <2>3, AimsStep
  <1>7. Walking  BY DEF Walking
  <1>8. /\ HeldBy(new) \cup {insertAt'} = HeldBy(old) \cup Opened \cup {insertAt}
        /\ insertAt' \notin HeldBy(new)
        /\ AheadBy(new) \subseteq AheadBy(old) \cup Opened /\ insertAt \notin AheadBy(new)
    BY <1>2, <1>5
  <1>9. /\ \A f \in new : f.h # "function" /\ Distinct(f)
        /\ \A f \in new : Joins(f) => Joined(blocks', Aims', f)
        /\ \A f \in new : SwitchBody(f) => SwitchAt(blocks', f)
    BY <1>4
  <1> QED  BY <1>1, <1>3, <1>6, <1>7, <1>8, <1>9, KeepStep

LEMMA ApartNow ==
    ASSUME Graph, currentFunction # "none"
    PROVE  Apart(frames)
  BY DEF Graph, Kept, Owned

LEMMA LightSame ==
    ASSUME IInv, IInv', Graph, pc \in Running, pc' \in Running,
           UNCHANGED <<insertAt, currentFunction, labels, jumps, switches, frames>>, Plainly
    PROVE  Graph'
  <1>1. CASE currentFunction = "none"  BY <1>1, NoFunction
  <1>2. CASE currentFunction # "none"
    <2>1. Changes(frames, {}, {})  BY <1>2, ApartNow, SameChange
    <2>2. (\A f \in {} : Light(f)) /\ (\A f \in {} : Light(f) /\ f.h # "function")  OBVIOUS
    <2> QED  BY <1>2, <2>1, <2>2, LightStep
  <1> QED  BY <1>1, <1>2

LEMMA LightPush ==
    ASSUME IInv, IInv', Graph, pc \in Running, pc' \in Running,
           UNCHANGED <<insertAt, currentFunction, labels, jumps, switches>>, Plainly,
           NEW f, Light(f), f.h # "function", frames' = Append(frames, f)
    PROVE  Graph'
  <1>1. CASE currentFunction = "none"  BY <1>1, NoFunction
  <1>2. CASE currentFunction # "none"
    <2>1. Changes(frames, {}, {f})  BY <1>2, ApartNow, PushChange
    <2>2. (\A g \in {} : Light(g)) /\ (\A g \in {f} : Light(g) /\ g.h # "function")  OBVIOUS
    <2> QED  BY <1>2, <2>1, <2>2, LightStep
  <1> QED  BY <1>1, <1>2

LEMMA LightSwap ==
    ASSUME IInv, IInv', Graph, pc \in Running, pc' \in Running, frames # <<>>,
           UNCHANGED <<insertAt, currentFunction, labels, jumps, switches>>, Plainly,
           NEW f, Light(f), f.h # "function", Light(top),
           frames' = [frames EXCEPT ![Len(frames)] = f]
    PROVE  Graph'
  <1>1. CASE currentFunction = "none"  BY <1>1, NoFunction
  <1>2. CASE currentFunction # "none"
    <2>1. Changes(Front(frames), {top}, {f})  BY <1>2, ApartNow, SwapChange
    <2>2. (\A g \in {top} : Light(g)) /\ (\A g \in {f} : Light(g) /\ g.h # "function")
      OBVIOUS
    <2> QED  BY <1>2, <2>1, <2>2, LightStep
  <1> QED  BY <1>1, <1>2

LEMMA LightPop ==
    ASSUME IInv, IInv', Graph, pc \in Running, pc' \in Running, frames # <<>>,
           UNCHANGED <<insertAt, currentFunction, labels, jumps, switches>>, Plainly,
           Light(top), frames' = Front(frames)
    PROVE  Graph'
  <1>1. CASE currentFunction = "none"  BY <1>1, NoFunction
  <1>2. CASE currentFunction # "none"
    <2>1. Changes(Front(frames), {top}, {})  BY <1>2, ApartNow, PopChange
    <2>2. (\A g \in {top} : Light(g)) /\ (\A g \in {} : Light(g) /\ g.h # "function")
      OBVIOUS
    <2> QED  BY <1>2, <2>1, <2>2, LightStep
  <1> QED  BY <1>1, <1>2

LEMMA LightNew ==
    ASSUME NEW h, NEW at, h \notin Loops \cup {"if"}, h = "switch" => at # "body",
           h \in {"and", "or"} => at # "rhs",
           h = "conditional" => at \notin {"fst", "secd"}
    PROVE  LET f == NewFrame(h, at, None, None, None, None)
           IN  Light(f) /\ f.h = h
  BY FrameFields DEF Light, SwitchBody, Joins

LEMMA ReturnValueGraph == ASSUME IInv, IInv', Graph, ReturnValue  PROVE Graph'
  <1> DEFINE f == NewFrame("return", "value", None, None, None, None)
  <1>1. /\ pc \in Running /\ pc' \in Running /\ Plainly
        /\ UNCHANGED <<insertAt, currentFunction, labels, jumps, switches>>
        /\ frames' = Append(frames, f)
    BY DEF ReturnValue, Visit, Call, fnVars, unit, Running, Plainly
  <1>2. Light(f) /\ f.h = "return"  BY LightNew DEF Loops
  <1> HIDE DEF f
  <1> QED  BY <1>1, <1>2, LightPush

LEMMA SwitchGraph == ASSUME IInv, IInv', Graph, Switch  PROVE Graph'
  <1> DEFINE f == NewFrame("switch", "value", None, None, None, None)
  <1>1. /\ pc \in Running /\ pc' \in Running /\ Plainly
        /\ UNCHANGED <<insertAt, currentFunction, labels, jumps, switches>>
        /\ frames' = Append(frames, f)
    BY DEF Switch, Visit, Call, fnVars, unit, Running, Plainly
  <1>2. Light(f) /\ f.h = "switch"  BY LightNew DEF Loops
  <1> HIDE DEF f
  <1> QED  BY <1>1, <1>2, LightPush

LEMMA CompoundGraph == ASSUME IInv, IInv', Graph, Compound  PROVE Graph'
  <1> DEFINE f == NewFrame("compound", "list", None, None, None, None)
  <1>1. /\ pc \in Running /\ pc' \in Running /\ Plainly
        /\ UNCHANGED <<insertAt, currentFunction, labels, jumps, switches>>
        /\ frames' = Append(frames, f)
    BY DEF Compound, Visit, Call, fnVars, Running, Plainly
  <1>2. Light(f) /\ f.h = "compound"  BY LightNew DEF Loops
  <1> HIDE DEF f
  <1> QED  BY <1>1, <1>2, LightPush

LEMMA BinaryGraph == ASSUME IInv, IInv', Graph, Binary  PROVE Graph'
  <1> DEFINE f == NewFrame("binary", "lhs", None, None, None, None)
  <1>1. /\ pc \in Running /\ pc' \in Running /\ Plainly
        /\ UNCHANGED <<insertAt, currentFunction, labels, jumps, switches>>
        /\ frames' = Append(frames, f)
    BY DEF Binary, Visit, Call, fnVars, unit, Running, Plainly
  <1>2. Light(f) /\ f.h = "binary"  BY LightNew DEF Loops
  <1> HIDE DEF f
  <1> QED  BY <1>1, <1>2, LightPush

LEMMA LogicalGraph ==
    ASSUME IInv, IInv', Graph, NEW op \in {"and", "or"}, Logical(op)  PROVE Graph'
  <1> DEFINE f == NewFrame(op, "lhs", None, None, None, None)
  <1>1. /\ pc \in Running /\ pc' \in Running /\ Plainly
        /\ UNCHANGED <<insertAt, currentFunction, labels, jumps, switches>>
        /\ frames' = Append(frames, f)
    BY DEF Logical, Visit, Call, fnVars, unit, Running, Plainly
  <1>2. Light(f) /\ f.h # "function"  BY LightNew DEF Loops
  <1> HIDE DEF f
  <1> QED  BY <1>1, <1>2, LightPush

LEMMA ConditionalGraph == ASSUME IInv, IInv', Graph, Conditional  PROVE Graph'
  <1> DEFINE f == NewFrame("conditional", "cond", None, None, None, None)
  <1>1. /\ pc \in Running /\ pc' \in Running /\ Plainly
        /\ UNCHANGED <<insertAt, currentFunction, labels, jumps, switches>>
        /\ frames' = Append(frames, f)
    BY DEF Conditional, Visit, Call, fnVars, unit, Running, Plainly
  <1>2. Light(f) /\ f.h = "conditional"  BY LightNew DEF Loops
  <1> HIDE DEF f
  <1> QED  BY <1>1, <1>2, LightPush

LEMMA CompoundEndGraph == ASSUME IInv, IInv', Graph, CompoundEnd  PROVE Graph'
  <1>1. /\ pc \in Running /\ pc' \in Running /\ Plainly /\ frames # <<>>
        /\ UNCHANGED <<insertAt, currentFunction, labels, jumps, switches>>
        /\ frames' = Front(frames) /\ top.h = "compound"
    BY DEF CompoundEnd, Returned, Return, fnVars, Running, Plainly
  <1>2. Light(top)  BY <1>1 DEF Light, SwitchBody, Joins, Loops
  <1> QED  BY <1>1, <1>2, LightPop

LEMMA BinaryEndGraph == ASSUME IInv, IInv', Graph, BinaryEnd  PROVE Graph'
  <1>1. /\ pc \in Running /\ pc' \in Running /\ Plainly /\ frames # <<>>
        /\ UNCHANGED <<insertAt, currentFunction, labels, jumps, switches>>
        /\ frames' = Front(frames) /\ top.h = "binary"
    BY DEF BinaryEnd, Returned, Return, unit, Running, Plainly
  <1>2. Light(top)  BY <1>1 DEF Light, SwitchBody, Joins, Loops
  <1> QED  BY <1>1, <1>2, LightPop

LEMMA NextStatementGraph == ASSUME IInv, IInv', Graph, NextStatement  PROVE Graph'
  <1>1. /\ pc \in Running /\ pc' \in Running /\ Plainly
        /\ UNCHANGED <<insertAt, currentFunction, labels, jumps, switches, frames>>
    BY DEF NextStatement, Returned, fnVars, unit, Running, Plainly
  <1> QED  BY <1>1, LightSame

LEMMA ExpressionStatementGraph ==
    ASSUME IInv, IInv', Graph, ExpressionStatement  PROVE Graph'
  <1>1. /\ pc \in Running /\ pc' \in Running /\ Plainly
        /\ UNCHANGED <<insertAt, currentFunction, labels, jumps, switches, frames>>
    BY DEF ExpressionStatement, fnVars, unit, Running, Plainly
  <1> QED  BY <1>1, LightSame

LEMMA OperandGraph == ASSUME IInv, IInv', Graph, Operand  PROVE Graph'
  <1>1. /\ pc \in Running /\ pc' \in Running /\ Plainly
        /\ UNCHANGED <<insertAt, currentFunction, labels, jumps, switches, frames>>
    BY DEF Operand, unit, Running, Plainly
  <1> QED  BY <1>1, LightSame

LEMMA BinaryLhsGraph == ASSUME IInv, IInv', Graph, BinaryLhs  PROVE Graph'
  <1> DEFINE f == [top EXCEPT !.at = "rhs"]
  <1>1. /\ pc \in Running /\ pc' \in Running /\ Plainly /\ frames # <<>>
        /\ UNCHANGED <<insertAt, currentFunction, labels, jumps, switches>>
        /\ frames' = [frames EXCEPT ![Len(frames)] = f] /\ top.h = "binary"
    BY DEF BinaryLhs, Returned, Proceed, fnVars, unit, Running, Plainly
  <1>2. top \in Frame  BY <1>1, TopTyped DEF Running
  <1>3. f.h = "binary"  BY <1>1, <1>2, Turned
  <1> HIDE DEF f
  <1>4. Light(top) /\ Light(f)  BY <1>1, <1>3 DEF Light, SwitchBody, Joins, Loops
  <1> QED  BY <1>1, <1>3, <1>4, LightSwap

LEMMA ConditionalConstantGraph ==
    ASSUME IInv, IInv', Graph, ConditionalConstant  PROVE Graph'
  <1>1. /\ pc \in Running /\ pc' \in Running /\ Plainly /\ frames # <<>>
        /\ UNCHANGED <<insertAt, currentFunction, labels, jumps, switches>>
        /\ top.h = "conditional" /\ top.at \notin {"fst", "secd"}
    BY DEF ConditionalConstant, Returned, Proceed, Return, fnVars, unit, Running, Plainly
  <1>2. Light(top) /\ top \in Frame
    BY <1>1, TopTyped DEF Light, SwitchBody, Joins, Loops, Running
  <1>3. ASSUME NEW at \in {"constfst", "constsecd"},
               frames' = [frames EXCEPT ![Len(frames)] = [top EXCEPT !.at = at]]
        PROVE  Graph'
    <2> DEFINE f == [top EXCEPT !.at = at]
    <2>1. f.h = "conditional" /\ f.at = at  BY <1>1, <1>2, Turned
    <2>2. frames' = [frames EXCEPT ![Len(frames)] = f]  BY <1>3
    <2> HIDE DEF f
    <2>3. Light(f)  BY <2>1 DEF Light, SwitchBody, Joins, Loops
    <2> QED  BY <1>1, <1>2, <2>1, <2>2, <2>3, LightSwap
  <1>4. ASSUME Return  PROVE Graph'
    BY <1>1, <1>2, <1>4, LightPop DEF Return
  <1> QED  BY <1>3, <1>4 DEF ConditionalConstant, Proceed

\* Nothing of the function changes.
LEMMA SameGraph ==
    ASSUME Graph, UNCHANGED <<fnVars, frames, jumps, switches, labels, currentFunction>>,
           (pc' = "internal_error") = (pc = "internal_error") \/ ~InFunction
    PROVE  Graph'
  <1>1. /\ blocks' = blocks /\ insertAt' = insertAt /\ frames' = frames
        /\ gotoJump' = gotoJump /\ labelJump' = labelJump /\ gotoSites' = gotoSites
        /\ breakJump' = breakJump /\ continueJump' = continueJump
        /\ caseList' = caseList /\ defaultList' = defaultList
        /\ currentFunction' = currentFunction
    BY DEF fnVars, jumps, switches, labels
  <1>2. Aims' = Aims  BY <1>1 DEF Aims, StackAims
  <1>3. Kept => Kept'  BY <1>1, <1>2 DEF Kept
  <1>4. InFunction' = InFunction  BY <1>1 DEF InFunction
  <1>5. Generated /\ (pc' = "internal_error") = (pc = "internal_error") => Generated'
    BY <1>1 DEF Generated
  <1> QED  BY <1>1, <1>3, <1>4, <1>5 DEF Graph

LEMMA StopGraph ==
    ASSUME Graph, NEW how, how # "internal_error", Stop(how), UNCHANGED unit,
           pc \in PCs \ Stopped
    PROVE  Graph'
  <1>1. (pc' = "internal_error") = (pc = "internal_error")
    BY DEF Stop, PCs, Stopped
  <1> QED  BY <1>1, SameGraph DEF Stop, unit

LEMMA OutsideGraph ==
    ASSUME IInv, Graph, FileScopeExpression \/ FileScopeExpressionEnd \/ UnitEnd
    PROVE  Graph'
  <1>1. ~InFunction
    BY DEF FileScopeExpression, FileScopeExpressionEnd, UnitEnd, IInv, WalkOK, InFunction
  <1>2. UNCHANGED <<fnVars, frames, jumps, switches, labels, currentFunction>>
    BY DEF FileScopeExpression, FileScopeExpressionEnd, UnitEnd, unit
  <1> QED  BY <1>1, <1>2, SameGraph

LEMMA UnitStartGraph == ASSUME IInv, IInv', UnitStart  PROVE Graph'
  <1>1. currentFunction' = "none" /\ blocks' = <<>>  BY DEF UnitStart
  <1>2. ~InFunction'  BY <1>1 DEF IInv, WalkOK
  <1> QED  BY <1>1, <1>2 DEF Graph

----------------------------------------------------------------------------
(* jump_statement *)

\* The insert point and the blocks, with a function being generated.
LEMMA BlocksNow ==
    ASSUME IInv, currentFunction # "none"
    PROVE  /\ blocks \in Seq(Seq(Instr)) /\ Len(blocks) \in Nat
           /\ DOMAIN blocks = 1..Len(blocks) /\ insertAt \in DOMAIN blocks
           /\ 1 \in DOMAIN blocks
  <1>1. blocks \in Seq(Seq(Instr)) /\ insertAt \in 0..Len(blocks) /\ insertAt # 0
    BY DEF IInv, TypeOK, WalkOK, BlockId, None
  <1>2. DOMAIN blocks = 1..Len(blocks) /\ Len(blocks) \in Nat  BY <1>1, LenProperties
  <1> QED  BY <1>1, <1>2

\* The fresh block after a jump.
LEMMA TempWritten ==
    ASSUME IInv, currentFunction # "none", NEW i \in Instr, Makes(i),
           OpenTempBlock(Emit(blocks, insertAt, i))
    PROVE  /\ Wrote(blocks, blocks', Only(insertAt, i))
           /\ Opened = {n1} /\ insertAt' = n1
  <1>1. /\ blocks' = Grow(Emit(blocks, insertAt, i), 1)
        /\ insertAt' = Len(Emit(blocks, insertAt, i)) + 1
    BY DEF OpenTempBlock
  <1>2. Len(Emit(blocks, insertAt, i)) = Len(blocks)  BY BlocksNow, EmitAt
  <1>3. /\ Wrote(blocks, blocks', Only(insertAt, i))
        /\ Opened = (Len(blocks) + 1)..(Len(blocks) + 1)
    BY <1>1, Written
  <1> QED  BY <1>1, <1>2, <1>3, BlocksNow DEF n1

LEMMA TempStep ==
    ASSUME IInv, IInv', Graph, pc \in Running, pc' \in Running, currentFunction # "none",
           UNCHANGED <<currentFunction, labels, jumps, switches>>,
           NEW i \in Instr, i.op \in Terminators, i.to \subseteq Aims,
           OpenTempBlock(Emit(blocks, insertAt, i)),
           NEW rest, NEW old, Changes(rest, old, {}), \A f \in old : Light(f)
    PROVE  Graph'
  <1>1. Makes(i)  BY DEF Makes, Terminators
  <1>2. /\ Wrote(blocks, blocks', Only(insertAt, i))
        /\ Opened = {n1} /\ insertAt' = n1
    BY <1>1, TempWritten
  <1>3. HeldBy(old) = {}  BY HoldsNothing DEF Light, HeldBy
  <1>4. Aims' \subseteq Aims \cup Opened
    <2>1. labelJump' = labelJump /\ StackAims' \subseteq Aims \cup Opened
      BY StackAimsStay DEF labels
    <2> QED  BY <2>1, AimsStep
  <1>5. Walking  BY DEF Walking
  <1>6. /\ HeldBy({}) \cup {insertAt'} = HeldBy(old) \cup Opened
        /\ insertAt' \notin HeldBy({}) /\ AheadBy({}) \subseteq AheadBy(old) \cup Opened
        /\ i.to \subseteq Aims \cup Opened
    BY <1>2, <1>3, NoneHeld
  <1> QED  BY <1>2, <1>4, <1>5, <1>6, CloseStep

LEMMA JumpGraph ==
    ASSUME IInv, IInv', Graph, pc = "statement", pc' \in Running,
           UNCHANGED <<currentFunction, labels, jumps, switches, frames>>,
           NEW i \in Instr, i.op \in Terminators, i.to \subseteq Aims,
           OpenTempBlock(Emit(blocks, insertAt, i))
    PROVE  Graph'
  <1>1. currentFunction # "none" /\ pc \in Running  BY InStatement
  <1>2. Changes(frames, {}, {})  BY <1>1, ApartNow, SameChange
  <1>3. \A f \in {} : Light(f)  OBVIOUS
  <1> QED  BY <1>1, <1>2, <1>3, TempStep

LEMMA ContinueGraph == ASSUME IInv, IInv', Graph, Continue  PROVE Graph'
  <1> DEFINE c == Last(continueJump)
  <1>1. /\ pc = "statement" /\ pc' \in Running
        /\ UNCHANGED <<currentFunction, labels, jumps, switches, frames>>
        /\ OpenTempBlock(Emit(blocks, insertAt, Br(c)))
    BY DEF Continue, Visit, unit, Running
  <1>2. c \in Elements(continueJump) /\ c \in Nat
    <2>1. continueJump \in Seq(BlockId) /\ continueJump # <<>>
      BY DEF Continue, IInv, TypeOK
    <2>2. BlockId \subseteq Nat  BY NewBlocks DEF BlockId
    <2> QED  BY <2>1, <2>2, LastElement, LastType
  <1>3. Br(c) \in Instr /\ Br(c).op \in Terminators /\ Br(c).to = {c} /\ c \in Aims
    BY <1>2, Branches DEF Aims, StackAims
  <1> HIDE DEF c
  <1>4. Br(c).to \subseteq Aims  BY <1>3
  <1> QED  BY <1>1, <1>3, <1>4, JumpGraph

LEMMA BreakGraph == ASSUME IInv, IInv', Graph, Break  PROVE Graph'
  <1> DEFINE c == Last(breakJump)
  <1>1. /\ pc = "statement" /\ pc' \in Running
        /\ UNCHANGED <<currentFunction, labels, jumps, switches, frames>>
        /\ OpenTempBlock(Emit(blocks, insertAt, Br(c)))
    BY DEF Break, Visit, unit, Running
  <1>2. c \in Elements(breakJump) /\ c \in Nat
    <2>1. breakJump \in Seq(BlockId) /\ breakJump # <<>>
      BY DEF Break, IInv, TypeOK
    <2>2. BlockId \subseteq Nat  BY NewBlocks DEF BlockId
    <2> QED  BY <2>1, <2>2, LastElement, LastType
  <1>3. Br(c) \in Instr /\ Br(c).op \in Terminators /\ Br(c).to = {c} /\ c \in Aims
    BY <1>2, Branches DEF Aims, StackAims
  <1> HIDE DEF c
  <1>4. Br(c).to \subseteq Aims  BY <1>3
  <1> QED  BY <1>1, <1>3, <1>4, JumpGraph

LEMMA ReturnVoidGraph == ASSUME IInv, IInv', Graph, ReturnVoid  PROVE Graph'
  <1>1. /\ pc = "statement" /\ pc' \in Running
        /\ UNCHANGED <<currentFunction, labels, jumps, switches, frames>>
        /\ OpenTempBlock(Emit(blocks, insertAt, Ret))
    BY DEF ReturnVoid, Visit, unit, Running
  <1>2. Ret.to \subseteq Aims  BY Branches
  <1> QED  BY <1>1, <1>2, Branches, JumpGraph

LEMMA ReturnValueEndGraph == ASSUME IInv, IInv', Graph, ReturnValueEnd  PROVE Graph'
  <1>1. /\ pc = "returned" /\ pc \in Running /\ pc' \in Running /\ frames # <<>>
        /\ UNCHANGED <<currentFunction, labels, jumps, switches>>
        /\ OpenTempBlock(Emit(blocks, insertAt, Ret))
        /\ frames' = Front(frames) /\ top.h = "return"
    BY DEF ReturnValueEnd, Returned, Return, unit, Running
  <1>2. currentFunction # "none"  BY <1>1, InHandler DEF StatementHandlers
  <1>3. Ret.to \subseteq Aims  BY Branches
  <1>4. Changes(Front(frames), {top}, {})  BY <1>1, <1>2, ApartNow, PopChange
  <1>5. Light(top)  BY <1>1 DEF Light, SwitchBody, Joins, Loops
  <1>6. \A f \in {top} : Light(f)  BY <1>5
  <1> QED  BY <1>1, <1>2, <1>3, <1>4, <1>6, Branches, TempStep

----------------------------------------------------------------------------
(* goto and labels *)

\* The insert point moves to one new block; some of the gotos that wait, or
\* the block before it, get their branch, the others go on waiting.
LEMMA LabelStep ==
    ASSUME IInv, IInv', Graph, Walking \/ currentFunction' = currentFunction,
           pc \in Running, pc' \in Running, currentFunction # "none",
           UNCHANGED <<currentFunction, frames, jumps, switches>>,
           NEW add, Wrote(blocks, blocks', add), Opened = {n1}, insertAt' = n1,
           \A b \in DOMAIN add :
              add[b].op = "br" /\ add[b].to \subseteq Aims \cup Opened,
           Elements(labelJump') \subseteq Elements(labelJump) \cup Opened,
           DOMAIN add \subseteq Waits(gotoJump) \cup {insertAt},
           Waits(gotoJump') = (Waits(gotoJump) \cup {insertAt}) \ DOMAIN add,
           \A l, m \in Labels : l # m => gotoJump'[l] \cap gotoJump'[m] = {},
           InFunction => Patched(blocks', gotoSites', gotoJump', labelJump')
    PROVE  Graph'
  <1> DEFINE H == HeldBy(Members(frames))
             W == Waits(gotoJump)
             U == Unfinished(frames, insertAt, gotoJump)
  <1>1. Kept /\ pc # "internal_error" /\ pc' # "internal_error"
    BY DEF Graph, Running
  <1>2. /\ DOMAIN blocks \subseteq DOMAIN blocks' /\ insertAt \in DOMAIN blocks
        /\ n1 \in DOMAIN blocks' /\ n1 \notin DOMAIN blocks
        /\ DOMAIN blocks' = DOMAIN blocks \cup {n1} /\ n1 \notin W
    <2>1. Len(blocks) <= Len(blocks')  BY DEF Wrote
    <2>2. insertAt \in DOMAIN blocks /\ W \cap Opened = {}  BY <2>1, BlockDomains
    <2>3. DOMAIN blocks \subseteq DOMAIN blocks'  BY WroteFacts
    <2> QED  BY <2>2, <2>3 DEF Opened
  <1>3. /\ Apart(frames) /\ insertAt \notin H /\ insertAt \notin W /\ H \cap W = {}
        /\ H \subseteq DOMAIN blocks
    BY <1>1 DEF Kept, Owned
  <1>4. Waits(gotoJump') \subseteq W \cup {insertAt} /\ H \cap DOMAIN add = {}
    BY <1>3
  <1>5. Owned(frames', insertAt', gotoJump')
    BY <1>2, <1>3, <1>4 DEF Owned
  <1>6. AheadBy(Members(frames)) \subseteq H
    BY DEF AheadBy, HeldBy, Held
  <1>7. ASSUME NEW b \in AheadBy(Members(frames'))
        PROVE  b \in DOMAIN blocks' /\ blocks'[b] = <<>>
    <2>1. b \in DOMAIN blocks /\ blocks[b] = <<>> /\ b \notin DOMAIN add
      BY <1>1, <1>4, <1>6 DEF Kept
    <2> QED  BY <1>2, <2>1 DEF Wrote, Before
  <1>8. HeldBy(Members(frames')) \subseteq DOMAIN blocks'
    BY <1>2, <1>3
  <1>9. ASSUME NEW f \in Members(frames'), SwitchBody(f)
        PROVE  SwitchAt(blocks', f)
    <2>1. SwitchAt(blocks, f)  BY <1>1, <1>9 DEF Kept
    <2> QED  BY <2>1, WroteSwitches
  <1>10. Linked(blocks', Aims', Joining(Members(frames')))
    <2>1. Changes(frames, {}, {})  BY <1>3, SameChange
    <2>2. Aims' \subseteq Aims \cup Opened
      <3>1. StackAims' = StackAims  BY StackAimsStay
      <3> QED  BY <3>1 DEF Aims
    <2>3. \A b \in DOMAIN add : add[b].op # "phi" /\ add[b].to \subseteq Aims \cup Opened
      OBVIOUS
    <2>4. Linked(blocks', Aims', Joining(Members(frames)))
      BY <2>1, <2>2, <2>3, LinksOf
    <2>5. frames' = frames  OBVIOUS
    <2> QED  BY <2>4, <2>5
  <1>11. ASSUME InFunction
         PROVE  Shaped(blocks', Unfinished(frames', insertAt', gotoJump'))
    <2> DEFINE U2 == Unfinished(frames', insertAt', gotoJump')
    <2>1. U = H \cup {insertAt} \cup W /\ U2 = H \cup {n1} \cup Waits(gotoJump')
      BY DEF Unfinished
    <2>2. Shaped(blocks, U)  BY <1>1, <1>11 DEF Graph, Generated
    <2>3. U2 = (U \ DOMAIN add) \cup {n1} /\ DOMAIN add \subseteq U
      BY <1>4, <2>1, <1>3
    <2> HIDE DEF U, U2
    <2>4. U \subseteq DOMAIN blocks /\ U2 \subseteq DOMAIN blocks'
      BY <1>2, <2>2, <2>3 DEF Shaped
    <2>5. \A b \in DOMAIN add : b \in U \/ b \notin DOMAIN blocks  BY <2>3
    <2>6. \A b \in U2 : /\ b \in U \/ b \notin DOMAIN blocks
                        /\ b \in DOMAIN add => add[b].op \in {"plain", "phi", "switch"}
      BY <1>2, <2>3, <2>4
    <2>7. \A b \in DOMAIN blocks' \ U2 :
             b \in U \/ b \notin DOMAIN blocks =>
                \/ b \in DOMAIN add /\ add[b].op \in Terminators
                \/ Finished(blocks'[b])
      BY <1>2, <2>3 DEF Terminators
    <2>8. Shaped(blocks', U2)
      BY <2>2, <2>4, <2>5, <2>6, <2>7, WroteShape
    <2> QED  BY <2>8 DEF U2
  <1>12. Kept'  BY <1>5, <1>7, <1>8, <1>9, <1>10 DEF Kept
  <1>13. InFunction' = InFunction  BY DEF InFunction
  <1>14. InFunction' => Generated'
    BY <1>1, <1>11, <1>13 DEF Generated
  <1> QED  BY <1>12, <1>14 DEF Graph

\* The blocks gotos wait in are open.
LEMMA WaitsLoose ==
    ASSUME Graph, InFunction, pc \in Running
    PROVE  /\ \A b \in Waits(gotoJump) \cup {insertAt} :
                 b \in DOMAIN blocks /\ Loose(blocks[b])
           /\ Patched(blocks, gotoSites, gotoJump, labelJump)
  <1>1. pc # "internal_error"  BY DEF Running
  <1> QED  BY <1>1 DEF Graph, Generated, Shaped, Unfinished

LEMMA GrowOpened ==
    ASSUME IInv, currentFunction # "none", NEW n \in Nat, blocks' = Grow(blocks, n)
    PROVE  /\ Wrote(blocks, blocks', Nothing)
           /\ Opened = (Len(blocks) + 1)..(Len(blocks) + n)
           /\ \A b \in DOMAIN blocks : blocks'[b] = blocks[b]
  <1>1. blocks \in Seq(Seq(Instr)) /\ Len(blocks) \in Nat  BY BlocksNow
  <1>2. /\ DOMAIN blocks = 1..Len(blocks) /\ DOMAIN blocks' = 1..(Len(blocks) + n)
        /\ \A b \in DOMAIN blocks' : blocks'[b] = Before(blocks, b)
    BY <1>1, GrowAt
  <1>3. \A b \in DOMAIN blocks : b \in DOMAIN blocks' /\ Before(blocks, b) = blocks[b]
    BY <1>1, <1>2 DEF Before
  <1> QED  BY <1>1, <1>2, <1>3, GrowWrote DEF Opened

LEMMA GotoGraph ==
    ASSUME IInv, IInv', Graph, NEW l \in Labels, Goto(l)  PROVE Graph'
  <1>1. /\ pc = "statement" /\ pc \in Running /\ pc' \in Running
        /\ UNCHANGED <<currentFunction, frames, jumps, switches, labelJump>>
        /\ gotoSites' = gotoSites \cup {<<insertAt, l>>}
    BY DEF Goto, Visit, unit, Running
  <1>2. currentFunction # "none" /\ InFunction  BY <1>1, InStatement
  <1>3. /\ \A b \in Waits(gotoJump) \cup {insertAt} :
              b \in DOMAIN blocks /\ Loose(blocks[b])
        /\ Patched(blocks, gotoSites, gotoJump, labelJump)
    BY <1>1, <1>2, WaitsLoose
  <1>4. Kept  BY <1>2 DEF Graph
  <1>5. /\ insertAt \notin Waits(gotoJump)
        /\ \A j, m \in Labels : j # m => gotoJump[j] \cap gotoJump[m] = {}
    BY <1>4 DEF Kept, Owned
  <1>6. Elements(labelJump') \subseteq Elements(labelJump) \cup Opened  BY <1>1
  <1>7. CASE /\ labelJump[l] # None
             /\ OpenTempBlock(Emit(blocks, insertAt, Br(labelJump[l])))
             /\ UNCHANGED gotoJump
    <2> DEFINE t == labelJump[l]
               add == Only(insertAt, Br(t))
    <2>1. t \in Nat /\ t \in Elements(labelJump)
      BY DEF IInv, TypeOK, Elements
    <2>2. Br(t) \in Instr /\ Makes(Br(t)) /\ Br(t).op = "br" /\ Br(t).to = {t}
      BY <2>1, Branches DEF Makes, Br
    <2>3. Wrote(blocks, blocks', add) /\ Opened = {n1} /\ insertAt' = n1
      BY <1>2, <1>7, <2>2, TempWritten
    <2>4. DOMAIN add = {insertAt} /\ add[insertAt] = Br(t)  BY OnlyFacts
    <2> HIDE DEF add
    <2>5. \A b \in DOMAIN add : add[b].op = "br" /\ add[b].to \subseteq Aims \cup Opened
      BY <2>1, <2>2, <2>4 DEF Aims
    <2>6. Patched(blocks', gotoSites, gotoJump, labelJump)
      <3>1. \A b \in DOMAIN add : b \in DOMAIN blocks => Loose(blocks[b])
        BY <1>3, <2>4
      <3> QED  BY <1>3, <2>3, <3>1, WrotePatched
    <2>7. /\ insertAt \in DOMAIN blocks' /\ blocks'[insertAt] # <<>>
          /\ Last(blocks'[insertAt]) = Br(t)
      <3>1. insertAt \in DOMAIN blocks' /\ Before(blocks, insertAt) \in Seq(Instr)
        BY <1>3, <2>3, WroteFacts
      <3>2. blocks'[insertAt] = Append(Before(blocks, insertAt), Br(t))
        BY <2>3, <2>4, <3>1 DEF Wrote
      <3> QED  BY <2>2, <3>1, <3>2, AppendAt
    <2>8. Patched(blocks', gotoSites', gotoJump', labelJump')
      <3>1. gotoJump' = gotoJump /\ labelJump' = labelJump  BY <1>1, <1>7
      <3>2. \A site \in gotoSites' : site \in gotoSites \/ site = <<insertAt, l>>
        BY <1>1
      <3>3. \A site \in gotoSites' :
              IF labelJump[site[2]] = None
              THEN site[1] \in gotoJump[site[2]]
              ELSE /\ site[1] \in DOMAIN blocks' /\ blocks'[site[1]] # <<>>
                   /\ Last(blocks'[site[1]]) = Br(labelJump[site[2]])
        <4> SUFFICES ASSUME NEW site \in gotoSites'
                     PROVE  IF labelJump[site[2]] = None
                            THEN site[1] \in gotoJump[site[2]]
                            ELSE /\ site[1] \in DOMAIN blocks' /\ blocks'[site[1]] # <<>>
                                 /\ Last(blocks'[site[1]]) = Br(labelJump[site[2]])
          OBVIOUS
        <4>1. CASE site \in gotoSites  BY <2>6, <4>1 DEF Patched
        <4>2. CASE site = <<insertAt, l>>
          <5>1. site[1] = insertAt /\ site[2] = l  BY <4>2
          <5> QED  BY <1>7, <2>7, <5>1
        <4> QED  BY <3>2, <4>1, <4>2
      <3>4. \A m \in Labels : labelJump[m] # None => gotoJump[m] = {}
        BY <1>3 DEF Patched
      <3> QED  BY <3>1, <3>3, <3>4 DEF Patched
    <2>9. /\ DOMAIN add \subseteq Waits(gotoJump) \cup {insertAt}
          /\ Waits(gotoJump') = (Waits(gotoJump) \cup {insertAt}) \ DOMAIN add
          /\ \A j, m \in Labels : j # m => gotoJump'[j] \cap gotoJump'[m] = {}
      BY <1>5, <1>7, <2>4
    <2> QED  BY <1>1, <1>2, <1>6, <2>3, <2>5, <2>8, <2>9, LabelStep
  <1>8. CASE /\ labelJump[l] = None
             /\ OpenTempBlock(blocks)
             /\ gotoJump' = [gotoJump EXCEPT ![l] = @ \cup {insertAt}]
    <2> DEFINE add == Nothing
    <2>1. /\ Wrote(blocks, blocks', add) /\ Opened = {n1} /\ insertAt' = n1
          /\ \A b \in DOMAIN blocks : blocks'[b] = blocks[b]
      <3>1. blocks' = Grow(blocks, 1) /\ insertAt' = Len(blocks) + 1
        BY <1>8 DEF OpenTempBlock
      <3> QED  BY <1>2, <3>1, GrowOpened, BlocksNow DEF n1
    <2>2. DOMAIN add = {}  BY DEF Nothing
    <2> HIDE DEF add
    <2>3. gotoJump \in [Labels -> SUBSET Nat] /\ labelJump \in [Labels -> Nat]
          /\ gotoSites \subseteq Nat \X Labels
      BY DEF IInv, TypeOK
    <2>4. /\ gotoJump'[l] = gotoJump[l] \cup {insertAt}
          /\ \A m \in Labels : m # l => gotoJump'[m] = gotoJump[m]
      BY <1>8, <2>3
    <2>5. Waits(gotoJump') = Waits(gotoJump) \cup {insertAt}
      BY <2>4 DEF Waits
    <2>6. \A j, m \in Labels : j # m => gotoJump'[j] \cap gotoJump'[m] = {}
      <3>1. \A m \in Labels : insertAt \notin gotoJump[m]  BY <1>5 DEF Waits
      <3> QED  BY <1>5, <2>4, <3>1
    <2>7. Wrote(blocks, blocks', add) => Patched(blocks', gotoSites, gotoJump, labelJump)
      BY <1>3, <2>2, WrotePatched
    <2>8. Patched(blocks', gotoSites', gotoJump', labelJump')
      <3>1. labelJump' = labelJump  BY <1>1
      <3>2. \A m \in Labels : labelJump[m] # None => gotoJump'[m] = {}
        BY <1>3, <1>8, <2>4 DEF Patched
      <3>3. ASSUME NEW site \in gotoSites'
            PROVE  IF labelJump[site[2]] = None
                   THEN site[1] \in gotoJump'[site[2]]
                   ELSE /\ site[1] \in DOMAIN blocks' /\ blocks'[site[1]] # <<>>
                        /\ Last(blocks'[site[1]]) = Br(labelJump[site[2]])
        <4>1. CASE site \in gotoSites
          <5>1. site[2] \in Labels  BY <2>3, <4>1
          <5>2. gotoJump[site[2]] \subseteq gotoJump'[site[2]]  BY <2>4, <5>1
          <5> QED  BY <2>1, <2>7, <4>1, <5>2 DEF Patched
        <4>2. CASE site = <<insertAt, l>>
          <5>1. site[1] = insertAt /\ site[2] = l  BY <4>2
          <5> QED  BY <1>8, <2>4, <5>1
        <4> QED  BY <1>1, <4>1, <4>2
      <3> QED  BY <3>1, <3>2, <3>3 DEF Patched
    <2>9. /\ DOMAIN add \subseteq Waits(gotoJump) \cup {insertAt}
          /\ Waits(gotoJump') = (Waits(gotoJump) \cup {insertAt}) \ DOMAIN add
          /\ \A b \in DOMAIN add :
                add[b].op = "br" /\ add[b].to \subseteq Aims \cup Opened
      BY <2>2, <2>5
    <2> QED  BY <1>1, <1>2, <1>6, <2>1, <2>6, <2>8, <2>9, LabelStep
  <1> QED  BY <1>7, <1>8 DEF Goto

\* The block of the label, the branch into it and those of the gotos.
LabelBranches(l) == [b \in gotoJump[l] \cup {insertAt} |-> Br(n1)]

LEMMA LabelWritten ==
    ASSUME IInv, Graph, pc \in Running, InFunction, NEW l \in Labels,
           blocks' = PatchGotos(Emit(Grow(blocks, 1), insertAt, Br(n1)), gotoJump[l], n1)
    PROVE  Wrote(blocks, blocks', LabelBranches(l)) /\ Opened = {n1}
  <1> DEFINE bs == Emit(Grow(blocks, 1), insertAt, Br(n1))
             gs == gotoJump[l]
  <1>1. currentFunction # "none"  BY DEF IInv, WalkOK
  <1>2. /\ blocks \in Seq(Seq(Instr)) /\ Len(blocks) \in Nat /\ insertAt \in DOMAIN blocks
        /\ DOMAIN blocks = 1..Len(blocks) /\ n1 \in Nat /\ n1 = Len(blocks) + 1
    BY <1>1, BlocksNow DEF n1
  <1>3. gs \subseteq DOMAIN blocks /\ insertAt \notin gs
    <2>1. gs \subseteq Waits(gotoJump)  BY DEF Waits
    <2>2. Waits(gotoJump) \subseteq DOMAIN blocks  BY WaitsLoose
    <2>3. insertAt \notin Waits(gotoJump)  BY <1>1 DEF Graph, Kept, Owned
    <2> QED  BY <2>1, <2>2, <2>3
  <1>4. Br(n1) \in Instr /\ Makes(Br(n1))  BY <1>2, Branches DEF Makes, Br
  <1>5. /\ Grow(blocks, 1) \in Seq(Seq(Instr)) /\ DOMAIN Grow(blocks, 1) = 1..(Len(blocks) + 1)
        /\ Len(Grow(blocks, 1)) = Len(blocks) + 1
        /\ \A b \in DOMAIN Grow(blocks, 1) : Grow(blocks, 1)[b] = Before(blocks, b)
    BY <1>2, GrowAt
  <1> DEFINE gr == Grow(blocks, 1)
  <1>6. gr \in Seq(Seq(Instr)) /\ insertAt \in DOMAIN gr /\ DOMAIN gr = 1..(Len(blocks) + 1)
        /\ Len(gr) = Len(blocks) + 1
    BY <1>2, <1>5
  <1>7. /\ bs \in Seq(Seq(Instr)) /\ DOMAIN bs = 1..(Len(blocks) + 1)
        /\ Len(bs) = Len(blocks) + 1
        /\ bs[insertAt] = Append(Before(blocks, insertAt), Br(n1))
        /\ \A b \in DOMAIN bs \ {insertAt} : bs[b] = Before(blocks, b)
    <2>1. /\ bs \in Seq(Seq(Instr)) /\ Len(bs) = Len(gr) /\ DOMAIN bs = DOMAIN gr
          /\ bs[insertAt] = Append(gr[insertAt], Br(n1))
          /\ \A b \in DOMAIN gr \ {insertAt} : bs[b] = gr[b]
      <3> HIDE DEF gr
      <3>1. bs = Emit(gr, insertAt, Br(n1))  BY DEF gr
      <3> HIDE DEF bs
      <3> QED  BY <1>4, <1>6, <3>1, EmitAt
    <2> HIDE DEF bs
    <2> QED  BY <1>5, <1>6, <2>1
  <1> HIDE DEF bs, gr
  <1>8. blocks' = PatchGotos(bs, gs, n1)  BY DEF bs
  <1>9. /\ blocks' \in Seq(Seq(Instr)) /\ Len(blocks') = Len(blocks) + 1
    BY <1>2, <1>7, <1>8, PatchGotosType
  <1>10. /\ DOMAIN blocks' = 1..(Len(blocks) + 1)
         /\ \A b \in DOMAIN blocks' :
              blocks'[b] = IF b \in gs \cup {insertAt}
                           THEN Append(Before(blocks, b), Br(n1))
                           ELSE Before(blocks, b)
    <2> HIDE DEF gs
    <2>1. /\ DOMAIN blocks' = DOMAIN bs
          /\ \A b \in DOMAIN bs : blocks'[b] = IF b \in gs THEN Append(bs[b], Br(n1)) ELSE bs[b]
      BY <1>8 DEF PatchGotos
    <2> QED  BY <1>2, <1>3, <1>7, <2>1
  <1> DEFINE add == LabelBranches(l)
  <1>11. DOMAIN add = gs \cup {insertAt} /\ \A b \in DOMAIN add : add[b] = Br(n1)
    BY DEF LabelBranches
  <1> HIDE DEF add
  <1>12. Wrote(blocks, blocks', add)
    <2>1. DOMAIN add \subseteq DOMAIN blocks'  BY <1>2, <1>3, <1>10, <1>11
    <2>2. Len(blocks) <= Len(blocks')  BY <1>2, <1>9
    <2> QED  BY <1>2, <1>4, <1>9, <1>10, <1>11, <2>1, <2>2 DEF Wrote
  <1>13. Opened = {n1}  BY <1>2, <1>10 DEF Opened
  <1> QED  BY <1>12, <1>13 DEF add

LEMMA LabelGraph ==
    ASSUME IInv, IInv', Graph, NEW l \in Labels, Label(l)  PROVE Graph'
  <1>1. /\ pc = "statement" /\ pc \in Running /\ pc' \in Running /\ insertAt' = n1
        /\ UNCHANGED <<currentFunction, frames, jumps, switches, gotoSites>>
        /\ labelJump[l] = None
        /\ labelJump' = [labelJump EXCEPT ![l] = n1]
        /\ gotoJump' = [gotoJump EXCEPT ![l] = {}]
    BY DEF Label, Visit, walk, unit, Running
  <1>2. currentFunction # "none" /\ InFunction  BY <1>1, InStatement
  <1> DEFINE add == LabelBranches(l)
  <1>3. Wrote(blocks, blocks', add) /\ Opened = {n1}
    BY <1>1, <1>2, LabelWritten DEF Label
  <1>4. /\ \A b \in Waits(gotoJump) \cup {insertAt} :
              b \in DOMAIN blocks /\ Loose(blocks[b])
        /\ Patched(blocks, gotoSites, gotoJump, labelJump)
    BY <1>1, <1>2, WaitsLoose
  <1>5. /\ insertAt \notin Waits(gotoJump)
        /\ \A j, m \in Labels : j # m => gotoJump[j] \cap gotoJump[m] = {}
    BY <1>2 DEF Graph, Kept, Owned
  <1>6. DOMAIN add = gotoJump[l] \cup {insertAt} /\ \A b \in DOMAIN add : add[b] = Br(n1)
    BY DEF LabelBranches
  <1> HIDE DEF add
  <1>7. gotoJump \in [Labels -> SUBSET Nat] /\ labelJump \in [Labels -> Nat]
        /\ gotoSites \subseteq Nat \X Labels /\ n1 \in Nat /\ n1 # None
    BY NewBlocks DEF IInv, TypeOK
  <1>8. /\ gotoJump'[l] = {} /\ labelJump'[l] = n1
        /\ \A m \in Labels : m # l => gotoJump'[m] = gotoJump[m] /\ labelJump'[m] = labelJump[m]
        /\ DOMAIN labelJump' = Labels /\ DOMAIN labelJump = Labels
    BY <1>1, <1>7
  <1>9. Elements(labelJump') \subseteq Elements(labelJump) \cup Opened
    BY <1>3, <1>8 DEF Elements
  <1>10. Br(n1).op = "br" /\ Br(n1).to = {n1}  BY DEF Br
  <1>11. \A b \in DOMAIN add : add[b].op = "br" /\ add[b].to \subseteq Aims \cup Opened
    BY <1>3, <1>6, <1>10
  <1>12. /\ DOMAIN add \subseteq Waits(gotoJump) \cup {insertAt}
         /\ Waits(gotoJump') = (Waits(gotoJump) \cup {insertAt}) \ DOMAIN add
         /\ \A j, m \in Labels : j # m => gotoJump'[j] \cap gotoJump'[m] = {}
    <2>1. gotoJump[l] \subseteq Waits(gotoJump)  BY DEF Waits
    <2>2. Waits(gotoJump') = Waits(gotoJump) \ gotoJump[l]
      BY <1>5, <1>8 DEF Waits
    <2> QED  BY <1>5, <1>6, <1>8, <2>1, <2>2
  <1>13. Patched(blocks', gotoSites', gotoJump', labelJump')
    <2>1. \A m \in Labels : labelJump'[m] # None => gotoJump'[m] = {}
      BY <1>4, <1>8 DEF Patched
    <2>2. \A b \in DOMAIN add : b \in DOMAIN blocks => Loose(blocks[b])
      <3>1. gotoJump[l] \subseteq Waits(gotoJump)  BY DEF Waits
      <3> QED  BY <1>4, <1>6, <3>1
    <2>3. Patched(blocks', gotoSites, gotoJump, labelJump)
      BY <1>3, <1>4, <2>2, WrotePatched
    <2>4. ASSUME NEW site \in gotoSites
          PROVE  IF labelJump'[site[2]] = None
                 THEN site[1] \in gotoJump'[site[2]]
                 ELSE /\ site[1] \in DOMAIN blocks' /\ blocks'[site[1]] # <<>>
                      /\ Last(blocks'[site[1]]) = Br(labelJump'[site[2]])
      <3>1. site[2] \in Labels  BY <1>7
      <3>2. CASE site[2] # l
        <4>1. labelJump'[site[2]] = labelJump[site[2]] /\ gotoJump'[site[2]] = gotoJump[site[2]]
          BY <1>8, <3>1, <3>2
        <4> QED  BY <2>3, <4>1 DEF Patched
      <3>3. CASE site[2] = l
        <4> DEFINE b == site[1]
        <4>1. b \in gotoJump[l]  BY <1>1, <1>4, <3>3 DEF Patched
        <4>2. b \in DOMAIN add /\ add[b] = Br(n1)  BY <1>6, <4>1
        <4> HIDE DEF b
        <4>3. b \in DOMAIN blocks' /\ blocks'[b] = Append(Before(blocks, b), Br(n1))
          BY <1>3, <4>2 DEF Wrote
        <4>4. Before(blocks, b) \in Seq(Instr) /\ Br(n1) \in Instr
          BY <1>3, <1>7, <4>3, WroteFacts, Branches
        <4>5. blocks'[b] # <<>> /\ Last(blocks'[b]) = Br(n1)
          BY <4>3, <4>4, AppendAt
        <4> QED  BY <1>7, <1>8, <3>3, <4>3, <4>5 DEF b
      <3> QED  BY <3>2, <3>3
    <2>5. gotoSites' = gotoSites  BY <1>1
    <2> QED  BY <2>1, <2>4, <2>5 DEF Patched
  <1> QED  BY <1>1, <1>2, <1>3, <1>9, <1>11, <1>12, <1>13, LabelStep

----------------------------------------------------------------------------
(* case and default *)

LEMMA FallThroughGraph ==
    ASSUME IInv, IInv', Graph, pc = "statement", pc' \in Running,
           UNCHANGED <<currentFunction, labels, frames>>,
           NEW stale \in StaleBack, FallThrough(stale, n1), insertAt' = n1,
           StackAims' \subseteq StackAims \cup {n1}
    PROVE  Graph'
  <1> DEFINE goesOn == IF blocks[insertAt] = <<>> THEN stale
                                                  ELSE EndsInSwitch(blocks, insertAt)
  <1>1. /\ currentFunction # "none" /\ pc \in Running /\ n1 \in Nat /\ Walking
        /\ pc # "internal_error" /\ pc' # "internal_error"
    BY InStatement, NewBlocks DEF Walking, Running
  <1>2. /\ blocks \in Seq(Seq(Instr)) /\ Len(blocks) \in Nat /\ n1 = Len(blocks) + 1
        /\ DOMAIN blocks = 1..Len(blocks) /\ insertAt \in DOMAIN blocks
    BY <1>1, BlocksNow DEF n1
  <1>3. Changes(frames, {}, {})  BY <1>1, ApartNow, SameChange
  <1>4. Opened = {n1} => Aims' \subseteq Aims \cup Opened
    BY <1>3, AimsStep DEF Aims, labels
  <1>5. CASE goesOn
    <2> DEFINE add == Nothing
    <2>1. blocks' = Grow(blocks, 1)  BY <1>5 DEF FallThrough
    <2>2. /\ Wrote(blocks, blocks', add) /\ Opened = {n1}
          /\ blocks'[insertAt] = blocks[insertAt]
      <3>1. /\ Wrote(blocks, blocks', Nothing)
            /\ Opened = (Len(blocks) + 1)..(Len(blocks) + 1)
            /\ \A b \in DOMAIN blocks : blocks'[b] = blocks[b]
        BY <1>1, <2>1, GrowOpened
      <3> QED  BY <1>2, <3>1
    <2>3. DOMAIN add = {}  BY DEF Nothing
    <2> HIDE DEF add
    <2>4. Finished(blocks'[insertAt])
      <3>1. CASE blocks[insertAt] = <<>>
        <4>1. stale = TRUE  BY <1>5, <3>1
        <4> QED  BY <2>2, <3>1, <4>1 DEF Finished
      <3>2. CASE blocks[insertAt] # <<>>
        <4>1. EndsInSwitch(blocks, insertAt)  BY <1>5, <3>2
        <4> QED  BY <2>2, <4>1 DEF EndsInSwitch, Finished, Last, Terminators
      <3> QED  BY <3>1, <3>2
    <2>5. Begins(blocks, frames)  BY <1>1, <1>3, BeginsAsIs
    <2>6. Leads(frames, {})
      <3>1. Aims' \subseteq Aims \cup Opened  BY <1>4, <2>2
      <3>2. \A b \in DOMAIN add : add[b].op # "phi" /\ add[b].to \subseteq Aims \cup Opened
        BY <2>3
      <3> QED  BY <1>1, <1>3, <2>2, <3>1, <3>2, LinksOf DEF Leads
    <2>7. Handed({}, {}, add)
      <3>1. AheadBy({}) = {} /\ HeldBy({}) = {}  BY NoneHeld
      <3> QED  BY <2>2, <2>3, <2>4, <3>1 DEF Handed
    <2>8. InFunction' = InFunction  BY DEF InFunction
    <2> QED  BY <1>1, <1>3, <2>2, <2>5, <2>6, <2>7, <2>8, GraphStep
  <1>6. CASE ~goesOn
    <2>1. blocks' = Emit(Grow(blocks, 1), insertAt, Br(n1))  BY <1>6 DEF FallThrough
    <2>2. /\ Br(n1) \in Instr /\ Br(n1).op \in Terminators /\ Br(n1).to = {n1}
          /\ Makes(Br(n1))
      BY <1>1, Branches DEF Makes, Br
    <2>3. Wrote(blocks, blocks', Only(insertAt, Br(n1))) /\ Opened = {n1}
      <3>1. /\ Wrote(blocks, blocks', Only(insertAt, Br(n1)))
            /\ Opened = (Len(blocks) + 1)..(Len(blocks) + 1)
        BY <1>1, <2>1, <2>2, Written
      <3> QED  BY <1>2, <3>1
    <2>4. Aims' \subseteq Aims \cup Opened  BY <1>4, <2>3
    <2>5. /\ HeldBy({}) \cup {insertAt'} = HeldBy({}) \cup Opened
          /\ insertAt' \notin HeldBy({}) /\ AheadBy({}) \subseteq AheadBy({}) \cup Opened
          /\ Br(n1).to \subseteq Aims \cup Opened
      BY <2>2, <2>3, NoneHeld
    <2> QED  BY <1>1, <1>3, <2>2, <2>3, <2>4, <2>5, CloseStep
  <1> QED  BY <1>5, <1>6

LEMMA CaseGraph ==
    ASSUME IInv, IInv', Graph, NEW c \in CaseValues, NEW stale \in StaleBack, Case(c, stale)
    PROVE  Graph'
  <1> DEFINE old == caseList[Len(caseList)]
             new == InsertCase(old, c, CaseWidth, n1)
  <1>1. /\ pc = "statement" /\ pc' \in Running /\ FallThrough(stale, n1) /\ insertAt' = n1
        /\ UNCHANGED <<currentFunction, labels, frames, jumps, defaultList>>
        /\ switchBits # <<>>
        /\ caseList' = [caseList EXCEPT ![Len(caseList)] = new]
    BY DEF Case, Visit, walk, unit, Running
  <1>2. {cs.block : cs \in new} \subseteq {cs.block : cs \in old} \cup {n1}
    BY DEF InsertCase
  <1>3. Len(caseList) \in DOMAIN caseList
    <2>1. caseList \in Seq(SUBSET CaseEntry) /\ switchBits \in Seq(SwitchWidths)
          /\ Len(caseList) = Len(switchBits)
      BY DEF IInv, TypeOK, SwitchStacksFollowNesting
    <2> QED  BY <1>1, <2>1, LenProperties, EmptySeq
  <1> HIDE DEF new
  <1>4. Elements(caseList') \subseteq Elements(caseList) \cup {new}
    BY <1>1 DEF Elements
  <1>5. old \in Elements(caseList)  BY <1>3 DEF Elements
  <1>6. {cs.block : cs \in UNION Elements(caseList')} \subseteq
           {cs.block : cs \in UNION Elements(caseList)} \cup {n1}
    BY <1>2, <1>4, <1>5
  <1>7. StackAims' \subseteq StackAims \cup {n1}
    BY <1>1, <1>6 DEF StackAims, jumps
  <1> QED  BY <1>1, <1>7, FallThroughGraph

LEMMA DefaultGraph ==
    ASSUME IInv, IInv', Graph, NEW stale \in StaleBack, Default(stale)
    PROVE  Graph'
  <1>1. /\ pc = "statement" /\ pc' \in Running /\ FallThrough(stale, n1) /\ insertAt' = n1
        /\ UNCHANGED <<currentFunction, labels, frames, jumps, caseList>>
        /\ defaultList' = [defaultList EXCEPT ![Len(defaultList)] = n1]
    BY DEF Default, Visit, walk, unit, Running
  <1>2. Elements(defaultList') \subseteq Elements(defaultList) \cup {n1}
    BY <1>1 DEF Elements
  <1>3. StackAims' \subseteq StackAims \cup {n1}
    BY <1>1, <1>2 DEF StackAims, jumps
  <1> QED  BY <1>1, <1>3, FallThroughGraph

----------------------------------------------------------------------------
(* switch *)

LEMMA SwitchValueGraph ==
    ASSUME IInv, IInv', Graph, NEW bits \in SwitchWidths, SwitchValue(bits)
    PROVE  Graph'
  <1> DEFINE f == [NewFrame("switch", "body", insertAt, None, None, n1)
                      EXCEPT !.bits = bits, !.pos = Len(blocks[insertAt]) + 1]
             i == SwitchInst({n1})
  <1>1. /\ pc = "returned" /\ pc \in Running /\ pc' \in Running /\ frames # <<>>
        /\ UNCHANGED <<currentFunction, labels, insertAt, continueJump>>
        /\ blocks' = Emit(Grow(blocks, 1), insertAt, i)
        /\ frames' = [frames EXCEPT ![Len(frames)] = f]
        /\ top.h = "switch" /\ top.at = "value"
        /\ breakJump' = Append(breakJump, n1) /\ caseList' = Append(caseList, {})
        /\ defaultList' = Append(defaultList, None)
    BY DEF SwitchValue, Returned, Proceed, unit, Running, Push
  <1>2. currentFunction # "none" /\ Walking
    BY <1>1, InHandler DEF StatementHandlers, Walking
  <1>3. /\ blocks \in Seq(Seq(Instr)) /\ Len(blocks) \in Nat /\ n1 = Len(blocks) + 1
        /\ DOMAIN blocks = 1..Len(blocks) /\ insertAt \in DOMAIN blocks
    BY <1>2, BlocksNow DEF n1
  <1>4. i \in Instr /\ Makes(i) /\ i.op = "switch" /\ i.to = {n1}
    <2>1. {n1} \subseteq Nat  BY <1>3
    <2> QED  BY <2>1, InstrTypes DEF SwitchInst, Makes
  <1>5. /\ f.h = "switch" /\ f.at = "body" /\ f.from = insertAt /\ f.body = None
        /\ f.alt = None /\ f.end = n1 /\ f.pos = Len(blocks[insertAt]) + 1
    BY DEF NewFrame
  <1> HIDE DEF f
  <1>6. Light(top)  BY <1>1 DEF Light, SwitchBody, Joins, Loops
  <1>7. /\ Held(f) = {n1} /\ Ahead(f) = {n1} /\ ~Joins(f) /\ f.h # "function"
        /\ Goals(f) = {n1} /\ Distinct(f)
    <2>1. f.end \in Nat \ {None} /\ insertAt \in Nat /\ None \in Nat
      BY <1>3, <1>5 DEF None
    <2>2. Blocked(f)  BY <1>5, <2>1 DEF Blocked
    <2> QED  BY <1>5, <2>1, <2>2, SwitchHolds
  <1>8. /\ Wrote(blocks, blocks', Only(insertAt, i)) /\ Opened = {n1}
    <2>1. /\ Wrote(blocks, blocks', Only(insertAt, i))
          /\ Opened = (Len(blocks) + 1)..(Len(blocks) + 1)
      BY <1>1, <1>2, <1>4, Written
    <2> QED  BY <1>3, <2>1
  <1> DEFINE add == Only(insertAt, i)
  <1>9. DOMAIN add = {insertAt} /\ add[insertAt] = i  BY OnlyFacts
  <1>10. Wrote(blocks, blocks', add)  BY <1>8
  <1> HIDE DEF add, i
  <1>11. SwitchAt(blocks', f)
    <2>1. insertAt \in DOMAIN blocks' /\ blocks[insertAt] \in Seq(Instr)
      BY <1>3, <1>10, WroteFacts, ElementOfSeq
    <2>2. blocks'[insertAt] = Append(blocks[insertAt], i)
      BY <1>3, <1>9, <1>10, <2>1 DEF Wrote, Before
    <2>3. /\ f.pos \in DOMAIN Append(blocks[insertAt], i)
          /\ Append(blocks[insertAt], i)[f.pos] = i
      BY <1>4, <1>5, <2>1, AppendAt
    <2> QED  BY <1>5, <2>1, <2>2, <2>3 DEF SwitchAt, i
  <1>12. StackAims' \subseteq Aims \cup {n1}
    <2>1. /\ breakJump \in Seq(Nat) /\ caseList \in Seq(SUBSET CaseEntry)
          /\ defaultList \in Seq(Nat) /\ n1 \in Nat /\ None \in Nat
      <3>1. BlockId \subseteq Nat  BY NewBlocks DEF BlockId
      <3>2. /\ breakJump \in Seq(BlockId) /\ caseList \in Seq(SUBSET CaseEntry)
            /\ defaultList \in Seq(BlockId)
        BY DEF IInv, TypeOK
      <3>3. breakJump \in Seq(Nat) /\ defaultList \in Seq(Nat)
        BY <3>1, <3>2, SeqMonotonic
      <3>4. n1 \in Nat /\ None \in Nat  BY NewBlocks DEF None
      <3> QED  BY <3>2, <3>3, <3>4
    <2>2. /\ Elements(breakJump') = Elements(breakJump) \cup {n1}
          /\ Elements(defaultList') = Elements(defaultList) \cup {None}
          /\ Elements(caseList') = Elements(caseList) \cup {{}}
      <3>1. Elements(Append(breakJump, n1)) = Elements(breakJump) \cup {n1}
        BY <2>1, ElementsAppend
      <3>2. Elements(Append(defaultList, None)) = Elements(defaultList) \cup {None}
        BY <2>1, ElementsAppend
      <3>4. Elements(Append(caseList, {})) = Elements(caseList) \cup {{}}
        <4> DEFINE C == SUBSET CaseEntry
                   none == {}
        <4>1. caseList \in Seq(C) /\ none \in C  BY <2>1
        <4> HIDE DEF C, none
        <4>2. Elements(Append(caseList, none)) = Elements(caseList) \cup {none}
          BY <4>1, ElementsAppend
        <4> QED  BY <4>2 DEF none
      <3> QED  BY <1>1, <3>1, <3>2, <3>4
    <2>3. {cs.block : cs \in UNION Elements(caseList')} =
             {cs.block : cs \in UNION Elements(caseList)}
      BY <2>2
    <2>4. continueJump' = continueJump  BY <1>1
    <2> QED  BY <2>2, <2>3, <2>4 DEF StackAims, Aims
  <1> DEFINE new == {f}
  <1>13. Changes(Front(frames), {top}, new)  BY <1>1, <1>2, ApartNow, SwapChange
  <1>14. Aims' \subseteq Aims \cup Opened
    <2>1. labelJump' = labelJump  BY <1>1 DEF labels
    <2>2. \A g \in new : Goals(g) \subseteq Aims \cup Opened  BY <1>7, <1>8
    <2>3. StackAims' \subseteq Aims \cup Opened  BY <1>8, <1>12
    <2> HIDE DEF new
    <2> QED  BY <1>13, <2>1, <2>2, <2>3, AimsStep
  <1>15. /\ HeldBy(new) = {n1} /\ AheadBy(new) = {n1}
         /\ HeldBy({top}) = {} /\ AheadBy({top}) = {}
    BY <1>6, <1>7, OneHeld, HoldsNothing DEF Light
  <1>16. /\ HeldBy(new) \cup {insertAt'} = HeldBy({top}) \cup Opened \cup {insertAt}
         /\ insertAt' \notin HeldBy(new)
         /\ AheadBy(new) \subseteq AheadBy({top}) \cup Opened /\ insertAt \notin AheadBy(new)
    <2>1. insertAt # n1  BY <1>3
    <2> QED  BY <1>1, <1>8, <1>15, <2>1
  <1>17. /\ \A g \in new : g.h # "function" /\ Distinct(g)
         /\ \A g \in new : Joins(g) => Joined(blocks', Aims', g)
         /\ \A g \in new : SwitchBody(g) => SwitchAt(blocks', g)
    BY <1>5, <1>7, <1>11
  <1>18. /\ DOMAIN add \subseteq {insertAt}
         /\ \A b \in DOMAIN add :
               add[b].op \in {"plain", "switch"} /\ add[b].to \subseteq Aims \cup Opened
    BY <1>4, <1>8, <1>9
  <1> HIDE DEF new
  <1> QED  BY <1>2, <1>10, <1>13, <1>14, <1>16, <1>17, <1>18, KeepStep

\* What completing a SwitchInst changes: the targets of that one instruction.
Completes(bs, bs2, f, T) ==
    /\ bs \in Seq(Seq(Instr)) /\ bs2 \in Seq(Seq(Instr)) /\ Len(bs2) = Len(bs)
    /\ DOMAIN bs2 = DOMAIN bs /\ SwitchAt(bs, f)
    /\ \A b \in DOMAIN bs :
         /\ DOMAIN bs2[b] = DOMAIN bs[b] /\ Len(bs2[b]) = Len(bs[b])
         /\ \A k \in DOMAIN bs[b] :
              bs2[b][k] = IF b = f.from /\ k = f.pos THEN SwitchInst(T) ELSE bs[b][k]

LEMMA CompletesAt ==
    ASSUME NEW bs \in Seq(Seq(Instr)), NEW f, SwitchAt(bs, f), NEW cases, NEW default,
           NEW T, T = {cs.block : cs \in cases} \cup {IF default = None THEN f.end ELSE default},
           T \subseteq Nat
    PROVE  Completes(bs, CompleteSwitch(bs, f, cases, default), f, T)
  <1> DEFINE bs2 == CompleteSwitch(bs, f, cases, default)
             i == SwitchInst(T)
             t == [bs[f.from] EXCEPT ![f.pos] = i]
  <1>1. bs2 \in Seq(Seq(Instr)) /\ Len(bs2) = Len(bs)  BY CompleteSwitchType
  <1>2. bs2 = [bs EXCEPT ![f.from] = t]  BY DEF CompleteSwitch
  <1>3. /\ f.from \in DOMAIN bs /\ f.pos \in DOMAIN bs[f.from]
    BY DEF SwitchAt
  <1> HIDE DEF bs2, i
  <1>4. /\ DOMAIN t = DOMAIN bs[f.from]
        /\ \A k \in DOMAIN t : t[k] = IF k = f.pos THEN i ELSE bs[f.from][k]
    BY <1>3
  <1> HIDE DEF t
  <1>5. /\ DOMAIN bs2 = DOMAIN bs
        /\ \A b \in DOMAIN bs : bs2[b] = IF b = f.from THEN t ELSE bs[b]
    BY <1>2, <1>3
  <1>6. ASSUME NEW b \in DOMAIN bs
        PROVE  /\ DOMAIN bs2[b] = DOMAIN bs[b]
               /\ \A k \in DOMAIN bs[b] :
                    bs2[b][k] = IF b = f.from /\ k = f.pos THEN i ELSE bs[b][k]
    BY <1>4, <1>5
  <1>7. ASSUME NEW b \in DOMAIN bs
        PROVE  Len(bs2[b]) = Len(bs[b])
    <2>1. bs[b] \in Seq(Instr) /\ bs2[b] \in Seq(Instr)
      BY <1>1, <1>5, LenProperties, ElementOfSeq
    <2>2. /\ DOMAIN bs[b] = 1..Len(bs[b]) /\ DOMAIN bs2[b] = 1..Len(bs2[b])
          /\ Len(bs[b]) \in Nat /\ Len(bs2[b]) \in Nat
      BY <2>1, LenProperties
    <2>3. 1..Len(bs2[b]) = 1..Len(bs[b])  BY <1>6, <2>2
    <2> QED  BY <2>2, <2>3
  <1>8. SwitchAt(bs, f)  OBVIOUS
  <1> QED  BY <1>1, <1>5, <1>6, <1>7, <1>8 DEF Completes, bs2, i

\* The shape of the blocks and the gotos stay.
LEMMA CompletesShape ==
    ASSUME NEW bs, NEW bs2, NEW f, NEW T, Completes(bs, bs2, f, T),
           NEW U, Shaped(bs, U)
    PROVE  Shaped(bs2, U)
  <1>1. SwitchInst(T).op = "switch" /\ SwitchInst({f.end}).op = "switch"  BY DEF SwitchInst
  <1>2. \A b \in DOMAIN bs : \A k \in DOMAIN bs[b] : bs2[b][k].op = bs[b][k].op
    BY <1>1 DEF Completes, SwitchAt
  <1>3. U \subseteq DOMAIN bs2  BY DEF Shaped, Completes
  <1>4. ASSUME NEW b \in DOMAIN bs2
        PROVE  /\ Straight(bs2[b])
               /\ IF b \in U THEN Loose(bs2[b]) ELSE Finished(bs2[b])
    <2>1. /\ b \in DOMAIN bs /\ bs[b] \in Seq(Instr) /\ bs2[b] \in Seq(Instr)
          /\ DOMAIN bs2[b] = DOMAIN bs[b] /\ Len(bs2[b]) = Len(bs[b])
          /\ \A k \in DOMAIN bs[b] : bs2[b][k].op = bs[b][k].op
      BY <1>2, LenProperties, ElementOfSeq DEF Completes
    <2>2. DOMAIN bs[b] = 1..Len(bs[b]) /\ Len(bs[b]) \in Nat  BY <2>1, LenProperties
    <2>3. Straight(bs[b]) /\ IF b \in U THEN Loose(bs[b]) ELSE Finished(bs[b])
      BY <2>1 DEF Shaped
    <2>4. Straight(bs2[b])
      <3>1. \A k \in 1..(Len(bs[b]) - 1) : k \in DOMAIN bs[b]  BY <2>2
      <3> QED  BY <2>1, <2>3, <3>1 DEF Straight
    <2>5. Loose(bs[b]) => Loose(bs2[b])  BY <2>1 DEF Loose
    <2>6. Finished(bs[b]) => Finished(bs2[b])
      <3>1. CASE bs[b] = <<>>
        <4>1. Len(bs2[b]) = 0  BY <2>1, <3>1
        <4>2. bs2[b] = <<>>  BY <2>1, <4>1, EmptySeq
        <4> QED  BY <3>1, <4>2
      <3>2. CASE bs[b] # <<>>
        <4>1. Len(bs[b]) \in DOMAIN bs[b] /\ bs2[b] # <<>>
          BY <2>1, <2>2, <3>2, EmptySeq
        <4> QED  BY <2>1, <3>2, <4>1 DEF Finished, Last
      <3> QED  BY <3>1, <3>2
    <2> QED  BY <2>3, <2>4, <2>5, <2>6
  <1> QED  BY <1>3, <1>4 DEF Shaped

LEMMA CompletesPatched ==
    ASSUME NEW bs, NEW bs2, NEW f, NEW T, Completes(bs, bs2, f, T),
           NEW sites, NEW gj, NEW lj, Patched(bs, sites, gj, lj)
    PROVE  Patched(bs2, sites, gj, lj)
  <1> SUFFICES ASSUME NEW site \in sites, lj[site[2]] # None
               PROVE  /\ site[1] \in DOMAIN bs2 /\ bs2[site[1]] # <<>>
                      /\ Last(bs2[site[1]]) = Br(lj[site[2]])
    BY DEF Patched
  <1> DEFINE b == site[1]
  <1>1. /\ b \in DOMAIN bs /\ bs[b] # <<>> /\ Last(bs[b]) = Br(lj[site[2]])
    BY DEF Patched
  <1> HIDE DEF b
  <1>2. /\ bs[b] \in Seq(Instr) /\ bs2[b] \in Seq(Instr) /\ b \in DOMAIN bs2
        /\ DOMAIN bs2[b] = DOMAIN bs[b] /\ Len(bs2[b]) = Len(bs[b])
    BY <1>1, LenProperties, ElementOfSeq DEF Completes
  <1>3. Len(bs[b]) \in DOMAIN bs[b] /\ bs2[b] # <<>>
    BY <1>1, <1>2, LenProperties, EmptySeq
  <1>4. ~(b = f.from /\ Len(bs[b]) = f.pos)
    <2>1. SwitchInst({f.end}).op = "switch" /\ Br(lj[site[2]]).op = "br"
      BY DEF SwitchInst, Br
    <2> QED  BY <1>1, <2>1 DEF Completes, SwitchAt, Last
  <1>5. bs2[b][Len(bs[b])] = bs[b][Len(bs[b])]
    BY <1>1, <1>3, <1>4 DEF Completes
  <1> QED  BY <1>1, <1>2, <1>3, <1>5 DEF Last, b

\* The other open switches have other targets.
LEMMA CompletesSwitches ==
    ASSUME NEW bs, NEW bs2, NEW f, NEW T, Completes(bs, bs2, f, T),
           NEW g, SwitchAt(bs, g), g.end # f.end
    PROVE  SwitchAt(bs2, g)
  <1>1. ~(g.from = f.from /\ g.pos = f.pos)
    <2>1. \A e : SwitchInst({e}).to = {e}  BY DEF SwitchInst
    <2>2. SwitchInst({g.end}) # SwitchInst({f.end})
      <3>1. {g.end} # {f.end}  OBVIOUS
      <3> QED  BY <2>1, <3>1
    <2> QED  BY <2>2 DEF Completes, SwitchAt
  <1>2. bs2[g.from][g.pos] = bs[g.from][g.pos]
    BY <1>1 DEF Completes, SwitchAt
  <1> QED  BY <1>2 DEF Completes, SwitchAt

\* Only blocks that are targets gain or lose a predecessor.
LEMMA CompletesLinks ==
    ASSUME NEW bs, NEW bs2, NEW f, NEW T, Completes(bs, bs2, f, T),
           NEW A, NEW J, Linked(bs, A, J), T \subseteq A, f.end \in A
    PROVE  Linked(bs2, A, J)
  <1>1. /\ DOMAIN bs2 = DOMAIN bs /\ Len(bs2) = Len(bs)
        /\ \A b \in DOMAIN bs : DOMAIN bs2[b] = DOMAIN bs[b]
    BY DEF Completes
  <1>2. SwitchInst(T).op = "switch" /\ SwitchInst({f.end}).op = "switch"
        /\ SwitchInst(T).to = T /\ SwitchInst({f.end}).to = {f.end}
    BY DEF SwitchInst
  <1>3. \A b \in DOMAIN bs : \A k \in DOMAIN bs[b] :
           \/ bs2[b][k] = bs[b][k]
           \/ /\ bs2[b][k].op = "switch" /\ bs[b][k].op = "switch"
              /\ bs2[b][k].to = T /\ bs[b][k].to = {f.end}
    BY <1>2 DEF Completes, SwitchAt
  <1>4. ASSUME NEW e, e \notin A
        PROVE  Predecessors(bs2, e) = Predecessors(bs, e)
    BY <1>1, <1>3, <1>4 DEF Predecessors
  <1>5. 1 \notin A /\ A \subseteq 0..Len(bs)  BY DEF Linked
  <1>6. Predecessors(bs2, 1) = {}  BY <1>4, <1>5 DEF Linked
  <1>7. ASSUME NEW b \in DOMAIN bs2, NEW k \in DOMAIN bs2[b]
        PROVE  /\ bs2[b][k].to \subseteq 0..Len(bs2)
               /\ bs2[b][k].op = "phi" =>
                    k = 1 /\ b \notin A /\ bs2[b][k].to = Predecessors(bs2, b)
    <2>1. CASE bs2[b][k] = bs[b][k]  BY <1>1, <1>4, <2>1 DEF Linked
    <2>2. CASE bs2[b][k].op = "switch" /\ bs2[b][k].to = T
      BY <1>1, <1>5, <2>2
    <2> QED  BY <1>1, <1>3, <2>1, <2>2
  <1>8. \A g \in J : Joined(bs2, A, g)  BY <1>1, <1>4 DEF Linked, Joined
  <1> QED  BY <1>1, <1>5, <1>6, <1>7, <1>8 DEF Linked

\* One instruction in one block.
LEMMA EmitOnly ==
    ASSUME NEW bs \in Seq(Seq(Instr)), NEW c \in DOMAIN bs, NEW i \in Instr, Makes(i)
    PROVE  Wrote(bs, Emit(bs, c, i), Only(c, i)) /\ Len(Emit(bs, c, i)) = Len(bs)
  <1>1. /\ Emit(bs, c, i) \in Seq(Seq(Instr)) /\ Len(Emit(bs, c, i)) = Len(bs)
        /\ DOMAIN Emit(bs, c, i) = DOMAIN bs
        /\ Emit(bs, c, i)[c] = Append(bs[c], i)
        /\ \A b \in DOMAIN bs \ {c} : Emit(bs, c, i)[b] = bs[b]
    BY EmitAt
  <1>2. Len(bs) <= Len(bs)
    <2>1. Len(bs) \in Nat  BY LenProperties
    <2> QED  BY <2>1
  <1>3. DOMAIN Only(c, i) = {c} /\ Only(c, i)[c] = i  BY OnlyFacts
  <1>4. \A b \in DOMAIN bs : Before(bs, b) = bs[b]  BY DEF Before
  <1> QED  BY <1>1, <1>2, <1>3, <1>4 DEF Wrote

\* The switch that is being closed, and its targets.
SwitchTargets ==
    {cs.block : cs \in Last(caseList)} \cup
    {IF Last(defaultList) = None THEN top.end ELSE Last(defaultList)}

LEMMA SwitchTargetsAim ==
    ASSUME IInv, pc = "returned", frames # <<>>, SwitchBody(top)
    PROVE  SwitchTargets \subseteq Aims \cap Nat /\ top.end \in Aims /\ top.end \in Nat
  <1>1. /\ pc \in Running /\ top.h # "function"
    BY DEF SwitchBody, Running
  <1>2. /\ top \in Frame /\ top.end \in BlockId /\ BlockId \subseteq Nat
        /\ top.end # None /\ top \in Members(frames)
    BY <1>1, TopTyped, TopBlocked DEF FrameOK, SwitchBody
  <1>3. caseList # <<>> /\ defaultList # <<>>
    <2>1. /\ frames \in Seq(Frame) /\ Mirror(Stacks, frames)
          /\ Stacks \in StackTypes(BlockId, CaseEntry)
      BY <1>1, InvParts
    <2>2. Front(frames) \in Seq(Frame) /\ frames = Append(Front(frames), top)
      BY <2>1, FrameStack DEF top, Last
    <2>3. Mirror(Stacks, Append(Front(frames), top))  BY <2>1, <2>2
    <2>4. Stacks.cases # <<>> /\ Stacks.default # <<>>
      BY <1>2, <2>1, <2>2, <2>3, MirrorLeave
    <2> QED  BY <2>4 DEF Stacks
  <1> DEFINE C == SUBSET CaseEntry
             cases == Last(caseList)
             default == Last(defaultList)
  <1>4. /\ cases \in C /\ default \in BlockId
        /\ cases \in Elements(caseList) /\ default \in Elements(defaultList)
    <2>1. caseList \in Seq(C) /\ defaultList \in Seq(BlockId)  BY DEF IInv, TypeOK
    <2> HIDE DEF C
    <2> QED  BY <1>3, <2>1, LastType, LastElement
  <1> HIDE DEF cases, default
  <1>5. Elements(defaultList) \subseteq Aims  BY DEF Aims, StackAims
  <1>6. {cs.block : cs \in cases} \subseteq Aims
    BY <1>4 DEF Aims, StackAims
  <1>7. {cs.block : cs \in cases} \subseteq Nat
    BY <1>2, <1>4 DEF CaseEntry
  <1>8. top.end \in Goals(top)  BY <1>2 DEF Goals
  <1>9. top.end \in Aims  BY <1>2, <1>8, GoalsAims
  <1> QED  BY <1>2, <1>4, <1>5, <1>6, <1>7, <1>9 DEF SwitchTargets, cases, default

LEMMA SwitchEndGraph == ASSUME IInv, IInv', Graph, SwitchEnd  PROVE Graph'
  <1> DEFINE bs == CompleteSwitch(blocks, top, Last(caseList), Last(defaultList))
             rest == Front(frames)
             i == Br(top.end)
             add == Only(insertAt, i)
             J == Joining(Members(rest))
  <1>1. /\ pc = "returned" /\ pc \in Running /\ pc' \in Running /\ frames # <<>>
        /\ UNCHANGED <<currentFunction, labels, continueJump>>
        /\ blocks' = Emit(bs, insertAt, i)
        /\ frames' = Front(frames) /\ insertAt' = top.end
        /\ top.h = "switch" /\ top.at = "body"
        /\ breakJump' = Front(breakJump) /\ caseList' = Front(caseList)
        /\ defaultList' = Front(defaultList)
    BY DEF SwitchEnd, LeaveSwitch, Pop, Returned, Return, unit, Running
  <1>2. /\ currentFunction # "none"
        /\ pc # "internal_error" /\ pc' # "internal_error" /\ SwitchBody(top)
    BY <1>1, InHandler DEF StatementHandlers, SwitchBody, Running
  <1>3. /\ blocks \in Seq(Seq(Instr)) /\ Len(blocks) \in Nat /\ insertAt \in DOMAIN blocks
        /\ DOMAIN blocks = 1..Len(blocks) /\ 1 \in DOMAIN blocks
    BY <1>2, BlocksNow
  <1>4. Kept /\ Apart(frames)  BY <1>2 DEF Graph, Kept, Owned
  <1>5. /\ top \in Members(frames) /\ Blocked(top) /\ FrameOK(top) /\ SwitchAt(blocks, top)
    BY <1>1, <1>2, <1>4, TopBlocked DEF Kept
  <1>6. Held(top) = {top.end} /\ Ahead(top) = {top.end} /\ top.end # None
    BY <1>1, <1>2, <1>5, SwitchHolds DEF FrameOK, SwitchBody
  <1>7. SwitchTargets \subseteq Aims \cap Nat /\ top.end \in Aims /\ top.end \in Nat
    BY <1>1, <1>2, SwitchTargetsAim
  <1>8. Completes(blocks, bs, top, SwitchTargets)
    <2>1. SwitchTargets \subseteq Nat  BY <1>7
    <2> QED  BY <1>3, <1>5, <2>1, CompletesAt DEF SwitchTargets
  <1> HIDE DEF bs
  <1>9. bs \in Seq(Seq(Instr)) /\ Len(bs) = Len(blocks) /\ DOMAIN bs = DOMAIN blocks
    BY <1>8 DEF Completes
  <1>10. /\ i \in Instr /\ i.op \in Terminators /\ i.to = {top.end} /\ Makes(i)
         /\ i.op # "phi"
    BY <1>7, Branches DEF Makes, Br
  <1> HIDE DEF i
  <1>11. Wrote(bs, blocks', add) /\ Len(blocks') = Len(blocks) /\ Opened = {}
    <2>1. Wrote(bs, blocks', add) /\ Len(blocks') = Len(bs)
      BY <1>1, <1>3, <1>9, <1>10, EmitOnly
    <2>2. DOMAIN blocks' = 1..Len(blocks')  BY <2>1, WroteFacts
    <2> QED  BY <1>3, <1>9, <2>1, <2>2 DEF Opened
  <1>12. DOMAIN add = {insertAt} /\ add[insertAt] = i  BY OnlyFacts
  <1> HIDE DEF add
  <1>13. Changes(rest, {top}, {})  BY <1>1, <1>4, PopChange
  <1> HIDE DEF rest
  <1>14. /\ insertAt \notin HeldBy(Members(frames)) /\ top.end \notin HeldBy(Members(rest))
         /\ HeldBy(Members(rest)) \subseteq HeldBy(Members(frames))
         /\ top.end \in HeldBy(Members(frames))
    <2>1. HeldBy({top}) = {top.end}  BY <1>6, OneHeld
    <2> QED  BY <1>4, <1>13, <2>1 DEF Changes, Kept, Owned, HeldBy
  <1>15. Begins(bs, rest)
    <2>1. ASSUME NEW b \in AheadBy(Members(frames))
          PROVE  bs[b] = <<>>
      <3>1. b \in DOMAIN blocks /\ blocks[b] = <<>>  BY <1>4 DEF Kept
      <3>2. Len(bs[b]) = 0 /\ bs[b] \in Seq(Instr)
        <4>1. Len(bs[b]) = Len(blocks[b])  BY <1>8, <3>1 DEF Completes
        <4>2. b \in DOMAIN bs  BY <1>9, <3>1
        <4> QED  BY <1>9, <3>1, <4>1, <4>2, LenProperties, ElementOfSeq
      <3> QED  BY <3>2, EmptySeq
    <2>2. ASSUME NEW f \in Members(rest), SwitchBody(f)
          PROVE  SwitchAt(bs, f)
      <3>1. f \in Members(frames) /\ SwitchAt(blocks, f)
        BY <1>4, <1>13, <2>2 DEF Changes, Kept
      <3>2. f.end # top.end
        <4>1. f.end \notin Held(f) => f.end \notin Nat \ {None}
          BY <2>2 DEF Held, Ahead, EndAhead
        <4>2. f.end \in Nat \ {None}
          <5>1. PICK k \in DOMAIN frames : f = frames[k]  BY <3>1 DEF Members
          <5>2. FrameOK(f) /\ f \in Frame
            <6>1. frames \in Seq(Frame) /\ DOMAIN frames = 1..Len(frames)
              BY LenProperties DEF IInv, TypeOK
            <6> QED  BY <5>1, <6>1, ElementOfSeq DEF IInv, WalkOK
          <5> QED  BY <2>2, <5>2 DEF FrameOK, SwitchBody, Frame, BlockId
        <4>3. Held(f) \subseteq HeldBy(Members(rest))  BY DEF HeldBy
        <4> QED  BY <1>14, <4>1, <4>2, <4>3
      <3> QED  BY <1>8, <3>1, <3>2, CompletesSwitches
    <2>3. ASSUME InFunction
          PROVE  /\ Shaped(bs, Unfinished(frames, insertAt, gotoJump))
                 /\ Patched(bs, gotoSites, gotoJump, labelJump)
      <3>1. /\ Shaped(blocks, Unfinished(frames, insertAt, gotoJump))
            /\ Patched(blocks, gotoSites, gotoJump, labelJump)
        BY <1>2, <2>3 DEF Graph, Generated
      <3> QED  BY <1>8, <3>1, CompletesShape, CompletesPatched
    <2> QED  BY <1>9, <2>1, <2>2, <2>3 DEF Begins
  <1>16. Aims' \subseteq Aims
    <2>1. /\ Elements(breakJump') \subseteq Elements(breakJump)
          /\ Elements(defaultList') \subseteq Elements(defaultList)
          /\ Elements(caseList') \subseteq Elements(caseList)
      <3> DEFINE C == SUBSET CaseEntry
      <3>1. breakJump \in Seq(BlockId) /\ caseList \in Seq(C) /\ defaultList \in Seq(BlockId)
        BY DEF IInv, TypeOK
      <3> HIDE DEF C
      <3> QED  BY <1>1, <3>1, ElementsFront
    <2>2. {cs.block : cs \in UNION Elements(caseList')} \subseteq
             {cs.block : cs \in UNION Elements(caseList)}
      BY <2>1
    <2>3. StackAims' \subseteq StackAims
      <3>1. continueJump' = continueJump  BY <1>1
      <3> QED  BY <2>1, <2>2, <3>1 DEF StackAims
    <2>4. labelJump' = labelJump /\ StackAims' \subseteq Aims \cup Opened
      BY <1>1, <2>3 DEF labels, Aims
    <2>5. Aims' \subseteq Aims \cup Opened  BY <1>13, <2>4, AimsStep
    <2> QED  BY <1>11, <2>5
  <1>17. Leads(rest, {})
    <2>1. Linked(blocks, Aims, J)
      <3>1. Linked(blocks, Aims, Joining(Members(frames)))  BY <1>4 DEF Kept
      <3>2. J \subseteq Joining(Members(frames)) /\ Aims \subseteq Aims
        BY <1>13 DEF Joining, Changes
      <3> HIDE DEF J
      <3> QED  BY <3>1, <3>2, LinksShrink
    <2> HIDE DEF J
    <2>2. SwitchTargets \subseteq Aims  BY <1>7
    <2>3. Linked(bs, Aims, J)  BY <1>7, <1>8, <2>1, <2>2, CompletesLinks
    <2>4. Free(bs, J, top.end) /\ top.end \in 0..Len(blocks')
      <3>1. top.end \in 0..Len(bs)  BY <1>7, <2>3 DEF Linked
      <3> QED  BY <1>3, <1>7, <1>9, <1>11, <2>3, <3>1, AimsFree
    <2>5. \A b \in DOMAIN add :
             /\ add[b].op # "phi"
             /\ \A e \in add[b].to : e \in 0..Len(blocks') /\ Free(bs, J, e)
      BY <1>10, <1>12, <2>4
    <2>6. Aims' \subseteq Aims \cup ((Len(bs) + 1)..Len(blocks')) /\ 1 \in DOMAIN bs
      BY <1>3, <1>9, <1>16
    <2>7. Linked(blocks', Aims', J)
      BY <1>11, <2>3, <2>5, <2>6, WroteLinks
    <2> QED  BY <2>7 DEF Leads, J
  <1>18. Handed({top}, {}, add)
    <2>1. HeldBy({top}) = {top.end} /\ HeldBy({}) = {} /\ AheadBy({}) = {}
      BY <1>6, OneHeld, NoneHeld
    <2>2. insertAt # top.end  BY <1>14
    <2> QED  BY <1>1, <1>10, <1>11, <1>12, <2>1, <2>2 DEF Handed
  <1>19. InFunction' => InFunction
    <2>1. \A f \in {} : f.h # "function"  OBVIOUS
    <2> QED  BY <1>13, <2>1, StaysOutside
  <1>20. /\ currentFunction # "none" /\ UNCHANGED <<currentFunction, labels>>
         /\ pc # "internal_error" /\ pc' # "internal_error"
    BY <1>1, <1>2
  <1> QED  BY <1>11, <1>13, <1>15, <1>17, <1>18, <1>19, <1>20, GraphStep

----------------------------------------------------------------------------
(* && || ?: *)

\* Outside of functions no handler is going to join two blocks.
LEMMA JoinsInside ==
    ASSUME IInv, Graph, pc \in Running, frames # <<>>, Joins(top)
    PROVE  /\ currentFunction # "none" /\ top \in Members(frames) /\ Blocked(top)
           /\ top.end # None
           /\ top.h = "conditional" => top.alt # None
  <1>1. /\ top \in Members(frames) /\ Blocked(top) /\ FrameOK(top)
    BY TopBlocked
  <1>2. top.end # None /\ (top.h = "conditional" => top.alt # None)
    BY <1>1 DEF FrameOK, Joins
  <1>3. currentFunction # "none"
    <2> SUFFICES ASSUME currentFunction = "none"  PROVE FALSE
      OBVIOUS
    <2>1. blocks = <<>>  BY DEF Graph
    <2>2. Len(blocks) = 0  BY <2>1
    <2>3. top.end \in 0..Len(blocks)  BY TopTyped DEF BlockId
    <2> QED  BY <1>2, <2>2, <2>3 DEF None
  <1> QED  BY <1>1, <1>2, <1>3

\* A new block has no predecessors and is nobody's target.
LEMMA NewAndFree ==
    ASSUME IInv, Graph, currentFunction # "none", NEW e \in Nat, e > Len(blocks)
    PROVE  e \notin Aims /\ Predecessors(blocks, e) = {} /\ e # 1
  <1>1. Linked(blocks, Aims, Joining(Members(frames)))  BY DEF Graph, Kept
  <1>2. Len(blocks) \in Nat /\ 1 \in DOMAIN blocks /\ DOMAIN blocks = 1..Len(blocks)
    BY BlocksNow
  <1>3. e \notin 0..Len(blocks) /\ e # 1  BY <1>2
  <1>4. \A b \in DOMAIN blocks : \A k \in DOMAIN blocks[b] : e \notin blocks[b][k].to
    BY <1>1, <1>3 DEF Linked
  <1>5. e \notin Aims  BY <1>1, <1>3 DEF Linked
  <1> QED  BY <1>3, <1>4, <1>5 DEF Predecessors

\* An operator that branches: the current block ends in the branch and the
\* first operand goes to a new block.
LEMMA SplitStep ==
    ASSUME IInv, IInv', Graph, pc = "returned", pc' \in Running,
           frames # <<>>, Light(top), currentFunction # "none",
           UNCHANGED <<currentFunction, labels, jumps, switches>>,
           NEW n \in Nat, NEW i \in Instr, i.op \in Terminators, i.to \subseteq Opened,
           blocks' = Emit(Grow(blocks, n), insertAt, i),
           NEW f, f.h # "function", Distinct(f), ~SwitchBody(f), Goals(f) = {},
           Held(f) \cup {insertAt'} = Opened, insertAt' \notin Held(f),
           f.end \in Opened, f.end \notin i.to => JoinedFrom(f) = {},
           f.end \in i.to => JoinedFrom(f) = {insertAt},
           frames' = [frames EXCEPT ![Len(frames)] = f]
    PROVE  Graph'
  <1> DEFINE add == Only(insertAt, i)
  <1>1. Changes(Front(frames), {top}, {f})  BY ApartNow, SwapChange
  <1>2. Makes(i)  BY DEF Makes, Terminators
  <1>3. Wrote(blocks, blocks', add)
    BY <1>2, Written
  <1>4. Aims' \subseteq Aims
    <2>1. labelJump' = labelJump /\ StackAims' \subseteq Aims
      BY StackAimsStay DEF labels
    <2>2. \A g \in {f} : Goals(g) \subseteq Aims  OBVIOUS
    <2>3. \A g \in Members(Front(frames)) : Goals(g) \subseteq Aims
      BY <1>1 DEF Changes, Aims, GoalsBy
    <2>4. \A g \in Members(frames') : Goals(g) \subseteq Aims
      BY <1>1, <2>2, <2>3 DEF Changes
    <2>5. GoalsBy(Members(frames')) \subseteq Aims  BY <2>4 DEF GoalsBy
    <2> QED  BY <2>1, <2>5 DEF Aims
  <1>5. Walking  BY DEF Walking, Running
  <1>6. /\ HeldBy({top}) = {} /\ AheadBy({top}) = {}
    BY OneHeld, HoldsNothing DEF Light
  <1>7. /\ HeldBy({f}) \cup {insertAt'} = HeldBy({top}) \cup Opened
        /\ insertAt' \notin HeldBy({f})
        /\ AheadBy({f}) \subseteq AheadBy({top}) \cup Opened
    <2>1. Ahead(f) \subseteq Held(f)  BY DEF Held
    <2> QED  BY <1>6, <2>1, OneHeld
  <1>8. Joined(blocks', Aims', f)
    <2>1. Len(blocks) <= Len(blocks')  BY <1>3 DEF Wrote
    <2>2. f.end \in Nat /\ f.end > Len(blocks)  BY <2>1, BlockDomains
    <2>3. f.end \notin Aims /\ Predecessors(blocks, f.end) = {} /\ f.end # 1
      BY <2>2, NewAndFree
    <2>4. Predecessors(blocks', f.end) = Predecessors(blocks, f.end) \cup Adds(add, f.end)
      <3> HIDE DEF add
      <3> QED  BY <1>3, WrotePredecessors
    <2>5. DOMAIN add = {insertAt} /\ add[insertAt] = i  BY OnlyFacts
    <2> HIDE DEF add
    <2>6. Adds(add, f.end) = JoinedFrom(f)  BY <2>5 DEF Adds
    <2>7. f.end \in DOMAIN blocks'  BY DEF Opened
    <2> QED  BY <1>4, <2>3, <2>4, <2>6, <2>7 DEF Joined
  <1> DEFINE new == {f}
  <1>9. /\ \A g \in new : g.h # "function" /\ Distinct(g)
        /\ \A g \in new : Joins(g) => Joined(blocks', Aims', g)
        /\ \A g \in new : ~SwitchBody(g)
    BY <1>8
  <1>10. /\ Changes(Front(frames), {top}, new) /\ i.to \subseteq Aims \cup Opened
         /\ HeldBy(new) \cup {insertAt'} = HeldBy({top}) \cup Opened
         /\ insertAt' \notin HeldBy(new)
         /\ AheadBy(new) \subseteq AheadBy({top}) \cup Opened
         /\ Aims' \subseteq Aims \cup Opened
    BY <1>1, <1>4, <1>7
  <1> HIDE DEF new
  <1> QED  BY <1>3, <1>5, <1>9, <1>10, CloseStep

LEMMA LogicalLhsGraph ==
    ASSUME IInv, IInv', Graph, NEW op \in {"and", "or"}, LogicalLhs(op)  PROVE Graph'
  <1> DEFINE f == NewFrame(op, "rhs", insertAt, n2, None, n1)
             i == CondBr(n2, n1)
  <1>1. /\ pc = "returned" /\ pc' \in Running /\ frames # <<>>
        /\ UNCHANGED <<currentFunction, labels, jumps, switches>>
        /\ currentFunction # "none" /\ top.h = op /\ top.at = "lhs" /\ insertAt' = n2
        /\ blocks' = Emit(Grow(blocks, 2), insertAt, i)
        /\ frames' = [frames EXCEPT ![Len(frames)] = f]
    BY DEF LogicalLhs, Returned, Proceed, unit, Running
  <1>2. Light(top)  BY <1>1 DEF Light, SwitchBody, Joins, Loops
  <1>3. /\ Len(blocks) \in Nat /\ n1 = Len(blocks) + 1 /\ n2 = Len(blocks) + 2
        /\ insertAt \in 1..Len(blocks) /\ n1 \in Nat /\ n2 \in Nat
    BY <1>1, BlocksNow DEF n1, n2
  <1>4. i \in Instr /\ i.op \in Terminators /\ i.to = {n1, n2}
    BY <1>3, Branches
  <1>5. /\ f.h = op /\ f.at = "rhs" /\ f.from = insertAt /\ f.body = n2
        /\ f.alt = None /\ f.end = n1
    BY FrameFields
  <1> HIDE DEF f, i
  <1>6. Opened = {n1, n2}
    <2>1. Opened = (Len(blocks) + 1)..(Len(blocks) + 2)
      BY <1>1, <1>4, Written DEF Makes, Terminators
    <2> QED  BY <1>3, <2>1
  <1>7. Blocked(f)  BY <1>3, <1>5 DEF Blocked, None
  <1>8. n1 # None /\ n1 # n2  BY <1>3 DEF None
  <1>9. /\ Held(f) = {n1} /\ Goals(f) = {} /\ ~SwitchBody(f) /\ f.h # "function"
        /\ Joins(f) /\ Distinct(f)
    BY <1>5, <1>7, <1>8, LogicalHolds
  <1>10. JoinedFrom(f) = {insertAt}  BY <1>5 DEF JoinedFrom
  <1>11. /\ i.to \subseteq Opened /\ Held(f) \cup {insertAt'} = Opened
         /\ insertAt' \notin Held(f) /\ f.end \in Opened /\ f.end \in i.to
    BY <1>1, <1>4, <1>5, <1>6, <1>8, <1>9
  <1> QED  BY <1>1, <1>2, <1>4, <1>9, <1>10, <1>11, SplitStep

LEMMA ConditionalCondGraph == ASSUME IInv, IInv', Graph, ConditionalCond  PROVE Graph'
  <1> DEFINE f == NewFrame("conditional", "fst", None, n3, n2, n1)
             i == CondBr(n3, n2)
  <1>1. /\ pc = "returned" /\ pc' \in Running /\ frames # <<>>
        /\ UNCHANGED <<currentFunction, labels, jumps, switches>>
        /\ currentFunction # "none" /\ top.h = "conditional" /\ top.at = "cond"
        /\ insertAt' = n3
        /\ blocks' = Emit(Grow(blocks, 3), insertAt, i)
        /\ frames' = [frames EXCEPT ![Len(frames)] = f]
    BY DEF ConditionalCond, Returned, Proceed, unit, Running
  <1>2. Light(top)  BY <1>1 DEF Light, SwitchBody, Joins, Loops
  <1>3. /\ Len(blocks) \in Nat /\ n1 = Len(blocks) + 1 /\ n2 = Len(blocks) + 2
        /\ n3 = Len(blocks) + 3
        /\ insertAt \in 1..Len(blocks) /\ n1 \in Nat /\ n2 \in Nat /\ n3 \in Nat
    BY <1>1, BlocksNow DEF n1, n2, n3
  <1>4. i \in Instr /\ i.op \in Terminators /\ i.to = {n2, n3}
    BY <1>3, Branches
  <1>5. /\ f.h = "conditional" /\ f.at = "fst" /\ f.from = None /\ f.body = n3
        /\ f.alt = n2 /\ f.end = n1
    BY FrameFields
  <1> HIDE DEF f, i
  <1>6. Opened = {n1, n2, n3}
    <2>1. Opened = (Len(blocks) + 1)..(Len(blocks) + 3)
      BY <1>1, <1>4, Written DEF Makes, Terminators
    <2> QED  BY <1>3, <2>1
  <1>7. Blocked(f)  BY <1>3, <1>5 DEF Blocked, None
  <1>8. n1 # None /\ n1 # n2 /\ n1 # n3 /\ n2 # n3 /\ n2 # None  BY <1>3 DEF None
  <1>9. /\ Held(f) = {n1, n2} /\ Goals(f) = {} /\ ~SwitchBody(f) /\ f.h # "function"
    BY <1>5, <1>7, <1>8, ConditionalHolds
  <1>10. JoinedFrom(f) = {} /\ Distinct(f)
    BY <1>5, <1>8 DEF JoinedFrom, Distinct, Loops
  <1>11. /\ i.to \subseteq Opened /\ Held(f) \cup {insertAt'} = Opened
         /\ insertAt' \notin Held(f) /\ f.end \in Opened /\ f.end \notin i.to
    BY <1>1, <1>4, <1>5, <1>6, <1>8, <1>9
  <1> QED  BY <1>1, <1>2, <1>4, <1>9, <1>10, <1>11, SplitStep

LEMMA ConditionalFstGraph == ASSUME IInv, IInv', Graph, ConditionalFst  PROVE Graph'
  <1> DEFINE f == [top EXCEPT !.at = "secd", !.from = insertAt]
             rest == Front(frames)
             add == Nothing
             new == {f}
  <1>1. /\ pc = "returned" /\ pc \in Running /\ pc' \in Running /\ frames # <<>>
        /\ UNCHANGED <<currentFunction, labels, jumps, switches, blocks>>
        /\ top.h = "conditional" /\ top.at = "fst" /\ insertAt' = top.alt
        /\ frames' = [frames EXCEPT ![Len(frames)] = f]
    BY DEF ConditionalFst, Returned, Proceed, unit, Running
  <1>2. Joins(top)  BY <1>1 DEF Joins
  <1>3. /\ currentFunction # "none" /\ top \in Members(frames) /\ Blocked(top)
        /\ top.end # None /\ top.alt # None
    BY <1>1, <1>2, JoinsInside
  <1>4. Kept /\ Apart(frames) /\ top \in Frame
    BY <1>1, <1>3, TopTyped DEF Graph, Kept, Owned
  <1>5. /\ Wrote(blocks, blocks', add) /\ Opened = {} /\ DOMAIN add = {}
        /\ insertAt \in Nat
    <2>1. blocks \in Seq(Seq(Instr)) /\ insertAt \in DOMAIN blocks
          /\ DOMAIN blocks = 1..Len(blocks)
      BY <1>3, BlocksNow
    <2>2. Wrote(blocks, blocks, add)  BY <2>1, SameWrote
    <2>3. DOMAIN add = {}  BY DEF Nothing
    <2> HIDE DEF add
    <2> QED  BY <1>1, <2>1, <2>2, <2>3 DEF Opened
  <1>6. /\ f.h = "conditional" /\ f.at = "secd" /\ f.from = insertAt
        /\ f.alt = top.alt /\ f.end = top.end /\ f.body = top.body
    BY <1>1, <1>4 DEF Frame
  <1> HIDE DEF f, add
  <1>7. Blocked(f)  BY <1>3, <1>5, <1>6 DEF Blocked
  <1>8. Held(top) = {top.end, top.alt} /\ Ahead(top) = Held(top)
    BY <1>1, <1>3, ConditionalHolds
  <1>9. /\ Held(f) = {top.end, insertAt} /\ Ahead(f) = {top.end}
        /\ Goals(f) = {} /\ ~SwitchBody(f) /\ f.h # "function" /\ Joins(f)
    BY <1>3, <1>6, <1>7, ConditionalHolds
  <1>10. Changes(rest, {top}, new)  BY <1>1, <1>4, SwapChange
  <1>11. insertAt \notin Held(top)
    BY <1>3, <1>4 DEF Kept, Owned, HeldBy
  <1>12. top.end # top.alt
    BY <1>1, <1>3, <1>4 DEF Apart, Distinct
  <1>13. Distinct(f)
    BY <1>6, <1>8, <1>11, <1>12 DEF Distinct, Loops
  <1>14. Aims' \subseteq Aims \cup Opened
    <2>1. labelJump' = labelJump /\ StackAims' \subseteq Aims
      BY <1>1, StackAimsStay DEF labels
    <2>2. \A g \in new : Goals(g) \subseteq Aims \cup Opened  BY <1>9
    <2>3. StackAims' \subseteq Aims \cup Opened  BY <2>1
    <2> HIDE DEF new
    <2> QED  BY <1>10, <2>1, <2>2, <2>3, AimsStep
  <1>15. Joined(blocks', Aims', f)
    <2>1. Joined(blocks, Aims, top)
      BY <1>2, <1>3, <1>4 DEF Kept, Linked, Joining
    <2>2. JoinedFrom(f) = JoinedFrom(top)  BY <1>1, <1>6 DEF JoinedFrom
    <2> QED  BY <1>1, <1>5, <1>6, <1>14, <2>1, <2>2 DEF Joined
  <1>16. /\ HeldBy(new) \cup {insertAt'} = HeldBy({top}) \cup Opened \cup {insertAt}
         /\ insertAt' \notin HeldBy(new) /\ insertAt \notin AheadBy(new)
         /\ AheadBy(new) \subseteq AheadBy({top}) \cup Opened
    <2>1. /\ HeldBy(new) = {top.end, insertAt} /\ AheadBy(new) = {top.end}
          /\ HeldBy({top}) = {top.end, top.alt} /\ AheadBy({top}) = {top.end, top.alt}
      BY <1>8, <1>9, OneHeld
    <2> QED  BY <1>1, <1>5, <1>8, <1>11, <1>12, <2>1
  <1>17. /\ \A g \in new : g.h # "function" /\ Distinct(g)
         /\ \A g \in new : Joins(g) => Joined(blocks', Aims', g)
         /\ \A g \in new : SwitchBody(g) => SwitchAt(blocks', g)
    BY <1>9, <1>13, <1>15
  <1>18. Walking  BY <1>1, <1>3 DEF Walking
  <1>19. /\ DOMAIN add \subseteq {insertAt}
         /\ \A b \in DOMAIN add :
               add[b].op \in {"plain", "switch"} /\ add[b].to \subseteq Aims \cup Opened
    BY <1>5
  <1> HIDE DEF new, rest
  <1> QED  BY <1>5, <1>10, <1>14, <1>16, <1>17, <1>18, <1>19, KeepStep

Branching(D, e) == [b \in D |-> Br(e)]
JoinedBy(D, e, p) == [b \in D \cup {e} |-> IF b = e THEN p ELSE Br(e)]

\* Two writes of which the second is to another block.
LEMMA WroteThenPhi ==
    ASSUME NEW bs, NEW mid, NEW bs2, NEW D, NEW e, e \notin D, NEW p,
           Wrote(bs, mid, Branching(D, e)), Wrote(mid, bs2, Only(e, p)),
           Len(mid) = Len(bs), Len(bs2) = Len(bs)
    PROVE  Wrote(bs, bs2, JoinedBy(D, e, p))
  <1> DEFINE add == Branching(D, e)
             one == Only(e, p)
             all == JoinedBy(D, e, p)
  <1>1. /\ DOMAIN add = D /\ DOMAIN one = {e} /\ one[e] = p /\ DOMAIN all = D \cup {e}
        /\ all[e] = p /\ \A b \in D : all[b] = add[b]
    BY OnlyFacts DEF Branching, JoinedBy
  <1> HIDE DEF add, one, all
  <1>2. Wrote(bs, mid, add) /\ Wrote(mid, bs2, one)  BY DEF add, one
  <1>3. /\ bs \in Seq(Seq(Instr)) /\ bs2 \in Seq(Seq(Instr))
        /\ DOMAIN bs = DOMAIN mid /\ DOMAIN bs2 = DOMAIN mid
        /\ Len(bs) <= Len(bs2)
    <2>1. DOMAIN bs = 1..Len(bs) /\ DOMAIN mid = 1..Len(mid) /\ Len(bs) \in Nat
      BY <1>2, WroteFacts
    <2>2. DOMAIN bs2 = 1..Len(bs2)  BY <1>2, WroteFacts
    <2> QED  BY <1>2, <2>1, <2>2 DEF Wrote
  <1>4. D \subseteq DOMAIN mid /\ e \in DOMAIN mid /\ p \in Instr
        /\ \A b \in D : add[b] \in Instr
    BY <1>1, <1>2, <1>3 DEF Wrote
  <1>5. \A b \in DOMAIN mid : mid[b] = IF b \in D THEN Append(Before(bs, b), add[b])
                                                  ELSE Before(bs, b)
    BY <1>1, <1>2 DEF Wrote
  <1>6. \A b \in DOMAIN mid : bs2[b] = IF b = e THEN Append(mid[b], p) ELSE mid[b]
    BY <1>1, <1>2, <1>3 DEF Wrote, Before
  <1>7. \A b \in DOMAIN bs2 : bs2[b] = IF b \in DOMAIN all THEN Append(Before(bs, b), all[b])
                                                          ELSE Before(bs, b)
    BY <1>1, <1>3, <1>5, <1>6
  <1>8. Wrote(bs, bs2, all)
    BY <1>1, <1>3, <1>4, <1>7 DEF Wrote
  <1> QED  BY <1>8 DEF all

\* Both operands branch to the block that joins them, and its phi names them.
LEMMA JoinStep ==
    ASSUME IInv, IInv', Graph, pc = "returned", pc' \in Running, frames # <<>>, Joins(top),
           UNCHANGED <<currentFunction, labels, jumps, switches>>,
           frames' = Front(frames), insertAt' = top.end,
           NEW D, top.end \notin D, Held(top) \cup {insertAt} = {top.end} \cup D,
           NEW mid, Wrote(blocks, mid, Branching(D, top.end)), Len(mid) = Len(blocks),
           NEW p \in Instr, p.op = "phi", p.to = JoinedFrom(top) \cup D,
           blocks' = Emit(mid, top.end, p)
    PROVE  Graph'
  <1> DEFINE e == top.end
             rest == Front(frames)
             J == Joining(Members(rest))
             one == Branching(D, e)
             all == JoinedBy(D, e, p)
  <1>1. /\ currentFunction # "none" /\ top \in Members(frames)
        /\ pc \in Running /\ pc # "internal_error" /\ pc' # "internal_error"
    BY JoinsInside DEF Running
  <1>2. Kept /\ Apart(frames)  BY <1>1 DEF Graph, Kept, Owned
  <1>3. Changes(rest, {top}, {})  BY <1>2, PopChange
  <1>4. /\ blocks \in Seq(Seq(Instr)) /\ Len(blocks) \in Nat /\ 1 \in DOMAIN blocks
        /\ DOMAIN blocks = 1..Len(blocks)
    BY <1>1, BlocksNow
  <1>5. /\ DOMAIN one = D /\ \A b \in D : one[b] = Br(e)
        /\ DOMAIN all = D \cup {e} /\ all[e] = p
        /\ \A b \in D : e \notin D => all[b] = Br(e)
    BY DEF Branching, JoinedBy
  <1>6. Br(e).op = "br" /\ Br(e).to = {e}  BY DEF Br
  <1> HIDE DEF rest, one, all
  <1>7. Wrote(blocks, mid, one)  BY DEF one
  <1>8. /\ mid \in Seq(Seq(Instr)) /\ DOMAIN mid = DOMAIN blocks
    BY <1>4, <1>7, WroteFacts DEF Wrote
  <1>9. Joined(blocks, Aims, top) /\ Linked(blocks, Aims, Joining(Members(frames)))
    BY <1>1, <1>2 DEF Kept, Linked, Joining
  <1>10. e \in DOMAIN blocks /\ e # 1 /\ e \notin Aims
         /\ Predecessors(blocks, e) = JoinedFrom(top)
    BY <1>9 DEF Joined
  <1>11. e \in Held(top) /\ e \in Ahead(top)
    <2>1. Ahead(top) = {} \/ e \in Ahead(top)
      BY <1>4, <1>10 DEF Ahead, EndAhead, Joins, None
    <2>2. e \in Ahead(top)
      <3>1. EndAhead(top)  BY DEF EndAhead, Joins
      <3>2. e \in Nat \ {None}  BY <1>4, <1>10 DEF None
      <3> QED  BY <3>1, <3>2 DEF Ahead
    <2> QED  BY <2>2 DEF Held
  <1>12. blocks[e] = <<>>
    BY <1>1, <1>2, <1>11 DEF Kept, AheadBy
  <1>13. Linked(blocks, Aims, J)
    <2>1. J \subseteq Joining(Members(frames)) /\ Aims \subseteq Aims
      BY <1>3 DEF Joining, Changes
    <2> HIDE DEF J
    <2> QED  BY <1>9, <2>1, LinksShrink
  <1>14. \A f \in J : e # f.end
    <2> SUFFICES ASSUME NEW f \in Members(rest), Joins(f), e = f.end  PROVE FALSE
      BY DEF Joining
    <2>1. EndAhead(f)  BY DEF EndAhead, Joins
    <2>2. e \in Nat \ {None}  BY <1>4, <1>10 DEF None
    <2>3. e \in Held(f)  BY <2>1, <2>2 DEF Ahead, Held
    <2>4. e \in HeldBy(Members(rest)) /\ e \in HeldBy({top})
      BY <1>11, <2>3 DEF HeldBy
    <2> QED  BY <1>3, <2>4 DEF Changes
  <1> HIDE DEF J
  <1>15. Free(blocks, J, e) /\ e \in 0..Len(mid)
    <2>1. DOMAIN <<>> = {}  OBVIOUS
    <2>2. \A k \in DOMAIN blocks[e] : blocks[e][k].op # "phi"  BY <1>12, <2>1
    <2>3. e \in 0..Len(mid)  BY <1>4, <1>10
    <2> QED  BY <1>10, <1>14, <2>2, <2>3 DEF Free
  <1>16. Linked(mid, Aims, J)
    <2>1. \A b \in DOMAIN one :
             /\ one[b].op # "phi"
             /\ \A x \in one[b].to : x \in 0..Len(mid) /\ Free(blocks, J, x)
      BY <1>5, <1>6, <1>15
    <2>2. Aims \subseteq Aims \cup ((Len(blocks) + 1)..Len(mid))  OBVIOUS
    <2> QED  BY <1>4, <1>7, <1>13, <2>1, <2>2, WroteLinks
  <1>17. Predecessors(mid, e) = JoinedFrom(top) \cup D
    <2>1. Predecessors(mid, e) = Predecessors(blocks, e) \cup Adds(one, e)
      BY <1>7, WrotePredecessors
    <2>2. Adds(one, e) = D  BY <1>5, <1>6 DEF Adds, Terminators
    <2> QED  BY <1>10, <2>1, <2>2
  <1>18. mid[e] = <<>>
    <2>1. e \notin DOMAIN one /\ e \in DOMAIN mid  BY <1>5, <1>8, <1>10
    <2>2. mid[e] = Before(blocks, e)  BY <1>7, <2>1 DEF Wrote
    <2> QED  BY <1>10, <1>12, <2>2 DEF Before
  <1>19. Wrote(mid, blocks', Only(e, p)) /\ Len(blocks') = Len(mid)
    <2>1. Makes(p) /\ e \in DOMAIN mid  BY <1>8, <1>10 DEF Makes
    <2> QED  BY <1>8, <2>1, EmitOnly
  <1>20. Linked(blocks', Aims, J)
    <2>1. p.to = Predecessors(mid, e)  BY <1>17
    <2>2. p.to \subseteq 0..Len(mid)
      <3>1. Predecessors(mid, e) \subseteq DOMAIN mid  BY DEF Predecessors
      <3>2. DOMAIN mid \subseteq 0..Len(mid)  BY <1>4, <1>8
      <3> QED  BY <2>1, <3>1, <3>2
    <2>3. e \in DOMAIN mid  BY <1>8, <1>10
    <2> QED  BY <1>10, <1>16, <1>18, <1>19, <2>1, <2>2, <2>3, PhiLinks
  <1>21. Wrote(blocks, blocks', all)
    BY <1>7, <1>19, WroteThenPhi DEF one, all
  <1>22. Opened = {}
    <2>1. DOMAIN blocks' = 1..Len(blocks')  BY <1>19, WroteFacts
    <2> QED  BY <1>4, <1>19, <2>1 DEF Opened
  <1>23. Aims' \subseteq Aims
    <2>1. labelJump' = labelJump /\ StackAims' \subseteq Aims \cup Opened
      BY StackAimsStay DEF labels
    <2>2. Aims' \subseteq Aims \cup Opened  BY <1>3, <2>1, AimsStep
    <2> QED  BY <1>22, <2>2
  <1>24. Leads(rest, {})
    <2>1. J \subseteq J  OBVIOUS
    <2>2. Linked(blocks', Aims', J)  BY <1>20, <1>23, <2>1, LinksShrink
    <2> QED  BY <2>2 DEF Leads, J
  <1>25. Handed({top}, {}, all)
    <2>1. HeldBy({top}) = Held(top) /\ HeldBy({}) = {} /\ AheadBy({}) = {}
      BY OneHeld, NoneHeld
    <2>2. \A b \in D : all[b].op \in Terminators
      BY <1>5, <1>6 DEF Terminators
    <2> QED  BY <1>5, <1>22, <2>1, <2>2 DEF Handed
  <1>26. Begins(blocks, rest)  BY <1>1, <1>3, BeginsAsIs
  <1>27. InFunction' => InFunction
    <2>1. \A f \in {} : f.h # "function"  OBVIOUS
    <2> QED  BY <1>3, <2>1, StaysOutside
  <1>28. UNCHANGED <<currentFunction, labels>>  OBVIOUS
  <1> QED  BY <1>1, <1>3, <1>21, <1>24, <1>25, <1>26, <1>27, <1>28, GraphStep

LEMMA PhiType == \A b, c \in Nat : Phi(b, c) \in Instr /\ Phi(b, c).op = "phi"
                                   /\ Phi(b, c).to = {b, c}
  BY InstrTypes DEF Phi

LEMMA BranchingOne ==
    ASSUME NEW bs \in Seq(Seq(Instr)), NEW c \in DOMAIN bs, NEW e \in Nat
    PROVE  /\ Wrote(bs, Emit(bs, c, Br(e)), Branching({c}, e))
           /\ Len(Emit(bs, c, Br(e))) = Len(bs)
  <1>1. Br(e) \in Instr /\ Makes(Br(e))  BY Branches DEF Br, Makes
  <1>2. Branching({c}, e) = Only(c, Br(e))  BY DEF Branching, Only
  <1> QED  BY <1>1, <1>2, EmitOnly

LEMMA BranchingTwo ==
    ASSUME NEW bs \in Seq(Seq(Instr)), NEW b \in DOMAIN bs, NEW c \in DOMAIN bs, b # c,
           NEW e \in Nat
    PROVE  LET mid == Emit(Emit(bs, b, Br(e)), c, Br(e))
           IN  /\ Wrote(bs, mid, Branching({b, c}, e)) /\ Len(mid) = Len(bs)
               /\ mid \in Seq(Seq(Instr))
  <1> DEFINE i == Br(e)
             one == Emit(bs, b, i)
             mid == Emit(one, c, i)
             add == Branching({b, c}, e)
  <1>1. i \in Instr /\ Makes(i)  BY Branches DEF Br, Makes
  <1>2. DOMAIN add = {b, c} /\ add[b] = i /\ add[c] = i  BY DEF Branching
  <1> HIDE DEF i
  <1>3. /\ one \in Seq(Seq(Instr)) /\ Len(one) = Len(bs) /\ DOMAIN one = DOMAIN bs
        /\ one[b] = Append(bs[b], i) /\ \A x \in DOMAIN bs \ {b} : one[x] = bs[x]
    BY <1>1, EmitAt
  <1> HIDE DEF one
  <1>4. /\ mid \in Seq(Seq(Instr)) /\ Len(mid) = Len(one) /\ DOMAIN mid = DOMAIN one
        /\ mid[c] = Append(one[c], i) /\ \A x \in DOMAIN one \ {c} : mid[x] = one[x]
    <2>1. c \in DOMAIN one /\ one \in Seq(Seq(Instr))  BY <1>3
    <2> QED  BY <1>1, <2>1, EmitAt
  <1> HIDE DEF mid, add
  <1>5. Len(bs) <= Len(mid)  BY <1>3, <1>4, LenProperties
  <1>6. \A x \in DOMAIN mid : mid[x] = IF x \in DOMAIN add THEN Append(bs[x], add[x])
                                                          ELSE bs[x]
    BY <1>2, <1>3, <1>4
  <1>7. \A x \in DOMAIN mid : Before(bs, x) = bs[x]  BY <1>3, <1>4 DEF Before
  <1>8. Wrote(bs, mid, add)
    BY <1>1, <1>2, <1>3, <1>4, <1>5, <1>6, <1>7 DEF Wrote
  <1> QED  BY <1>3, <1>4, <1>8 DEF mid, one, i, add

LEMMA LogicalEndGraph ==
    ASSUME IInv, IInv', Graph, NEW op \in {"and", "or"}, LogicalEnd(op)  PROVE Graph'
  <1> DEFINE e == top.end
             mid == Emit(blocks, insertAt, Br(e))
             p == Phi(top.from, insertAt)
             D == {insertAt}
  <1>1. /\ pc = "returned" /\ pc' \in Running /\ pc \in Running /\ frames # <<>>
        /\ UNCHANGED <<currentFunction, labels, jumps, switches>>
        /\ top.h \in {"and", "or"} /\ top.at = "rhs" /\ insertAt' = e
        /\ frames' = Front(frames) /\ blocks' = Emit(mid, e, p)
    BY DEF LogicalEnd, Returned, Return, unit, Running
  <1>2. Joins(top)  BY <1>1 DEF Joins
  <1>3. /\ currentFunction # "none" /\ top \in Members(frames) /\ Blocked(top)
        /\ e # None
    BY <1>1, <1>2, JoinsInside
  <1>4. Held(top) = {e}  BY <1>1, <1>3, LogicalHolds
  <1>5. insertAt \notin Held(top)
    BY <1>3 DEF Graph, Kept, Owned, HeldBy
  <1>6. blocks \in Seq(Seq(Instr)) /\ insertAt \in DOMAIN blocks /\ insertAt \in Nat
    BY <1>3, BlocksNow
  <1>7. e \in Nat /\ top.from \in Nat  BY <1>3 DEF Blocked
  <1>8. Wrote(blocks, mid, Branching(D, e)) /\ Len(mid) = Len(blocks)
    BY <1>6, <1>7, BranchingOne
  <1>9. p \in Instr /\ p.op = "phi" /\ p.to = {top.from, insertAt}
    BY <1>6, <1>7, PhiType
  <1>10. JoinedFrom(top) = {top.from}  BY <1>1 DEF JoinedFrom
  <1>11. p.to = JoinedFrom(top) \cup D /\ e \notin D
         /\ Held(top) \cup {insertAt} = {e} \cup D
    BY <1>4, <1>5, <1>9, <1>10
  <1> HIDE DEF p, D, mid
  <1> QED  BY <1>1, <1>2, <1>8, <1>9, <1>11, JoinStep

LEMMA ConditionalEndGraph == ASSUME IInv, IInv', Graph, ConditionalEnd  PROVE Graph'
  <1> DEFINE e == top.end
             mid == Emit(Emit(blocks, top.from, Br(e)), insertAt, Br(e))
             p == Phi(top.from, insertAt)
             D == {top.from, insertAt}
  <1>1. /\ pc = "returned" /\ pc' \in Running /\ pc \in Running /\ frames # <<>>
        /\ UNCHANGED <<currentFunction, labels, jumps, switches>>
        /\ top.h = "conditional" /\ top.at = "secd" /\ insertAt' = e
        /\ frames' = Front(frames) /\ blocks' = Emit(mid, e, p)
    BY DEF ConditionalEnd, Returned, Return, unit, Running
  <1>2. Joins(top)  BY <1>1 DEF Joins
  <1>3. /\ currentFunction # "none" /\ top \in Members(frames) /\ Blocked(top)
        /\ e # None /\ top.alt # None
    BY <1>1, <1>2, JoinsInside
  <1>4. Held(top) = {e, top.from}  BY <1>1, <1>3, ConditionalHolds
  <1>5. Kept /\ Held(top) \subseteq HeldBy(Members(frames))
    BY <1>3 DEF Graph, HeldBy
  <1>6. insertAt \notin Held(top) /\ top.from \in DOMAIN blocks /\ e # top.from
    <2>1. Distinct(top)  BY <1>3, <1>5 DEF Kept, Owned, Apart, Members
    <2>2. e # top.from  BY <1>1, <2>1 DEF Distinct
    <2> QED  BY <1>4, <1>5, <2>2 DEF Kept, Owned
  <1>7. blocks \in Seq(Seq(Instr)) /\ insertAt \in DOMAIN blocks /\ insertAt \in Nat
    BY <1>3, BlocksNow
  <1>8. e \in Nat /\ top.from \in Nat  BY <1>3 DEF Blocked
  <1>9. Wrote(blocks, mid, Branching(D, e)) /\ Len(mid) = Len(blocks)
    <2>1. top.from # insertAt  BY <1>4, <1>6
    <2> QED  BY <1>6, <1>7, <1>8, <2>1, BranchingTwo
  <1>10. p \in Instr /\ p.op = "phi" /\ p.to = {top.from, insertAt}
    BY <1>7, <1>8, PhiType
  <1>11. JoinedFrom(top) = {}  BY <1>1 DEF JoinedFrom
  <1>12. p.to = JoinedFrom(top) \cup D /\ e \notin D
         /\ Held(top) \cup {insertAt} = {e} \cup D
    BY <1>4, <1>6, <1>10, <1>11
  <1> HIDE DEF p, D, mid
  <1> QED  BY <1>1, <1>2, <1>9, <1>10, <1>12, JoinStep

----------------------------------------------------------------------------
(* function_definition and the translation unit *)

\* A function begins with one empty block and nothing else.
LEMMA FunctionDefinitionGraph ==
    ASSUME IInv, IInv', NEW kind \in ResultKinds, FunctionDefinition(kind)
    PROVE  Graph'
  <1> DEFINE f == NewFrame("function", "list", None, None, None, None)
  <1>1. /\ frames = <<>> /\ pc' = "returned" /\ frames' = Append(frames, f)
        /\ blocks' = << <<>> >> /\ insertAt' = 1 /\ currentFunction' = kind
        /\ gotoJump' = [l \in Labels |-> {}] /\ labelJump' = [l \in Labels |-> None]
        /\ gotoSites' = {} /\ UNCHANGED <<jumps, switches>>
    BY DEF FunctionDefinition, ClearLabels, Call, IInv, WalkOK
  <1>2. currentFunction' # "none"  BY <1>1, ControlFlowAssumption
  <1>3. Light(f) /\ f.h = "function"  BY LightNew DEF Loops
  <1>4. Held(f) = {} /\ Ahead(f) = {} /\ Goals(f) = {} /\ Distinct(f)
        /\ ~Joins(f) /\ ~SwitchBody(f)
    BY <1>3, HoldsNothing DEF Light
  <1> HIDE DEF f
  <1>5. DOMAIN frames' = {1} /\ frames'[1] = f /\ Members(frames') = {f}
    <2>1. frames' = <<f>>  BY <1>1
    <2>2. DOMAIN <<f>> = {1} /\ <<f>>[1] = f  OBVIOUS
    <2> QED  BY <2>1, <2>2 DEF Members
  <1>6. HeldBy(Members(frames')) = {} /\ AheadBy(Members(frames')) = {}
    BY <1>4, <1>5, OneHeld
  <1>7. Waits(gotoJump') = {} /\ \A l \in Labels : gotoJump'[l] = {}
    BY <1>1 DEF Waits
  <1>8. Owned(frames', insertAt', gotoJump')
    BY <1>4, <1>5, <1>6, <1>7 DEF Owned, Apart
  <1>9. /\ DOMAIN blocks' = {1} /\ blocks'[1] = <<>> /\ Len(blocks') = 1
        /\ DOMAIN <<>> = {}
    BY <1>1
  <1>10. Aims' \subseteq {None}
    <2>1. GoalsBy(Members(frames')) = {}  BY <1>4, <1>5 DEF GoalsBy
    <2>2. Elements(labelJump') \subseteq {None}  BY <1>1 DEF Elements
    <2>3. StackAims' = {}
      <3>1. /\ breakJump' = <<>> /\ continueJump' = <<>>
            /\ caseList' = <<>> /\ defaultList' = <<>>
        BY <1>1, EmptyStacks DEF jumps, switches
      <3>2. Elements(<<>>) = {}  BY <1>9 DEF Elements
      <3> QED  BY <3>1, <3>2 DEF StackAims
    <2> QED  BY <2>1, <2>2, <2>3 DEF Aims
  <1>11. Linked(blocks', Aims', Joining(Members(frames')))
    <2>1. Joining(Members(frames')) = {}  BY <1>4, <1>5 DEF Joining
    <2>2. Predecessors(blocks', 1) = {}  BY <1>9 DEF Predecessors
    <2>3. Aims' \subseteq 0..1 /\ 1 \notin Aims'  BY <1>10 DEF None
    <2> QED  BY <1>9, <2>1, <2>2, <2>3 DEF Linked
  <1>12. Kept'
    BY <1>4, <1>5, <1>6, <1>8, <1>11 DEF Kept
  <1>13. Generated'
    <2>1. Unfinished(frames', insertAt', gotoJump') = {1}
      BY <1>1, <1>6, <1>7 DEF Unfinished
    <2>2. Shaped(blocks', {1})  BY <1>9, EmptyBlock DEF Shaped
    <2>3. Patched(blocks', gotoSites', gotoJump', labelJump')
      BY <1>1, <1>7 DEF Patched
    <2> QED  BY <1>1, <2>1, <2>2, <2>3 DEF Generated
  <1> QED  BY <1>2, <1>12, <1>13 DEF Graph

\* The function's own handler is the only one left when its body is done.
LEMMA FunctionAlone ==
    ASSUME IInv, pc = "returned", frames # <<>>, top.h = "function"
    PROVE  /\ Members(frames) = {top} /\ currentFunction # "none" /\ InFunction
           /\ Held(top) = {} /\ Ahead(top) = {} /\ Goals(top) = {}
           /\ ~Joins(top) /\ ~SwitchBody(top)
  <1>1. /\ frames \in Seq(Frame) /\ Len(frames) \in DOMAIN frames
        /\ DOMAIN frames = 1..Len(frames)
    BY LenProperties, EmptySeq DEF IInv, TypeOK
  <1>2. Len(frames) = 1  BY <1>1 DEF IInv, WalkOK, top
  <1>3. DOMAIN frames = {1} /\ top = frames[1]  BY <1>1, <1>2 DEF top
  <1>4. Members(frames) = {top}  BY <1>3 DEF Members
  <1>5. InFunction /\ currentFunction # "none"
    BY <1>3 DEF InFunction, IInv, WalkOK
  <1>6. ~Joins(top) /\ ~SwitchBody(top) /\ top.h \notin Loops \cup {"if"}
    BY DEF Joins, SwitchBody, Loops
  <1> QED  BY <1>4, <1>5, <1>6, HoldsNothing

\* The final return is all that was missing.
LEMMA FunctionEndGraph == ASSUME IInv, IInv', Graph, FunctionEnd  PROVE Graph'
  <1> DEFINE i == Ret
             add == Only(insertAt, i)
  <1>1. /\ pc = "returned" /\ frames # <<>> /\ top.h = "function"
        /\ \A l \in Labels : gotoJump[l] = {}
        /\ blocks' = Emit(blocks, insertAt, i)
        /\ UNCHANGED <<insertAt, jumps, switches, labels, currentFunction>>
        /\ \/ frames' = <<>> /\ pc' = "file"
           \/ frames' = frames /\ pc' = "internal_error" /\ ~Verified(blocks')
    BY DEF FunctionEnd, Returned
  <1>2. /\ Members(frames) = {top} /\ currentFunction # "none" /\ InFunction
        /\ Held(top) = {} /\ Ahead(top) = {} /\ Goals(top) = {}
        /\ ~Joins(top) /\ ~SwitchBody(top)
    BY <1>1, FunctionAlone
  <1>3. Kept /\ Generated  BY <1>2 DEF Graph
  <1>4. i \in Instr /\ i.op \in Terminators /\ i.to = {} /\ Makes(i) /\ i.op # "phi"
    BY Branches DEF Makes, Ret
  <1> HIDE DEF i
  <1>5. /\ blocks \in Seq(Seq(Instr)) /\ insertAt \in DOMAIN blocks /\ 1 \in DOMAIN blocks
        /\ Len(blocks) \in Nat /\ DOMAIN blocks = 1..Len(blocks)
    BY <1>2, BlocksNow
  <1>6. Wrote(blocks, blocks', add) /\ Len(blocks') = Len(blocks)
    BY <1>1, <1>4, <1>5, EmitOnly
  <1>7. DOMAIN add = {insertAt} /\ add[insertAt] = i  BY OnlyFacts
  <1> HIDE DEF add
  <1>8. DOMAIN blocks' = DOMAIN blocks  BY <1>5, <1>6, WroteFacts
  <1>9. /\ gotoJump' = gotoJump /\ gotoSites' = gotoSites /\ labelJump' = labelJump
        /\ insertAt' = insertAt /\ currentFunction' = currentFunction
    BY <1>1 DEF labels
  <1>10. Members(frames') \subseteq {top}
    <2>1. DOMAIN <<>> = {}  OBVIOUS
    <2> QED  BY <1>1, <1>2, <2>1 DEF Members
  <1>11. HeldBy(Members(frames')) = {} /\ AheadBy(Members(frames')) = {}
         /\ HeldBy(Members(frames)) = {} /\ Joining(Members(frames')) = {}
         /\ \A f \in Members(frames') : ~SwitchBody(f)
    BY <1>2, <1>10 DEF HeldBy, AheadBy, Joining
  <1>12. Waits(gotoJump) = {}  BY <1>1 DEF Waits
  <1>13. Apart(frames')
    <2>1. CASE frames' = <<>>
      <3>1. DOMAIN <<>> = {}  OBVIOUS
      <3> QED  BY <2>1, <3>1 DEF Apart, Members
    <2>2. CASE frames' = frames  BY <1>3, <2>2 DEF Kept, Owned
    <2> QED  BY <1>1, <2>1, <2>2
  <1>14. Owned(frames', insertAt', gotoJump')
    BY <1>1, <1>9, <1>11, <1>12, <1>13 DEF Owned
  <1>15. Aims' \subseteq Aims
    <2>1. StackAims' \subseteq Aims  BY <1>1, StackAimsStay
    <2>2. GoalsBy(Members(frames')) \subseteq Aims
      BY <1>2, <1>10 DEF GoalsBy
    <2> QED  BY <1>9, <2>1, <2>2 DEF Aims
  <1>16. Linked(blocks', Aims', Joining(Members(frames')))
    <2>1. Linked(blocks, Aims, {})
      <3>1. {} \subseteq Joining(Members(frames)) /\ Aims \subseteq Aims  OBVIOUS
      <3> QED  BY <1>3, <3>1, LinksShrink DEF Kept
    <2>2. \A b \in DOMAIN add :
             /\ add[b].op # "phi"
             /\ \A e \in add[b].to : e \in 0..Len(blocks') /\ Free(blocks, {}, e)
      BY <1>4, <1>7
    <2>3. Aims' \subseteq Aims \cup ((Len(blocks) + 1)..Len(blocks'))  BY <1>15
    <2>4. Linked(blocks', Aims', {})
      BY <1>5, <1>6, <2>1, <2>2, <2>3, WroteLinks
    <2> QED  BY <1>11, <2>4
  <1>17. Kept'
    BY <1>11, <1>14, <1>16 DEF Kept
  <1>18. InFunction' => Generated'
    <2> SUFFICES ASSUME InFunction'  PROVE Generated'
      OBVIOUS
    <2>1. pc' = "internal_error" /\ ~Verified(blocks')  BY <1>1 DEF InFunction
    <2>2. pc # "internal_error"  BY <1>1
    <2>3. Unfinished(frames, insertAt, gotoJump) = {insertAt}
      BY <1>11, <1>12 DEF Unfinished
    <2>4. Shaped(blocks, {insertAt})
      BY <1>3, <2>2, <2>3 DEF Generated
    <2>5. Shaped(blocks', {})
      <3>1. {} \subseteq DOMAIN blocks'
            /\ \A b \in DOMAIN add : b \in {insertAt} \/ b \notin DOMAIN blocks
        BY <1>7
      <3>2. \A b \in {} : /\ b \in {insertAt} \/ b \notin DOMAIN blocks
                          /\ b \in DOMAIN add => add[b].op \in {"plain", "phi", "switch"}
        OBVIOUS
      <3>3. \A b \in DOMAIN blocks' \ {} :
               b \in {insertAt} \/ b \notin DOMAIN blocks =>
                  \/ b \in DOMAIN add /\ add[b].op \in Terminators
                  \/ Finished(blocks'[b])
        BY <1>4, <1>7, <1>8
      <3> QED  BY <1>6, <2>4, <3>1, <3>2, <3>3, WroteShape
    <2>6. Patched(blocks', gotoSites', gotoJump', labelJump')
      <3>1. Loose(blocks[insertAt])  BY <1>5, <2>4 DEF Shaped
      <3>2. \A b \in DOMAIN add : b \in DOMAIN blocks => Loose(blocks[b])
        BY <1>7, <3>1
      <3>3. Patched(blocks, gotoSites, gotoJump, labelJump)  BY <1>3 DEF Generated
      <3> QED  BY <1>6, <1>9, <3>2, <3>3, WrotePatched
    <2>7. Waits(gotoJump') = {}  BY <1>9, <1>12
    <2> QED  BY <2>1, <2>5, <2>6, <2>7 DEF Generated
  <1> QED  BY <1>2, <1>9, <1>17, <1>18 DEF Graph

LEMMA InitGraph == Init => Graph
  <1> SUFFICES ASSUME Init  PROVE Graph  OBVIOUS
  <1>1. currentFunction = "none" /\ blocks = <<>> /\ frames = <<>>  BY DEF Init
  <1>2. ~InFunction  BY <1>1 DEF InFunction
  <1> QED  BY <1>1, <1>2 DEF Graph

LEMMA StutterGraph == ASSUME Graph, UNCHANGED vars  PROVE Graph'
  <1>1. /\ UNCHANGED <<fnVars, frames, jumps, switches, labels, currentFunction>>
        /\ pc' = pc
    BY DEF vars, walk, unit
  <1> QED  BY <1>1, SameGraph

----------------------------------------------------------------------------
(* The invariant *)

LEMMA HaltGraph ==
    ASSUME IInv, Graph, pc \notin Stopped,
           NEW how \in {"halted", "crashed"}, Stop(how), UNCHANGED unit
    PROVE  Graph'
  <1>1. pc \in PCs \ Stopped  BY DEF IInv, TypeOK
  <1>2. how # "internal_error"  OBVIOUS
  <1> QED  BY <1>1, <1>2, StopGraph

LEMMA StopsGraph ==
    ASSUME IInv, Graph,
           \/ StrayJump \/ CaseOutsideSwitch \/ UndeclaredLabel \/ SemanticError
           \/ \E l \in Labels : DuplicateLabel(l)
           \/ \E op \in {"and", "or"} : LogicalWithoutFunction(op)
    PROVE  Graph'
  <1>1. /\ UNCHANGED unit /\ pc \notin Stopped
        /\ Stop("halted") \/ Stop("crashed")
    BY DEF StrayJump, CaseOutsideSwitch, UndeclaredLabel, SemanticError, DuplicateLabel,
           LogicalWithoutFunction, Returned, Stopped
  <1>2. ASSUME NEW how \in {"halted", "crashed"}, Stop(how)  PROVE Graph'
    BY <1>1, <1>2, HaltGraph
  <1> QED  BY <1>1, <1>2

\* Every step of the walk keeps the graph.
LEMMA NextKeepsGraph == IInv /\ IInv' /\ Graph /\ [Next]_vars => Graph'
  <1> SUFFICES ASSUME IInv, IInv', Graph, [Next]_vars  PROVE Graph'
    OBVIOUS
  <1>1. CASE Iteration
    BY <1>1, WhileGraph, WhileCondGraph, WhileEndGraph, DoGraph, DoBodyGraph, DoEndGraph,
       ForGraph, ForInitGraph, ForCondGraph, ForIncGraph, ForEndGraph
       DEF Iteration
  <1>2. CASE Jump
    BY <1>2, ContinueGraph, BreakGraph, StopsGraph, ReturnValueGraph, ReturnValueEndGraph,
       ReturnVoidGraph, GotoGraph
       DEF Jump
  <1>3. CASE Labelled
    BY <1>3, LabelGraph, StopsGraph, CaseGraph, DefaultGraph DEF Labelled
  <1>4. CASE Selection
    BY <1>4, IfGraph, IfCondGraph, IfThenGraph, IfElseGraph,
       SwitchGraph, SwitchValueGraph, SwitchEndGraph
       DEF Selection
  <1>5. CASE Grouping
    BY <1>5, CompoundGraph, NextStatementGraph, CompoundEndGraph, ExpressionStatementGraph
       DEF Grouping
  <1>6. CASE Expression
    BY <1>6, OperandGraph, BinaryGraph, BinaryLhsGraph, BinaryEndGraph,
       LogicalGraph, LogicalLhsGraph, LogicalEndGraph, StopsGraph,
       ConditionalGraph, ConditionalCondGraph, ConditionalFstGraph, ConditionalEndGraph,
       ConditionalConstantGraph
       DEF Expression
  <1>7. CASE Unit
    BY <1>7, FunctionDefinitionGraph, FunctionEndGraph, StopsGraph, UnitStartGraph,
       OutsideGraph
       DEF Unit
  <1>8. CASE Stay \/ UNCHANGED vars
    BY <1>8, StutterGraph DEF Stay
  <1> QED
    BY <1>1, <1>2, <1>3, <1>4, <1>5, <1>6, <1>7, <1>8 DEF Next

\* Which block is still to be filled, by whom, and what the finished ones end
\* in, in every state of the walk of any program.
THEOREM BlockOwnership == Spec => []Graph
  <1>1. Init => IInv /\ Graph  BY InitInv, InitGraph
  <1>2. (IInv /\ Graph) /\ [Next]_vars => (IInv /\ Graph)'
    BY NextKeepsInv, NextKeepsGraph
  <1>3. Spec => [](IInv /\ Graph)  BY <1>1, <1>2, PTL DEF Spec
  <1> QED  BY <1>3, PTL

\* Nothing is ever added behind a branch or a return: whichever way handlers
\* leave the insert point, only the switch's block goes on behind it.
THEOREM Terminated == Spec => []OnlySwitchIsFollowed
  <1>1. Graph => OnlySwitchIsFollowed
    BY DEF Graph, Generated, Shaped, Straight, OnlySwitchIsFollowed
  <1> QED  BY <1>1, BlockOwnership, PTL

\* A goto waits open for its label or ends in the branch to it.
THEOREM Gotos == Spec => []GotosReachTheirLabel
  <1>1. IInv /\ Graph => GotosReachTheirLabel
    <2> SUFFICES ASSUME IInv, Graph, InFunction, NEW site \in gotoSites
                 PROVE  IF labelJump[site[2]] = None
                        THEN site[1] \in gotoJump[site[2]] /\ site[1] # insertAt
                        ELSE /\ site[1] \notin gotoJump[site[2]]
                             /\ blocks[site[1]] # <<>>
                             /\ Last(blocks[site[1]]) = Br(labelJump[site[2]])
      BY DEF GotosReachTheirLabel
    <2>1. site[2] \in Labels  BY DEF IInv, TypeOK
    <2>2. Patched(blocks, gotoSites, gotoJump, labelJump)  BY DEF Graph, Generated
    <2>3. insertAt \notin Waits(gotoJump)
      BY DEF Graph, Kept, Owned, IInv, WalkOK
    <2>4. CASE labelJump[site[2]] = None
      <3>1. site[1] \in gotoJump[site[2]]  BY <2>2, <2>4 DEF Patched
      <3>2. site[1] \in Waits(gotoJump)  BY <2>1, <3>1 DEF Waits
      <3> QED  BY <2>3, <2>4, <3>1, <3>2
    <2>5. CASE labelJump[site[2]] # None
      <3>1. gotoJump[site[2]] = {}  BY <2>1, <2>2, <2>5 DEF Patched
      <3> QED  BY <2>2, <2>5, <3>1 DEF Patched
    <2> QED  BY <2>4, <2>5
  <1> QED  BY <1>1, Invariance, BlockOwnership, PTL

----------------------------------------------------------------------------
(* The label tables *)

\* What waits for a label is the block of one of this function's gotos.
Sited == \A l \in Labels : \A b \in gotoJump[l] : <<b, l>> \in gotoSites

LEMMA SameLabels ==
    ASSUME \/ Iteration \/ Selection \/ Grouping \/ Expression \/ Stay
           \/ CaseOutsideSwitch \/ (\E l \in Labels : DuplicateLabel(l))
           \/ (\E c \in CaseValues, stale \in StaleBack : Case(c, stale))
           \/ (\E stale \in StaleBack : Default(stale))
           \/ Continue \/ Break \/ StrayJump \/ ReturnValue \/ ReturnValueEnd \/ ReturnVoid
           \/ UndeclaredLabel \/ FunctionEnd \/ UnitStart \/ UnitEnd
           \/ FileScopeExpression \/ FileScopeExpressionEnd \/ SemanticError
    PROVE  labels' = labels
  <1>1. CASE Iteration
    BY <1>1 DEF Iteration, While, WhileCond, WhileEnd, Do, DoBody, DoEnd,
                For, ForInit, ForCond, ForInc, ForEnd
  <1>2. CASE Selection
    BY <1>2 DEF Selection, If, IfCond, IfThen, IfElse, Switch, SwitchValue, SwitchEnd
  <1>3. CASE Grouping
    BY <1>3 DEF Grouping, Compound, NextStatement, CompoundEnd, ExpressionStatement
  <1>4. CASE Expression
    BY <1>4 DEF Expression, Operand, Binary, BinaryLhs, BinaryEnd, Logical, LogicalLhs,
                LogicalWithoutFunction, LogicalEnd, Conditional, ConditionalCond,
                ConditionalFst, ConditionalEnd, ConditionalConstant, Stop
  <1>5. CASE \/ CaseOutsideSwitch \/ (\E l \in Labels : DuplicateLabel(l))
             \/ (\E c \in CaseValues, stale \in StaleBack : Case(c, stale))
             \/ (\E stale \in StaleBack : Default(stale))
    BY <1>5 DEF CaseOutsideSwitch, DuplicateLabel, Case, Default, Stop
  <1>6. CASE Continue \/ Break \/ StrayJump \/ ReturnValue \/ ReturnValueEnd \/ ReturnVoid
    BY <1>6 DEF Continue, Break, StrayJump, ReturnValue, ReturnValueEnd, ReturnVoid, Stop
  <1>7. CASE \/ UndeclaredLabel \/ FunctionEnd \/ UnitStart \/ UnitEnd
             \/ FileScopeExpression \/ FileScopeExpressionEnd \/ SemanticError
    BY <1>7 DEF UndeclaredLabel, FunctionEnd, UnitStart, UnitEnd, FileScopeExpression,
                FileScopeExpressionEnd, SemanticError, Stop
  <1>8. CASE Stay  BY <1>8 DEF Stay, vars
  <1> QED  BY <1>1, <1>2, <1>3, <1>4, <1>5, <1>6, <1>7, <1>8

LEMMA NextKeepsSited == IInv /\ Sited /\ [Next]_vars => Sited'
  <1> SUFFICES ASSUME IInv, Sited, [Next]_vars  PROVE Sited'  OBVIOUS
  <1>1. gotoJump \in [Labels -> SUBSET Nat]  BY DEF IInv, TypeOK
  <1>2. CASE labels' = labels  BY <1>2 DEF labels, Sited
  <1>3. ASSUME NEW l \in Labels, Goto(l)  PROVE Sited'
    <2>1. /\ gotoJump' = gotoJump \/ gotoJump' = [gotoJump EXCEPT ![l] = @ \cup {insertAt}]
          /\ gotoSites' = gotoSites \cup {<<insertAt, l>>}
      BY <1>3 DEF Goto
    <2> QED  BY <1>1, <2>1 DEF Sited
  <1>4. ASSUME NEW l \in Labels, Label(l)  PROVE Sited'
    <2>1. gotoJump' = [gotoJump EXCEPT ![l] = {}] /\ gotoSites' = gotoSites
      BY <1>4 DEF Label
    <2> QED  BY <1>1, <2>1 DEF Sited
  <1>5. ASSUME NEW kind \in ResultKinds, FunctionDefinition(kind)  PROVE Sited'
    BY <1>5 DEF FunctionDefinition, ClearLabels, Sited
  <1>6. CASE UNCHANGED vars  BY <1>2, <1>6 DEF vars
  <1> QED
    BY <1>2, <1>3, <1>4, <1>5, <1>6, SameLabels DEF Next, Jump, Labelled, Unit

\* The tables that the unit's start leaves alone name blocks of the function
\* being generated only.
THEOREM LabelTables == Spec => []LabelsAreTheFunctions
  <1>1. Init => IInv /\ Sited
    <2>1. Init => Sited  BY DEF Init, Sited
    <2> QED  BY <2>1, InitInv
  <1>2. (IInv /\ Sited) /\ [Next]_vars => (IInv /\ Sited)'
    BY NextKeepsInv, NextKeepsSited
  <1>3. Spec => [](IInv /\ Sited)  BY <1>1, <1>2, PTL DEF Spec
  <1>4. IInv /\ Sited /\ Graph => LabelsAreTheFunctions
    <2> SUFFICES ASSUME IInv, Sited, Graph, InFunction, NEW l \in Labels
                 PROVE  /\ labelJump[l] \in {None} \cup 2..Len(blocks)
                        /\ \A b \in gotoJump[l] :
                              /\ <<b, l>> \in gotoSites /\ b \in DOMAIN blocks
                              /\ \A k \in DOMAIN blocks[b] :
                                    blocks[b][k].op \in {"plain", "phi", "switch"}
      BY DEF LabelsAreTheFunctions
    <2>1. Kept /\ Generated  BY DEF Graph, IInv, WalkOK
    <2>2. labelJump \in [Labels -> Nat] /\ gotoJump \in [Labels -> SUBSET Nat]
          /\ Len(blocks) \in Nat
      BY DEF IInv, TypeOK
    <2>3. labelJump[l] \in {None} \cup 2..Len(blocks)
      <3>1. labelJump[l] \in Aims  BY <2>2 DEF Aims, Elements
      <3>2. Aims \subseteq 0..Len(blocks) /\ 1 \notin Aims  BY <2>1 DEF Kept, Linked
      <3> QED  BY <2>2, <3>1, <3>2 DEF None
    <2>4. ASSUME NEW b \in gotoJump[l]
          PROVE  /\ <<b, l>> \in gotoSites /\ b \in DOMAIN blocks
                 /\ \A k \in DOMAIN blocks[b] :
                       blocks[b][k].op \in {"plain", "phi", "switch"}
      <3>1. b \in Waits(gotoJump)  BY DEF Waits
      <3>2. pc # "internal_error"  BY <2>1, <3>1 DEF Generated
      <3>3. b \in DOMAIN blocks /\ Loose(blocks[b])
        BY <2>1, <3>1, <3>2 DEF Generated, Shaped, Unfinished
      <3> QED  BY <3>3 DEF Loose, Sited
    <2> QED  BY <2>3, <2>4
  <1> QED  BY <1>3, <1>4, BlockOwnership, PTL

\* Every phi names exactly the blocks that branch to its own, wherever the
\* operands ended.
THEOREM Phis == Spec => []PhisMatchPredecessors
  <1>1. Graph => PhisMatchPredecessors
    <2> SUFFICES ASSUME Graph  PROVE PhisMatchPredecessors
      OBVIOUS
    <2>1. CASE currentFunction = "none"
      <3>1. blocks = <<>>  BY <2>1 DEF Graph
      <3>2. DOMAIN <<>> = {}  OBVIOUS
      <3> QED  BY <3>1, <3>2 DEF PhisMatchPredecessors
    <2>2. CASE currentFunction # "none"
      <3>1. Linked(blocks, Aims, Joining(Members(frames)))  BY <2>2 DEF Graph, Kept
      <3> QED  BY <3>1 DEF Linked, PhisMatchPredecessors
    <2> QED  BY <2>1, <2>2
  <1> QED  BY <1>1, BlockOwnership, PTL

\* A block that ends in a terminator is well formed if nothing but a phi and
\* plain instructions come before it.
LEMMA WellFormed ==
    ASSUME Graph, currentFunction # "none", blocks \in Seq(Seq(Instr)),
           NEW b \in DOMAIN blocks, Straight(blocks[b]), blocks[b] # <<>>,
           Last(blocks[b]).op \in Terminators,
           \A k \in 1..(Len(blocks[b]) - 1) : blocks[b][k].op # "switch"
    PROVE  WellFormedBlock(blocks, b)
  <1>1. blocks[b] \in Seq(Instr)  BY LenProperties, ElementOfSeq
  <1>2. Len(blocks[b]) \in Nat /\ DOMAIN blocks[b] = 1..Len(blocks[b])
    BY <1>1, LenProperties
  <1>3. \A k \in DOMAIN blocks[b] :
           blocks[b][k].op \in Terminators <=> k = Len(blocks[b])
    <2> SUFFICES ASSUME NEW k \in DOMAIN blocks[b]
                 PROVE  blocks[b][k].op \in Terminators <=> k = Len(blocks[b])
      OBVIOUS
    <2>1. CASE k = Len(blocks[b])  BY <2>1 DEF Last
    <2>2. CASE k # Len(blocks[b])
      <3>1. k \in 1..(Len(blocks[b]) - 1)  BY <1>2, <2>2
      <3>2. blocks[b][k].op \in {"plain", "phi"}  BY <3>1 DEF Straight
      <3> QED  BY <2>2, <3>2 DEF Terminators
    <2> QED  BY <2>1, <2>2
  <1>4. \A k \in DOMAIN blocks[b] : blocks[b][k].op = "phi" =>
           k = 1 /\ blocks[b][k].to = Predecessors(blocks, b)
    BY DEF Graph, Kept, Linked
  <1> QED  BY <1>3, <1>4 DEF WellFormedBlock

\* LLVM refuses a function for a switch that was followed, or for a block
\* that a stale back() left empty, and for nothing else.
THEOREM Defects == Spec => []DefectsComeFromSwitches
  <1>1. IInv /\ Graph => DefectsComeFromSwitches
    <2> SUFFICES ASSUME IInv, Graph, pc = "internal_error", InFunction
                 PROVE  /\ \E b \in DOMAIN blocks : ~WellFormedBlock(blocks, b)
                        /\ \A b \in DOMAIN blocks :
                             \/ WellFormedBlock(blocks, b)
                             \/ \E k \in 1..(Len(blocks[b]) - 1) :
                                   blocks[b][k].op = "switch"
                             \/ blocks[b] = <<>> /\ TRUE \in StaleBack
      BY DEF DefectsComeFromSwitches
    <2>1. currentFunction # "none" /\ blocks \in Seq(Seq(Instr))
      BY DEF IInv, WalkOK, TypeOK
    <2>2. Kept /\ Shaped(blocks, {}) /\ ~Verified(blocks)
      BY <2>1 DEF Graph, Generated
    <2>3. Predecessors(blocks, 1) = {}  BY <2>2 DEF Kept, Linked
    <2>4. \E b \in DOMAIN blocks : ~WellFormedBlock(blocks, b)
      BY <2>2, <2>3 DEF Verified
    <2>5. ASSUME NEW b \in DOMAIN blocks,
                 ~ \E k \in 1..(Len(blocks[b]) - 1) : blocks[b][k].op = "switch",
                 ~ (blocks[b] = <<>> /\ TRUE \in StaleBack)
          PROVE  WellFormedBlock(blocks, b)
      <3>1. Straight(blocks[b]) /\ Finished(blocks[b])  BY <2>2 DEF Shaped
      <3>2. blocks[b] # <<>> /\ Last(blocks[b]).op \in Terminators
        BY <2>5, <3>1 DEF Finished
      <3> QED  BY <2>1, <2>5, <3>1, <3>2, WellFormed
    <2> QED  BY <2>4, <2>5
  <1> QED  BY <1>1, Invariance, BlockOwnership, PTL

----------------------------------------------------------------------------
(* No step takes an instruction back *)

\* All blocks and instructions of bs are in bs2, where they were.
Keeps(bs, bs2) ==
    \A b \in DOMAIN bs : \A k \in DOMAIN bs[b] :
        b \in DOMAIN bs2 /\ k \in DOMAIN bs2[b] /\ bs2[b][k] = bs[b][k]

LEMMA KeepsTwice ==
    ASSUME NEW bs, NEW mid, NEW bs2, Keeps(bs, mid), Keeps(mid, bs2)
    PROVE  Keeps(bs, bs2)
  BY DEF Keeps

LEMMA EmitKeeps ==
    ASSUME NEW S, NEW bs \in Seq(Seq(S)), NEW c, NEW i \in S
    PROVE  Emit(bs, c, i) \in Seq(Seq(S)) /\ Keeps(bs, Emit(bs, c, i))
  <1> DEFINE es == [bs EXCEPT ![c] = Append(@, i)]
  <1>1. DOMAIN bs = 1..Len(bs) /\ \A b \in DOMAIN bs : bs[b] \in Seq(S)
    BY LenProperties, ElementOfSeq
  <1>2. es \in Seq(Seq(S)) /\ Keeps(bs, es)
    <2>1. CASE c \notin DOMAIN bs
      <3>1. es = bs  BY <2>1
      <3> QED  BY <3>1 DEF Keeps
    <2>2. CASE c \in DOMAIN bs
      <3> DEFINE s == bs[c]
                 t == Append(s, i)
      <3>1. s \in Seq(S)  BY <1>1, <2>2
      <3>2. es = [bs EXCEPT ![c] = t]  OBVIOUS
      <3> HIDE DEF s, es
      <3>3. t \in Seq(S) /\ Len(t) = Len(s) + 1 /\ \A k \in 1..Len(s) : t[k] = s[k]
        BY <3>1, AppendProperties
      <3> HIDE DEF t
      <3>4. DOMAIN s = 1..Len(s) /\ DOMAIN t = 1..(Len(s) + 1) /\ Len(s) \in Nat
        BY <3>1, <3>3, LenProperties
      <3>5. \A k \in DOMAIN s : k \in DOMAIN t /\ t[k] = s[k]
        BY <3>3, <3>4
      <3>6. c \in 1..Len(bs)  BY <1>1, <2>2
      <3>7. [bs EXCEPT ![c] = t] \in Seq(Seq(S))  BY <3>3, <3>6, ExceptSeq
      <3>8. /\ DOMAIN [bs EXCEPT ![c] = t] = DOMAIN bs /\ [bs EXCEPT ![c] = t][c] = t
            /\ \A b \in DOMAIN bs \ {c} : [bs EXCEPT ![c] = t][b] = bs[b]
        BY <2>2
      <3>9. Keeps(bs, [bs EXCEPT ![c] = t])
        BY <3>5, <3>8 DEF Keeps, s
      <3> QED  BY <3>2, <3>7, <3>9
    <2> QED  BY <2>1, <2>2
  <1>3. Emit(bs, c, i) = bs \/ Emit(bs, c, i) = es  BY DEF Emit
  <1>4. Keeps(bs, bs)  BY DEF Keeps
  <1> HIDE DEF es
  <1> QED  BY <1>2, <1>3, <1>4

LEMMA GrowKeeps ==
    ASSUME NEW S, NEW bs \in Seq(Seq(S)), NEW n \in Nat
    PROVE  Grow(bs, n) \in Seq(Seq(S)) /\ Keeps(bs, Grow(bs, n))
  <1> DEFINE new == [i \in 1..n |-> <<>>]
             gs == bs \o new
  <1>1. <<>> \in Seq(S)  BY EmptySeq
  <1>2. new \in [1..n -> Seq(S)]  BY <1>1
  <1>3. new \in Seq(Seq(S))  BY <1>2
  <1> HIDE DEF new
  <1>4. gs \in Seq(Seq(S)) /\ Len(gs) = Len(bs) + Len(new) /\ Len(bs) \in Nat
        /\ Len(new) \in Nat
    BY <1>3, ConcatProperties, LenProperties
  <1>5. \A b \in 1..Len(bs) : gs[b] = bs[b]
    <2> SUFFICES ASSUME NEW b \in 1..Len(bs)  PROVE gs[b] = bs[b]
      OBVIOUS
    <2>1. b \in 1..(Len(bs) + Len(new))  BY <1>4
    <2> QED  BY <1>3, <2>1, ConcatProperties
  <1> HIDE DEF gs
  <1>6. DOMAIN bs = 1..Len(bs) /\ DOMAIN gs = 1..Len(gs)  BY <1>4, LenProperties
  <1>7. DOMAIN bs \subseteq DOMAIN gs  BY <1>4, <1>6
  <1>8. Keeps(bs, gs)  BY <1>5, <1>6, <1>7 DEF Keeps
  <1>9. Grow(bs, n) = gs  BY DEF Grow, gs, new
  <1> QED  BY <1>4, <1>8, <1>9

LEMMA PatchKeeps ==
    ASSUME NEW S, NEW bs \in Seq(Seq(S)), NEW waiting, NEW target, Br(target) \in S
    PROVE  Keeps(bs, PatchGotos(bs, waiting, target))
  <1> DEFINE i == Br(target)
             ps == PatchGotos(bs, waiting, target)
  <1>1. /\ DOMAIN ps = DOMAIN bs
        /\ \A b \in DOMAIN bs : ps[b] = IF b \in waiting THEN Append(bs[b], i) ELSE bs[b]
    BY DEF PatchGotos
  <1>2. i \in S  OBVIOUS
  <1> HIDE DEF i, ps
  <1>3. ASSUME NEW b \in DOMAIN bs, NEW k \in DOMAIN bs[b]
        PROVE  k \in DOMAIN ps[b] /\ ps[b][k] = bs[b][k]
    <2> DEFINE s == bs[b]
               t == Append(s, i)
    <2>1. s \in Seq(S)  BY LenProperties, ElementOfSeq
    <2> HIDE DEF s
    <2>2. t \in Seq(S) /\ Len(t) = Len(s) + 1 /\ \A j \in 1..Len(s) : t[j] = s[j]
      BY <1>2, <2>1, AppendProperties
    <2> HIDE DEF t
    <2>3. DOMAIN s = 1..Len(s) /\ DOMAIN t = 1..(Len(s) + 1) /\ Len(s) \in Nat
      BY <2>1, <2>2, LenProperties
    <2>4. \A j \in DOMAIN s : j \in DOMAIN t /\ t[j] = s[j]
      BY <2>2, <2>3
    <2>5. k \in DOMAIN s  BY DEF s
    <2>6. ps[b] = t \/ ps[b] = s  BY <1>1 DEF s, t
    <2>7. CASE ps[b] = t  BY <2>4, <2>5, <2>7 DEF s
    <2>8. CASE ps[b] = s  BY <2>5, <2>8 DEF s
    <2> QED  BY <2>6, <2>7, <2>8
  <1> QED  BY <1>1, <1>3 DEF Keeps, ps

\* The blocks whatever else is written.
LEMMA BlocksOver ==
    ASSUME IInv, NEW T
    PROVE  blocks \in Seq(Seq(Instr \cup T))
  <1>1. blocks \in Seq(Seq(Instr))  BY DEF IInv, TypeOK
  <1>2. Instr \subseteq Instr \cup T  OBVIOUS
  <1>3. Seq(Instr) \subseteq Seq(Instr \cup T)  BY <1>2, SeqMonotonic
  <1> DEFINE A == Seq(Instr)
             B == Seq(Instr \cup T)
  <1>4. blocks \in Seq(A) /\ A \subseteq B  BY <1>1, <1>3
  <1> HIDE DEF A, B
  <1>5. blocks \in Seq(B)  BY <1>4, SeqMonotonic
  <1> QED  BY <1>5 DEF B

\* One instruction at the insert point and some new blocks, in any order.
LEMMA WritesKeep ==
    ASSUME IInv, NEW n \in Nat, NEW i,
           \/ blocks' = blocks
           \/ blocks' = Grow(blocks, n)
           \/ blocks' = Emit(blocks, insertAt, i)
           \/ blocks' = Emit(Grow(blocks, n), insertAt, i)
           \/ blocks' = Grow(Emit(blocks, insertAt, i), n)
    PROVE  Keeps(blocks, blocks')
  <1> DEFINE S == Instr \cup {i}
             gs == Grow(blocks, n)
             es == Emit(blocks, insertAt, i)
  <1>1. blocks \in Seq(Seq(S)) /\ i \in S  BY BlocksOver
  <1> HIDE DEF S
  <1>2. gs \in Seq(Seq(S)) /\ Keeps(blocks, gs)  BY <1>1, GrowKeeps
  <1>3. es \in Seq(Seq(S)) /\ Keeps(blocks, es)  BY <1>1, EmitKeeps
  <1> HIDE DEF gs, es
  <1>4. Keeps(blocks, Emit(gs, insertAt, i))
    <2>1. Keeps(gs, Emit(gs, insertAt, i))  BY <1>1, <1>2, EmitKeeps
    <2> QED  BY <1>2, <2>1, KeepsTwice
  <1>5. Keeps(blocks, Grow(es, n))
    <2>1. Keeps(es, Grow(es, n))  BY <1>3, GrowKeeps
    <2> QED  BY <1>3, <2>1, KeepsTwice
  <1>6. Keeps(blocks, blocks)  BY DEF Keeps
  <1> QED  BY <1>2, <1>3, <1>4, <1>5, <1>6 DEF gs, es

\* What the steps write.
SameBlocks == blocks' = blocks
Emits == \E i : blocks' = Emit(blocks, insertAt, i)
Grows == \E n \in Nat : blocks' = Grow(blocks, n)
GrowsAndEmits == \E n \in Nat : \E i : blocks' = Emit(Grow(blocks, n), insertAt, i)
EmitsAndGrows == \E n \in Nat : \E i : blocks' = Grow(Emit(blocks, insertAt, i), n)
Writes == SameBlocks \/ Emits \/ Grows \/ GrowsAndEmits \/ EmitsAndGrows

LEMMA WritingKeeps == ASSUME IInv, Writes  PROVE Keeps(blocks, blocks')
  <1>1. CASE SameBlocks  BY <1>1 DEF SameBlocks, Keeps
  <1>2. CASE Emits
    <2>1. PICK i : blocks' = Emit(blocks, insertAt, i)  BY <1>2 DEF Emits
    <2>2. 0 \in Nat  OBVIOUS
    <2> QED  BY <2>1, <2>2, WritesKeep
  <1>3. CASE Grows
    <2>1. PICK n \in Nat : blocks' = Grow(blocks, n)  BY <1>3 DEF Grows
    <2> QED  BY <2>1, WritesKeep
  <1>4. CASE GrowsAndEmits
    <2>1. PICK n \in Nat : \E i : blocks' = Emit(Grow(blocks, n), insertAt, i)
      BY <1>4 DEF GrowsAndEmits
    <2>2. PICK i : blocks' = Emit(Grow(blocks, n), insertAt, i)  BY <2>1
    <2> QED  BY <2>2, WritesKeep
  <1>5. CASE EmitsAndGrows
    <2>1. PICK n \in Nat : \E i : blocks' = Grow(Emit(blocks, insertAt, i), n)
      BY <1>5 DEF EmitsAndGrows
    <2>2. PICK i : blocks' = Grow(Emit(blocks, insertAt, i), n)  BY <2>1
    <2> QED  BY <2>2, WritesKeep
  <1> QED  BY <1>1, <1>2, <1>3, <1>4, <1>5 DEF Writes

LEMMA IterationWrites == ASSUME Iteration  PROVE Writes
  <1>1. CASE WhileCond \/ WhileEnd \/ DoBody \/ DoEnd \/ ForInit \/ ForCond \/ ForInc \/ ForEnd
    <2>1. Emits
      BY <1>1, Zenon
         DEF Emits, WhileCond, WhileEnd, DoBody, DoEnd, ForInit, ForCond, ForInc, ForEnd
    <2> QED  BY <2>1 DEF Writes
  <1>2. CASE While \/ Do
    <2>1. GrowsAndEmits
      <3>1. 3 \in Nat  OBVIOUS
      <3> QED  BY <1>2, <3>1, Zenon DEF GrowsAndEmits, While, Do
    <2> QED  BY <2>1 DEF Writes
  <1>3. CASE For
    <2>1. Grows
      <3>1. 4 \in Nat  OBVIOUS
      <3> QED  BY <1>3, <3>1, Zenon DEF Grows, For
    <2> QED  BY <2>1 DEF Writes
  <1> QED  BY <1>1, <1>2, <1>3 DEF Iteration

LEMMA JumpWrites == ASSUME Jump  PROVE Writes
  <1>1. CASE StrayJump \/ ReturnValue
    BY <1>1 DEF StrayJump, ReturnValue, Stop, fnVars, Writes, SameBlocks
  <1>2. CASE Continue \/ Break \/ ReturnValueEnd \/ ReturnVoid
    <2>1. EmitsAndGrows
      <3>1. 1 \in Nat  OBVIOUS
      <3> QED
        BY <1>2, <3>1, Zenon
           DEF EmitsAndGrows, OpenTempBlock, Continue, Break, ReturnValueEnd, ReturnVoid
    <2> QED  BY <2>1 DEF Writes
  <1>3. ASSUME NEW l \in Labels, Goto(l)  PROVE Writes
    <2>1. 1 \in Nat  OBVIOUS
    <2>2. EmitsAndGrows \/ Grows
      BY <1>3, <2>1, Zenon DEF EmitsAndGrows, Grows, OpenTempBlock, Goto
    <2> QED  BY <2>2 DEF Writes
  <1> QED  BY <1>1, <1>2, <1>3 DEF Jump

LEMMA LabelledKeeps == ASSUME IInv, Labelled  PROVE Keeps(blocks, blocks')
  <1>1. CASE CaseOutsideSwitch \/ \E l \in Labels : DuplicateLabel(l)
    <2>1. Writes
      BY <1>1 DEF CaseOutsideSwitch, DuplicateLabel, Stop, fnVars, Writes, SameBlocks
    <2> QED  BY <2>1, WritingKeeps
  <1>2. ASSUME NEW stale, FallThrough(stale, n1)  PROVE Keeps(blocks, blocks')
    <2>1. 1 \in Nat  OBVIOUS
    <2>2. Grows \/ GrowsAndEmits
      <3>1. \/ blocks' = Grow(blocks, 1)
            \/ blocks' = Emit(Grow(blocks, 1), insertAt, Br(n1))
        BY <1>2 DEF FallThrough
      <3> QED  BY <2>1, <3>1, Zenon DEF Grows, GrowsAndEmits
    <2>3. Writes  BY <2>2 DEF Writes
    <2> QED  BY <2>3, WritingKeeps
  <1>3. CASE \/ \E c \in CaseValues, stale \in StaleBack : Case(c, stale)
             \/ \E stale \in StaleBack : Default(stale)
    BY <1>2, <1>3 DEF Case, Default
  <1>4. ASSUME NEW l \in Labels, Label(l)  PROVE Keeps(blocks, blocks')
    <2> DEFINE i == Br(n1)
               S == Instr \cup {i}
               gs == Grow(blocks, 1)
               es == Emit(gs, insertAt, i)
    <2>1. blocks' = PatchGotos(es, gotoJump[l], n1)  BY <1>4 DEF Label
    <2>2. blocks \in Seq(Seq(S)) /\ i \in S  BY BlocksOver
    <2> HIDE DEF S
    <2>3. gs \in Seq(Seq(S)) /\ Keeps(blocks, gs)  BY <2>2, GrowKeeps
    <2> HIDE DEF gs
    <2>4. es \in Seq(Seq(S)) /\ Keeps(gs, es)  BY <2>2, <2>3, EmitKeeps
    <2> HIDE DEF es
    <2>5. Keeps(es, blocks')  BY <2>1, <2>2, <2>4, PatchKeeps
    <2> QED  BY <2>3, <2>4, <2>5, KeepsTwice
  <1> QED  BY <1>1, <1>3, <1>4 DEF Labelled

\* Of the instructions there were one may change, the SwitchInst of the switch
\* that ends.
Completed(b, k) ==
    /\ Returned("switch", "body")
    /\ b = top.from /\ k = top.pos
    /\ blocks[b][k].op = "switch" /\ blocks'[b][k].op = "switch"
Stays ==
    \A b \in DOMAIN blocks : \A k \in DOMAIN blocks[b] :
        blocks'[b][k] = blocks[b][k] \/ Completed(b, k)

LEMMA KeepingStays == ASSUME Keeps(blocks, blocks')  PROVE Stays
  BY DEF Keeps, Stays

LEMMA SwitchEndStays == ASSUME IInv, Graph, SwitchEnd  PROVE Stays
  <1> DEFINE bs == CompleteSwitch(blocks, top, Last(caseList), Last(defaultList))
             i == Br(top.end)
             inst == SwitchInst(SwitchTargets)
             S == Instr \cup {i}
  <1>1. /\ pc = "returned" /\ pc \in Running /\ frames # <<>>
        /\ blocks' = Emit(bs, insertAt, i)
        /\ top.h = "switch" /\ top.at = "body" /\ Returned("switch", "body")
    BY DEF SwitchEnd, Returned, Running
  <1>2. currentFunction # "none" /\ SwitchBody(top)
    BY <1>1, InHandler DEF StatementHandlers, SwitchBody
  <1>3. blocks \in Seq(Seq(Instr))  BY DEF IInv, TypeOK
  <1>4. SwitchAt(blocks, top)
    BY <1>1, <1>2, TopBlocked DEF Graph, Kept
  <1>5. SwitchTargets \subseteq Nat
    BY <1>1, <1>2, SwitchTargetsAim
  <1>6. Completes(blocks, bs, top, SwitchTargets)
    BY <1>3, <1>4, <1>5, CompletesAt DEF SwitchTargets
  <1> HIDE DEF bs
  <1>7. Keeps(bs, blocks')
    <2>1. bs \in Seq(Seq(Instr))  BY <1>6 DEF Completes
    <2>2. bs \in Seq(Seq(S)) /\ i \in S
      <3>1. Instr \subseteq S /\ i \in S  OBVIOUS
      <3> HIDE DEF S
      <3> DEFINE A == Seq(Instr)
                 B == Seq(S)
      <3>2. bs \in Seq(A) /\ A \subseteq B  BY <2>1, <3>1, SeqMonotonic
      <3> HIDE DEF A, B
      <3>3. bs \in Seq(B)  BY <3>2, SeqMonotonic
      <3> QED  BY <3>1, <3>3 DEF B
    <2> HIDE DEF S
    <2> QED  BY <1>1, <2>2, EmitKeeps
  <1> HIDE DEF i
  <1>8. inst.op = "switch"  BY DEF SwitchInst
  <1>9. blocks[top.from][top.pos].op = "switch"
    BY <1>4 DEF SwitchAt, SwitchInst
  <1> HIDE DEF inst
  <1>10. ASSUME NEW b \in DOMAIN blocks, NEW k \in DOMAIN blocks[b]
         PROVE  blocks'[b][k] = blocks[b][k] \/ Completed(b, k)
    <2>1. /\ b \in DOMAIN bs /\ k \in DOMAIN bs[b]
          /\ bs[b][k] = IF b = top.from /\ k = top.pos THEN inst ELSE blocks[b][k]
      BY <1>6 DEF Completes, inst
    <2>2. blocks'[b][k] = bs[b][k]  BY <1>7, <2>1 DEF Keeps
    <2>3. CASE b = top.from /\ k = top.pos
      <3>1. blocks'[b][k].op = "switch" /\ blocks[b][k].op = "switch"
        BY <1>8, <1>9, <2>1, <2>2, <2>3
      <3> QED  BY <1>1, <2>3, <3>1 DEF Completed
    <2>4. CASE ~(b = top.from /\ k = top.pos)  BY <2>1, <2>2, <2>4
    <2> QED  BY <2>3, <2>4
  <1> QED  BY <1>10 DEF Stays

LEMMA SelectionStays == ASSUME IInv, Graph, Selection  PROVE Stays
  <1>1. CASE IfCond \/ IfThen \/ IfElse
    <2>1. Emits  BY <1>1, Zenon DEF Emits, IfCond, IfThen, IfElse
    <2> QED  BY <2>1, WritingKeeps, KeepingStays DEF Writes
  <1>2. CASE If
    <2>1. 2 \in Nat /\ 3 \in Nat  OBVIOUS
    <2>2. Grows  BY <1>2, <2>1, Zenon DEF Grows, If
    <2> QED  BY <2>2, WritingKeeps, KeepingStays DEF Writes
  <1>3. CASE Switch
    <2>1. Writes  BY <1>3 DEF Switch, fnVars, Writes, SameBlocks
    <2> QED  BY <2>1, WritingKeeps, KeepingStays
  <1>4. CASE \E w \in SwitchWidths : SwitchValue(w)
    <2>1. 1 \in Nat  OBVIOUS
    <2>2. blocks' = Emit(Grow(blocks, 1), insertAt, SwitchInst({n1}))
      BY <1>4 DEF SwitchValue
    <2>3. GrowsAndEmits  BY <2>1, <2>2, Zenon DEF GrowsAndEmits
    <2> QED  BY <2>3, WritingKeeps, KeepingStays DEF Writes
  <1> QED  BY <1>1, <1>2, <1>3, <1>4, SwitchEndStays DEF Selection

LEMMA GroupingWrites == ASSUME Grouping  PROVE Writes
  BY DEF Grouping, Compound, NextStatement, CompoundEnd, ExpressionStatement, fnVars,
         Writes, SameBlocks

\* The branches to the joining block, then its phi.
LEMMA JoinKeeps ==
    ASSUME IInv, NEW one, one = blocks \/ one = Emit(blocks, top.from, Br(top.end)),
           blocks' = Emit(Emit(one, insertAt, Br(top.end)), top.end,
                          Phi(top.from, insertAt))
    PROVE  Keeps(blocks, blocks')
  <1> DEFINE i == Br(top.end)
             p == Phi(top.from, insertAt)
             S == Instr \cup {i, p}
             two == Emit(one, insertAt, i)
  <1>0. one = blocks \/ one = Emit(blocks, top.from, i)  OBVIOUS
  <1>1. blocks \in Seq(Seq(S)) /\ i \in S /\ p \in S /\ blocks' = Emit(two, top.end, p)
    BY BlocksOver
  <1> HIDE DEF S, i, p
  <1>2. one \in Seq(Seq(S)) /\ Keeps(blocks, one)
    <2>1. Keeps(blocks, blocks)  BY DEF Keeps
    <2>2. Emit(blocks, top.from, i) \in Seq(Seq(S)) /\ Keeps(blocks, Emit(blocks, top.from, i))
      BY <1>1, EmitKeeps
    <2> QED  BY <1>0, <1>1, <2>1, <2>2
  <1>3. two \in Seq(Seq(S)) /\ Keeps(one, two)  BY <1>1, <1>2, EmitKeeps
  <1> HIDE DEF two
  <1>4. Keeps(two, blocks')  BY <1>1, <1>3, EmitKeeps
  <1> QED  BY <1>2, <1>3, <1>4, KeepsTwice

LEMMA ExpressionKeeps == ASSUME IInv, Expression  PROVE Keeps(blocks, blocks')
  <1>1. CASE \/ Binary \/ BinaryLhs \/ Conditional \/ ConditionalFst \/ ConditionalConstant
             \/ \E op \in {"and", "or"} : Logical(op) \/ LogicalWithoutFunction(op)
    <2>1. Writes
      BY <1>1 DEF Binary, BinaryLhs, Conditional, ConditionalFst, ConditionalConstant,
                  Logical, LogicalWithoutFunction, Stop, fnVars, Writes, SameBlocks
    <2> QED  BY <2>1, WritingKeeps
  <1>2. CASE Operand \/ BinaryEnd
    <2>1. SameBlocks \/ Emits
      BY <1>2, Zenon DEF Operand, BinaryEnd, SameBlocks, Emits
    <2> QED  BY <2>1, WritingKeeps DEF Writes
  <1>3. CASE ConditionalCond \/ \E op \in {"and", "or"} : LogicalLhs(op)
    <2>1. 2 \in Nat /\ 3 \in Nat  OBVIOUS
    <2>2. \/ blocks' = Emit(Grow(blocks, 3), insertAt, CondBr(n3, n2))
          \/ blocks' = Emit(Grow(blocks, 2), insertAt, CondBr(n2, n1))
      BY <1>3 DEF ConditionalCond, LogicalLhs
    <2>3. GrowsAndEmits  BY <2>1, <2>2, Zenon DEF GrowsAndEmits
    <2> QED  BY <2>3, WritingKeeps DEF Writes
  <1>4. CASE \E op \in {"and", "or"} : LogicalEnd(op)
    <2>1. blocks' = Emit(Emit(blocks, insertAt, Br(top.end)), top.end,
                         Phi(top.from, insertAt))
      BY <1>4 DEF LogicalEnd
    <2> DEFINE one == blocks
    <2>2. blocks' = Emit(Emit(one, insertAt, Br(top.end)), top.end,
                         Phi(top.from, insertAt))
      BY <2>1
    <2>3. one = blocks \/ one = Emit(blocks, top.from, Br(top.end))  OBVIOUS
    <2> QED  BY <2>2, <2>3, JoinKeeps
  <1>5. CASE ConditionalEnd
    <2>1. blocks' = Emit(Emit(Emit(blocks, top.from, Br(top.end)), insertAt, Br(top.end)),
                         top.end, Phi(top.from, insertAt))
      BY <1>5 DEF ConditionalEnd
    <2> DEFINE one == Emit(blocks, top.from, Br(top.end))
    <2>2. blocks' = Emit(Emit(one, insertAt, Br(top.end)), top.end,
                         Phi(top.from, insertAt))
      BY <2>1
    <2>3. one = blocks \/ one = Emit(blocks, top.from, Br(top.end))  OBVIOUS
    <2> HIDE DEF one
    <2> QED  BY <2>2, <2>3, JoinKeeps
  <1> QED  BY <1>1, <1>2, <1>3, <1>4, <1>5 DEF Expression

LEMMA UnitWrites == ASSUME IInv, Unit, InFunction  PROVE Writes
  <1>1. pc \notin {"idle", "file"}
    BY DEF IInv, WalkOK, InFunction
  <1>2. CASE UndeclaredLabel \/ UnitEnd \/ FileScopeExpression \/ FileScopeExpressionEnd
             \/ SemanticError
    BY <1>2 DEF UndeclaredLabel, UnitEnd, FileScopeExpression, FileScopeExpressionEnd,
                SemanticError, Stop, fnVars, Writes, SameBlocks
  <1>3. CASE FunctionEnd
    <2>1. Emits  BY <1>3, Zenon DEF FunctionEnd, Emits
    <2> QED  BY <2>1 DEF Writes
  <1> QED  BY <1>1, <1>2, <1>3 DEF Unit, FunctionDefinition, UnitStart

\* A step of a function's walk never takes back an instruction: it appends,
\* or completes the targets of the SwitchInst that is being closed.
THEOREM Appending == Spec => InstructionsStay
  <1>1. IInv /\ Graph /\ [Next]_vars =>
            [InFunction /\ InFunction' =>
              \A b \in DOMAIN blocks : \A k \in DOMAIN blocks[b] :
                 \/ blocks'[b][k] = blocks[b][k]
                 \/ /\ Returned("switch", "body")
                    /\ b = top.from /\ k = top.pos
                    /\ blocks[b][k].op = "switch" /\ blocks'[b][k].op = "switch"]_vars
    <2> SUFFICES ASSUME IInv, Graph, Next, InFunction  PROVE Stays
      BY DEF Stays, Completed
    <2>1. CASE Iteration \/ Jump \/ Grouping \/ Unit
      BY <2>1, IterationWrites, JumpWrites, GroupingWrites, UnitWrites,
         WritingKeeps, KeepingStays
    <2>2. CASE Labelled \/ Expression
      BY <2>2, LabelledKeeps, ExpressionKeeps, KeepingStays
    <2>3. CASE Selection  BY <2>3, SelectionStays
    <2>4. CASE Stay
      <3>1. blocks' = blocks  BY <2>4 DEF Stay, vars, fnVars
      <3> QED  BY <3>1 DEF Stays
    <2> QED  BY <2>1, <2>2, <2>3, <2>4 DEF Next
  <1> QED  BY <1>1, Invariance, BlockOwnership, PTL DEF Spec, InstructionsStay
=============================================================================
