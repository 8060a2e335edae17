------------------------ MODULE ConversionsProofs ------------------------
(***************************************************************************)
(* The five properties of Conversions, for every width of the types: what  *)
(* the run shows for types of 1 to 5 bits holds for 1, 8, 16, 32 and 64.   *)
(*                                                                         *)
(* A pattern stands for a class of numbers modulo 2^bits, and a type has   *)
(* one number of each class.  So the code's result is C's when both are in *)
(* one class and C's fits the type; the operators that depend on low bits  *)
(* only stay in one class whatever is done to the bits above.  The powers  *)
(* of two come from counting sets of bits, the induction over widths from  *)
(* the least element of a set of naturals.                                 *)
(***************************************************************************)
EXTENDS Conversions, FiniteSetTheorems, WellFoundedInduction, TLAPS

-----------------------------------------------------------------------------
(* Induction, division and powers of two.                                  *)

\* Every nonempty set of naturals has a least element.
LEMMA Least ==
    ASSUME NEW T, T \subseteq Nat, T # {}
    PROVE  \E x \in T : \A y \in T : x <= y
  <1>1. PICK x \in T : \A y \in T : ~(<<y, x>> \in OpToRel(<, Nat))
    BY NatLessThanWellFounded, WFMin
  <1>2. ASSUME NEW y \in T  PROVE x <= y
    <2>1. x \in Nat /\ y \in Nat /\ <<y, x>> \in Nat \X Nat  OBVIOUS
    <2>2. y < x => <<y, x>> \in OpToRel(<, Nat)  BY <2>1 DEF OpToRel
    <2>3. ~(y < x)  BY <1>1, <2>2
    <2> QED  BY <2>1, <2>3
  <1> QED  BY <1>2

\* Induction, as it is needed here: a set of naturals that is closed under
\* successors and begins at 0 has them all.
LEMMA Induction ==
    ASSUME NEW S, 0 \in S, \A n \in Nat : n \in S => n + 1 \in S
    PROVE  \A n \in Nat : n \in S
  <1> SUFFICES ASSUME NEW n \in Nat, n \notin S  PROVE FALSE  OBVIOUS
  <1> DEFINE T == {k \in Nat : k \notin S}
  <1>1. T \subseteq Nat /\ T # {}  OBVIOUS
  <1>2. PICK x \in T : \A y \in T : x <= y  BY <1>1, Least
  <1>3. x \in Nat /\ x # 0 /\ x - 1 \in Nat /\ ~(x <= x - 1)  BY <1>2
  <1>4. x - 1 \in S  BY <1>2, <1>3
  <1>5. (x - 1) + 1 \in S  BY <1>3, <1>4
  <1>6. (x - 1) + 1 = x  BY <1>3
  <1> QED  BY <1>2, <1>5, <1>6

\* Every integer has a quotient and a remainder.
LEMMA Division ==
    ASSUME NEW a \in Int, NEW m \in Nat \ {0}
    PROVE  \E q \in Int : \E r \in 0 .. m - 1 : a = m * q + r
  <1> DEFINE T == {r \in Nat : \E q \in Int : a = m * q + r}
  <1>1. T # {}
    <2> DEFINE b == IF a < 0 THEN a ELSE 0
    <2>1. b \in Int /\ b <= 0 /\ a - m * b \in Int  OBVIOUS
    <2>2. a - m * b >= 0
      <3>1. CASE a >= 0
        <4>1. b = 0  BY <3>1
        <4>2. m * b = 0  BY <4>1
        <4> QED  BY <3>1, <4>2
      <3>2. CASE a < 0
        <4>1. b = a  BY <3>2
        <4>2. m * a <= a  BY <3>2
        <4> QED  BY <4>1, <4>2
      <3> QED  BY <3>1, <3>2
    <2>3. a = m * b + (a - m * b)  BY <2>1
    <2> DEFINE w == a - m * b
    <2>4. w \in Nat /\ a = m * b + w  BY <2>1, <2>2, <2>3
    <2> HIDE DEF b, w
    <2> QED  BY <2>1, <2>4
  <1>2. PICK r \in T : \A y \in T : r <= y
    <2>1. T \subseteq Nat  OBVIOUS
    <2> QED  BY <1>1, <2>1, Least
  <1>3. PICK q \in Int : a = m * q + r  BY <1>2
  <1>4. r \in Nat  BY <1>2
  <1>5. r < m
    <2> SUFFICES ASSUME r >= m  PROVE FALSE  BY <1>4
    <2>1. r - m \in Nat /\ q + 1 \in Int  BY <1>4
    <2>2. m * (q + 1) = m * q + m  BY <1>3
    <2>3. a = m * (q + 1) + (r - m)  BY <1>3, <1>4, <2>2
    <2>4. r - m \in T  BY <2>1, <2>3
    <2>5. r <= r - m  BY <1>2, <2>4
    <2> QED  BY <1>4, <2>5
  <1> QED  BY <1>3, <1>4, <1>5

\* The operators \div and % give them.
LEMMA DivMod ==
    ASSUME NEW a \in Int, NEW m \in Nat \ {0}
    PROVE  /\ a \div m \in Int
           /\ a % m \in 0 .. m - 1
           /\ a = m * (a \div m) + (a % m)
  OBVIOUS

\* They are the only ones.
LEMMA ModIs ==
    ASSUME NEW q \in Int, NEW r \in Int, NEW m \in Nat \ {0}, 0 <= r, r < m
    PROVE  /\ (m * q + r) % m = r
           /\ (m * q + r) \div m = q
  OBVIOUS

\* 2^n is the number of subsets of n elements: all that is known of ^ follows.
LEMMA Counted ==
    ASSUME NEW n \in Nat
    PROVE  /\ IsFiniteSet(SUBSET (1..n)) /\ Cardinality(SUBSET (1..n)) = 2^n
  <1>1. IsFiniteSet(1..n) /\ Cardinality(1..n) = n  BY FS_Interval
  <1> QED  BY <1>1, FS_SUBSET

\* A power of two is positive.
LEMMA PowType == ASSUME NEW n \in Nat  PROVE 2^n \in Nat \ {0}
  <1>1. IsFiniteSet(SUBSET (1..n)) /\ Cardinality(SUBSET (1..n)) = 2^n  BY Counted
  <1>2. SUBSET (1..n) # {}  OBVIOUS
  <1> QED  BY <1>1, <1>2, FS_CardinalityType, FS_EmptySet

\* A subset of n + 1 elements has the last one or not.
LEMMA PowStep == ASSUME NEW n \in Nat  PROVE 2^(n + 1) = 2 * 2^n
  <1> DEFINE A == SUBSET (1..n)
             B == {s \cup {n + 1} : s \in A}
             f == [s \in A |-> s \cup {n + 1}]
  <1>1. IsFiniteSet(A) /\ Cardinality(A) = 2^n  BY Counted
  <1>2. IsFiniteSet(B) /\ Cardinality(B) = Cardinality(A)
    <2>1. f \in Bijection(A, B)
      <3>1. f \in [A -> B]  OBVIOUS
      <3>2. \A b \in B : \E a \in A : f[a] = b  OBVIOUS
      <3>3. \A s, t \in A : f[s] = f[t] => s = t
        <4> SUFFICES ASSUME NEW s \in A, NEW t \in A, s \cup {n + 1} = t \cup {n + 1}
                     PROVE  s = t
          OBVIOUS
        <4>1. n + 1 \notin s /\ n + 1 \notin t  OBVIOUS
        <4> QED  BY <4>1
      <3> QED  BY <3>1, <3>2, <3>3 DEF Bijection, Injection, Surjection, IsInjective
    <2> QED  BY <1>1, <2>1, FS_Bijection DEF ExistsBijection
  <1>3. A \cap B = {}
    <2>1. \A s \in A : n + 1 \notin s  OBVIOUS
    <2> QED  BY <2>1
  <1>4. A \cup B = SUBSET (1..(n + 1))
    <2>1. ASSUME NEW s \in SUBSET (1..(n + 1))  PROVE s \in A \cup B
      <3>1. CASE n + 1 \in s
        <4> DEFINE t == s \ {n + 1}
        <4>1. t \in A  OBVIOUS
        <4>2. s = t \cup {n + 1}  BY <3>1
        <4> QED  BY <4>1, <4>2
      <3>2. CASE n + 1 \notin s  BY <3>2
      <3> QED  BY <3>1, <3>2
    <2>2. ASSUME NEW s \in A  PROVE s \in SUBSET (1..(n + 1)) /\ s \cup {n + 1} \in SUBSET (1..(n + 1))
      <3>1. \A x \in s : x \in 1 .. (n + 1)  OBVIOUS
      <3> QED  BY <3>1
    <2>3. \A s \in A \cup B : s \in SUBSET (1..(n + 1))  BY <2>2
    <2>4. \A s \in SUBSET (1..(n + 1)) : s \in A \cup B  BY <2>1
    <2> HIDE DEF A, B
    <2>5. \A s : s \in A \cup B <=> s \in SUBSET (1..(n + 1))  BY <2>3, <2>4
    <2> QED  BY <2>5
  <1> HIDE DEF A, B
  <1>5. Cardinality(A \cup B) = 2^n + 2^n
    <2>1. IsFiniteSet({}) /\ Cardinality({}) = 0  BY FS_EmptySet
    <2>2. Cardinality(A \cup B) = Cardinality(A) + Cardinality(B) - Cardinality(A \cap B)
      BY <1>1, <1>2, FS_Union
    <2>3. Cardinality(A) \in Nat  BY <1>1, FS_CardinalityType
    <2>4. 2^n \in Nat  BY PowType
    <2>5. Cardinality(A \cap B) = 0  BY <1>3, <2>1
    <2> QED  BY <1>1, <1>2, <2>2, <2>4, <2>5
  <1>6. Cardinality(A \cup B) = 2^(n + 1)
    <2>1. n + 1 \in Nat  OBVIOUS
    <2> QED  BY <1>4, <2>1, Counted
  <1> QED  BY <1>5, <1>6, PowType

\* 2^0 and 2^1.
LEMMA PowBase == 2^0 = 1 /\ 2^1 = 2
  <1>1. 2^0 = 1
    <2>1. Cardinality(SUBSET (1..0)) = 2^0  BY Counted
    <2>2. SUBSET (1..0) = {{}}  OBVIOUS
    <2> QED  BY <2>1, <2>2, FS_Singleton
  <1>2. 2^(0 + 1) = 2 * 2^0  BY PowStep
  <1> QED  BY <1>1, <1>2

\* A power splits at every smaller exponent.
LEMMA PowSplit ==
    ASSUME NEW m \in Nat, NEW d \in Nat
    PROVE  2^(m + d) = 2^m * 2^d
  <1> DEFINE S == {k \in Nat : 2^(m + k) = 2^m * 2^k}
  <1>1. 0 \in S
    <2>1. 2^m \in Nat /\ 2^0 = 1  BY PowType, PowBase
    <2>2. m + 0 = m  OBVIOUS
    <2> QED  BY <2>1, <2>2
  <1>2. ASSUME NEW k \in Nat, k \in S  PROVE k + 1 \in S
    <2>1. 2^(m + k) = 2^m * 2^k  BY <1>2
    <2>2. 2^((m + k) + 1) = 2 * 2^(m + k)
      <3>1. m + k \in Nat  OBVIOUS
      <3> QED  BY <3>1, PowStep
    <2>3. 2^(k + 1) = 2 * 2^k  BY PowStep
    <2>4. 2^m \in Nat /\ 2^k \in Nat  BY PowType
    <2>5. 2 * (2^m * 2^k) = 2^m * (2 * 2^k)
      <3>1. \A x, y \in Nat : 2 * (x * y) = x * (2 * y)  OBVIOUS
      <3> QED  BY <2>4, <3>1
    <2>6. (m + k) + 1 = m + (k + 1)  OBVIOUS
    <2>7. 2^(m + (k + 1)) = 2^m * 2^(k + 1)  BY <2>1, <2>2, <2>3, <2>5, <2>6
    <2>8. k + 1 \in Nat  OBVIOUS
    <2> QED  BY <2>7, <2>8
  <1> HIDE DEF S
  <1>3. d \in S  BY <1>1, <1>2, Induction
  <1> QED  BY <1>3 DEF S

\* A larger power is a multiple of a smaller one.
LEMMA PowDivides ==
    ASSUME NEW m \in Nat, NEW n \in Nat, m <= n
    PROVE  /\ n - m \in Nat /\ 2^n = 2^m * 2^(n - m)
           /\ 2^m <= 2^n
           /\ m < n => 2 * 2^m <= 2^n
  <1>1. n - m \in Nat /\ m + (n - m) = n  OBVIOUS
  <1>2. 2^n = 2^m * 2^(n - m)  BY <1>1, PowSplit
  <1>3. 2^m \in Nat \ {0} /\ 2^(n - m) \in Nat \ {0}  BY <1>1, PowType
  <1>4. \A x, y \in Nat \ {0} : x <= x * y  OBVIOUS
  <1>5. 2^m <= 2^n  BY <1>2, <1>3, <1>4
  <1>6. ASSUME m < n  PROVE 2 * 2^m <= 2^n
    <2>1. m + 1 \in Nat /\ n - (m + 1) \in Nat /\ (m + 1) + (n - (m + 1)) = n  BY <1>6
    <2>2. 2^n = 2^(m + 1) * 2^(n - (m + 1))  BY <2>1, PowSplit
    <2>3. 2^(m + 1) \in Nat \ {0} /\ 2^(n - (m + 1)) \in Nat \ {0}  BY <2>1, PowType
    <2>4. 2^(m + 1) <= 2^n  BY <2>2, <2>3, <1>4
    <2> QED  BY <2>4, PowStep
  <1> QED  BY <1>1, <1>2, <1>5, <1>6

\* The half of a power, as two's complement needs it.
LEMMA PowHalf ==
    ASSUME NEW b \in Nat \ {0}
    PROVE  /\ b - 1 \in Nat /\ 2^(b - 1) \in Nat \ {0} /\ 2^b \in Nat \ {0}
           /\ 2^b = 2 * 2^(b - 1)
  <1>1. b - 1 \in Nat /\ (b - 1) + 1 = b  OBVIOUS
  <1> QED  BY <1>1, PowType, PowStep

-----------------------------------------------------------------------------
\* a and b differ by a multiple of m.
Cong(a, b, m) == \E k \in Int : a = b + k * m

\* Congruence is reflexive.
LEMMA CongRefl == ASSUME NEW a \in Int, NEW m \in Int  PROVE Cong(a, a, m)
  <1>1. a = a + 0 * m  OBVIOUS
  <1> QED  BY <1>1 DEF Cong

\* It is symmetric,
LEMMA CongSym ==
    ASSUME NEW a \in Int, NEW b \in Int, NEW m \in Int, Cong(a, b, m)
    PROVE  Cong(b, a, m)
  <1>1. PICK k \in Int : a = b + k * m  BY DEF Cong
  <1>2. -k \in Int /\ (-k) * m = -(k * m) /\ k * m \in Int  OBVIOUS
  <1>3. b = a + (-k) * m  BY <1>1, <1>2
  <1> QED  BY <1>2, <1>3 DEF Cong

\* transitive,
LEMMA CongTrans ==
    ASSUME NEW a \in Int, NEW b \in Int, NEW c \in Int, NEW m \in Int,
           Cong(a, b, m), Cong(b, c, m)
    PROVE  Cong(a, c, m)
  <1>1. PICK k \in Int : a = b + k * m  BY DEF Cong
  <1>2. PICK j \in Int : b = c + j * m  BY DEF Cong
  <1>3. (k + j) * m = k * m + j * m /\ k * m \in Int /\ j * m \in Int  OBVIOUS
  <1>4. k + j \in Int /\ a = c + (k + j) * m  BY <1>1, <1>2, <1>3
  <1> QED  BY <1>4 DEF Cong

\* and kept by addition,
LEMMA CongAdd ==
    ASSUME NEW a \in Int, NEW b \in Int, NEW c \in Int, NEW d \in Int, NEW m \in Int,
           Cong(a, b, m), Cong(c, d, m)
    PROVE  Cong(a + c, b + d, m)
  <1>1. PICK k \in Int : a = b + k * m  BY DEF Cong
  <1>2. PICK j \in Int : c = d + j * m  BY DEF Cong
  <1>3. (k + j) * m = k * m + j * m /\ k * m \in Int /\ j * m \in Int  OBVIOUS
  <1>4. k + j \in Int /\ a + c = (b + d) + (k + j) * m  BY <1>1, <1>2, <1>3
  <1> QED  BY <1>4 DEF Cong

\* negation,
LEMMA CongNeg ==
    ASSUME NEW a \in Int, NEW b \in Int, NEW m \in Int, Cong(a, b, m)
    PROVE  Cong(-a, -b, m)
  <1>1. PICK k \in Int : a = b + k * m  BY DEF Cong
  <1>2. -k \in Int /\ (-k) * m = -(k * m) /\ k * m \in Int  OBVIOUS
  <1>3. -a = (-b) + (-k) * m  BY <1>1, <1>2
  <1> QED  BY <1>2, <1>3 DEF Cong

\* subtraction,
LEMMA CongSub ==
    ASSUME NEW a \in Int, NEW b \in Int, NEW c \in Int, NEW d \in Int, NEW m \in Int,
           Cong(a, b, m), Cong(c, d, m)
    PROVE  Cong(a - c, b - d, m)
  <1>1. Cong(-c, -d, m) /\ -c \in Int /\ -d \in Int  BY CongNeg
  <1>2. Cong(a + (-c), b + (-d), m)  BY <1>1, CongAdd
  <1>3. a + (-c) = a - c /\ b + (-d) = b - d  OBVIOUS
  <1> QED  BY <1>2, <1>3

\* multiplication by a number
LEMMA CongScale ==
    ASSUME NEW a \in Int, NEW b \in Int, NEW c \in Int, NEW m \in Int, Cong(a, b, m)
    PROVE  Cong(a * c, b * c, m)
  <1>1. PICK k \in Int : a = b + k * m  BY DEF Cong
  <1>2. (b + k * m) * c = b * c + (k * c) * m  OBVIOUS
  <1>3. k * c \in Int /\ a * c = b * c + (k * c) * m  BY <1>1, <1>2
  <1> QED  BY <1>3 DEF Cong

\* and of two congruent pairs.
LEMMA CongMul ==
    ASSUME NEW a \in Int, NEW b \in Int, NEW c \in Int, NEW d \in Int, NEW m \in Int,
           Cong(a, b, m), Cong(c, d, m)
    PROVE  Cong(a * c, b * d, m)
  <1>1. Cong(a * c, b * c, m)  BY CongScale
  <1>2. Cong(c * b, d * b, m)  BY CongScale
  <1>3. c * b = b * c /\ d * b = b * d /\ a * c \in Int /\ b * c \in Int /\ b * d \in Int  OBVIOUS
  <1>4. Cong(b * c, b * d, m)  BY <1>2, <1>3
  <1> QED  BY <1>1, <1>3, <1>4, CongTrans

\* A remainder is congruent to the number, and the only one in its range.
LEMMA CongMod ==
    ASSUME NEW a \in Int, NEW m \in Nat \ {0}
    PROVE  /\ a % m \in 0 .. m - 1
           /\ Cong(a % m, a, m) /\ Cong(a, a % m, m)
  <1>1. a \div m \in Int /\ a % m \in 0 .. m - 1 /\ a = m * (a \div m) + (a % m)  BY DivMod
  <1>2. m * (a \div m) = (a \div m) * m  BY <1>1
  <1>3. a = (a % m) + (a \div m) * m  BY <1>1, <1>2
  <1>4. Cong(a, a % m, m)  BY <1>1, <1>3 DEF Cong
  <1>5. a % m \in Int  BY <1>1
  <1> QED  BY <1>1, <1>4, <1>5, CongSym

\* Congruent numbers less than the modulus apart are equal.
LEMMA CongNear ==
    ASSUME NEW a \in Int, NEW b \in Int, NEW m \in Nat \ {0},
           Cong(a, b, m), a - b < m, b - a < m
    PROVE  a = b
  <1>1. PICK k \in Int : a = b + k * m  BY DEF Cong
  <1>2. k * m < m /\ -(k * m) < m /\ k * m \in Int  BY <1>1
  <1>3. k = 0
    <2>1. CASE k >= 1
      <3>1. \A x, y \in Nat \ {0} : y <= x * y  OBVIOUS
      <3>2. m <= k * m  BY <2>1, <3>1
      <3> QED  BY <1>2, <3>2
    <2>2. CASE k <= -1
      <3>1. \A x, y \in Nat \ {0} : y <= x * y  OBVIOUS
      <3>2. m <= (-k) * m /\ (-k) * m = -(k * m)  BY <2>2, <3>1
      <3> QED  BY <1>2, <3>2
    <2> QED  BY <2>1, <2>2
  <1>4. k * m = 0  BY <1>3
  <1> QED  BY <1>1, <1>4

\* Congruence is equality of remainders.
LEMMA CongModEq ==
    ASSUME NEW a \in Int, NEW b \in Int, NEW m \in Nat \ {0}
    PROVE  Cong(a, b, m) <=> a % m = b % m
  <1>1. /\ a % m \in 0 .. m - 1 /\ Cong(a % m, a, m) /\ Cong(a, a % m, m)
        /\ b % m \in 0 .. m - 1 /\ Cong(b % m, b, m) /\ Cong(b, b % m, m)
    BY CongMod
  <1>2. a % m \in Int /\ b % m \in Int /\ m \in Int  BY <1>1
  <1>3. ASSUME Cong(a, b, m)  PROVE a % m = b % m
    <2>1. Cong(a % m, b, m)  BY <1>1, <1>2, <1>3, CongTrans
    <2>2. Cong(a % m, b % m, m)  BY <1>1, <1>2, <2>1, CongTrans
    <2>3. (a % m) - (b % m) < m /\ (b % m) - (a % m) < m  BY <1>1
    <2> QED  BY <1>2, <2>2, <2>3, CongNear
  <1>4. ASSUME a % m = b % m  PROVE Cong(a, b, m)
    BY <1>1, <1>2, <1>4, CongTrans
  <1> QED  BY <1>3, <1>4

\* What holds modulo a power of two holds modulo a smaller one.
LEMMA CongDown ==
    ASSUME NEW a \in Int, NEW b \in Int, NEW m \in Nat, NEW n \in Nat, m <= n,
           Cong(a, b, 2^n)
    PROVE  Cong(a, b, 2^m)
  <1>1. 2^n = 2^m * 2^(n - m) /\ n - m \in Nat  BY PowDivides
  <1>2. 2^m \in Int /\ 2^(n - m) \in Int  BY <1>1, PowType
  <1>3. PICK k \in Int : a = b + k * 2^n  BY DEF Cong
  <1>4. \A x, y \in Int : k * (x * y) = (k * y) * x  OBVIOUS
  <1>5. a = b + (k * 2^(n - m)) * 2^m /\ k * 2^(n - m) \in Int  BY <1>1, <1>2, <1>3, <1>4
  <1> QED  BY <1>5 DEF Cong

-----------------------------------------------------------------------------
(* The bits of a number.                                                   *)

\* Bit i of a number.
Bit(p, i) == (p \div 2 ^ i) % 2

\* A bit is 0 or 1.
LEMMA BitType ==
    ASSUME NEW p \in Int, NEW i \in Nat
    PROVE  Bit(p, i) \in {0, 1}
  <1>1. 2^i \in Nat \ {0}  BY PowType
  <1>2. p \div 2^i \in Int  BY <1>1, DivMod
  <1>3. \A x \in Int : x % 2 \in {0, 1}  OBVIOUS
  <1> QED  BY <1>2, <1>3 DEF Bit

\* Taking a remainder by 2^n keeps the bits below n and clears the others.
LEMMA LowBits ==
    ASSUME NEW p \in Int, NEW n \in Nat, NEW i \in Nat
    PROVE  Bit(p % 2^n, i) = IF i < n THEN Bit(p, i) ELSE 0
  <1> DEFINE q == p \div 2^n
             r == p % 2^n
             s == r \div 2^i
             u == r % 2^i
  <1>1. 2^n \in Nat \ {0} /\ 2^i \in Nat \ {0}  BY PowType
  <1>2. q \in Int /\ r \in 0 .. 2^n - 1 /\ p = 2^n * q + r  BY <1>1, DivMod
  <1> HIDE DEF r
  <1>3. s \in Int /\ u \in 0 .. 2^i - 1 /\ r = 2^i * s + u
    <2>1. r \in Int  BY <1>1, <1>2
    <2> QED  BY <1>1, <2>1, DivMod
  <1> HIDE DEF q, s, u
  <1>4. CASE i < n
    <2>1. i + 1 \in Nat /\ i + 1 <= n  BY <1>4
    <2> DEFINE d == n - (i + 1)
    <2>2. d \in Nat /\ 2^n = 2^(i + 1) * 2^d  BY <2>1, PowDivides
    <2>3. 2^(i + 1) = 2 * 2^i /\ 2^d \in Nat  BY <2>2, PowStep, PowType
    <2> DEFINE t == 2^d * q
    <2>4. t \in Int  BY <1>2, <2>3
    <2>5. 2^n * q = 2^i * (2 * t)
      <3>1. \A x, y \in Nat, z \in Int : (2 * x * y) * z = x * (2 * (y * z))  OBVIOUS
      <3>2. 2^n * q = (2 * 2^i * 2^d) * q  BY <2>2, <2>3
      <3> QED  BY <1>1, <1>2, <2>3, <3>1, <3>2
    <2> HIDE DEF t, d
    <2>6. 2^i * (2 * t) + 2^i * s = 2^i * (2 * t + s)
      <3>1. \A x \in Nat, y, z \in Int : x * (2 * y) + x * z = x * (2 * y + z)  OBVIOUS
      <3> QED  BY <1>1, <1>3, <2>4, <3>1
    <2>7. p = 2^i * (2 * t + s) + u
      <3>1. 2^i * (2 * t) \in Int /\ 2^i * s \in Int /\ u \in Int  BY <1>1, <1>3, <2>4
      <3> QED  BY <1>2, <1>3, <2>5, <2>6, <3>1
    <2>8. p \div 2^i = 2 * t + s
      <3>1. 2 * t + s \in Int /\ u \in Int /\ 0 <= u /\ u < 2^i  BY <1>1, <1>3, <2>4
      <3> QED  BY <1>1, <2>7, <3>1, ModIs
    <2>9. (2 * t + s) % 2 = s % 2  BY <1>3, <2>4
    <2> QED  BY <1>4, <2>8, <2>9 DEF Bit, r, s
  <1>5. CASE ~(i < n)
    <2>1. 2^n <= 2^i  BY <1>5, PowDivides
    <2>2. r = 2^i * 0 + r /\ 0 <= r /\ r < 2^i  BY <1>1, <1>2, <2>1
    <2>3. r \div 2^i = 0
      <3>1. (2^i * 0 + r) \div 2^i = 0  BY <1>1, <1>2, <2>2, ModIs
      <3> QED  BY <2>2, <3>1
    <2>4. 0 % 2 = 0  OBVIOUS
    <2> QED  BY <1>5, <2>3, <2>4 DEF Bit, r
  <1> QED  BY <1>4, <1>5

\* A number of n + 1 bits is its top bit and the n below.
LEMMA TopBitOf ==
    ASSUME NEW n \in Nat, NEW p \in 0 .. 2^(n + 1) - 1
    PROVE  p = 2^n * Bit(p, n) + (p % 2^n)
  <1>1. 2^n \in Nat \ {0} /\ 2^(n + 1) = 2 * 2^n  BY PowType, PowStep
  <1> DEFINE q == p \div 2^n
  <1>2. q \in Int /\ p % 2^n \in 0 .. 2^n - 1 /\ p = 2^n * q + (p % 2^n)
    <2>1. p \in Int  BY <1>1
    <2> QED  BY <1>1, <2>1, DivMod
  <1> HIDE DEF q
  <1>3. q \in {0, 1}
    <2>1. 2^n * q < 2 * 2^n /\ -(2^n) < 2^n * q  BY <1>1, <1>2
    <2>2. CASE q >= 2
      <3>1. \A x \in Nat \ {0}, y \in Int : y >= 2 => 2 * x <= x * y  OBVIOUS
      <3> QED  BY <1>1, <1>2, <2>1, <2>2, <3>1
    <2>3. CASE q <= -1
      <3>1. \A x \in Nat \ {0}, y \in Int : y <= -1 => x * y <= -x  OBVIOUS
      <3> QED  BY <1>1, <1>2, <2>1, <2>3, <3>1
    <2> QED  BY <1>2, <2>2, <2>3
  <1>4. q % 2 = q  BY <1>3
  <1> QED  BY <1>2, <1>4 DEF Bit, q

\* Numbers below 2^n with the same bits are the same.
LEMMA BitsDetermine ==
    ASSUME NEW n \in Nat, NEW p \in 0 .. 2^n - 1, NEW q \in 0 .. 2^n - 1,
           \A i \in 0 .. n - 1 : Bit(p, i) = Bit(q, i)
    PROVE  p = q
  <1> DEFINE S == {k \in Nat : \A x, y \in 0 .. 2^k - 1 :
                      (\A i \in 0 .. k - 1 : Bit(x, i) = Bit(y, i)) => x = y}
  <1>1. 0 \in S
    <2>1. 2^0 = 1  BY PowBase
    <2> QED  BY <2>1
  <1>2. ASSUME NEW k \in Nat, k \in S  PROVE k + 1 \in S
    <2> SUFFICES ASSUME NEW x \in 0 .. 2^(k + 1) - 1, NEW y \in 0 .. 2^(k + 1) - 1,
                        \A i \in 0 .. (k + 1) - 1 : Bit(x, i) = Bit(y, i)
                 PROVE  x = y
      OBVIOUS
    <2>1. x \in Int /\ y \in Int /\ 2^k \in Nat \ {0}  BY PowType
    <2>2. x % 2^k \in 0 .. 2^k - 1 /\ y % 2^k \in 0 .. 2^k - 1  BY <2>1, DivMod
    <2>3. ASSUME NEW i \in 0 .. k - 1  PROVE Bit(x % 2^k, i) = Bit(y % 2^k, i)
      <3>1. i \in Nat /\ i < k /\ i \in 0 .. (k + 1) - 1  OBVIOUS
      <3> QED  BY <2>1, <3>1, LowBits
    <2>4. x % 2^k = y % 2^k  BY <1>2, <2>2, <2>3
    <2>5. k \in 0 .. (k + 1) - 1  OBVIOUS
    <2>6. Bit(x, k) = Bit(y, k)  BY <2>5
    <2> QED  BY <2>4, <2>6, TopBitOf
  <1> HIDE DEF S
  <1>3. n \in S  BY <1>1, <1>2, Induction
  <1> QED  BY <1>3 DEF S

\* Every set of bits below n is the set of ones of a number below 2^n.
LEMMA BitsExist ==
    ASSUME NEW n \in Nat, NEW B \in SUBSET (0 .. n - 1)
    PROVE  \E p \in 0 .. 2^n - 1 : \A i \in 0 .. n - 1 : Bit(p, i) = 1 <=> i \in B
  <1> DEFINE S == {k \in Nat : \A C \in SUBSET (0 .. k - 1) : \E p \in 0 .. 2^k - 1 :
                      \A i \in 0 .. k - 1 : Bit(p, i) = 1 <=> i \in C}
  <1>1. 0 \in S
    <2>1. 2^0 = 1 /\ 0 \in 0 .. 1 - 1 /\ 0 .. 0 - 1 = {}  BY PowBase
    <2> QED  BY <2>1
  <1>2. ASSUME NEW k \in Nat, k \in S  PROVE k + 1 \in S
    <2> SUFFICES ASSUME NEW C \in SUBSET (0 .. (k + 1) - 1)
                 PROVE  \E p \in 0 .. 2^(k + 1) - 1 :
                           \A i \in 0 .. (k + 1) - 1 : Bit(p, i) = 1 <=> i \in C
      OBVIOUS
    <2> DEFINE D == {i \in C : i # k}
    <2>1. D \in SUBSET (0 .. k - 1)
      <3>1. \A i \in C : i \in 0 .. (k + 1) - 1  OBVIOUS
      <3>2. \A i \in D : i \in 0 .. k - 1  BY <3>1
      <3> QED  BY <3>2
    <2>2. PICK p \in 0 .. 2^k - 1 : \A i \in 0 .. k - 1 : Bit(p, i) = 1 <=> i \in D
      BY <1>2, <2>1
    <2> DEFINE t == IF k \in C THEN 1 ELSE 0
               z == 2^k * t + p
    <2>3. 2^k \in Nat \ {0} /\ 2^(k + 1) = 2 * 2^k  BY PowType, PowStep
    <2>4. t \in {0, 1} /\ t \in Int /\ p \in Int /\ 0 <= p /\ p < 2^k  BY <2>3
    <2>5. 2^k * t \in 0 .. 2^k
      <3>1. CASE t = 0  BY <2>3, <3>1
      <3>2. CASE t = 1  BY <2>3, <3>2
      <3> QED  BY <2>4, <3>1, <3>2
    <2> HIDE DEF t
    <2>6. z % 2^k = p /\ z \div 2^k = t  BY <2>3, <2>4, ModIs
    <2>7. z \in 0 .. 2^(k + 1) - 1
      <3>1. CASE t = 0  BY <2>3, <2>4, <3>1
      <3>2. CASE t = 1  BY <2>3, <2>4, <3>2
      <3> QED  BY <2>4, <3>1, <3>2
    <2> HIDE DEF z
    <2>8. ASSUME NEW i \in 0 .. (k + 1) - 1  PROVE Bit(z, i) = 1 <=> i \in C
      <3>1. CASE i = k
        <4>1. t % 2 = t  BY <2>4
        <4> QED  BY <2>6, <3>1, <4>1 DEF Bit, t
      <3>2. CASE i # k
        <4>1. i \in 0 .. k - 1 /\ i \in Nat /\ i < k /\ z \in Int  BY <2>7, <3>2
        <4>2. Bit(z, i) = Bit(p, i)  BY <2>6, <4>1, LowBits
        <4>3. Bit(p, i) = 1 <=> i \in D  BY <2>2, <4>1
        <4> QED  BY <3>2, <4>2, <4>3
      <3> QED  BY <3>1, <3>2
    <2> QED  BY <2>7, <2>8
  <1> HIDE DEF S
  <1>3. n \in S  BY <1>1, <1>2, Induction
  <1> QED  BY <1>3 DEF S

-----------------------------------------------------------------------------
(* Types, values and the numbers they stand for.                           *)

\* The widths are positive, ordered and at least 2.
LEMMA Widths ==
    /\ CharBits \in Nat /\ ShortBits \in Nat /\ IntBits \in Nat /\ LongBits \in Nat
    /\ 1 < CharBits /\ CharBits < ShortBits /\ ShortBits < IntBits /\ IntBits < LongBits
  BY WidthsAssumption

\* What an integer type is.
LEMMA TypeFacts ==
    ASSUME NEW t \in IntTypes
    PROVE  /\ t.kind = "int" /\ t.bits \in Nat \ {0} /\ t.bits <= LongBits
           /\ t.signed \in BOOLEAN /\ t = IntType(t.bits, t.signed)
           /\ t.bits = 1 <=> t = BoolTy
           /\ t.bits = 1 => t.signed = FALSE
           /\ t.bits # 1 => t \in VariableTypes
  <1>1. CASE t \in VariableTypes
    <2>1. PICK b \in {CharBits, ShortBits, IntBits, LongBits}, s \in BOOLEAN : t = IntType(b, s)
      BY <1>1 DEF VariableTypes
    <2>2. b \in Nat \ {0} /\ b <= LongBits /\ b # 1  BY Widths
    <2> QED  BY <1>1, <2>1, <2>2 DEF IntType, BoolTy
  <1>2. CASE t = BoolTy
    <2>1. 1 <= LongBits  BY Widths
    <2> QED  BY <1>2, <2>1 DEF IntType, BoolTy
  <1> QED  BY <1>1, <1>2 DEF IntTypes

\* Integer types of the same width and sign are the same.
LEMMA SameType ==
    ASSUME NEW t \in IntTypes, NEW u \in IntTypes, t.bits = u.bits, t.signed = u.signed
    PROVE  t = u
  BY TypeFacts

\* The types the code names.
LEMMA NamedTypes ==
    /\ IntTy \in IntTypes /\ IntTy.bits = IntBits /\ IntTy.signed = TRUE
    /\ LongTy \in IntTypes /\ LongTy.bits = LongBits /\ LongTy.signed = TRUE
    /\ BoolTy \in IntTypes /\ BoolTy.bits = 1 /\ BoolTy.signed = FALSE
    /\ IntTy.kind = "int" /\ LongTy.kind = "int" /\ BoolTy.kind = "int"
    /\ VariableTypes \subseteq IntTypes
  <1>1. IntTy \in VariableTypes /\ LongTy \in VariableTypes
    <2>1. IntBits \in {CharBits, ShortBits, IntBits, LongBits}
          /\ LongBits \in {CharBits, ShortBits, IntBits, LongBits} /\ TRUE \in BOOLEAN
      OBVIOUS
    <2> DEFINE W == {CharBits, ShortBits, IntBits, LongBits}
    <2>2. \A b \in W, s \in BOOLEAN : IntType(b, s) \in {IntType(x, y) : x \in W, y \in BOOLEAN}
      OBVIOUS
    <2>3. \A b \in W, s \in BOOLEAN : IntType(b, s) \in VariableTypes  BY <2>2 DEF VariableTypes
    <2>4. IntType(IntBits, TRUE) \in VariableTypes /\ IntType(LongBits, TRUE) \in VariableTypes
      BY <2>1, <2>3
    <2> QED  BY <2>4 DEF IntTy, LongTy
  <1>2. VariableTypes \subseteq IntTypes /\ BoolTy \in IntTypes  BY DEF IntTypes
  <1>3. /\ IntTy.bits = IntBits /\ IntTy.signed = TRUE /\ IntTy.kind = "int"
        /\ LongTy.bits = LongBits /\ LongTy.signed = TRUE /\ LongTy.kind = "int"
        /\ BoolTy.bits = 1 /\ BoolTy.signed = FALSE /\ BoolTy.kind = "int"
    BY DEF IntTy, LongTy, BoolTy, IntType
  <1> QED  BY <1>1, <1>2, <1>3

\* What an integer value is.
LEMMA IntValueFacts ==
    ASSUME NEW v \in IntValues
    PROVE  /\ v.type \in IntTypes /\ v.val \in 0 .. 2^v.type.bits - 1
           /\ v = Value(v.type, v.val) /\ IsInt(v) /\ v.val \in Int /\ v.val # Poison
  <1>1. PICK t \in IntTypes : v \in {Value(t, p) : p \in Patterns(t)}
    BY DEF IntValues, ValuesOf
  <1>2. t.kind = "int" /\ t.bits \in Nat  BY TypeFacts
  <1>3. Patterns(t) = 0 .. 2^t.bits - 1  BY <1>2 DEF Patterns
  <1>4. PICK p \in 0 .. 2^t.bits - 1 : v = Value(t, p)  BY <1>1, <1>3
  <1>5. p \in Int  BY <1>2, PowType
  <1>6. v.type = t /\ v.val = p /\ v = Value(v.type, v.val)  BY <1>4 DEF Value
  <1> QED  BY <1>2, <1>5, <1>6, MarksAssumption DEF IsInt

\* A type and a pattern of it make a value.
LEMMA IntValueIs ==
    ASSUME NEW t \in IntTypes, NEW p \in 0 .. 2^t.bits - 1
    PROVE  /\ Value(t, p) \in IntValues
           /\ Value(t, p).type = t /\ Value(t, p).val = p
  <1>1. p \in Patterns(t)  BY TypeFacts DEF Patterns
  <1>2. Value(t, p) \in {Value(t, q) : q \in Patterns(t)}  BY <1>1
  <1> QED  BY <1>2 DEF IntValues, ValuesOf, Value

\* A value is an integer's or a float's.
LEMMA ValueFacts ==
    ASSUME NEW v \in Values
    PROVE  /\ IsInt(v) => v \in IntValues
           /\ ~IsInt(v) => /\ v.type \in FloatTypes /\ v.type.kind = "float"
                           /\ v.val \in Int \cup {NaN}
                           /\ v = Value(v.type, v.val)
  <1>1. PICK t \in IntTypes \cup FloatTypes : v \in {Value(t, p) : p \in Patterns(t)}
    BY DEF Values, ValuesOf
  <1>2. PICK p \in Patterns(t) : v = Value(t, p)  BY <1>1
  <1>3. v.type = t /\ v.val = p  BY <1>2 DEF Value
  <1>4. CASE t \in IntTypes
    <2>1. v \in IntValues  BY <1>1, <1>4 DEF IntValues, ValuesOf
    <2>2. IsInt(v)  BY <2>1, IntValueFacts
    <2> QED  BY <2>1, <2>2
  <1>5. CASE t \in FloatTypes
    <2>1. t.kind = "float"  BY <1>5 DEF FloatTypes
    <2>2. p \in (-MaxFloat .. MaxFloat) \cup {NaN}  BY <2>1 DEF Patterns
    <2>3. p \in Int \cup {NaN}  BY <2>2, MarksAssumption
    <2> QED  BY <1>2, <1>3, <1>5, <2>1, <2>3 DEF IsInt
  <1> QED  BY <1>4, <1>5

-----------------------------------------------------------------------------
\* The numbers that fit an integer type.
LEMMA FitsFacts ==
    ASSUME NEW t \in IntTypes, NEW n \in Int
    PROVE  /\ 2^t.bits \in Nat \ {0} /\ 2^(t.bits - 1) \in Nat \ {0}
           /\ 2^t.bits = 2 * 2^(t.bits - 1)
           /\ t.signed => (Fits(n, t) <=> -(2^(t.bits - 1)) <= n /\ n < 2^(t.bits - 1))
           /\ ~t.signed => (Fits(n, t) <=> 0 <= n /\ n < 2^t.bits)
  <1>1. t.bits \in Nat \ {0}  BY TypeFacts
  <1>2. 2^t.bits \in Nat \ {0} /\ 2^(t.bits - 1) \in Nat \ {0} /\ 2^t.bits = 2 * 2^(t.bits - 1)
    BY <1>1, PowHalf
  <1> QED  BY <1>2 DEF Fits

\* A type has one number of every class modulo 2^bits.
LEMMA FitsUnique ==
    ASSUME NEW t \in IntTypes, NEW a \in Int, NEW b \in Int,
           Fits(a, t), Fits(b, t), Cong(a, b, 2^t.bits)
    PROVE  a = b
  <1>1. /\ 2^t.bits \in Nat \ {0} /\ 2^(t.bits - 1) \in Nat \ {0}
        /\ 2^t.bits = 2 * 2^(t.bits - 1)
    BY FitsFacts
  <1>2. a - b < 2^t.bits /\ b - a < 2^t.bits
    <2>1. t.signed \in BOOLEAN  BY TypeFacts
    <2>2. CASE t.signed
      <3>1. /\ -(2^(t.bits - 1)) <= a /\ a < 2^(t.bits - 1)
            /\ -(2^(t.bits - 1)) <= b /\ b < 2^(t.bits - 1)
        BY <2>2, FitsFacts
      <3> QED  BY <1>1, <3>1
    <2>3. CASE ~t.signed
      <3>1. 0 <= a /\ a < 2^t.bits /\ 0 <= b /\ b < 2^t.bits  BY <2>3, FitsFacts
      <3> QED  BY <1>1, <3>1
    <2> QED  BY <2>1, <2>2, <2>3
  <1> QED  BY <1>1, <1>2, CongNear

\* Two's complement: the reading of a pattern and its class.
LEMMA SignedFacts ==
    ASSUME NEW b \in Nat \ {0}, NEW p \in 0 .. 2^b - 1
    PROVE  /\ Signed(p, b) \in Int
           /\ -(2^(b - 1)) <= Signed(p, b) /\ Signed(p, b) < 2^(b - 1)
           /\ Cong(Signed(p, b), p, 2^b)
           /\ p < 2^(b - 1) => Signed(p, b) = p
           /\ p >= 2^(b - 1) => Signed(p, b) = p - 2^b
  <1>1. 2^b \in Nat \ {0} /\ 2^(b - 1) \in Nat \ {0} /\ 2^b = 2 * 2^(b - 1)  BY PowHalf
  <1>2. CASE p < 2^(b - 1)
    <2>1. Signed(p, b) = p  BY <1>1, <1>2 DEF Signed
    <2>2. Cong(p, p, 2^b)  BY <1>1, CongRefl
    <2> QED  BY <1>1, <1>2, <2>1, <2>2
  <1>3. CASE p >= 2^(b - 1)
    <2>1. Signed(p, b) = p - 2^b  BY <1>1, <1>3 DEF Signed
    <2>2. p - 2^b = p + (-1) * 2^b  BY <1>1
    <2>3. Cong(p - 2^b, p, 2^b)  BY <2>2 DEF Cong
    <2> QED  BY <1>1, <1>3, <2>1, <2>3
  <1> QED  BY <1>1, <1>2, <1>3

\* The number a pattern stands for fits its type and is congruent to it.
LEMMA NumberFacts ==
    ASSUME NEW t \in IntTypes, NEW p \in 0 .. 2^t.bits - 1
    PROVE  /\ Number(Value(t, p)) = IF t.signed THEN Signed(p, t.bits) ELSE p
           /\ Number(Value(t, p)) \in Int /\ Fits(Number(Value(t, p)), t)
           /\ Cong(Number(Value(t, p)), p, 2^t.bits)
  <1>1. t.kind = "int" /\ t.bits \in Nat \ {0} /\ t.signed \in BOOLEAN  BY TypeFacts
  <1>2. Value(t, p) \in IntValues /\ Value(t, p).type = t /\ Value(t, p).val = p  BY IntValueIs
  <1>3. p \in Int /\ p # Poison /\ IsInt(Value(t, p))  BY <1>2, IntValueFacts
  <1>4. Number(Value(t, p)) = IF t.signed THEN Signed(p, t.bits) ELSE p
    BY <1>2, <1>3 DEF Number
  <1>5. CASE t.signed
    <2>1. Number(Value(t, p)) = Signed(p, t.bits)  BY <1>4, <1>5
    <2> QED  BY <1>1, <1>4, <1>5, <2>1, SignedFacts, FitsFacts
  <1>6. CASE ~t.signed
    <2>1. Number(Value(t, p)) = p  BY <1>4, <1>6
    <2>2. 2^t.bits \in Nat \ {0}  BY FitsFacts
    <2>3. Cong(p, p, 2^t.bits)  BY <1>3, <2>2, CongRefl
    <2>4. Fits(p, t)  BY <1>3, <1>6, <2>2, FitsFacts
    <2> QED  BY <1>3, <1>4, <2>1, <2>3, <2>4
  <1> QED  BY <1>1, <1>5, <1>6

\* The same of a value.
LEMMA NumberOf ==
    ASSUME NEW v \in IntValues
    PROVE  /\ Number(v) = IF v.type.signed THEN Signed(v.val, v.type.bits) ELSE v.val
           /\ Number(v) \in Int /\ Fits(Number(v), v.type)
           /\ Cong(Number(v), v.val, 2^v.type.bits) /\ Cong(v.val, Number(v), 2^v.type.bits)
  <1>1. v.type \in IntTypes /\ v.val \in 0 .. 2^v.type.bits - 1 /\ v = Value(v.type, v.val) /\ v.val \in Int
    BY IntValueFacts
  <1> DEFINE t == v.type
             p == v.val
  <1>2. t \in IntTypes /\ p \in 0 .. 2^t.bits - 1 /\ v = Value(t, p)  BY <1>1
  <1> HIDE DEF t, p
  <1>3. /\ Number(v) = IF t.signed THEN Signed(p, t.bits) ELSE p
        /\ Number(v) \in Int /\ Fits(Number(v), t) /\ Cong(Number(v), p, 2^t.bits)
    BY <1>2, NumberFacts
  <1>4. 2^t.bits \in Int  BY <1>2, FitsFacts
  <1>5. Cong(p, Number(v), 2^t.bits)  BY <1>1, <1>3, <1>4, CongSym DEF p
  <1> QED  BY <1>3, <1>5 DEF t, p

\* The remainder of a number, read in a type.
LEMMA WrappedFacts ==
    ASSUME NEW t \in IntTypes, NEW n \in Int
    PROVE  /\ n % 2^t.bits \in 0 .. 2^t.bits - 1
           /\ Number(Value(t, n % 2^t.bits)) \in Int
           /\ Fits(Number(Value(t, n % 2^t.bits)), t)
           /\ Cong(Number(Value(t, n % 2^t.bits)), n, 2^t.bits)
           /\ CWrap(n, t) = Number(Value(t, n % 2^t.bits))
           /\ Fits(n, t) => CWrap(n, t) = n
  <1> DEFINE m == 2^t.bits
             p == n % m
             k == Number(Value(t, p))
  <1>1. m \in Nat \ {0}  BY FitsFacts
  <1> HIDE DEF m
  <1>2. p \in 0 .. m - 1 /\ Cong(p, n, m)  BY <1>1, CongMod
  <1>3. p \in Int  BY <1>1, <1>2
  <1> HIDE DEF p
  <1>4. /\ k = IF t.signed THEN Signed(p, t.bits) ELSE p
        /\ k \in Int /\ Fits(k, t) /\ Cong(k, p, m)
    BY <1>2, NumberFacts DEF m
  <1> HIDE DEF k
  <1>5. Cong(k, n, m)  BY <1>1, <1>2, <1>3, <1>4, CongTrans
  <1>6. CWrap(n, t) = k  BY <1>4 DEF CWrap, p, m
  <1>7. Fits(n, t) => k = n  BY <1>4, <1>5, FitsUnique DEF m
  <1> QED  BY <1>2, <1>4, <1>5, <1>6, <1>7 DEF m, p, k

-----------------------------------------------------------------------------
(* Conversions between integers.                                           *)

\* An integer extended or truncated by its own sign keeps its number as far as
\* the new type has it; extended by the other sign it keeps its low bits.
LEMMA IntCastFacts ==
    ASSUME NEW v \in IntValues, NEW t \in IntTypes, NEW s \in BOOLEAN
    PROVE  LET p == CreateIntCast(v.val, v.type.bits, t.bits, s)
           IN  /\ p \in 0 .. 2^t.bits - 1
               /\ Cong(p, IF s THEN Signed(v.val, v.type.bits) ELSE v.val, 2^t.bits)
               /\ s = v.type.signed => Cong(p, Number(v), 2^t.bits)
               /\ \A n \in Nat : n <= t.bits /\ n <= v.type.bits => Cong(p, v.val, 2^n)
  <1> DEFINE x == v.val
             b == v.type.bits
             k == IF s THEN Signed(x, b) ELSE x
             m == 2^t.bits
             p == CreateIntCast(x, b, t.bits, s)
  <1>1. v.type \in IntTypes /\ x \in 0 .. 2^b - 1 /\ x \in Int /\ x # Poison  BY IntValueFacts
  <1>2. b \in Nat \ {0} /\ v.type.signed \in BOOLEAN  BY <1>1, TypeFacts
  <1>3. t.bits \in Nat  BY TypeFacts
  <1>4. Number(v) = IF v.type.signed THEN Signed(x, b) ELSE x  BY NumberOf
  <1> HIDE DEF x, b
  <1>5. Signed(x, b) \in Int /\ Cong(Signed(x, b), x, 2^b)  BY <1>1, <1>2, SignedFacts
  <1>6. m \in Nat \ {0} /\ 2^b \in Nat \ {0}  BY <1>2, <1>3, PowType
  <1>7. k \in Int /\ Cong(k, x, 2^b)
    <2>1. Cong(x, x, 2^b)  BY <1>1, <1>6, CongRefl
    <2> QED  BY <1>1, <1>5, <2>1
  <1>8. p = k % m  BY <1>1 DEF CreateIntCast
  <1> HIDE DEF k, m, p
  <1>9. p \in 0 .. m - 1 /\ Cong(p, k, m)  BY <1>6, <1>7, <1>8, CongMod
  <1>10. s = v.type.signed => k = Number(v)  BY <1>2, <1>4 DEF k
  <1>11. ASSUME NEW n \in Nat, n <= t.bits, n <= b  PROVE Cong(p, x, 2^n)
    <2>1. p \in Int  BY <1>6, <1>9
    <2>2. Cong(p, k, 2^n)  BY <1>3, <1>7, <1>9, <1>11, <2>1, CongDown DEF m
    <2>3. Cong(k, x, 2^n)  BY <1>1, <1>2, <1>7, <1>11, CongDown
    <2>4. 2^n \in Int  BY PowType
    <2> QED  BY <1>1, <1>7, <2>1, <2>2, <2>3, <2>4, CongTrans
  <1> QED  BY <1>9, <1>10, <1>11 DEF m, k, p, x, b

-----------------------------------------------------------------------------
\* The type cast_binary_expr brings two integers to.
Balanced(l, r) == IF l.type.bits = r.type.bits
                  THEN IntType(l.type.bits, l.type.signed /\ r.type.signed)
                  ELSE IF l.type.bits < r.type.bits THEN r.type ELSE l.type

\* Each operand becomes a value of that type whose low bits are its own; the
\* right one, and a left one that is not the narrower, keep their number
\* modulo the width.
LEMMA BalanceFacts ==
    ASSUME NEW l \in IntValues, NEW r \in IntValues
    PROVE  LET c == balanceIntegers(l, r)
               t == Balanced(l, r)
           IN  /\ t \in IntTypes /\ l.type.bits <= t.bits /\ r.type.bits <= t.bits
               /\ t.bits \in {l.type.bits, r.type.bits}
               /\ c[1] \in IntValues /\ c[1].type = t
               /\ c[2] \in IntValues /\ c[2].type = t
               /\ Cong(c[1].val, l.val, 2^l.type.bits)
               /\ Cong(c[2].val, Number(r), 2^t.bits)
               /\ l.type.bits >= r.type.bits => Cong(c[1].val, Number(l), 2^t.bits)
               /\ l.type.bits < r.type.bits =>
                     /\ c[1].val = CreateIntCast(l.val, l.type.bits, r.type.bits, r.type.signed)
                     /\ Cong(c[1].val, IF r.type.signed THEN Signed(l.val, l.type.bits) ELSE l.val,
                             2^t.bits)
  <1> DEFINE a == l.type.bits
             b == r.type.bits
             c == balanceIntegers(l, r)
             t == Balanced(l, r)
  <1>1. /\ l.type \in IntTypes /\ r.type \in IntTypes
        /\ l.val \in Int /\ r.val \in Int
        /\ l.val \in 0 .. 2^a - 1 /\ r.val \in 0 .. 2^b - 1
    BY IntValueFacts
  <1>2. /\ a \in Nat \ {0} /\ b \in Nat \ {0} /\ l.type.signed \in BOOLEAN /\ r.type.signed \in BOOLEAN
        /\ l.type = IntType(a, l.type.signed) /\ r.type = IntType(b, r.type.signed)
    BY <1>1, TypeFacts
  <1>3. 2^a \in Nat \ {0} /\ 2^b \in Nat \ {0}  BY <1>2, PowType
  <1>4. /\ Cong(l.val, Number(l), 2^a) /\ Cong(r.val, Number(r), 2^b)
        /\ Cong(l.val, l.val, 2^a)
    BY <1>1, <1>3, NumberOf, CongRefl
  <1>5. CASE a = b
    <2>1. ASSUME NEW v \in IntValues, v.type.bits = a
          PROVE  CreateIntCast(v.val, a, a, FALSE) = v.val
      <3>1. v.val \in 0 .. 2^a - 1 /\ v.val \in Int /\ v.val # Poison  BY <2>1, IntValueFacts
      <3>2. v.val % 2^a = v.val
        <4>1. (2^a * 0 + v.val) % 2^a = v.val  BY <1>3, <3>1, ModIs
        <4>2. 2^a * 0 + v.val = v.val  BY <1>3, <3>1
        <4> QED  BY <4>1, <4>2
      <3> QED  BY <3>1, <3>2 DEF CreateIntCast
    <2>2. l.type.signed = r.type.signed => l.type = r.type /\ t = l.type
      <3>1. ASSUME l.type.signed = r.type.signed  PROVE l.type = r.type /\ t = l.type
        <4>1. (l.type.signed /\ r.type.signed) = l.type.signed  BY <1>2, <3>1
        <4>2. t = IntType(a, l.type.signed)  BY <1>5, <4>1 DEF Balanced
        <4> QED  BY <1>2, <1>5, <3>1, <4>2
      <3> QED  BY <3>1
    <2>3. l.type.signed /\ ~r.type.signed => t = r.type /\ c = <<Value(r.type, l.val), r>>
      <3>1. ASSUME l.type.signed, ~r.type.signed  PROVE t = r.type /\ c = <<Value(r.type, l.val), r>>
        <4>1. (l.type.signed /\ r.type.signed) = FALSE /\ r.type.signed = FALSE  BY <1>2, <3>1
        <4>2. t = IntType(b, FALSE)  BY <1>5, <4>1 DEF Balanced
        <4>3. c = <<Extended(l, r, FALSE), r>>  BY <1>5, <3>1 DEF balanceIntegers
        <4>4. Extended(l, r, FALSE) = Value(r.type, l.val)  BY <1>5, <2>1 DEF Extended
        <4> QED  BY <1>2, <4>1, <4>2, <4>3, <4>4
      <3> QED  BY <3>1
    <2>4. ~l.type.signed /\ r.type.signed => t = l.type /\ c = <<l, Value(l.type, r.val)>>
      <3>1. ASSUME ~l.type.signed, r.type.signed  PROVE t = l.type /\ c = <<l, Value(l.type, r.val)>>
        <4>1. (l.type.signed /\ r.type.signed) = FALSE /\ l.type.signed = FALSE  BY <1>2, <3>1
        <4>2. t = IntType(a, FALSE)  BY <1>5, <4>1 DEF Balanced
        <4>3. c = <<l, Extended(r, l, FALSE)>>  BY <1>5, <3>1 DEF balanceIntegers
        <4>4. Extended(r, l, FALSE) = Value(l.type, r.val)  BY <1>5, <2>1 DEF Extended
        <4> QED  BY <1>2, <4>1, <4>2, <4>3, <4>4
      <3> QED  BY <3>1
    <2>5. l.type.signed = r.type.signed => c = <<l, r>>  BY <1>2, <1>5 DEF balanceIntegers
    <2>6. Value(r.type, l.val) \in IntValues /\ Value(l.type, r.val) \in IntValues
          /\ Value(r.type, l.val).type = r.type /\ Value(l.type, r.val).type = l.type
          /\ Value(r.type, l.val).val = l.val /\ Value(l.type, r.val).val = r.val
      BY <1>1, <1>5, IntValueIs
    <2>7. /\ t \in {l.type, r.type} /\ c[1] \in IntValues /\ c[2] \in IntValues
          /\ c[1].type = t /\ c[2].type = t /\ c[1].val = l.val /\ c[2].val = r.val
      <3>1. CASE l.type.signed = r.type.signed  BY <2>2, <2>5, <3>1
      <3>2. CASE l.type.signed /\ ~r.type.signed  BY <2>3, <2>6, <3>2
      <3>3. CASE ~l.type.signed /\ r.type.signed  BY <2>4, <2>6, <3>3
      <3> QED  BY <1>2, <3>1, <3>2, <3>3
    <2>8. t \in IntTypes /\ t.bits = a  BY <1>1, <1>5, <2>7
    <2> HIDE DEF a, b, c, t
    <2> QED  BY <1>2, <1>4, <1>5, <2>7, <2>8 DEF a, b, c, t
  <1>6. CASE a < b
    <2>1. t = r.type /\ c = <<Extended(l, r, r.type.signed), r>>  BY <1>2, <1>6 DEF Balanced, balanceIntegers
    <2> DEFINE p == CreateIntCast(l.val, a, b, r.type.signed)
    <2>2. Extended(l, r, r.type.signed) = Value(r.type, p)  BY DEF Extended
    <2>3. /\ p \in 0 .. 2^b - 1
          /\ Cong(p, IF r.type.signed THEN Signed(l.val, a) ELSE l.val, 2^b)
          /\ Cong(p, l.val, 2^a)
      <3>1. a \in Nat /\ a <= b  BY <1>2, <1>6
      <3> QED  BY <1>1, <1>2, <3>1, IntCastFacts
    <2>4. Value(r.type, p) \in IntValues /\ Value(r.type, p).type = r.type /\ Value(r.type, p).val = p
      BY <1>1, <2>3, IntValueIs
    <2>5. c[1] = Value(r.type, p) /\ c[2] = r  BY <2>1, <2>2
    <2>6. a <= b /\ ~(a >= b) /\ b <= b  BY <1>2, <1>6
    <2> HIDE DEF p
    <2> HIDE DEF c, t
    <2> QED  BY <1>1, <1>4, <1>6, <2>1, <2>3, <2>4, <2>5, <2>6 DEF c, t, p
  <1>7. CASE a > b
    <2>1. t = l.type /\ c = <<l, Extended(r, l, r.type.signed)>>  BY <1>2, <1>7 DEF Balanced, balanceIntegers
    <2> DEFINE p == CreateIntCast(r.val, b, a, r.type.signed)
    <2>2. Extended(r, l, r.type.signed) = Value(l.type, p)  BY DEF Extended
    <2>3. p \in 0 .. 2^a - 1 /\ Cong(p, Number(r), 2^a)  BY <1>1, <1>2, IntCastFacts
    <2>4. Value(l.type, p) \in IntValues /\ Value(l.type, p).type = l.type /\ Value(l.type, p).val = p
      BY <1>1, <2>3, IntValueIs
    <2>5. c[1] = l /\ c[2] = Value(l.type, p)  BY <2>1, <2>2
    <2>6. a <= a /\ ~(a < b) /\ b <= a  BY <1>2, <1>7
    <2> HIDE DEF p
    <2> HIDE DEF c, t
    <2> QED  BY <1>1, <1>4, <1>7, <2>1, <2>3, <2>4, <2>5, <2>6 DEF c, t, p
  <1> QED  BY <1>2, <1>5, <1>6, <1>7

-----------------------------------------------------------------------------
(* C's common type.                                                        *)

\* A number of a narrower type fits a wider one that is signed, or if it is
\* not negative.
LEMMA FitsWider ==
    ASSUME NEW t \in IntTypes, NEW u \in IntTypes, NEW n \in Int, Fits(n, t),
           t.bits < u.bits, u.signed \/ n >= 0
    PROVE  Fits(n, u)
  <1>1. /\ t.bits \in Nat \ {0} /\ u.bits \in Nat \ {0} /\ u.bits - 1 \in Nat
        /\ t.bits <= u.bits - 1 /\ t.signed \in BOOLEAN /\ u.signed \in BOOLEAN
    <2>1. t.bits \in Nat \ {0} /\ u.bits \in Nat \ {0} /\ t.signed \in BOOLEAN /\ u.signed \in BOOLEAN
      BY TypeFacts
    <2> QED  BY <2>1
  <1>2. 2^t.bits <= 2^(u.bits - 1)  BY <1>1, PowDivides
  <1>3. /\ 2^t.bits \in Nat \ {0} /\ 2^(t.bits - 1) \in Nat \ {0} /\ 2^t.bits = 2 * 2^(t.bits - 1)
        /\ 2^u.bits \in Nat \ {0} /\ 2^(u.bits - 1) \in Nat \ {0} /\ 2^u.bits = 2 * 2^(u.bits - 1)
    BY FitsFacts
  <1>4. -(2^t.bits) < n /\ n < 2^t.bits
    <2>1. CASE t.signed
      <3>1. -(2^(t.bits - 1)) <= n /\ n < 2^(t.bits - 1)  BY <2>1, FitsFacts
      <3> QED  BY <1>3, <3>1
    <2>2. CASE ~t.signed
      <3>1. 0 <= n /\ n < 2^t.bits  BY <2>2, FitsFacts
      <3> QED  BY <1>3, <3>1
    <2> QED  BY <1>1, <2>1, <2>2
  <1>5. CASE u.signed
    <2>1. -(2^(u.bits - 1)) <= n /\ n < 2^(u.bits - 1)  BY <1>2, <1>3, <1>4
    <2> QED  BY <1>5, <2>1, FitsFacts
  <1>6. CASE ~u.signed
    <2>1. 0 <= n /\ n < 2^u.bits  BY <1>2, <1>3, <1>4, <1>6
    <2> QED  BY <1>6, <2>1, FitsFacts
  <1> QED  BY <1>1, <1>5, <1>6

\* Promotion keeps every number.
LEMMA PromoteFacts ==
    ASSUME NEW t \in IntTypes
    PROVE  /\ CPromote(t) \in IntTypes /\ t.bits <= CPromote(t).bits
           /\ t.bits < IntBits => CPromote(t) = IntTy
           /\ t.bits >= IntBits => CPromote(t) = t
           /\ \A n \in Int : Fits(n, t) => Fits(n, CPromote(t))
  <1>1. t.kind = "int" /\ t.bits \in Nat /\ IntBits \in Nat  BY TypeFacts, Widths
  <1>2. IntTy \in IntTypes /\ IntTy.bits = IntBits /\ IntTy.signed  BY NamedTypes
  <1>3. CASE t.bits < IntBits
    <2>1. CPromote(t) = IntTy  BY <1>1, <1>3 DEF CPromote
    <2>2. \A n \in Int : Fits(n, t) => Fits(n, IntTy)  BY <1>2, <1>3, FitsWider
    <2> QED  BY <1>1, <1>2, <1>3, <2>1, <2>2
  <1>4. CASE t.bits >= IntBits
    <2>1. CPromote(t) = t  BY <1>1, <1>4 DEF CPromote
    <2> QED  BY <1>1, <1>4, <2>1
  <1> QED  BY <1>1, <1>3, <1>4

\* C's common type is the code's, except that two narrow operands meet in int.
LEMMA CommonFacts ==
    ASSUME NEW l \in IntValues, NEW r \in IntValues
    PROVE  LET t == CCommon(l.type, r.type)
               u == Balanced(l, r)
           IN  /\ t \in IntTypes /\ u.bits <= t.bits
               /\ l.type.bits <= t.bits /\ r.type.bits <= t.bits
               /\ ~(Narrow(l) /\ Narrow(r)) => t = u
               /\ Narrow(l) /\ Narrow(r) => t = IntTy
  <1> DEFINE a == l.type.bits
             b == r.type.bits
             t == CCommon(l.type, r.type)
             u == Balanced(l, r)
             pl == CPromote(l.type)
             pr == CPromote(r.type)
  <1>1. l.type \in IntTypes /\ r.type \in IntTypes  BY IntValueFacts
  <1>2. /\ a \in Nat /\ b \in Nat /\ l.type.signed \in BOOLEAN /\ r.type.signed \in BOOLEAN
        /\ l.type = IntType(a, l.type.signed) /\ r.type = IntType(b, r.type.signed)
        /\ IntBits \in Nat
    BY <1>1, TypeFacts, Widths
  <1>3. /\ IntTy \in IntTypes /\ IntTy.bits = IntBits /\ IntTy.signed = TRUE
        /\ IntTy = IntType(IntBits, TRUE)
    BY NamedTypes DEF IntTy
  <1>4. /\ a < IntBits => pl = IntTy
        /\ a >= IntBits => pl = l.type
        /\ b < IntBits => pr = IntTy
        /\ b >= IntBits => pr = r.type
        /\ pl \in IntTypes /\ pr \in IntTypes
    BY <1>1, PromoteFacts
  <1>5. pl.kind = "int" /\ pr.kind = "int"  BY <1>4, TypeFacts
  <1>6. "int" # "float"  OBVIOUS
  <1>7. t = IF pl.bits # pr.bits THEN IF pl.bits < pr.bits THEN pr ELSE pl
            ELSE IntType(pl.bits, pl.signed /\ pr.signed)
    BY <1>5, <1>6 DEF CCommon
  <1>8. u \in IntTypes /\ a <= u.bits /\ b <= u.bits /\ u.bits \in {a, b}  BY BalanceFacts
  <1> HIDE DEF pl, pr, t
  <1>9. CASE a < IntBits /\ b < IntBits
    <2>1. t = IntTy
      <3>1. pl = IntTy /\ pr = IntTy  BY <1>4, <1>9
      <3>2. (pl.signed /\ pr.signed) = TRUE  BY <1>3, <3>1
      <3> QED  BY <1>3, <1>7, <3>1, <3>2
    <2>2. u.bits <= IntBits /\ a <= IntBits /\ b <= IntBits  BY <1>2, <1>8, <1>9
    <2>3. Narrow(l) /\ Narrow(r)  BY <1>9 DEF Narrow
    <2> HIDE DEF u
    <2> QED  BY <1>3, <2>1, <2>2, <2>3 DEF t, u
  <1>10. CASE a >= IntBits \/ b >= IntBits
    <2>1. t = u
      <3>1. CASE a = b
        <4>1. pl = l.type /\ pr = r.type  BY <1>2, <1>4, <1>10, <3>1
        <4> QED  BY <1>7, <3>1, <4>1 DEF Balanced
      <3>2. CASE a < b
        <4>1. pr = r.type /\ b >= IntBits  BY <1>2, <1>4, <1>10, <3>2
        <4>2. u = r.type  BY <1>2, <3>2 DEF Balanced
        <4>3. CASE pl.bits = b
          <5>1. a < IntBits  BY <1>2, <1>4, <3>2, <4>3
          <5>2. pl = IntTy /\ b = IntBits  BY <1>3, <1>4, <5>1, <4>3
          <5>3. (pl.signed /\ pr.signed) = r.type.signed  BY <1>2, <1>3, <4>1, <5>2
          <5> QED  BY <1>2, <1>3, <1>7, <4>1, <4>2, <5>2, <5>3
        <4>4. CASE pl.bits # b
          <5>1. pl.bits < b
            <6>1. CASE a < IntBits
              <7>1. pl.bits = IntBits  BY <1>3, <1>4, <6>1
              <7> QED  BY <1>2, <4>1, <4>4, <7>1
            <6>2. CASE a >= IntBits
              <7>1. pl.bits = a  BY <1>4, <6>2
              <7> QED  BY <3>2, <7>1
            <6> QED  BY <1>2, <6>1, <6>2
          <5> QED  BY <1>7, <4>1, <4>2, <4>4, <5>1
        <4> QED  BY <4>3, <4>4
      <3>3. CASE a > b
        <4>1. pl = l.type /\ a >= IntBits  BY <1>2, <1>4, <1>10, <3>3
        <4>2. u = l.type  BY <1>2, <3>3 DEF Balanced
        <4>3. CASE pr.bits = a
          <5>1. b < IntBits  BY <1>2, <1>4, <3>3, <4>3
          <5>2. pr = IntTy /\ a = IntBits  BY <1>3, <1>4, <5>1, <4>3
          <5>3. (pl.signed /\ pr.signed) = l.type.signed  BY <1>2, <1>3, <4>1, <5>2
          <5> QED  BY <1>2, <1>3, <1>7, <4>1, <4>2, <5>2, <5>3
        <4>4. CASE pr.bits # a
          <5>1. pr.bits < a
            <6>1. CASE b < IntBits
              <7>1. pr.bits = IntBits  BY <1>3, <1>4, <6>1
              <7> QED  BY <1>2, <4>1, <4>4, <7>1
            <6>2. CASE b >= IntBits
              <7>1. pr.bits = b  BY <1>4, <6>2
              <7> QED  BY <1>2, <3>3, <7>1
            <6> QED  BY <1>2, <6>1, <6>2
          <5>2. ~(a < pr.bits)
            <6>1. pr.bits \in Nat  BY <1>4, TypeFacts
            <6> QED  BY <1>2, <5>1, <6>1
          <5> QED  BY <1>7, <4>1, <4>2, <4>4, <5>2
        <4> QED  BY <4>3, <4>4
      <3> QED  BY <1>2, <3>1, <3>2, <3>3
    <2>2. ~(Narrow(l) /\ Narrow(r))  BY <1>2, <1>10 DEF Narrow
    <2>3. u.bits <= u.bits
      <3>1. u.bits \in Nat  BY <1>2, <1>8
      <3> QED  BY <3>1
    <2> QED  BY <1>8, <2>1, <2>2, <2>3 DEF t
  <1> QED  BY <1>2, <1>9, <1>10

-----------------------------------------------------------------------------
\* The number of a converted operand is C's exactly if it is congruent to the
\* operand's number in C's type.
LEMMA ConvertedIs ==
    ASSUME NEW v \in IntValues, NEW n \in Int, Cong(v.val, n, 2^v.type.bits),
           Fits(n, v.type)
    PROVE  Number(v) = n
  <1>1. /\ v.type \in IntTypes /\ v.val \in Int
        /\ Number(v) \in Int /\ Fits(Number(v), v.type) /\ Cong(Number(v), v.val, 2^v.type.bits)
    BY IntValueFacts, NumberOf
  <1>2. 2^v.type.bits \in Int  BY <1>1, FitsFacts
  <1>3. Cong(Number(v), n, 2^v.type.bits)  BY <1>1, <1>2, CongTrans
  <1> QED  BY <1>1, <1>3, FitsUnique

\* A value whose pattern is congruent to n stands for n wrapped to its type.
LEMMA WrappedIs ==
    ASSUME NEW v \in IntValues, NEW n \in Int, Cong(v.val, n, 2^v.type.bits)
    PROVE  Number(v) = CWrap(n, v.type)
  <1>1. /\ v.type \in IntTypes /\ v.val \in Int
        /\ Number(v) \in Int /\ Fits(Number(v), v.type) /\ Cong(Number(v), v.val, 2^v.type.bits)
    BY IntValueFacts, NumberOf
  <1> DEFINE m == 2^v.type.bits
             w == CWrap(n, v.type)
  <1>2. m \in Int  BY <1>1, FitsFacts
  <1>3. w \in Int /\ Fits(w, v.type) /\ Cong(w, n, m)  BY <1>1, WrappedFacts
  <1> HIDE DEF m, w
  <1>4. Cong(Number(v), n, m)  BY <1>1, <1>2, CongTrans DEF m
  <1>5. Cong(n, w, m)  BY <1>2, <1>3, CongSym
  <1>6. Cong(Number(v), w, m)  BY <1>1, <1>2, <1>3, <1>4, <1>5, CongTrans
  <1> QED  BY <1>1, <1>3, <1>6, FitsUnique DEF m, w

\* Wrapping sees the class only.
LEMMA WrapCong ==
    ASSUME NEW t \in IntTypes, NEW n \in Int, NEW k \in Int, Cong(n, k, 2^t.bits)
    PROVE  CWrap(n, t) = CWrap(k, t)
  <1>1. 2^t.bits \in Nat \ {0}  BY FitsFacts
  <1>2. n % 2^t.bits = k % 2^t.bits  BY <1>1, CongModEq
  <1> QED  BY <1>2 DEF CWrap

-----------------------------------------------------------------------------
(* ConversionsAreC for two integers.                                       *)

\* A number is negative exactly if its type is signed and its top bit set.
LEMMA SignFacts ==
    ASSUME NEW v \in IntValues
    PROVE  /\ TopBit(v) \in BOOLEAN
           /\ v.type.signed /\ TopBit(v) => Number(v) = v.val - 2^v.type.bits /\ Number(v) < 0
           /\ ~v.type.signed \/ ~TopBit(v) => Number(v) = v.val /\ Number(v) >= 0
           /\ TopBit(v) => Signed(v.val, v.type.bits) = v.val - 2^v.type.bits
           /\ ~TopBit(v) => Signed(v.val, v.type.bits) = v.val
  <1> DEFINE p == v.val
             b == v.type.bits
  <1>1. v.type \in IntTypes /\ p \in 0 .. 2^b - 1 /\ p \in Int  BY IntValueFacts
  <1>2. b \in Nat \ {0} /\ v.type.signed \in BOOLEAN  BY <1>1, TypeFacts
  <1>3. 2^b \in Nat \ {0} /\ 2^(b - 1) \in Nat \ {0}  BY <1>2, PowHalf
  <1>4. /\ p < 2^(b - 1) => Signed(p, b) = p
        /\ p >= 2^(b - 1) => Signed(p, b) = p - 2^b
    BY <1>1, <1>2, SignedFacts
  <1>5. TopBit(v) <=> p >= 2^(b - 1)  BY DEF TopBit
  <1>6. ~TopBit(v) <=> p < 2^(b - 1)  BY <1>1, <1>3, <1>5
  <1>7. Number(v) = IF v.type.signed THEN Signed(p, b) ELSE p  BY NumberOf
  <1>8. p >= 0 /\ p - 2^b < 0  BY <1>1, <1>3
  <1>9. TopBit(v) \in BOOLEAN  BY DEF TopBit
  <1> HIDE DEF p, b
  <1>10. /\ TopBit(v) => Signed(p, b) = p - 2^b
         /\ ~TopBit(v) => Signed(p, b) = p
    BY <1>4, <1>5, <1>6
  <1>11. v.type.signed /\ TopBit(v) => Number(v) = p - 2^b /\ Number(v) < 0
    BY <1>7, <1>8, <1>10
  <1>12. ~v.type.signed \/ ~TopBit(v) => Number(v) = p /\ Number(v) >= 0
    BY <1>7, <1>8, <1>10
  <1> QED  BY <1>9, <1>10, <1>11, <1>12 DEF p, b

\* It stands for n itself exactly if n fits.
LEMMA ConvertedIff ==
    ASSUME NEW v \in IntValues, NEW n \in Int, Cong(v.val, n, 2^v.type.bits)
    PROVE  Number(v) = n <=> Fits(n, v.type)
  BY ConvertedIs, NumberOf

\* The first half of ConversionsAreC, as a fact about two values.
LEMMA IntsConverted ==
    ASSUME NEW l \in IntValues, NEW r \in IntValues
    PROVE  ConvertedAsC(l, r) <=> ~(WrongExtension(l, r) \/ LostSign(l, r))
  <1> DEFINE a == l.type.bits
             b == r.type.bits
             sl == l.type.signed
             sr == r.type.signed
             x == Number(l)
             y == Number(r)
             c == balanceIntegers(l, r)
             t == CCommon(l.type, r.type)
             u == Balanced(l, r)
             k == IF sr THEN Signed(l.val, a) ELSE l.val
  <1>1. /\ l.type \in IntTypes /\ r.type \in IntTypes /\ l.val \in Int
        /\ x \in Int /\ y \in Int /\ Fits(x, l.type) /\ Fits(y, r.type)
    BY IntValueFacts, NumberOf
  <1>2. /\ a \in Nat \ {0} /\ b \in Nat \ {0} /\ IntBits \in Nat /\ sl \in BOOLEAN /\ sr \in BOOLEAN
        /\ l.type = IntType(a, sl) /\ r.type = IntType(b, sr)
    BY <1>1, TypeFacts, Widths
  <1>3. /\ u \in IntTypes /\ c[1] \in IntValues /\ c[1].type = u /\ c[2] \in IntValues /\ c[2].type = u
        /\ Cong(c[2].val, y, 2^u.bits)
        /\ a >= b => Cong(c[1].val, x, 2^u.bits)
        /\ a < b => Cong(c[1].val, k, 2^u.bits)
    BY BalanceFacts
  <1>4. /\ ~(Narrow(l) /\ Narrow(r)) => t = u
        /\ Narrow(l) /\ Narrow(r) => t = IntTy
    BY CommonFacts
  <1>5. ConvertedAsC(l, r) <=> Number(c[1]) = CWrap(x, t) /\ Number(c[2]) = CWrap(y, t)
    BY DEF ConvertedAsC
  <1>6. WrongExtension(l, r) <=> a < b /\ sl # sr /\ TopBit(l)  BY DEF WrongExtension
  <1>7. LostSign(l, r) <=> Narrow(l) /\ Narrow(r) /\ ~u.signed /\ (x < 0 \/ y < 0)
    BY <1>3 DEF LostSign
  <1>8. u = IF a = b THEN IntType(a, sl /\ sr) ELSE IF a < b THEN r.type ELSE l.type  BY DEF Balanced
  <1>9. /\ TopBit(l) \in BOOLEAN
        /\ sl /\ TopBit(l) => x = l.val - 2^a /\ x < 0
        /\ ~sl \/ ~TopBit(l) => x = l.val /\ x >= 0
        /\ TopBit(l) => Signed(l.val, a) = l.val - 2^a
        /\ ~TopBit(l) => Signed(l.val, a) = l.val
        /\ ~sr => y >= 0
    BY SignFacts
  <1>10. 2^a \in Nat \ {0} /\ 2^b \in Nat \ {0} /\ (a < b => 2 * 2^a <= 2^b)
    BY <1>2, PowType, PowDivides
  <1>11. k \in Int /\ (k = x <=> ~(sl # sr /\ TopBit(l)))
         /\ (k # x => k - x < 2 * 2^a /\ x - k < 2 * 2^a)
    <2>1. l.val \in Int /\ l.val - 2^a \in Int /\ l.val # l.val - 2^a  BY <1>1, <1>10
    <2>2. CASE TopBit(l)
      <3>1. x = IF sl THEN l.val - 2^a ELSE l.val  BY <1>2, <1>9, <2>2
      <3>2. k = IF sr THEN l.val - 2^a ELSE l.val  BY <1>2, <1>9, <2>2
      <3> HIDE DEF x, k, a, sl, sr
      <3>3. k \in Int /\ (k = x <=> sl = sr)  BY <1>2, <2>1, <3>1, <3>2
      <3>4. k - x < 2 * 2^a /\ x - k < 2 * 2^a  BY <1>2, <1>10, <2>1, <3>1, <3>2
      <3> QED  BY <2>2, <3>3, <3>4
    <2>3. CASE ~TopBit(l)
      <3>1. x = l.val /\ k = l.val  BY <1>2, <1>9, <2>3
      <3> QED  BY <2>1, <2>3, <3>1
    <2> QED  BY <1>9, <2>2, <2>3
  <1> HIDE DEF x, y, c, t, u, k, a, b, sl, sr
  <1>12. CASE ~(Narrow(l) /\ Narrow(r))
    <2>1. t = u /\ ~LostSign(l, r)  BY <1>4, <1>7, <1>12
    <2>2. Number(c[2]) = CWrap(y, u)  BY <1>1, <1>3, WrappedIs
    <2>3. CASE a >= b
      <3>1. Number(c[1]) = CWrap(x, u)  BY <1>1, <1>3, <2>3, WrappedIs
      <3>2. ~(a < b)  BY <1>2, <2>3
      <3> QED  BY <1>5, <1>6, <2>1, <2>2, <3>1, <3>2
    <2>4. CASE a < b
      <3>1. u = r.type /\ u.bits = b  BY <1>2, <1>8, <2>4 DEF b
      <3>2. Number(c[1]) = CWrap(k, u)  BY <1>3, <1>11, <2>4, WrappedIs
      <3>3. ASSUME CWrap(k, u) = CWrap(x, u)  PROVE k = x
        <4>1. /\ CWrap(k, u) \in Int /\ Cong(CWrap(k, u), k, 2^b)
              /\ Cong(CWrap(x, u), x, 2^b)
          BY <1>1, <1>3, <1>11, <3>1, WrappedFacts
        <4>2. 2^b \in Int  BY <1>10
        <4>3. Cong(k, CWrap(k, u), 2^b)  BY <1>11, <4>1, <4>2, CongSym
        <4>4. Cong(k, x, 2^b)  BY <1>1, <1>11, <3>3, <4>1, <4>2, <4>3, CongTrans
        <4>5. k # x => k - x < 2^b /\ x - k < 2^b  BY <1>1, <1>10, <1>11, <2>4
        <4> QED  BY <1>1, <1>10, <1>11, <4>4, <4>5, CongNear
      <3> QED  BY <1>5, <1>6, <1>11, <2>1, <2>2, <2>4, <3>2, <3>3
    <2> QED  BY <1>2, <2>3, <2>4
  <1>13. CASE Narrow(l) /\ Narrow(r)
    <2>1. t = IntTy /\ a < IntBits /\ b < IntBits  BY <1>4, <1>13 DEF Narrow, a, b
    <2>2. IntTy \in IntTypes /\ IntTy.bits = IntBits /\ IntTy.signed  BY NamedTypes
    <2>3. CWrap(x, t) = x /\ CWrap(y, t) = y
      <3>1. Fits(x, IntTy)  BY <1>1, <2>1, <2>2, FitsWider DEF a
      <3>2. Fits(y, IntTy)  BY <1>1, <2>1, <2>2, FitsWider DEF b
      <3> QED  BY <1>1, <2>1, <2>2, <3>1, <3>2, WrappedFacts
    <2>4. ConvertedAsC(l, r) <=> Number(c[1]) = x /\ Number(c[2]) = y  BY <1>5, <2>3
    <2>5. Number(c[2]) = y <=> Fits(y, u)  BY <1>1, <1>3, ConvertedIff
    <2>6. LostSign(l, r) <=> ~u.signed /\ (x < 0 \/ y < 0)  BY <1>7, <1>13
    <2>7. CASE a = b
      <3>1. Number(c[1]) = x <=> Fits(x, u)  BY <1>1, <1>2, <1>3, <2>7, ConvertedIff
      <3>2. ~WrongExtension(l, r)  BY <1>2, <1>6, <2>7
      <3>3. u.bits = a /\ u.signed = (sl /\ sr) /\ u = IntType(a, sl /\ sr)
        BY <1>8, <2>7 DEF IntType
      <3>4. CASE sl /\ sr
        <4>1. (sl /\ sr) = TRUE /\ sl = TRUE /\ sr = TRUE  BY <1>2, <3>4
        <4>2. u = l.type /\ u = r.type  BY <1>2, <2>7, <3>3, <4>1
        <4> QED  BY <1>1, <2>4, <2>5, <2>6, <3>1, <3>2, <3>3, <4>1, <4>2
      <3>5. CASE ~(sl /\ sr)
        <4>1. ~u.signed  BY <3>3, <3>5
        <4>2. x < 2^a /\ y < 2^a
          <5>1. ASSUME NEW n \in Int, NEW w \in IntTypes, w.bits = a, Fits(n, w)  PROVE n < 2^a
            <6>1. w.signed \in BOOLEAN  BY TypeFacts
            <6>2. CASE w.signed
              <7>1. n < 2^(a - 1) /\ 2^a = 2 * 2^(a - 1) /\ 2^(a - 1) \in Nat
                BY <5>1, <6>2, FitsFacts
              <7> QED  BY <7>1
            <6>3. CASE ~w.signed  BY <5>1, <6>3, FitsFacts
            <6> QED  BY <6>1, <6>2, <6>3
          <5>2. l.type.bits = a /\ r.type.bits = a  BY <2>7 DEF a, b
          <5> QED  BY <1>1, <5>1, <5>2
        <4>3. (Fits(x, u) <=> x >= 0) /\ (Fits(y, u) <=> y >= 0)
          BY <1>1, <1>3, <1>10, <3>3, <4>1, <4>2, FitsFacts
        <4>4. (x >= 0 <=> ~(x < 0)) /\ (y >= 0 <=> ~(y < 0))  BY <1>1
        <4> QED  BY <2>4, <2>5, <2>6, <3>1, <3>2, <4>1, <4>3, <4>4
      <3> QED  BY <3>4, <3>5
    <2>8. CASE a < b
      <3>1. u = r.type /\ u.bits = b /\ u.signed = sr  BY <1>2, <1>8, <2>8 DEF b, sr
      <3>2. Number(c[2]) = y  BY <1>1, <2>5, <3>1
      <3>3. Fits(k, u)
        <4>1. a <= b - 1 /\ b - 1 \in Nat /\ a \in Nat  BY <1>2, <2>8
        <4>2. 2^a <= 2^(b - 1)  BY <4>1, PowDivides
        <4>3. l.val \in 0 .. 2^a - 1  BY IntValueFacts DEF a
        <4>4. /\ -(2^(a - 1)) <= Signed(l.val, a) /\ Signed(l.val, a) < 2^(a - 1)
              /\ Signed(l.val, a) \in Int /\ 2^(a - 1) \in Nat /\ 2^a = 2 * 2^(a - 1)
          BY <1>2, <4>3, SignedFacts, PowHalf
        <4>5. 2^(b - 1) \in Nat /\ 2^b = 2 * 2^(b - 1)  BY <1>2, PowHalf
        <4>6. CASE sr
          <5>1. k = Signed(l.val, a)  BY <4>6 DEF k
          <5>2. -(2^(b - 1)) <= k /\ k < 2^(b - 1)  BY <4>2, <4>4, <4>5, <5>1
          <5> QED  BY <1>3, <1>11, <3>1, <4>6, <5>2, FitsFacts
        <4>7. CASE ~sr
          <5>1. k = l.val  BY <4>7 DEF k
          <5>2. 0 <= k /\ k < 2^b  BY <1>10, <2>8, <4>3, <5>1
          <5> QED  BY <1>3, <1>11, <3>1, <4>7, <5>2, FitsFacts
        <4> QED  BY <1>2, <4>6, <4>7
      <3>4. Number(c[1]) = k  BY <1>3, <1>11, <2>8, <3>3, ConvertedIff
      <3>5. LostSign(l, r) => WrongExtension(l, r)
        <4>1. ASSUME LostSign(l, r)  PROVE WrongExtension(l, r)
          <5>1. ~sr /\ (x < 0 \/ y < 0)  BY <2>6, <3>1, <4>1
          <5>2. y >= 0  BY <1>9, <5>1
          <5>3. x < 0  BY <1>1, <5>1, <5>2
          <5>4. sl /\ TopBit(l)  BY <1>1, <1>2, <1>9, <5>3
          <5> QED  BY <1>6, <2>8, <5>1, <5>4
        <4> QED  BY <4>1
      <3> QED  BY <1>6, <1>11, <2>4, <2>8, <3>2, <3>4, <3>5
    <2>9. CASE a > b
      <3>1. u = l.type /\ u.bits = a /\ u.signed = sl /\ ~(a < b) /\ a >= b
        BY <1>2, <1>8, <2>9 DEF a, sl
      <3>2. Number(c[1]) = x  BY <1>1, <1>3, <3>1, ConvertedIff
      <3>3. Fits(y, u) <=> sl \/ y >= 0
        <4>1. sl \/ y >= 0 => Fits(y, u)
          <5>1. r.type.bits < u.bits /\ u.bits = a  BY <2>9, <3>1 DEF b
          <5> QED  BY <1>1, <1>3, <3>1, <5>1, FitsWider
        <4>2. ~sl => (Fits(y, u) => y >= 0)  BY <1>1, <1>3, <3>1, FitsFacts
        <4> QED  BY <4>1, <4>2
      <3>4. ~sl => x >= 0  BY <1>9
      <3>5. (x >= 0 => ~(x < 0)) /\ (y >= 0 <=> ~(y < 0))  BY <1>1
      <3>6. ~WrongExtension(l, r)  BY <1>6, <3>1
      <3> QED  BY <2>4, <2>5, <2>6, <3>1, <3>2, <3>3, <3>4, <3>5, <3>6
    <2> QED  BY <1>2, <2>7, <2>8, <2>9
  <1> QED  BY <1>12, <1>13

-----------------------------------------------------------------------------
(* QualifiedValue::cast.                                                   *)

\* A pattern of bool is the number it stands for.
LEMMA BoolValue ==
    ASSUME NEW p \in {0, 1}
    PROVE  /\ Value(BoolTy, p) \in IntValues /\ Number(Value(BoolTy, p)) = p
           /\ Value(BoolTy, p).type = BoolTy /\ Value(BoolTy, p).val = p
  <1>1. BoolTy \in IntTypes /\ BoolTy.bits = 1 /\ BoolTy.signed = FALSE /\ 2^1 = 2
    BY NamedTypes, PowBase
  <1>2. p \in 0 .. 2^BoolTy.bits - 1  BY <1>1
  <1> QED  BY <1>1, <1>2, IntValueIs, NumberFacts

\* Between integer types cast gives the number C gives.
LEMMA IntCastAsC ==
    ASSUME NEW v \in IntValues, NEW t \in IntTypes
    PROVE  /\ cast(v, t) \in IntValues /\ cast(v, t).type = t
           /\ Number(cast(v, t)) = CConvertInt(Number(v), v.type, t)
           /\ t.bits # 1 => Number(cast(v, t)) = CWrap(Number(v), t)
           /\ t.bits = 1 => Number(cast(v, t)) = IF Number(v) = 0 THEN 0 ELSE 1
  <1> DEFINE n == Number(v)
             b == v.type.bits
             c == cast(v, t)
  <1>1. /\ v.type \in IntTypes /\ v.val \in Int /\ v.val \in 0 .. 2^b - 1 /\ IsInt(v)
        /\ n \in Int /\ Fits(n, v.type)
    BY IntValueFacts, NumberOf
  <1>2. t.kind = "int" /\ v.type.kind = "int" /\ v.type.signed \in BOOLEAN
        /\ b \in Nat \ {0} /\ 2^b \in Nat \ {0}
    BY <1>1, TypeFacts, PowType
  <1>3. CConvertInt(n, v.type, t) = IF t.bits = 1 THEN IF n = 0 THEN 0 ELSE 1 ELSE CWrap(n, t)
    BY <1>2 DEF CConvertInt
  <1>4. c = IF t = v.type THEN v
            ELSE IF t.bits = 1 THEN Value(t, IF v.val = 0 THEN 0 ELSE 1)
            ELSE Value(t, CreateIntCast(v.val, b, t.bits, v.type.signed))
    BY <1>1, <1>2 DEF cast
  <1>5. n = 0 <=> v.val = 0
    <2>1. n = v.val \/ (n < 0 /\ TopBit(v))  BY <1>2, SignFacts
    <2>2. TopBit(v) => v.val >= 2^(b - 1)  BY DEF TopBit
    <2>3. 2^(b - 1) \in Nat \ {0}  BY <1>2, PowHalf
    <2> QED  BY <1>1, <2>1, <2>2, <2>3
  <1> HIDE DEF n, c
  <1>6. CASE t.bits = 1
    <2>1. t = BoolTy  BY <1>6, TypeFacts
    <2>2. c \in IntValues /\ c.type = t /\ Number(c) = IF v.val = 0 THEN 0 ELSE 1
      <3>1. CASE t = v.type
        <4>1. c = v  BY <1>4, <3>1
        <4>2. v.val \in {0, 1}
          <5>1. b = 1 /\ 2^1 = 2  BY <1>6, <3>1, PowBase
          <5> QED  BY <1>1, <5>1
        <4>3. v = Value(BoolTy, v.val)  BY <2>1, <3>1, IntValueFacts
        <4>4. Number(v) = v.val  BY <4>2, <4>3, BoolValue
        <4> QED  BY <3>1, <4>1, <4>2, <4>4
      <3>2. CASE t # v.type
        <4>1. c = Value(BoolTy, IF v.val = 0 THEN 0 ELSE 1)  BY <1>4, <1>6, <2>1, <3>2
        <4>2. (IF v.val = 0 THEN 0 ELSE 1) \in {0, 1}  OBVIOUS
        <4> QED  BY <2>1, <4>1, <4>2, BoolValue
      <3> QED  BY <3>1, <3>2
    <2>3. Number(c) = IF n = 0 THEN 0 ELSE 1  BY <1>5, <2>2
    <2> QED  BY <1>3, <1>6, <2>2, <2>3 DEF c, n
  <1>7. CASE t.bits # 1
    <2>1. c \in IntValues /\ c.type = t /\ Cong(c.val, n, 2^t.bits)
      <3>1. CASE t = v.type  BY <1>4, <3>1, NumberOf DEF n
      <3>2. CASE t # v.type
        <4> DEFINE p == CreateIntCast(v.val, b, t.bits, v.type.signed)
        <4>1. c = Value(t, p)  BY <1>4, <1>7, <3>2
        <4>2. p \in 0 .. 2^t.bits - 1 /\ Cong(p, n, 2^t.bits)  BY <1>2, IntCastFacts DEF n
        <4> HIDE DEF p
        <4> QED  BY <4>1, <4>2, IntValueIs
      <3> QED  BY <3>1, <3>2
    <2>2. Number(c) = CWrap(n, t)  BY <1>1, <2>1, WrappedIs
    <2> QED  BY <1>3, <1>7, <2>1, <2>2 DEF c, n
  <1> QED  BY <1>6, <1>7

\* Where NaN and a number differ.
LEMMA FloatCompare ==
    ASSUME NEW a \in Int \cup {NaN}, NEW b \in Int \cup {NaN}, NEW op \in Comparisons
    PROVE  /\ FloatInstruction(op, a, b) = Truth(~(NaN \in {a, b}) /\ Holds(op, a, b))
           /\ FloatInstruction(op, a, b) \in {0, 1}
  BY DEF FloatInstruction, Truth, Comparisons

\* A float's whole part is an integer.
LEMMA TruncHalf ==
    ASSUME NEW n \in Int
    PROVE  TruncDiv(n, 2) \in Int
  <1>1. \A x \in Int : x \div 2 \in Int  OBVIOUS
  <1> QED  BY <1>1 DEF TruncDiv

\* QualifiedValue::cast against C, on every value and type.
LEMMA CastIsC ==
    ASSUME NEW v \in Values, NEW t \in IntTypes \cup FloatTypes
    PROVE  CastAsC(v, t, cast(v, t)) \/ (t = BoolTy /\ v.val = NaN)
  <1>1. \A u \in IntTypes : u.kind = "int"  BY TypeFacts
  <1>2. \A u \in FloatTypes : u.kind = "float"  BY DEF FloatTypes
  <1>3. "int" # "float"  OBVIOUS
  <1>4. CASE IsInt(v) /\ t \in IntTypes
    <2>1. v \in IntValues  BY <1>4, ValueFacts
    <2>2. CConvert(Number(v), v.type, t) = CConvertInt(Number(v), v.type, t)
      BY <1>1, <1>4 DEF CConvert
    <2> QED  BY <1>4, <2>1, <2>2, IntCastAsC DEF CastAsC
  <1>5. CASE IsInt(v) /\ t \in FloatTypes
    <2>1. v \in IntValues /\ v.type.kind = "int"  BY <1>5, ValueFacts DEF IsInt
    <2>2. t.kind = "float"  BY <1>2, <1>5
    <2>3. cast(v, t) = Value(t, 2 * Number(v))  BY <1>3, <1>5, <2>2 DEF cast
    <2>4. CConvert(Number(v), v.type, t) = 2 * Number(v)  BY <1>3, <2>1, <2>2 DEF CConvert
    <2>5. Number(Value(t, 2 * Number(v))) = 2 * Number(v) /\ Value(t, 2 * Number(v)).type = t
      BY <1>3, <2>2 DEF Number, Value, IsInt
    <2> QED  BY <2>3, <2>4, <2>5 DEF CastAsC
  <1>6. CASE ~IsInt(v)
    <2>1. v.type.kind = "float" /\ v.val \in Int \cup {NaN}  BY <1>6, ValueFacts
    <2>2. Number(v) = v.val  BY <1>6 DEF Number
    <2>3. CASE t \in FloatTypes
      <3>1. t.kind = "float"  BY <1>2, <2>3
      <3>2. cast(v, t) = Value(t, v.val)  BY <1>3, <1>6, <3>1 DEF cast
      <3>3. CConvert(Number(v), v.type, t) = v.val  BY <1>3, <2>1, <2>2, <3>1 DEF CConvert
      <3>4. Number(Value(t, v.val)) = v.val /\ Value(t, v.val).type = t
        BY <1>3, <3>1 DEF Number, Value, IsInt
      <3> QED  BY <3>2, <3>3, <3>4 DEF CastAsC
    <2>4. CASE t \in IntTypes /\ v.val # NaN
      <3>1. t.kind = "int" /\ v.val \in Int  BY <1>1, <2>1, <2>4
      <3> DEFINE w == TruncDiv(v.val, 2)
      <3>2. w \in Int  BY <3>1, TruncHalf
      <3>3. CConvert(Number(v), v.type, t) = CConvertInt(v.val, v.type, t)
        BY <2>2, <3>1 DEF CConvert
      <3>4. CASE t.bits = 1
        <4>1. t = BoolTy  BY <2>4, <3>4, TypeFacts
        <4> DEFINE p == FloatInstruction("!=", v.val, 0)
        <4>2. cast(v, t) = Value(t, p)  BY <1>3, <1>6, <3>1, <3>4 DEF cast
        <4>3. p = IF v.val = 0 THEN 0 ELSE 1
          <5>1. ~(NaN \in {v.val, 0})  BY <2>4, MarksAssumption
          <5>2. "!=" \in Comparisons /\ 0 \in Int  BY DEF Comparisons
          <5>3. Holds("!=", v.val, 0) <=> v.val # 0  BY DEF Holds
          <5>4. p = Truth(~(NaN \in {v.val, 0}) /\ Holds("!=", v.val, 0))
            BY <2>1, <5>2, FloatCompare
          <5> QED  BY <5>1, <5>3, <5>4 DEF Truth
        <4>4. CConvertInt(v.val, v.type, t) = IF v.val = 0 THEN 0 ELSE 1
          BY <3>4 DEF CConvertInt
        <4>5. p \in {0, 1}  BY <4>3
        <4> HIDE DEF p
        <4>6. Number(Value(t, p)) = p /\ Value(t, p).type = t  BY <4>1, <4>5, BoolValue
        <4> QED  BY <3>3, <4>2, <4>3, <4>4, <4>6 DEF CastAsC
      <3>5. CASE t.bits # 1
        <4> DEFINE p == IF v.val = NaN \/ ~Fits(w, t) THEN Poison ELSE w % 2^t.bits
        <4>1. cast(v, t) = Value(t, p)  BY <1>3, <1>6, <3>1, <3>5 DEF cast
        <4>2. CConvertInt(v.val, v.type, t) = IF v.val = NaN \/ ~Fits(w, t) THEN Poison ELSE CWrap(w, t)
          BY <1>3, <2>1, <3>5 DEF CConvertInt
        <4>3. CASE Fits(w, t)
          <5>1. p = w % 2^t.bits  BY <2>4, <4>3
          <5>2. /\ p \in 0 .. 2^t.bits - 1
                /\ CWrap(w, t) = Number(Value(t, w % 2^t.bits))
            BY <2>4, <3>2, <5>1, WrappedFacts
          <5>3. Value(t, p).type = t  BY DEF Value
          <5>4. CWrap(w, t) = Number(cast(v, t))  BY <4>1, <5>1, <5>2
          <5>5. CConvert(Number(v), v.type, t) = CWrap(w, t)  BY <2>4, <3>3, <4>2, <4>3
          <5> QED  BY <4>1, <5>3, <5>4, <5>5 DEF CastAsC
        <4>4. CASE ~Fits(w, t)
          <5>1. CConvert(Number(v), v.type, t) = Poison  BY <3>3, <4>2, <4>4
          <5> QED  BY <5>1 DEF CastAsC
        <4> QED  BY <4>3, <4>4
      <3> QED  BY <3>4, <3>5
    <2>5. CASE t \in IntTypes /\ v.val = NaN
      <3>1. t.kind = "int"  BY <1>1, <2>5
      <3>2. CASE t.bits = 1  BY <2>5, <3>2, TypeFacts
      <3>3. CASE t.bits # 1
        <4>1. CConvert(Number(v), v.type, t) = Poison
          BY <1>3, <2>1, <2>2, <2>5, <3>1, <3>3 DEF CConvert, CConvertInt
        <4> QED  BY <4>1 DEF CastAsC
      <3> QED  BY <3>2, <3>3
    <2> QED  BY <2>3, <2>4, <2>5
  <1> QED  BY <1>4, <1>5, <1>6

-----------------------------------------------------------------------------
(* The operators that depend on low bits only.                             *)

\* The operators on bits.
BitOps == {"&", "|", "^"}
\* The operators whose low bits depend on the low bits of their operands only.
LowOps == {"+", "-", "*"} \cup BitOps

\* Their results as sets of bits.
Combined(op, a, b) ==
    IF op = "&" THEN Bits(a) \cap Bits(b)
    ELSE IF op = "|" THEN Bits(a) \cup Bits(b)
    ELSE (Bits(a) \cup Bits(b)) \ (Bits(a) \cap Bits(b))

\* The result of such an operator before it is cut to a width.
Exact(op, a, b) ==
    IF op = "+" THEN a + b ELSE IF op = "-" THEN a - b ELSE IF op = "*" THEN a * b
    ELSE FromBits(Combined(op, a, b))

\* A set of bits is the bits of exactly one number of LongBits bits.
LEMMA FromBitsFacts ==
    ASSUME NEW B \in SUBSET (0 .. LongBits - 1)
    PROVE  FromBits(B) \in 0 .. 2^LongBits - 1 /\ Bits(FromBits(B)) = B
  <1>1. LongBits \in Nat  BY Widths
  <1>2. PICK p \in 0 .. 2^LongBits - 1 : \A i \in 0 .. LongBits - 1 : Bit(p, i) = 1 <=> i \in B
    BY <1>1, BitsExist
  <1>3. Bits(p) = B
    <2>1. \A i \in 0 .. LongBits - 1 : i \in Bits(p) <=> i \in B  BY <1>2 DEF Bits, Bit
    <2>2. \A i : i \in Bits(p) => i \in 0 .. LongBits - 1  BY DEF Bits
    <2> QED  BY <2>1, <2>2
  <1> QED  BY <1>2, <1>3 DEF FromBits

\* A number of LongBits bits is told by its set of bits.
LEMMA BitsUnique ==
    ASSUME NEW p \in 0 .. 2^LongBits - 1, NEW q \in 0 .. 2^LongBits - 1, Bits(p) = Bits(q)
    PROVE  p = q
  <1>1. LongBits \in Nat /\ 2^LongBits \in Nat  BY Widths, PowType
  <1>2. ASSUME NEW i \in 0 .. LongBits - 1  PROVE Bit(p, i) = Bit(q, i)
    <2>1. i \in Bits(p) <=> i \in Bits(q)  OBVIOUS
    <2>2. Bit(p, i) = 1 <=> Bit(q, i) = 1  BY <2>1 DEF Bits, Bit
    <2>3. p \in Int /\ q \in Int /\ i \in Nat  BY <1>1
    <2>4. Bit(p, i) \in {0, 1} /\ Bit(q, i) \in {0, 1}  BY <2>3, BitType
    <2> QED  BY <2>2, <2>4
  <1> QED  BY <1>1, <1>2, BitsDetermine

\* The set of bits of a remainder.
LEMMA BitsLow ==
    ASSUME NEW p \in Int, NEW n \in Nat
    PROVE  Bits(p % 2^n) = {i \in Bits(p) : i < n}
  <1>1. ASSUME NEW i \in 0 .. LongBits - 1
        PROVE  i \in Bits(p % 2^n) <=> i \in Bits(p) /\ i < n
    <2>1. LongBits \in Nat  BY Widths
    <2>2. i \in Nat  BY <2>1
    <2>3. Bit(p % 2^n, i) = IF i < n THEN Bit(p, i) ELSE 0  BY <2>2, LowBits
    <2> QED  BY <2>3 DEF Bits, Bit
  <1>2. \A x, i : i \in Bits(x) => i \in 0 .. LongBits - 1  BY DEF Bits
  <1> QED  BY <1>1, <1>2

\* The result is a set of bits.
LEMMA CombinedType ==
    ASSUME NEW op, NEW a, NEW b
    PROVE  Combined(op, a, b) \in SUBSET (0 .. LongBits - 1)
  <1>1. Bits(a) \in SUBSET (0 .. LongBits - 1) /\ Bits(b) \in SUBSET (0 .. LongBits - 1)
    BY DEF Bits
  <1> QED  BY <1>1 DEF Combined

\* Cutting the result of a bit operator is cutting its operands.
LEMMA BitOpLow ==
    ASSUME NEW op, NEW a \in Int, NEW b \in Int, NEW n \in Nat, n <= LongBits
    PROVE  /\ FromBits(Combined(op, a, b)) \in Nat
           /\ FromBits(Combined(op, a, b)) % 2^n = FromBits(Combined(op, a % 2^n, b % 2^n))
           /\ FromBits(Combined(op, a, b)) % 2^n \in 0 .. 2^n - 1
  <1> DEFINE c == Combined(op, a, b)
             d == Combined(op, a % 2^n, b % 2^n)
             x == FromBits(c)
             y == FromBits(d)
  <1>1. LongBits \in Nat /\ 2^LongBits \in Nat \ {0} /\ 2^n \in Nat \ {0} /\ 2^n <= 2^LongBits
    BY Widths, PowType, PowDivides
  <1>2. c \in SUBSET (0 .. LongBits - 1) /\ d \in SUBSET (0 .. LongBits - 1)  BY CombinedType
  <1>3. d = {i \in c : i < n}
    <2>1. Bits(a % 2^n) = {i \in Bits(a) : i < n} /\ Bits(b % 2^n) = {i \in Bits(b) : i < n}
      BY BitsLow
    <2> QED  BY <2>1 DEF Combined
  <1> HIDE DEF c, d
  <1>4. /\ x \in 0 .. 2^LongBits - 1 /\ Bits(x) = c
        /\ y \in 0 .. 2^LongBits - 1 /\ Bits(y) = d
    BY <1>2, FromBitsFacts
  <1> HIDE DEF x, y
  <1>5. x \in Nat /\ x % 2^n \in 0 .. 2^n - 1
    <2>1. x \in Int  BY <1>1, <1>4
    <2>2. x % 2^n \in 0 .. 2^n - 1  BY <1>1, <2>1, DivMod
    <2> QED  BY <1>1, <1>4, <2>2
  <1>6. Bits(x % 2^n) = d  BY <1>3, <1>4, <1>5, BitsLow
  <1>7. x % 2^n \in 0 .. 2^LongBits - 1  BY <1>1, <1>5
  <1>8. x % 2^n = y  BY <1>4, <1>6, <1>7, BitsUnique
  <1> QED  BY <1>5, <1>8 DEF x, y, c, d

\* The exact result is a number.
LEMMA ExactType ==
    ASSUME NEW op \in LowOps, NEW a \in Int, NEW b \in Int
    PROVE  Exact(op, a, b) \in Int
  <1>1. 0 \in Nat /\ 0 <= LongBits  BY Widths
  <1>2. FromBits(Combined(op, a, b)) \in Int  BY <1>1, BitOpLow
  <1> QED  BY <1>2 DEF Exact

\* The operators of LowOps respect congruence modulo every power up to the
\* widest.
LEMMA ExactCong ==
    ASSUME NEW op \in LowOps, NEW a \in Int, NEW b \in Int, NEW x \in Int, NEW y \in Int,
           NEW n \in Nat, n <= LongBits, Cong(a, x, 2^n), Cong(b, y, 2^n)
    PROVE  Cong(Exact(op, a, b), Exact(op, x, y), 2^n)
  <1>1. 2^n \in Nat \ {0} /\ 2^n \in Int  BY PowType
  <1>2. CASE op = "+"  BY <1>1, <1>2, CongAdd DEF Exact
  <1>3. CASE op = "-"  BY <1>1, <1>3, CongSub DEF Exact
  <1>4. CASE op = "*"  BY <1>1, <1>4, CongMul DEF Exact
  <1>5. CASE op \in BitOps
    <2> DEFINE A == FromBits(Combined(op, a, b))
               X == FromBits(Combined(op, x, y))
    <2>1. Exact(op, a, b) = A /\ Exact(op, x, y) = X  BY <1>5 DEF Exact, BitOps
    <2>2. a % 2^n = x % 2^n /\ b % 2^n = y % 2^n  BY <1>1, CongModEq
    <2>3. /\ A \in Int /\ A % 2^n = FromBits(Combined(op, a % 2^n, b % 2^n))
          /\ X \in Int /\ X % 2^n = FromBits(Combined(op, x % 2^n, y % 2^n))
      BY BitOpLow
    <2>4. A % 2^n = X % 2^n  BY <2>2, <2>3
    <2> HIDE DEF A, X
    <2> QED  BY <1>1, <2>1, <2>3, <2>4, CongModEq
  <1> QED  BY <1>2, <1>3, <1>4, <1>5 DEF LowOps

\* The instruction of such an operator is its exact result at its width.
LEMMA LowInstruction ==
    ASSUME NEW op \in LowOps, NEW t \in IntTypes,
           NEW a \in 0 .. 2^t.bits - 1, NEW b \in 0 .. 2^t.bits - 1
    PROVE  /\ IntInstruction(op, t, a, b) \in 0 .. 2^t.bits - 1
           /\ Cong(IntInstruction(op, t, a, b), Exact(op, a, b), 2^t.bits)
  <1> DEFINE m == 2^t.bits
  <1>1. t.bits \in Nat /\ t.bits <= LongBits /\ m \in Nat \ {0}  BY TypeFacts, PowType
  <1>2. a \in Int /\ b \in Int  BY <1>1
  <1>3. Exact(op, a, b) \in Int  BY <1>2, ExactType
  <1>4. ASSUME IntInstruction(op, t, a, b) = Exact(op, a, b) % m
        PROVE  IntInstruction(op, t, a, b) \in 0 .. m - 1
               /\ Cong(IntInstruction(op, t, a, b), Exact(op, a, b), m)
    <2> HIDE DEF m
    <2> QED  BY <1>1, <1>3, <1>4, CongMod
  <1>5. CASE op = "+"
    <2>1. IntInstruction(op, t, a, b) = (a + b) % m  BY <1>5 DEF IntInstruction, Comparisons
    <2>2. Exact(op, a, b) = a + b  BY <1>5 DEF Exact
    <2> QED  BY <1>4, <2>1, <2>2
  <1>6. CASE op = "-"
    <2>1. IntInstruction(op, t, a, b) = (a - b) % m  BY <1>6 DEF IntInstruction, Comparisons
    <2>2. Exact(op, a, b) = a - b  BY <1>6 DEF Exact
    <2> QED  BY <1>4, <2>1, <2>2
  <1>7. CASE op = "*"
    <2>1. IntInstruction(op, t, a, b) = (a * b) % m  BY <1>7 DEF IntInstruction, Comparisons
    <2>2. Exact(op, a, b) = a * b  BY <1>7 DEF Exact
    <2> QED  BY <1>4, <2>1, <2>2
  <1>8. CASE op \in BitOps
    <2> DEFINE x == FromBits(Combined(op, a, b))
    <2>1. IntInstruction(op, t, a, b) = x
      <3>1. CASE op = "&"  BY <3>1 DEF IntInstruction, Comparisons, Combined
      <3>2. CASE op = "|"  BY <3>2 DEF IntInstruction, Comparisons, Combined
      <3>3. CASE op = "^"  BY <3>3 DEF IntInstruction, Comparisons, Combined
      <3> QED  BY <1>8, <3>1, <3>2, <3>3 DEF BitOps
    <2>2. Exact(op, a, b) = x  BY <1>8 DEF Exact, BitOps
    <2>3. \A p \in 0 .. m - 1 : p % m = p
      <3> HIDE DEF m
      <3> TAKE p \in 0 .. m - 1
      <3>1. (m * 0 + p) % m = p  BY <1>1, ModIs
      <3>2. m * 0 + p = p  BY <1>1
      <3> QED  BY <3>1, <3>2
    <2>4. a % m = a /\ b % m = b  BY <2>3
    <2>5. x % m = FromBits(Combined(op, a % m, b % m)) /\ x % m \in 0 .. m - 1  BY <1>1, <1>2, BitOpLow
    <2>6. x % m = x  BY <2>4, <2>5
    <2> HIDE DEF x, m
    <2> QED  BY <1>4, <2>1, <2>2, <2>5, <2>6 DEF m
  <1> QED  BY <1>5, <1>6, <1>7, <1>8 DEF LowOps, m

\* The width of a type and its modulus.
LEMMA WidthFacts ==
    ASSUME NEW t \in IntTypes
    PROVE  t.bits \in Nat /\ t.bits <= LongBits /\ 2^t.bits \in Nat \ {0} /\ 2^t.bits \in Int
  <1>1. t.bits \in Nat /\ t.bits <= LongBits  BY TypeFacts
  <1>2. 2^t.bits \in Nat \ {0}  BY <1>1, PowType
  <1> QED  BY <1>1, <1>2

\* The type of a variable is not bool.
LEMMA VariableFacts ==
    ASSUME NEW t \in VariableTypes
    PROVE  t \in IntTypes /\ t.bits # 1
  <1>1. PICK b \in {CharBits, ShortBits, IntBits, LongBits}, s \in BOOLEAN : t = IntType(b, s)
    BY DEF VariableTypes
  <1>2. b # 1  BY Widths
  <1>3. t.bits = b  BY <1>1 DEF IntType
  <1> QED  BY <1>2, <1>3, NamedTypes

\* A wrapped number fits and is congruent.
LEMMA WrapFacts ==
    ASSUME NEW t \in IntTypes, NEW n \in Int
    PROVE  CWrap(n, t) \in Int /\ Fits(CWrap(n, t), t) /\ Cong(CWrap(n, t), n, 2^t.bits)
  BY WrappedFacts

\* So is a result C defines.
LEMMA ResultFacts ==
    ASSUME NEW n \in Int, NEW t \in IntTypes, CResult(n, t) # Poison
    PROVE  CResult(n, t) \in Int /\ Fits(CResult(n, t), t) /\ Cong(CResult(n, t), n, 2^t.bits)
  <1>1. t.signed \in BOOLEAN /\ 2^t.bits \in Nat \ {0}  BY TypeFacts, FitsFacts
  <1>2. CASE t.signed
    <2>1. CResult(n, t) = n /\ Fits(n, t)  BY <1>2 DEF CResult
    <2>2. Cong(n, n, 2^t.bits)  BY <1>1, CongRefl
    <2> QED  BY <2>1, <2>2
  <1>3. CASE ~t.signed
    <2>1. CResult(n, t) = n % 2^t.bits  BY <1>3 DEF CResult
    <2>2. n % 2^t.bits \in 0 .. 2^t.bits - 1 /\ Cong(n % 2^t.bits, n, 2^t.bits)  BY <1>1, CongMod
    <2>3. n % 2^t.bits \in Int /\ 0 <= n % 2^t.bits /\ n % 2^t.bits < 2^t.bits  BY <1>1, <2>2
    <2>4. Fits(n % 2^t.bits, t)  BY <1>3, <2>3, FitsFacts
    <2> QED  BY <2>1, <2>2, <2>3, <2>4
  <1> QED  BY <1>1, <1>2, <1>3

\* What C defines an operator of LowOps to be, up to the width of its type.
LEMMA CLow ==
    ASSUME NEW op \in LowOps, NEW l \in IntValues, NEW r \in IntValues, CInt(op, l, r) # Poison
    PROVE  LET t == CCommon(l.type, r.type)
           IN  /\ CInt(op, l, r) \in Int
               /\ Cong(CInt(op, l, r), Exact(op, Number(l), Number(r)), 2^t.bits)
  <1> DEFINE t == CCommon(l.type, r.type)
             m == 2^t.bits
             nl == Number(l)
             nr == Number(r)
             x == CWrap(nl, t)
             y == CWrap(nr, t)
             c == CInt(op, l, r)
             e == Exact(op, nl, nr)
  <1>1. t \in IntTypes /\ nl \in Int /\ nr \in Int  BY CommonFacts, NumberOf
  <1> HIDE DEF t
  <1>2. t.bits \in Nat /\ t.bits <= LongBits /\ m \in Nat \ {0} /\ m \in Int  BY <1>1, WidthFacts
  <1>3. x \in Int /\ y \in Int /\ Cong(x, nl, m) /\ Cong(y, nr, m)
    <2> HIDE DEF nl, nr
    <2> QED  BY <1>1, WrappedFacts
  <1>4. op \notin {"<<", ">>"} /\ op \notin Comparisons /\ op \notin {"/", "%"}
    BY DEF LowOps, BitOps, Comparisons
  <1> HIDE DEF x, y, nl, nr, m
  <1>5. Exact(op, x, y) \in Int /\ Cong(Exact(op, x, y), e, m) /\ e \in Int
    BY <1>1, <1>2, <1>3, ExactType, ExactCong DEF m
  <1>6. CASE op \in {"+", "-", "*"}
    <2>1. c = CResult(Exact(op, x, y), t)
      <3>1. CASE op = "+"
        <4>1. Exact(op, x, y) = x + y  BY <3>1 DEF Exact
        <4>2. c = CResult(x + y, t)  BY <3>1 DEF CInt, Comparisons, t, x, y, nl, nr
        <4> QED  BY <4>1, <4>2
      <3>2. CASE op = "-"
        <4>1. Exact(op, x, y) = x - y  BY <3>2 DEF Exact
        <4>2. c = CResult(x - y, t)  BY <3>2 DEF CInt, Comparisons, t, x, y, nl, nr
        <4> QED  BY <4>1, <4>2
      <3>3. CASE op = "*"
        <4>1. Exact(op, x, y) = x * y  BY <3>3 DEF Exact
        <4>2. c = CResult(x * y, t)  BY <3>3 DEF CInt, Comparisons, t, x, y, nl, nr
        <4> QED  BY <4>1, <4>2
      <3> QED  BY <1>6, <3>1, <3>2, <3>3
    <2> HIDE DEF c, e
    <2>2. c \in Int /\ Cong(c, Exact(op, x, y), m)  BY <1>1, <1>5, <2>1, ResultFacts DEF c, m
    <2>3. Cong(c, e, m)  BY <1>2, <1>5, <2>2, CongTrans
    <2> QED  BY <2>2, <2>3 DEF c, e, m, t, nl, nr
  <1>7. CASE op \in BitOps
    <2> DEFINE i == IntInstruction(op, t, x % m, y % m)
    <2>1. c = CWrap(i, t)
      <3>1. op \in BitOps /\ op # "+" /\ op # "-" /\ op # "*"  BY <1>7 DEF BitOps
      <3> QED  BY <1>4, <3>1 DEF CInt, t, x, y, nl, nr, m
    <2>2. x % m \in 0 .. m - 1 /\ Cong(x % m, x, m) /\ y % m \in 0 .. m - 1 /\ Cong(y % m, y, m)
      BY <1>2, <1>3, CongMod
    <2> DEFINE p == x % m
               q == y % m
    <2>3. p \in Int /\ q \in Int  BY <1>2, <2>2
    <2> HIDE DEF p, q
    <2>4. Cong(p, nl, m) /\ Cong(q, nr, m)  BY <1>1, <1>2, <1>3, <2>2, <2>3, CongTrans DEF p, q
    <2>5. i \in 0 .. m - 1 /\ Cong(i, Exact(op, p, q), m)  BY <1>1, <2>2, LowInstruction DEF p, q, m
    <2>6. Exact(op, p, q) \in Int /\ Cong(Exact(op, p, q), e, m)
      BY <1>1, <1>2, <2>3, <2>4, ExactType, ExactCong DEF m
    <2>7. i \in Int  BY <1>2, <2>5
    <2> HIDE DEF i, c, e
    <2>8. Cong(i, e, m)  BY <1>2, <1>5, <2>5, <2>6, <2>7, CongTrans
    <2>9. c \in Int /\ Cong(c, i, m)  BY <1>1, <2>1, <2>7, WrappedFacts DEF m
    <2>10. Cong(c, e, m)  BY <1>2, <1>5, <2>7, <2>8, <2>9, CongTrans
    <2> QED  BY <2>9, <2>10 DEF c, e, m, t, nl, nr
  <1> QED  BY <1>6, <1>7 DEF LowOps

\* What the code computes for such an operator: a value of the balanced type,
\* right up to the width of the left operand, and up to its own when the
\* operands were converted as in C.
LEMMA CodeLow ==
    ASSUME NEW op \in LowOps, NEW l \in IntValues, NEW r \in IntValues
    PROVE  LET u == Balanced(l, r)
               v == handle_binary_expr(op, l, r)
           IN  /\ v \in IntValues /\ v.type = u
               /\ Cong(v.val, Exact(op, Number(l), Number(r)), 2^l.type.bits)
               /\ ConvertedAsC(l, r) => Cong(v.val, Exact(op, Number(l), Number(r)), 2^u.bits)
  <1> DEFINE u == Balanced(l, r)
             c == balanceIntegers(l, r)
             t == CCommon(l.type, r.type)
             v == handle_binary_expr(op, l, r)
             a == l.type.bits
             nl == Number(l)
             nr == Number(r)
             A == c[1].val
             B == c[2].val
             p == IntInstruction(op, u, A, B)
             e == Exact(op, nl, nr)
  <1>1. /\ nl \in Int /\ nr \in Int /\ Cong(l.val, nl, 2^a) /\ IsInt(l) /\ IsInt(r)
        /\ l.type \in IntTypes /\ l.val \in Int
    BY IntValueFacts, NumberOf
  <1>2. /\ u \in IntTypes /\ a <= u.bits
        /\ c[1] \in IntValues /\ c[1].type = u /\ c[2] \in IntValues /\ c[2].type = u
        /\ Cong(A, l.val, 2^a) /\ Cong(B, nr, 2^u.bits)
    BY BalanceFacts
  <1>3. t \in IntTypes /\ u.bits <= t.bits  BY CommonFacts
  <1>4. ConvertedAsC(l, r) => Number(c[1]) = CWrap(nl, t) /\ Number(c[2]) = CWrap(nr, t)
    BY DEF ConvertedAsC
  <1>5. v = Value(u, p)
    <2>1. cast_binary_expr(l, r) = c  BY <1>1 DEF cast_binary_expr
    <2>2. op \notin Comparisons  BY DEF LowOps, BitOps, Comparisons
    <2>3. v = arithmetic(op, c[1], c[2])  BY <1>1, <2>1, <2>2 DEF handle_binary_expr
    <2>4. IsInt(c[1])  BY <1>2, IntValueFacts
    <2> QED  BY <1>2, <2>3, <2>4 DEF arithmetic
  <1> HIDE DEF u, t
  <1>6. /\ A \in 0 .. 2^u.bits - 1 /\ A \in Int /\ B \in 0 .. 2^u.bits - 1 /\ B \in Int
        /\ Number(c[1]) \in Int /\ Cong(A, Number(c[1]), 2^u.bits)
    BY <1>2, IntValueFacts, NumberOf
  <1>7. /\ a \in Nat /\ u.bits \in Nat /\ t.bits \in Nat /\ u.bits <= LongBits /\ a <= LongBits
        /\ 2^a \in Int /\ 2^u.bits \in Int /\ 2^t.bits \in Int /\ 2^u.bits \in Nat
    BY <1>1, <1>2, <1>3, WidthFacts
  <1> HIDE DEF A, B, c, v, nl, nr, a
  <1>8. p \in 0 .. 2^u.bits - 1 /\ Cong(p, Exact(op, A, B), 2^u.bits)  BY <1>2, <1>6, LowInstruction
  <1>9. e \in Int /\ Exact(op, A, B) \in Int  BY <1>1, <1>6, ExactType
  <1>10. p \in Int  BY <1>7, <1>8
  <1> HIDE DEF p
  <1>11. Value(u, p) \in IntValues /\ Value(u, p).type = u /\ Value(u, p).val = p  BY <1>2, <1>8, IntValueIs
  <1> HIDE DEF e
  <1>12. Cong(p, e, 2^a)
    <2>1. Cong(A, nl, 2^a)  BY <1>1, <1>2, <1>6, <1>7, CongTrans
    <2>2. Cong(B, nr, 2^a)  BY <1>1, <1>2, <1>6, <1>7, CongDown
    <2>3. Cong(Exact(op, A, B), e, 2^a)  BY <1>1, <1>6, <1>7, <2>1, <2>2, ExactCong DEF e
    <2>4. Cong(p, Exact(op, A, B), 2^a)  BY <1>2, <1>7, <1>8, <1>9, <1>10, CongDown
    <2> QED  BY <1>7, <1>9, <1>10, <2>3, <2>4, CongTrans
  <1>13. ASSUME ConvertedAsC(l, r)  PROVE Cong(p, e, 2^u.bits)
    <2>1. Number(c[1]) = CWrap(nl, t)  BY <1>4, <1>13
    <2>2. Cong(CWrap(nl, t), nl, 2^t.bits) /\ CWrap(nl, t) \in Int  BY <1>1, <1>3, WrapFacts
    <2>3. Cong(CWrap(nl, t), nl, 2^u.bits)  BY <1>1, <1>3, <1>7, <2>2, CongDown
    <2>4. Cong(A, nl, 2^u.bits)  BY <1>1, <1>6, <1>7, <2>1, <2>2, <2>3, CongTrans
    <2>5. Cong(Exact(op, A, B), e, 2^u.bits)  BY <1>1, <1>2, <1>6, <1>7, <2>4, ExactCong DEF e
    <2> QED  BY <1>7, <1>8, <1>9, <1>10, <2>5, CongTrans
  <1> QED  BY <1>5, <1>11, <1>12, <1>13 DEF u, v, e, nl, nr, a

\* OperatorsAreC for these operators.
LEMMA LowOperatorAsC ==
    ASSUME NEW op \in LowOps, NEW l \in IntValues, NEW r \in IntValues,
           ConvertedAsC(l, r), CInt(op, l, r) # Poison,
           Fits(CInt(op, l, r), handle_binary_expr(op, l, r).type)
    PROVE  Number(handle_binary_expr(op, l, r)) = CInt(op, l, r)
  <1> DEFINE u == Balanced(l, r)
             t == CCommon(l.type, r.type)
             v == handle_binary_expr(op, l, r)
             c == CInt(op, l, r)
             e == Exact(op, Number(l), Number(r))
  <1>1. v \in IntValues /\ v.type = u /\ Cong(v.val, e, 2^u.bits)  BY CodeLow
  <1>2. c \in Int /\ Cong(c, e, 2^t.bits)  BY CLow
  <1>3. t \in IntTypes /\ u \in IntTypes /\ u.bits <= t.bits  BY CommonFacts, BalanceFacts
  <1>4. e \in Int /\ v.val \in Int  BY <1>1, NumberOf, ExactType, IntValueFacts
  <1> HIDE DEF u, t, v, c, e
  <1>5. u.bits \in Nat /\ t.bits \in Nat /\ 2^u.bits \in Int  BY <1>3, WidthFacts
  <1>6. Cong(c, e, 2^u.bits)  BY <1>2, <1>3, <1>4, <1>5, CongDown
  <1>7. Cong(e, c, 2^u.bits)  BY <1>2, <1>4, <1>5, <1>6, CongSym
  <1>8. Cong(v.val, c, 2^u.bits)  BY <1>1, <1>2, <1>4, <1>5, <1>7, CongTrans
  <1>9. Fits(c, v.type)  BY DEF c, v
  <1>10. Number(v) = c  BY <1>1, <1>2, <1>8, <1>9, ConvertedIs
  <1> QED  BY <1>10 DEF v, c

\* CompoundAssignmentsAreC, as a fact about two values.
LEMMA AssignedAsC ==
    ASSUME NEW op \in LowOps \cup {""}, NEW l \in IntValues, NEW r \in IntValues,
           l.type \in VariableTypes, Assigned(op, l, r) # Halt
    PROVE  LET c == IF op = "" THEN Number(r) ELSE CInt(op, l, r)
           IN  c # Poison => Number(Assigned(op, l, r)) = CWrap(c, l.type)
  <1>1. l.type \in IntTypes /\ l.type.bits # 1  BY VariableFacts
  <1>2. CASE op = ""
    <2>1. Assigned(op, l, r) = cast(r, l.type)  BY <1>2 DEF Assigned
    <2>2. Number(cast(r, l.type)) = CWrap(Number(r), l.type)  BY <1>1, IntCastAsC
    <2> QED  BY <1>2, <2>1, <2>2
  <1>3. CASE op \in LowOps
    <2>1. op # ""  BY <1>3 DEF LowOps, BitOps
    <2> DEFINE v == handle_binary_expr(op, l, r)
               c == CInt(op, l, r)
               e == Exact(op, Number(l), Number(r))
               t == CCommon(l.type, r.type)
               m == 2^l.type.bits
    <2>2. Assigned(op, l, r) = cast(v, l.type)  BY <2>1 DEF Assigned
    <2>3. v \in IntValues /\ Cong(v.val, e, m) /\ v.type = Balanced(l, r)  BY <1>3, CodeLow
    <2>4. ASSUME c # Poison  PROVE Number(cast(v, l.type)) = CWrap(c, l.type)
      <3>1. c \in Int /\ Cong(c, e, 2^t.bits)  BY <1>3, <2>4, CLow
      <3>2. t \in IntTypes /\ l.type.bits <= t.bits /\ l.type.bits <= v.type.bits /\ v.type \in IntTypes
        BY <2>3, CommonFacts, BalanceFacts
      <3>3. e \in Int /\ v.val \in Int /\ Number(v) \in Int /\ Cong(Number(v), v.val, 2^v.type.bits)
        BY <1>3, <2>3, NumberOf, ExactType, IntValueFacts
      <3> HIDE DEF v, c, e, t
      <3>4. l.type.bits \in Nat /\ t.bits \in Nat /\ v.type.bits \in Nat /\ m \in Int
        BY <1>1, <3>2, WidthFacts
      <3>5. Cong(Number(v), v.val, m)  BY <3>2, <3>3, <3>4, CongDown
      <3>6. Cong(c, e, m)  BY <3>1, <3>2, <3>3, <3>4, CongDown
      <3>7. Cong(e, c, m)  BY <3>1, <3>3, <3>4, <3>6, CongSym
      <3>8. Cong(v.val, c, m)  BY <2>3, <3>1, <3>3, <3>4, <3>7, CongTrans
      <3>9. Cong(Number(v), c, m)  BY <3>1, <3>3, <3>4, <3>5, <3>8, CongTrans
      <3>10. CWrap(Number(v), l.type) = CWrap(c, l.type)  BY <1>1, <3>1, <3>3, <3>9, WrapCong
      <3> QED  BY <1>1, <2>3, <3>10, IntCastAsC
    <2> HIDE DEF v, c
    <2> QED  BY <2>1, <2>2, <2>4 DEF c
  <1> QED  BY <1>2, <1>3

-----------------------------------------------------------------------------
(* Comparisons, division and shifts.                                       *)

\* The converted operands of an integer operator and its result.
LEMMA CodeInts ==
    ASSUME NEW op \in IntOps, NEW l \in IntValues, NEW r \in IntValues
    PROVE  LET u == Balanced(l, r)
               c == balanceIntegers(l, r)
               v == handle_binary_expr(op, l, r)
               i == IntInstruction(op, u, c[1].val, c[2].val)
           IN  /\ op \in Comparisons => v = Value(BoolTy, i) /\ v.type = BoolTy
               /\ op \notin Comparisons => v = Value(u, i) /\ v.type = u
               /\ Number(c[1]) = Number(Value(u, c[1].val))
               /\ Number(c[2]) = Number(Value(u, c[2].val))
               /\ Number(c[1]) \in Int /\ Number(c[2]) \in Int
               /\ Fits(Number(c[1]), u) /\ Fits(Number(c[2]), u)
  <1> DEFINE u == Balanced(l, r)
             c == balanceIntegers(l, r)
             v == handle_binary_expr(op, l, r)
             i == IntInstruction(op, u, c[1].val, c[2].val)
  <1>1. IsInt(l) /\ IsInt(r)  BY IntValueFacts
  <1>2. c[1] \in IntValues /\ c[1].type = u /\ c[2] \in IntValues /\ c[2].type = u  BY BalanceFacts
  <1>3. IsInt(c[1]) /\ c[1] = Value(u, c[1].val) /\ c[2] = Value(u, c[2].val)  BY <1>2, IntValueFacts
  <1>4. cast_binary_expr(l, r) = c  BY <1>1 DEF cast_binary_expr
  <1>5. CASE op \in Comparisons
    <2>1. v = compare(op, c[1], c[2])  BY <1>1, <1>4, <1>5 DEF handle_binary_expr
    <2>2. v = Value(BoolTy, i)  BY <1>2, <1>3, <2>1 DEF compare
    <2>3. v.type = BoolTy  BY <2>2 DEF Value
    <2> QED  BY <1>2, <1>3, <1>5, <2>2, <2>3, NumberOf
  <1>6. CASE op \notin Comparisons
    <2>1. v = arithmetic(op, c[1], c[2])  BY <1>1, <1>4, <1>6 DEF handle_binary_expr
    <2>2. v = Value(u, i)  BY <1>2, <1>3, <2>1 DEF arithmetic
    <2>3. v.type = u  BY <2>2 DEF Value
    <2> QED  BY <1>2, <1>3, <1>6, <2>2, <2>3, NumberOf
  <1> QED  BY <1>5, <1>6

\* OperatorsAreC for the comparisons.
LEMMA ComparisonAsC ==
    ASSUME NEW op \in Comparisons, NEW l \in IntValues, NEW r \in IntValues, ConvertedAsC(l, r)
    PROVE  Number(handle_binary_expr(op, l, r)) = CInt(op, l, r)
  <1> DEFINE u == Balanced(l, r)
             c == balanceIntegers(l, r)
             t == CCommon(l.type, r.type)
             x == Number(c[1])
             y == Number(c[2])
             i == IntInstruction(op, u, c[1].val, c[2].val)
             h == Truth(Holds(op, x, y))
  <1>1. op \in IntOps  BY DEF IntOps
  <1>2. /\ handle_binary_expr(op, l, r) = Value(BoolTy, i)
        /\ x = Number(Value(u, c[1].val)) /\ y = Number(Value(u, c[2].val))
    BY <1>1, CodeInts
  <1>3. i = h  BY <1>2 DEF IntInstruction, Comparisons
  <1>4. x = CWrap(Number(l), t) /\ y = CWrap(Number(r), t)  BY DEF ConvertedAsC
  <1>5. CInt(op, l, r) = Truth(Holds(op, CWrap(Number(l), t), CWrap(Number(r), t)))
    BY DEF CInt, Comparisons
  <1>6. h \in {0, 1}  BY DEF Truth
  <1> HIDE DEF i, h
  <1>7. Number(Value(BoolTy, i)) = h  BY <1>3, <1>6, BoolValue
  <1> QED  BY <1>2, <1>4, <1>5, <1>7 DEF h

\* A quotient lies between 0 and its dividend.
LEMMA TruncFacts ==
    ASSUME NEW x \in Int, NEW y \in Int, y # 0
    PROVE  /\ TruncDiv(x, y) \in Int
           /\ x >= 0 /\ y > 0 => TruncDiv(x, y) >= 0 /\ TruncDiv(x, y) <= x
  <1>1. \A a \in Nat, b \in Nat \ {0} : a \div b \in Int /\ a \div b >= 0 /\ a \div b <= a
    <2> TAKE a \in Nat, b \in Nat \ {0}
    <2> DEFINE q == a \div b
    <2>1. q \in Int /\ a % b \in 0 .. b - 1 /\ a = b * q + (a % b)  BY DivMod
    <2> HIDE DEF q
    <2>2. q >= 0
      <3>1. \A k \in Int : k <= -1 => b * k <= -b  OBVIOUS
      <3> QED  BY <2>1, <3>1
    <2>3. q <= b * q
      <3>1. \A k \in Nat : k <= b * k  OBVIOUS
      <3> QED  BY <2>1, <2>2, <3>1
    <2>4. q <= a
      <3>1. b * q \in Int /\ a % b \in Int /\ a % b >= 0  BY <2>1
      <3>2. b * q <= a  BY <2>1, <3>1
      <3> QED  BY <2>1, <2>3, <3>1, <3>2
    <2> QED  BY <2>1, <2>2, <2>4 DEF q
  <1> DEFINE a == IF x < 0 THEN -x ELSE x
             b == IF y < 0 THEN -y ELSE y
             q == a \div b
  <1>2. a \in Nat /\ b \in Nat \ {0}  OBVIOUS
  <1>3. TruncDiv(x, y) = IF (x < 0) = (y < 0) THEN q ELSE -q  BY DEF TruncDiv
  <1>4. x >= 0 /\ y > 0 => a = x /\ TruncDiv(x, y) = q  BY <1>3
  <1> HIDE DEF a, b
  <1>5. q \in Int /\ q >= 0 /\ q <= a  BY <1>1, <1>2
  <1> HIDE DEF q
  <1>6. TruncDiv(x, y) \in Int  BY <1>3, <1>5
  <1> QED  BY <1>4, <1>5, <1>6

\* Reading a remainder again: a number that fits survives.
LEMMA Survives ==
    ASSUME NEW t \in IntTypes, NEW n \in Int, Fits(n, t)
    PROVE  Number(Value(t, n % 2^t.bits)) = n
  BY WrappedFacts

\* OperatorsAreC for / and %: the quotient fits the code's type too.
LEMMA DivisionAsC ==
    ASSUME NEW op \in {"/", "%"}, NEW l \in IntValues, NEW r \in IntValues,
           ConvertedAsC(l, r), CInt(op, l, r) # Poison,
           Fits(CInt(op, l, r), handle_binary_expr(op, l, r).type),
           op = "%" => Fits(TruncDiv(Number(l), Number(r)), handle_binary_expr(op, l, r).type)
    PROVE  Number(handle_binary_expr(op, l, r)) = CInt(op, l, r)
  <1> DEFINE u == Balanced(l, r)
             b == balanceIntegers(l, r)
             t == CCommon(l.type, r.type)
             x == Number(b[1])
             y == Number(b[2])
             i == IntInstruction(op, u, b[1].val, b[2].val)
             c == CInt(op, l, r)
             q == TruncDiv(x, y)
             m == 2^u.bits
  <1>1. op \in IntOps /\ op \notin Comparisons  BY DEF IntOps, Comparisons
  <1>2. /\ handle_binary_expr(op, l, r) = Value(u, i) /\ handle_binary_expr(op, l, r).type = u
        /\ x = Number(Value(u, b[1].val)) /\ y = Number(Value(u, b[2].val))
        /\ x \in Int /\ y \in Int /\ Fits(x, u) /\ Fits(y, u)
    BY <1>1, CodeInts
  <1>3. i = IF y = 0 \/ ~Fits(q, u) THEN Poison
            ELSE IF op = "/" THEN q % m ELSE (x - y * q) % m
    BY <1>1, <1>2 DEF IntInstruction
  <1>4. x = CWrap(Number(l), t) /\ y = CWrap(Number(r), t)  BY DEF ConvertedAsC
  <1>5. op = "/" => c = IF y = 0 THEN Poison ELSE CResult(q, t)
    BY <1>4 DEF CInt, Comparisons
  <1>6. op = "%" => c = IF y = 0 \/ ~Fits(q, t) THEN Poison ELSE x - y * q
    BY <1>4 DEF CInt, Comparisons
  <1>7. /\ u \in IntTypes /\ t \in IntTypes
        /\ ~(Narrow(l) /\ Narrow(r)) => t = u
        /\ Narrow(l) /\ Narrow(r) => t = IntTy
    BY CommonFacts, BalanceFacts
  <1>8. y # 0  BY <1>5, <1>6
  <1>9. q \in Int  BY <1>2, <1>8, TruncFacts
  <1>10. Number(l) \in Int /\ Number(r) \in Int /\ Fits(Number(l), l.type) /\ Fits(Number(r), r.type)
         /\ l.type \in IntTypes /\ r.type \in IntTypes
    BY NumberOf, IntValueFacts
  <1>11. Fits(c, u)  BY <1>2
  <1> HIDE DEF u, t, c
  <1>12. CASE op = "/"
    <2>1. c = CResult(q, t)  BY <1>5, <1>8, <1>12
    <2>2. c = q
      <3>1. CASE t.signed  BY <2>1, <3>1 DEF CResult, c
      <3>2. CASE ~t.signed
        <4>1. Fits(x, t) /\ Fits(y, t)  BY <1>4, <1>7, <1>10, WrapFacts
        <4>2. 0 <= x /\ x < 2^t.bits /\ 0 <= y /\ 2^t.bits \in Nat  BY <1>2, <1>7, <3>2, <4>1, FitsFacts
        <4>3. 0 <= q /\ q <= x
          <5> HIDE DEF x, y
          <5>1. x >= 0 /\ y > 0  BY <1>2, <1>8, <4>2
          <5>2. TruncDiv(x, y) >= 0 /\ TruncDiv(x, y) <= x  BY <1>2, <1>8, <5>1, TruncFacts
          <5> QED  BY <5>2
        <4>4. 0 <= q /\ q < 2^t.bits  BY <1>2, <1>9, <4>2, <4>3
        <4>5. Fits(q, t)  BY <1>7, <1>9, <3>2, <4>4, FitsFacts
        <4>6. c = CWrap(q, t)  BY <2>1, <3>2 DEF CResult, CWrap
        <4> QED  BY <1>7, <1>9, <4>5, <4>6, WrappedFacts
      <3> QED  BY <1>7, <3>1, <3>2, TypeFacts
    <2>3. i = q % m  BY <1>3, <1>8, <1>11, <1>12, <2>2
    <2> HIDE DEF q, i
    <2> QED  BY <1>2, <1>7, <1>9, <1>11, <2>2, <2>3, Survives DEF c
  <1>13. CASE op = "%"
    <2>1. Fits(q, t) /\ c = x - y * q  BY <1>6, <1>8, <1>13 DEF c
    <2>2. Fits(q, u)
      <3>1. CASE Narrow(l) /\ Narrow(r)
        <4>1. t = IntTy /\ IntTy \in IntTypes /\ IntTy.bits = IntBits /\ IntTy.signed
          BY <1>7, <3>1, NamedTypes
        <4>2. l.type.bits < IntTy.bits /\ r.type.bits < IntTy.bits  BY <3>1, <4>1 DEF Narrow
        <4>3. Fits(Number(l), IntTy) /\ Fits(Number(r), IntTy)  BY <1>10, <4>1, <4>2, FitsWider
        <4>4. x = Number(l) /\ y = Number(r)  BY <1>4, <1>10, <4>1, <4>3, WrappedFacts
        <4> QED  BY <1>2, <1>13, <4>4
      <3>2. CASE ~(Narrow(l) /\ Narrow(r))  BY <1>7, <2>1, <3>2
      <3> QED  BY <3>1, <3>2
    <2>3. i = (x - y * q) % m  BY <1>3, <1>8, <1>13, <2>2
    <2>4. c \in Int  BY <1>2, <1>9, <2>1
    <2>5. i = c % m  BY <2>1, <2>3
    <2> HIDE DEF i, q, x, y
    <2> QED  BY <1>2, <1>7, <1>11, <2>4, <2>5, Survives DEF c
  <1> QED  BY <1>12, <1>13

-----------------------------------------------------------------------------
\* A shift that ShiftAsC allows has its left operand as it is and its amount
\* as a pattern of the left type.
LEMMA ShiftOperands ==
    ASSUME NEW l \in IntValues, NEW r \in IntValues, ShiftAsC(l, r)
    PROVE  /\ Balanced(l, r) = l.type /\ balanceIntegers(l, r)[1].val = l.val
           /\ balanceIntegers(l, r)[2].val = Number(r)
           /\ Number(r) \in Nat /\ Number(r) < l.type.bits
  <1> DEFINE a == l.type.bits
             b == r.type.bits
             c == balanceIntegers(l, r)
             u == Balanced(l, r)
             n == Number(r)
  <1>1. c[1].type = l.type /\ n \in 0 .. a - 1  BY DEF ShiftAsC
  <1>2. /\ u = l.type /\ c[1].type = u /\ c[2].type = u /\ c[1] \in IntValues /\ c[2] \in IntValues
        /\ Cong(c[1].val, l.val, 2^a) /\ Cong(c[2].val, n, 2^u.bits)
        /\ b <= u.bits
    BY <1>1, BalanceFacts
  <1>3. /\ l.type \in IntTypes /\ r.type \in IntTypes /\ l.val \in 0 .. 2^a - 1 /\ l.val \in Int
        /\ n \in Int /\ Fits(n, r.type)
    BY IntValueFacts, NumberOf
  <1>4. a \in Nat /\ b \in Nat /\ 2^a \in Nat \ {0} /\ 2^b \in Nat \ {0}  BY <1>3, WidthFacts
  <1>5. /\ c[1].val \in 0 .. 2^a - 1 /\ c[2].val \in 0 .. 2^a - 1
        /\ c[1].val \in Int /\ c[2].val \in Int
    BY <1>2, IntValueFacts
  <1>6. 0 <= n /\ n < a  BY <1>1, <1>3, <1>4
  <1> DEFINE A == c[1].val
             B == c[2].val
  <1>7. n < 2^a
    <2>1. 2^b <= 2^a  BY <1>2, <1>4, PowDivides
    <2>2. n < 2^b
      <3>1. r.type.signed \in BOOLEAN  BY <1>3, TypeFacts
      <3>2. CASE r.type.signed
        <4>1. n < 2^(b - 1) /\ 2^b = 2 * 2^(b - 1) /\ 2^(b - 1) \in Nat  BY <1>3, <3>2, FitsFacts
        <4> QED  BY <1>3, <4>1
      <3>3. CASE ~r.type.signed  BY <1>3, <3>3, FitsFacts
      <3> QED  BY <3>1, <3>2, <3>3
    <2> QED  BY <1>3, <1>4, <2>1, <2>2
  <1> HIDE DEF A, B, n
  <1>8. A = l.val
    <2>1. A - l.val < 2^a /\ l.val - A < 2^a  BY <1>3, <1>4, <1>5 DEF A
    <2> QED  BY <1>2, <1>3, <1>4, <1>5, <2>1, CongNear DEF A
  <1>9. B = n
    <2>1. B - n < 2^a /\ n - B < 2^a  BY <1>3, <1>4, <1>5, <1>6, <1>7 DEF B
    <2> QED  BY <1>2, <1>3, <1>4, <1>5, <2>1, CongNear DEF B
  <1> QED  BY <1>2, <1>3, <1>6, <1>8, <1>9 DEF A, B, n

\* OperatorsAreC for the shifts.
LEMMA ShiftsAsC ==
    ASSUME NEW op \in {"<<", ">>"}, NEW l \in IntValues, NEW r \in IntValues,
           ShiftAsC(l, r), CInt(op, l, r) # Poison,
           Fits(CInt(op, l, r), handle_binary_expr(op, l, r).type)
    PROVE  Number(handle_binary_expr(op, l, r)) = CInt(op, l, r)
  <1> DEFINE b == balanceIntegers(l, r)
             t == CPromote(l.type)
             x == Number(l)
             y == Number(r)
             p == 2^y
             m == 2^l.type.bits
             i == IntInstruction(op, l.type, l.val, y)
             c == CInt(op, l, r)
  <1>1. op \in IntOps /\ op \notin Comparisons  BY DEF IntOps, IntOnly, Comparisons
  <1>2. /\ Balanced(l, r) = l.type /\ b[1].val = l.val /\ b[2].val = y
        /\ y \in Nat /\ y < l.type.bits
    BY ShiftOperands
  <1>3. handle_binary_expr(op, l, r) = Value(l.type, i) /\ handle_binary_expr(op, l, r).type = l.type
    BY <1>1, <1>2, CodeInts
  <1>4. /\ l.type \in IntTypes /\ x \in Int /\ Fits(x, l.type) /\ l.val \in Int
        /\ Cong(l.val, x, m) /\ l = Value(l.type, l.val)
    BY IntValueFacts, NumberOf
  <1>5. t \in IntTypes /\ l.type.bits <= t.bits /\ Fits(x, t)  BY <1>4, PromoteFacts
  <1>6. CWrap(x, t) = x  BY <1>4, <1>5, WrappedFacts
  <1>7. p \in Nat \ {0}  BY <1>2, PowType
  <1>8. /\ l.type.bits \in Nat /\ t.bits \in Nat /\ m \in Nat \ {0} /\ m \in Int
    BY <1>4, <1>5, WidthFacts
  <1>9. y \in Int /\ ~(y >= l.type.bits)  BY <1>2, <1>8
  <1>10. Number(Value(l.type, l.val)) = x  BY <1>4
  <1>11. Fits(c, l.type)  BY <1>3
  <1>12. CASE op = "<<"
    <2>1. i = (l.val * p) % m  BY <1>9, <1>12 DEF IntInstruction, Comparisons
    <2>2. c = CResult(x * p, t)
      <3>1. c = IF y < 0 \/ y >= t.bits \/ CWrap(x, t) < 0 THEN Poison ELSE CResult(CWrap(x, t) * 2^y, t)
        BY <1>12 DEF CInt, Comparisons
      <3> QED  BY <1>6, <3>1
    <2> HIDE DEF c, p, x, y, i, m, t
    <2>3. x * p \in Int /\ l.val * p \in Int  BY <1>4, <1>7
    <2>4. c \in Int /\ Cong(c, x * p, 2^t.bits)  BY <1>5, <2>2, <2>3, ResultFacts DEF c
    <2>5. Cong(c, x * p, m)  BY <1>4, <1>5, <1>8, <2>3, <2>4, CongDown DEF m
    <2>6. Cong(l.val * p, x * p, m)
      <3>1. p \in Int  BY <1>7
      <3> QED  BY <1>4, <1>8, <3>1, CongScale
    <2>7. i \in 0 .. m - 1 /\ Cong(i, l.val * p, m) /\ i \in Int
      <3>1. i \in 0 .. m - 1 /\ Cong(i, l.val * p, m)  BY <1>8, <2>1, <2>3, CongMod
      <3> QED  BY <1>8, <3>1
    <2>8. Cong(i, x * p, m)  BY <1>8, <2>3, <2>6, <2>7, CongTrans
    <2>9. Cong(x * p, c, m)  BY <1>8, <2>3, <2>4, <2>5, CongSym
    <2>10. Cong(i, c, m)  BY <1>8, <2>3, <2>4, <2>7, <2>8, <2>9, CongTrans
    <2>11. Value(l.type, i) \in IntValues /\ Value(l.type, i).type = l.type /\ Value(l.type, i).val = i
      BY <1>4, <2>7, IntValueIs DEF m
    <2>12. Number(Value(l.type, i)) = c  BY <1>11, <2>4, <2>10, <2>11, ConvertedIs DEF m
    <2> QED  BY <1>3, <2>12 DEF c, i, y
  <1>13. CASE op = ">>"
    <2>1. i = (x \div p) % m  BY <1>9, <1>10, <1>13 DEF IntInstruction, Comparisons
    <2>2. c = x \div p
      <3>1. c = IF y < 0 \/ y >= t.bits THEN Poison ELSE CWrap(x, t) \div 2^y
        BY <1>13 DEF CInt, Comparisons
      <3> QED  BY <1>6, <3>1
    <2>3. x \div p \in Int  BY <1>4, <1>7, DivMod
    <2>4. i = c % m  BY <2>1, <2>2
    <2> HIDE DEF c, p, x, y, i
    <2> QED  BY <1>3, <1>4, <1>11, <2>2, <2>3, <2>4, Survives DEF c, i, y
  <1> QED  BY <1>12, <1>13

-----------------------------------------------------------------------------
(* Unary operators, offsets, literals, floats.                             *)

\* The unary operators on an integer.
LEMMA UnaryAsC ==
    ASSUME NEW op \in {"+", "-", "~", "!"}, NEW v \in IntValues,
           CUnary(op, v) # Poison, Fits(CUnary(op, v), handle_unary_expr(op, v).type)
    PROVE  Number(handle_unary_expr(op, v)) = CUnary(op, v)
  <1> DEFINE n == Number(v)
             p == v.val
             u == v.type
             m == 2^u.bits
             t == CPromote(v.type)
             c == CUnary(op, v)
             e == handle_unary_expr(op, v)
  <1>1. /\ u \in IntTypes /\ n \in Int /\ Fits(n, u) /\ p \in Int /\ p \in 0 .. m - 1
        /\ Cong(p, n, m) /\ IsInt(v)
    BY IntValueFacts, NumberOf
  <1>2. t \in IntTypes /\ u.bits <= t.bits /\ Fits(n, t)  BY <1>1, PromoteFacts
  <1>3. u.bits \in Nat /\ t.bits \in Nat /\ m \in Nat \ {0} /\ m \in Int /\ 2^t.bits \in Int
    BY <1>1, <1>2, WidthFacts
  <1>4. CWrap(n, t) = n  BY <1>1, <1>2, WrappedFacts
  <1>5. ASSUME NEW x \in Int, Cong(x, c, m), c \in Int, e = Value(u, x % m)
        PROVE  Number(e) = c
    <2>1. e.type = u  BY <1>5 DEF Value
    <2>2. Fits(c, u)  BY <2>1
    <2> DEFINE k == Number(Value(u, x % 2^u.bits))
    <2>3. Number(e) = k  BY <1>5
    <2>4. k \in Int /\ Fits(k, u) /\ Cong(k, x, m)  BY <1>1, WrappedFacts
    <2> HIDE DEF k, c, e, u, m
    <2>5. Cong(k, c, m)  BY <1>3, <1>5, <2>4, CongTrans
    <2>6. k = c  BY <1>1, <1>5, <2>2, <2>4, <2>5, FitsUnique DEF m
    <2> QED  BY <2>3, <2>6
  <1>6. CASE op = "+"
    <2>1. e = v  BY <1>6 DEF handle_unary_expr
    <2>2. c = n  BY <1>4, <1>6 DEF CUnary
    <2> QED  BY <2>1, <2>2
  <1>7. CASE op = "-"
    <2>1. e = Value(u, (-p) % m)  BY <1>1, <1>7 DEF handle_unary_expr
    <2>2. c = CResult(-n, t)
      <3>1. c = CResult(-CWrap(n, t), t)  BY <1>7 DEF CUnary
      <3> QED  BY <1>4, <3>1
    <2> HIDE DEF n, p, u, t, m, c
    <2>3. -n \in Int /\ -p \in Int  BY <1>1
    <2>4. c \in Int /\ Cong(c, -n, 2^t.bits)  BY <1>2, <2>2, <2>3, ResultFacts DEF c
    <2>5. Cong(c, -n, m)  BY <1>2, <1>3, <2>3, <2>4, CongDown DEF m
    <2>6. Cong(-n, c, m)  BY <1>3, <2>3, <2>4, <2>5, CongSym
    <2>7. Cong(-p, -n, m)  BY <1>1, <1>3, CongNeg
    <2>8. Cong(-p, c, m)  BY <1>3, <2>3, <2>4, <2>6, <2>7, CongTrans
    <2> HIDE DEF e
    <2>9. Number(e) = c  BY <1>5, <2>1, <2>3, <2>4, <2>8
    <2> QED  BY <2>9 DEF e, c
  <1>8. CASE op = "~"
    <2> DEFINE x == m - 1 - p
    <2>1. e = Value(u, x)  BY <1>1, <1>8 DEF handle_unary_expr
    <2>2. c = CWrap(-n - 1, t)  BY <1>8 DEF CUnary
    <2>3. x \in 0 .. m - 1 /\ x \in Int /\ -n - 1 \in Int /\ -p - 1 \in Int
      <3> HIDE DEF m, n, p
      <3> QED  BY <1>1, <1>3
    <2>4. x % m = x
      <3> HIDE DEF x, m
      <3>1. 0 \in Int /\ 0 <= x /\ x < m  BY <1>3, <2>3
      <3>2. (m * 0 + x) % m = x  BY <1>3, <2>3, <3>1, ModIs
      <3>3. m * 0 + x = x  BY <1>3, <2>3
      <3> QED  BY <3>2, <3>3
    <2>5. e = Value(u, x % m)  BY <2>1, <2>4
    <2>6. Cong(x, -p - 1, m)
      <3> HIDE DEF m, p
      <3>1. x = (-p - 1) + 1 * m  BY <1>1, <1>3
      <3> QED  BY <3>1 DEF Cong
    <2> HIDE DEF x, n, p, u, t, m, c, e
    <2>7. Cong(-p - 1, -n - 1, m)
      <3>1. Cong(-p, -n, m) /\ -p \in Int /\ -n \in Int  BY <1>1, <1>3, CongNeg
      <3>2. Cong(1, 1, m)  BY <1>3, CongRefl
      <3> QED  BY <1>3, <3>1, <3>2, CongSub
    <2>8. c \in Int /\ Cong(c, -n - 1, 2^t.bits)  BY <1>2, <2>2, <2>3, WrapFacts
    <2>9. Cong(c, -n - 1, m)  BY <1>2, <1>3, <2>3, <2>8, CongDown DEF m
    <2>10. Cong(-n - 1, c, m)  BY <1>3, <2>3, <2>8, <2>9, CongSym
    <2>11. Cong(x, -n - 1, m)  BY <1>3, <2>3, <2>6, <2>7, CongTrans
    <2>12. Cong(x, c, m)  BY <1>3, <2>3, <2>8, <2>10, <2>11, CongTrans
    <2>13. Number(e) = c  BY <1>5, <2>3, <2>5, <2>8, <2>12
    <2> QED  BY <2>13 DEF e, c
  <1>9. CASE op = "!"
    <2> DEFINE b == cast(v, BoolTy)
    <2>1. e = Value(BoolTy, 1 - b.val)  BY <1>9 DEF handle_unary_expr
    <2>2. c = Truth(n = 0)  BY <1>9 DEF CUnary
    <2>3. BoolTy \in IntTypes /\ BoolTy.bits = 1 /\ BoolTy.signed = FALSE  BY NamedTypes
    <2>4. b \in IntValues /\ b.type = BoolTy /\ Number(b) = IF n = 0 THEN 0 ELSE 1
      BY <2>3, IntCastAsC
    <2>5. Number(b) = b.val  BY <2>3, <2>4, NumberOf
    <2>6. 1 - b.val = Truth(n = 0) /\ 1 - b.val \in {0, 1}  BY <2>4, <2>5 DEF Truth
    <2> DEFINE k == 1 - b.val
    <2>7. k \in {0, 1} /\ e = Value(BoolTy, k) /\ c = k  BY <2>1, <2>2, <2>6
    <2> HIDE DEF k, e, c
    <2>8. Number(e) = c  BY <2>7, BoolValue
    <2> QED  BY <2>8 DEF e, c
  <1> QED  BY <1>6, <1>7, <1>8, <1>9

\* The element a pointer reaches.
LEMMA OffsetIs ==
    ASSUME NEW op \in {"+", "-"}, NEW v \in IntValues
    PROVE  LET moved == IF op = "+" THEN Number(v) ELSE -Number(v)
           IN  (offset(op, v) % 2^LongBits = moved % 2^LongBits)
                  <=> \/ v.type.bits = LongBits
                      \/ Fits(moved, IntType(v.type.bits, TRUE))
  <1> DEFINE n == Number(v)
             p == v.val
             b == v.type.bits
             m == 2^b
             h == 2^(b - 1)
             M == 2^LongBits
             d == IF op = "+" THEN n ELSE -n
             q == IF op = "+" THEN p ELSE (-p) % m
             o == offset(op, v)
  <1>1. /\ v.type \in IntTypes /\ n \in Int /\ p \in Int /\ p \in 0 .. m - 1 /\ Cong(p, n, m)
    BY IntValueFacts, NumberOf
  <1>2. b \in Nat \ {0} /\ b <= LongBits /\ LongBits \in Nat  BY <1>1, TypeFacts, Widths
  <1>3. /\ m \in Nat \ {0} /\ m \in Int /\ h \in Nat \ {0} /\ m = 2 * h /\ M \in Nat \ {0} /\ M \in Int
        /\ b < LongBits => 2 * m <= M
    <2>1. m \in Nat \ {0} /\ h \in Nat \ {0} /\ m = 2 * h  BY <1>2, PowHalf
    <2>2. M \in Nat \ {0}  BY <1>2, PowType
    <2>3. b < LongBits => 2 * m <= M  BY <1>2, PowDivides
    <2> HIDE DEF m, h, M
    <2> QED  BY <2>1, <2>2, <2>3
  <1>4. o = Signed(q, b)  BY DEF offset
  <1>5. q \in 0 .. m - 1 /\ q \in Int /\ Cong(q, d, m) /\ d \in Int
    <2> HIDE DEF n, p, m
    <2>1. CASE op = "+"  BY <1>1, <2>1
    <2>2. CASE op = "-"
      <3>1. -p \in Int /\ -n \in Int /\ Cong(-p, -n, m)  BY <1>1, <1>3, CongNeg
      <3>2. (-p) % m \in 0 .. m - 1 /\ Cong((-p) % m, -p, m)  BY <1>3, <3>1, CongMod
      <3>3. (-p) % m \in Int  BY <1>3, <3>2
      <3>4. Cong((-p) % m, -n, m)  BY <1>3, <3>1, <3>2, <3>3, CongTrans
      <3>5. "-" # "+"  OBVIOUS
      <3>6. q = (-p) % m /\ d = -n  BY <2>2, <3>5
      <3> HIDE DEF q, d
      <3> QED  BY <3>1, <3>2, <3>3, <3>4, <3>6
    <2> QED  BY <2>1, <2>2
  <1>6. /\ o \in Int /\ -h <= o /\ o < h /\ Cong(o, q, m)
    <2> HIDE DEF q, o
    <2> QED  BY <1>2, <1>4, <1>5, SignedFacts
  <1>7. -m < d /\ d < m
    <2>1. -m < n /\ n < m
      <3>1. v.type.signed \in BOOLEAN /\ Fits(n, v.type)  BY <1>1, TypeFacts, NumberOf
      <3>2. CASE v.type.signed
        <4>1. -h <= n /\ n < h  BY <1>1, <3>1, <3>2, FitsFacts
        <4> QED  BY <1>1, <1>3, <4>1
      <3>3. CASE ~v.type.signed
        <4>1. 0 <= n /\ n < m  BY <1>1, <3>1, <3>3, FitsFacts
        <4> QED  BY <1>1, <1>3, <4>1
      <3> QED  BY <3>1, <3>2, <3>3
    <2> HIDE DEF n, m
    <2> QED  BY <1>1, <1>3, <2>1
  <1>8. Fits(d, IntType(b, TRUE)) <=> -h <= d /\ d < h
    <2>1. Fits(d, IntType(b, TRUE)) <=> d \in -h .. h - 1  BY DEF Fits, IntType
    <2>2. d \in Int /\ h \in Int  BY <1>3, <1>5
    <2>3. \A x, k \in Int : x \in -k .. k - 1 <=> -k <= x /\ x < k  OBVIOUS
    <2>4. d \in -h .. h - 1 <=> -h <= d /\ d < h
      <3> HIDE DEF d, h
      <3> QED  BY <2>2, <2>3
    <2> QED  BY <2>1, <2>4
  <1> HIDE DEF n, p, m, h, M, d, q, o
  <1>9. Cong(o, d, m)  BY <1>3, <1>5, <1>6, CongTrans
  <1>10. o % M = d % M <=> Cong(o, d, M)  BY <1>3, <1>5, <1>6, CongModEq
  <1>11. Fits(d, IntType(b, TRUE)) => o = d
    <2>1. ASSUME -h <= d, d < h  PROVE o = d
      <3>1. o - d < m /\ d - o < m  BY <1>3, <1>5, <1>6, <2>1
      <3> QED  BY <1>3, <1>5, <1>6, <1>9, <3>1, CongNear
    <2> QED  BY <1>8, <2>1
  <1>12. o = d => o % M = d % M  OBVIOUS
  <1>13. b = LongBits => o % M = d % M  BY <1>9, <1>10 DEF m, M
  <1>14. ASSUME o % M = d % M, b # LongBits  PROVE Fits(d, IntType(b, TRUE))
    <2>1. 2 * m <= M  BY <1>2, <1>3, <1>14
    <2>2. o - d < M /\ d - o < M  BY <1>3, <1>5, <1>6, <1>7, <2>1
    <2>3. o = d  BY <1>3, <1>5, <1>6, <1>10, <1>14, <2>2, CongNear
    <2> QED  BY <1>6, <1>8, <2>3
  <1>15. (o % M = d % M) <=> (b = LongBits \/ Fits(d, IntType(b, TRUE)))
    BY <1>11, <1>12, <1>13, <1>14
  <1> QED  BY <1>15 DEF o, d, M, n

\* A literal and the number written.
LEMMA LiteralIs ==
    ASSUME NEW n \in 0 .. 2^LongBits - 1, NEW u \in BOOLEAN, NEW l \in BOOLEAN
    PROVE  LET t == IF l THEN LongTy ELSE IntTy
           IN  /\ (Number(Integer(n, u, l)) = n) <=> Fits(n, t)
               /\ Integer(n, u, l).type = t
  <1> DEFINE t == IF l THEN LongTy ELSE IntTy
             most == 2^(LongBits - 1) - 1
             k == IF n > most THEN most ELSE n
             v == Integer(n, u, l)
  <1>1. t \in IntTypes /\ t.signed = TRUE /\ t.bits \in Nat \ {0} /\ t.bits <= LongBits
        /\ LongBits \in Nat \ {0}
    <2>1. t \in IntTypes /\ t.signed = TRUE  BY NamedTypes
    <2>2. LongBits \in Nat \ {0}  BY Widths
    <2> HIDE DEF t
    <2> QED  BY <2>1, <2>2, TypeFacts
  <1>2. v = Value(t, k % 2^t.bits)  BY DEF Integer, Parsed, getLongTy, getIntTy
  <1>3. v.type = t  BY <1>2 DEF Value
  <1>4. /\ 2^LongBits \in Nat \ {0} /\ 2^(LongBits - 1) \in Nat \ {0} /\ LongBits - 1 \in Nat
        /\ t.bits - 1 \in Nat /\ 2^(t.bits - 1) \in Nat
    <2> HIDE DEF t
    <2> QED  BY <1>1, PowHalf
  <1> HIDE DEF t, v
  <1>5. n \in Int /\ most \in Int /\ k \in Int  BY <1>4
  <1>6. Fits(n, t) => k = n
    <2>1. Fits(n, t) => n < 2^(t.bits - 1)  BY <1>1, <1>5, FitsFacts
    <2>2. t.bits - 1 <= LongBits - 1  BY <1>1
    <2>3. 2^(t.bits - 1) <= 2^(LongBits - 1)  BY <1>4, <2>2, PowDivides
    <2> QED  BY <1>4, <1>5, <2>1, <2>3
  <1> HIDE DEF k, most
  <1>7. /\ Number(v) \in Int /\ Fits(Number(v), t)
        /\ Fits(k, t) => Number(v) = k
    BY <1>1, <1>2, <1>5, WrappedFacts
  <1>8. Number(v) = n <=> Fits(n, t)  BY <1>6, <1>7
  <1> QED  BY <1>3, <1>8 DEF t, v

-----------------------------------------------------------------------------
\* The literals that get C's type.
LEMMA LiteralTypeIs ==
    ASSUME NEW n, NEW u \in BOOLEAN, NEW l \in BOOLEAN, Fits(n, CLiteralType(n, u, l))
    PROVE  LET t == IF l THEN LongTy ELSE IntTy
           IN  t = CLiteralType(n, u, l) <=> ~u /\ Fits(n, t)
  <1>1. IntBits # LongBits  BY WidthsAssumption
  <1>2. IntTy = IntType(IntBits, TRUE) /\ LongTy = IntType(LongBits, TRUE)  BY DEF IntTy, LongTy
  <1>3. IntTy # LongTy  BY <1>1, <1>2 DEF IntType
  <1>4. CASE u
    <2>1. CLiteralType(n, u, l).signed = FALSE  BY <1>4 DEF CLiteralType, IntType
    <2>2. IntTy.signed = TRUE /\ LongTy.signed = TRUE  BY <1>2 DEF IntType
    <2> QED  BY <1>4, <2>1, <2>2
  <1>5. CASE ~u
    <2>1. CLiteralType(n, u, l) = IF ~l /\ Fits(n, IntTy) THEN IntTy ELSE LongTy
      BY <1>2, <1>5 DEF CLiteralType
    <2> QED  BY <1>3, <1>5, <2>1
  <1> QED  BY <1>4, <1>5

-----------------------------------------------------------------------------
\* An operator with a float operand.
LEMMA FloatsAsC ==
    ASSUME NEW op \in FloatOps, NEW l \in Values, NEW r \in Values, ~(IsInt(l) /\ IsInt(r))
    PROVE  FloatAsC(op, l, r, handle_binary_expr(op, l, r))
  <1> DEFINE t == CCommon(l.type, r.type)
             x == CConvert(Number(l), l.type, t)
             y == CConvert(Number(r), r.type, t)
             c == cast_binary_expr(l, r)
             res == handle_binary_expr(op, l, r)
  <1>1. "int" # "float"  OBVIOUS
  <1>2. /\ IsInt(l) => l.type.kind = "int" /\ CPromote(l.type).kind = "int"
        /\ ~IsInt(l) => l.type.kind = "float" /\ CPromote(l.type) = l.type /\ Number(l) = l.val
        /\ IsInt(r) => r.type.kind = "int" /\ CPromote(r.type).kind = "int"
        /\ ~IsInt(r) => r.type.kind = "float" /\ CPromote(r.type) = r.type /\ Number(r) = r.val
    <2>1. ASSUME NEW v \in Values
          PROVE  /\ IsInt(v) => v.type.kind = "int" /\ CPromote(v.type).kind = "int"
                 /\ ~IsInt(v) => v.type.kind = "float" /\ CPromote(v.type) = v.type /\ Number(v) = v.val
      <3>1. CASE IsInt(v)
        <4>1. v.type.kind = "int"  BY <3>1 DEF IsInt
        <4>2. IntTy.kind = "int"  BY NamedTypes
        <4> QED  BY <3>1, <4>1, <4>2 DEF CPromote
      <3>2. CASE ~IsInt(v)
        <4>1. v.type.kind = "float"  BY <3>2, ValueFacts
        <4> QED  BY <1>1, <3>2, <4>1 DEF CPromote, Number
      <3> QED  BY <3>1, <3>2
    <2> QED  BY <2>1
  <1>3. /\ c = <<Value(t, x), Value(t, y)>> /\ t.kind = "float"
        /\ x \in Int \cup {NaN} /\ y \in Int \cup {NaN}
    <2>1. CASE IsInt(l) /\ ~IsInt(r)
      <3>1. t = r.type /\ t.kind = "float"  BY <1>1, <1>2, <2>1 DEF CCommon
      <3>2. x = 2 * Number(l) /\ y = r.val  BY <1>1, <1>2, <2>1, <3>1 DEF CConvert
      <3>3. cast(l, r.type) = Value(t, x)  BY <1>1, <2>1, <3>1, <3>2 DEF cast
      <3>4. c = <<cast(l, r.type), r>>  BY <2>1 DEF cast_binary_expr
      <3>5. r = Value(t, y) /\ y \in Int \cup {NaN}  BY <2>1, <3>1, <3>2, ValueFacts
      <3>6. Number(l) \in Int
        <4>1. l \in IntValues  BY <2>1, ValueFacts
        <4> QED  BY <4>1, NumberOf
      <3>7. x \in Int \cup {NaN}  BY <3>2, <3>6
      <3> HIDE DEF x, y, c, t
      <3> QED  BY <3>1, <3>3, <3>4, <3>5, <3>7
    <2>2. CASE ~IsInt(l) /\ IsInt(r)
      <3>1. t = l.type /\ t.kind = "float"  BY <1>1, <1>2, <2>2 DEF CCommon
      <3>2. y = 2 * Number(r) /\ x = l.val  BY <1>1, <1>2, <2>2, <3>1 DEF CConvert
      <3>3. cast(r, l.type) = Value(t, y)  BY <1>1, <2>2, <3>1, <3>2 DEF cast
      <3>4. c = <<l, cast(r, l.type)>>  BY <2>2 DEF cast_binary_expr
      <3>5. l = Value(t, x) /\ x \in Int \cup {NaN}  BY <2>2, <3>1, <3>2, ValueFacts
      <3>6. Number(r) \in Int
        <4>1. r \in IntValues  BY <2>2, ValueFacts
        <4> QED  BY <4>1, NumberOf
      <3>7. y \in Int \cup {NaN}  BY <3>2, <3>6
      <3> HIDE DEF x, y, c, t
      <3> QED  BY <3>1, <3>3, <3>4, <3>5, <3>7
    <2>3. CASE ~IsInt(l) /\ ~IsInt(r)
      <3>1. t = (IF l.type.bits < r.type.bits THEN r.type ELSE l.type) /\ t.kind = "float"
        BY <1>1, <1>2, <2>3 DEF CCommon
      <3>2. x = l.val /\ y = r.val  BY <1>1, <1>2, <2>3, <3>1 DEF CConvert
      <3>3. /\ l = Value(l.type, x) /\ x \in Int \cup {NaN}
            /\ r = Value(r.type, y) /\ y \in Int \cup {NaN}
        BY <2>3, <3>2, ValueFacts
      <3>4. \A u : u.kind = "float" => cast(l, u) = Value(u, l.val) /\ cast(r, u) = Value(u, r.val)
        BY <1>1, <2>3 DEF cast
      <3>5. c = IF l.type.bits < r.type.bits THEN <<cast(l, r.type), r>> ELSE <<l, cast(r, l.type)>>
        BY <2>3 DEF cast_binary_expr
      <3>6. CASE l.type.bits < r.type.bits
        <4>1. t = r.type /\ c = <<cast(l, r.type), r>>  BY <3>1, <3>5, <3>6
        <4>2. cast(l, r.type) = Value(t, x)  BY <3>1, <3>2, <3>4, <4>1
        <4> HIDE DEF x, y, c, t
        <4> QED  BY <3>1, <3>3, <4>1, <4>2
      <3>7. CASE ~(l.type.bits < r.type.bits)
        <4>1. t = l.type /\ c = <<l, cast(r, l.type)>>  BY <3>1, <3>5, <3>7
        <4>2. cast(r, l.type) = Value(t, y)  BY <3>1, <3>2, <3>4, <4>1
        <4> HIDE DEF x, y, c, t
        <4> QED  BY <3>1, <3>3, <4>1, <4>2
      <3> QED  BY <3>6, <3>7
    <2> QED  BY <2>1, <2>2, <2>3
  <1>4. op \notin IntOnly  BY DEF FloatOps, IntOnly, Comparisons
  <1> HIDE DEF x, y, t
  <1>5. /\ c[1] = Value(t, x) /\ c[2] = Value(t, y)
        /\ c[1].type = t /\ c[1].val = x /\ c[2].val = y /\ ~IsInt(c[1])
    <2>1. c[1] = Value(t, x) /\ c[2] = Value(t, y)  BY <1>3
    <2>2. Value(t, x).type = t /\ Value(t, x).val = x /\ Value(t, y).val = y  BY DEF Value
    <2>3. ~IsInt(Value(t, x))  BY <1>1, <1>3, <2>2 DEF IsInt
    <2> HIDE DEF c
    <2> QED  BY <2>1, <2>2, <2>3
  <1>6. CASE op \in Comparisons
    <2>1. res = compare(op, c[1], c[2])  BY <1>4, <1>6 DEF handle_binary_expr
    <2>2. compare(op, c[1], c[2]) = Value(BoolTy, FloatInstruction(op, x, y))  BY <1>5 DEF compare
    <2>3. FloatInstruction(op, x, y) = Truth(~(NaN \in {x, y}) /\ Holds(op, x, y))
      BY <1>3, <1>6, FloatCompare
    <2>4. res.val = Truth(~(NaN \in {x, y}) /\ Holds(op, x, y))  BY <2>1, <2>2, <2>3 DEF Value
    <2> QED  BY <1>6, <2>4 DEF FloatAsC, x, y, t
  <1>7. CASE op \in {"+", "-"}
    <2>1. op \notin Comparisons  BY <1>7 DEF Comparisons
    <2>2. res = arithmetic(op, c[1], c[2])  BY <1>4, <2>1 DEF handle_binary_expr
    <2>3. arithmetic(op, c[1], c[2]) = Value(t, FloatInstruction(op, x, y))  BY <1>5 DEF arithmetic
    <2>4. FloatInstruction(op, x, y) = IF NaN \in {x, y} THEN NaN ELSE IF op = "+" THEN x + y ELSE x - y
      BY <1>7, <2>1 DEF FloatInstruction
    <2>5. res = Value(t, IF NaN \in {x, y} THEN NaN ELSE IF op = "+" THEN x + y ELSE x - y)
      BY <2>2, <2>3, <2>4
    <2> HIDE DEF res
    <2> QED  BY <2>1, <2>5 DEF FloatAsC, x, y, t, res
  <1> QED  BY <1>6, <1>7 DEF FloatOps

-----------------------------------------------------------------------------
(* The invariant and the theorems.                                         *)

\* What the record of the last expression holds, for each kind of expression.
BinaryDone ==
    /\ done.op \in IntOps /\ done.l \in Values /\ done.r \in Values
    /\ (IsInt(done.l) /\ IsInt(done.r)) \/ done.op \in FloatOps \cup IntOnly
    /\ done.res = handle_binary_expr(done.op, done.l, done.r)
AssignDone ==
    /\ done.op = "assign" /\ done.by \in IntOps \cup {""}
    /\ done.l \in IntValues /\ done.l.type \in VariableTypes /\ done.r \in IntValues
    /\ done.res = Assigned(done.by, done.l, done.r) /\ done.res # Halt
UnaryDone ==
    /\ done.op = "unary" /\ done.by \in {"+", "-", "~", "!"} /\ done.l \in Values
    /\ done.res = handle_unary_expr(done.by, done.l)
CastDone ==
    /\ done.op = "cast" /\ done.l \in Values /\ done.r \in IntTypes \cup FloatTypes
    /\ done.res = cast(done.l, done.r)
OffsetDone ==
    /\ done.op = "offset" /\ done.by \in {"+", "-"} /\ done.l \in IntValues
    /\ done.res = offset(done.by, done.l)
LiteralDone ==
    /\ done.op = "literal" /\ done.l \in 0 .. 2^LongBits - 1
    /\ done.u \in BOOLEAN /\ done.long \in BOOLEAN
    /\ done.res = Integer(done.l, done.u, done.long)
Recorded ==
    \/ done = None
    \/ BinaryDone \/ AssignDone \/ UnaryDone \/ CastDone \/ OffsetDone \/ LiteralDone
\* The inductive invariant.
Inv == lhs \in Values /\ Recorded

\* The operators, by kind.
LEMMA OpKinds ==
    /\ IntOps = LowOps \cup Comparisons \cup {"/", "%"} \cup {"<<", ">>"}
    /\ FloatOps \subseteq IntOps
    /\ {"none", "assign", "unary", "cast", "offset", "literal"} \cap IntOps = {}
  BY DEF IntOps, IntOnly, Comparisons, LowOps, BitOps, FloatOps

\* The record's kind is told by its operator.
LEMMA Kinds ==
    ASSUME Recorded
    PROVE  /\ done.op \in IntOps => BinaryDone
           /\ done.op = "assign" => AssignDone
           /\ done.op = "unary" => UnaryDone
           /\ done.op = "cast" => CastDone
           /\ done.op = "offset" => OffsetDone
           /\ done.op = "literal" => LiteralDone
  <1>1. None.op = "none"  BY DEF None
  <1>2. BinaryDone => done.op \in IntOps  BY DEF BinaryDone
  <1>3. AssignDone => done.op = "assign"  BY DEF AssignDone
  <1>4. UnaryDone => done.op = "unary"  BY DEF UnaryDone
  <1>5. CastDone => done.op = "cast"  BY DEF CastDone
  <1>6. OffsetDone => done.op = "offset"  BY DEF OffsetDone
  <1>7. LiteralDone => done.op = "literal"  BY DEF LiteralDone
  <1> QED  BY <1>1, <1>2, <1>3, <1>4, <1>5, <1>6, <1>7, OpKinds DEF Recorded

\* Integer values are values.
LEMMA IntsAreValues == IntValues \subseteq Values
  BY DEF IntValues, Values, ValuesOf

\* The int 1 of ++ and -- is a value.
LEMMA OneIs == One \in IntValues
  <1>1. IntTy \in IntTypes  BY NamedTypes
  <1>2. /\ 2^IntTy.bits = 2 * 2^(IntTy.bits - 1) /\ 2^(IntTy.bits - 1) \in Nat \ {0}
    <2>1. IntTy.bits \in Nat \ {0}  BY <1>1, TypeFacts
    <2> QED  BY <2>1, PowHalf
  <1>3. 1 \in 0 .. 2^IntTy.bits - 1  BY <1>2
  <1> QED  BY <1>1, <1>3, IntValueIs DEF One, getIntTy

\* An integer instruction gives a pattern of its type or leaves it open.
LEMMA InstructionType ==
    ASSUME NEW op \in IntOps, NEW t \in IntTypes,
           NEW a \in 0 .. 2^t.bits - 1, NEW b \in 0 .. 2^t.bits - 1
    PROVE  /\ op \in Comparisons => IntInstruction(op, t, a, b) \in {0, 1}
           /\ op \notin Comparisons => IntInstruction(op, t, a, b) \in (0 .. 2^t.bits - 1) \cup {Poison}
  <1> DEFINE x == Number(Value(t, a))
             y == Number(Value(t, b))
             m == 2^t.bits
             i == IntInstruction(op, t, a, b)
  <1>1. x \in Int /\ y \in Int  BY NumberFacts
  <1>2. m \in Nat \ {0} /\ t.bits \in Nat  BY WidthFacts
  <1>3. a \in Int /\ b \in Nat  BY <1>2
  <1>4. \A n \in Int : n % m \in 0 .. m - 1
    <2> HIDE DEF m
    <2> QED  BY <1>2, CongMod
  <1>5. CASE op \in Comparisons
    <2>1. i = Truth(Holds(op, x, y))  BY <1>5 DEF IntInstruction, Comparisons
    <2> QED  BY <1>5, <2>1 DEF Truth
  <1>6. CASE op \in LowOps
    <2>1. op \notin Comparisons  BY <1>6 DEF LowOps, BitOps, Comparisons
    <2> QED  BY <1>6, <2>1, LowInstruction
  <1>7. CASE op \in {"/", "%"}
    <2> DEFINE q == TruncDiv(x, y)
    <2>1. op \notin Comparisons  BY <1>7 DEF Comparisons
    <2>2. i = IF y = 0 \/ ~Fits(q, t) THEN Poison
              ELSE IF op = "/" THEN q % m ELSE (x - y * q) % m
      BY <1>7, <2>1 DEF IntInstruction
    <2>3. y # 0 => q \in Int  BY <1>1, TruncFacts
    <2> HIDE DEF q, x, y, i
    <2>4. y # 0 => q \in Int /\ x - y * q \in Int  BY <1>1, <2>3
    <2>5. y # 0 => q % m \in 0 .. m - 1 /\ (x - y * q) % m \in 0 .. m - 1  BY <1>4, <2>4
    <2>6. i \in (0 .. m - 1) \cup {Poison}
      <3> HIDE DEF m
      <3> QED  BY <2>2, <2>5
    <2> QED  BY <2>1, <2>6 DEF i, m
  <1>8. CASE op \in {"<<", ">>"}
    <2> DEFINE p == 2^b
    <2>1. op \notin Comparisons  BY <1>8 DEF Comparisons
    <2>2. p \in Nat \ {0}  BY <1>3, PowType
    <2>3. op = "<<" => i = IF b >= t.bits THEN Poison ELSE (a * p) % m  BY <2>1 DEF IntInstruction
    <2>4. op = ">>" => i = IF b >= t.bits THEN Poison ELSE (x \div p) % m  BY <2>1 DEF IntInstruction
    <2>5. a * p \in Int /\ x \div p \in Int
      <3> HIDE DEF p, x
      <3> QED  BY <1>1, <1>3, <2>2, DivMod
    <2>6. (a * p) % m \in 0 .. m - 1 /\ (x \div p) % m \in 0 .. m - 1  BY <1>4, <2>5
    <2>7. i \in (0 .. m - 1) \cup {Poison}
      <3> HIDE DEF m, i, p, x
      <3> QED  BY <1>8, <2>3, <2>4, <2>6
    <2> QED  BY <2>1, <2>7 DEF i, m
  <1> QED  BY <1>5, <1>6, <1>7, <1>8, OpKinds

\* What is stored is a value of the variable's type.
LEMMA AssignedType ==
    ASSUME NEW op \in IntOps \cup {""}, NEW l \in IntValues, NEW r \in IntValues,
           l.type \in VariableTypes, Assigned(op, l, r) # Halt, Assigned(op, l, r).val # Poison
    PROVE  Assigned(op, l, r) \in IntValues
  <1>1. l.type \in IntTypes /\ l.type.bits # 1  BY VariableFacts
  <1>2. CASE op = ""
    <2>1. Assigned(op, l, r) = cast(r, l.type)  BY <1>2 DEF Assigned
    <2> QED  BY <1>1, <2>1, IntCastAsC
  <1>3. CASE op \in IntOps
    <2>1. op # ""  BY <1>3 DEF IntOps, IntOnly, Comparisons
    <2> DEFINE v == handle_binary_expr(op, l, r)
               u == Balanced(l, r)
               c == balanceIntegers(l, r)
               i == IntInstruction(op, u, c[1].val, c[2].val)
    <2>2. Assigned(op, l, r) = cast(v, l.type)  BY <2>1 DEF Assigned
    <2>3. u \in IntTypes /\ c[1].val \in 0 .. 2^u.bits - 1 /\ c[2].val \in 0 .. 2^u.bits - 1
      <3>1. u \in IntTypes /\ c[1] \in IntValues /\ c[2] \in IntValues /\ c[1].type = u /\ c[2].type = u
        BY BalanceFacts
      <3> HIDE DEF c, u
      <3> QED  BY <3>1, IntValueFacts
    <2>4. /\ op \in Comparisons => v = Value(BoolTy, i) /\ i \in {0, 1}
          /\ op \notin Comparisons => v = Value(u, i) /\ i \in (0 .. 2^u.bits - 1) \cup {Poison}
      BY <1>3, <2>3, CodeInts, InstructionType
    <2> HIDE DEF v, u, i
    <2>5. CASE v \in IntValues  BY <1>1, <2>2, <2>5, IntCastAsC
    <2>6. CASE v \notin IntValues
      <3>1. op \notin Comparisons  BY <2>4, <2>6, BoolValue
      <3>2. v = Value(u, i) /\ i = Poison
        <4>1. v = Value(u, i) /\ i \in (0 .. 2^u.bits - 1) \cup {Poison}  BY <2>4, <3>1
        <4>2. i \in 0 .. 2^u.bits - 1 => Value(u, i) \in IntValues  BY <2>3, IntValueIs
        <4> QED  BY <2>6, <4>1, <4>2
      <3>3. v.val = Poison /\ v.type = u /\ IsInt(v)
        <4>1. v.val = Poison /\ v.type = u  BY <3>2 DEF Value
        <4> QED  BY <2>3, <4>1, TypeFacts DEF IsInt
      <3>4. l.type.kind = "int"  BY <1>1, TypeFacts
      <3>5. cast(v, l.type) = IF l.type = v.type THEN v
                              ELSE Value(l.type, CreateIntCast(v.val, v.type.bits, l.type.bits, v.type.signed))
        BY <1>1, <3>3, <3>4 DEF cast
      <3>6. CreateIntCast(v.val, v.type.bits, l.type.bits, v.type.signed) = Poison
        BY <3>3 DEF CreateIntCast
      <3>7. cast(v, l.type).val = Poison
        <4>1. Value(l.type, Poison).val = Poison  BY DEF Value
        <4>2. cast(v, l.type) = v \/ cast(v, l.type) = Value(l.type, Poison)  BY <3>5, <3>6
        <4> QED  BY <3>3, <4>1, <4>2
      <3> QED  BY <2>2, <3>7
    <2> QED  BY <2>5, <2>6
  <1> QED  BY <1>2, <1>3

-----------------------------------------------------------------------------
\* The invariant holds at first.
LEMMA Initial == Init => Inv
  <1> SUFFICES ASSUME Init  PROVE Inv  OBVIOUS
  <1>1. VariableTypes \cup FloatTypes \subseteq IntTypes \cup FloatTypes  BY NamedTypes
  <1>2. lhs \in Values  BY <1>1 DEF Init, Values, ValuesOf
  <1> QED  BY <1>2 DEF Init, Inv, Recorded

\* A store leaves a value in the variable.
LEMMA Assigns ==
    ASSUME Inv, NEW op \in IntOps \cup {""}, NEW r \in IntValues, Assign(op, r)
    PROVE  Inv'
  <1>1. lhs \in IntValues /\ lhs.type \in VariableTypes  BY ValueFacts DEF Assign, Inv
  <1>2. /\ Assigned(op, lhs, r) # Halt /\ Assigned(op, lhs, r).val # Poison
        /\ lhs' = Assigned(op, lhs, r)
        /\ done' = [op |-> "assign", by |-> op, l |-> lhs, r |-> r, res |-> lhs']
    BY DEF Assign
  <1>3. lhs' \in Values  BY <1>1, <1>2, AssignedType, IntsAreValues
  <1>4. /\ done'.op = "assign" /\ done'.by = op /\ done'.l = lhs /\ done'.r = r
        /\ done'.res = Assigned(op, lhs, r)
    BY <1>2
  <1>5. AssignDone'  BY <1>1, <1>2, <1>4 DEF AssignDone
  <1> QED  BY <1>3, <1>5 DEF Inv, Recorded

\* Every step keeps the invariant.
LEMMA Step == Inv /\ [Next]_vars => Inv'
  <1> SUFFICES ASSUME Inv, [Next]_vars  PROVE Inv'  OBVIOUS
  <1>1. lhs \in Values  BY DEF Inv
  <1>2. CASE NextExpression
    <2>1. lhs' \in Values  BY <1>1, <1>2 DEF NextExpression, Usable
    <2>2. done' = None  BY <1>2 DEF NextExpression
    <2> QED  BY <2>1, <2>2 DEF Inv, Recorded, None
  <1>3. ASSUME NEW op \in IntOps, NEW r \in Values, Binary(op, r)  PROVE Inv'
    <2>1. done' = [op |-> op, l |-> lhs, r |-> r, res |-> handle_binary_expr(op, lhs, r)]
          /\ lhs' = lhs /\ ((IsInt(lhs) /\ IsInt(r)) \/ op \in FloatOps \cup IntOnly)
      BY <1>3 DEF Binary
    <2>2. done'.op = op /\ done'.l = lhs /\ done'.r = r /\ done'.res = handle_binary_expr(op, lhs, r)
      BY <2>1
    <2>3. BinaryDone'  BY <1>1, <2>1, <2>2 DEF BinaryDone
    <2> QED  BY <1>1, <2>1, <2>3 DEF Inv, Recorded
  <1>4. ASSUME NEW op \in IntOps \cup {""}, NEW r \in IntValues, Assign(op, r)  PROVE Inv'
    BY <1>4, Assigns
  <1>5. ASSUME NEW op \in {"+", "-"}, Increment(op)  PROVE Inv'
    <2>1. Assign(op, One) /\ op \in IntOps \cup {""}  BY <1>5 DEF Increment, IntOps
    <2> QED  BY <2>1, OneIs, Assigns
  <1>6. ASSUME NEW op \in {"+", "-", "~", "!"}, Unary(op)  PROVE Inv'
    <2>1. done' = [op |-> "unary", by |-> op, l |-> lhs, res |-> handle_unary_expr(op, lhs)]
          /\ lhs' = lhs
      BY <1>6 DEF Unary
    <2>2. done'.op = "unary" /\ done'.by = op /\ done'.l = lhs /\ done'.res = handle_unary_expr(op, lhs)
      BY <2>1
    <2>3. UnaryDone'  BY <1>1, <2>2 DEF UnaryDone
    <2> QED  BY <1>1, <2>1, <2>3 DEF Inv, Recorded
  <1>7. ASSUME NEW t \in IntTypes \cup FloatTypes, Cast(t)  PROVE Inv'
    <2>1. done' = [op |-> "cast", l |-> lhs, r |-> t, res |-> cast(lhs, t)] /\ lhs' = lhs
      BY <1>7 DEF Cast
    <2>2. done'.op = "cast" /\ done'.l = lhs /\ done'.r = t /\ done'.res = cast(lhs, t)  BY <2>1
    <2>3. CastDone'  BY <1>1, <2>2 DEF CastDone
    <2> QED  BY <1>1, <2>1, <2>3 DEF Inv, Recorded
  <1>8. ASSUME NEW op \in {"+", "-"}, Offset(op)  PROVE Inv'
    <2>1. done' = [op |-> "offset", by |-> op, l |-> lhs, res |-> offset(op, lhs)]
          /\ lhs' = lhs /\ lhs \in IntValues
      BY <1>1, <1>8, ValueFacts DEF Offset
    <2>2. done'.op = "offset" /\ done'.by = op /\ done'.l = lhs /\ done'.res = offset(op, lhs)  BY <2>1
    <2>3. OffsetDone'  BY <2>1, <2>2 DEF OffsetDone
    <2> QED  BY <1>1, <2>1, <2>3 DEF Inv, Recorded
  <1>9. ASSUME NEW n \in 0 .. 2 ^ LongBits - 1, NEW u \in BOOLEAN, NEW l \in BOOLEAN, Literal(n, u, l)
        PROVE  Inv'
    <2>1. done' = [op |-> "literal", l |-> n, u |-> u, long |-> l, res |-> Integer(n, u, l)]
          /\ lhs' = lhs
      BY <1>9 DEF Literal
    <2>2. /\ done'.op = "literal" /\ done'.l = n /\ done'.u = u /\ done'.long = l
          /\ done'.res = Integer(n, u, l)
      BY <2>1
    <2>3. LiteralDone'  BY <2>2 DEF LiteralDone
    <2> QED  BY <1>1, <2>1, <2>3 DEF Inv, Recorded
  <1>10. CASE UNCHANGED vars
    <2>1. lhs' = lhs /\ done' = done  BY <1>10 DEF vars
    <2> QED  BY <2>1 DEF Inv, Recorded, BinaryDone, AssignDone, UnaryDone, CastDone, OffsetDone, LiteralDone
  <1> QED  BY <1>2, <1>3, <1>4, <1>5, <1>6, <1>7, <1>8, <1>9, <1>10 DEF Next

(***************************************************************************)
(* The left operand is always a value of its type, and the record of the   *)
(* last expression holds values and the result the code gives for them:    *)
(* what the properties say of the record, they say of every expression.    *)
(***************************************************************************)
THEOREM Invariance == Spec => []Inv
  BY Initial, Step, PTL DEF Spec

-----------------------------------------------------------------------------
\* ConversionsAreC from the invariant.
LEMMA ConversionsAreCInv == Inv => ConversionsAreC
  <1> SUFFICES ASSUME Inv  PROVE ConversionsAreC  OBVIOUS
  <1>1. Recorded  BY DEF Inv
  <1>2. ASSUME IntsEvaluated(IntOps)
        PROVE  ConvertedAsC(done.l, done.r) <=> ~(WrongExtension(done.l, done.r) \/ LostSign(done.l, done.r))
    <2>1. BinaryDone /\ IsInt(done.l) /\ IsInt(done.r)  BY <1>1, <1>2, Kinds DEF IntsEvaluated
    <2>2. done.l \in IntValues /\ done.r \in IntValues  BY <2>1, ValueFacts DEF BinaryDone
    <2> QED  BY <2>2, IntsConverted
  <1>3. ASSUME Evaluated({"cast"})
        PROVE  CastAsC(done.l, done.r, done.res) \/ (done.r = BoolTy /\ done.l.val = NaN)
    <2>1. CastDone  BY <1>1, <1>3, Kinds DEF Evaluated
    <2> QED  BY <2>1, CastIsC DEF CastDone
  <1> QED  BY <1>2, <1>3 DEF ConversionsAreC

(***************************************************************************)
(* cast_binary_expr gives both integers C's numbers except when it extends *)
(* a narrower left operand by the right one's sign or mixes signs below    *)
(* int; cast converts as C does except NaN to bool.  At every width.       *)
(***************************************************************************)
THEOREM ConvertedNumbers == Spec => []ConversionsAreC
  BY Invariance, ConversionsAreCInv, PTL

\* OperatorsAreC from the invariant.
LEMMA OperatorsAreCInv == Inv => OperatorsAreC
  <1> SUFFICES ASSUME Inv  PROVE OperatorsAreC  OBVIOUS
  <1> DEFINE l == done.l
             r == done.r
  <1>1. Recorded  BY DEF Inv
  <1>2. ASSUME IntsEvaluated(IntOps),
               IF done.op \in {"<<", ">>"} THEN ShiftAsC(l, r) ELSE ConvertedAsC(l, r),
               CInt(done.op, l, r) # Poison, Fits(CInt(done.op, l, r), done.res.type),
               done.op = "%" => Fits(TruncDiv(Number(l), Number(r)), done.res.type)
        PROVE  Number(done.res) = CInt(done.op, l, r)
    <2>1. BinaryDone /\ IsInt(l) /\ IsInt(r)  BY <1>1, <1>2, Kinds DEF IntsEvaluated
    <2>2. l \in IntValues /\ r \in IntValues /\ done.op \in IntOps
          /\ done.res = handle_binary_expr(done.op, l, r)
      BY <2>1, ValueFacts DEF BinaryDone
    <2>3. CASE done.op \in {"<<", ">>"}  BY <1>2, <2>2, <2>3, ShiftsAsC
    <2>4. CASE done.op \notin {"<<", ">>"}
      <3>1. ConvertedAsC(l, r)  BY <1>2, <2>4
      <3> HIDE DEF l, r
      <3>2. CASE done.op \in LowOps  BY <1>2, <2>2, <3>1, <3>2, LowOperatorAsC
      <3>3. CASE done.op \in Comparisons  BY <2>2, <3>1, <3>3, ComparisonAsC
      <3>4. CASE done.op \in {"/", "%"}  BY <1>2, <2>2, <3>1, <3>4, DivisionAsC
      <3> QED  BY <2>2, <2>4, <3>2, <3>3, <3>4, OpKinds
    <2> QED  BY <2>3, <2>4
  <1>3. ASSUME Evaluated({"unary"}), IsInt(l), CUnary(done.by, l) # Poison,
               Fits(CUnary(done.by, l), done.res.type)
        PROVE  Number(done.res) = CUnary(done.by, l)
    <2>1. UnaryDone  BY <1>1, <1>3, Kinds DEF Evaluated
    <2>2. l \in IntValues /\ done.by \in {"+", "-", "~", "!"} /\ done.res = handle_unary_expr(done.by, l)
      BY <1>3, <2>1, ValueFacts DEF UnaryDone
    <2> QED  BY <1>3, <2>2, UnaryAsC
  <1>4. ASSUME Evaluated(FloatOps), ~(IsInt(l) /\ IsInt(r))
        PROVE  FloatAsC(done.op, l, r, done.res)
    <2>1. done.op \in FloatOps /\ done.op \in IntOps  BY <1>4, OpKinds DEF Evaluated
    <2>2. BinaryDone  BY <1>1, <2>1, Kinds
    <2> QED  BY <1>4, <2>1, <2>2, FloatsAsC DEF BinaryDone
  <1> HIDE DEF l, r
  <1>5. IntsEvaluated(IntOps) =>
          LET c == CInt(done.op, l, r)
          IN  (/\ IF done.op \in {"<<", ">>"} THEN ShiftAsC(l, r) ELSE ConvertedAsC(l, r)
               /\ c # Poison /\ Fits(c, done.res.type)
               /\ done.op = "%" => Fits(TruncDiv(Number(l), Number(r)), done.res.type))
                    => Number(done.res) = c
    BY <1>2
  <1>6. Evaluated({"unary"}) /\ IsInt(l) =>
          LET c == CUnary(done.by, l)
          IN  c # Poison /\ Fits(c, done.res.type) => Number(done.res) = c
    BY <1>3
  <1> QED  BY <1>4, <1>5, <1>6 DEF OperatorsAreC, l, r

(***************************************************************************)
(* On operands converted as in C every operator gives C's number whenever  *)
(* C defines one that fits the type of the code's result; floats too.      *)
(***************************************************************************)
THEOREM OperatorResults == Spec => []OperatorsAreC
  BY Invariance, OperatorsAreCInv, PTL

\* CompoundAssignmentsAreC from the invariant.
LEMMA CompoundAssignmentsAreCInv == Inv => CompoundAssignmentsAreC
  <1> SUFFICES ASSUME Inv, Evaluated({"assign"}), done.by \in {"", "+", "-", "*", "&", "|", "^"}
               PROVE  LET c == IF done.by = "" THEN Number(done.r) ELSE CInt(done.by, done.l, done.r)
                      IN  c # Poison => Number(done.res) = CWrap(c, done.l.type)
    BY DEF CompoundAssignmentsAreC
  <1>1. AssignDone  BY Kinds DEF Inv, Evaluated
  <1>2. done.by \in LowOps \cup {""}  BY DEF LowOps, BitOps
  <1> QED  BY <1>1, <1>2, AssignedAsC DEF AssignDone

(***************************************************************************)
(* x op= y, ++x and --x store what C stores for + - * & | ^ and =, whatever*)
(* the types and the values: the wrong extensions are cut off.             *)
(***************************************************************************)
THEOREM StoredNumbers == Spec => []CompoundAssignmentsAreC
  BY Invariance, CompoundAssignmentsAreCInv, PTL

\* OffsetsAreC from the invariant.
LEMMA OffsetsAreCInv == Inv => OffsetsAreC
  <1> SUFFICES ASSUME Inv, Evaluated({"offset"})
               PROVE  LET i == Number(done.l)
                          moved == IF done.by = "+" THEN i ELSE -i
                      IN  (done.res % 2 ^ LongBits = moved % 2 ^ LongBits)
                             <=> \/ done.l.type.bits = LongBits
                                 \/ Fits(moved, IntType(done.l.type.bits, TRUE))
    BY DEF OffsetsAreC
  <1>1. OffsetDone  BY Kinds DEF Inv, Evaluated
  <1> QED  BY <1>1, OffsetIs DEF OffsetDone

(***************************************************************************)
(* A pointer moves by the number of its index, except exactly when that    *)
(* does not fit the signed type of the index's width.                      *)
(***************************************************************************)
THEOREM PointerOffsets == Spec => []OffsetsAreC
  BY Invariance, OffsetsAreCInv, PTL

\* LiteralsAreC from the invariant.
LEMMA LiteralsAreCInv == Inv => LiteralsAreC
  <1> SUFFICES ASSUME Inv, Evaluated({"literal"})
               PROVE  LET t == IF done.long THEN LongTy ELSE IntTy
                          c == CLiteralType(done.l, done.u, done.long)
                      IN  /\ (Number(done.res) = done.l) <=> Fits(done.l, t)
                          /\ Fits(done.l, c) => (done.res.type = c <=> ~done.u /\ Fits(done.l, t))
    BY DEF LiteralsAreC
  <1>1. LiteralDone  BY Kinds DEF Inv, Evaluated
  <1> DEFINE t == IF done.long THEN LongTy ELSE IntTy
             c == CLiteralType(done.l, done.u, done.long)
  <1>2. /\ (Number(done.res) = done.l) <=> Fits(done.l, t)
        /\ done.res.type = t
    BY <1>1, LiteralIs DEF LiteralDone
  <1>3. Fits(done.l, c) => (t = c <=> ~done.u /\ Fits(done.l, t))
    BY <1>1, LiteralTypeIs DEF LiteralDone
  <1> QED  BY <1>2, <1>3

(***************************************************************************)
(* A literal keeps its number exactly if the signed type its letters name  *)
(* holds it, and of the literals C accepts it has C's type exactly if it   *)
(* moreover has no u.                                                      *)
(***************************************************************************)
THEOREM LiteralNumbers == Spec => []LiteralsAreC
  BY Invariance, LiteralsAreCInv, PTL
=============================================================================
