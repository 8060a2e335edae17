---------------------------- MODULE Conversions ----------------------------
(***************************************************************************)
(* Values and their conversions, value/value.cc, value/value.h and the     *)
(* operators of node/expression.cc.  A step evaluates one expression over  *)
(* operands of any type and value; the instructions of LLVM are modelled   *)
(* by what they do to bit patterns, at widths small enough to try every    *)
(* pattern.  Beside it stands what C99 says of the same expression.        *)
(***************************************************************************)
EXTENDS Integers, FiniteSets

CONSTANTS
    CharBits, ShortBits, IntBits, LongBits,  \* 8, 16, 32, 64 in the code
    MaxFloat,   \* bound: float values are the halves of -MaxFloat .. MaxFloat
    NaN,        \* the float that is not a number
    Poison,     \* the value of an instruction whose result LLVM leaves open
    Halt        \* an error after which HALT() ends the walk

ASSUME WidthsAssumption ==
    /\ {CharBits, ShortBits, IntBits, LongBits} \subseteq Nat
    /\ 1 < CharBits /\ CharBits < ShortBits /\ ShortBits < IntBits /\ IntBits < LongBits
\* The two marks are no numbers of the program.
ASSUME MarksAssumption == MaxFloat \in Nat /\ NaN \notin Int /\ Poison \notin Int

VARIABLES
    lhs,    \* the left operand: a variable, or the value of a subexpression
    done    \* the expression evaluated last with its operands and result

vars == <<lhs, done>>

IntType(b, s) == [kind |-> "int", bits |-> b, signed |-> s]
BoolTy == IntType(1, FALSE)
IntTy == IntType(IntBits, TRUE)
LongTy == IntType(LongBits, TRUE)
\* The getters of unsigned types wrap the signed one.
getIntTy(is_signed) == IntTy
getLongTy(is_signed) == LongTy

VariableTypes == {IntType(b, s) : b \in {CharBits, ShortBits, IntBits, LongBits}, s \in BOOLEAN}
IntTypes == VariableTypes \cup {BoolTy}
FloatTypes == {[kind |-> "float", bits |-> b] : b \in {32, 64}}

Patterns(t) == IF t.kind = "int" THEN 0 .. 2 ^ t.bits - 1
               ELSE (-MaxFloat .. MaxFloat) \cup {NaN}
Value(t, p) == [type |-> t, val |-> p]
ValuesOf(ts) == UNION {{Value(t, p) : p \in Patterns(t)} : t \in ts}
Values == ValuesOf(IntTypes \cup FloatTypes)
IntValues == ValuesOf(IntTypes)

IsInt(v) == v.type.kind = "int"
TopBit(v) == v.val >= 2 ^ (v.type.bits - 1)
Signed(p, bits) == IF p >= 2 ^ (bits - 1) THEN p - 2 ^ bits ELSE p
\* The number a value stands for; floats count halves.
Number(v) == IF IsInt(v) /\ v.val # Poison /\ v.type.signed
             THEN Signed(v.val, v.type.bits) ELSE v.val
-----------------------------------------------------------------------------
(* LLVM's instructions on patterns.                                        *)

\* IRBuilder::CreateIntCast: truncate, or extend with or without the sign.
CreateIntCast(p, from, to, sign) ==
    IF p = Poison THEN Poison
    ELSE IF sign THEN Signed(p, from) % 2 ^ to ELSE p % 2 ^ to

TruncDiv(a, b) == LET q == (IF a < 0 THEN -a ELSE a) \div (IF b < 0 THEN -b ELSE b)
                  IN  IF (a < 0) = (b < 0) THEN q ELSE -q
Fits(n, t) == IF t.signed THEN n \in -(2 ^ (t.bits - 1)) .. 2 ^ (t.bits - 1) - 1
              ELSE n \in 0 .. 2 ^ t.bits - 1

Comparisons == {"<", ">", "<=", ">=", "==", "!="}
Holds(op, x, y) == CASE op = "<" -> x < y
                     [] op = ">" -> x > y
                     [] op = "<=" -> x <= y
                     [] op = ">=" -> x >= y
                     [] op = "==" -> x = y
                     [] op = "!=" -> x # y
Truth(c) == IF c THEN 1 ELSE 0

\* A pattern as the set of its ones, and back.
Bits(p) == {i \in 0 .. LongBits - 1 : (p \div 2 ^ i) % 2 = 1}
FromBits(S) == CHOOSE p \in 0 .. 2 ^ LongBits - 1 : Bits(p) = S

IntInstruction(op, t, a, b) ==
    LET x == Number(Value(t, a))
        y == Number(Value(t, b))
        m == 2 ^ t.bits
    IN  CASE op \in Comparisons -> Truth(Holds(op, x, y))
          [] op = "+" -> (a + b) % m
          [] op = "-" -> (a - b) % m
          [] op = "*" -> (a * b) % m
          [] op \in {"/", "%"} ->
                IF y = 0 \/ ~Fits(TruncDiv(x, y), t) THEN Poison
                ELSE IF op = "/" THEN TruncDiv(x, y) % m ELSE (x - y * TruncDiv(x, y)) % m
          [] op = "<<" -> IF b >= t.bits THEN Poison ELSE (a * 2 ^ b) % m
          [] op = ">>" -> IF b >= t.bits THEN Poison ELSE (x \div 2 ^ b) % m
          [] op = "&" -> FromBits(Bits(a) \cap Bits(b))
          [] op = "|" -> FromBits(Bits(a) \cup Bits(b))
          [] op = "^" -> FromBits((Bits(a) \cup Bits(b)) \ (Bits(a) \cap Bits(b)))

\* The ordered comparisons are false as soon as an operand is NaN, FCmpONE too.
FloatInstruction(op, a, b) ==
    LET nan == NaN \in {a, b}
    IN  CASE op \in Comparisons -> Truth(~nan /\ Holds(op, a, b))
          [] op = "+" -> IF nan THEN NaN ELSE a + b
          [] op = "-" -> IF nan THEN NaN ELSE a - b
-----------------------------------------------------------------------------
IntOnly == {"<<", ">>", "&", "|", "^"}
IntOps == {"+", "-", "*", "/", "%"} \cup IntOnly \cup Comparisons
\* Multiplying and dividing floats is left to LLVM.
FloatOps == {"+", "-"} \cup Comparisons

\* QualifiedValue::cast between arithmetic types.
cast(v, dst) ==
    IF IsInt(v) /\ dst.kind = "int"
    THEN IF dst = v.type THEN v
         ELSE IF dst.bits = 1 THEN Value(dst, IF v.val = 0 THEN 0 ELSE 1)
         ELSE Value(dst, CreateIntCast(v.val, v.type.bits, dst.bits, v.type.signed))
    ELSE IF dst.kind = "int"
    THEN IF dst.bits = 1 THEN Value(dst, FloatInstruction("!=", v.val, 0))
         ELSE Value(dst, IF v.val = NaN \/ ~Fits(TruncDiv(v.val, 2), dst) THEN Poison
                         ELSE TruncDiv(v.val, 2) % 2 ^ dst.bits)
    ELSE Value(dst, IF IsInt(v) THEN 2 * Number(v) ELSE v.val)

\* The operand of rank l is extended as the other operand's type says.
Extended(v, w, sign) == Value(w.type, CreateIntCast(v.val, v.type.bits, w.type.bits, sign))

\* [fault] The left operand of a wider right one is extended by its own sign.
balancedByOwnSign(l, r) ==
    IF l.type.bits < r.type.bits THEN <<Extended(l, r, l.type.signed), r>>
    ELSE <<l, Extended(r, l, r.type.signed)>>

\* cast_binary_expr for two integers; note that the right operand's sign
\* decides both extensions, and that nothing is promoted to int.
balanceIntegers(l, r) ==
    LET rsign == r.type.signed
    IN  IF l.type.bits = r.type.bits
        THEN IF l.type.signed /\ ~rsign THEN <<Extended(l, r, FALSE), r>>
             ELSE IF ~l.type.signed /\ rsign THEN <<l, Extended(r, l, FALSE)>>
             ELSE <<l, r>>
        ELSE IF l.type.bits < r.type.bits THEN <<Extended(l, r, rsign), r>>
        ELSE <<l, Extended(r, l, rsign)>>

\* cast_binary_expr: the operands converted to one type.
cast_binary_expr(l, r) ==
    IF IsInt(l) /\ IsInt(r) THEN balanceIntegers(l, r)
    ELSE IF IsInt(l) THEN <<cast(l, r.type), r>>
    ELSE IF IsInt(r) THEN <<l, cast(r, l.type)>>
    ELSE IF l.type.bits < r.type.bits THEN <<cast(l, r.type), r>>
    ELSE <<l, cast(r, l.type)>>

\* [fault] The comparison of unsigned operands uses the signed instruction.
compareSigned(op, l, r) ==
    Value(BoolTy, IF IsInt(l) THEN IntInstruction(op, IntType(l.type.bits, TRUE), l.val, r.val)
                  ELSE FloatInstruction(op, l.val, r.val))

\* The comparisons choose the instruction by the type of the left operand.
compare(op, l, r) ==
    Value(BoolTy, IF IsInt(l) THEN IntInstruction(op, l.type, l.val, r.val)
                  ELSE FloatInstruction(op, l.val, r.val))

\* add, sub and the other operators on converted operands.
arithmetic(op, l, r) ==
    Value(l.type, IF IsInt(l) THEN IntInstruction(op, l.type, l.val, r.val)
                  ELSE FloatInstruction(op, l.val, r.val))

handle_binary_expr(op, l, r) ==
    LET c == cast_binary_expr(l, r)
    IN  IF op \in IntOnly /\ ~(IsInt(l) /\ IsInt(r)) THEN Halt
        ELSE IF op \in Comparisons THEN compare(op, c[1], c[2])
        ELSE arithmetic(op, c[1], c[2])

\* The unary operators; ! converts to bool first.
handle_unary_expr(op, v) ==
    CASE op = "+" -> v
      [] op = "-" /\ IsInt(v) -> Value(v.type, (-v.val) % 2 ^ v.type.bits)
      [] op = "-" /\ ~IsInt(v) -> Value(v.type, IF v.val = NaN THEN NaN ELSE -v.val)
      [] op = "~" -> IF IsInt(v) THEN Value(v.type, 2 ^ v.type.bits - 1 - v.val) ELSE Halt
      [] op = "!" -> Value(BoolTy, 1 - cast(v, BoolTy).val)

One == Value(getIntTy(TRUE), 1)

\* [fault] The index is extended with zeros.
offsetUnsigned(op, i) == IF op = "+" THEN i.val ELSE (-i.val) % 2 ^ i.type.bits

\* Derefable::offset hands the operand to GEP, which takes every index as
\* signed; p - i negates i at its own width first.
offset(op, i) == Signed(IF op = "+" THEN i.val ELSE (-i.val) % 2 ^ i.type.bits, i.type.bits)

\* strtoll saturates.
Parsed(n) == LET most == 2 ^ (LongBits - 1) - 1 IN IF n > most THEN most ELSE n

\* [fault] The case of u falls through into that of l.
IntegerFallsThrough(n, u, l) ==
    LET t == IF l \/ u THEN getLongTy(~u) ELSE getIntTy(~u)
    IN  Value(t, Parsed(n) % 2 ^ t.bits)

\* An integer literal: the suffix letters choose the type.
Integer(n, u, l) ==
    LET t == IF l THEN getLongTy(~u) ELSE getIntTy(~u)
    IN  Value(t, Parsed(n) % 2 ^ t.bits)

-----------------------------------------------------------------------------
None == [op |-> "none"]

\* A binary operator on two rvalues.
Binary(op, r) ==
    /\ done = None
    /\ (IsInt(lhs) /\ IsInt(r)) \/ op \in FloatOps \cup IntOnly
    /\ done' = [op |-> op, l |-> lhs, r |-> r, res |-> handle_binary_expr(op, lhs, r)]
    /\ UNCHANGED lhs

\* [fault] The result is stored without a cast.
AssignedUncast(op, l, r) == IF op = "" THEN r ELSE handle_binary_expr(op, l, r)

\* x op= y: the operator on a loaded copy of x, then the store, which casts.
\* ++ and -- are the same with the int 1.
Assigned(op, l, r) ==
    LET res == IF op = "" THEN r ELSE handle_binary_expr(op, l, r)
    IN  IF res = Halt THEN Halt ELSE cast(res, l.type)

Assign(op, r) ==
    /\ done = None
    /\ IsInt(lhs) /\ IsInt(r) /\ lhs.type \in VariableTypes
    /\ Assigned(op, lhs, r) # Halt /\ Assigned(op, lhs, r).val # Poison
    /\ lhs' = Assigned(op, lhs, r)
    /\ done' = [op |-> "assign", by |-> op, l |-> lhs, r |-> r, res |-> lhs']

Increment(op) ==
    /\ op \in {"+", "-"}
    /\ Assign(op, One)

Unary(op) ==
    /\ done = None
    /\ done' = [op |-> "unary", by |-> op, l |-> lhs, res |-> handle_unary_expr(op, lhs)]
    /\ UNCHANGED lhs

\* An explicit cast, the argument of a call, a returned value.
Cast(t) ==
    /\ done = None
    /\ done' = [op |-> "cast", l |-> lhs, r |-> t, res |-> cast(lhs, t)]
    /\ UNCHANGED lhs

Offset(op) ==
    /\ done = None
    /\ IsInt(lhs)
    /\ done' = [op |-> "offset", by |-> op, l |-> lhs, res |-> offset(op, lhs)]
    /\ UNCHANGED lhs

Literal(n, u, l) ==
    /\ done = None
    /\ done' = [op |-> "literal", l |-> n, u |-> u, long |-> l, res |-> Integer(n, u, l)]
    /\ UNCHANGED lhs

Init == lhs \in ValuesOf(VariableTypes \cup FloatTypes) /\ done = None

\* The value of an expression is the left operand of the one around it.
Usable == done.op # "offset" /\ done.res # Halt
          /\ done.res \in Values

NextExpression ==
    /\ done # None
    /\ lhs' = IF Usable THEN done.res ELSE lhs
    /\ done' = None

Next ==
    \/ NextExpression
    \/ \E op \in IntOps, r \in Values : Binary(op, r)
    \/ \E op \in IntOps \cup {""}, r \in IntValues : Assign(op, r)
    \/ \E op \in {"+", "-"} : Increment(op)
    \/ \E op \in {"+", "-", "~", "!"} : Unary(op)
    \/ \E t \in IntTypes \cup FloatTypes : Cast(t)
    \/ \E op \in {"+", "-"} : Offset(op)
    \/ \E n \in 0 .. 2 ^ LongBits - 1, u \in BOOLEAN, l \in BOOLEAN : Literal(n, u, l)

Spec == Init /\ [][Next]_vars
-----------------------------------------------------------------------------
(* C99: values are a type and a number.                                    *)

CPromote(t) == IF t.kind = "int" /\ t.bits < IntBits THEN IntTy ELSE t
\* The usual arithmetic conversions.
CCommon(t, u) ==
    LET a == CPromote(t)
        b == CPromote(u)
    IN  IF a.kind = "float" /\ b.kind = "float" THEN IF a.bits < b.bits THEN b ELSE a
        ELSE IF a.kind = "float" THEN a ELSE IF b.kind = "float" THEN b
        ELSE IF a.bits # b.bits THEN IF a.bits < b.bits THEN b ELSE a
        ELSE IntType(a.bits, a.signed /\ b.signed)
CWrap(n, t) == IF t.signed THEN Signed(n % 2 ^ t.bits, t.bits) ELSE n % 2 ^ t.bits
\* A number converted to an integer type; n counts halves when it was a float.
CConvertInt(n, from, t) ==
    LET whole == IF from.kind = "int" THEN n ELSE TruncDiv(n, 2)
    IN  IF t.bits = 1 THEN IF n = 0 THEN 0 ELSE 1
        ELSE IF from.kind = "float" /\ (n = NaN \/ ~Fits(whole, t)) THEN Poison
        ELSE CWrap(whole, t)
CConvert(n, from, t) ==
    IF t.kind = "int" THEN CConvertInt(n, from, t)
    ELSE IF from.kind = "int" THEN 2 * n ELSE n

\* A signed result that does not fit is undefined, an unsigned one wraps.
CResult(n, t) == IF t.signed THEN IF Fits(n, t) THEN n ELSE Poison ELSE n % 2 ^ t.bits
\* The number of an integer operation of C, Poison when it is undefined.
CInt(op, l, r) ==
    LET t == IF op \in {"<<", ">>"} THEN CPromote(l.type) ELSE CCommon(l.type, r.type)
        x == CWrap(Number(l), t)
        y == IF op \in {"<<", ">>"} THEN Number(r) ELSE CWrap(Number(r), t)
    IN  CASE op = "+" -> CResult(x + y, t)
          [] op = "-" -> CResult(x - y, t)
          [] op = "*" -> CResult(x * y, t)
          [] op = "/" -> IF y = 0 THEN Poison ELSE CResult(TruncDiv(x, y), t)
          [] op = "%" -> IF y = 0 \/ ~Fits(TruncDiv(x, y), t) THEN Poison
                         ELSE x - y * TruncDiv(x, y)
          [] op = "<<" -> IF y < 0 \/ y >= t.bits \/ x < 0 THEN Poison ELSE CResult(x * 2 ^ y, t)
          [] op = ">>" -> IF y < 0 \/ y >= t.bits THEN Poison ELSE x \div 2 ^ y
          [] op \in Comparisons -> Truth(Holds(op, x, y))
          [] OTHER -> CWrap(IntInstruction(op, t, x % 2 ^ t.bits, y % 2 ^ t.bits), t)
CUnary(op, v) == CASE op = "+" -> CWrap(Number(v), CPromote(v.type))
                   [] op = "-" -> CResult(-CWrap(Number(v), CPromote(v.type)), CPromote(v.type))
                   [] op = "~" -> CWrap(-Number(v) - 1, CPromote(v.type))
                   [] op = "!" -> Truth(Number(v) = 0)
-----------------------------------------------------------------------------
Evaluated(ops) == done.op \in ops
IntsEvaluated(ops) == done.op \in ops /\ IsInt(done.l) /\ IsInt(done.r)
Narrow(v) == v.type.bits < IntBits

\* The narrower left operand has the other sign and its top bit set.
WrongExtension(l, r) ==
    l.type.bits < r.type.bits /\ l.type.signed # r.type.signed /\ TopBit(l)
\* Two operands narrower than int meet in an unsigned type, one is negative.
LostSign(l, r) ==
    LET c == balanceIntegers(l, r)
    IN  Narrow(l) /\ Narrow(r) /\ ~c[1].type.signed /\ (Number(l) < 0 \/ Number(r) < 0)
ConvertedAsC(l, r) ==
    LET c == balanceIntegers(l, r)
        t == CCommon(l.type, r.type)
    IN  Number(c[1]) = CWrap(Number(l), t) /\ Number(c[2]) = CWrap(Number(r), t)

CastAsC(v, t, res) ==
    LET c == CConvert(Number(v), v.type, t)
    IN  c = Poison \/ (res.type = t /\ Number(res) = c)

(***************************************************************************)
(* cast_binary_expr gives both integer operands the numbers C's usual      *)
(* arithmetic conversions give them, except exactly when it extends a      *)
(* narrower left operand by the right one's sign, or mixes signs below int *)
(* without promoting.  QualifiedValue::cast keeps or converts every number *)
(* as C does, bool included; only NaN becomes false.                       *)
(***************************************************************************)
ConversionsAreC ==
    /\ IntsEvaluated(IntOps) =>
          (ConvertedAsC(done.l, done.r) <=> ~(WrongExtension(done.l, done.r) \/ LostSign(done.l, done.r)))
    /\ Evaluated({"cast"}) =>
          CastAsC(done.l, done.r, done.res) \/ (done.r = BoolTy /\ done.l.val = NaN)

\* The left operand of a shift keeps its type and the amount is within it.
ShiftAsC(l, r) ==
    balanceIntegers(l, r)[1].type = l.type /\ Number(r) \in 0 .. l.type.bits - 1

\* C's result of an operator with a float operand.
FloatAsC(op, l, r, res) ==
    LET t == CCommon(l.type, r.type)
        x == CConvert(Number(l), l.type, t)
        y == CConvert(Number(r), r.type, t)
        nan == NaN \in {x, y}
    IN  IF op \in Comparisons
        THEN res.val = Truth(~nan /\ Holds(op, x, y))
        ELSE res = Value(t, IF nan THEN NaN ELSE IF op = "+" THEN x + y ELSE x - y)

(***************************************************************************)
(* On operands converted as in C every integer operator chooses the        *)
(* instruction whose result is C's, whenever C defines one that fits the   *)
(* type the code gives it (it does not promote to int).  With a float      *)
(* operand the other is converted by its own sign and the result is C's,   *)
(* NaN included; only != is false on NaN (FCmpONE).                        *)
(***************************************************************************)
OperatorsAreC ==
    /\ IntsEvaluated(IntOps) =>
          LET l == done.l
              r == done.r
              c == CInt(done.op, l, r)
          IN  (/\ IF done.op \in {"<<", ">>"} THEN ShiftAsC(l, r) ELSE ConvertedAsC(l, r)
               /\ c # Poison /\ Fits(c, done.res.type)
               /\ done.op = "%" => Fits(TruncDiv(Number(l), Number(r)), done.res.type))
                    => Number(done.res) = c
    /\ Evaluated({"unary"}) /\ IsInt(done.l) =>
          LET c == CUnary(done.by, done.l)
          IN  c # Poison /\ Fits(c, done.res.type) => Number(done.res) = c
    /\ Evaluated(FloatOps) /\ ~(IsInt(done.l) /\ IsInt(done.r)) =>
          FloatAsC(done.op, done.l, done.r, done.res)

(***************************************************************************)
(* x op= y, ++x and --x store what C stores for + - * & | ^ and = on every *)
(* integer type and value: the wrong extensions of cast_binary_expr lie    *)
(* above the bits that QualifiedValue::store keeps.                        *)
(***************************************************************************)
CompoundAssignmentsAreC ==
    Evaluated({"assign"}) /\ done.by \in {"", "+", "-", "*", "&", "|", "^"} =>
        LET c == IF done.by = "" THEN Number(done.r) ELSE CInt(done.by, done.l, done.r)
        IN  c # Poison => Number(done.res) = CWrap(c, done.l.type)

(***************************************************************************)
(* p + i and p[i] address the element i says, except that an unsigned      *)
(* index narrower than a pointer is taken as negative from half its range  *)
(* on; p - i moreover loses the numbers whose negation does not fit i.     *)
(***************************************************************************)
OffsetsAreC ==
    Evaluated({"offset"}) =>
        LET i == Number(done.l)
            moved == IF done.by = "+" THEN i ELSE -i
        IN  (done.res % 2 ^ LongBits = moved % 2 ^ LongBits)
                <=> \/ done.l.type.bits = LongBits
                    \/ Fits(moved, IntType(done.l.type.bits, TRUE))

\* C99 6.4.4.1 for decimal literals: the first type of its suffix that holds n.
CLiteralType(n, u, l) ==
    IF ~l /\ Fits(n, IntType(IntBits, ~u)) THEN IntType(IntBits, ~u) ELSE IntType(LongBits, ~u)

(***************************************************************************)
(* A literal keeps its number exactly if that fits the signed type its     *)
(* letters name: strtoll saturates, and none becomes long by its size.  Of *)
(* the literals C accepts it has C's type exactly if it has no u (the      *)
(* unsigned getters return the signed type) and fits that type.            *)
(***************************************************************************)
LiteralsAreC ==
    Evaluated({"literal"}) =>
        LET t == IF done.long THEN LongTy ELSE IntTy
            c == CLiteralType(done.l, done.u, done.long)
        IN  /\ (Number(done.res) = done.l) <=> Fits(done.l, t)
            /\ Fits(done.l, c) => (done.res.type = c <=> ~done.u /\ Fits(done.l, t))
=============================================================================
