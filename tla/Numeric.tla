------------------------------ MODULE Numeric ------------------------------
(***************************************************************************)
(* The numeric instructions of exec.rs (num and the functions it calls)    *)
(* over bit patterns, with the widths of the types as parameters: integers *)
(* of Width[t] bits, floats of Exp[t] exponent and Frac[t] fraction bits.  *)
(* The arithmetic of floats (add, sqrt, conversion from integers and the   *)
(* rest that is one Rust operation) is the machine's and is left out.      *)
(***************************************************************************)
EXTENDS Integers

CONSTANTS
  Width,      \* bits of "i32" and "i64"
  Exp, Frac,  \* exponent and fraction bits of "f32" and "f64"
  Ops,        \* the instructions to run
  Operands,   \* the bit patterns to run them on, by type
  None

Ints   == {"i32", "i64"}
Floats == {"f32", "f64"}

\* What the constants are; MCNumbers assumes it of the values it gives.
NumericAssumption ==
  /\ Width \in [Ints -> Nat \ {0}]
  /\ Exp \in [Floats -> Nat \ {0}] /\ Frac \in [Floats -> Nat \ {0}]
  /\ \A t \in Ints   : Operands[t] \subseteq 0 .. 2^Width[t] - 1
  /\ \A t \in Floats : Operands[t] \subseteq 0 .. 2^(1 + Exp[t] + Frac[t]) - 1

VARIABLES todo, result

vars == <<todo, result>>

-----------------------------------------------------------------------------
(* Integers as Rust has them.                                              *)

Signed(a, w)   == IF a >= 2^(w - 1) THEN a - 2^w ELSE a      \* as i32
Wrapped(n, w)  == n % 2^w                                    \* as u32, wrapping_*
Abs(n) == IF n < 0 THEN -n ELSE n
Bit(a, k) == (a \div 2^k) % 2
Bool(p) == IF p THEN 1 ELSE 0

\* Division of Rust's signed integers: towards zero
Quotient(a, b) == IF (a < 0) = (b < 0) THEN Abs(a) \div Abs(b) ELSE -(Abs(a) \div Abs(b))
Remainder(a, b) == a - b * Quotient(a, b)

\* The number whose bits are f
FromBits(f, w) ==
  LET s[k \in 0 .. w] == IF k = 0 THEN 0 ELSE s[k - 1] + f[k - 1] * 2^(k - 1)
  IN s[w]
Bitwise2(a, b, w, F(_, _)) == FromBits([k \in 0 .. w - 1 |-> F(Bit(a, k), Bit(b, k))], w)

\* wrapping_shl and the rest: only the low bits of the count matter
Masked(b, w) == b % w

Shl(a, k, w)  == Wrapped(a * 2^k, w)
ShrU(a, k)    == a \div 2^k
ShrS(a, k, w) == Wrapped(Signed(a, w) \div 2^k, w)

Rotl(a, k, w) == Shl(a, k, w) + a \div 2^(w - k)
Rotr(a, k, w) == a \div 2^k + Wrapped(a * 2^(w - k), w)

\* bits up to the highest one that is set
Length(a, w) == CHOOSE k \in 0 .. w : a < 2^k /\ (k = 0 \/ a >= 2^(k - 1))
LeadingZeros(a, w) == w - Length(a, w)
TrailingZeros(a, w) == CHOOSE k \in 0 .. w : a % 2^k = 0 /\ (k = w \/ Bit(a, k) = 1)
CountOnes(a, w) ==
  LET s[k \in 0 .. w] == IF k = 0 THEN 0 ELSE s[k - 1] + Bit(a, k - 1)
  IN s[w]

\* "as i8 as i32 as u32": n bits, sign-extended to w
ExtendBits(a, n, w) == Wrapped(Signed(Wrapped(a, n), n), w)

-----------------------------------------------------------------------------
(* Instructions on integers.  A result is [val] or [trap].                 *)

Val(v)  == [val |-> v]
Trap(s) == [trap |-> s]

Compare(op, a, b, w) ==
  LET sa == Signed(a, w)
      sb == Signed(b, w)
  IN Bool(CASE op = "eq" -> a = b       [] op = "ne" -> a # b
            [] op = "lt_s" -> sa < sb   [] op = "lt_u" -> a < b
            [] op = "gt_s" -> sa > sb   [] op = "gt_u" -> a > b
            [] op = "le_s" -> sa <= sb  [] op = "le_u" -> a <= b
            [] op = "ge_s" -> sa >= sb  [] op = "ge_u" -> a >= b)

Arith(op, a, b, w) ==
  LET k == Masked(b, w)
  IN CASE op = "add" -> Wrapped(a + b, w)
       [] op = "sub" -> Wrapped(a - b, w)
       [] op = "mul" -> Wrapped(a * b, w)
       [] op = "and" -> Bitwise2(a, b, w, LAMBDA x, y : x * y)
       [] op = "or"  -> Bitwise2(a, b, w, LAMBDA x, y : x + y - x * y)
       [] op = "xor" -> Bitwise2(a, b, w, LAMBDA x, y : (x + y) % 2)
       [] op = "shl" -> Shl(a, k, w)
       [] op = "shr_s" -> ShrS(a, k, w)
       [] op = "shr_u" -> ShrU(a, k)
       [] op = "rotl" -> Rotl(a, k, w)
       [] op = "rotr" -> Rotr(a, k, w)

\* overflowing_div
DivOverflows(a, b, w) == Signed(a, w) = -2^(w - 1) /\ Signed(b, w) = -1

\* Mutant of Divide: the remainder traps where the quotient does.
DivideRemTraps(op, a, b, w) ==
  CASE b = 0 -> Trap("integer divide by zero")
    [] b # 0 /\ op \in {"div_s", "rem_s"} /\ DivOverflows(a, b, w) -> Trap("integer overflow")
    [] b # 0 /\ op = "div_s" /\ ~DivOverflows(a, b, w) -> Val(Wrapped(Quotient(Signed(a, w), Signed(b, w)), w))
    [] b # 0 /\ op = "rem_s" /\ ~DivOverflows(a, b, w) -> Val(Wrapped(Remainder(Signed(a, w), Signed(b, w)), w))
    [] b # 0 /\ op = "div_u" -> Val(a \div b)
    [] b # 0 /\ op = "rem_u" -> Val(a % b)

\* The one quotient that does not fit traps; its remainder does not
Divide(op, a, b, w) ==
  CASE b = 0 -> Trap("integer divide by zero")
    [] b # 0 /\ op = "div_s" ->
         IF DivOverflows(a, b, w) THEN Trap("integer overflow")
         ELSE Val(Wrapped(Quotient(Signed(a, w), Signed(b, w)), w))
    [] b # 0 /\ op = "rem_s" -> Val(Wrapped(Remainder(Signed(a, w), Signed(b, w)), w))
    [] b # 0 /\ op = "div_u" -> Val(a \div b)
    [] b # 0 /\ op = "rem_u" -> Val(a % b)

Unary(op, a, w) ==
  CASE op = "eqz" -> Bool(a = 0)
    [] op = "clz" -> LeadingZeros(a, w)
    [] op = "ctz" -> TrailingZeros(a, w)
    [] op = "popcnt" -> CountOnes(a, w)

\* Between the widths, and within one: n bits of an integer of t
Resize(op, a, n, t) ==
  CASE op = "wrap" -> Wrapped(a, Width[t])
    [] op = "extend_u" -> a
    [] op = "extend_s" -> ExtendBits(a, n, Width[t])

-----------------------------------------------------------------------------
(* Floats.  The value of a finite pattern is a whole number of the format's*)
(* smallest step; One steps make 1.  Infinities are beyond all others.     *)

Bits(t) == 1 + Exp[t] + Frac[t]
SignOf(a, t) == Bit(a, Bits(t) - 1)
Unsign(a, t) == a % 2^(Bits(t) - 1)
ExpOf(a, t)  == Unsign(a, t) \div 2^Frac[t]
FracOf(a, t) == a % 2^Frac[t]
MaxExp(t) == 2^Exp[t] - 1
IsNan(a, t) == ExpOf(a, t) = MaxExp(t) /\ FracOf(a, t) # 0
IsInf(a, t) == ExpOf(a, t) = MaxExp(t) /\ FracOf(a, t) = 0
QuietBit(t) == 2^(Frac[t] - 1)

\* The exponent of 1 is the bias
One(t) == 2^(2^(Exp[t] - 1) - 2 + Frac[t])

Steps(a, t) ==
  LET m == IF ExpOf(a, t) = 0 THEN FracOf(a, t)
           ELSE (2^Frac[t] + FracOf(a, t)) * 2^(ExpOf(a, t) - 1)
  IN IF SignOf(a, t) = 1 THEN -m ELSE m

\* quiet32
Quiet(a, t) == IF FracOf(a, t) >= QuietBit(t) THEN a ELSE a + QuietBit(t)

\* fmin32: NaN first, then the zero with the sign, then the order
FMin(a, b, t) ==
  CASE IsNan(a, t) -> Quiet(a, t)
    [] ~IsNan(a, t) /\ IsNan(b, t) -> Quiet(b, t)
    [] ~IsNan(a, t) /\ ~IsNan(b, t) ->
         IF Steps(a, t) = Steps(b, t) THEN (IF SignOf(a, t) = 1 THEN a ELSE b)
         ELSE IF Steps(a, t) < Steps(b, t) THEN a ELSE b

FMax(a, b, t) ==
  CASE IsNan(a, t) -> Quiet(a, t)
    [] ~IsNan(a, t) /\ IsNan(b, t) -> Quiet(b, t)
    [] ~IsNan(a, t) /\ ~IsNan(b, t) ->
         IF Steps(a, t) = Steps(b, t) THEN (IF SignOf(a, t) = 0 THEN a ELSE b)
         ELSE IF Steps(a, t) > Steps(b, t) THEN a ELSE b

FCompare(op, a, b, t) ==
  LET x == Steps(a, t)
      y == Steps(b, t)
  IN Bool(IF IsNan(a, t) \/ IsNan(b, t) THEN op = "fne"
          ELSE CASE op = "feq" -> x = y  [] op = "fne" -> x # y
                 [] op = "flt" -> x < y  [] op = "fgt" -> x > y
                 [] op = "fle" -> x <= y [] op = "fge" -> x >= y)

\* Sign bits are changed without looking at the rest
FSign(op, a, b, t) ==
  CASE op = "fabs" -> Unsign(a, t)
    [] op = "fneg" -> Unsign(a, t) + (1 - SignOf(a, t)) * 2^(Bits(t) - 1)
    [] op = "fcopysign" -> Unsign(a, t) + SignOf(b, t) * 2^(Bits(t) - 1)

\* Whole numbers near n steps, in steps
Down(n, t) == (n \div One(t)) * One(t)
Up(n, t)   == -Down(-n, t)
ToZero(n, t) == IF n < 0 THEN Up(n, t) ELSE Down(n, t)
Even(n, t) == (n \div One(t)) % 2 = 0

Nearest(n, t) ==
  LET lo == Down(n, t)
      hi == Up(n, t)
  IN IF n - lo < hi - n \/ (n - lo = hi - n /\ Even(lo, t)) THEN lo ELSE hi

\* ceil32 and the others: a quiet NaN; otherwise the machine's rounding,
\* which keeps the sign, also of a zero
Round(op, a, t) ==
  LET n == Steps(a, t)
      r == CASE op = "fceil" -> Up(n, t) [] op = "ffloor" -> Down(n, t)
             [] op = "ftrunc" -> ToZero(n, t) [] op = "fnearest" -> Nearest(n, t)
  IN IF IsNan(a, t) THEN Quiet(a, t)
     ELSE IF IsInf(a, t) THEN a
     ELSE CHOOSE x \in 0 .. 2^Bits(t) - 1 :
            /\ ~IsNan(x, t) /\ Steps(x, t) = r /\ SignOf(x, t) = SignOf(a, t)

\* f64::from(f32), as a value: steps of the wider format
Widen(n) == n * (One("f64") \div One("f32"))

\* Mutant of InRange: the upper end of every range is included.
InRangeClosed(n, t, lo, hi, closed) == lo * One(t) <= n /\ n <= hi * One(t)

\* The tests after trunc(), in the format of the operand: 32-bit bounds are
\* the last integers, included, 64-bit bounds the powers of two, excluded
InRange(n, t, lo, hi, closed) ==
  /\ lo * One(t) <= n
  /\ n < hi * One(t) \/ (closed /\ n = hi * One(t))

\* trunc_to_i32, trunc_to_u32, trunc_f32_to_i64 and the rest
Truncate(a, t, to, sx) ==
  LET w  == Width[to]
      n  == Steps(a, t)
      v  == IF to = "i32" /\ t = "f32" THEN Widen(n) ELSE n
      ft == IF to = "i32" THEN "f64" ELSE t
      lo == IF sx = "s" THEN -2^(w - 1) ELSE 0
      hi == IF sx = "s" THEN 2^(w - 1) ELSE 2^w
      z  == ToZero(v, ft)
  IN CASE IsNan(a, t) -> Trap("invalid conversion to integer")
       [] ~IsNan(a, t) ->
            IF IF to = "i32" THEN InRange(z, ft, lo, hi - 1, TRUE) ELSE InRange(z, ft, lo, hi, FALSE)
            THEN Val(Wrapped(z \div One(ft), w)) ELSE Trap("integer overflow")

\* Rust's "as": NaN is zero, the rest is clamped
TruncateSat(a, t, to, sx) ==
  LET w  == Width[to]
      lo == IF sx = "s" THEN -2^(w - 1) ELSE 0
      hi == (IF sx = "s" THEN 2^(w - 1) ELSE 2^w) - 1
      z  == ToZero(Steps(a, t), t) \div One(t)
  IN IF IsNan(a, t) THEN 0
     ELSE Wrapped(IF z < lo THEN lo ELSE IF z > hi THEN hi ELSE z, w)

-----------------------------------------------------------------------------
(* num().                                                                  *)

CompareOps == {"eq", "ne", "lt_s", "lt_u", "gt_s", "gt_u", "le_s", "le_u", "ge_s", "ge_u"}
ArithOps   == {"add", "sub", "mul", "and", "or", "xor", "shl", "shr_s", "shr_u", "rotl", "rotr"}
DivideOps  == {"div_s", "div_u", "rem_s", "rem_u"}
UnaryOps   == {"eqz", "clz", "ctz", "popcnt"}
FCompareOps == {"feq", "fne", "flt", "fgt", "fle", "fge"}
SignOps    == {"fabs", "fneg", "fcopysign"}
RoundOps   == {"fceil", "ffloor", "ftrunc", "fnearest"}

Call(op, t, a, b) == [op |-> op, t |-> t, a |-> a, b |-> b]
Cast(op, from, to, sx, n, a) ==
  [op |-> op, t |-> from, to |-> to, sx |-> sx, n |-> n, a |-> a]

Init == todo = None /\ result = None

Fetches(c) == todo' = c /\ result' = None

\* pop, pop: the second operand is above the first
FetchBinary ==
  /\ todo = None
  /\ \/ \E t \in Ints : \E a, b \in Operands[t] :
         \E op \in Ops \cap (CompareOps \cup ArithOps \cup DivideOps) : Fetches(Call(op, t, a, b))
     \/ \E t \in Floats : \E a, b \in Operands[t] :
         \E op \in Ops \cap (FCompareOps \cup {"fcopysign", "fmin", "fmax"}) : Fetches(Call(op, t, a, b))

FetchUnary ==
  /\ todo = None
  /\ \/ \E t \in Ints : \E a \in Operands[t] :
         \E op \in Ops \cap UnaryOps : Fetches(Call(op, t, a, None))
     \/ \E t \in Floats : \E a \in Operands[t] :
         \E op \in Ops \cap (RoundOps \cup {"fabs", "fneg"}) : Fetches(Call(op, t, a, None))

FetchCast ==
  /\ todo = None
  /\ \/ \E a \in Operands["i64"] : \E op \in Ops \cap {"wrap"} :
         Fetches(Cast(op, "i64", "i32", "u", Width["i32"], a))
     \/ \E a \in Operands["i32"] : \E op \in Ops \cap {"extend_s", "extend_u"} :
         Fetches(Cast(op, "i32", "i64", "s", Width["i32"], a))
     \/ \E t \in Ints : \E n \in 1 .. Width[t] - 1, a \in Operands[t] :
         \E op \in Ops \cap {"extend_s"} : Fetches(Cast(op, t, t, "s", n, a))
     \/ \E t \in Floats : \E to \in Ints, sx \in {"s", "u"}, a \in Operands[t] :
         \E op \in Ops \cap {"trunc", "trunc_sat"} : Fetches(Cast(op, t, to, sx, 0, a))

Num(c) ==
  CASE c.op \in CompareOps -> Val(Compare(c.op, c.a, c.b, Width[c.t]))
    [] c.op \in ArithOps   -> Val(Arith(c.op, c.a, c.b, Width[c.t]))
    [] c.op \in DivideOps  -> Divide(c.op, c.a, c.b, Width[c.t])
    [] c.op \in UnaryOps   -> Val(Unary(c.op, c.a, Width[c.t]))
    [] c.op \in {"wrap", "extend_s", "extend_u"} -> Val(Resize(c.op, c.a, c.n, c.to))
    [] c.op \in FCompareOps -> Val(FCompare(c.op, c.a, c.b, c.t))
    [] c.op \in SignOps -> Val(FSign(c.op, c.a, c.b, c.t))
    [] c.op = "fmin" -> Val(FMin(c.a, c.b, c.t))
    [] c.op = "fmax" -> Val(FMax(c.a, c.b, c.t))
    [] c.op \in RoundOps -> Val(Round(c.op, c.a, c.t))
    [] c.op = "trunc" -> Truncate(c.a, c.t, c.to, c.sx)
    [] c.op = "trunc_sat" -> Val(TruncateSat(c.a, c.t, c.to, c.sx))

Step ==
  /\ todo # None /\ result = None
  /\ result' = Num(todo)
  /\ UNCHANGED todo

\* push, or the trap to the embedder
Deliver ==
  /\ result # None
  /\ todo' = None /\ result' = None

Next == FetchBinary \/ FetchUnary \/ FetchCast \/ Step \/ Deliver

Spec == Init /\ [][Next]_vars
=============================================================================
