--------------------------- MODULE NumericProps ---------------------------
(***************************************************************************)
(* What the numeric instructions mean, by the WebAssembly specification:   *)
(* stated over bits and whole numbers, without the functions of Numeric    *)
(* that stand for the code's own.                                          *)
(***************************************************************************)
EXTENDS Numeric, FiniteSets

Done(os) == result # None /\ todo.op \in os
A == todo.a
B == todo.b
T == todo.t
R == result.val

\* The number a pattern stands for when it is read as signed
AsSigned(a, w) == IF Bit(a, w - 1) = 1 THEN a - 2^w ELSE a

BitsOf(t) == IF t \in Ints THEN Width[t] ELSE 1 + Exp[t] + Frac[t]
ResultBits ==
  IF todo.op \in CompareOps \cup FCompareOps \cup {"eqz"} THEN 1
  ELSE IF todo.op \in {"wrap", "extend_s", "extend_u", "trunc", "trunc_sat"} THEN BitsOf(todo.to)
  ELSE BitsOf(todo.t)

\* Results fit the type that is pushed; only divisions and truncations trap.
TypeOK ==
  /\ todo = None => result = None
  /\ result # None =>
       IF "val" \in DOMAIN result THEN R \in 0 .. 2^ResultBits - 1
       ELSE todo.op \in DivideOps \cup {"trunc"}

\* Sums, differences and products agree with the integers up to the width;
\* logic works bit by bit; the ten orders are those of the numbers, signed
\* or not (I32Add .. I32Xor, I32Eq .. I32GeU and their 64-bit twins).
IntegersAgree ==
  LET w == Width[T]
      x(s) == IF s THEN AsSigned(A, w) ELSE A
      y(s) == IF s THEN AsSigned(B, w) ELSE B
      Same(n) == (R - n) % 2^w = 0
      Tells(p) == R = IF p THEN 1 ELSE 0
      sx == todo.op \in {"lt_s", "gt_s", "le_s", "ge_s"}
  IN /\ Done({"add"}) => Same(A + B)
     /\ Done({"sub"}) => Same(A - B)
     /\ Done({"mul"}) => Same(x(TRUE) * y(TRUE))
     /\ Done({"and", "or", "xor"}) => \A k \in 0 .. w - 1 :
          Bit(R, k) = 1 <=> (CASE todo.op = "and" -> Bit(A, k) = 1 /\ Bit(B, k) = 1
                               [] todo.op = "or"  -> Bit(A, k) = 1 \/ Bit(B, k) = 1
                               [] todo.op = "xor" -> Bit(A, k) # Bit(B, k))
     /\ Done({"eq"}) => Tells(\A k \in 0 .. w - 1 : Bit(A, k) = Bit(B, k))
     /\ Done({"ne"}) => Tells(A # B)
     /\ Done({"lt_s", "lt_u"}) => Tells(x(sx) < y(sx))
     /\ Done({"gt_s", "gt_u"}) => Tells(x(sx) > y(sx))
     /\ Done({"le_s", "le_u"}) => Tells(x(sx) <= y(sx))
     /\ Done({"ge_s", "ge_u"}) => Tells(x(sx) >= y(sx))

\* Division: by zero traps as such; the quotient and the remainder are the
\* numbers with a = q * b + r, r smaller than b and with the sign of a; of
\* these only a quotient that does not fit traps (I32DivS .. I64RemU).
DivisionIsExact ==
  Done(DivideOps) =>
    LET w  == Width[T]
        sx == todo.op \in {"div_s", "rem_s"}
        x  == IF sx THEN AsSigned(A, w) ELSE A
        y  == IF sx THEN AsSigned(B, w) ELSE B
        \* quotients of patterns of w bits are between these
        Exact(q, r) == x = q * y + r /\ Abs(r) < Abs(y) /\ (r # 0 => (r < 0) = (x < 0))
        n  == IF sx THEN AsSigned(R, w) ELSE R
    IN IF y = 0 THEN result = [trap |-> "integer divide by zero"]
       ELSE IF todo.op \in {"rem_s", "rem_u"}
       THEN "val" \in DOMAIN result /\ \E q \in -2^w .. 2^w : Exact(q, n)
       ELSE \/ result = [trap |-> "integer overflow"] /\ Exact(2^(w - 1), 0) /\ sx
            \/ "val" \in DOMAIN result /\ Exact(n, x - n * y)

\* Shifts and rotations move every bit by the count modulo the width, and
\* fill with zeros, the sign or what left on the other side; counts of bits
\* are right for zero too (I32Shl .. I32Rotr, I32Clz, I32Ctz, I32Popcnt).
BitsMove ==
  LET w == Width[T]
      n == B % w
      \* where bit k of the result comes from
      From(k) == IF todo.op \in {"shl", "rotl"} THEN k - n ELSE k + n
      Filled(k) == IF todo.op \in {"rotl", "rotr"} THEN Bit(A, From(k) % w)
                   ELSE IF todo.op = "shr_s" THEN Bit(A, w - 1) ELSE 0
      ones == {k \in 0 .. w - 1 : Bit(A, k) = 1}
  IN /\ Done({"shl", "shr_s", "shr_u", "rotl", "rotr"}) =>
          \A k \in 0 .. w - 1 :
            Bit(R, k) = IF From(k) \in 0 .. w - 1 THEN Bit(A, From(k)) ELSE Filled(k)
     /\ Done({"clz"}) => R \in 0 .. w /\ ones \subseteq 0 .. w - 1 - R /\ (R < w => w - 1 - R \in ones)
     /\ Done({"ctz"}) => R \in 0 .. w /\ ones \subseteq R .. w - 1 /\ (R < w => R \in ones)
     /\ Done({"popcnt"}) => R = Cardinality(ones)
     /\ Done({"eqz"}) => (R = 1) <=> (ones = {})

\* Changes of width keep the low bits; above them an extension repeats the
\* sign or has zeros, and the number is the same (I64ExtendI32S, I32Extend8S
\* and the rest, I32WrapI64).
ExtensionsKeepTheNumber ==
  Done({"wrap", "extend_s", "extend_u"}) =>
    LET w == Width[todo.to]
    IN \A k \in 0 .. w - 1 :
         Bit(R, k) = IF todo.op = "wrap" \/ k < todo.n THEN Bit(A, k)
                     ELSE IF todo.op = "extend_s" THEN Bit(A, todo.n - 1) ELSE 0

-----------------------------------------------------------------------------
(* Floats.                                                                 *)

\* The value in steps of the format, a NaN apart
Nan(a, t) == a % 2^(Bits(t) - 1) > MaxExp(t) * 2^Frac[t]
Negative(a, t) == a >= 2^(Bits(t) - 1)

\* Of the relations of two floats exactly one holds, unless one is a NaN:
\* then they are only unequal.  Zeros are equal; between numbers of one sign
\* the order is that of the patterns, reversed below zero (F32Eq .. F32Ge).
FloatOrder ==
  Done(FCompareOps) =>
    LET t == T
        zero == Unsign(A, t) = 0 /\ Unsign(B, t) = 0
        less == ~zero /\ IF Negative(A, t) # Negative(B, t) THEN Negative(A, t)
                         ELSE IF Negative(A, t) THEN B < A ELSE A < B
        rel == IF Nan(A, t) \/ Nan(B, t) THEN "none"
               ELSE IF A = B \/ zero THEN "=" ELSE IF less THEN "<" ELSE ">"
    IN R = 1 <=> rel \in CASE todo.op = "feq" -> {"="}      [] todo.op = "fne" -> {"<", ">", "none"}
                           [] todo.op = "flt" -> {"<"}      [] todo.op = "fgt" -> {">"}
                           [] todo.op = "fle" -> {"<", "="} [] todo.op = "fge" -> {">", "="}

\* The smaller and the larger of two floats: a NaN wins, -0 is below +0, and
\* the result is one of the operands and bounds both (fmin32 .. fmax64).
MinMaxBound ==
  Done({"fmin", "fmax"}) =>
    LET t == T
        \* a total order of the numbers of a format, with -0 below +0
        Rank(a) == IF Negative(a, t) THEN -(a % 2^(Bits(t) - 1)) - 1 ELSE a
    IN IF Nan(A, t) \/ Nan(B, t) THEN Nan(R, t)
       ELSE /\ R \in {A, B}
            /\ \A x \in {A, B} : IF todo.op = "fmin" THEN Rank(R) <= Rank(x) ELSE Rank(R) >= Rank(x)

\* A NaN that comes out of min, max or a rounding is quiet and has the sign
\* and the rest of the payload of one that came in; the sign instructions
\* change the sign bit alone, of NaNs too (quiet32, F32Copysign, F32Neg).
NansAreQuiet ==
  LET t == T
      Quietened(x) == Nan(x, t) /\ R - x \in {0, QuietBit(t)} /\ FracOf(R, t) >= QuietBit(t)
  IN /\ Done({"fmin", "fmax"}) /\ Nan(R, t) => Quietened(A) \/ Quietened(B)
     /\ Done(RoundOps) /\ Nan(R, t) => Quietened(A)
     /\ Done(SignOps) =>
          /\ R % 2^(Bits(t) - 1) = A % 2^(Bits(t) - 1)
          /\ Negative(R, t) = CASE todo.op = "fabs" -> FALSE [] todo.op = "fneg" -> ~Negative(A, t)
                                [] todo.op = "fcopysign" -> Negative(B, t)

\* Roundings give the whole number on their side that is less than one away,
\* for nearest the closer one and the even one of two, and keep the sign of
\* what they round to zero (ceil32 .. nearest64).
RoundsToWhole ==
  Done(RoundOps) /\ ~Nan(A, T) =>
    LET t == T
        one == One(t)
        x == Steps(A, t)
        y == Steps(R, t)
    IN /\ ~Nan(R, t) /\ Negative(R, t) = Negative(A, t)
       /\ IsInf(A, t) => R = A
       /\ ~IsInf(A, t) =>
            /\ y % one = 0 /\ Abs(y - x) < one
            /\ todo.op = "fceil"  => y >= x
            /\ todo.op = "ffloor" => y <= x
            /\ todo.op = "ftrunc" => Abs(y) <= Abs(x)
            /\ todo.op = "fnearest" =>
                 2 * Abs(y - x) < one \/ (2 * Abs(y - x) = one /\ y % (2 * one) = 0)

\* A truncation gives the whole number next to its operand towards zero if
\* the type has it, traps with an overflow exactly if not, and with an
\* invalid conversion for a NaN; the saturating one gives the nearest number
\* the type has, and zero (trunc_to_i32 .. trunc_f64_to_u64, I32TruncSatF32S
\* and the rest: the bounds are exact in the format they are compared in).
TruncationIsExact ==
  Done({"trunc", "trunc_sat"}) =>
    LET w == Width[todo.to]
        x == Steps(A, T)
        one == One(T)
        sx == todo.sx = "s"
        lo == IF sx THEN -2^(w - 1) ELSE 0
        hi == IF sx THEN 2^(w - 1) - 1 ELSE 2^w - 1
        \* the operand is strictly between the integers below lo and above hi
        fits == (lo - 1) * one < x /\ x < (hi + 1) * one
        n == IF sx THEN AsSigned(R, w) ELSE R
        Towards0(m) == Abs(m * one) <= Abs(x) /\ Abs(x - m * one) < one
    IN CASE todo.op = "trunc" /\ Nan(A, T)  -> result = [trap |-> "invalid conversion to integer"]
         [] todo.op = "trunc" /\ ~Nan(A, T) -> IF fits THEN Towards0(n) ELSE result = [trap |-> "integer overflow"]
         [] todo.op = "trunc_sat" /\ Nan(A, T)  -> R = 0
         [] todo.op = "trunc_sat" /\ ~Nan(A, T) ->
              IF fits THEN Towards0(n) ELSE n = IF x < 0 THEN lo ELSE hi
=============================================================================
