------------------------------- MODULE Lanes -------------------------------
(***************************************************************************)
(* The vector instructions of simd.rs (simd_op, simd_lane, shuffle).  A    *)
(* vector is a number, as the code's u128: N bytes of W bits, the first    *)
(* lowest.  Its view at level k has lanes of 2^k bytes: level 0 is the     *)
(* code's i8x16, 1 its i16x8, 2 its i32x4 and f32x4, 3 its i64x2 and       *)
(* f64x2.  Float sums, products, roots and conversions are the machine's.  *)
(***************************************************************************)
EXTENDS Integers

CONSTANTS
  W, N,        \* bits of a byte, bytes of a vector
  Exp, Frac,   \* exponent and fraction bits of "f32" and "f64"
  Ops,         \* the instructions to run
  Vectors,     \* first operands
  Seconds,     \* second operands, masks
  Scalars,     \* scalar operands, as i64 patterns
  Counts,      \* shift counts
  Shuffles,    \* lane indices of i8x16.shuffle, as functions
  None, Panic

LaneWidth(k) == W * 2^k
Count(k)     == N \div 2^k
Bools        == {TRUE, FALSE}

\* What the constants are; MCNumbers assumes it of the values it gives.
LanesAssumption ==
  /\ W \in Nat \ {0} /\ N \in Nat \ {0}
  /\ Vectors \cup Seconds \subseteq 0 .. 2^(W * N) - 1
  /\ Shuffles \subseteq [0 .. N - 1 -> 0 .. 2 * N - 1]
  /\ Counts \subseteq 0 .. 2^LaneWidth(2) - 1
  /\ Scalars \subseteq 0 .. 2^LaneWidth(3) - 1
  /\ 1 + Exp.f32 + Frac.f32 = LaneWidth(2) /\ 1 + Exp.f64 + Frac.f64 = LaneWidth(3)

VARIABLES todo, result

vars == <<todo, result>>

\* Rust's numbers
Sc == INSTANCE Numeric WITH Width <- [i32 |-> LaneWidth(2), i64 |-> LaneWidth(3)],
                            Operands <- [t \in {"i32", "i64", "f32", "f64"} |-> {}]

-----------------------------------------------------------------------------
(* Views.                                                                  *)

Levels == {k \in 0 .. 3 : N % 2^k = 0}
Lanes(v, k) == [i \in 0 .. Count(k) - 1 |-> (v \div 2^(i * LaneWidth(k))) % 2^LaneWidth(k)]
Vec(f, k) ==
  LET s[i \in 0 .. Count(k)] == IF i = 0 THEN 0 ELSE s[i - 1] + f[i - 1] * 2^((i - 1) * LaneWidth(k))
  IN s[Count(k)]

Number(x, k, sx) == IF sx THEN Sc!Signed(x, LaneWidth(k)) ELSE x
Lane(n, k)       == Sc!Wrapped(n, LaneWidth(k))
Mask(p, k)       == IF p THEN 2^LaneWidth(k) - 1 ELSE 0
FloatAt(k)       == IF k = 2 THEN "f32" ELSE "f64"

\* the ends of an integer type of w bits
Lowest(w, sx)  == IF sx THEN -2^(w - 1) ELSE 0
Highest(w, sx) == IF sx THEN 2^(w - 1) - 1 ELSE 2^w - 1
Clamp(n, w, sx) ==
  IF n < Lowest(w, sx) THEN Lowest(w, sx) ELSE IF n > Highest(w, sx) THEN Highest(w, sx) ELSE n

-----------------------------------------------------------------------------
(* What a lane of the result is.  c is the call: its instruction, level,   *)
(* signedness and half, its operands a and b and its scalar x.             *)

Fits(n, w, sx) == n \in Lowest(w, sx) .. Highest(w, sx)

\* The type a sum or product is computed in: twice as wide as the lanes
ComputedIn(c) == [w |-> 2 * LaneWidth(c.k), sx |-> c.sx]

\* The sums and products that overflow checks watch, of lanes x and y
Computed(c, x, y) ==
  LET n == Number(x, c.k, c.sx)
      m == Number(y, c.k, c.sx)
  IN CASE c.op \in {"avgr", "extadd"} -> n + m
       [] c.op \in {"extmul", "dot"}  -> n * m
       [] c.op = "q15mulr"            -> n * m + 2^(LaneWidth(c.k) - 2)

Q15(c, x, y) ==
  Lane(Clamp(Computed(c, x, y) \div 2^(LaneWidth(c.k) - 1), LaneWidth(c.k), TRUE), c.k)

Average(c, x, y) == (Computed(c, x, y) + 1) \div 2     \* div_ceil(2)

\* if y < x { y } else { x }, and the other way around
PMin(x, y, t) == IF Sc!FCompare("flt", y, x, t) = 1 THEN y ELSE x
PMax(x, y, t) == IF Sc!FCompare("flt", x, y, t) = 1 THEN y ELSE x

\* zip8 .. zip64 with the closures of simd_op
Zip(c, x, y) ==
  LET w == LaneWidth(c.k)
      n == Number(x, c.k, c.sx)
      m == Number(y, c.k, c.sx)
  IN CASE c.op = "add" -> Lane(x + y, c.k)
       [] c.op = "sub" -> Lane(x - y, c.k)
       [] c.op = "mul" -> Lane(Number(x, c.k, TRUE) * Number(y, c.k, TRUE), c.k)
       [] c.op = "add_sat" -> Lane(Clamp(n + m, w, c.sx), c.k)
       [] c.op = "sub_sat" -> Lane(Clamp(n - m, w, c.sx), c.k)
       [] c.op = "min" -> IF n < m THEN x ELSE y
       [] c.op = "max" -> IF n > m THEN x ELSE y
       [] c.op = "avgr" -> Average(c, x, y)
       [] c.op = "q15mulr" -> Q15(c, x, y)
       [] c.op = "eq" -> Mask(x = y, c.k)
       [] c.op = "ne" -> Mask(x # y, c.k)
       [] c.op = "lt" -> Mask(n < m, c.k)
       [] c.op = "gt" -> Mask(n > m, c.k)
       [] c.op = "le" -> Mask(n <= m, c.k)
       [] c.op = "ge" -> Mask(n >= m, c.k)
       [] c.op \in {"feq", "fne", "flt", "fgt", "fle", "fge"} ->
            Mask(Sc!FCompare(c.op, x, y, FloatAt(c.k)) = 1, c.k)
       [] c.op = "fmin" -> Sc!FMin(x, y, FloatAt(c.k))
       [] c.op = "fmax" -> Sc!FMax(x, y, FloatAt(c.k))
       [] c.op = "pmin" -> PMin(x, y, FloatAt(c.k))
       [] c.op = "pmax" -> PMax(x, y, FloatAt(c.k))

\* s & 7, s & 15, ...
ShiftCount(s, k) == s % LaneWidth(k)

\* map8 .. map64
MapLane(c, x) ==
  LET w == LaneWidth(c.k)
      n == Number(x, c.k, TRUE)
      s == ShiftCount(c.x, c.k)
  IN CASE c.op = "abs" -> Lane(IF n < 0 THEN -n ELSE n, c.k)
       [] c.op = "neg" -> Lane(-x, c.k)
       [] c.op = "popcnt" -> Sc!CountOnes(x, w)
       [] c.op = "shl" -> Sc!Shl(x, s, w)
       [] c.op = "shr" -> IF c.sx THEN Sc!ShrS(x, s, w) ELSE Sc!ShrU(x, s)
       [] c.op \in {"fabs", "fneg"} -> Sc!FSign(c.op, x, None, FloatAt(c.k))
       [] c.op \in {"fceil", "ffloor", "ftrunc", "fnearest"} -> Sc!Round(c.op, x, FloatAt(c.k))
       [] c.op = "trunc_sat" -> Sc!TruncateSat(x, "f32", "i32", IF c.sx THEN "s" ELSE "u")

-----------------------------------------------------------------------------
(* What the instructions that cross lanes build their result from.         *)

\* The lane of the operand that lane i of a result twice as wide is made of
Half(c, i) == IF c.hi THEN i + Count(c.k + 1) ELSE i

\* Mutant of Narrowed: the wide lanes are taken without their sign.
NarrowedUnsigned(c, x) == Sc!Wrapped(Clamp(x, LaneWidth(c.k - 1), c.sx), LaneWidth(c.k - 1))

\* clamp to the ends of the narrow type, of a number that is always signed
Narrowed(c, x) ==
  Sc!Wrapped(Clamp(Number(x, c.k, TRUE), LaneWidth(c.k - 1), c.sx), LaneWidth(c.k - 1))

\* Lanes of half the width, those of a first
Narrow(c) ==
  LET x == Lanes(c.a, c.k)
      y == Lanes(c.b, c.k)
      n == Count(c.k)
  IN Vec([i \in 0 .. 2 * n - 1 |-> Narrowed(c, IF i < n THEN x[i] ELSE y[i - n])], c.k - 1)

\* The numbers the lanes of a result twice as wide are, before they wrap
Widened(c, i) ==
  LET x == Lanes(c.a, c.k)
      y == Lanes(c.b, c.k)
  IN CASE c.op = "extend" -> Number(x[Half(c, i)], c.k, c.sx)
       [] c.op = "extmul" -> Computed(c, x[Half(c, i)], y[Half(c, i)])
       [] c.op = "extadd" -> Computed(c, x[2 * i], x[2 * i + 1])
       [] c.op = "dot" -> Computed(c, x[2 * i], y[2 * i]) + Computed(c, x[2 * i + 1], y[2 * i + 1])
Widen(c) == Vec([i \in 0 .. Count(c.k + 1) - 1 |-> Lane(Widened(c, i), c.k + 1)], c.k + 1)

\* i32x4.trunc_sat_f64x2_zero: the upper lanes of the result are zero
TruncZero(c) ==
  LET x == Lanes(c.a, 3)
  IN Vec([i \in 0 .. Count(2) - 1 |->
            IF i < Count(3) THEN Sc!TruncateSat(x[i], "f64", "i32", IF c.sx THEN "s" ELSE "u")
            ELSE 0], 2)

\* An index outside of the vector selects a zero
Swizzled(x, j) == IF j < N THEN x[j] ELSE 0

\* V128And and the rest, bit by bit
Logic(c) ==
  LET And(x, y) == x * y
      F(x, y) == CASE c.op = "and" -> x * y [] c.op = "andnot" -> x * (1 - y)
                   [] c.op = "or" -> x + y - x * y [] c.op = "xor" -> (x + y) % 2
      inverse == 2^(W * N) - 1 - c.x
  IN IF c.op = "not" THEN 2^(W * N) - 1 - c.a
     ELSE IF c.op = "bitselect"
     THEN Sc!Bitwise2(c.a, c.x, W * N, And) + Sc!Bitwise2(c.b, inverse, W * N, And)
     ELSE Sc!Bitwise2(c.a, c.b, W * N, F)

\* The sign bit of lane i is bit i
Bitmask(c) ==
  Sc!FromBits([i \in 0 .. Count(c.k) - 1 |-> Sc!Bit(Lanes(c.a, c.k)[i], LaneWidth(c.k) - 1)], Count(c.k))

-----------------------------------------------------------------------------
(* The instructions, each with the levels and signs the code has it at.    *)

MapOps  == {"abs", "neg", "popcnt", "fabs", "fneg", "fceil", "ffloor", "ftrunc", "fnearest", "trunc_sat"}
ShiftOps == {"shl", "shr"}
ZipOps  == {"add", "sub", "mul", "add_sat", "sub_sat", "min", "max", "avgr", "q15mulr",
            "eq", "ne", "lt", "gt", "le", "ge", "feq", "fne", "flt", "fgt", "fle", "fge",
            "fmin", "fmax", "pmin", "pmax"}
WidenOps == {"extend", "extadd", "extmul", "dot"}
LogicOps == {"and", "andnot", "or", "xor", "not", "bitselect"}
FloatOps == {"fabs", "fneg", "fceil", "ffloor", "ftrunc", "fnearest", "feq", "fne", "flt", "fgt",
             "fle", "fge", "fmin", "fmax", "pmin", "pmax"}

LevelsOf(op) ==
  IF op \in FloatOps THEN {2, 3}
  ELSE CASE op \in {"splat", "extract", "replace", "all_true", "bitmask", "shl", "shr", "abs", "neg",
                    "add", "sub", "eq", "ne", "lt", "gt", "le", "ge"} -> 0 .. 3
         [] op = "mul" -> 1 .. 3
         [] op \in {"min", "max", "extend", "extmul"} -> 0 .. 2
         [] op \in {"add_sat", "sub_sat", "avgr", "extadd"} -> {0, 1}
         [] op = "narrow" -> {1, 2}
         [] op \in {"q15mulr", "dot"} -> {1}
         [] op = "trunc_sat" -> {2}
         [] op \in {"popcnt", "swizzle", "shuffle", "any_true"} \cup LogicOps -> {0}
         [] op = "trunc_zero" -> {3}

SignsOf(op, k) ==
  IF op \in {"q15mulr", "dot"} \/ (k = 3 /\ op \in {"lt", "gt", "le", "ge"}) THEN {TRUE}
  ELSE IF op \in {"shr", "add_sat", "sub_sat", "min", "max", "lt", "gt", "le", "ge", "narrow", "trunc_sat",
                  "trunc_zero"} \cup (WidenOps \ {"dot"}) THEN Bools
  ELSE IF op = "extract" /\ k \in {0, 1} THEN Bools ELSE {FALSE}

Call(op, k, sx, hi, a, b, x) == [op |-> op, k |-> k, sx |-> sx, hi |-> hi, a |-> a, b |-> b, x |-> x]

Init == todo = None /\ result = None

\* One call of an instruction of a class, with the operands popped
Fetch(class, His, As, Bs, Xs) ==
  /\ todo = None
  /\ \E op \in Ops \cap class : \E k \in LevelsOf(op) \cap Levels : \E sx \in SignsOf(op, k), hi \in His :
       \E a \in As, b \in Bs, x \in Xs : todo' = Call(op, k, sx, hi, a, b, x)
  /\ UNCHANGED result

FetchReduction == Fetch({"any_true", "all_true", "bitmask"}, {FALSE}, Vectors, {None}, {None})
FetchShift     == Fetch(ShiftOps, {FALSE}, Vectors, {None}, Counts)
FetchSelect    == Fetch({"bitselect"}, {FALSE}, Vectors, Seconds, Seconds)
FetchUnary     == \/ Fetch(MapOps \cup {"not", "trunc_zero", "extadd"}, {FALSE}, Vectors, {None}, {None})
                  \/ Fetch({"extend"}, Bools, Vectors, {None}, {None})
FetchBinary    == \/ Fetch(ZipOps \cup {"narrow", "dot", "swizzle", "and", "andnot", "or", "xor"},
                           {FALSE}, Vectors, Seconds, {None})
                  \/ Fetch({"extmul"}, Bools, Vectors, Seconds, {None})
FetchShuffle   == Fetch({"shuffle"}, {FALSE}, Vectors, Seconds, Shuffles)

\* Scalars of the type the lanes of a level are taken from: i64 for the last
ScalarWidth(k) == LaneWidth(IF k = 3 THEN 3 ELSE 2)
ScalarsAt(k)   == {x \in Scalars : x < 2^ScalarWidth(k)}

FetchSplat ==
  /\ todo = None
  /\ "splat" \in Ops
  /\ \E k \in Levels : \E x \in ScalarsAt(k) : todo' = Call("splat", k, FALSE, FALSE, None, None, x)
  /\ UNCHANGED result

\* The lane index is below the lanes of the shape, by validation
FetchLane ==
  /\ todo = None
  /\ \E op \in Ops \cap {"extract", "replace"} : \E k \in LevelsOf(op) \cap Levels : \E sx \in SignsOf(op, k) :
       \E a \in Vectors, l \in 0 .. Count(k) - 1, x \in IF op = "replace" THEN ScalarsAt(k) ELSE {None} :
         todo' = Call(op, k, sx, FALSE, a, l, x)
  /\ UNCHANGED result

\* Whether an overflow check of the build finds a lane that does not fit
Overflows(c) ==
  LET n(x, y) == ~Fits(Computed(c, x, y), ComputedIn(c).w, ComputedIn(c).sx)
      x == Lanes(c.a, c.k)
      y == Lanes(c.b, c.k)
  IN CASE c.op \in {"avgr", "q15mulr", "extmul", "dot"} -> \E i \in DOMAIN x : n(x[i], y[i])
       [] c.op = "extadd" -> \E i \in 0 .. Count(c.k + 1) - 1 : n(x[2 * i], x[2 * i + 1])

Run(c) ==
  LET x == Lanes(c.a, c.k)
      y == Lanes(c.b, c.k)
      across(F(_)) == Vec([i \in 0 .. Count(c.k) - 1 |-> F(i)], c.k)
      mapped(i) == MapLane(c, x[i])
      zipped(i) == Zip(c, x[i], y[i])
      splat(i) == Lane(c.x, c.k)
      swizzled(i) == Swizzled(x, y[i])
      shuffled(i) == IF c.x[i] < N THEN x[c.x[i]] ELSE y[c.x[i] - N]
      replaced(i) == IF i = c.b THEN Lane(c.x, c.k) ELSE x[i]
  IN CASE c.op \in MapOps \cup ShiftOps -> across(mapped)
       [] c.op \in ZipOps   -> across(zipped)
       [] c.op \in WidenOps -> Widen(c)
       [] c.op \in LogicOps -> Logic(c)
       [] c.op = "narrow"   -> Narrow(c)
       [] c.op = "trunc_zero" -> TruncZero(c)
       [] c.op = "splat"    -> across(splat)
       [] c.op = "swizzle"  -> across(swizzled)
       [] c.op = "shuffle"  -> across(shuffled)
       [] c.op = "replace"  -> across(replaced)
       [] c.op = "extract"  -> Sc!Wrapped(Number(x[c.b], c.k, c.sx), ScalarWidth(c.k))
       [] c.op = "any_true" -> Sc!Bool(c.a # 0)
       [] c.op = "all_true" -> Sc!Bool(\A i \in DOMAIN x : x[i] # 0)
       [] c.op = "bitmask"  -> Bitmask(c)

Step ==
  /\ todo # None /\ result = None
  /\ result' = IF todo.op \in {"avgr", "q15mulr", "extadd", "extmul", "dot"} /\ Overflows(todo)
               THEN Panic ELSE Run(todo)
  /\ UNCHANGED todo

Push ==
  /\ result # None
  /\ todo' = None /\ result' = None

Next ==
  \/ FetchSplat \/ FetchReduction \/ FetchShift \/ FetchSelect \/ FetchUnary \/ FetchBinary
  \/ FetchShuffle \/ FetchLane \/ Step \/ Push

Spec == Init /\ [][Next]_vars
=============================================================================
