----------------------------- MODULE MCNumbers -----------------------------
(***************************************************************************)
(* Numeric and vector instructions on small numbers, one instruction of    *)
(* one of five parts per behaviour.                                        *)
(***************************************************************************)
EXTENDS Integers

CONSTANTS None, Panic

VARIABLES part, todo, result

-----------------------------------------------------------------------------
(* Vectors.                                                                *)

IntOps ==
  {"abs", "neg", "popcnt", "shl", "shr", "add", "sub", "mul", "add_sat", "sub_sat", "min", "max",
   "avgr", "q15mulr", "eq", "ne", "lt", "gt", "le", "ge", "extend", "extadd", "extmul", "dot",
   "and", "andnot", "or", "xor", "not", "bitselect", "splat", "extract", "replace", "all_true",
   "any_true", "bitmask", "narrow", "swizzle", "shuffle"}
FloatOps ==
  {"fabs", "fneg", "fceil", "ffloor", "ftrunc", "fnearest", "feq", "fne", "flt", "fgt", "fle", "fge",
   "fmin", "fmax", "pmin", "pmax", "trunc_sat", "trunc_zero"}

\* Eight bytes of two bits, which has all four levels
LevelsVectors == {0, 65535, 32768, 32767, 1, 43690, 21845, 34952, 128, 127, 255, 33023, 4660, 51966,
                  28672, 61440, 30840, 65408, 57465, 12288, 45057, 14000, 46768}
Levels == INSTANCE LanesProps WITH
  W <- 2, N <- 8, Exp <- [f32 |-> 3, f64 |-> 3], Frac <- [f32 |-> 4, f64 |-> 12],
  Ops <- IntOps \cup FloatOps,
  Vectors <- LevelsVectors, Seconds <- LevelsVectors,
  Shuffles <- {[i \in 0 .. 7 |-> 15 - i], [i \in 0 .. 7 |-> (3 * i) % 16]},
  Scalars <- {0, 7, 128, 255, 129, 32768, 65535, 13107},
  Counts <- {0, 1, 3, 5, 8, 17, 255}
ASSUME Levels!LanesAssumption

\* Four bytes of three bits, each of them extreme: levels 0 to 2, and
\* indices of a swizzle can point past the vector.
FourOf(S) == {a + 8 * b + 64 * c + 512 * d : a \in S, b \in S, c \in S, d \in S}
Short == INSTANCE LanesProps WITH
  W <- 3, N <- 4, Exp <- [f32 |-> 4, f64 |-> 8], Frac <- [f32 |-> 7, f64 |-> 15],
  Ops <- IntOps,
  Vectors <- FourOf({0, 3, 4, 7}),
  Seconds <- {0, 4095, 2340, 1755, 3044, 2055, 1316},   \* 4444, 3333, 5744, 4007, 2444 in octal
  Shuffles <- {[i \in 0 .. 3 |-> 7 - i], [i \in 0 .. 3 |-> 2 * i + 1], [i \in 0 .. 3 |-> 4]},
  Scalars <- {0, 5, 2047, 2048, 4095, 2340},
  Counts <- {0, 1, 3, 5, 7, 12, 4095}
ASSUME Short!LanesAssumption

-----------------------------------------------------------------------------
(* Scalars.  For the instructions on floats, a format of 2 and one of 4    *)
(* fraction bits, with integers that the first cannot all hold but the     *)
(* second can ("i32") and that neither can ("i64"), as it is in the code.  *)

IntWidth   == [i32 |-> 4, i64 |-> 8]
TruncWidth == [i32 |-> 5, i64 |-> 7]
FloatExp   == [f32 |-> 4, f64 |-> 4]
FloatFrac  == [f32 |-> 2, f64 |-> 4]
Operands4(a, b, c, d) == [i32 |-> a, i64 |-> b, f32 |-> c, f64 |-> d]

\* Every pair of 4 bits, the ends and the middle of 8
IntEdges == {0, 1, 2, 3, 7, 8, 15, 16, 17, 60, 127, 128, 129, 165, 240, 253, 254, 255}
Ints == INSTANCE NumericProps WITH
  Width <- IntWidth, Exp <- FloatExp, Frac <- FloatFrac,
  Operands <- Operands4(0 .. 15, IntEdges, {}, {}),
  Ops <- {"eq", "ne", "lt_s", "lt_u", "gt_s", "gt_u", "le_s", "le_u", "ge_s", "ge_u",
           "add", "sub", "mul", "and", "or", "xor", "shl", "shr_s", "shr_u", "rotl", "rotr",
           "div_s", "div_u", "rem_s", "rem_u", "eqz", "clz", "ctz", "popcnt",
           "wrap", "extend_s", "extend_u"}
ASSUME Ints!NumericAssumption

\* Every pattern of both formats
Casts == INSTANCE NumericProps WITH
  Width <- TruncWidth, Exp <- FloatExp, Frac <- FloatFrac,
  Operands <- Operands4({}, {}, 0 .. 127, 0 .. 511),
  Ops <- {"fceil", "ffloor", "ftrunc", "fnearest", "trunc", "trunc_sat", "fabs", "fneg"}
ASSUME Casts!NumericAssumption

\* Zeros, subnormals, ones, the last numbers, infinities, NaNs of both kinds
FloatEdges == {0, 1, 15, 16, 17, 111, 112, 113, 119, 120, 121, 238, 239, 240, 241, 247, 248, 255}
Pairs == INSTANCE NumericProps WITH
  Width <- IntWidth, Exp <- FloatExp, Frac <- FloatFrac,
  Operands <- Operands4({}, {}, 0 .. 127, FloatEdges \cup {256 + a : a \in FloatEdges}),
  Ops <- {"feq", "fne", "flt", "fgt", "fle", "fge", "fmin", "fmax", "fcopysign"}
ASSUME Pairs!NumericAssumption

-----------------------------------------------------------------------------
(* The parts.                                                              *)

NumbersInit ==
  \/ part = "levels" /\ Levels!Init
  \/ part = "short" /\ Short!Init
  \/ part = "ints" /\ Ints!Init
  \/ part = "casts" /\ Casts!Init
  \/ part = "pairs" /\ Pairs!Init

NumbersNext ==
  /\ UNCHANGED part
  /\ \/ part = "levels" /\ Levels!Next
     \/ part = "short" /\ Short!Next
     \/ part = "ints" /\ Ints!Next
     \/ part = "casts" /\ Casts!Next
     \/ part = "pairs" /\ Pairs!Next

NumbersSpec == NumbersInit /\ [][NumbersNext]_<<part, todo, result>>

\* Integer instructions of exec.rs (num) give what their names say at every
\* operand: relations and arithmetic of the numbers, divisions that trap
\* exactly when they must, shifts by the count modulo the width, extensions.
IntegersAreExact ==
  part = "ints" =>
    /\ Ints!TypeOK
    /\ Ints!IntegersAgree /\ Ints!DivisionIsExact /\ Ints!BitsMove /\ Ints!ExtensionsKeepTheNumber

\* Where exec.rs decides about floats itself (roundings, truncations,
\* comparisons, minimum and maximum, signs) it agrees with the numbers, and
\* every NaN comes out quiet.
FloatsAreExact ==
  /\ part = "casts" => Casts!RoundsToWhole /\ Casts!TruncationIsExact /\ Casts!NansAreQuiet
  /\ part = "pairs" => Pairs!FloatOrder /\ Pairs!MinMaxBound /\ Pairs!NansAreQuiet

\* Vector instructions of simd.rs do in every lane what the specification
\* says of the lane's number, bits or bytes, and nothing to its neighbours.
LanesAreExact ==
  /\ part = "levels" => /\ Levels!TypeOK /\ Levels!IntermediatesFit /\ Levels!WideningIsExact
                        /\ Levels!ShiftsStayInLane /\ Levels!TruthByLane /\ Levels!FloatsByLane
  /\ part = "short" => /\ Short!TypeOK /\ Short!SaturationIsNearest
                       /\ Short!ArithmeticStaysInLane /\ Short!BytesAreSelected
=============================================================================
