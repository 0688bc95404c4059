----------------------------- MODULE MCConvert -----------------------------
(***************************************************************************)
(* Bytes of one bit: the 32-bit types have four bits, the 64-bit types     *)
(* eight, vectors sixteen.  A float of four bits has one bit of exponent   *)
(* and a fraction of two: every class of NaN is there, quiet and not.      *)
(***************************************************************************)
EXTENDS ConvertProps

Object(ty, token) ==
  [type |-> ty, value |-> token, lane_type |-> "none", array |-> FALSE, lanes |-> <<>>]
Vector(lane_type, lanes) ==
  [type |-> "v128", value |-> NoString, lane_type |-> lane_type, array |-> TRUE, lanes |-> lanes]

\* The last fits neither 32 nor 64 bits; the one before fits 64.
ScalarNumbers == (0..17) \cup {120, 247, 248, 255, 256}
ScalarTokens  == {Num(n) : n \in ScalarNumbers} \cup {Null, Canonical, Arithmetic, BadText, NoString}

Scalars == {Object(ty, t) : ty \in ValueTypes \cup {"none"}, t \in ScalarTokens}

\* Vectors of one token but for one place, of the right and of a wrong
\* number of lanes; numbers on both sides of every lane's width.
LaneTokens == {Num(n) : n \in {0, 1, 3, 7, 14, 15, 16, 248, 256}} \cup {Canonical, Arithmetic, BadText}
LaneTypes  == {"i8", "i16", "i32", "f32", "i64", "f64"}
AllBut(count, k, one, rest) == [i \in 1..count |-> IF i = k THEN one ELSE rest]
Vectors ==
  {Vector(ty, AllBut(LaneShapes[ty][1], k, one, rest)) :
     ty \in LaneTypes, k \in {1, 2}, one \in LaneTokens, rest \in {Num(0), Num(1), Canonical}}
  \cup {Vector(ty, AllBut(LaneShapes[ty][1] + d, 1, Num(1), Num(0))) : ty \in LaneTypes, d \in {-1, 1}}
  \cup {[Vector(ty, AllBut(4, 1, Num(1), Num(0))) EXCEPT !.lane_type = "other"] : ty \in {"i32"}}
  \cup {[Vector("i32", <<>>) EXCEPT !.array = FALSE]}

SmallObjects == Scalars \cup Vectors

SmallReturned ==
  {Value(ty, n) : ty \in {"i32", "f32", "externref", "funcref"}, n \in 0..15}
  \cup {Value(ty, n) : ty \in {"i64", "f64"}, n \in 0..255}
  \cup {NullOf("externref"), NullOf("funcref")}
  \cup {Value("v128", n) : n \in {0, 1, 2, 3, 15, 16, 256, 257, 4096, 4369, 26214, 30583, 61166,
                                  30591, 57344, 65535, 30840, 63608, 30960, 63736, 61680, 49151}}
=============================================================================
