---------------------------- MODULE ConvertProps ----------------------------
(***************************************************************************)
(* What an argument and a verdict of the spec-runner mean.                 *)
(***************************************************************************)
EXTENDS Convert

\* The variables hold values of their types and every value fits its width.
TypeOK ==
  /\ stage \in {"argument", "called", "returned", "judged"}
  /\ object \in Objects \cup {NoObject}
  /\ IsValue(value)
  /\ (verdict # "none") = (stage = "judged")

-----------------------------------------------------------------------------
(* What an object says, written from the format of the corpus.             *)

Exponent(n, bits, frac) == (n % Pow2[bits - 1]) \div Pow2[frac]
Fraction(n, frac)       == n % Pow2[frac]

IsNan(n, bits, frac) ==
  Exponent(n, bits, frac) = Pow2[bits - 1 - frac] - 1 /\ Fraction(n, frac) # 0

\* Whether token stands for the number n of a float of `bits` bits: itself,
\* the NaN whose fraction is its top bit alone, a NaN whose fraction has it.
StandsForFloat(token, bits, frac, n) ==
  CASE token = Canonical  -> IsNan(n, bits, frac) /\ Fraction(n, frac) = Pow2[frac - 1]
    [] token = Arithmetic -> IsNan(n, bits, frac) /\ Fraction(n, frac) >= Pow2[frac - 1]
    [] OTHER -> token = Num(n)

\* A lane or scalar of type ty.
Stands(token, ty, n) ==
  CASE ty = "f32" -> StandsForFloat(token, Bits32, F32Frac, n)
    [] ty = "f64" -> StandsForFloat(token, Bits64, F64Frac, n)
    [] OTHER -> token = Num(n)

\* The lane at place i of a vector: whole bytes from (i - 1) times its width.
BytesAt(n, from, count) == (n \div Pow2[ByteBits * from]) % Pow2[ByteBits * count]

Means(obj, v) ==
  /\ obj.type = v.ty
  /\ IF v.ty = "v128"
     THEN /\ obj.array /\ obj.lane_type \in DOMAIN LaneShapes
          /\ LET width == LaneShapes[obj.lane_type][2]
             IN /\ Len(obj.lanes) * width = 16
                /\ \A i \in DOMAIN obj.lanes :
                     Stands(obj.lanes[i], obj.lane_type, BytesAt(v.bits, width * (i - 1), width))
     ELSE IF v.none THEN obj.value = Null
     ELSE v.ty # "funcref" /\ Stands(obj.value, v.ty, v.bits)

-----------------------------------------------------------------------------
(* Properties.                                                             *)

\* A result passes exactly when it is a value the expected object means:
\* bit for bit, or a NaN of the class asked for in a lane of floats, in
\* every lane.  Whatever is not understood (convert.rs, "All unknown shapes
\* return Err, which the caller books as FAIL") means no value.
VerdictIsMeaning ==
  TypeOK /\ (stage = "judged" => (verdict = "PASS") = Means(object, value))

Tokens(obj)    == {obj.value} \cup {obj.lanes[i] : i \in DOMAIN obj.lanes}
Oversize(obj)  ==
  obj.lane_type \in DOMAIN LaneShapes /\ \E i \in DOMAIN obj.lanes : obj.lanes[i].n >= Pow2[LaneBits(obj)]

\* An argument that is accepted is what its object says, and one that spells
\* out a value, without NaN patterns, is accepted.  A lane too large for its
\* type says no value, but the code takes its low bytes: it is left out.
ArgumentIsMeant ==
  [][stage = "argument" /\ ~Oversize(object') =>
       /\ stage' = "called" => Means(object', value')
       /\ (\E v \in Returned : Means(object', v)) /\ Tokens(object') \cap {Canonical, Arithmetic} = {}
            => stage' = "called"]_vars
=============================================================================
