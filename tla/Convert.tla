------------------------------ MODULE Convert ------------------------------
(***************************************************************************)
(* The spec-runner's values (crates/spec-runner/src/convert.rs): a JSON    *)
(* object becomes an argument, a result is judged against a JSON object.   *)
(*                                                                         *)
(* A string of the JSON is a token: a number, "null", one of the two NaN   *)
(* patterns, any other text, or no string at all.  Widths are multiples of *)
(* ByteBits as in the code; with small bytes every number can be tried.    *)
(***************************************************************************)
EXTENDS Integers, Sequences, Functions

CONSTANTS
  ByteBits,          \* bits of a byte: 8 in the code
  F32Frac, F64Frac,  \* bits of the fractions of the floats: 23 and 52
  Objects,           \* the JSON objects of the corpus
  Returned           \* the values a call may return

\* 2^n, by its recursion.
Pow2[n \in Nat] == IF n = 0 THEN 1 ELSE 2 * Pow2[n - 1]

VARIABLES
  stage,    \* "argument", "called", "returned", "judged"
  object,   \* the JSON object last looked at
  value,    \* the value last parsed or returned
  verdict   \* what the caller books: "none" before, "PASS", "FAIL"

vars == <<stage, object, value, verdict>>

-----------------------------------------------------------------------------
(* Values and tokens.                                                      *)

Num(n)     == [is |-> "num", n |-> n]
Text(t)    == [is |-> t, n |-> 0]
Null       == Text("null")
Canonical  == Text("nan:canonical")
Arithmetic == Text("nan:arithmetic")
BadText    == Text("text")
NoString   == Text("absent")

IsToken(t) ==
  /\ t \in [is : {"num", "null", "nan:canonical", "nan:arithmetic", "text", "absent"}, n : Nat]
  /\ t.is # "num" => t.n = 0

\* Value: `none` is the null of a reference.
Value(ty, bits) == [ty |-> ty, none |-> FALSE, bits |-> bits]
NullOf(ty)      == [ty |-> ty, none |-> TRUE, bits |-> 0]

Bits32 == 4 * ByteBits
Bits64 == 8 * ByteBits

ValueTypes == {"i32", "i64", "f32", "f64", "v128", "externref", "funcref"}

Size(ty) ==
  CASE ty \in {"i32", "f32", "externref", "funcref"} -> Bits32
    [] ty \in {"i64", "f64"} -> Bits64 [] OTHER -> 16 * ByteBits

\* Every value fits its width, and only references have a null.
IsValue(v) ==
  /\ v \in [ty : ValueTypes, none : BOOLEAN, bits : Nat]
  /\ v.bits < Pow2[Size(v.ty)]
  /\ v.none => v = NullOf(v.ty) /\ v.ty \in {"externref", "funcref"}

\* The strings of the objects are tokens and calls return values; a float has
\* a sign, an exponent and a fraction of a bit or more.
ASSUME ConvertAssumption ==
  /\ ByteBits \in Nat \ {0}
  /\ F32Frac \in 1 .. 4 * ByteBits - 2
  /\ F64Frac \in 1 .. 8 * ByteBits - 2
  /\ \A obj \in Objects :
       /\ IsToken(obj.value) /\ obj.array \in BOOLEAN
       /\ obj.lanes \in Seq(Range(obj.lanes)) /\ \A t \in Range(obj.lanes) : IsToken(t)
  /\ \A v \in Returned : IsValue(v)

Err   == [ok |-> FALSE]
Ok(v) == [ok |-> TRUE, val |-> v]

\* str_field then parse_u32 or parse_u64: a string, a number, one that fits.
Parsed(token, bits) ==
  IF token.is = "num" /\ token.n < Pow2[bits] THEN Ok(token.n) ELSE Err

\* How many lanes of how many bytes a lane type makes.
LaneShapes ==
  [i8 |-> <<16, 1>>, i16 |-> <<8, 2>>, i32 |-> <<4, 4>>, f32 |-> <<4, 4>>,
   i64 |-> <<2, 8>>, f64 |-> <<2, 8>>]

\* Mutant of ShapeOk: missing lanes are not noticed.
ShapeOkShort(obj) ==
  /\ obj.lane_type \in DOMAIN LaneShapes /\ obj.array
  /\ Len(obj.lanes) <= LaneShapes[obj.lane_type][1]

\* A lane type that is known, and an array of its number of lanes.
ShapeOk(obj) ==
  /\ obj.lane_type \in DOMAIN LaneShapes /\ obj.array
  /\ Len(obj.lanes) = LaneShapes[obj.lane_type][1]

LaneBits(obj) == LaneShapes[obj.lane_type][2] * ByteBits

-----------------------------------------------------------------------------
(* parse_value.                                                            *)

\* pack: each lane is a number of 64 bits of which the low bytes are kept.
Packing(obj) ==
  LET w == LaneBits(obj)
      s[i \in 0 .. Len(obj.lanes)] ==
        IF i = 0 THEN 0 ELSE s[i - 1] + (obj.lanes[i].n % Pow2[w]) * Pow2[w * (i - 1)]
  IN s
Packed(obj) == Packing(obj)[Len(obj.lanes)]

ParseV128(obj) ==
  IF ShapeOk(obj) /\ \A i \in DOMAIN obj.lanes : Parsed(obj.lanes[i], Bits64).ok
  THEN Ok(Value("v128", Packed(obj))) ELSE Err

\* A number of the given width, as a value of the object's type.
ParseNumber(obj, bits) ==
  LET p == Parsed(obj.value, bits)
  IN IF p.ok THEN Ok(Value(obj.type, p.val)) ELSE Err

\* A type that is not known is an error, and so is a function to call.
ParseValue(obj) ==
  CASE obj.type \in {"i32", "f32"} -> ParseNumber(obj, Bits32)
    [] obj.type \in {"i64", "f64"} -> ParseNumber(obj, Bits64)
    [] obj.type = "v128" -> ParseV128(obj)
    [] obj.type \in {"externref", "funcref"} /\ obj.value = Null -> Ok(NullOf(obj.type))
    [] obj.type = "externref" /\ obj.value # Null -> ParseNumber(obj, Bits32)
    [] OTHER -> Err

-----------------------------------------------------------------------------
(* match_expected.                                                         *)

\* The bits of the mask 0x7fc0_0000 of the code: exponent and quiet bit.
QuietMask(bits, frac) == Pow2[bits - 1] - Pow2[frac - 1]
Unsigned(n, bits)     == n % Pow2[bits - 1]

IsCanonical(n, bits, frac) == Unsigned(n, bits) = QuietMask(bits, frac)

\* All the bits of the mask, which are the topmost below the sign, are set.
IsArithmetic(n, bits, frac) ==
  Unsigned(n, bits) \div Pow2[frac - 1] = QuietMask(bits, frac) \div Pow2[frac - 1]

\* match_f32 and match_f64.
MatchFloat(n, token, bits, frac) ==
  IF token = Canonical  THEN Ok(IsCanonical(n, bits, frac)) ELSE
  IF token = Arithmetic THEN Ok(IsArithmetic(n, bits, frac)) ELSE
  LET p == Parsed(token, bits) IN IF p.ok THEN Ok(n = p.val) ELSE Err

MatchNumber(n, token, bits) ==
  LET p == Parsed(token, bits) IN IF p.ok THEN Ok(n = p.val) ELSE Err

\* One lane: a NaN pattern only in a lane of floats.
MatchLane(n, token, lane_type) ==
  CASE lane_type = "f32" /\ token \in {Canonical, Arithmetic} ->
         MatchFloat(n, token, Bits32, F32Frac)
    [] lane_type = "f64" /\ token \in {Canonical, Arithmetic} ->
         MatchFloat(n, token, Bits64, F64Frac)
    [] OTHER -> MatchNumber(n, token, Bits64)

LaneOf(n, w, i) == (n \div Pow2[w * (i - 1)]) % Pow2[w]

\* Mutant of Decided: an error in a lane is passed over.
DecidedLenient(ms) ==
  LET bad == {i \in DOMAIN ms : ms[i].ok /\ ~ms[i].val} IN Ok(bad = {})

\* The first lane that is an error or does not match decides.
Decided(ms) ==
  LET bad == {i \in DOMAIN ms : ~ms[i].ok \/ ~ms[i].val}
  IN IF bad = {} THEN Ok(TRUE)
     ELSE ms[CHOOSE i \in bad : \A j \in bad : i <= j]

MatchV128(n, obj) ==
  IF ~ShapeOk(obj) THEN Err ELSE
  Decided([i \in DOMAIN obj.lanes |->
             MatchLane(LaneOf(n, LaneBits(obj), i), obj.lanes[i], obj.lane_type)])

\* A value of another type than the expected one, known or not, is no match.
MatchExpected(actual, obj) ==
  IF obj.type # actual.ty THEN Ok(FALSE) ELSE
  CASE actual.ty = "i32" -> MatchNumber(actual.bits, obj.value, Bits32)
    [] actual.ty = "i64" -> MatchNumber(actual.bits, obj.value, Bits64)
    [] actual.ty = "f32" -> MatchFloat(actual.bits, obj.value, Bits32, F32Frac)
    [] actual.ty = "f64" -> MatchFloat(actual.bits, obj.value, Bits64, F64Frac)
    [] actual.ty = "v128" -> MatchV128(actual.bits, obj)
    [] actual.ty \in {"externref", "funcref"} /\ obj.value = Null -> Ok(actual.none)
    [] actual.ty = "externref" /\ obj.value # Null ->
         LET p == Parsed(obj.value, Bits32)
         IN IF p.ok THEN Ok(actual = Value("externref", p.val)) ELSE Err
    [] actual.ty = "funcref" /\ obj.value # Null -> Err

-----------------------------------------------------------------------------
(* What runfile.rs does with them.                                         *)

NoObject == [type |-> "none", value |-> NoString, lane_type |-> "none", array |-> FALSE,
             lanes |-> <<>>]

Init ==
  /\ stage = "argument" /\ object = NoObject
  /\ value = NullOf("externref") /\ verdict = "none"

\* An argument: an error fails the command before anything is called.
Argument ==
  /\ stage = "argument"
  /\ object' \in Objects
  /\ LET p == ParseValue(object')
     IN IF p.ok THEN value' = p.val /\ stage' = "called" /\ UNCHANGED verdict
               ELSE verdict' = "FAIL" /\ stage' = "judged" /\ UNCHANGED value

\* The call returns: a parameter unchanged, or some other value.
Return ==
  /\ stage = "called"
  /\ value' \in Returned \cup {value}
  /\ stage' = "returned" /\ object' = NoObject /\ UNCHANGED verdict

\* Only Ok(true) passes.
Expect ==
  /\ stage = "returned"
  /\ object' \in Objects
  /\ LET m == MatchExpected(value, object')
     IN verdict' = IF m.ok /\ m.val THEN "PASS" ELSE "FAIL"
  /\ stage' = "judged" /\ UNCHANGED value

Next == Argument \/ Return \/ Expect

Spec == Init /\ [][Next]_vars
=============================================================================
