------------------------------ MODULE Leb128 ------------------------------
(***************************************************************************)
(* The variable-length integers of the binary format (decode.rs): uleb,    *)
(* sleb and the block type that shares its first byte with them.  A byte   *)
(* carries Payload bits (7 in the code) and a continuation bit; the value  *)
(* is gathered in an accumulator of Acc bits (64).  One step reads one     *)
(* byte of the input.                                                      *)
(***************************************************************************)
EXTENDS Integers, Sequences

CONSTANTS
  Payload,     \* bits of the value in a byte
  Acc,         \* bits of the accumulator
  Widths,      \* the widths that are read: 32, 33 and 64
  TypeBytes    \* the first bytes that are a block type by themselves

\* 2^n, by its recursion.
Pow2[n \in Nat] == IF n = 0 THEN 1 ELSE 2 * Pow2[n - 1]

\* No width is above the accumulator's.  The bytes of types have the sign bit
\* and do not continue: 0x40 in the code, or more.
ASSUME LebAssumption ==
  /\ Payload \in Nat \ {0}
  /\ Acc \in Nat \ {0}
  /\ Widths \subseteq 1 .. Acc
  /\ TypeBytes \subseteq Pow2[Payload - 1] .. Pow2[Payload] - 1

VARIABLES
  kind,     \* "unsigned", "signed" or "block"
  bits,     \* the width asked for
  shift,    \* where the next payload goes
  result,   \* the accumulator, as Acc bits
  status,   \* "reading", "ok", "type", "eof", "too long", "too large", "malformed"
  input     \* the bytes read so far

numberVars == <<kind, bits, shift, result, status, input>>

Byte == 0 .. Pow2[Payload + 1] - 1
Continues(b) == b >= Pow2[Payload]
PayloadOf(b) == b % Pow2[Payload]

\* bits.div_ceil(7)
MaxBytes(w) == (w + Payload - 1) \div Payload
\* how many bits of the last permitted byte belong to the value
UsedBits(w) == w - Payload * (MaxBytes(w) - 1)

NumberInit ==
  /\ kind \in {"unsigned", "signed", "block"}
  /\ bits \in Widths
  /\ shift = 0 /\ result = 0 /\ status = "reading" /\ input = <<>>

-----------------------------------------------------------------------------
(* The last permitted byte.                                                *)

\* Unsigned: what is not used is zero.
ZeroUnused(b) == b < Pow2[UsedBits(bits)]

\* Signed: what is not used repeats the sign, the highest bit that is used.
SignUnused(b) ==
  LET signBit == (b \div Pow2[UsedBits(bits) - 1]) % 2
  IN b \div Pow2[UsedBits(bits)] = signBit * (Pow2[Payload - UsedBits(bits)] - 1)

UnusedBitsOk(b) == IF kind = "unsigned" THEN ZeroUnused(b) ELSE SignUnused(b)

\* Bits that are shifted past the accumulator are lost.  The bits below
\* shift are the only ones that are set so far: or is addition.
Gathered(b) == (result + PayloadOf(b) * Pow2[shift]) % Pow2[Acc]

\* Mutant of SignExtended: only when the value is as wide as its encoding.
SignExtendedFull(b, r, s) ==
  IF s < bits /\ PayloadOf(b) >= Pow2[Payload - 1] THEN r + Pow2[Acc] - Pow2[s] ELSE r

\* Signed values that end below the top of the accumulator fill it up.
SignExtended(b, r, s) ==
  IF s < Acc /\ PayloadOf(b) >= Pow2[Payload - 1] THEN r + Pow2[Acc] - Pow2[s] ELSE r

Final(b) ==
  IF kind = "unsigned" THEN Gathered(b)
  ELSE SignExtended(b, Gathered(b), shift + Payload)

\* blocktype: a single-byte type is seen before an index is tried
IsTypeByte(b) ==
  /\ kind = "block"
  /\ input = <<>>
  /\ b \in TypeBytes

\* blocktype refuses a negative index
Negative(r) == r >= Pow2[Acc - 1]

ReadByte(b) ==
  /\ status = "reading"
  /\ input' = Append(input, b)
  /\ UNCHANGED <<kind, bits>>
  /\ IF IsTypeByte(b)
     THEN status' = "type" /\ UNCHANGED <<shift, result>>
     ELSE IF Len(input) = MaxBytes(bits) - 1 /\ Continues(b)
     THEN status' = "too long" /\ UNCHANGED <<shift, result>>
     ELSE IF Len(input) = MaxBytes(bits) - 1 /\ ~UnusedBitsOk(b)
     THEN status' = "too large" /\ UNCHANGED <<shift, result>>
     ELSE /\ shift' = shift + Payload
          /\ result' = IF Continues(b) THEN Gathered(b) ELSE Final(b)
          /\ status' = IF Continues(b) THEN "reading"
                       ELSE IF kind = "block" /\ Negative(Final(b))
                       THEN "malformed" ELSE "ok"

\* byte(): the file ends inside the number
EndOfInput ==
  /\ status = "reading"
  /\ status' = "eof"
  /\ UNCHANGED <<kind, bits, shift, result, input>>

NumberNext == (\E b \in Byte : ReadByte(b)) \/ EndOfInput

NumberSpec == NumberInit /\ [][NumberNext]_numberVars

-----------------------------------------------------------------------------
(* The reference: which numbers a sequence of bytes is an encoding of, by  *)
(* the grammar of the binary format, which drops Payload bits of the width *)
(* with every byte.  A set of at most one number.                          *)

\* What the last byte b of a number of kind knd is in the w bits left for it.
LastByte(b, w, knd) ==
  IF knd = "unsigned" THEN {n \in {b} : n < Pow2[w]}
  ELSE {n \in {IF b < Pow2[Payload - 1] THEN b ELSE b - Pow2[Payload]} :
          -Pow2[w - 1] <= n /\ n < Pow2[w - 1]}

\* What the bytes s denote from each place on.
DenotedFrom(s, w, knd) ==
  LET left(i) == w - Payload * (i - 1)
      from[i \in 1 .. Len(s) + 1] ==
        IF i > Len(s) \/ left(i) <= 0 THEN {}
        ELSE IF Continues(s[i])
        THEN {Pow2[Payload] * m + (s[i] - Pow2[Payload]) : m \in from[i + 1]}
        ELSE IF i = Len(s) THEN LastByte(s[i], left(i), knd) ELSE {}
  IN from

Denoted(s) == DenotedFrom(s, bits, kind)[1]

\* The accumulator read as the type the reader returns.
ValueOf(r) == IF kind = "unsigned" \/ r < Pow2[Acc - 1] THEN r ELSE r - Pow2[Acc]

\* What was read so far denotes the accumulator, with no bit above the
\* shift, and no shift reaches the width of the accumulator.
AccumulatorOK ==
  /\ status \in {"reading", "ok", "type", "eof", "too long", "too large", "malformed"}
  /\ result \in 0 .. Pow2[Acc] - 1
  /\ status = "reading" => shift = Payload * Len(input) /\ shift < Acc

\* A number is accepted only from an encoding of it that the grammar allows,
\* overlong ones included, and with its value: at every width, for the sign
\* of short encodings and for the last byte of full ones (uleb, sleb).
AcceptsItsValue ==
  /\ status = "ok" => Denoted(input) = {ValueOf(result)}
  /\ status = "ok" /\ kind = "block" => ValueOf(result) >= 0

\* What is rejected has no encoding among its continuations: nothing the
\* grammar allows is refused as too long or too large, and a block type is
\* malformed only if it is a negative number.
RejectsNoNumber ==
  /\ status \in {"too long", "too large"} =>
       \A t \in {<<>>} \cup {<<b>> : b \in Byte} : Denoted(input \o t) = {}
  /\ status = "malformed" => \A n \in Denoted(input) : n < 0

\* A single-byte block type never hides a type index: the byte alone is a
\* negative number (blocktype tries the types first).
TypesShadowNoIndex ==
  status = "type" =>
    /\ \A n \in Denoted(input) : n < 0
    /\ \A b \in Byte : Denoted(Append(input, b)) = {}

\* All of it: the readers of numbers accept exactly the encodings of the
\* grammar, with their values, and a block type's byte hides no index
\* (decode.rs uleb, sleb, blocktype).
NumbersAreTheirs == AccumulatorOK /\ AcceptsItsValue /\ RejectsNoNumber /\ TypesShadowNoIndex
=============================================================================
