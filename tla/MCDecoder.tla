----------------------------- MODULE MCDecoder -----------------------------
(***************************************************************************)
(* The decoder in four parts, of which a behaviour runs one: the framing   *)
(* of short files with all sections, that of longer files of the sections  *)
(* that count, the variable-length integers, and the entries of sections.  *)
(***************************************************************************)
EXTENDS SectionsProps, Leb128

VARIABLES
  part,
  entryKind, bytes, agenda, acc, fields, entryReason      \* of Entries

entryRead == <<entryKind, bytes, agenda, acc, fields, entryReason>>

-----------------------------------------------------------------------------
(* Framing.                                                                *)

\* Up to 12 bytes of sections, numbers of one or two bytes, all ids
ShortFiles == {3, 6} \cup {8, 9, 11, 13, 14, 16} \cup {20}
AllIds     == 0 .. 13
ShortSizes == {0, 1, 2, 3, 6}
ShortCounts == 0 .. 2

\* Up to 22 bytes of the sections whose numbers must agree, of one byte
\* each: room for two functions with bodies that use segments, a data count
\* and data
Long == INSTANCE SectionsProps WITH
  Lengths  <- {25, 27, 29, 30},
  Ids      <- {3, 10, 12, 11},
  Sizes    <- {1, 2, 3, 4, 8, 9, 10},
  Counts   <- 0 .. 2,
  MaxWidth <- 1,
  MaxToken <- 2
ASSUME Long!SectionsAssumption

-----------------------------------------------------------------------------
(* Numbers.  Bytes of 3 bits and a continuation bit, an accumulator of 10  *)
(* bits.  Width 5 stands for 32 (5 bytes with 4 of 7 bits used, far below  *)
(* the accumulator), 6 has a full last byte, 7 stands for 33 and 10 for    *)
(* 64: one bit in the last byte, shifted to the top of the accumulator.    *)
(* 4, 6 and 7 stand for 0x40 and the value types: single bytes with the    *)
(* sign bit set.                                                           *)

SomeWidths    == {5, 6, 7, 10}
SomeTypeBytes == {4, 6, 7}

-----------------------------------------------------------------------------
(* Entries.  The tags are every byte that some match of the decoder tells  *)
(* from the others, and a neighbour of each: flags and kinds 0 to 8, the   *)
(* byte of a function type, the first and the last number type, the two    *)
(* reference types and what is next to them.                               *)

Ent == INSTANCE EntriesProps WITH
  Kinds <- {"type", "import", "table", "mem", "global", "export", "elem", "data"},
  Tags <- 0 .. 8 \cup {95, 96, 110, 111, 112, 113, 122, 123, 127},
  Numbers <- {0, 1}, MaxVec <- 2, Raw <- {97, 255}, Utf8 <- {97},
  Plain <- {1}, Bad <- 6, MaxExpr <- 2,
  kind <- entryKind, reason <- entryReason
ASSUME Ent!EntriesAssumption

-----------------------------------------------------------------------------
(* The parts.                                                              *)

NoNumber == NumberInit /\ kind = "unsigned" /\ bits = 5
NoEntry ==
  /\ entryKind = None /\ bytes = None /\ agenda = None
  /\ acc = None /\ fields = None /\ entryReason = None
NoFile == Init /\ len = 3

DecoderInit ==
  \/ part = "short" /\ Init /\ NoNumber /\ NoEntry
  \/ part = "long" /\ Long!Init /\ NoNumber /\ NoEntry
  \/ part = "number" /\ NumberInit /\ NoFile /\ NoEntry
  \/ part = "entry" /\ Ent!Init /\ NoFile /\ NoNumber

ReadShort  == part = "short" /\ Next /\ UNCHANGED <<part, numberVars, entryRead>>
ReadLong   == part = "long" /\ Long!Next /\ UNCHANGED <<part, numberVars, entryRead>>
ReadNumber == part = "number" /\ NumberNext /\ UNCHANGED <<part, vars, entryRead>>
ReadEntry  == part = "entry" /\ Ent!Next /\ UNCHANGED <<part, vars, numberVars>>

DecoderNext == ReadShort \/ ReadLong \/ ReadNumber \/ ReadEntry

DecoderSpec == DecoderInit /\ [][DecoderNext]_<<part, vars, numberVars, entryRead>>

\* The readers of entries accept exactly the productions of the grammar,
\* with their meaning, and reject only what begins none of them (decode.rs
\* module, elem, data, limits, tabletype, globaltype, name, expr_until_end).
EntriesAreTheirs ==
  part = "entry" => Ent!TypeOK /\ Ent!AcceptsItsEncoding /\ Ent!RejectsNoEncoding
=============================================================================
