------------------------------ MODULE Entries ------------------------------
(***************************************************************************)
(* The entries of a binary module's sections as decode.rs reads them: the  *)
(* arms of module() for types, imports, tables, memories, globals and      *)
(* exports, and elem() and data().  One entry is read byte by byte.        *)
(*                                                                         *)
(* agenda is the code still to run: the reads that the functions on the    *)
(* call stack have ahead of them.  A read may put others in front of it,   *)
(* a loop over n its n reads.  Numbers take one byte here (Leb128 has the  *)
(* others); a constant expression is operators up to an end (Body has the  *)
(* nesting of blocks).                                                     *)
(***************************************************************************)
EXTENDS Integers, Sequences

CONSTANTS
  Kinds,      \* the sections whose entries are read
  Tags,       \* the bytes met where one of a few is expected
  Numbers,    \* u32s that are no counts
  MaxVec,     \* bound on counts
  Raw, Utf8,  \* bytes of names and data; those that are a character
  Plain, Bad, \* operators without immediates; a byte that is no operator
  MaxExpr     \* bound on the operators of an expression

\* What the constants are; MCDecoder assumes it of the values it gives.
EntriesAssumption ==
  /\ Tags \cup Numbers \cup Raw \cup Plain \cup {Bad, MaxVec, MaxExpr} \subseteq Nat
  /\ Utf8 \subseteq Raw /\ Bad \notin Plain

VARIABLES
  kind,     \* the section's
  bytes,    \* the bytes read, self.b[..self.pos]
  agenda,   \* the reads to come
  acc,      \* out of expr_until_end: the operators so far
  fields,   \* the local variables of the entry's function, vectors as they are pushed to
  reason    \* why the entry was rejected, or "none"

vars == <<kind, bytes, agenda, acc, fields, reason>>

Names == {"params", "results", "module", "name", "desc", "limits", "index", "elem", "min", "max", "val",
          "mutable", "init", "flags", "table", "offset", "ty", "bytes", "mem"}

End == 11
FuncRef == 112
ExternRef == 111
RefTypes == {FuncRef, ExternRef}
ValTypes == 123 .. 127 \cup RefTypes

-----------------------------------------------------------------------------
(* Reads: which, and the variable that gets the value.                     *)

R(read, to) == [read |-> read, to |-> to, of |-> "none"]
VecOf(read, to) == [read |-> "vec", to |-> to, of |-> read]

\* name(): a length, as many bytes, the test of them
NameTo(to) == <<VecOf("raw", to), R("utf8", to)>>

\* The arms of module(), and what they call
EntryReads(k) ==
  CASE k = "type"   -> <<R("form", "desc"), VecOf("valtype", "params"), VecOf("valtype", "results")>>
    [] k = "import" -> NameTo("module") \o NameTo("name") \o <<R("import_kind", "desc")>>
    [] k = "table"  -> <<R("reftype", "elem"), R("limits", "limits")>>
    [] k = "mem"    -> <<R("limits", "limits")>>
    [] k = "global" -> <<R("valtype", "val"), R("mut", "mutable"), R("op", "init")>>
    [] k = "export" -> NameTo("name") \o <<R("export_kind", "desc")>>
    [] k = "elem"   -> <<R("elem_flags", "flags")>>
    [] k = "data"   -> <<R("data_flags", "flags")>>

Init ==
  /\ kind \in Kinds
  /\ agenda = EntryReads(kind)
  /\ bytes = <<>> /\ acc = <<>> /\ reason = "none"
  /\ fields = [n \in Names |-> <<>>]

ElemForm(flags) == flags <= 7

\* The arms of each match on a byte
Legal(it, b) ==
  CASE it.read = "form"    -> b = 96
    [] it.read = "valtype" -> b \in ValTypes
    [] it.read = "reftype" -> b \in RefTypes
    [] it.read \in {"mut", "limits"} -> b \in {0, 1}
    [] it.read \in {"import_kind", "export_kind"} -> b \in 0 .. 3
    [] it.read = "elem_flags" -> ElemForm(b)
    [] it.read = "elem_kind"  -> b = 0
    [] it.read = "data_flags" -> b <= 2
    [] it.read = "op" -> b \in Plain \cup {End}
    [] it.read \in {"vec", "u32", "raw"} -> TRUE

-----------------------------------------------------------------------------
(* elem().                                                                 *)

Bit(flags, k) == (flags \div 2^k) % 2 = 1
IsActive(flags) == ~Bit(flags, 0)

\* Mutant of KindGiven: only a passive or declarative segment tells its type.
KindGivenPassive(flags) == Bit(flags, 0)

\* flags & 0b011 != 0: a kind or type byte is there
KindGiven(flags) == Bit(flags, 0) \/ Bit(flags, 1)

If(c, reads) == IF c THEN reads ELSE <<>>

ElemReads(flags) ==
  If(IsActive(flags) /\ Bit(flags, 1), <<R("u32", "table")>>) \o
  If(IsActive(flags), <<R("op", "offset")>>) \o
  If(KindGiven(flags), <<R(IF Bit(flags, 2) THEN "reftype" ELSE "elem_kind", "ty")>>) \o
  <<VecOf(IF Bit(flags, 2) THEN "op" ELSE "u32", "init")>>

\* data()
DataReads(flags) ==
  If(flags = 2, <<R("u32", "mem")>>) \o
  If(flags # 1, <<R("op", "offset")>>) \o
  <<VecOf("raw", "bytes")>>

\* limits(), and the arms of an import's kind
LimitsReads(b) == <<R("u32", "min")>> \o If(b = 1, <<R("u32", "max")>>)

ImportReads(b) ==
  CASE b = 0 -> <<R("u32", "index")>>
    [] b = 1 -> EntryReads("table")
    [] b = 2 -> EntryReads("mem")
    [] b = 3 -> <<R("valtype", "val"), R("mut", "mutable")>>

\* What a byte that was read makes the decoder read next
Expanded(it, b) ==
  CASE it.read = "vec"         -> [i \in 1 .. b |-> R(it.of, it.to)]
    [] it.read = "op"          -> If(b # End, <<it>>)
    [] it.read = "limits"      -> LimitsReads(b)
    [] it.read = "import_kind" -> ImportReads(b)
    [] it.read = "export_kind" -> <<R("u32", "index")>>
    [] it.read = "elem_flags"  -> ElemReads(b)
    [] it.read = "data_flags"  -> DataReads(b)
    [] OTHER -> <<>>

\* Counts say how many values follow and are no values themselves.
Stored(it, b) ==
  CASE it.read = "vec" -> fields
    [] it.read = "op" -> IF b = End THEN [fields EXCEPT ![it.to] = Append(@, Append(acc, End))]
                         ELSE fields
    [] OTHER -> [fields EXCEPT ![it.to] = Append(@, b)]

Operators(it, b) == IF it.read = "op" /\ b # End THEN Append(acc, b) ELSE <<>>

-----------------------------------------------------------------------------

\* The bytes that may come: any, but counts and lengths of expressions are bounded.
Alphabet(it) ==
  CASE it.read = "vec" -> 0 .. MaxVec
    [] it.read = "op"  -> {Bad, End} \cup {b \in Plain : Len(acc) + 1 < MaxExpr}
    [] it.read = "u32" -> Numbers
    [] it.read = "raw" -> Raw
    [] OTHER -> Tags

Reading == reason = "none" /\ agenda # <<>>

ReadByte ==
  /\ Reading /\ Head(agenda).read # "utf8"
  /\ LET it == Head(agenda)
     IN \E b \in Alphabet(it) :
          /\ bytes' = Append(bytes, b)
          /\ \/ /\ Legal(it, b)
                /\ agenda' = Expanded(it, b) \o Tail(agenda)
                /\ fields' = Stored(it, b) /\ acc' = Operators(it, b)
                /\ UNCHANGED reason
             \/ /\ ~Legal(it, b)
                /\ reason' = "malformed"
                /\ UNCHANGED <<agenda, fields, acc>>
  /\ UNCHANGED kind

\* byte() or take(n): there are no more, or too few for all that n says
EndOfInput ==
  /\ Reading /\ Head(agenda).read # "utf8"
  /\ reason' = "eof"
  /\ UNCHANGED <<kind, bytes, agenda, acc, fields>>

\* from_utf8, once the whole name was taken
CheckName ==
  /\ Reading /\ Head(agenda).read = "utf8"
  /\ LET name == fields[Head(agenda).to]
     IN IF \A i \in DOMAIN name : name[i] \in Utf8
        THEN agenda' = Tail(agenda) /\ UNCHANGED reason
        ELSE reason' = "utf8" /\ UNCHANGED agenda
  /\ UNCHANGED <<kind, bytes, acc, fields>>

Next == ReadByte \/ EndOfInput \/ CheckName

Spec == Init /\ [][Next]_vars

-----------------------------------------------------------------------------
(* The entry that the function returns once all is read.                   *)

Or0(s) == IF s = <<>> THEN 0 ELSE Head(s)
Flags == Head(fields.flags)

ElemMode == CASE IsActive(Flags) -> "active"
              [] ~IsActive(Flags) /\ Bit(Flags, 1) -> "declarative"
              [] ~IsActive(Flags) /\ ~Bit(Flags, 1) -> "passive"

Elem ==
  [ty |-> IF Bit(Flags, 2) /\ KindGiven(Flags) THEN Head(fields.ty) ELSE FuncRef,
   init |-> [i \in DOMAIN fields.init |->
               IF Bit(Flags, 2) THEN [expr |-> fields.init[i]] ELSE [func |-> fields.init[i]]],
   mode |-> ElemMode, table |-> Or0(fields.table), offset |-> fields.offset]

Data ==
  [bytes |-> fields.bytes, mode |-> IF Flags = 1 THEN "passive" ELSE "active",
   mem |-> Or0(fields.mem), offset |-> fields.offset]

\* The other entries are the values in their variables.
Entry == CASE kind = "elem" -> Elem [] kind = "data" -> Data [] OTHER -> fields
=============================================================================
