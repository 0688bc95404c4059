---------------------------- MODULE EntriesProps ----------------------------
(***************************************************************************)
(* The entries of sections as the grammar of the binary format gives them: *)
(* productions, each with the bytes it writes and the entry it means.      *)
(***************************************************************************)
EXTENDS Entries, TLC, SequencesExt

Accepted == reason = "none" /\ agenda = <<>>

\* The variables keep their types: an expression under construction exists
\* only while one is read, and only an optional read is ever left out.
TypeOK ==
  /\ kind \in Kinds /\ reason \in {"none", "malformed", "eof", "utf8"}
  /\ \A i \in DOMAIN bytes : bytes[i] \in Nat
  /\ \A i \in DOMAIN agenda : agenda[i].to \in Names
  /\ acc # <<>> => agenda # <<>> /\ Head(agenda).read = "op"
  /\ \A n \in Names \ {"params", "results", "module", "name", "init", "bytes"} :
       Len(fields[n]) <= 1
  /\ Accepted => fields.max = <<>> \/ fields.min # <<>>

-----------------------------------------------------------------------------
(* Productions: e is what is written, v what it means.                     *)

P(e, v) == [e |-> e, v |-> v]
SeqsOf(S) == UNION {[1 .. n -> S] : n \in 0 .. MaxVec}
Values(s) == [i \in DOMAIN s |-> s[i].v]
Encodings(s) == FlattenSeq([i \in DOMAIN s |-> s[i].e])

Vec(S) == {P(<<Len(s)>> \o Encodings(s), Values(s)) : s \in SeqsOf(S)}
OneByte(S) == {P(<<b>>, b) : b \in S}
Expr == {P(Append(s, End), Append(s, End)) : s \in UNION {[1 .. n -> Plain] : n \in 0 .. MaxExpr - 1}}
NameOf == Vec(OneByte(Utf8))
U32 == OneByte(Numbers)

\* An entry whose variables have the values of r, and no others
With(r) == r @@ [n \in Names |-> <<>>]

LimitsOf ==
  {P(<<0>> \o a.e, [limits |-> <<0>>, min |-> <<a.v>>, max |-> <<>>]) : a \in U32} \cup
  {P(<<1>> \o a.e \o b.e, [limits |-> <<1>>, min |-> <<a.v>>, max |-> <<b.v>>]) : a \in U32, b \in U32}

TableOf == {P(<<t>> \o l.e, [elem |-> <<t>>] @@ l.v) : t \in RefTypes \cap Tags, l \in LimitsOf}
GlobalOf == {P(<<t, m>>, [val |-> <<t>>, mutable |-> <<m>>]) : t \in ValTypes \cap Tags, m \in {0, 1}}
IndexOf == {P(a.e, [index |-> <<a.v>>]) : a \in U32}

\* A description is a byte and what it describes.
Described(b, S) == {P(<<b>> \o x.e, [desc |-> <<b>>] @@ x.v) : x \in S}
ImportOf == Described(0, IndexOf) \cup Described(1, TableOf) \cup Described(2, LimitsOf)
              \cup Described(3, GlobalOf)
ExportOf == UNION {Described(b, IndexOf) : b \in 0 .. 3}

Funcs == {P(x.e, [i \in DOMAIN x.v |-> [func |-> x.v[i]]]) : x \in Vec(U32)}
Exprs == {P(x.e, [i \in DOMAIN x.v |-> [expr |-> x.v[i]]]) : x \in Vec(Expr)}
FuncKind == {P(<<0>>, FuncRef)}
RefKind  == OneByte(RefTypes \cap Tags)
Implicit == {P(<<>>, FuncRef)}

ElemIs(flags, mode, tables, offsets, kinds, inits) ==
  {P(<<flags>> \o t.e \o o.e \o k.e \o i.e,
     [ty |-> k.v, init |-> i.v, mode |-> mode, table |-> t.v, offset |-> o.v]) :
     t \in tables, o \in offsets, k \in kinds, i \in inits}

NoTable  == {P(<<>>, 0)}
NoOffset == {P(<<>>, <<>>)}
Offset   == {P(x.e, <<x.v>>) : x \in Expr}

\* The eight forms of an element segment, and the three of a data segment
ElemOf ==
  ElemIs(0, "active", NoTable, Offset, Implicit, Funcs) \cup
  ElemIs(1, "passive", NoTable, NoOffset, FuncKind, Funcs) \cup
  ElemIs(2, "active", U32, Offset, FuncKind, Funcs) \cup
  ElemIs(3, "declarative", NoTable, NoOffset, FuncKind, Funcs) \cup
  ElemIs(4, "active", NoTable, Offset, Implicit, Exprs) \cup
  ElemIs(5, "passive", NoTable, NoOffset, RefKind, Exprs) \cup
  ElemIs(6, "active", U32, Offset, RefKind, Exprs) \cup
  ElemIs(7, "declarative", NoTable, NoOffset, RefKind, Exprs)

DataIs(flags, mode, mems, offsets) ==
  {P(<<flags>> \o m.e \o o.e \o b.e,
     [bytes |-> b.v, mode |-> mode, mem |-> m.v, offset |-> o.v]) :
     m \in mems, o \in offsets, b \in Vec(OneByte(Raw))}
DataOf == DataIs(0, "active", NoTable, Offset) \cup DataIs(1, "passive", NoTable, NoOffset)
            \cup DataIs(2, "active", U32, Offset)

Types == Vec(OneByte(ValTypes \cap Tags))

TypeEntries   == {P(<<96>> \o p.e \o r.e, With([desc |-> <<96>>, params |-> p.v, results |-> r.v])) :
                    p \in Types, r \in Types}
ImportEntries == {P(m.e \o n.e \o d.e, With([module |-> m.v, name |-> n.v] @@ d.v)) :
                    m \in NameOf, n \in NameOf, d \in ImportOf}
TableEntries  == {P(x.e, With(x.v)) : x \in TableOf}
MemEntries    == {P(x.e, With(x.v)) : x \in LimitsOf}
GlobalEntries == {P(g.e \o x.e, With([init |-> <<x.v>>] @@ g.v)) : g \in GlobalOf, x \in Expr}
ExportEntries == {P(n.e \o d.e, With([name |-> n.v] @@ d.v)) : n \in NameOf, d \in ExportOf}

Grammar ==
  [k \in {"type", "import", "table", "mem", "global", "export", "elem", "data"} |->
     CASE k = "type"   -> TypeEntries
       [] k = "import" -> ImportEntries
       [] k = "table"  -> TableEntries
       [] k = "mem"    -> MemEntries
       [] k = "global" -> GlobalEntries
       [] k = "export" -> ExportEntries
       [] k = "elem"   -> ElemOf
       [] k = "data"   -> DataOf]

-----------------------------------------------------------------------------
(* The decoder against the grammar.                                        *)

\* An entry is accepted as soon as its bytes are one of the grammar, not
\* earlier or later, and means what the grammar says: every form of a
\* segment has its mode, table, type and initialisers (elem, data and the
\* arms of module).
AcceptsItsEncoding ==
  /\ Accepted => P(bytes, Entry) \in Grammar[kind]
  /\ Reading /\ Head(agenda).read # "utf8" => \A x \in Grammar[kind] : x.e # bytes

\* What is rejected, other than by the end of the input, begins no entry of
\* the grammar: the decoder refuses no module that it should take.
RejectsNoEncoding ==
  reason \in {"malformed", "utf8"} => \A x \in Grammar[kind] : ~IsPrefix(bytes, x.e)
=============================================================================
