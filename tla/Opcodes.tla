------------------------------ MODULE Opcodes ------------------------------
(***************************************************************************)
(* The straight-line instructions, through the three parts of the code     *)
(* that each keep a table of them: decode.rs reads an opcode and its       *)
(* immediates, validate.rs types the instruction, exec.rs and simd.rs run  *)
(* it.  The control instructions are in Body and Machine, what the         *)
(* instructions compute in Numeric, Memory and Lanes: here a value is its  *)
(* type.                                                                   *)
(*                                                                         *)
(* The enums of module.rs name an operation once and decode.rs has one     *)
(* opcode for each, so an operation is named by its opcode: a load by its  *)
(* byte, a vector operation by its number under 0xfd, a saturating         *)
(* truncation by Sat(its number under 0xfc).                               *)
(*                                                                         *)
(* The code validates a whole body and runs it afterwards.  Neither reads  *)
(* what the other keeps, so the model takes the two one instruction at a   *)
(* time: `types` is the validator's stack, `values` the interpreter's.     *)
(***************************************************************************)
EXTENDS Integers, Sequences, FiniteSets, SequencesExt

CONSTANTS
  Locals,     \* the declared types of the locals
  Globals,    \* the globals: their type and whether they are mutable
  Tables,     \* the element types of the tables
  Elems,      \* the types of the element segments
  Datas,      \* how many data segments there are
  Declared,   \* for each function whether a ref.func may name it
  Memories,   \* the numbers of memories to consider: 0 or 1
  Indices,    \* the immediates: indices,
  Aligns,     \*   alignment exponents,
  LaneBytes,  \*   lane numbers
  MaxHeight   \* bound on the operand stack when an instruction starts

RefTypes == {"funcref", "externref"}
ValTypes == {"i32", "i64", "f32", "f64", "v128"} \cup RefTypes

ASSUME OpcodesAssumption ==
  /\ Locals \in Seq(ValTypes)
  /\ Globals \in Seq([val : ValTypes, mutable : BOOLEAN])
  /\ Tables \in Seq(RefTypes) /\ Elems \in Seq(RefTypes)
  /\ Declared \in Seq(BOOLEAN)
  /\ Datas \in Nat /\ Memories \subseteq 0..1 /\ MaxHeight \in Nat
  /\ Indices \subseteq Nat /\ Aligns \subseteq Nat /\ LaneBytes \subseteq 0..255

\* An index of the program text, in a space kept as a sequence.
Within(i, space) == i < Len(space)
At(space, i)     == space[i + 1]

-----------------------------------------------------------------------------
(* decode.rs: which instruction an opcode is.                              *)

Sat(s) == \hfc00 + s

\* The numeric operations of one byte: plain_numop has all of these.
NumOps == \h45..\hc4

\* The opcodes of one byte, the control instructions (below 0x1a) left out.
PlainKind(b) ==
  CASE b = \h1a -> "Drop"       [] b = \h1b -> "Select"     [] b = \h1c -> "SelectT"
    [] b = \h20 -> "LocalGet"   [] b = \h21 -> "LocalSet"   [] b = \h22 -> "LocalTee"
    [] b = \h23 -> "GlobalGet"  [] b = \h24 -> "GlobalSet"
    [] b = \h25 -> "TableGet"   [] b = \h26 -> "TableSet"
    [] b \in \h28..\h35 -> "Load" [] b \in \h36..\h3e -> "Store"
    [] b = \h3f -> "MemorySize" [] b = \h40 -> "MemoryGrow"
    [] b \in \h41..\h44 -> "Const" [] b \in NumOps -> "Num"
    [] b = \hd0 -> "RefNull"    [] b = \hd1 -> "RefIsNull"  [] b = \hd2 -> "RefFunc"
    [] OTHER -> "illegal"

\* The numbers under 0xfc.
MiscKind(s) ==
  IF s \in 0..7 THEN "Num" ELSE
  IF s \notin 8..17 THEN "illegal" ELSE
  <<"MemoryInit", "DataDrop", "MemoryCopy", "MemoryFill", "TableInit", "ElemDrop",
    "TableCopy", "TableGrow", "TableSize", "TableFill">>[s - 7]

SimdMemPlain == (\h00..\h0b) \cup {\h5c, \h5d}
SimdMemLane  == \h54..\h5b
SimdLaneOps  == \h15..\h22

\* Mutant of SimdOps: the last number without an instruction is taken.
SimdOpsMore == ((\h0e..\h14) \cup (\h23..\h53) \cup (\h5e..\hff)) \
  {\h9a, \ha2, \ha5, \ha6, \haf, \hb0, \hb2, \hb3, \hb4, \hbb, \hc2, \hc5,
   \hc6, \hcf, \hd0, \hd2, \hd3, \hd4, \he2}

\* The numbers of the operations on vectors alone: there are gaps.
SimdOps == ((\h0e..\h14) \cup (\h23..\h53) \cup (\h5e..\hff)) \
  {\h9a, \ha2, \ha5, \ha6, \haf, \hb0, \hb2, \hb3, \hb4, \hbb, \hc2, \hc5,
   \hc6, \hcf, \hd0, \hd2, \hd3, \hd4, \he2, \hee}

\* The numbers under 0xfd.
SimdKind(s) ==
  CASE s \in SimdMemPlain \cup SimdMemLane -> "SimdMem"
    [] s = \h0c -> "V128Const"
    [] s = \h0d -> "Shuffle"
    [] s \in SimdLaneOps -> "SimdLane"
    [] s \in SimdOps -> "Simd"
    [] OTHER -> "illegal"

KindOf(prefix, code) ==
  IF prefix = \hfc THEN MiscKind(code) ELSE
  IF prefix = \hfd THEN SimdKind(code) ELSE PlainKind(code)

-----------------------------------------------------------------------------
(* decode.rs: the immediates.  An instruction is a record whose fields are *)
(* 0 or <<>> where it has no such immediate.                               *)

OneIndex == {"LocalGet", "LocalSet", "LocalTee", "GlobalGet", "GlobalSet", "TableGet",
             "TableSet", "RefFunc", "MemoryInit", "DataDrop", "ElemDrop", "TableGrow",
             "TableSize", "TableFill"}
TwoIndex == {"TableInit", "TableCopy"}
VariableKinds == {"LocalGet", "LocalSet", "LocalTee", "GlobalGet", "GlobalSet"}
TableKinds    == {"TableGet", "TableSet", "TableGrow", "TableSize", "TableFill"} \cup TwoIndex
Accesses == {"Load", "Store", "SimdMem"}
ZeroByte == {"MemorySize", "MemoryGrow", "MemoryInit", "MemoryCopy", "MemoryFill"}

Instr(kind, op, x, y, align, lane, tys) ==
  [kind |-> kind, op |-> op, x |-> x, y |-> y, align |-> align, lane |-> lane, tys |-> tys]
NoInstr == Instr("none", 0, 0, 0, 0, 0, <<>>)

HasLane(kind, op) == kind \in {"SimdLane", "Shuffle"} \/ (kind = "SimdMem" /\ op \in SimdMemLane)

\* What the type vector of a typed select, or the type of a null, can be:
\* `valtype` and `reftype` take no other byte.
TypesOf(kind) ==
  IF kind = "SelectT" THEN {<<>>} \cup {<<t>> : t \in ValTypes} \cup {<<"i32", "i32">>} ELSE
  IF kind = "RefNull" THEN {<<t>> : t \in RefTypes} ELSE {<<>>}

\* The instructions an opcode can stand for, one for each immediate it may
\* carry.  A shuffle's sixteen lanes are kept as the largest of them.
InstrsOf(kind, op) ==
  {Instr(kind, op, x, y, a, l, ts) :
     x  \in IF kind \in OneIndex \cup TwoIndex THEN Indices ELSE {0},
     y  \in IF kind \in TwoIndex THEN Indices ELSE {0},
     a  \in IF kind \in Accesses THEN Aligns ELSE {0},
     l  \in IF HasLane(kind, op) THEN LaneBytes ELSE {0},
     ts \in TypesOf(kind)}

\* "malformed memop flags": memarg refuses what would not fit 32 bits.
MemargOk(i) == i.kind \in Accesses => i.align < 32

-----------------------------------------------------------------------------
(* validate.rs: the type of an instruction, [ins, out].                    *)

Sig(ins, out) == [ins |-> ins, out |-> out]

\* num_step.
NumSig(op) ==
  CASE op = \h45 -> Sig(<<"i32">>, <<"i32">>)
    [] op = \h50 -> Sig(<<"i64">>, <<"i32">>)
    [] op \in \h46..\h4f -> Sig(<<"i32", "i32">>, <<"i32">>)
    [] op \in \h51..\h5a -> Sig(<<"i64", "i64">>, <<"i32">>)
    [] op \in \h5b..\h60 -> Sig(<<"f32", "f32">>, <<"i32">>)
    [] op \in \h61..\h66 -> Sig(<<"f64", "f64">>, <<"i32">>)
    [] op \in (\h67..\h69) \cup {\hc0, \hc1} -> Sig(<<"i32">>, <<"i32">>)
    [] op \in \h6a..\h78 -> Sig(<<"i32", "i32">>, <<"i32">>)
    [] op \in (\h79..\h7b) \cup (\hc2..\hc4) -> Sig(<<"i64">>, <<"i64">>)
    [] op \in \h7c..\h8a -> Sig(<<"i64", "i64">>, <<"i64">>)
    [] op \in \h8b..\h91 -> Sig(<<"f32">>, <<"f32">>)
    [] op \in \h92..\h98 -> Sig(<<"f32", "f32">>, <<"f32">>)
    [] op \in \h99..\h9f -> Sig(<<"f64">>, <<"f64">>)
    [] op \in \ha0..\ha6 -> Sig(<<"f64", "f64">>, <<"f64">>)
    [] op = \ha7 -> Sig(<<"i64">>, <<"i32">>)
    [] op \in {\ha8, \ha9, Sat(0), Sat(1), \hbc} -> Sig(<<"f32">>, <<"i32">>)
    [] op \in {\haa, \hab, Sat(2), Sat(3)} -> Sig(<<"f64">>, <<"i32">>)
    [] op \in {\hac, \had} -> Sig(<<"i32">>, <<"i64">>)
    [] op \in {\hae, \haf, Sat(4), Sat(5)} -> Sig(<<"f32">>, <<"i64">>)
    [] op \in {\hb0, \hb1, Sat(6), Sat(7), \hbd} -> Sig(<<"f64">>, <<"i64">>)
    [] op \in {\hb2, \hb3, \hbe} -> Sig(<<"i32">>, <<"f32">>)
    [] op \in {\hb4, \hb5} -> Sig(<<"i64">>, <<"f32">>)
    [] op = \hb6 -> Sig(<<"f64">>, <<"f32">>)
    [] op \in {\hb7, \hb8} -> Sig(<<"i32">>, <<"f64">>)
    [] op \in {\hb9, \hba, \hbf} -> Sig(<<"i64">>, <<"f64">>)
    [] op = \hbb -> Sig(<<"f32">>, <<"f64">>)

SimdShifts == {\h6b, \h6c, \h6d, \h8b, \h8c, \h8d, \hab, \hac, \had, \hcb, \hcc, \hcd}

\* The operations validate.rs lists as v128 -> v128.
SimdOneOperand ==
  {\h4d, \h5e, \h5f, \h60, \h61, \h62, \h67, \h68, \h69, \h6a, \h74, \h75, \h7a, \h94}
  \cup (\h7c..\h81) \cup (\h87..\h8a) \cup {\ha0, \ha1} \cup (\ha7..\haa)
  \cup {\hc0, \hc1} \cup (\hc7..\hca) \cup {\he0, \he1, \he3, \hec, \hed, \hef}
  \cup (\hf8..\hff)

\* simd_step: what it does not list takes two vectors.
SimdSig(op) ==
  CASE op \in {\h0f, \h10, \h11} -> Sig(<<"i32">>, <<"v128">>)
    [] op = \h12 -> Sig(<<"i64">>, <<"v128">>)
    [] op = \h13 -> Sig(<<"f32">>, <<"v128">>)
    [] op = \h14 -> Sig(<<"f64">>, <<"v128">>)
    [] op \in {\h53, \h63, \h64, \h83, \h84, \ha3, \ha4, \hc3, \hc4} -> Sig(<<"v128">>, <<"i32">>)
    [] op = \h52 -> Sig(<<"v128", "v128", "v128">>, <<"v128">>)
    [] op \in SimdShifts -> Sig(<<"v128", "i32">>, <<"v128">>)
    [] op \in SimdOneOperand -> Sig(<<"v128">>, <<"v128">>)
    [] OTHER -> Sig(<<"v128", "v128">>, <<"v128">>)

\* How many lanes a lane operation's shape has, and the type of one.
LaneShape(op) ==
  CASE op \in \h15..\h17 -> <<16, "i32">> [] op \in \h18..\h1a -> <<8, "i32">>
    [] op \in {\h1b, \h1c} -> <<4, "i32">> [] op \in {\h1d, \h1e} -> <<2, "i64">>
    [] op \in {\h1f, \h20} -> <<4, "f32">> [] op \in {\h21, \h22} -> <<2, "f64">>
Replaces == {\h17, \h1a, \h1c, \h1e, \h20, \h22}

\* The natural alignment of an access in bytes, and the type it moves.
LoadShape(op) ==
  CASE op = \h28 -> <<4, "i32">> [] op = \h29 -> <<8, "i64">>
    [] op = \h2a -> <<4, "f32">> [] op = \h2b -> <<8, "f64">>
    [] op \in {\h2c, \h2d} -> <<1, "i32">> [] op \in {\h2e, \h2f} -> <<2, "i32">>
    [] op \in {\h30, \h31} -> <<1, "i64">> [] op \in {\h32, \h33} -> <<2, "i64">>
    [] op \in {\h34, \h35} -> <<4, "i64">>
StoreShape(op) ==
  <<<<4, "i32">>, <<8, "i64">>, <<4, "f32">>, <<8, "f64">>, <<1, "i32">>, <<2, "i32">>,
    <<1, "i64">>, <<2, "i64">>, <<4, "i64">>>>[op - \h35]
SimdNatural(op) ==
  CASE op \in {\h00, \h0b} -> 16 [] op \in \h01..\h06 -> 8
    [] op = \h07 -> 1 [] op = \h08 -> 2 [] op = \h09 -> 4 [] op = \h0a -> 8
    [] op = \h5c -> 4 [] op = \h5d -> 8
    [] op \in {\h54, \h58} -> 1 [] op \in {\h55, \h59} -> 2
    [] op \in {\h56, \h5a} -> 4 [] op \in {\h57, \h5b} -> 8
SimdMemLanes(op) ==
  CASE op \in {\h54, \h58} -> 16 [] op \in {\h55, \h59} -> 8
    [] op \in {\h56, \h5a} -> 4 [] op \in {\h57, \h5b} -> 2 [] OTHER -> 0

Natural(i) ==
  CASE i.kind = "Load" -> LoadShape(i.op)[1]
    [] i.kind = "Store" -> StoreShape(i.op)[1]
    [] OTHER -> SimdNatural(i.op)

\* Mutant of AlignOk: twice the natural alignment is let through.
AlignOkLoose(align, natural) == align < 32 /\ 2^align <= 2 * natural

\* check_align: "alignment must not be larger than natural".
AlignOk(align, natural) == align < 32 /\ 2^align <= natural

-----------------------------------------------------------------------------
(* validate.rs: one instruction on a stack.  The body is reachable here,   *)
(* so the stack holds no bottoms; MachineProps has those.                  *)

Top(stack, n) == IF n < Len(stack) THEN stack[Len(stack) - n] ELSE "none"

\* Mutant of ElementsAgree: table.copy does not compare the element types.
ElementsAgreeInit(i) == i.kind = "TableInit" => At(Elems, i.y) = At(Tables, i.x)

\* What a table receives in bulk is of its own element type.
ElementsAgree(i) ==
  /\ i.kind = "TableInit" => At(Elems, i.y) = At(Tables, i.x)
  /\ i.kind = "TableCopy" => At(Tables, i.y) = At(Tables, i.x)

\* The checks an instruction makes of the module: indices that must exist,
\* a memory, an alignment, a lane.
ContextOk(i, mems) ==
  /\ i.kind \in {"LocalGet", "LocalSet", "LocalTee"} => Within(i.x, Locals)
  /\ i.kind \in {"GlobalGet", "GlobalSet"} => Within(i.x, Globals)
  /\ i.kind = "GlobalSet" => At(Globals, i.x).mutable
  /\ i.kind \in TableKinds => Within(i.x, Tables)
  /\ i.kind = "TableInit" => Within(i.y, Elems)
  /\ i.kind = "TableCopy" => Within(i.y, Tables)
  /\ ElementsAgree(i)
  /\ i.kind = "ElemDrop" => Within(i.x, Elems)
  /\ i.kind \in {"MemoryInit", "DataDrop"} => i.x < Datas
  /\ i.kind \in Accesses \cup ZeroByte => mems > 0
  /\ i.kind \in Accesses => AlignOk(i.align, Natural(i))
  /\ i.kind = "SimdMem" /\ SimdMemLanes(i.op) > 0 => i.lane < SimdMemLanes(i.op)
  /\ i.kind = "SimdLane" => i.lane < LaneShape(i.op)[1]
  /\ i.kind = "Shuffle" => i.lane < 32
  /\ i.kind = "RefFunc" => Within(i.x, Declared) /\ At(Declared, i.x)
  /\ i.kind = "SelectT" => Len(i.tys) = 1

\* The operands drop, select and ref.is_null take are those on the stack.
SelectSig(stack) ==
  LET t == Top(stack, 1)
  IN IF t \in RefTypes THEN Sig(<<"none">>, <<>>) ELSE Sig(<<t, t, "i32">>, <<t>>)
IsNullSig(stack) ==
  IF Top(stack, 0) \in RefTypes THEN Sig(<<Top(stack, 0)>>, <<"i32">>) ELSE Sig(<<"none">>, <<>>)

ConstTypes == <<"i32", "i64", "f32", "f64">>
I32s(n)    == [k \in 1..n |-> "i32"]

VariableSig(i) ==
  CASE i.kind = "LocalGet"  -> Sig(<<>>, <<At(Locals, i.x)>>)
    [] i.kind = "LocalSet"  -> Sig(<<At(Locals, i.x)>>, <<>>)
    [] i.kind = "LocalTee"  -> Sig(<<At(Locals, i.x)>>, <<At(Locals, i.x)>>)
    [] i.kind = "GlobalGet" -> Sig(<<>>, <<At(Globals, i.x).val>>)
    [] i.kind = "GlobalSet" -> Sig(<<At(Globals, i.x).val>>, <<>>)

TableSig(i) ==
  CASE i.kind = "TableGet"  -> Sig(<<"i32">>, <<At(Tables, i.x)>>)
    [] i.kind = "TableSet"  -> Sig(<<"i32", At(Tables, i.x)>>, <<>>)
    [] i.kind = "TableGrow" -> Sig(<<At(Tables, i.x), "i32">>, <<"i32">>)
    [] i.kind = "TableSize" -> Sig(<<>>, <<"i32">>)
    [] i.kind = "TableFill" -> Sig(<<"i32", At(Tables, i.x), "i32">>, <<>>)
    [] i.kind \in {"TableInit", "TableCopy"} -> Sig(I32s(3), <<>>)

MemorySig(i) ==
  CASE i.kind = "Load"  -> Sig(<<"i32">>, <<LoadShape(i.op)[2]>>)
    [] i.kind = "Store" -> Sig(<<"i32", StoreShape(i.op)[2]>>, <<>>)
    [] i.kind = "MemorySize" -> Sig(<<>>, <<"i32">>)
    [] i.kind = "MemoryGrow" -> Sig(<<"i32">>, <<"i32">>)
    [] OTHER -> Sig(I32s(3), <<>>)

VectorSig(i) ==
  CASE i.kind = "Simd"    -> SimdSig(i.op)
    [] i.kind = "Shuffle" -> Sig(<<"v128", "v128">>, <<"v128">>)
    [] i.kind = "SimdLane" /\ i.op \in Replaces -> Sig(<<"v128", LaneShape(i.op)[2]>>, <<"v128">>)
    [] i.kind = "SimdLane" /\ i.op \notin Replaces -> Sig(<<"v128">>, <<LaneShape(i.op)[2]>>)
    [] i.kind = "SimdMem" /\ i.op \in {\h0b} \cup (\h58..\h5b) -> Sig(<<"i32", "v128">>, <<>>)
    [] i.kind = "SimdMem" /\ i.op \in \h54..\h57 -> Sig(<<"i32", "v128">>, <<"v128">>)
    [] OTHER -> Sig(<<"i32">>, <<"v128">>)

\* step, for the instructions ContextOk lets through.
SigOf(i, stack) ==
  CASE i.kind = "Drop"    -> Sig(<<Top(stack, 0)>>, <<>>)
    [] i.kind = "Select"  -> SelectSig(stack)
    [] i.kind = "SelectT" -> Sig(<<i.tys[1], i.tys[1], "i32">>, i.tys)
    [] i.kind \in VariableKinds -> VariableSig(i)
    [] i.kind \in TableKinds -> TableSig(i)
    [] i.kind \in {"ElemDrop", "DataDrop"} -> Sig(<<>>, <<>>)
    [] i.kind \in {"Load", "Store"} \cup ZeroByte -> MemorySig(i)
    [] i.kind = "Const"     -> Sig(<<>>, <<ConstTypes[i.op - \h40]>>)
    [] i.kind = "V128Const" -> Sig(<<>>, <<"v128">>)
    [] i.kind = "RefNull"   -> Sig(<<>>, i.tys)
    [] i.kind = "RefIsNull" -> IsNullSig(stack)
    [] i.kind = "RefFunc"   -> Sig(<<>>, <<"funcref">>)
    [] i.kind = "Num"       -> NumSig(i.op)
    [] OTHER -> VectorSig(i)

\* The operands are there, on top.
Typed(i, stack) == IsSuffix(SigOf(i, stack).ins, stack)
Accepted(i, stack, mems) == ContextOk(i, mems) /\ Typed(i, stack)
After(i, stack) ==
  LET s == SigOf(i, stack)
  IN SubSeq(stack, 1, Len(stack) - Len(s.ins)) \o s.out
=============================================================================
