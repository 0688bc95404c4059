------------------------------ MODULE Straight ------------------------------
(***************************************************************************)
(* Straight-line code, one instruction after the other: decoded, validated *)
(* and run.  exec.rs and simd.rs take the types of their operands for      *)
(* granted: `pop_u32` and its like panic on a value of another type, an    *)
(* index is not checked again, and what is written to a local, a global or *)
(* a table is not looked at.                                               *)
(***************************************************************************)
EXTENDS Opcodes

VARIABLES
  stage,    \* what comes next, or how the run ended
  mems,     \* how many memories the instance has
  instr,    \* the instruction at hand
  types,    \* the validator's operand stack
  values,   \* the types of the values on the interpreter's stack
  locals,   \* the type of the value in each local
  globals,  \*   and in each global
  tables,   \* the types of the values that may be in each table
  segs      \*   and in each element segment

slots == <<locals, globals, tables, segs>>
vars  == <<stage, mems, instr, types, values, locals, globals, tables, segs>>

Stages == {"decode", "validate", "execute", "malformed", "invalid", "trapped", "panicked"}

Init ==
  /\ stage = "decode" /\ mems \in Memories /\ instr = NoInstr
  /\ types = <<>> /\ values = <<>>
  /\ locals = Locals
  /\ globals = [g \in DOMAIN Globals |-> Globals[g].val]
  /\ tables = [t \in DOMAIN Tables |-> {Tables[t]}]
  /\ segs = [e \in DOMAIN Elems |-> {Elems[e]}]

-----------------------------------------------------------------------------
(* What the interpreter demands of its stack: for each operand, deepest    *)
(* first, the types that do not make it panic.                             *)

U32  == {"i32"}
V128 == {"v128"}
AnyType  == ValTypes
Times(n, ts) == [k \in 1..n |-> ts]

\* num: operands by the typed pop the operation uses.
NumDemands(op) ==
  CASE op \in {\h45, \hac, \had, \hb2, \hb3, \hb7, \hb8, \hbe, \hc0, \hc1} \cup (\h67..\h69) ->
         Times(1, U32)
    [] op \in (\h46..\h4f) \cup (\h6a..\h78) -> Times(2, U32)
    [] op \in {\h50, \ha7, \hb4, \hb5, \hb9, \hba, \hbf} \cup (\h79..\h7b) \cup (\hc2..\hc4) ->
         Times(1, {"i64"})
    [] op \in (\h51..\h5a) \cup (\h7c..\h8a) -> Times(2, {"i64"})
    [] op \in {\ha8, \ha9, \hae, \haf, \hbb, \hbc, Sat(0), Sat(1), Sat(4), Sat(5)}
              \cup (\h8b..\h91) -> Times(1, {"f32"})
    [] op \in (\h5b..\h60) \cup (\h92..\h98) -> Times(2, {"f32"})
    [] op \in {\haa, \hab, \hb0, \hb1, \hb6, \hbd, Sat(2), Sat(3), Sat(6), Sat(7)}
              \cup (\h99..\h9f) -> Times(1, {"f64"})
    [] op \in (\h61..\h66) \cup (\ha0..\ha6) -> Times(2, {"f64"})

\* num: the push the operation ends in.
NumPush(op) ==
  CASE op \in (\h45..\h78) \cup (\ha7..\hab) \cup {\hbc, \hc0, \hc1} \cup (Sat(0)..Sat(3)) -> "i32"
    [] op \in (\h79..\h8a) \cup (\hac..\hb1) \cup {\hbd} \cup (\hc2..\hc4) \cup (Sat(4)..Sat(7)) -> "i64"
    [] op \in (\h8b..\h98) \cup (\hb2..\hb6) \cup {\hbe} -> "f32"
    [] op \in (\h99..\ha6) \cup (\hb7..\hbb) \cup {\hbf} -> "f64"

SplatOf(op) == <<"i32", "i32", "i32", "i64", "f32", "f64">>[op - \h0e]
Splats      == \h0f..\h14
Reductions  == {\h53, \h63, \h83, \ha3, \hc3} \cup {\h64, \h84, \ha4, \hc4}
Shifts      == UNION {{s, s + 1, s + 2} : s \in {\h6b, \h8b, \hab, \hcb}}

\* The operations simd_op computes from one vector.
Unary ==
  {\h4d, \h62} \cup {\h60, \h61, \h80, \h81, \ha0, \ha1, \hc0, \hc1}
  \cup {\he0, \he1, \he3} \cup (\h67..\h6a) \cup {\hec, \hed, \hef} \cup {\h74, \h75, \h7a, \h94}
  \cup (\h87..\h8a) \cup (\ha7..\haa) \cup (\hc7..\hca) \cup (\h7c..\h7f)
  \cup (\hf8..\hff) \cup {\h5e, \h5f}

\* The operations it computes from two; any other is "handled earlier".
Binary ==
  {\h0e} \cup (\h23..\h4c) \cup (\hd6..\hdb) \cup (\h4e..\h51) \cup {\h65, \h66, \h85, \h86}
  \cup (\h6e..\h73) \cup (\h76..\h79) \cup {\h7b}
  \cup (\h8e..\h93) \cup (\h95..\h99) \cup {\h9b, \h82}
  \cup {\hae, \hb1} \cup (\hb5..\hba) \cup {\hce, \hd1, \hd5}
  \cup (\h9c..\h9f) \cup (\hbc..\hbf) \cup (\hdc..\hdf)
  \cup (\he4..\heb) \cup (\hf0..\hf7)

\* simd_op, in the order in which it tries; {} is a demand nothing meets.
SimdDemands(op) ==
  IF op \in Splats THEN Times(1, {SplatOf(op)}) ELSE
  IF op \in Reductions \cup Unary THEN Times(1, V128) ELSE
  IF op \in Shifts THEN <<V128, U32>> ELSE
  IF op = \h52 THEN Times(3, V128) ELSE
  IF op \in Binary THEN Times(2, V128) ELSE Times(2, {})

\* simd_lane: the array the lane number indexes, and its elements' type.
LaneArray(op) ==
  IF op <= \h17 THEN <<16, "i32">> ELSE IF op <= \h1a THEN <<8, "i32">> ELSE
  IF op <= \h1c THEN <<4, "i32">> ELSE IF op <= \h1e THEN <<2, "i64">> ELSE
  IF op <= \h20 THEN <<4, "f32">> ELSE <<2, "f64">>
Inserts == {\h17, \h1a, \h1c, \h1e, \h20, \h22}

\* The operand a store pops before the address.
Stored(op) == <<"i32", "i64", "f32", "f64", "i32", "i32", "i64", "i64", "i64">>[op - \h35]

\* How many bytes mem_load and mem_store are asked for.
Width(i) ==
  CASE i.kind = "Load" -> <<4, 8, 4, 8, 1, 1, 2, 2, 1, 1, 2, 2, 4, 4>>[i.op - \h27]
    [] i.kind = "Store" -> <<4, 8, 4, 8, 1, 2, 1, 2, 4>>[i.op - \h35]
    [] i.kind = "SimdMem" /\ i.op <= \h0b ->
         <<16, 8, 8, 8, 8, 8, 8, 1, 2, 4, 8, 16>>[i.op + 1]
    [] i.kind = "SimdMem" /\ i.op > \h0b -> <<1, 2, 4, 8, 1, 2, 4, 8, 4, 8>>[i.op - \h53]

SimdMemDemands(op) ==
  IF op \in {\h0b} \cup (\h54..\h5b) THEN <<U32, V128>> ELSE Times(1, U32)

Demands(i) ==
  CASE i.kind \in {"Drop", "RefIsNull", "LocalSet", "LocalTee", "GlobalSet"} -> <<AnyType>>
    [] i.kind \in {"Select", "SelectT"} -> <<AnyType, AnyType, U32>>
    [] i.kind = "TableSet"  -> <<U32, AnyType>>
    [] i.kind = "TableGrow" -> <<AnyType, U32>>
    [] i.kind = "TableFill" -> <<U32, AnyType, U32>>
    [] i.kind \in TwoIndex \cup {"MemoryInit", "MemoryCopy", "MemoryFill"} -> Times(3, U32)
    [] i.kind \in {"TableGet", "Load", "MemoryGrow"} -> <<U32>>
    [] i.kind = "Store"    -> <<U32, {Stored(i.op)}>>
    [] i.kind = "Num"      -> NumDemands(i.op)
    [] i.kind = "Simd"     -> SimdDemands(i.op)
    [] i.kind = "Shuffle"  -> Times(2, V128)
    [] i.kind = "SimdLane" /\ i.op \in Inserts    -> <<V128, {LaneArray(i.op)[2]}>>
    [] i.kind = "SimdLane" /\ i.op \notin Inserts -> <<V128>>
    [] i.kind = "SimdMem"  -> SimdMemDemands(i.op)
    [] OTHER -> <<>>

\* The lanes of the array a lane number of the instruction indexes.
LanesIndexed(i) ==
  CASE i.kind = "SimdLane" -> LaneArray(i.op)[1]
    [] i.kind = "Shuffle"  -> 32
    [] i.kind = "SimdMem" /\ i.op \in SimdMemLane -> 16 \div Width(i)

\* What is indexed without a check: instance lists, memory 0, lanes.
Present(i) ==
  /\ i.kind \in {"LocalGet", "LocalSet", "LocalTee"} => Within(i.x, locals)
  /\ i.kind \in {"GlobalGet", "GlobalSet"} => Within(i.x, globals)
  /\ i.kind \in TableKinds => Within(i.x, tables)
  /\ i.kind = "TableCopy" => Within(i.y, tables)
  /\ i.kind = "TableInit" => Within(i.y, segs)
  /\ i.kind = "ElemDrop"  => Within(i.x, segs)
  /\ i.kind \in {"MemoryInit", "DataDrop"} => i.x < Datas
  /\ i.kind = "RefFunc" => Within(i.x, Declared)
  /\ i.kind \in Accesses \cup ZeroByte => mems > 0
  /\ HasLane(i.kind, i.op) => i.lane < LanesIndexed(i)

\* The operands d demands are on top of the stack.
Meets(stack, d) ==
  /\ Len(stack) >= Len(d)
  /\ \A k \in DOMAIN d : stack[Len(stack) - Len(d) + k] \in d[k]

Panics(i, stack) == ~Present(i) \/ ~Meets(stack, Demands(i))

-----------------------------------------------------------------------------
(* What a run leaves.                                                      *)

\* Operand k from the top, 1 the topmost.
Operand(k) == values[Len(values) - k + 1]

\* Load: the value a load makes of the bytes.
LoadPush(op) ==
  CASE op \in {\h28} \cup (\h2c..\h2f) -> "i32"
    [] op \in {\h29} \cup (\h30..\h35) -> "i64"
    [] op = \h2a -> "f32" [] op = \h2b -> "f64"

\* The sequences of types instruction i may push.
Pushes(i) ==
  CASE i.kind \in {"Select", "SelectT"} -> {<<Operand(2)>>, <<Operand(3)>>}
    [] i.kind = "LocalGet"  -> {<<At(locals, i.x)>>}
    [] i.kind = "LocalTee"  -> {<<Operand(1)>>}
    [] i.kind = "GlobalGet" -> {<<At(globals, i.x)>>}
    [] i.kind = "TableGet"  -> {<<t>> : t \in At(tables, i.x)}
    [] i.kind \in {"TableGrow", "TableSize", "MemorySize", "MemoryGrow", "RefIsNull"} -> {<<"i32">>}
    [] i.kind = "Load"      -> {<<LoadPush(i.op)>>}
    [] i.kind = "Const"     -> {<<<<"i32", "i64", "f32", "f64">>[i.op - \h40]>>}
    [] i.kind = "RefNull"   -> {i.tys}
    [] i.kind = "RefFunc"   -> {<<"funcref">>}
    [] i.kind = "Num"       -> {<<NumPush(i.op)>>}
    [] i.kind = "Simd"      -> {<<IF i.op \in Reductions THEN "i32" ELSE "v128">>}
    [] i.kind \in {"V128Const", "Shuffle"} -> {<<"v128">>}
    [] i.kind = "SimdLane"  -> {<<IF i.op \in Inserts THEN "v128" ELSE LaneArray(i.op)[2]>>}
    [] i.kind = "SimdMem"   -> {IF i.op \in {\h0b} \cup (\h58..\h5b) THEN <<>> ELSE <<"v128">>}
    [] OTHER -> {<<>>}

\* Division by zero and its overflow, an unrepresentable truncation, an
\* access out of bounds.  A bulk operation checks before it writes.
MayTrap(i) ==
  \/ i.kind \in Accesses \cup TwoIndex
  \/ i.kind \in {"TableGet", "TableSet", "TableFill", "MemoryInit", "MemoryCopy", "MemoryFill"}
  \/ i.kind = "Num" /\ i.op \in (\h6d..\h70) \cup (\h7f..\h82) \cup (\ha8..\hab) \cup (\hae..\hb1)

Set(space, i, v) == [space EXCEPT ![i + 1] = v]
Add(space, i, vs) == [space EXCEPT ![i + 1] = @ \cup vs]

\* What the instruction writes outside the stack.  A bulk operation of
\* length 0, and a growth that fails, write nothing.
Writes(i) ==
  /\ locals' = IF i.kind \in {"LocalSet", "LocalTee"} THEN Set(locals, i.x, Operand(1)) ELSE locals
  /\ globals' = IF i.kind = "GlobalSet" THEN Set(globals, i.x, Operand(1)) ELSE globals
  /\ segs' = IF i.kind = "ElemDrop" THEN Set(segs, i.x, {}) ELSE segs
  /\ \E new \in IF i.kind = "TableSet" THEN {{Operand(1)}} ELSE
                IF i.kind \in {"TableGrow", "TableFill"} THEN {{}, {Operand(2)}} ELSE
                IF i.kind = "TableInit" THEN {{}, At(segs, i.y)} ELSE
                IF i.kind = "TableCopy" THEN {{}, At(tables, i.y)} ELSE {{}} :
       tables' = IF i.kind \in TableKinds THEN Add(tables, i.x, new) ELSE tables

-----------------------------------------------------------------------------
(* The steps.                                                              *)

\* The opcodes a byte, and a number after 0xfc or 0xfd, can be.
Codes == ({0} \X ((\h1a..\hff) \ {\hfc, \hfd})) \cup ({\hfc} \X (0..18)) \cup ({\hfd} \X (0..256))
OpOf(prefix, code) == IF prefix = \hfc /\ code <= 7 THEN Sat(code) ELSE code
InstrsAt(c) == InstrsOf(KindOf(c[1], c[2]), OpOf(c[1], c[2]))

Decode ==
  /\ stage = "decode" /\ Len(values) <= MaxHeight
  /\ \E c \in Codes :
       /\ KindOf(c[1], c[2]) # "illegal"
       /\ \E i \in InstrsAt(c) : MemargOk(i) /\ instr' = i
  /\ stage' = "validate"
  /\ UNCHANGED <<mems, types, values, slots>>

\* "illegal opcode", "malformed memop flags", "zero byte expected", or a
\* byte that is no type.
DecodeFails ==
  /\ stage = "decode"
  /\ \E c \in Codes :
       LET kind == KindOf(c[1], c[2])
       IN \/ kind \in {"illegal", "SelectT", "RefNull"} \cup ZeroByte
          \/ \E i \in InstrsAt(c) : ~MemargOk(i)
  /\ stage' = "malformed" /\ instr' = NoInstr
  /\ UNCHANGED <<mems, types, values, slots>>

Validate ==
  /\ stage = "validate" /\ Accepted(instr, types, mems)
  /\ types' = After(instr, types) /\ stage' = "execute"
  /\ UNCHANGED <<mems, instr, values, slots>>

Reject ==
  /\ stage = "validate" /\ ~Accepted(instr, types, mems)
  /\ stage' = "invalid"
  /\ UNCHANGED <<mems, instr, types, values, slots>>

Run ==
  /\ \E out \in Pushes(instr) :
       values' = SubSeq(values, 1, Len(values) - Len(Demands(instr))) \o out
  /\ Writes(instr)
  /\ stage' = "decode" /\ instr' = NoInstr

Execute ==
  /\ stage = "execute"
  /\ IF Panics(instr, values)
     THEN stage' = "panicked" /\ UNCHANGED <<instr, values, slots>>
     ELSE Run
  /\ UNCHANGED <<mems, types>>

\* A trap ends the run.
Trap ==
  /\ stage = "execute" /\ ~Panics(instr, values) /\ MayTrap(instr)
  /\ stage' = "trapped" /\ instr' = NoInstr
  /\ UNCHANGED <<mems, types, values, slots>>

Next == Decode \/ DecodeFails \/ Validate \/ Reject \/ Execute \/ Trap

Spec == Init /\ [][Next]_vars
=============================================================================
