------------------------------ MODULE Machine -------------------------------
(***************************************************************************)
(* The life of a module's code: its bodies are decoded, then validated,    *)
(* then run by the interpreter (exec.rs), whose frames share one value     *)
(* stack and one stack of control entries.                                 *)
(*                                                                         *)
(* A body is read one operator per step, so a behaviour chooses its bodies *)
(* while it decodes them.  Where the interpreter relies on validation and  *)
(* would panic (a pop of an empty stack or of another type, an index out   *)
(* of range, a subtraction below zero) the guard asks for the operand.     *)
(***************************************************************************)
EXTENDS Body

CONSTANTS
  NextOps(_, _),    \* operators to try after a prefix of the body of a function
  Words,            \* i32 and i64 values of arguments, host results
  MAX_CALL_DEPTH,   \* frames (2000 in the code)
  MAX_VALUE_STACK   \* values on the stack and in locals (4000000 in the code)

ASSUME MachineAssumption ==
  /\ Words \subseteq Nat /\ 0 \in Words
  /\ MAX_CALL_DEPTH \in Nat \ {0}
  /\ MAX_VALUE_STACK \in Nat
  /\ \A f, g \in DOMAIN Funcs : Funcs[g].host /\ f < g => Funcs[f].host
  /\ Funcs # <<>> /\ ~ Last(Funcs).host

VARIABLES
  phase,        \* "decode", "validate", "ready", "run", or how it ended
  fn,           \* the function being decoded or validated
  bodies,       \* the decoded bodies
  open,         \* the decoder's open blocks
  checked,      \* the checker before each instruction, so far
  stack,        \* the interpreter's value stack
  frames,
  ctrls,
  locals_total  \* locals of all the frames

codeVars    == <<fn, bodies, open, checked>>
machineVars == <<stack, frames, ctrls, locals_total>>
vars        == <<phase, codeVars, machineVars>>

Imported == {f \in DOMAIN Funcs : Funcs[f].host}
Local    == DOMAIN Funcs \ Imported
First    == Len(Funcs) - Cardinality(Local) + 1

Value(t, n) == [ty |-> t, val |-> n]
ValuesOf(t) == {Value(t, n) : n \in IF t = "funcref" THEN {0} ELSE Words}

\* Sequences of values of the given types.
Vectors(ts) == {v \in [DOMAIN ts -> UNION {ValuesOf(t) : t \in ToSet(ts)}] :
                  \A i \in DOMAIN ts : v[i].ty = ts[i]}

TypesOf(vs) == [i \in DOMAIN vs |-> vs[i].ty]

LastOf(s, n) == SubSeq(s, Len(s) - n + 1, Len(s))

Init ==
  /\ phase = "decode" /\ fn = First
  /\ bodies = [f \in DOMAIN Funcs |-> <<>>] /\ open = <<>>
  /\ checked = [f \in DOMAIN Funcs |-> <<>>]
  /\ stack = <<>> /\ frames = <<>> /\ ctrls = <<>> /\ locals_total = 0

-----------------------------------------------------------------------------
(* Decoding and validating.                                                *)

\* The operators that may come next.
Following == NextOps(fn, bodies[fn]) \cap Operators

\* One operator of a body; the bytes may end before the body does.
Decode ==
  /\ phase = "decode"
  /\ \/ /\ Following = {}
        /\ phase' = "malformed" /\ UNCHANGED codeVars
     \/ \E op \in Following :
          \/ /\ Misplaced(op, bodies[fn], open)
             /\ phase' = "malformed" /\ UNCHANGED codeVars
          \/ /\ ~ Misplaced(op, bodies[fn], open)
             /\ LET d == DecodeOp(op, bodies[fn], open) IN
                bodies' = [bodies EXCEPT ![fn] = d.out] /\ open' = d.open
             /\ \/ ~ BodyEnds(op, open) /\ UNCHANGED <<phase, fn, checked>>
                \/ BodyEnds(op, open) /\ fn < Len(Funcs)
                   /\ fn' = fn + 1 /\ UNCHANGED <<phase, checked>>
                \/ /\ BodyEnds(op, open) /\ fn = Len(Funcs)
                   /\ phase' = "validate" /\ fn' = First
                   /\ checked' = [checked EXCEPT ![First] = <<NewChecker(First)>>]
  /\ UNCHANGED machineVars

Checker == Last(checked[fn])

\* One instruction of check_body; it stops when no control frame is left.
Validate ==
  LET c == Checker
      i == bodies[fn][Len(checked[fn])]
  IN
  /\ phase = "validate"
  /\ \/ /\ c.ctrls # <<>> /\ Accepts(fn, c, i)
        /\ checked' = [checked EXCEPT ![fn] = Append(@, Checked(fn, c, i))]
        /\ UNCHANGED <<phase, fn>>
     \/ /\ c.ctrls # <<>> /\ ~ Accepts(fn, c, i)
        /\ phase' = "invalid" /\ UNCHANGED <<fn, checked>>
     \/ /\ c.ctrls = <<>> /\ fn < Len(Funcs)
        /\ fn' = fn + 1
        /\ checked' = [checked EXCEPT ![fn + 1] = <<NewChecker(fn + 1)>>]
        /\ UNCHANGED phase
     \/ /\ c.ctrls = <<>> /\ fn = Len(Funcs)
        /\ phase' = "ready" /\ UNCHANGED <<fn, checked>>
  /\ UNCHANGED <<bodies, open, machineVars>>

-----------------------------------------------------------------------------
(* Frames.                                                                 *)

\* The machine is dropped with everything on it.
Trap ==
  /\ phase' = "trap"
  /\ stack' = <<>> /\ frames' = <<>> /\ ctrls' = <<>> /\ locals_total' = 0

\* Mutant of PushFrame: locals are not counted.
PushFrameUncounted(f, st, callers) ==
  LET ty     == FuncTypeOf(f)
      below  == Len(st) - Len(ty.ins)
      locals == LastOf(st, Len(ty.ins))
                \o [i \in DOMAIN Funcs[f].locals |-> Value(Funcs[f].locals[i], 0)]
      full   == \/ Len(callers) >= MAX_CALL_DEPTH
                \/ below + locals_total + Len(locals) > MAX_VALUE_STACK
  IN
  \/ full /\ Trap
  \/ /\ ~ full
     /\ phase' = "run"
     /\ stack' = SubSeq(st, 1, below)
     /\ frames' = Append(callers, [fn |-> f, locals |-> locals, pc |-> 1, base |-> below,
                                   ctrl_base |-> Len(ctrls), results |-> Len(ty.outs)])
     /\ ctrls' = Append(ctrls, [target |-> Len(bodies[f]) + 1, arity |-> Len(ty.outs),
                                height |-> below])
     /\ UNCHANGED locals_total

\* push_frame: the arguments on top of st become locals of a new frame above
\* the callers, unless there are too many frames or values.
PushFrame(f, st, callers) ==
  LET ty     == FuncTypeOf(f)
      below  == Len(st) - Len(ty.ins)
      locals == LastOf(st, Len(ty.ins))
                \o [i \in DOMAIN Funcs[f].locals |-> Value(Funcs[f].locals[i], 0)]
      full   == \/ Len(callers) >= MAX_CALL_DEPTH
                \/ below + locals_total + Len(locals) > MAX_VALUE_STACK
  IN
  \/ full /\ Trap
  \/ /\ ~ full
     /\ phase' = "run"
     /\ stack' = SubSeq(st, 1, below)
     /\ frames' = Append(callers, [fn |-> f, locals |-> locals, pc |-> 1, base |-> below,
                                   ctrl_base |-> Len(ctrls), results |-> Len(ty.outs)])
     /\ ctrls' = Append(ctrls, [target |-> Len(bodies[f]) + 1, arity |-> Len(ty.outs),
                                height |-> below])
     /\ locals_total' = locals_total + Len(locals)

\* What split_off(len - n), truncate(height) and extend leave of st.
Keep(st, n, height) ==
  SubSeq(st, 1, Min({height, Len(st) - n})) \o LastOf(st, n)

\* pop_frame, with st on the stack: only the results stay above the caller.
PopFrame(st) ==
  LET f == Last(frames) IN
  /\ f.results <= Len(st)
  /\ stack' = Keep(st, f.results, f.base)
  /\ frames' = Front(frames)
  /\ ctrls' = SubSeq(ctrls, 1, Min({f.ctrl_base, Len(ctrls)}))
  /\ locals_total' = locals_total - Len(f.locals)
  /\ phase' = IF Len(frames) = 1 THEN "done" ELSE phase

\* A call from the embedder.
Invoke ==
  /\ phase = "ready"
  /\ \E f \in Local : \E args \in Vectors(FuncTypeOf(f).ins) : PushFrame(f, args, frames)
  /\ UNCHANGED codeVars

-----------------------------------------------------------------------------
(* Instructions.                                                           *)

Frame == Last(frames)
Body  == bodies[Frame.fn]
Instr == Body[Frame.pc]

At(ops) == phase = "run" /\ Frame.pc <= Len(Body) /\ Instr.op \in ops

Jump(pc) == frames' = [frames EXCEPT ![Len(frames)].pc = pc]
Next1    == Jump(Frame.pc + 1)

\* The top of the stack holds operands of these types, the last on top.
Holds(ts) ==
  /\ Len(ts) <= Len(stack)
  /\ \A i \in DOMAIN ts : LastOf(stack, Len(ts))[i].ty = ts[i]

\* The stack without its top n values.
Below(n) == SubSeq(stack, 1, Len(stack) - n)

\* Mutant of Enter: the height is that of the frame's own values, as validation
\* counts it.
EnterRelative(st, target, arity) ==
  LET ins == Len(Types[Instr.bt].ins) IN
  /\ ins <= Len(st)
  /\ ctrls' = Append(ctrls, [target |-> target, arity |-> arity,
                             height |-> Len(st) - ins - Frame.base])

\* A new control entry over the stack st.
Enter(st, target, arity) ==
  LET ins == Len(Types[Instr.bt].ins) IN
  /\ ins <= Len(st)
  /\ ctrls' = Append(ctrls, [target |-> target, arity |-> arity, height |-> Len(st) - ins])

\* Mutant of Branch: the values below the label stay.
BranchKeepsAll(d, st) ==
  LET idx  == Len(ctrls) - d
      c    == ctrls[idx]
  IN
  /\ idx \in DOMAIN ctrls /\ c.arity <= Len(st)
  /\ IF idx = Frame.ctrl_base + 1
     THEN PopFrame(st)
     ELSE /\ stack' = st
          /\ ctrls' = SubSeq(ctrls, 1, idx - 1)
          /\ Jump(c.target)
          /\ UNCHANGED <<phase, locals_total>>

\* do_branch: keep the label's values, drop the control entries down to it,
\* go on at its target; the function's own label returns.
Branch(d, st) ==
  LET idx  == Len(ctrls) - d
      c    == ctrls[idx]
      kept == Keep(st, c.arity, c.height)
  IN
  /\ idx \in DOMAIN ctrls /\ c.arity <= Len(st)
  /\ IF idx = Frame.ctrl_base + 1
     THEN PopFrame(kept)
     ELSE /\ stack' = kept
          /\ ctrls' = SubSeq(ctrls, 1, idx - 1)
          /\ Jump(c.target)
          /\ UNCHANGED <<phase, locals_total>>

EndOfBody == phase = "run" /\ Frame.pc > Len(Body) /\ PopFrame(stack)

ExecUnreachable == At({"unreachable"}) /\ Trap

\* Mutant of ExecBlock: a block is entered like a loop.
ExecBlockAsLoop ==
  /\ At({"block", "loop"})
  /\ Enter(stack, Frame.pc, Len(Types[Instr.bt].ins))
  /\ Next1 /\ UNCHANGED <<phase, stack, locals_total>>

ExecBlock ==
  /\ At({"block", "loop"})
  /\ LET t == Types[Instr.bt] IN
     IF Instr.op = "block" THEN Enter(stack, Instr.end, Len(t.outs))
                           ELSE Enter(stack, Frame.pc, Len(t.ins))
  /\ Next1 /\ UNCHANGED <<phase, stack, locals_total>>

ExecIf ==
  /\ At({"if"}) /\ Holds(<<"i32">>)
  /\ stack' = Below(1)
  /\ \/ /\ Last(stack).val # 0
        /\ Enter(Below(1), Instr.end, Len(Types[Instr.bt].outs)) /\ Next1
     \/ /\ Last(stack).val = 0 /\ Instr.else_ = Instr.end
        /\ Jump(Instr.end) /\ UNCHANGED ctrls
     \/ /\ Last(stack).val = 0 /\ Instr.else_ # Instr.end
        /\ Enter(Below(1), Instr.end, Len(Types[Instr.bt].outs)) /\ Jump(Instr.else_)
  /\ UNCHANGED <<phase, locals_total>>

\* Falling off the true arm leaves the construct.
ExecElse ==
  /\ At({"else"})
  /\ ctrls' = Front(ctrls) /\ Jump(Instr.end)
  /\ UNCHANGED <<phase, stack, locals_total>>

ExecEnd ==
  /\ At({"end"})
  /\ ctrls' = Front(ctrls) /\ Next1
  /\ UNCHANGED <<phase, stack, locals_total>>

ExecBr == At({"br"}) /\ Branch(Instr.depth, stack)

ExecBrIf ==
  /\ At({"br_if"}) /\ Holds(<<"i32">>)
  /\ \/ Last(stack).val # 0 /\ Branch(Instr.depth, Below(1))
     \/ /\ Last(stack).val = 0
        /\ stack' = Below(1) /\ Next1 /\ UNCHANGED <<phase, ctrls, locals_total>>

ExecBrTable ==
  /\ At({"br_table"}) /\ Holds(<<"i32">>)
  /\ LET i == Last(stack).val IN
     Branch(IF i < Len(Instr.depths) THEN Instr.depths[i + 1] ELSE Instr.default, Below(1))

ExecReturn == At({"return"}) /\ PopFrame(stack)

\* Machine::call: a host function takes its arguments and leaves its checked
\* results, or traps.
ExecCall ==
  /\ At({"call"})
  /\ LET f == Instr.func
         n == Len(FuncTypeOf(f).ins)
     IN
     /\ n <= Len(stack)
     /\ \/ /\ ~ Funcs[f].host
           /\ PushFrame(f, stack, [frames EXCEPT ![Len(frames)].pc = @ + 1])
        \/ /\ Funcs[f].host
           /\ \E rs \in Vectors(FuncTypeOf(f).outs) : stack' = Below(n) \o rs
           /\ Next1 /\ UNCHANGED <<phase, ctrls, locals_total>>
        \/ Funcs[f].host /\ Trap

\* Instructions that replace the top n values, of given types, by others.
Replace(ts, vs) ==
  /\ Holds(ts)
  /\ stack' = Below(Len(ts)) \o vs
  /\ Next1 /\ UNCHANGED <<phase, ctrls, locals_total>>

ExecSimple ==
  \/ At({"nop"}) /\ Replace(<<>>, <<>>)
  \/ At({"const"}) /\ Replace(<<>>, <<Value(Instr.ty, Instr.val)>>)
  \/ At({"drop"}) /\ stack # <<>> /\ Replace(<<Last(stack).ty>>, <<>>)
  \/ /\ At({"eqz"})
     /\ \/ Last(stack).val = 0 /\ Replace(<<"i32">>, <<Value("i32", 1)>>)
        \/ Last(stack).val # 0 /\ Replace(<<"i32">>, <<Value("i32", 0)>>)
  \/ At({"extend"}) /\ Replace(<<"i32">>, <<Value("i64", Last(stack).val)>>)
  \/ /\ At({"select"}) /\ Len(stack) >= 3 /\ Holds(<<"i32">>)
     /\ LET ops == LastOf(stack, 3) IN
        Replace(TypesOf(ops), <<IF ops[3].val # 0 THEN ops[1] ELSE ops[2]>>)

LocalSlot == Instr.idx \in DOMAIN Frame.locals

ExecLocalGet ==
  /\ At({"local.get"}) /\ LocalSlot
  /\ Replace(<<>>, <<Frame.locals[Instr.idx]>>)

\* local.set pops what local.tee leaves.
ExecLocalSet ==
  /\ At({"local.set", "local.tee"}) /\ LocalSlot /\ stack # <<>>
  /\ frames' = [frames EXCEPT ![Len(frames)].pc = @ + 1,
                              ![Len(frames)].locals[Instr.idx] = Last(stack)]
  /\ stack' = IF Instr.op = "local.set" THEN Below(1) ELSE stack
  /\ UNCHANGED <<phase, ctrls, locals_total>>

Execute ==
  /\ \/ EndOfBody \/ ExecUnreachable
     \/ ExecBlock \/ ExecIf \/ ExecElse \/ ExecEnd
     \/ ExecBr \/ ExecBrIf \/ ExecBrTable \/ ExecReturn
     \/ ExecCall \/ ExecSimple \/ ExecLocalGet \/ ExecLocalSet
  /\ UNCHANGED codeVars

Next == Decode \/ Validate \/ Invoke \/ Execute

Spec     == Init /\ [][Next]_vars
FairSpec == Spec /\ WF_vars(Execute)
=============================================================================
