----------------------------- MODULE MCMachine ------------------------------
(***************************************************************************)
(* Small modules whose bodies TLC enumerates.                              *)
(***************************************************************************)
EXTENDS MachineProps

CONSTANT MaxBody   \* operators of an enumerated typed body

\* The same behaviours, since a machine that has ended stutters: every other
\* state must have a next one, or TLC reports a deadlock.
Ended == phase \in {"done", "trap", "malformed", "invalid"} /\ UNCHANGED vars

MCSpec     == Init /\ [][Next \/ Ended]_vars
MCFairSpec == MCSpec /\ WF_vars(Execute)

\* The checker after a typed prefix of a body; the prefix may not be typed.
Untyped == [stack |-> <<>>, ctrls |-> <<>>]
After(f, prefix) ==
  FoldLeft(LAMBDA c, i : IF c.ctrls # <<>> /\ Accepts(f, c, i) THEN Checked(f, c, i)
                                                               ELSE Untyped,
           NewChecker(f), prefix)

\* Blocks that still have to end, the body included.
Unclosed(prefix) ==
  1 + Cardinality({p \in DOMAIN prefix : prefix[p].op \in Openers})
    - Cardinality({p \in DOMAIN prefix : prefix[p].op = "end"})

\* Operators after which the body can still end within MaxBody.
Fitting(ops, prefix) ==
  {op \in ops :
     Len(prefix) + 1 + Unclosed(prefix)
       + (IF op.op \in Openers THEN 1 ELSE IF op = End THEN -1 ELSE 0) <= MaxBody}

\* Operators the checker accepts: bodies a producer of Wasm may emit.
Typed(f, ops, prefix) ==
  LET c == After(f, prefix) IN
  IF c.ctrls = <<>> THEN {} ELSE {op \in Fitting(ops, prefix) : Accepts(f, c, op)}

\* A body given operator by operator.
Given(body, prefix) ==
  IF Len(prefix) < Len(body) THEN {body[Len(prefix) + 1]} ELSE {}

Type(a, b)  == [ins |-> a, outs |-> b]
Fun(t, ls)  == [ty |-> t, locals |-> ls, host |-> FALSE]
HostFun(t)  == [ty |-> t, locals |-> <<>>, host |-> TRUE]

-----------------------------------------------------------------------------
(* Control flow: bodies of one function, any short ones - malformed,        *)
(* invalid and valid - and longer typed ones.                              *)

CONSTANT MaxAny    \* operators of a body that need not be typed

SmallTypes == <<Type(<<>>, <<>>), Type(<<>>, <<"i32">>), Type(<<"i32">>, <<"i32">>)>>
AnyOps ==
  {Ins("unreachable"), Ins("drop"), Ins("return"), Ins("select"), Const("i32", 0),
   Block(2), Loop(3), If(3), If(1), If(4), Else, End, Br(0), Br(1), Br(2), BrIf(0),
   BrTable(<<0>>, 1), Call(1), Call(2), LocalGet(1), LocalSet(2), LocalTee(3)}

FlowFuncs == <<Fun(3, <<"i64">>)>>
FlowOps ==
  {Ins("drop"), Ins("unreachable"), LocalGet(1),
   Block(2), Loop(2), Loop(3), If(2), If(3), Else, End,
   Br(0), Br(1), BrIf(0), BrTable(<<1>>, 0)}
FlowNext(f, prefix) ==
  Typed(f, FlowOps, prefix) \cup (IF Len(prefix) < MaxAny THEN AnyOps ELSE {})

-----------------------------------------------------------------------------
(* Calls: a typed body between a host function and a fixed callee.         *)

CallTypes == <<Type(<<>>, <<>>), Type(<<>>, <<"i32">>), Type(<<"i32">>, <<"i64", "i32">>)>>
CallFuncs == <<HostFun(2), Fun(3, <<"i64">>), Fun(2, <<"funcref">>)>>

\* The callee leaves its block, or itself, by branches that drop values.
Callee == <<LocalGet(2), Block(1), LocalGet(2), LocalGet(1), BrIf(0), LocalGet(1), LocalGet(1),
            Ins("eqz"), BrIf(1), Ins("return"), End, LocalGet(1), End>>
CallOps ==
  {Ins("drop"), Ins("select"), Ins("eqz"), Ins("extend"), Ins("nop"), Ins("return"),
   Const("i32", 1), Const("funcref", 0), LocalGet(1), LocalSet(1), LocalTee(1),
   Call(1), Call(2), Call(3), If(2), Else, End, BrIf(0)}
CallNext(f, prefix) ==
  IF f = 2 THEN Given(Callee, prefix) ELSE Typed(f, CallOps, prefix)
=============================================================================
