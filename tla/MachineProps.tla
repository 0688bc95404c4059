---------------------------- MODULE MachineProps ----------------------------
(***************************************************************************)
(* The properties of decoded, validated and running code.                  *)
(***************************************************************************)
EXTENDS Machine

Running == phase = "run"

\* The types of a checker's stack agree with those of a piece of the machine's.
TypesAgree(ts, vs) == ts = TypesOf(vs)

\* The machine has the variables of a machine.
TypeOK ==
  /\ phase \in {"decode", "validate", "ready", "run", "done", "trap", "malformed", "invalid"}
  /\ fn \in Local /\ DOMAIN bodies = DOMAIN Funcs /\ DOMAIN checked = DOMAIN Funcs
  /\ open \in Seq(Nat)
  /\ stack \in Seq([ty : BodyType, val : Nat])
  /\ frames \in Seq([fn : Local, locals : Seq([ty : BodyType, val : Nat]), pc : Nat,
                     base : Nat, ctrl_base : Nat, results : Nat])
  /\ ctrls \in Seq([target : Nat, arity : Nat, height : Nat])
  /\ locals_total \in Nat
  /\ Running = (frames # <<>>)

-----------------------------------------------------------------------------
(* Decoding.                                                               *)

\* How many blocks are open before position p of a body.
Nesting(b, p) ==
  Cardinality({q \in 1..p - 1 : b[q].op \in Openers})
  - Cardinality({q \in 1..p - 1 : b[q].op = "end"})

\* The position of the `end` that closes what opens at p: the first one after
\* p with as many blocks open as inside p.
EndOf(b, p) ==
  CHOOSE q \in p + 1 .. Len(b) :
    /\ b[q].op = "end" /\ Nesting(b, q) = Nesting(b, p) + 1
    /\ \A r \in p + 1 .. q - 1 : b[r].op = "end" => Nesting(b, r) # Nesting(b, p) + 1

\* The elses of the if at p.
ElsesOf(b, p) ==
  {q \in p + 1 .. EndOf(b, p) - 1 : b[q].op = "else" /\ Nesting(b, q) = Nesting(b, p) + 1}

\* The targets expr_until_end patches in place (decode.rs) are those of the
\* nesting: `end` is one past the matching end for the block and for its
\* else, `else_` one past the else or, without one, the same as `end`.
TargetsMatch ==
  \A f \in Local :
    LET b == bodies[f] IN
    phase \notin {"decode", "malformed"} \/ f < fn =>
      \A p \in DOMAIN b : b[p].op \in Openers =>
        LET e == EndOf(b, p) IN
        /\ b[p].end = e + 1
        /\ b[p].op = "if" =>
             /\ Cardinality(ElsesOf(b, p)) <= 1
             /\ \A q \in ElsesOf(b, p) : b[p].else_ = q + 1 /\ b[q].end = e + 1
             /\ ElsesOf(b, p) = {} => b[p].else_ = e + 1

\* "body not terminated (decode prevents)" (validate.rs, check_body): the
\* checker runs out of control frames exactly where the body ends, and has at
\* every instruction one frame more than the decoder had blocks open.
BodiesTerminate ==
  \A f \in Local : \A p \in DOMAIN checked[f] :
    /\ Len(checked[f][p].ctrls) = Nesting(bodies[f], p) + 1
    /\ (checked[f][p].ctrls = <<>>) = (p = Len(bodies[f]) + 1)

\* Decoded structure and validated structure are one: branches go where the
\* nesting says and the checker's frames follow it (decode.rs
\* expr_until_end, validate.rs check_body).
StructureAgrees == TargetsMatch /\ BodiesTerminate

-----------------------------------------------------------------------------
(* Running.                                                                *)

\* The piece of the value stack, and of the control stack, of frame n.
StackEnd(n) == IF n < Len(frames) THEN frames[n + 1].base ELSE Len(stack)
CtrlEnd(n)  == IF n < Len(frames) THEN frames[n + 1].ctrl_base ELSE Len(ctrls)

\* What the checker had before the instruction frame n is at; the results of
\* the call a suspended frame waits for are not there yet.
Expected(n) ==
  LET c == checked[frames[n].fn][frames[n].pc] IN
  IF n < Len(frames)
  THEN [c EXCEPT !.stack = SubSeq(@, 1, Len(@) - frames[n + 1].results)]
  ELSE c

\* A control entry does for the machine what the checker assumed of the label:
\* its height and arity, and a target where the checker was in that state.
LabelAgrees(n, j) ==
  LET f     == frames[n]
      c     == Expected(n)
      label == c.ctrls[j]
      entry == ctrls[f.ctrl_base + j]
      there == checked[f.fn][entry.target]
      types == IF label.kind = "loop" THEN label.ins ELSE label.outs
  IN
  /\ entry.height = f.base + label.height
  /\ entry.arity = Len(types)
  /\ j = 1 \/ there.ctrls = SubSeq(c.ctrls, 1, j - 1)
  /\ j = 1 \/ there.stack = SubSeq(c.stack, 1, label.height) \o types
  /\ (label.kind = "loop") = (entry.target \in DOMAIN bodies[f.fn]
                               /\ bodies[f.fn][entry.target].op = "loop"
                               /\ entry.target < f.pc)

\* Soundness of validation: before every instruction, each frame's part of
\* the value stack has the types the checker computed for that place, its
\* locals have their declared types and its control entries are the checker's
\* labels.  "types guaranteed by validation" (exec.rs) rests on this.
ShapesAgree ==
  \A n \in DOMAIN frames :
    LET f == frames[n]
        c == Expected(n)
    IN
    /\ TypesAgree(c.stack, SubSeq(stack, f.base + 1, StackEnd(n)))
    /\ TypesAgree(LocalsOf(f.fn), f.locals)
    /\ f.results = Len(FuncTypeOf(f.fn).outs)
    /\ CtrlEnd(n) - f.ctrl_base = Len(c.ctrls)
    /\ c.ctrls # <<>> => ~ Last(c.ctrls).unreachable
    /\ \A j \in DOMAIN c.ctrls : LabelAgrees(n, j)

\* A branch of depth d over st finds its label, the values it keeps and, if it
\* leaves the function, the results.
Reaches(d, st) ==
  LET idx == Len(ctrls) - d IN
  /\ idx \in DOMAIN ctrls /\ ctrls[idx].arity <= Len(st)
  /\ idx = Frame.ctrl_base + 1 =>
       Frame.results <= Len(Keep(st, ctrls[idx].arity, ctrls[idx].height))

\* Everything the interpreter takes from validation without a test.
Premises ==
  \/ Frame.pc > Len(Body) /\ Frame.results <= Len(stack)
  \/ At({"unreachable", "nop", "const"})
  \/ At({"block", "loop"}) /\ Instr.bt \in DOMAIN Types /\ Holds(Types[Instr.bt].ins)
  \/ At({"if"}) /\ Instr.bt \in DOMAIN Types /\ Holds(Append(Types[Instr.bt].ins, "i32"))
  \/ At({"else", "end"}) /\ Frame.ctrl_base < Len(ctrls)
  \/ At({"br"}) /\ Reaches(Instr.depth, stack)
  \/ At({"br_if"}) /\ Holds(<<"i32">>) /\ Reaches(Instr.depth, Below(1))
  \/ /\ At({"br_table"}) /\ Holds(<<"i32">>)
     /\ \A d \in ToSet(Instr.depths) \cup {Instr.default} : Reaches(d, Below(1))
  \/ At({"return"}) /\ Frame.results <= Len(stack)
  \/ At({"call"}) /\ Instr.func \in DOMAIN Funcs /\ Holds(FuncTypeOf(Instr.func).ins)
  \/ At({"drop"}) /\ stack # <<>>
  \/ At({"eqz", "extend"}) /\ Holds(<<"i32">>)
  \/ At({"select"}) /\ Holds(<<"i32">>) /\ Len(stack) >= 3
  \/ At({"local.get"}) /\ LocalSlot
  \/ At({"local.set", "local.tee"}) /\ LocalSlot /\ stack # <<>>

\* Validated code never meets a panic of the interpreter: every instruction
\* finds what it takes for granted (exec.rs: expect("validated stack"),
\* unreachable!, indices and subtractions), whichever way it goes.
NeverPanics == Running => Premises

\* The locals of all the frames are what locals_total says, and every frame
\* was within the value budget when it was entered ("deep recursion with
\* large locals traps deterministically").
LocalsCounted ==
  LET Locals(m) == FoldSet(LAMBDA n, sum : sum + Len(frames[n].locals), 0, 1..m) IN
  /\ locals_total = Locals(Len(frames))
  /\ \A n \in DOMAIN frames : frames[n].base + Locals(n) <= MAX_VALUE_STACK

\* A call that ends leaves exactly the results of its type, and nothing of
\* the machine.
ResultsTyped ==
  phase = "done" =>
    /\ \E f \in Local : TypesOf(stack) = FuncTypeOf(f).outs
    /\ frames = <<>> /\ ctrls = <<>> /\ locals_total = 0

\* The first n elements of s are still there in t.
Kept(s, t, n) == IsPrefix(SubSeq(s, 1, n), t)

\* What a call takes and gives back is counted: the budget of locals while it
\* runs, the results when it ends, and a machine only in between (exec.rs, Machine::call and pop_frame).
CallsBalance == TypeOK /\ LocalsCounted /\ ResultsTyped

\* Running code never touches its callers: their frames and the values and
\* control entries below its own stay as they are, until it returns.  Only
\* the absolute heights of control entries, bases and ctrl_bases see to that.
CallersUntouched ==
  [][\A n \in DOMAIN frames : n < Len(frames) /\ Len(frames') >= Len(frames) =>
       /\ frames'[n] = frames[n]
       /\ Kept(stack, stack', frames[n + 1].base)
       /\ Kept(ctrls, ctrls', frames[n + 1].ctrl_base)]_vars

\* Bodies without a loop whose functions do not call come to an end.
Straight == \A f \in Local : \A p \in DOMAIN bodies[f] : bodies[f][p].op \notin {"loop", "call"}

StraightCodeEnds == Running /\ Straight ~> phase \in {"done", "trap"}
=============================================================================
