---------------------------- MODULE MachineProofs ---------------------------
(***************************************************************************)
(* Soundness of validation (Machine): running code has, frame by frame,    *)
(* the values, locals and control entries the checker computed.  For every *)
(* module, bodies of any length, and any depth of calls.                   *)
(***************************************************************************)
EXTENDS StructureProofs

-----------------------------------------------------------------------------
(* The invariant.                                                          *)

\* Places the machine can be at: nothing there is dead, and every operand has
\* a type.
Alive(c) == \A j \in 1..Len(c.ctrls) : ~ c.ctrls[j].unreachable
Typed(c) == Alive(c) /\ c.stack \in Seq(BodyType)

\* What is known of the code of a function that can be called.
Whole(f, b, cs) ==
  /\ f \in Local /\ BodyOk(b, <<>>, TRUE) /\ AllChecked(f, b, cs)
  /\ cs \in Seq(CheckerType) /\ cs[1] = NewChecker(f)

\* The control entry of a function, and that of the block opened at p, in a
\* frame over base.
Bottom(f, b, base) ==
  [target |-> Len(b) + 1, arity |-> Len(FuncTypeOf(f).outs), height |-> base]

LabelOf(i) == IF i.op = "loop" THEN Types[i.bt].ins ELSE Types[i.bt].outs

Entry(b, cs, base, p) ==
  [target |-> IF b[p].op = "loop" THEN p ELSE b[p].end,
   arity  |-> Len(LabelOf(b[p])),
   height |-> base + Len(Under(cs[p], b[p]))]

\* The entries from lo + 1 to hi are those of the function and of the blocks
\* open at q, which the machine has entered.
EntriesOk(f, b, cs, q, base, ct, lo, hi) ==
  /\ hi = lo + Len(cs[q].ctrls)
  /\ cs[q].ctrls # <<>> => ct[lo + 1] = Bottom(f, b, base)
  /\ \A j \in 1 .. Len(cs[q].ctrls) - 1 :
       ct[lo + j + 1] = Entry(b, cs, base, OpenAt(b)[q][j]) /\ Typed(cs[OpenAt(b)[q][j]])

\* The values from lo + 1 to hi have the types ts, but for the last `wait`.
ValuesOk(ts, wait, st, lo, hi) ==
  /\ lo <= hi /\ hi + wait = lo + Len(ts)
  /\ \A m \in 1 .. Len(ts) - wait : st[lo + m].ty = ts[m]

ValueType == [ty : BodyType, val : Nat]
EntryType == [target : Nat, arity : Nat, height : Nat]
FrameType == [fn : Local, locals : Seq(ValueType), pc : Nat, base : Nat, ctrl_base : Nat,
              results : Nat]

\* A frame is at a place the checker has been, with what it had there.
FrameOk(fr, b, cs, wait, st, hi, ct, chi) ==
  /\ fr \in FrameType /\ fr.pc \in 1 .. Len(b) + 1
  /\ fr.results = Len(FuncTypeOf(fr.fn).outs)
  /\ TypesOf(fr.locals) = LocalsOf(fr.fn)
  /\ Typed(cs[fr.pc])
  /\ ValuesOk(cs[fr.pc].stack, wait, st, fr.base, hi)
  /\ EntriesOk(fr.fn, b, cs, fr.pc, fr.base, ct, fr.ctrl_base, chi)

\* Where the pieces of frame n end, and how many results it waits for.
Hi(frs, st, n)     == IF n < Len(frs) THEN frs[n + 1].base ELSE Len(st)
CtrlHi(frs, ct, n) == IF n < Len(frs) THEN frs[n + 1].ctrl_base ELSE Len(ct)
Wait(frs, n)       == IF n < Len(frs) THEN frs[n + 1].results ELSE 0

\* Frame n of a machine, and why it is suspended, for code B checked as K.
NthOk(B, K, frs, st, ct, n) ==
  /\ FrameOk(frs[n], B[frs[n].fn], K[frs[n].fn], Wait(frs, n), st, Hi(frs, st, n),
             ct, CtrlHi(frs, ct, n))
  /\ n < Len(frs) =>
       frs[n].pc > 1 /\ B[frs[n].fn][frs[n].pc - 1] = Call(frs[n + 1].fn)

FramesOk(B, K, frs, st, ct) ==
  /\ st \in Seq(ValueType) /\ frs \in Seq(FrameType) /\ ct \in Seq(EntryType)
  /\ \A n \in 1..Len(frs) : NthOk(B, K, frs, st, ct, n)
  /\ frs # <<>> => frs[1].base = 0 /\ frs[1].ctrl_base = 0

Phases == {"decode", "validate", "ready", "run", "done", "trap", "malformed", "invalid"}

\* A checker starts with the function's label alone.
BeginsOk == \A f \in Local : checked[f] # <<>> => checked[f][1] = NewChecker(f)

MachineOk ==
  /\ phase \in Phases
  /\ FramesOk(bodies, checked, frames, stack, ctrls)
  /\ (phase = "run") = (frames # <<>>)
  /\ phase # "run" => ctrls = <<>>
  /\ phase \notin {"run", "done"} => stack = <<>>
  /\ phase = "done" => \E f \in Local : TypesOf(stack) = FuncTypeOf(f).outs

RunInv == StructInv /\ BeginsOk /\ MachineOk

-----------------------------------------------------------------------------
(* Places of a checked body.                                               *)

\* What is known before instruction q, and after it.
LEMMA PlaceFacts ==
  ASSUME NEW f, NEW b, NEW cs, Whole(f, b, cs), NEW q \in 1..Len(b)
  PROVE  /\ Len(b) \in Nat /\ f \in DOMAIN Funcs /\ q \in 1 .. Len(b) + 1
         /\ q + 1 \in 1 .. Len(b) + 1
         /\ b[q] \in Instructions /\ StateOk(f, b, cs, q) /\ Live(cs[q]) /\ cs[q] \in CheckerType
         /\ Len(cs[q].ctrls) = Len(OpenAt(b)[q]) + 1
         /\ Accepts(f, cs[q], b[q]) /\ cs[q + 1] = Checked(f, cs[q], b[q])
         /\ LabelsOk(b, q, cs, cs[q], OpenAt(b)[q], Len(OpenAt(b)[q]))
<1>1. BodyOk(b, <<>>, TRUE) /\ AllChecked(f, b, cs) /\ f \in Local
  BY DEF Whole
<1>2. Len(b) \in Nat /\ b[q] \in Instructions
  BY <1>1, CompleteBody
<1>3. q \in 1 .. Len(b) + 1 /\ q + 1 \in 1 .. Len(b) + 1 /\ q <= Len(b)
  BY <1>2
<1>4. /\ StateOk(f, b, cs, q)
      /\ Accepts(f, cs[q], b[q]) /\ cs[q + 1] = Checked(f, cs[q], b[q])
  <2>1. Len(cs) = Len(b) + 1 /\ ChecksOk(f, b, cs)
    BY <1>1 DEF AllChecked
  <2>2. q \in 1..Len(cs) /\ q \in 1 .. Len(cs) - 1
    BY <1>2, <1>3, <2>1
  <2> QED
    BY <1>3, <2>1, <2>2 DEF ChecksOk
<1>5. Len(OpenAt(b)[q]) \in Nat
  BY <1>2, <1>3, OpenBlocks
<1>6. /\ Live(cs[q]) /\ cs[q] \in CheckerType
      /\ Len(cs[q].ctrls) = Len(OpenAt(b)[q]) + 1
  BY <1>4, <1>5, StateIsLive
<1>7. LabelsOk(b, q, cs, cs[q], OpenAt(b)[q], Len(OpenAt(b)[q]))
  BY <1>2, <1>4, LabelsAt
<1>8. f \in DOMAIN Funcs
  BY <1>1, NextLocal
<1> QED
  BY <1>2, <1>3, <1>4, <1>6, <1>7, <1>8

\* The types of a function.
LEMMA FunctionTypes ==
  ASSUME NEW f \in DOMAIN Funcs
  PROVE  /\ FuncTypeOf(f).ins \in Seq(BodyType) /\ FuncTypeOf(f).outs \in Seq(BodyType)
         /\ Len(FuncTypeOf(f).ins) \in Nat /\ Len(FuncTypeOf(f).outs) \in Nat
         /\ Funcs[f].locals \in Seq(BodyType) /\ LocalsOf(f) \in Seq(BodyType)
<1>1. Funcs[f].ty \in DOMAIN Types /\ Funcs[f] \in FunDecl
  BY BodyAssumption, LenProperties, ElementOfSeq
<1>2. FuncTypeOf(f).ins \in Seq(BodyType) /\ FuncTypeOf(f).outs \in Seq(BodyType)
  BY <1>1, BlockTypes DEF FuncTypeOf
<1>3. Funcs[f].locals \in Seq(BodyType)
  BY <1>1 DEF FunDecl
<1> QED
  BY <1>2, <1>3, LenProperties, ConcatProperties DEF LocalsOf

\* After its end a body leaves its results and no label.
LEMMA EndFacts ==
  ASSUME NEW f, NEW b, NEW cs, Whole(f, b, cs)
  PROVE  /\ Len(b) \in Nat \ {0} /\ f \in DOMAIN Funcs /\ Len(cs) = Len(b) + 1
         /\ cs[Len(b) + 1] = [stack |-> FuncTypeOf(f).outs, ctrls |-> <<>>]
         /\ b[Len(b)].op = "end" /\ OpenAt(b)[Len(b)] = <<>>
<1>1. BodyOk(b, <<>>, TRUE) /\ AllChecked(f, b, cs) /\ f \in Local
  BY DEF Whole
<1>2. Len(b) \in Nat /\ b # <<>> /\ b[Len(b)].op = "end" /\ OpenAt(b)[Len(b)] = <<>>
  BY <1>1, CompleteBody
<1>3. Len(b) # 0
  BY <1>1, <1>2, EmptySeq DEF BodyOk
<1>4. Len(cs) = Len(b) + 1 /\ ChecksOk(f, b, cs)
  BY <1>1 DEF AllChecked
<1>5. Len(b) + 1 \in 1..Len(cs) /\ ~ Len(b) + 1 <= Len(b)
  BY <1>2, <1>4
<1>6. cs[Len(b) + 1] = [stack |-> FuncTypeOf(f).outs, ctrls |-> <<>>]
  BY <1>4, <1>5 DEF ChecksOk
<1>7. f \in DOMAIN Funcs
  BY <1>1, NextLocal
<1> QED
  BY <1>2, <1>3, <1>4, <1>6, <1>7

-----------------------------------------------------------------------------
(* Operands of a place that is typed.                                      *)

\* s is u with ts on top.
Joins(s, u, ts) ==
  /\ Len(s) = Len(u) + Len(ts)
  /\ \A m \in 1..Len(u) : s[m] = u[m]
  /\ \A m \in 1..Len(ts) : s[Len(u) + m] = ts[m]

\* The checker c has operands ts on top of what u has.
Pops(c, ts, u) ==
  /\ Joins(c.stack, u.stack, ts) /\ u.stack \in Seq(BodyType) /\ u.ctrls = c.ctrls
  /\ Live(u) /\ Len(ts) \in Nat /\ Len(u.stack) \in Nat /\ Len(c.stack) \in Nat

\* No operand is missing, whatever pop_any would say in dead code.
LEMMA PopCount ==
  ASSUME NEW c, Live(c), Typed(c), NEW k \in Nat, HasOperands(c, k)
  PROVE  LET u == Popped(c, k) IN
         /\ k <= Avail(c) /\ Len(c.stack) = Len(u.stack) + k
         /\ u.stack \in Seq(BodyType) /\ u.ctrls = c.ctrls /\ Live(u)
         /\ Len(u.stack) \in Nat /\ Len(c.stack) \in Nat
         /\ \A m \in 1..Len(u.stack) : u.stack[m] = c.stack[m]
<1> DEFINE u == Popped(c, k)
<1>1. /\ u \in CheckerType /\ u.ctrls = c.ctrls
      /\ Len(u.stack) \in Nat /\ Len(c.stack) \in Nat /\ Last(c.ctrls).height \in Nat
      /\ Last(c.ctrls).height <= Len(u.stack)
      /\ Len(u.stack) = IF k <= Avail(c) THEN Len(c.stack) - k ELSE Last(c.ctrls).height
      /\ \A m \in 1..Len(u.stack) : u.stack[m] = c.stack[m]
  BY PoppedOk
<1>2. k <= Avail(c)
  <2>1. c.ctrls # <<>> /\ c \in CheckerType
    BY DEF Live
  <2>2. Len(c.ctrls) \in 1..Len(c.ctrls) /\ Last(c.ctrls) = c.ctrls[Len(c.ctrls)]
    BY <2>1, CheckerParts
  <2>3. ~ Last(c.ctrls).unreachable
    BY <2>2 DEF Typed, Alive
  <2> QED
    BY <2>3 DEF HasOperands
<1>3. Len(c.stack) = Len(u.stack) + k /\ Len(u.stack) <= Len(c.stack)
  <2> HIDE DEF u
  <2> QED
    BY <1>1, <1>2
<1>4. u.stack \in Seq(BodyType)
  <2>1. u.stack \in Seq(BodyType \cup {Bot})
    BY <1>1, CheckerParts
  <2>2. c.stack \in Seq(BodyType)
    BY DEF Typed
  <2> HIDE DEF u
  <2>3. \A m \in 1..Len(u.stack) : u.stack[m] \in BodyType
    <3> TAKE m \in 1..Len(u.stack)
    <3>1. m \in 1..Len(c.stack)
      BY <1>1, <1>3
    <3> QED
      BY <1>1, <2>2, <3>1, LenProperties, ElementOfSeq
  <2> DEFINE x == u.stack
  <2>4. x = [m \in 1..Len(x) |-> x[m]]
    BY <2>1, LenProperties
  <2>5. x \in Seq(BodyType)
    <3> HIDE DEF x
    <3>1. Len(x) \in Nat /\ \A m \in 1..Len(x) : x[m] \in BodyType
      BY <1>1, <2>3 DEF x
    <3> QED
      BY <2>4, <3>1, SeqDef
  <2> QED
    BY <2>5
<1>5. Live(u)
  BY <1>1 DEF Live
<1> QED
  BY <1>1, <1>2, <1>3, <1>4, <1>5

\* What pop_vals accepts is there, with those types.
LEMMA PopTyped ==
  ASSUME NEW c, Live(c), Typed(c), NEW ts \in Seq(BodyType), CanPop(c, ts)
  PROVE  Pops(c, ts, Popped(c, Len(ts)))
<1> DEFINE k == Len(ts)
           u == Popped(c, k)
<1>1. k \in Nat /\ DOMAIN ts = 1..k
  BY LenProperties
<1>2. HasOperands(c, k) /\ \A i \in 1..k : Operand(c, k - i) \in {ts[i], Bot}
  BY <1>1 DEF CanPop
<1>3. /\ k <= Avail(c) /\ Len(c.stack) = Len(u.stack) + k
      /\ u.stack \in Seq(BodyType) /\ u.ctrls = c.ctrls /\ Live(u)
      /\ Len(u.stack) \in Nat /\ Len(c.stack) \in Nat
      /\ \A m \in 1..Len(u.stack) : u.stack[m] = c.stack[m]
  BY <1>1, <1>2, PopCount
<1> HIDE DEF u
<1>4. \A m \in 1..k : c.stack[Len(u.stack) + m] = ts[m]
  <2> TAKE m \in 1..k
  <2> HIDE DEF k
  <2>1. Avail(c) \in Int
    <3>1. c \in CheckerType /\ c.ctrls # <<>>
      BY DEF Live
    <3>2. Last(c.ctrls).height \in Int
      BY <3>1, CheckerParts
    <3> QED
      BY <1>3, <3>2 DEF Avail
  <2>2. k - m < Avail(c) /\ Len(c.stack) - (k - m) = Len(u.stack) + m
    BY <1>1, <1>3, <2>1
  <2>3. c.stack[Len(u.stack) + m] \in {ts[m], Bot}
    BY <1>2, <2>2 DEF Operand
  <2>4. c.stack[Len(u.stack) + m] \in BodyType
    <3>1. Len(u.stack) + m \in 1..Len(c.stack) /\ c.stack \in Seq(BodyType)
      BY <1>1, <1>3 DEF Typed
    <3> QED
      BY <3>1, ElementOfSeq
  <2>5. Bot \notin BodyType
    BY DEF Bot, BodyType
  <2> QED
    BY <2>3, <2>4, <2>5
<1> QED
  BY <1>1, <1>3, <1>4 DEF Pops, Joins, u

\* What an opener takes.
Operands(i) == IF i.op = "if" THEN Append(Types[i.bt].ins, "i32") ELSE Types[i.bt].ins

\* What an opener takes, and what its label gives, as sequences of types.
LEMMA OperandsAre ==
  ASSUME NEW i, i.bt \in DOMAIN Types
  PROVE  /\ Operands(i) \in Seq(BodyType) /\ Len(Operands(i)) = Taken(i)
         /\ Types[i.bt].ins \in Seq(BodyType) /\ Types[i.bt].outs \in Seq(BodyType)
         /\ LabelOf(i) \in Seq(BodyType)
         /\ Len(Types[i.bt].ins) \in Nat /\ Len(Types[i.bt].outs) \in Nat
         /\ \A m \in 1..Len(Types[i.bt].ins) : Operands(i)[m] = Types[i.bt].ins[m]
         /\ i.op = "if" => Operands(i)[Len(Types[i.bt].ins) + 1] = "i32"
<1> DEFINE x == Types[i.bt].ins
<1>1. /\ x \in Seq(BodyType) /\ Types[i.bt].outs \in Seq(BodyType)
      /\ Len(x) \in Nat /\ Len(Types[i.bt].outs) \in Nat
  BY BlockTypes
<1>2. "i32" \in BodyType
  BY DEF BodyType
<1>3. LabelOf(i) \in Seq(BodyType)
  BY <1>1 DEF LabelOf
<1>4. CASE i.op = "if"
  <2>1. Operands(i) = Append(x, "i32") /\ Taken(i) = Len(x) + 1
    BY <1>4 DEF Operands, Taken
  <2> HIDE DEF x
  <2>2. /\ Append(x, "i32") \in Seq(BodyType) /\ Len(Append(x, "i32")) = Len(x) + 1
        /\ \A m \in 1..Len(x) : Append(x, "i32")[m] = x[m]
        /\ Append(x, "i32")[Len(x) + 1] = "i32"
    BY <1>1, <1>2, AppendOk
  <2> QED
    BY <1>1, <1>3, <2>1, <2>2 DEF x
<1>5. CASE i.op # "if"
  <2>1. Operands(i) = x /\ Taken(i) = Len(x) + 0
    BY <1>5 DEF Operands, Taken
  <2> QED
    BY <1>1, <1>3, <1>5, <2>1
<1> QED
  BY <1>4, <1>5

\* The operands of an opener are there, and the rest is under its block.
LEMMA OpenerPops ==
  ASSUME NEW f, NEW b, NEW cs, Whole(f, b, cs), NEW p \in 1..Len(b), b[p].op \in Openers,
         Typed(cs[p])
  PROVE  /\ b[p].bt \in DOMAIN Types
         /\ Pops(cs[p], Operands(b[p]), Popped(cs[p], Taken(b[p])))
         /\ Joins(cs[p].stack, Under(cs[p], b[p]), Operands(b[p]))
         /\ Under(cs[p], b[p]) \in Seq(BodyType) /\ Len(Under(cs[p], b[p])) \in Nat
<1>1. Accepts(f, cs[p], b[p]) /\ Live(cs[p])
  BY PlaceFacts
<1>2. b[p].bt \in DOMAIN Types /\ CanPop(cs[p], Operands(b[p]))
  BY <1>1 DEF Accepts, Openers, Operands
<1>3. Operands(b[p]) \in Seq(BodyType) /\ Len(Operands(b[p])) = Taken(b[p])
  BY <1>2, OperandsAre
<1>4. Pops(cs[p], Operands(b[p]), Popped(cs[p], Taken(b[p])))
  BY <1>1, <1>2, <1>3, PopTyped
<1> QED
  BY <1>2, <1>4 DEF Pops, Under

-----------------------------------------------------------------------------
(* Where a label leads.                                                    *)

\* Position t continues after the block opened at p, with ts on what was under
\* it.
Resumes(b, cs, p, t, ts) ==
  /\ t \in 1..Len(b) /\ OpenAt(b)[t] = OpenAt(b)[p]
  /\ cs[t].ctrls = cs[p].ctrls /\ Typed(cs[t])
  /\ Joins(cs[t].stack, Under(cs[p], b[p]), ts)

\* A loop begins again.
LEMMA LoopResumes ==
  ASSUME NEW f, NEW b, NEW cs, Whole(f, b, cs), NEW p \in 1..Len(b), b[p].op = "loop",
         Typed(cs[p])
  PROVE  Resumes(b, cs, p, p, Types[b[p].bt].ins)
<1>1. Joins(cs[p].stack, Under(cs[p], b[p]), Operands(b[p]))
  BY OpenerPops DEF Openers
<1>2. Operands(b[p]) = Types[b[p].bt].ins
  BY DEF Operands
<1> QED
  BY <1>1, <1>2 DEF Resumes

\* What is known of the innermost block at q, opened at p, and of the others.
LEMMA InnerBlock ==
  ASSUME NEW f, NEW b, NEW cs, Whole(f, b, cs), NEW q \in 1..Len(b), NEW p \in 1..Len(b),
         b[p].op \in Openers, Directly(b, p, q), Typed(cs[p])
  PROVE  LET l == Len(cs[p].ctrls) IN
         /\ l \in Nat \ {0} /\ Len(cs[q].ctrls) = l + 1
         /\ \A m \in 1..l : cs[q].ctrls[m] = cs[p].ctrls[m]
         /\ \A m \in 1..Len(Under(cs[p], b[p])) : cs[q].stack[m] = Under(cs[p], b[p])[m]
         /\ cs[q].ctrls[l + 1].height = Len(Under(cs[p], b[p]))
         /\ cs[q].ctrls[l + 1].ins = Types[b[p].bt].ins
         /\ cs[q].ctrls[l + 1].outs = Types[b[p].bt].outs
         /\ cs[q].ctrls[l + 1].kind = Kind(b[p], q)
         /\ Last(cs[q].ctrls) = cs[q].ctrls[l + 1]
<1> DEFINE s == OpenAt(b)[q]
           n == Len(OpenAt(b)[p])
<1>1. /\ Len(b) \in Nat /\ StateOk(f, b, cs, q) /\ Live(cs[q])
      /\ Len(cs[q].ctrls) = Len(s) + 1 /\ LabelsOk(b, q, cs, cs[q], s, Len(s))
  BY PlaceFacts
<1>2. Len(cs[p].ctrls) = n + 1
  BY PlaceFacts
<1>3. s # <<>> /\ Last(s) = p /\ n \in Nat /\ Len(s) = n + 1
  <2>1. Len(b) \in Nat
    BY <1>1
  <2> QED
    BY <2>1, DirectlyLast
<1> HIDE DEF n, s
<1>4. n + 1 \in 1..Len(s) /\ s[n + 1] = p
  BY <1>3 DEF Last
<1>5. BlockOk(b, cs[q], q, n + 1, p, cs[p])
  BY <1>1, <1>4 DEF StateOk, s
<1>6. Last(cs[q].ctrls) = cs[q].ctrls[Len(s) + 1]
  BY <1>1 DEF LabelsOk
<1> DEFINE l == Len(cs[p].ctrls)
<1>7. l = n + 1 /\ l \in Nat \ {0} /\ Len(cs[q].ctrls) = l + 1
      /\ Last(cs[q].ctrls) = cs[q].ctrls[l + 1]
  BY <1>1, <1>2, <1>3, <1>6
<1>8. BlockOk(b, cs[q], q, l, p, cs[p])
  BY <1>5, <1>7
<1> HIDE DEF l
<1>9. /\ \A m \in 1..l : cs[q].ctrls[m] = cs[p].ctrls[m]
      /\ \A m \in 1..Len(Under(cs[p], b[p])) : cs[q].stack[m] = Under(cs[p], b[p])[m]
      /\ cs[q].ctrls[l + 1].height = Len(Under(cs[p], b[p]))
      /\ cs[q].ctrls[l + 1].ins = Types[b[p].bt].ins
      /\ cs[q].ctrls[l + 1].outs = Types[b[p].bt].outs
      /\ cs[q].ctrls[l + 1].kind = Kind(b[p], q)
  BY <1>8 DEF BlockOk
<1> QED
  BY <1>7, <1>9 DEF l

\* Sequences are equal if their elements are.
LEMMA SameSequence ==
  ASSUME NEW S, NEW s \in Seq(S), NEW T, NEW t \in Seq(T), Len(s) = Len(t),
         \A m \in 1..Len(s) : s[m] = t[m]
  PROVE  s = t
<1>1. Len(s) \in Nat /\ s = [m \in 1..Len(s) |-> s[m]] /\ t = [m \in 1..Len(t) |-> t[m]]
  BY LenProperties
<1> QED
  BY <1>1

\* Front takes back what Append added.
LEMMA FrontOfAppend ==
  ASSUME NEW S, NEW s \in Seq(S), NEW e \in S
  PROVE  Front(Append(s, e)) = s
<1> DEFINE t == Append(s, e)
<1>1. /\ t \in Seq(S) /\ t # <<>> /\ Len(s) \in Nat /\ Len(t) = Len(s) + 1
      /\ \A i \in 1..Len(s) : t[i] = s[i]
  BY AppendOk
<1> HIDE DEF t
<1>2. /\ Front(t) \in Seq(S) /\ Len(Front(t)) = Len(t) - 1
      /\ \A i \in 1 .. Len(t) - 1 : Front(t)[i] = t[i]
  BY <1>1, FrontOk
<1>3. Len(Front(t)) = Len(s) /\ \A i \in 1..Len(Front(t)) : Front(t)[i] = s[i]
  BY <1>1, <1>2
<1>4. Front(t) = s
  BY <1>2, <1>3, SameSequence
<1> QED
  BY <1>4 DEF t

\* A place whose labels are those of p is as alive.
LEMMA AliveBelow ==
  ASSUME NEW c \in CheckerType, NEW d, Alive(d), Len(c.ctrls) <= Len(d.ctrls),
         \A m \in 1..Len(c.ctrls) : c.ctrls[m] = d.ctrls[m], Len(d.ctrls) \in Nat
  PROVE  Alive(c)
<1>1. Len(c.ctrls) \in Nat
  BY CheckerParts
<1>2. \A m \in 1..Len(c.ctrls) : m \in 1..Len(d.ctrls)
  BY <1>1
<1> QED
  BY <1>2 DEF Alive

\* A prefix of a typed stack with typed results on top.
LEMMA JoinTyped ==
  ASSUME NEW s, NEW u \in Seq(BodyType), NEW ts \in Seq(BodyType), NEW S, s \in Seq(S),
         Joins(s, u, ts)
  PROVE  s = u \o ts /\ s \in Seq(BodyType) /\ Len(s) \in Nat
<1>1. /\ u \o ts \in Seq(BodyType) /\ Len(u \o ts) = Len(u) + Len(ts)
      /\ Len(u) \in Nat /\ Len(ts) \in Nat
      /\ \A m \in 1..Len(u) : (u \o ts)[m] = u[m]
      /\ \A m \in 1..Len(ts) : (u \o ts)[Len(u) + m] = ts[m]
  BY ConcatOk
<1> DEFINE x == u \o ts
<1> HIDE DEF x
<1>2. Len(s) = Len(u) + Len(ts) /\ Len(x) = Len(s) /\ Len(s) \in Nat
  BY <1>1 DEF Joins, x
<1>3. ASSUME NEW m \in 1..Len(s)
      PROVE  s[m] = x[m]
  <2>1. CASE m <= Len(u)
    BY <1>1, <2>1 DEF Joins, x
  <2>2. CASE ~ m <= Len(u)
    <3>1. m - Len(u) \in 1..Len(ts) /\ Len(u) + (m - Len(u)) = m
      BY <1>1, <1>2, <2>2
    <3>2. s[Len(u) + (m - Len(u))] = ts[m - Len(u)]
      BY <3>1 DEF Joins
    <3>3. x[Len(u) + (m - Len(u))] = ts[m - Len(u)]
      BY <1>1, <3>1 DEF x
    <3> QED
      BY <3>1, <3>2, <3>3
  <2> QED
    BY <2>1, <2>2
<1>4. DOMAIN s = 1..Len(s) /\ DOMAIN x = 1..Len(x) /\ s = [m \in 1..Len(s) |-> s[m]]
  BY <1>1, LenProperties DEF x
<1>5. x = [m \in 1..Len(x) |-> x[m]]
  BY <1>1, LenProperties DEF x
<1>6. s = x
  BY <1>2, <1>3, <1>4, <1>5
<1> QED
  BY <1>1, <1>2, <1>6 DEF x

\* Past its end, a block has left its results and its label is gone.
LEMMA EndResumes ==
  ASSUME NEW f, NEW b, NEW cs, Whole(f, b, cs), NEW p \in 1..Len(b), b[p].op \in Openers,
         Typed(cs[p])
  PROVE  /\ Resumes(b, cs, p, b[p].end, Types[b[p].bt].outs)
         /\ b[p].end \in Nat \ {0} /\ b[p].end - 1 \in p + 1 .. Len(b)
         /\ Directly(b, p, b[p].end - 1) /\ b[b[p].end - 1].op = "end"
<1> DEFINE e == b[p].end
           q == e - 1
           u == Under(cs[p], b[p])
           l == Len(cs[p].ctrls)
<1>1. BodyOk(b, <<>>, TRUE)
  BY DEF Whole
<1>2. /\ e \in Nat \ {0} /\ Directly(b, p, q) /\ b[q].op = "end" /\ Len(b) \in Nat
      /\ b[p] \in Instructions
  BY <1>1, CompleteBody DEF Closed
<1>3. q \in p + 1 .. Len(b)
  BY <1>2 DEF Directly
<1>4. q \in 1..Len(b) /\ q + 1 = e
  BY <1>2, <1>3
<1> HIDE DEF q, e, u, l
<1>5. /\ OpenAt(b)[q] # <<>> /\ Last(OpenAt(b)[q]) = p
      /\ Front(OpenAt(b)[q]) = OpenAt(b)[p]
  <2>1. OpenAt(b)[q] # <<>> /\ Last(OpenAt(b)[q]) = p
    BY <1>2, DirectlyLast
  <2>2. p \in 1 .. Len(b) + 1
    BY <1>2
  <2>3. OpenAt(b)[p] \in Seq(1 .. p - 1)
    BY <1>2, <2>2, OpenBlocks
  <2>4. OpenAt(b)[q] = Append(OpenAt(b)[p], p)
    BY <1>2 DEF Directly
  <2>5. OpenAt(b)[p] \in Seq(Nat) /\ p \in Nat
    BY <2>3, SeqMonotonic
  <2>6. Front(Append(OpenAt(b)[p], p)) = OpenAt(b)[p]
    BY <2>5, FrontOfAppend
  <2> QED
    BY <2>1, <2>4, <2>6
<1>6. OpenAt(b)[e] = OpenAt(b)[p]
  <2>1. "end" \notin Openers
    BY DEF Openers
  <2> QED
    BY <1>2, <1>4, <1>5, <2>1, OpenAtNext DEF OpenNext
<1>7. q # Len(b)
  BY <1>2, <1>1, <1>5, CompleteBody
<1>8. e \in 1..Len(b)
  BY <1>2, <1>4, <1>7
<1>9. b[p].bt \in DOMAIN Types /\ u \in Seq(BodyType) /\ Len(u) \in Nat
  BY OpenerPops DEF u
<1>10. /\ l \in Nat \ {0} /\ Len(cs[q].ctrls) = l + 1
       /\ \A m \in 1..l : cs[q].ctrls[m] = cs[p].ctrls[m]
       /\ \A m \in 1..Len(u) : cs[q].stack[m] = u[m]
       /\ cs[q].ctrls[l + 1].height = Len(u)
       /\ cs[q].ctrls[l + 1].outs = Types[b[p].bt].outs
       /\ Last(cs[q].ctrls) = cs[q].ctrls[l + 1]
  BY <1>2, <1>4, InnerBlock DEF u, l
<1>11. cs[e] = Pushed(PopCtrl(cs[q]), Last(cs[q].ctrls).outs) /\ cs[q] \in CheckerType
       /\ Live(cs[q])
  <2>1. cs[q + 1] = Checked(f, cs[q], b[q]) /\ cs[q] \in CheckerType /\ Live(cs[q])
    BY <1>4, PlaceFacts
  <2>2. Checked(f, cs[q], b[q]) = Pushed(PopCtrl(cs[q]), Last(cs[q].ctrls).outs)
    BY <1>2 DEF Checked, Openers
  <2> QED
    BY <1>4, <2>1, <2>2
<1> DEFINE v == PopCtrl(cs[q])
           ts == Types[b[p].bt].outs
<1>12. /\ v \in CheckerType /\ Len(v.ctrls) = l /\ \A m \in 1..l : v.ctrls[m] = cs[q].ctrls[m]
       /\ Len(v.stack) = Len(u) /\ \A m \in 1..Len(u) : v.stack[m] = cs[q].stack[m]
  <2>1. cs[q].ctrls[l + 1].height <= Len(cs[q].stack)
    BY <1>10, <1>11 DEF Live
  <2> DEFINE d == cs[q]
  <2>2. /\ d \in CheckerType /\ l \in Nat /\ Len(d.ctrls) = l + 1
        /\ d.ctrls[l + 1].height <= Len(d.stack) /\ d.ctrls[l + 1].height = Len(u)
    BY <1>10, <1>11, <2>1
  <2> HIDE DEF d
  <2>3. /\ PopCtrl(d) \in CheckerType /\ Len(PopCtrl(d).ctrls) = l
        /\ \A m \in 1..l : PopCtrl(d).ctrls[m] = d.ctrls[m]
        /\ Len(PopCtrl(d).stack) = d.ctrls[l + 1].height
        /\ \A m \in 1..d.ctrls[l + 1].height : PopCtrl(d).stack[m] = d.stack[m]
    BY <2>2, PopCtrlOk
  <2> QED
    BY <2>2, <2>3 DEF d, v
<1>13. ts \in Seq(BodyType) /\ ts \in Seq(BodyType \cup {Bot}) /\ Len(ts) \in Nat
  BY <1>9, BlockTypes, SeqMonotonic
<1>14. cs[e] = Pushed(v, ts)
  BY <1>10, <1>11
<1> HIDE DEF v, ts
<1>15. /\ cs[e] \in CheckerType /\ cs[e].ctrls = v.ctrls /\ cs[e].stack = v.stack \o ts
       /\ v.stack \in Seq(BodyType \cup {Bot})
  BY <1>12, <1>13, <1>14, PushedOk, CheckerParts
<1>16. Joins(cs[e].stack, u, ts)
  <2> DEFINE x == v.stack
  <2>1. /\ x \in Seq(BodyType \cup {Bot}) /\ Len(x) = Len(u)
        /\ \A m \in 1..Len(u) : x[m] = u[m]
    BY <1>10, <1>12, <1>15
  <2> HIDE DEF x
  <2>0. ts \in Seq(BodyType \cup {Bot}) /\ x \in Seq(BodyType \cup {Bot})
    BY <1>13, <2>1
  <2>2. /\ Len(x \o ts) = Len(x) + Len(ts)
        /\ \A m \in 1..Len(x) : (x \o ts)[m] = x[m]
        /\ \A m \in 1..Len(ts) : (x \o ts)[Len(x) + m] = ts[m]
    BY <2>0, ConcatOk
  <2>3. cs[e].stack = x \o ts
    BY <1>15 DEF x
  <2> QED
    BY <2>1, <2>2, <2>3 DEF Joins
<1>17. Typed(cs[e])
  <2>1. cs[e].stack \in Seq(BodyType)
    BY <1>9, <1>13, <1>15, <1>16, CheckerParts, JoinTyped
  <2>2. Alive(cs[p]) /\ Len(cs[p].ctrls) = l /\ l \in Nat
    BY <1>10 DEF Typed, l
  <2>3. Len(cs[e].ctrls) = l /\ \A m \in 1..l : cs[e].ctrls[m] = cs[p].ctrls[m]
    BY <1>10, <1>12, <1>15
  <2>4. Alive(cs[e])
    BY <1>15, <2>2, <2>3, AliveBelow
  <2> QED
    BY <2>1, <2>4 DEF Typed
<1>18. cs[e].ctrls = cs[p].ctrls
  <2>1. cs[p] \in CheckerType
    BY PlaceFacts
  <2> DEFINE x == cs[e].ctrls
             y == cs[p].ctrls
  <2>2. x \in Seq(CtrlType) /\ y \in Seq(CtrlType)
    BY <1>15, <2>1, CheckerParts
  <2>3. Len(x) = Len(y) /\ \A m \in 1..Len(x) : x[m] = y[m]
    BY <1>10, <1>12, <1>15 DEF l
  <2> HIDE DEF x, y
  <2>4. x = y
    BY <2>2, <2>3, SameSequence
  <2> QED
    BY <2>4 DEF x, y
<1> QED
  BY <1>2, <1>3, <1>6, <1>8, <1>16, <1>17, <1>18 DEF Resumes, e, q, u, l, ts

\* A label on a typed place.
LEMMA PushTyped ==
  ASSUME NEW v \in CheckerType, Typed(v), NEW kind, NEW t,
         t.ins \in Seq(BodyType)
  PROVE  /\ Typed(PushCtrl(v, kind, t)) /\ Len(PushCtrl(v, kind, t).ctrls) = Len(v.ctrls) + 1
         /\ Joins(PushCtrl(v, kind, t).stack, v.stack, t.ins)
<1> DEFINE new == [kind |-> kind, ins |-> t.ins, outs |-> t.outs,
                   height |-> Len(v.stack), unreachable |-> FALSE]
           x == v.stack
           y == t.ins
           z == v.ctrls
           d == PushCtrl(v, kind, t)
<1>1. d = [stack |-> x \o y, ctrls |-> Append(z, new)]
  BY DEF PushCtrl
<1>3. x \in Seq(BodyType) /\ y \in Seq(BodyType) /\ z \in Seq(CtrlType)
  BY CheckerParts DEF Typed
<1>4. ~ new.unreachable
  OBVIOUS
<1> HIDE DEF new, x, y, z, d
<1>2. d.stack = x \o y /\ d.ctrls = Append(z, new)
  BY <1>1
<1>5. /\ x \o y \in Seq(BodyType) /\ Len(x \o y) = Len(x) + Len(y)
      /\ \A m \in 1..Len(x) : (x \o y)[m] = x[m]
      /\ \A m \in 1..Len(y) : (x \o y)[Len(x) + m] = y[m]
  BY <1>3, ConcatOk
<1>6. z \in Seq(CtrlType \cup {new}) /\ new \in CtrlType \cup {new}
  BY <1>3, SeqMonotonic
<1>7. /\ Len(z) \in Nat /\ Len(Append(z, new)) = Len(z) + 1
      /\ \A i \in 1..Len(z) : Append(z, new)[i] = z[i]
      /\ Append(z, new)[Len(z) + 1] = new
  BY <1>6, AppendOk
<1>8. \A j \in 1..Len(z) : ~ z[j].unreachable
  BY DEF Typed, Alive, z
<1>9. \A j \in 1 .. Len(z) + 1 : ~ Append(z, new)[j].unreachable
  <2> TAKE j \in 1 .. Len(z) + 1
  <2>1. CASE j \in 1..Len(z)
    BY <1>7, <1>8, <2>1
  <2>2. CASE j = Len(z) + 1
    BY <1>4, <1>7, <2>2
  <2> QED
    BY <1>7, <2>1, <2>2
<1>10. Typed(d)
  BY <1>2, <1>5, <1>7, <1>9 DEF Typed, Alive
<1>11. Joins(d.stack, x, y)
  BY <1>2, <1>5 DEF Joins
<1> QED
  BY <1>2, <1>7, <1>10, <1>11 DEF d, x, y, z

\* Position t is the begin of an arm of the block opened at p.
Enters(b, cs, p, t) ==
  /\ t \in 1..Len(b) /\ OpenAt(b)[t] = Append(OpenAt(b)[p], p)
  /\ Len(cs[t].ctrls) = Len(cs[p].ctrls) + 1 /\ Typed(cs[t])
  /\ Joins(cs[t].stack, Under(cs[p], b[p]), Types[b[p].bt].ins)

\* The first arm begins after the opener.
LEMMA FirstArm ==
  ASSUME NEW f, NEW b, NEW cs, Whole(f, b, cs), NEW p \in 1..Len(b), b[p].op \in Openers,
         Typed(cs[p])
  PROVE  Enters(b, cs, p, p + 1)
<1> DEFINE t == Types[b[p].bt]
           v == Popped(cs[p], Taken(b[p]))
<1>1. /\ b[p].bt \in DOMAIN Types
      /\ Pops(cs[p], Operands(b[p]), v)
  BY OpenerPops
<1>2. /\ cs[p + 1] = Checked(f, cs[p], b[p]) /\ Len(b) \in Nat
  BY PlaceFacts
<1>3. p + 1 \in 1..Len(b)
  <2>1. b[Len(b)].op = "end" /\ "end" \notin Openers
    BY EndFacts DEF Openers
  <2> QED
    BY <1>2, <2>1
<1>4. OpenAt(b)[p + 1] = Append(OpenAt(b)[p], p)
  BY <1>2, OpenAtNext DEF OpenNext
<1>5. t.ins \in Seq(BodyType) /\ Len(t.ins) \in Nat
  BY <1>1, BlockTypes
<1>6. cs[p + 1] = PushCtrl(v, b[p].op, t)
  <2>1. CASE b[p].op = "if"
    <3>1. Taken(b[p]) = Len(t.ins) + 1
      BY <2>1 DEF Taken
    <3> QED
      BY <1>2, <2>1, <3>1 DEF Checked
  <2>2. CASE b[p].op \in {"block", "loop"}
    <3>1. Taken(b[p]) = Len(t.ins)
      <4> DEFINE x == Len(t.ins)
      <4>1. Taken(b[p]) = x + 0 /\ x \in Nat
        BY <1>5, <2>2 DEF Taken
      <4> HIDE DEF x
      <4>2. Taken(b[p]) = x
        BY <4>1
      <4> QED
        BY <4>2 DEF x
    <3> QED
      BY <1>2, <2>2, <3>1 DEF Checked
  <2> QED
    BY <2>1, <2>2 DEF Openers
<1>7. v \in CheckerType /\ v.ctrls = cs[p].ctrls /\ v.stack \in Seq(BodyType)
  BY <1>1 DEF Pops, Live
<1>8. Typed(v)
  BY <1>7 DEF Typed, Alive
<1>9. /\ Typed(PushCtrl(v, b[p].op, t)) /\ Len(PushCtrl(v, b[p].op, t).ctrls) = Len(v.ctrls) + 1
      /\ Joins(PushCtrl(v, b[p].op, t).stack, v.stack, t.ins)
  BY <1>5, <1>7, <1>8, PushTyped
<1>10. v.stack = Under(cs[p], b[p])
  BY DEF Under
<1> HIDE DEF v, t
<1> QED
  BY <1>3, <1>4, <1>6, <1>7, <1>9, <1>10 DEF Enters, t

\* The second arm of an if begins after its else.
LEMMA SecondArm ==
  ASSUME NEW f, NEW b, NEW cs, Whole(f, b, cs), NEW p \in 1..Len(b), b[p].op = "if",
         b[p].else_ # b[p].end, Typed(cs[p])
  PROVE  Enters(b, cs, p, b[p].else_)
<1> DEFINE e == b[p].else_
           q == e - 1
           u == Under(cs[p], b[p])
           l == Len(cs[p].ctrls)
           t == Types[b[p].bt]
<1>1. BodyOk(b, <<>>, TRUE) /\ b[p].op \in Openers
  BY DEF Whole, Openers
<1>2. e \in Nat \ {0} /\ Directly(b, p, q) /\ b[q].op = "else" /\ Len(b) \in Nat
  BY <1>1, CompleteBody DEF HasElse
<1>3. q \in p + 1 .. Len(b)
  BY <1>2 DEF Directly
<1> HIDE DEF q, e, u, l, t
<1>4. q \in 1..Len(b) /\ q + 1 = e
  BY <1>2, <1>3 DEF q
<1>5. b[Len(b)].op = "end"
  BY EndFacts
<1>6. q # Len(b) /\ e \in 1..Len(b)
  BY <1>2, <1>4, <1>5
<1>7. OpenAt(b)[e] = Append(OpenAt(b)[p], p)
  <2>1. OpenAt(b)[q] = Append(OpenAt(b)[p], p)
    BY <1>2 DEF Directly
  <2>2. "else" \notin Openers
    BY DEF Openers
  <2> QED
    BY <1>2, <1>4, <2>1, <2>2, OpenAtNext DEF OpenNext
<1>8. b[p].bt \in DOMAIN Types /\ u \in Seq(BodyType) /\ Len(u) \in Nat
  BY <1>1, OpenerPops DEF u
<1>9. t.ins \in Seq(BodyType)
  BY <1>8, BlockTypes DEF t
<1> DEFINE d == cs[q]
           v == PopCtrl(d)
<1>10. /\ l \in Nat \ {0} /\ Len(d.ctrls) = l + 1
       /\ \A m \in 1..l : d.ctrls[m] = cs[p].ctrls[m]
       /\ \A m \in 1..Len(u) : d.stack[m] = u[m]
       /\ d.ctrls[l + 1].height = Len(u)
       /\ d.ctrls[l + 1].ins = t.ins
       /\ Last(d.ctrls) = d.ctrls[l + 1]
  BY <1>1, <1>2, <1>4, InnerBlock DEF u, l, t
<1>11. cs[e] = PushCtrl(v, "else", Last(d.ctrls)) /\ d \in CheckerType /\ Live(d)
  <2>1. cs[q + 1] = Checked(f, d, b[q]) /\ d \in CheckerType /\ Live(d)
    BY <1>4, PlaceFacts
  <2>2. Checked(f, d, b[q]) = PushCtrl(v, "else", Last(d.ctrls))
    BY <1>2 DEF Checked
  <2> QED
    BY <1>4, <2>1, <2>2
<1>12. d.ctrls[l + 1].height <= Len(d.stack)
  BY <1>10, <1>11 DEF Live
<1> HIDE DEF d
<1>13. /\ v \in CheckerType /\ Len(v.ctrls) = l
       /\ \A m \in 1..l : v.ctrls[m] = d.ctrls[m]
       /\ Len(v.stack) = d.ctrls[l + 1].height
       /\ \A m \in 1..d.ctrls[l + 1].height : v.stack[m] = d.stack[m]
  BY <1>10, <1>11, <1>12, PopCtrlOk
<1> HIDE DEF v
<1>14. v.stack = u
  <2>1. v.stack \in Seq(BodyType \cup {Bot})
    BY <1>13, CheckerParts
  <2>2. Len(v.stack) = Len(u) /\ \A m \in 1..Len(v.stack) : v.stack[m] = u[m]
    BY <1>10, <1>13
  <2> QED
    BY <1>8, <2>1, <2>2, SameSequence
<1>15. Typed(v)
  <2>1. Alive(cs[p]) /\ Len(cs[p].ctrls) \in Nat /\ Len(v.ctrls) <= Len(cs[p].ctrls)
    BY <1>10, <1>13 DEF Typed, l
  <2>2. \A m \in 1..Len(v.ctrls) : v.ctrls[m] = cs[p].ctrls[m]
    BY <1>10, <1>13
  <2> QED
    BY <1>8, <1>13, <1>14, <2>1, <2>2, AliveBelow DEF Typed
<1> DEFINE w == Last(d.ctrls)
<1>16. w.ins = t.ins
  BY <1>10
<1> HIDE DEF w
<1>17. /\ Typed(PushCtrl(v, "else", w)) /\ Len(PushCtrl(v, "else", w).ctrls) = Len(v.ctrls) + 1
       /\ Joins(PushCtrl(v, "else", w).stack, v.stack, w.ins)
  BY <1>9, <1>13, <1>15, <1>16, PushTyped
<1>18. cs[e] = PushCtrl(v, "else", w)
  BY <1>11 DEF w
<1> QED
  BY <1>6, <1>7, <1>13, <1>14, <1>16, <1>17, <1>18 DEF Enters, e, u, t, l

-----------------------------------------------------------------------------
(* The top frame.                                                          *)

\* vs on top of the first k values of st.
Over(st, k, vs) == SubSeq(st, 1, k) \o vs

HasTypes(vs, ts) ==
  /\ vs \in Seq(ValueType) /\ ts \in Seq(BodyType) /\ Len(vs) = Len(ts)
  /\ \A m \in 1..Len(ts) : vs[m].ty = ts[m]

\* It has all of the stacks above its bases.
Top(fr, b, cs, st, ct) == FrameOk(fr, b, cs, 0, st, Len(st), ct, Len(ct))

\* The frame goes on at q.
Moves(fr, fr2, q) ==
  /\ fr2 \in FrameType /\ fr2.fn = fr.fn /\ fr2.base = fr.base /\ fr2.ctrl_base = fr.ctrl_base
  /\ fr2.results = fr.results /\ fr2.pc = q /\ TypesOf(fr2.locals) = LocalsOf(fr.fn)

\* What is below the bases is left alone.
KeepsBelow(fr, st, st2, ct, ct2) ==
  /\ fr.base <= Len(st2) /\ fr.ctrl_base <= Len(ct2)
  /\ \A m \in 1..fr.base : st2[m] = st[m]
  /\ \A m \in 1..fr.ctrl_base : ct2[m] = ct[m]

TopStep(fr, fr2, b, cs, st, st2, ct, ct2) ==
  /\ st2 \in Seq(ValueType) /\ ct2 \in Seq(EntryType)
  /\ Top(fr2, b, cs, st2, ct2) /\ Moves(fr, fr2, fr2.pc)
  /\ KeepsBelow(fr, st, st2, ct, ct2)

\* The two pieces of such a stack.
LEMMA OverOk ==
  ASSUME NEW st \in Seq(ValueType), NEW k \in 0..Len(st), NEW vs \in Seq(ValueType)
  PROVE  /\ Over(st, k, vs) \in Seq(ValueType) /\ Len(Over(st, k, vs)) = k + Len(vs)
         /\ Len(vs) \in Nat /\ Len(st) \in Nat
         /\ \A m \in 1..k : Over(st, k, vs)[m] = st[m]
         /\ \A m \in 1..Len(vs) : Over(st, k, vs)[k + m] = vs[m]
<1> DEFINE x == SubSeq(st, 1, k)
<1>1. x \in Seq(ValueType) /\ Len(x) = k /\ Len(st) \in Nat /\ \A m \in 1..k : x[m] = st[m]
  BY PrefixOk
<1> HIDE DEF x
<1>2. /\ x \o vs \in Seq(ValueType) /\ Len(x \o vs) = Len(x) + Len(vs) /\ Len(vs) \in Nat
      /\ \A m \in 1..Len(x) : (x \o vs)[m] = x[m]
      /\ \A m \in 1..Len(vs) : (x \o vs)[Len(x) + m] = vs[m]
  BY <1>1, ConcatOk
<1>3. Over(st, k, vs) = x \o vs
  BY DEF Over, x
<1> QED
  BY <1>1, <1>2, <1>3

\* What the operands of the checker say of the stack.
LEMMA ValuesCut ==
  ASSUME NEW s, NEW u, NEW ts, Joins(s, u, ts), Len(u) \in Nat, Len(ts) \in Nat,
         NEW st, Len(st) \in Nat, NEW lo \in Nat, ValuesOk(s, 0, st, lo, Len(st))
  PROVE  /\ ValuesOk(u, 0, st, lo, Len(st) - Len(ts))
         /\ Len(st) - Len(ts) = lo + Len(u) /\ Len(st) - Len(ts) \in 0..Len(st)
         /\ \A m \in 1..Len(ts) : st[Len(st) - Len(ts) + m].ty = ts[m]
<1>1. Len(s) = Len(u) + Len(ts) /\ Len(st) = lo + Len(s)
  BY DEF Joins, ValuesOk
<1>2. Len(st) - Len(ts) = lo + Len(u) /\ Len(st) - Len(ts) \in 0..Len(st)
  BY <1>1
<1>3. \A m \in 1..Len(s) : st[lo + m].ty = s[m]
  BY <1>1 DEF ValuesOk
<1>4. \A m \in 1..Len(u) : st[lo + m].ty = u[m]
  BY <1>1, <1>3 DEF Joins
<1>5. \A m \in 1..Len(ts) : st[lo + (Len(u) + m)].ty = ts[m]
  <2> TAKE m \in 1..Len(ts)
  <2>1. Len(u) + m \in 1..Len(s)
    BY <1>1
  <2>2. s[Len(u) + m] = ts[m]
    BY DEF Joins
  <2> QED
    BY <1>3, <2>1, <2>2
<1>6. \A m \in 1..Len(ts) : st[Len(st) - Len(ts) + m].ty = ts[m]
  <2> TAKE m \in 1..Len(ts)
  <2>1. Len(st) - Len(ts) + m = lo + (Len(u) + m)
    BY <1>2
  <2> QED
    BY <1>5, <2>1
<1>7. ValuesOk(u, 0, st, lo, Len(st) - Len(ts))
  <2> DEFINE hi == Len(st) - Len(ts)
  <2>1. hi = lo + Len(u)
    BY <1>2
  <2> HIDE DEF hi
  <2>2. lo <= hi /\ hi + 0 = lo + Len(u) /\ Len(u) - 0 = Len(u)
    BY <2>1
  <2>3. ValuesOk(u, 0, st, lo, hi)
    BY <1>4, <2>2 DEF ValuesOk
  <2> QED
    BY <2>3 DEF hi
<1> QED
  BY <1>2, <1>6, <1>7

\* Values of the types on top of a piece cut at k extend the piece by them.
LEMMA ValuesPush ==
  ASSUME NEW s, NEW u, NEW ts, Joins(s, u, ts), Len(u) \in Nat,
         NEW st \in Seq(ValueType), NEW lo \in Nat, NEW k \in 0..Len(st),
         ValuesOk(u, 0, st, lo, k), NEW vs, HasTypes(vs, ts)
  PROVE  ValuesOk(s, 0, Over(st, k, vs), lo, Len(Over(st, k, vs)))
<1> DEFINE w == Over(st, k, vs)
<1>1. vs \in Seq(ValueType) /\ Len(vs) = Len(ts) /\ \A m \in 1..Len(ts) : vs[m].ty = ts[m]
  BY DEF HasTypes
<1>2. /\ Len(w) = k + Len(ts) /\ Len(ts) \in Nat
      /\ \A m \in 1..k : w[m] = st[m]
      /\ \A m \in 1..Len(ts) : w[k + m] = vs[m]
  <2>1. /\ Len(w) = k + Len(vs) /\ Len(vs) \in Nat
        /\ \A m \in 1..k : w[m] = st[m]
        /\ \A m \in 1..Len(vs) : w[k + m] = vs[m]
    BY <1>1, OverOk
  <2> HIDE DEF w
  <2> QED
    BY <1>1, <2>1
<1>3. k = lo + Len(u) /\ Len(s) = Len(u) + Len(ts) /\ \A m \in 1..Len(u) : st[lo + m].ty = u[m]
  BY DEF ValuesOk, Joins
<1> HIDE DEF w
<1>4. ASSUME NEW m \in 1..Len(s)
      PROVE  w[lo + m].ty = s[m]
  <2>1. CASE m <= Len(u)
    <3>1. m \in 1..Len(u) /\ lo + m \in 1..k
      BY <1>2, <1>3, <2>1
    <3> QED
      BY <1>2, <1>3, <3>1 DEF Joins
  <2>2. CASE ~ m <= Len(u)
    <3> DEFINE i == m - Len(u)
    <3>1. i \in 1..Len(ts) /\ lo + m = k + i /\ m = Len(u) + i
      BY <1>2, <1>3, <2>2
    <3> HIDE DEF i
    <3>2. s[Len(u) + i] = ts[i]
      BY <3>1 DEF Joins
    <3> QED
      BY <1>1, <1>2, <3>1, <3>2
  <2> QED
    BY <2>1, <2>2
<1>5. lo <= Len(w) /\ Len(w) + 0 = lo + Len(s) /\ Len(s) - 0 = Len(s)
  BY <1>2, <1>3
<1> QED
  BY <1>4, <1>5 DEF ValuesOk, w

\* Arriving at a place with the values it wants on top of a kept prefix.
LEMMA Arrive ==
  ASSUME NEW fr, NEW fr2, NEW t, NEW b, NEW cs, fr \in FrameType, Moves(fr, fr2, t),
         fr.results = Len(FuncTypeOf(fr.fn).outs),
         Len(b) \in Nat, t \in 1 .. Len(b) + 1, Typed(cs[t]),
         NEW u, Len(u) \in Nat, NEW ts, Joins(cs[t].stack, u, ts),
         NEW st \in Seq(ValueType), NEW k \in 0..Len(st), ValuesOk(u, 0, st, fr.base, k),
         NEW vs, HasTypes(vs, ts), NEW ct, NEW ct2 \in Seq(EntryType),
         EntriesOk(fr.fn, b, cs, t, fr.base, ct2, fr.ctrl_base, Len(ct2)),
         fr.ctrl_base <= Len(ct2), \A m \in 1..fr.ctrl_base : ct2[m] = ct[m]
  PROVE  TopStep(fr, fr2, b, cs, st, Over(st, k, vs), ct, ct2)
<1> DEFINE w == Over(st, k, vs)
<1>1. fr.base \in Nat /\ fr.ctrl_base \in Nat
  BY DEF FrameType
<1>2. ValuesOk(cs[t].stack, 0, w, fr.base, Len(w))
  BY <1>1, ValuesPush
<1>3. /\ w \in Seq(ValueType) /\ Len(w) = k + Len(vs) /\ Len(vs) \in Nat
      /\ \A m \in 1..k : w[m] = st[m]
  BY OverOk DEF HasTypes
<1>4. fr.base <= k
  BY DEF ValuesOk
<1> HIDE DEF w
<1>5. fr.base <= Len(w) /\ \A m \in 1..fr.base : w[m] = st[m]
  BY <1>1, <1>3, <1>4
<1>6. Top(fr2, b, cs, w, ct2)
  BY <1>2 DEF Top, FrameOk, Moves
<1>7. Moves(fr, fr2, fr2.pc)
  BY DEF Moves
<1> QED
  BY <1>3, <1>5, <1>6, <1>7 DEF TopStep, KeepsBelow, w

-----------------------------------------------------------------------------
(* Control entries.                                                        *)

\* They depend on the open blocks only.
LEMMA EntriesSame ==
  ASSUME NEW f, NEW b, NEW cs, NEW q, NEW t, NEW base, NEW ct, NEW lo, NEW hi,
         EntriesOk(f, b, cs, q, base, ct, lo, hi), OpenAt(b)[t] = OpenAt(b)[q],
         Len(cs[t].ctrls) = Len(cs[q].ctrls), cs[q].ctrls # <<>>
  PROVE  EntriesOk(f, b, cs, t, base, ct, lo, hi)
BY DEF EntriesOk

\* A block open at q, and the entries under its own.
OuterOk(f, b, cs, q, base, ct, lo, j, p) ==
  /\ p \in 1..Len(b) /\ b[p].op \in Openers /\ Len(cs[p].ctrls) = j /\ Typed(cs[p])
  /\ lo + j + 1 \in 1..Len(ct) /\ lo + j \in 0..Len(ct)
  /\ ct[lo + j + 1] = Entry(b, cs, base, p)
  /\ SubSeq(ct, 1, lo + j) \in Seq(EntryType) /\ Len(SubSeq(ct, 1, lo + j)) = lo + j
  /\ \A m \in 1 .. lo + j : SubSeq(ct, 1, lo + j)[m] = ct[m]
  /\ EntriesOk(f, b, cs, p, base, SubSeq(ct, 1, lo + j), lo, lo + j)

\* The entries below label j are those of the place where its block was opened.
LEMMA EntriesDown ==
  ASSUME NEW f, NEW b, NEW cs, Whole(f, b, cs), NEW q \in 1..Len(b), NEW base,
         NEW ct \in Seq(EntryType), NEW lo \in Nat,
         EntriesOk(f, b, cs, q, base, ct, lo, Len(ct)), NEW j \in 1..Len(OpenAt(b)[q])
  PROVE  OuterOk(f, b, cs, q, base, ct, lo, j, OpenAt(b)[q][j])
<1> DEFINE s == OpenAt(b)[q]
           p == s[j]
           l == Len(s)
           n == Len(ct)
           cu == SubSeq(ct, 1, lo + j)
<1>1. /\ Len(b) \in Nat /\ q \in 1 .. Len(b) + 1 /\ Len(cs[q].ctrls) = l + 1
  BY PlaceFacts
<1>2. l \in Nat /\ s[j] \in 1..Len(b) /\ b[s[j]].op \in Openers /\ Len(OpenAt(b)[s[j]]) = j - 1
  BY <1>1, OpenBlocks
<1>3. Len(cs[p].ctrls) = j /\ cs[p].ctrls # <<>>
  <2>1. Len(cs[p].ctrls) = (j - 1) + 1 /\ Live(cs[p])
    BY <1>2, PlaceFacts
  <2> QED
    BY <1>2, <2>1 DEF Live
<1> HIDE DEF s, l, n
<1>4. /\ n = lo + (l + 1) /\ ct[lo + 1] = Bottom(f, b, base)
      /\ \A i \in 1..l : ct[lo + i + 1] = Entry(b, cs, base, s[i]) /\ Typed(cs[s[i]])
  <2>1. (l + 1) - 1 = l
    BY <1>2
  <2>2. cs[q].ctrls # <<>>
    BY PlaceFacts DEF Live
  <2> QED
    BY <1>1, <2>1, <2>2 DEF EntriesOk, s, n
<1>5. lo + j + 1 \in 1..n /\ lo + j \in 0..n /\ j \in 1..l
  <2>1. j \in 1..l
    BY DEF l, s
  <2> QED
    BY <1>2, <1>4, <2>1
<1>6. ct[lo + j + 1] = Entry(b, cs, base, p) /\ Typed(cs[p])
  BY <1>4, <1>5
<1>7. cu \in Seq(EntryType) /\ Len(cu) = lo + j /\ \A m \in 1 .. lo + j : cu[m] = ct[m]
  BY <1>5, PrefixOk DEF n
<1>8. \A i \in 1 .. j - 1 : OpenAt(b)[p][i] = s[i]
  <2>1. NestedAt(OpenAt(b), b, q)
    BY <1>1, Nested
  <2> QED
    BY <1>5, <2>1 DEF NestedAt, s, l
<1> HIDE DEF cu, p
<1>9. EntriesOk(f, b, cs, p, base, cu, lo, lo + j)
  <2>1. lo + 1 \in 1 .. lo + j /\ \A i \in 1 .. j - 1 : lo + i + 1 \in 1 .. lo + j /\ i \in 1..l
    BY <1>2, <1>5
  <2>2. cu[lo + 1] = Bottom(f, b, base)
    BY <1>4, <1>7, <2>1
  <2>3. \A i \in 1 .. j - 1 :
          cu[lo + i + 1] = Entry(b, cs, base, OpenAt(b)[p][i]) /\ Typed(cs[OpenAt(b)[p][i]])
    BY <1>4, <1>7, <1>8, <2>1
  <2> QED
    BY <1>3, <2>2, <2>3 DEF EntriesOk
<1> QED
  BY <1>2, <1>3, <1>5, <1>6, <1>7, <1>9 DEF OuterOk, s, n, cu, p

\* The entry of a block that is entered.
LEMMA EntriesUp ==
  ASSUME NEW f, NEW b, NEW cs, Whole(f, b, cs), NEW p \in 1..Len(b), b[p].op \in Openers,
         Typed(cs[p]), NEW t, Enters(b, cs, p, t), NEW base \in Nat,
         NEW ct \in Seq(EntryType), NEW lo \in Nat,
         EntriesOk(f, b, cs, p, base, ct, lo, Len(ct))
  PROVE  LET ct2 == Append(ct, Entry(b, cs, base, p)) IN
         /\ ct2 \in Seq(EntryType) /\ Len(ct2) = Len(ct) + 1
         /\ lo <= Len(ct) /\ lo <= Len(ct2) /\ \A m \in 1..Len(ct) : ct2[m] = ct[m]
         /\ EntriesOk(f, b, cs, t, base, ct2, lo, Len(ct2))
<1> DEFINE e == Entry(b, cs, base, p)
           ct2 == Append(ct, e)
           s == OpenAt(b)[p]
           l == Len(s)
           n == Len(ct)
<1>1. /\ Len(b) \in Nat /\ p \in 1 .. Len(b) + 1 /\ Len(cs[p].ctrls) = l + 1
      /\ b[p] \in Instructions
  BY PlaceFacts
<1>2. l \in Nat /\ s \in Seq(1 .. p - 1)
  BY <1>1, OpenBlocks
<1>3. e \in EntryType
  <2>1. b[p].bt \in DOMAIN Types /\ Len(Under(cs[p], b[p])) \in Nat
    BY OpenerPops
  <2>2. LabelOf(b[p]) \in Seq(BodyType)
    BY <2>1, OperandsAre
  <2>3. Len(LabelOf(b[p])) \in Nat
    BY <2>2, LenProperties
  <2>4. b[p].end \in Nat
    BY <1>1, TargetsAreNumbers
  <2>5. (IF b[p].op = "loop" THEN p ELSE b[p].end) \in Nat
    BY <2>4
  <2> HIDE DEF e
  <2> DEFINE x == IF b[p].op = "loop" THEN p ELSE b[p].end
             y == Len(LabelOf(b[p]))
             z == Len(Under(cs[p], b[p]))
  <2>6. e = [target |-> x, arity |-> y, height |-> base + z]
    BY DEF e, Entry
  <2>7. x \in Nat /\ y \in Nat /\ z \in Nat
    BY <2>1, <2>3, <2>5
  <2> HIDE DEF x, y, z
  <2> QED
    BY <2>6, <2>7 DEF EntryType
<1> HIDE DEF e, s, l, n
<1>4. /\ ct2 \in Seq(EntryType) /\ n \in Nat /\ Len(ct2) = n + 1
      /\ \A m \in 1..n : ct2[m] = ct[m]
      /\ ct2[n + 1] = e
  BY <1>3, AppendOk DEF n
<1>5. /\ n = lo + (l + 1) /\ ct[lo + 1] = Bottom(f, b, base)
      /\ \A i \in 1..l : ct[lo + i + 1] = Entry(b, cs, base, s[i]) /\ Typed(cs[s[i]])
  <2>1. (l + 1) - 1 = l
    BY <1>2
  <2>2. cs[p].ctrls # <<>>
    BY PlaceFacts DEF Live
  <2> QED
    BY <1>1, <2>1, <2>2 DEF EntriesOk, s, n
<1>6. /\ OpenAt(b)[t] = Append(s, p) /\ Len(cs[t].ctrls) = l + 2
  <2>1. Len(cs[t].ctrls) = (l + 1) + 1
    BY <1>1 DEF Enters
  <2> QED
    BY <1>2, <2>1 DEF Enters, s
<1>7. /\ \A i \in 1..l : Append(s, p)[i] = s[i]
      /\ Append(s, p)[l + 1] = p
  <2>1. s \in Seq(Nat) /\ p \in Nat
    BY <1>2, SeqMonotonic
  <2> QED
    BY <2>1, AppendOk DEF l
<1> HIDE DEF ct2
<1>8. EntriesOk(f, b, cs, t, base, ct2, lo, n + 1)
  <2>1. n + 1 = lo + (l + 2) /\ lo + 1 \in 1..n /\ (l + 2) - 1 = l + 1
    BY <1>2, <1>5
  <2>2. ct2[lo + 1] = Bottom(f, b, base)
    BY <1>4, <1>5, <2>1
  <2>3. ASSUME NEW i \in 1 .. l + 1
        PROVE  /\ ct2[lo + i + 1] = Entry(b, cs, base, OpenAt(b)[t][i])
               /\ Typed(cs[OpenAt(b)[t][i]])
    <3>1. CASE i \in 1..l
      <4>1. lo + i + 1 \in 1..n
        BY <1>2, <1>5, <3>1
      <4> QED
        BY <1>4, <1>5, <1>6, <1>7, <3>1, <4>1
    <3>2. CASE i = l + 1
      <4>1. lo + i + 1 = n + 1
        BY <1>2, <1>5, <3>2
      <4>2. OpenAt(b)[t][i] = p
        BY <1>6, <1>7, <3>2
      <4> QED
        BY <1>4, <4>1, <4>2 DEF e
    <3> QED
      BY <1>2, <3>1, <3>2
  <2> QED
    BY <1>6, <2>1, <2>2, <2>3 DEF EntriesOk
<1>9. lo <= n /\ lo <= n + 1
  BY <1>2, <1>5
<1> QED
  BY <1>4, <1>8, <1>9 DEF e, ct2, n

-----------------------------------------------------------------------------
(* Steps of the top frame.                                                 *)

\* The checker e has vt where c had ts, on what u says.
Replaces(c, e, u, ts, vt) ==
  /\ Joins(c.stack, u, ts) /\ Joins(e.stack, u, vt) /\ u \in Seq(BodyType)
  /\ Len(u) \in Nat /\ Len(ts) \in Nat /\ e.ctrls = c.ctrls /\ Typed(e)

\* What the top frame consists of.
LEMMA TopFacts ==
  ASSUME NEW fr, NEW b, NEW cs, Whole(fr.fn, b, cs), NEW st \in Seq(ValueType),
         NEW ct \in Seq(EntryType), Top(fr, b, cs, st, ct)
  PROVE  /\ fr \in FrameType /\ fr.base \in Nat /\ fr.ctrl_base \in Nat
         /\ fr.pc \in 1 .. Len(b) + 1 /\ Len(b) \in Nat \ {0}
         /\ fr.results = Len(FuncTypeOf(fr.fn).outs)
         /\ TypesOf(fr.locals) = LocalsOf(fr.fn)
         /\ Typed(cs[fr.pc]) /\ ValuesOk(cs[fr.pc].stack, 0, st, fr.base, Len(st))
         /\ EntriesOk(fr.fn, b, cs, fr.pc, fr.base, ct, fr.ctrl_base, Len(ct))
         /\ Len(st) \in Nat /\ Len(ct) \in Nat
         /\ fr.base <= Len(st) /\ fr.ctrl_base <= Len(ct)
<1>1. fr \in FrameType /\ fr.base \in Nat /\ fr.ctrl_base \in Nat
  BY DEF Top, FrameOk, FrameType
<1>2. Len(b) \in Nat \ {0}
  BY EndFacts
<1>3. Len(st) \in Nat /\ Len(ct) \in Nat
  BY LenProperties
<1>4. /\ ValuesOk(cs[fr.pc].stack, 0, st, fr.base, Len(st))
      /\ EntriesOk(fr.fn, b, cs, fr.pc, fr.base, ct, fr.ctrl_base, Len(ct))
      /\ Typed(cs[fr.pc]) /\ fr.pc \in 1 .. Len(b) + 1
      /\ fr.results = Len(FuncTypeOf(fr.fn).outs)
      /\ TypesOf(fr.locals) = LocalsOf(fr.fn)
  BY DEF Top, FrameOk
<1>5. fr.base <= Len(st)
  BY <1>4 DEF ValuesOk
<1>6. fr.ctrl_base <= Len(ct)
  <2>1. cs \in Seq(CheckerType) /\ Len(cs) = Len(b) + 1
    BY EndFacts DEF Whole
  <2>2. cs[fr.pc] \in CheckerType
    BY <1>4, <2>1, LenProperties, ElementOfSeq
  <2>3. Len(cs[fr.pc].ctrls) \in Nat
    BY <2>2, CheckerParts
  <2>4. Len(ct) = fr.ctrl_base + Len(cs[fr.pc].ctrls)
    BY <1>4 DEF EntriesOk
  <2> QED
    BY <1>1, <2>3, <2>4
<1> QED
  BY <1>1, <1>2, <1>3, <1>4, <1>5, <1>6

\* Instructions outside control: operands are replaced and the next follows.
LEMMA FlatMove ==
  ASSUME NEW fr, NEW fr2, NEW b, NEW cs, Whole(fr.fn, b, cs), NEW st \in Seq(ValueType),
         NEW ct \in Seq(EntryType), Top(fr, b, cs, st, ct), NEW q \in 1..Len(b), fr.pc = q,
         b[q].op \notin Openers \cup {"else", "end"}, Moves(fr, fr2, q + 1),
         NEW u, NEW ts, NEW vt, Replaces(cs[q], cs[q + 1], u, ts, vt), NEW vs, HasTypes(vs, vt)
  PROVE  TopStep(fr, fr2, b, cs, st, Over(st, Len(st) - Len(ts), vs), ct, ct)
<1>1. /\ fr \in FrameType /\ fr.base \in Nat /\ fr.ctrl_base \in Nat /\ Len(b) \in Nat
      /\ fr.results = Len(FuncTypeOf(fr.fn).outs)
      /\ ValuesOk(cs[q].stack, 0, st, fr.base, Len(st))
      /\ EntriesOk(fr.fn, b, cs, q, fr.base, ct, fr.ctrl_base, Len(ct))
      /\ Len(st) \in Nat /\ fr.ctrl_base <= Len(ct)
  BY TopFacts
<1>2. q + 1 \in 1 .. Len(b) + 1
  BY PlaceFacts
<1>3. OpenAt(b)[q + 1] = OpenAt(b)[q]
  BY <1>1, OpenAtNext DEF OpenNext
<1>4. cs[q].ctrls # <<>> /\ cs[q + 1].ctrls = cs[q].ctrls
  BY PlaceFacts DEF Live, Replaces
<1>5. EntriesOk(fr.fn, b, cs, q + 1, fr.base, ct, fr.ctrl_base, Len(ct))
  BY <1>1, <1>3, <1>4, EntriesSame
<1> DEFINE k == Len(st) - Len(ts)
<1>6. /\ ValuesOk(u, 0, st, fr.base, k) /\ k \in 0..Len(st)
  BY <1>1, ValuesCut DEF Replaces
<1>7. /\ Len(u) \in Nat /\ Joins(cs[q + 1].stack, u, vt) /\ Typed(cs[q + 1])
  BY DEF Replaces
<1> HIDE DEF k
<1>8. TopStep(fr, fr2, b, cs, st, Over(st, k, vs), ct, ct)
  BY <1>1, <1>2, <1>5, <1>6, <1>7, Arrive
<1> QED
  BY <1>8 DEF k

\* What is under the block opened at p is still there.
UnderKept(b, cs, p, st, base) ==
  /\ base + Len(Under(cs[p], b[p])) \in 0..Len(st)
  /\ ValuesOk(Under(cs[p], b[p]), 0, st, base, base + Len(Under(cs[p], b[p])))

\* A label: the values below it, and the entries, are those of the opener.
LEMMA Land ==
  ASSUME NEW fr, NEW fr2, NEW b, NEW cs, Whole(fr.fn, b, cs), NEW st \in Seq(ValueType),
         NEW ct \in Seq(EntryType), Top(fr, b, cs, st, ct), NEW p \in 1..Len(b),
         b[p].op \in Openers, Typed(cs[p]), UnderKept(b, cs, p, st, fr.base),
         NEW ct2 \in Seq(EntryType),
         EntriesOk(fr.fn, b, cs, p, fr.base, ct2, fr.ctrl_base, Len(ct2)),
         fr.ctrl_base <= Len(ct2), \A m \in 1..fr.ctrl_base : ct2[m] = ct[m],
         NEW t, NEW ts, Resumes(b, cs, p, t, ts), Moves(fr, fr2, t), NEW vs, HasTypes(vs, ts)
  PROVE  TopStep(fr, fr2, b, cs, st,
                 Over(st, fr.base + Len(Under(cs[p], b[p])), vs), ct, ct2)
<1>1. /\ fr \in FrameType /\ fr.base \in Nat /\ fr.ctrl_base \in Nat /\ Len(b) \in Nat
      /\ fr.results = Len(FuncTypeOf(fr.fn).outs)
  BY TopFacts
<1>2. t \in 1 .. Len(b) + 1
  BY <1>1 DEF Resumes
<1>3. cs[p].ctrls # <<>>
  BY PlaceFacts DEF Live
<1>4. /\ OpenAt(b)[t] = OpenAt(b)[p] /\ Len(cs[t].ctrls) = Len(cs[p].ctrls) /\ Typed(cs[t])
      /\ Joins(cs[t].stack, Under(cs[p], b[p]), ts)
  BY DEF Resumes
<1>5. EntriesOk(fr.fn, b, cs, t, fr.base, ct2, fr.ctrl_base, Len(ct2))
  BY <1>3, <1>4, EntriesSame
<1> DEFINE u == Under(cs[p], b[p])
           k == fr.base + Len(u)
<1>6. Len(u) \in Nat
  BY OpenerPops
<1>7. k \in 0..Len(st) /\ ValuesOk(u, 0, st, fr.base, k) /\ Joins(cs[t].stack, u, ts)
  BY <1>4 DEF UnderKept
<1> HIDE DEF u, k
<1>8. TopStep(fr, fr2, b, cs, st, Over(st, k, vs), ct, ct2)
  BY <1>1, <1>2, <1>4, <1>5, <1>6, <1>7, Arrive
<1> QED
  BY <1>8 DEF k, u

\* At an opener, its operands are on top of what is under the block.
LEMMA UnderHere ==
  ASSUME NEW fr, NEW b, NEW cs, Whole(fr.fn, b, cs), NEW st \in Seq(ValueType),
         NEW ct \in Seq(EntryType), Top(fr, b, cs, st, ct), NEW p \in 1..Len(b), fr.pc = p,
         b[p].op \in Openers
  PROVE  /\ Typed(cs[p]) /\ UnderKept(b, cs, p, st, fr.base)
         /\ Len(st) = fr.base + Len(Under(cs[p], b[p])) + Taken(b[p])
         /\ b[p].bt \in DOMAIN Types /\ Taken(b[p]) \in Nat
         /\ ValuesOk(cs[p].stack, 0, st, fr.base, Len(st))
<1> DEFINE u == Under(cs[p], b[p])
           k == fr.base + Len(u)
<1>1. /\ fr.base \in Nat /\ Typed(cs[p]) /\ ValuesOk(cs[p].stack, 0, st, fr.base, Len(st))
      /\ Len(st) \in Nat
  BY TopFacts
<1>2. b[p].bt \in DOMAIN Types /\ Joins(cs[p].stack, u, Operands(b[p])) /\ Len(u) \in Nat
  BY <1>1, OpenerPops
<1>3. Len(Operands(b[p])) = Taken(b[p]) /\ Len(Operands(b[p])) \in Nat
  BY <1>2, OperandsAre, LenProperties
<1> DEFINE ts == Operands(b[p])
           s == cs[p].stack
<1>4. /\ Joins(s, u, ts) /\ Len(u) \in Nat /\ Len(ts) \in Nat /\ Len(ts) = Taken(b[p])
      /\ ValuesOk(s, 0, st, fr.base, Len(st))
  BY <1>1, <1>2, <1>3
<1> HIDE DEF u, ts, s
<1>5. /\ ValuesOk(u, 0, st, fr.base, Len(st) - Len(ts))
      /\ Len(st) - Len(ts) = fr.base + Len(u) /\ Len(st) - Len(ts) \in 0..Len(st)
  <2> DEFINE lo == fr.base
  <2>1. lo \in Nat /\ Len(st) \in Nat /\ ValuesOk(s, 0, st, lo, Len(st))
    BY <1>1, <1>4
  <2> HIDE DEF k, lo
  <2>2. ValuesOk(u, 0, st, lo, Len(st) - Len(ts))
    BY <1>4, <2>1, ValuesCut
  <2>3. Len(st) - Len(ts) = lo + Len(u)
    BY <1>4, <2>1 DEF ValuesOk, Joins
  <2>4. Len(st) - Len(ts) \in 0..Len(st)
    BY <1>4, <2>1, <2>3
  <2> QED
    BY <2>2, <2>3, <2>4 DEF lo
<1>6. Len(st) = k + Taken(b[p]) /\ k \in 0..Len(st) /\ ValuesOk(u, 0, st, fr.base, k)
  <2> HIDE DEF k
  <2>1. k = Len(st) - Len(ts) /\ k \in 0..Len(st)
    BY <1>5 DEF k
  <2> QED
    BY <1>1, <1>4, <1>5, <2>1
<1>7. Taken(b[p]) \in Nat
  BY <1>4
<1> QED
  BY <1>1, <1>2, <1>6, <1>7 DEF UnderKept, u

\* What is under the blocks that are open is there too, and below all that the
\* next instruction can pop.
LEMMA UnderOuter ==
  ASSUME NEW fr, NEW b, NEW cs, Whole(fr.fn, b, cs), NEW st \in Seq(ValueType),
         NEW ct \in Seq(EntryType), Top(fr, b, cs, st, ct), NEW q \in 1..Len(b), fr.pc = q,
         NEW j \in 1..Len(OpenAt(b)[q])
  PROVE  LET p == OpenAt(b)[q][j] IN
         /\ UnderKept(b, cs, p, st, fr.base)
         /\ Len(Under(cs[p], b[p])) \in Nat
         /\ Len(Under(cs[p], b[p])) <= Last(cs[q].ctrls).height
         /\ cs[q].ctrls[j + 1].outs = Types[b[p].bt].outs
         /\ cs[q].ctrls[j + 1].ins = Types[b[p].bt].ins
         /\ cs[q].ctrls[j + 1].height = Len(Under(cs[p], b[p]))
         /\ cs[q].ctrls[j + 1].kind = Kind(b[p], q)
<1> DEFINE s == OpenAt(b)[q]
           p == s[j]
           c == cs[q]
           l == Len(s)
           u == Under(cs[p], b[p])
           k == fr.base + Len(u)
<1>1. /\ fr.base \in Nat /\ Typed(c) /\ ValuesOk(c.stack, 0, st, fr.base, Len(st))
      /\ Len(st) \in Nat
  BY TopFacts
<1>2. LabelsOk(b, q, cs, c, s, l) /\ j \in 1..l
  BY PlaceFacts
<1> HIDE DEF s, c, l
<1>3. /\ BlockOk(b, c, q, j, p, cs[p]) /\ l \in Nat /\ Last(c.ctrls) = c.ctrls[l + 1]
      /\ \A i \in 1 .. l + 1 :
           /\ c.ctrls[i].height \in Nat
           /\ c.ctrls[i].height <= c.ctrls[l + 1].height
      /\ c.ctrls[l + 1].height <= Len(c.stack) /\ Len(c.stack) \in Nat
  BY <1>2 DEF LabelsOk
<1> HIDE DEF p
<1>4. /\ c.ctrls[j + 1].outs = Types[b[p].bt].outs /\ c.ctrls[j + 1].ins = Types[b[p].bt].ins
      /\ c.ctrls[j + 1].height = Len(u) /\ \A m \in 1..Len(u) : c.stack[m] = u[m]
      /\ c.ctrls[j + 1].kind = Kind(b[p], q)
  BY <1>3 DEF BlockOk
<1> HIDE DEF u
<1>5. /\ Len(u) \in Nat /\ Len(u) <= c.ctrls[l + 1].height /\ Len(u) <= Len(c.stack)
  <2>1. j + 1 \in 1 .. l + 1
    BY <1>2, <1>3
  <2>2. c.ctrls[j + 1].height \in Nat /\ c.ctrls[j + 1].height <= c.ctrls[l + 1].height
    BY <1>3, <2>1
  <2>3. l + 1 \in 1 .. l + 1
    BY <1>3
  <2>4. c.ctrls[l + 1].height \in Nat
    BY <1>3, <2>3
  <2> QED
    BY <1>3, <1>4, <2>2, <2>4
<1>6. Len(st) = fr.base + Len(c.stack) /\ \A m \in 1..Len(c.stack) : st[fr.base + m].ty = c.stack[m]
  BY <1>1, <1>3 DEF ValuesOk
<1>7. k \in 0..Len(st)
  BY <1>1, <1>3, <1>5, <1>6
<1>8. ValuesOk(u, 0, st, fr.base, k)
  <2>1. \A m \in 1..Len(u) : st[fr.base + m].ty = u[m]
    BY <1>3, <1>4, <1>5, <1>6
  <2>2. fr.base <= k /\ k + 0 = fr.base + Len(u) /\ Len(u) - 0 = Len(u)
    BY <1>1, <1>5
  <2> HIDE DEF k
  <2> QED
    BY <2>1, <2>2 DEF ValuesOk
<1> QED
  BY <1>3, <1>4, <1>5, <1>7, <1>8 DEF UnderKept, u, p, c, s

\* The innermost open block.
LEMMA LastIsDirect ==
  ASSUME NEW b, Len(b) \in Nat, NEW q \in 1..Len(b), OpenAt(b)[q] # <<>>
  PROVE  LET p == Last(OpenAt(b)[q]) IN
         /\ p \in 1..Len(b) /\ b[p].op \in Openers /\ Directly(b, p, q)
         /\ Len(OpenAt(b)[q]) \in 1..Len(OpenAt(b)[q]) /\ p = OpenAt(b)[q][Len(OpenAt(b)[q])]
         /\ Len(OpenAt(b)[q]) \in Nat
<1> DEFINE s == OpenAt(b)[q]
           l == Len(s)
           p == s[l]
<1>1. q \in 1 .. Len(b) + 1
  OBVIOUS
<1>2. /\ s \in Seq(1 .. q - 1) /\ l \in Nat
      /\ \A j \in 1..l : s[j] \in 1 .. q - 1 /\ s[j] \in 1..Len(b)
                         /\ b[s[j]].op \in Openers /\ Len(OpenAt(b)[s[j]]) = j - 1
  BY <1>1, OpenBlocks
<1>3. NestedAt(OpenAt(b), b, q)
  BY <1>1, Nested
<1>4. l \in 1..l
  BY <1>2, EmptySeq
<1>5. \A m \in 1 .. l - 1 : OpenAt(b)[s[l]][m] = s[m]
  BY <1>3, <1>4 DEF NestedAt
<1>6. Last(s) = p
  BY DEF Last
<1> HIDE DEF l, s
<1>7. /\ p \in 1 .. q - 1 /\ p \in 1..Len(b) /\ b[p].op \in Openers /\ Len(OpenAt(b)[p]) = l - 1
  BY <1>2, <1>4
<1> HIDE DEF p
<1> DEFINE t == OpenAt(b)[p]
           w == Append(t, p)
<1>8. p \in 1 .. Len(b) + 1 /\ p \in Nat
  BY <1>7
<1>9. t \in Seq(1 .. p - 1)
  BY <1>8, OpenBlocks
<1>10. t \in Seq(Nat)
  <2>1. 1 .. p - 1 \subseteq Nat
    BY <1>8
  <2> HIDE DEF t
  <2> QED
    BY <1>9, <2>1, SeqMonotonic
<1> HIDE DEF t
<1>11. /\ w \in Seq(Nat) /\ Len(w) = Len(t) + 1 /\ w[Len(t) + 1] = p
       /\ \A i \in 1..Len(t) : w[i] = t[i]
  BY <1>8, <1>10, AppendOk
<1> HIDE DEF w
<1>12. Len(w) = l /\ \A m \in 1..Len(w) : w[m] = s[m]
  <2>1. Len(t) = l - 1 /\ \A m \in 1 .. l - 1 : t[m] = s[m]
    BY <1>5, <1>7 DEF t, p
  <2>2. Len(t) + 1 = l /\ s[l] = p
    BY <1>2, <2>1 DEF p
  <2> QED
    BY <1>2, <1>11, <2>1, <2>2
<1>13. s = w
  BY <1>2, <1>11, <1>12, SameSequence DEF l
<1>14. q \in p + 1 .. Len(b)
  BY <1>7
<1>15. Directly(b, p, q)
  BY <1>13, <1>14 DEF Directly, s, w, t
<1> QED
  BY <1>2, <1>4, <1>6, <1>7, <1>15 DEF s, l, p

\* The end of a block is the one that is directly inside it.
LEMMA EndIsDirect ==
  ASSUME NEW b, BodyOk(b, <<>>, TRUE), NEW p \in 1..Len(b), b[p].op \in Openers,
         NEW q, Directly(b, p, q)
  PROVE  q < b[p].end /\ (b[q].op = "end" => q + 1 = b[p].end)
<1> DEFINE e == b[p].end
           r == e - 1
           m == Len(OpenAt(b)[p])
<1>1. e \in Nat \ {0} /\ Directly(b, p, r) /\ b[r].op = "end" /\ Len(b) \in Nat
  BY CompleteBody DEF Closed
<1> HIDE DEF e, r
<1>2. Encloses(b, m, p, q) /\ Encloses(b, m, p, r)
  BY <1>1, InsideUntilEnd
<1> HIDE DEF m
<1>3. /\ m \in Nat /\ q \in p + 1 .. Len(b) /\ r \in p + 1 .. Len(b)
      /\ \A i \in p + 1 .. q : m + 1 <= Len(OpenAt(b)[i])
      /\ \A i \in p + 1 .. r : m + 1 <= Len(OpenAt(b)[i])
      /\ b[q].op = "end" => Len(OpenAt(b)[q + 1]) = m
      /\ Len(OpenAt(b)[r + 1]) = m
  BY <1>1, <1>2 DEF Encloses
<1>4. r + 1 = e
  BY <1>1 DEF r
<1>5. ~ m + 1 <= m
  BY <1>3
<1>6. e \notin p + 1 .. q /\ (b[q].op = "end" => q + 1 \notin p + 1 .. r)
  BY <1>3, <1>4, <1>5
<1>7. q < e
  BY <1>1, <1>3, <1>4, <1>6
<1>8. b[q].op = "end" => q + 1 = e
  BY <1>1, <1>3, <1>4, <1>6, <1>7
<1> QED
  BY <1>7, <1>8 DEF e

\* pop_ctrl finds the results of the block on what is under it, and nothing
\* else.
LEMMA ResultsOnTop ==
  ASSUME NEW c, Live(c), Typed(c), CanPopCtrl(c), Last(c.ctrls).outs \in Seq(BodyType),
         NEW u, Len(u) = Last(c.ctrls).height, \A m \in 1..Len(u) : c.stack[m] = u[m]
  PROVE  Joins(c.stack, u, Last(c.ctrls).outs)
<1> DEFINE ts == Last(c.ctrls).outs
           k == Len(ts)
           v == Popped(c, k)
           h == Last(c.ctrls).height
<1>1. k \in Nat /\ DOMAIN ts = 1..k
  BY LenProperties
<1>2. HasOperands(c, k) /\ CanPop(c, ts) /\ Avail(c) <= k
  BY DEF CanPopCtrl, CanPop
<1>3. k <= Avail(c)
  BY <1>1, <1>2, PopCount
<1>4. Pops(c, ts, v)
  BY <1>2, PopTyped
<1>5. h \in Nat /\ Avail(c) = Len(c.stack) - h
  BY CheckerParts DEF Live, Avail
<1>6. /\ Joins(c.stack, v.stack, ts) /\ Len(v.stack) \in Nat /\ Len(c.stack) \in Nat
  BY <1>4 DEF Pops
<1> DEFINE n == Avail(c)
<1> HIDE DEF ts, k, v, h, n
<1>7. Len(v.stack) = Len(u) /\ Len(c.stack) = Len(u) + k
  <2>1. n = k
    <3>1. n \in Int /\ n <= k /\ k <= n
      BY <1>2, <1>3, <1>5, <1>6 DEF n
    <3> QED
      BY <1>1, <3>1
  <2>2. k = Len(c.stack) - h /\ Len(u) = h
    BY <1>5, <2>1 DEF h, n
  <2>3. Len(c.stack) = Len(v.stack) + k
    BY <1>6 DEF Joins, k
  <2> DEFINE x == Len(c.stack)
             y == Len(v.stack)
             z == Len(u)
  <2>4. /\ x \in Nat /\ y \in Nat /\ h \in Nat /\ k \in Nat
        /\ k = x - h /\ z = h /\ x = y + k
    BY <1>1, <1>5, <1>6, <2>2, <2>3
  <2> HIDE DEF x, y, z
  <2>5. y = z /\ x = z + k
    BY <2>4
  <2> QED
    BY <2>5 DEF x, y, z
<1>8. \A m \in 1..Len(ts) : c.stack[Len(u) + m] = ts[m]
  BY <1>6, <1>7 DEF Joins
<1>9. Joins(c.stack, u, ts)
  BY <1>7, <1>8 DEF Joins, k
<1> QED
  BY <1>9 DEF ts

\* At the end of an arm the results are there, and the block goes on past its
\* end with them.
LEMMA ArmDone ==
  ASSUME NEW f, NEW b, NEW cs, Whole(f, b, cs), NEW q \in 1..Len(b),
         b[q].op \in {"else", "end"}, OpenAt(b)[q] # <<>>, Typed(cs[q]),
         Typed(cs[Last(OpenAt(b)[q])])
  PROVE  LET p == Last(OpenAt(b)[q])
             t == IF b[q].op = "else" THEN b[q].end ELSE q + 1
         IN /\ p \in 1..Len(b) /\ b[p].op \in Openers
            /\ t \in 1..Len(b) /\ OpenAt(b)[t] = OpenAt(b)[p]
            /\ Len(cs[t].ctrls) = Len(cs[p].ctrls) /\ Typed(cs[t])
            /\ cs[t].stack = cs[q].stack
<1> DEFINE p == Last(OpenAt(b)[q])
           u == Under(cs[p], b[p])
           l == Len(cs[p].ctrls)
           t == IF b[q].op = "else" THEN b[q].end ELSE q + 1
           outs == Types[b[p].bt].outs
<1>1. BodyOk(b, <<>>, TRUE) /\ Len(b) \in Nat
  BY PlaceFacts DEF Whole
<1>2. p \in 1..Len(b) /\ b[p].op \in Openers /\ Directly(b, p, q)
  BY <1>1, LastIsDirect
<1> HIDE DEF p
<1>3. Typed(cs[p])
  BY DEF p
<1>4. Resumes(b, cs, p, b[p].end, outs)
  BY <1>2, <1>3, EndResumes
<1>5. t = b[p].end
  <2>1. CASE b[q].op = "end"
    <3>1. q + 1 = b[p].end
      BY <1>1, <1>2, <2>1, EndIsDirect
    <3> QED
      BY <2>1, <3>1
  <2>2. CASE b[q].op = "else"
    <3>1. b[p].op = "if" /\ b[p].else_ = q + 1
      BY <1>1, <2>2, CompleteBody DEF p
    <3>2. b[p].else_ = b[p].end \/ HasElse(b, p)
      BY <1>1, <1>2, <3>1, CompleteBody
    <3>3. b[p].else_ # b[p].end
      <4>1. Closed(b, p)
        BY <1>1, <1>2, CompleteBody
      <4>2. b[p].end \in Nat /\ b[b[p].end - 1].op = "end"
        BY <4>1 DEF Closed
      <4> SUFFICES ASSUME b[p].end = q + 1
                   PROVE  FALSE
        BY <3>1
      <4>3. b[p].end - 1 = q
        OBVIOUS
      <4> QED
        BY <2>2, <4>2, <4>3
    <3>4. b[b[p].else_ - 1].end = b[p].end
      BY <3>2, <3>3 DEF HasElse
    <3>5. b[p].else_ - 1 = q
      BY <3>1
    <3> QED
      BY <2>2, <3>4, <3>5
  <2> QED
    BY <2>1, <2>2
<1>6. b[p].bt \in DOMAIN Types /\ u \in Seq(BodyType) /\ Len(u) \in Nat
  BY <1>2, <1>3, OpenerPops
<1>7. outs \in Seq(BodyType)
  BY <1>6, BlockTypes
<1>8. Joins(cs[q].stack, u, outs)
  <2>1. /\ \A m \in 1..Len(u) : cs[q].stack[m] = u[m]
        /\ Last(cs[q].ctrls).height = Len(u) /\ Last(cs[q].ctrls).outs = outs
    BY <1>2, <1>3, InnerBlock
  <2>2. Live(cs[q]) /\ Accepts(f, cs[q], b[q])
    BY PlaceFacts
  <2>3. CanPopCtrl(cs[q])
    BY <2>2 DEF Accepts, Openers
  <2> HIDE DEF u, outs
  <2> QED
    BY <1>7, <2>1, <2>2, <2>3, ResultsOnTop
<1> HIDE DEF u, outs, l, t
<1>9. cs[t].stack = cs[q].stack
  <2> DEFINE x == cs[t].stack
             y == cs[q].stack
  <2>1. x \in Seq(BodyType) /\ y \in Seq(BodyType) /\ Joins(x, u, outs) /\ Joins(y, u, outs)
    BY <1>4, <1>5, <1>8 DEF Resumes, Typed, u
  <2> HIDE DEF x, y
  <2>2. x = u \o outs /\ y = u \o outs
    BY <1>6, <1>7, <2>1, JoinTyped DEF u
  <2> QED
    BY <2>2 DEF x, y
<1> QED
  BY <1>2, <1>4, <1>5, <1>9 DEF Resumes, p, t

\* The last end of a body: nothing but its results is on the stack.
LEMMA BodyDone ==
  ASSUME NEW f, NEW b, NEW cs, Whole(f, b, cs), NEW q \in 1..Len(b),
         b[q].op = "end", OpenAt(b)[q] = <<>>, Typed(cs[q])
  PROVE  /\ q = Len(b) /\ cs[q].stack = FuncTypeOf(f).outs /\ Len(cs[q].ctrls) = 1
         /\ cs[q + 1] = [stack |-> FuncTypeOf(f).outs, ctrls |-> <<>>]
<1> DEFINE outs == FuncTypeOf(f).outs
           c == cs[q]
<1>1. q = Len(b)
  BY CompleteBody DEF Whole
<1>2. cs[q + 1] = [stack |-> outs, ctrls |-> <<>>]
  BY <1>1, EndFacts
<1>3. /\ StateOk(f, b, cs, q) /\ Live(c) /\ Accepts(f, c, b[q])
      /\ Len(c.ctrls) = Len(OpenAt(b)[q]) + 1 /\ f \in DOMAIN Funcs
  <2>1. StateOk(f, b, cs, q) /\ Live(c)
    BY PlaceFacts
  <2>2. Accepts(f, c, b[q])
    BY PlaceFacts
  <2>3. Len(c.ctrls) = Len(OpenAt(b)[q]) + 1
    BY <2>1 DEF StateOk
  <2>4. f \in DOMAIN Funcs
    BY PlaceFacts
  <2> QED
    BY <2>1, <2>2, <2>3, <2>4
<1>4. Len(c.ctrls) = 1
  BY <1>3, EmptySeq
<1>5. Last(c.ctrls) = c.ctrls[1]
  BY <1>4 DEF Last
<1>6. Last(c.ctrls).height = 0 /\ Last(c.ctrls).outs = outs
  BY <1>3, <1>5 DEF StateOk
<1>7. CanPopCtrl(c)
  BY <1>3 DEF Accepts, Openers
<1>8. outs \in Seq(BodyType) /\ <<>> \in Seq(BodyType) /\ Len(<<>>) = 0
  BY <1>3, FunctionTypes, EmptySeq
<1> HIDE DEF c, outs
<1>9. Joins(c.stack, <<>>, outs)
  <2>1. Len(<<>>) = Last(c.ctrls).height /\ \A m \in 1..Len(<<>>) : c.stack[m] = <<>>[m]
    BY <1>6, <1>8
  <2>2. Last(c.ctrls).outs \in Seq(BodyType) /\ Typed(c)
    BY <1>6, <1>8 DEF c
  <2>3. Joins(c.stack, <<>>, Last(c.ctrls).outs)
    BY <1>3, <1>7, <2>1, <2>2, ResultsOnTop
  <2> QED
    BY <1>6, <2>3
<1>10. c.stack = outs
  <2>1. c.stack \in Seq(BodyType)
    BY DEF Typed, c
  <2>2. Len(outs) \in Nat
    BY <1>8, LenProperties
  <2>3. Len(c.stack) = Len(outs)
    BY <1>8, <1>9, <2>2 DEF Joins
  <2>4. \A m \in 1..Len(c.stack) : c.stack[m] = outs[m]
    <3> TAKE m \in 1..Len(c.stack)
    <3>1. m \in 1..Len(outs) /\ 0 + m = m
      BY <2>3
    <3>2. c.stack[0 + m] = outs[m]
      BY <1>8, <1>9, <3>1 DEF Joins
    <3> QED
      BY <3>1, <3>2
  <2> QED
    BY <1>8, <2>1, <2>3, <2>4, SameSequence
<1> QED
  BY <1>1, <1>2, <1>4, <1>10 DEF c, outs

-----------------------------------------------------------------------------
(* Steps of the top frame: control.                                        *)

\* A frame that goes on elsewhere.
LEMMA MovedFrame ==
  ASSUME NEW fr \in FrameType, TypesOf(fr.locals) = LocalsOf(fr.fn), NEW t \in Nat
  PROVE  Moves(fr, [fr EXCEPT !.pc = t], t)
<1> DEFINE fr2 == [fr EXCEPT !.pc = t]
<1>1. fr2 = [fn |-> fr.fn, locals |-> fr.locals, pc |-> t, base |-> fr.base,
             ctrl_base |-> fr.ctrl_base, results |-> fr.results]
  BY DEF FrameType
<1>2. fr2 \in FrameType
  BY <1>1 DEF FrameType
<1> HIDE DEF fr2
<1>3. Moves(fr, fr2, t)
  BY <1>1, <1>2 DEF Moves
<1> QED
  BY <1>3 DEF fr2

\* A sequence up to its length.
LEMMA WholePrefix ==
  ASSUME NEW S, NEW s \in Seq(S)
  PROVE  SubSeq(s, 1, Len(s)) = s
<1>1. Len(s) \in Nat /\ Len(s) \in 0..Len(s)
  BY LenProperties
<1> DEFINE x == SubSeq(s, 1, Len(s))
<1>2. x \in Seq(S) /\ Len(x) = Len(s) /\ \A m \in 1..Len(s) : x[m] = s[m]
  BY <1>1, PrefixOk
<1> HIDE DEF x
<1>3. x = s
  BY <1>2, SameSequence
<1> QED
  BY <1>3 DEF x

\* Nothing on top.
LEMMA JoinsNone ==
  ASSUME NEW s, Len(s) \in Nat
  PROVE  Joins(s, s, <<>>) /\ HasTypes(<<>>, <<>>)
<1>1. Len(<<>>) = 0 /\ <<>> \in Seq(ValueType) /\ <<>> \in Seq(BodyType)
  BY EmptySeq
<1>2. Joins(s, s, <<>>)
  BY <1>1 DEF Joins
<1>3. HasTypes(<<>>, <<>>)
  BY <1>1 DEF HasTypes
<1> QED
  BY <1>2, <1>3

\* Arriving with the values that are there, without the topmost.
LEMMA CutTo ==
  ASSUME NEW fr, NEW fr2, NEW t, NEW b, NEW cs, Whole(fr.fn, b, cs), NEW st \in Seq(ValueType),
         NEW ct \in Seq(EntryType), Top(fr, b, cs, st, ct), Moves(fr, fr2, t),
         t \in 1 .. Len(b) + 1, Typed(cs[t]),
         NEW k \in 0..Len(st), ValuesOk(cs[t].stack, 0, st, fr.base, k),
         NEW ct2 \in Seq(EntryType),
         EntriesOk(fr.fn, b, cs, t, fr.base, ct2, fr.ctrl_base, Len(ct2)),
         fr.ctrl_base <= Len(ct2), \A m \in 1..fr.ctrl_base : ct2[m] = ct[m]
  PROVE  TopStep(fr, fr2, b, cs, st, SubSeq(st, 1, k), ct, ct2)
<1> DEFINE u == cs[t].stack
           w == SubSeq(st, 1, k)
<1>1. /\ fr \in FrameType /\ Len(b) \in Nat /\ fr.results = Len(FuncTypeOf(fr.fn).outs)
  BY TopFacts
<1>2. Len(u) \in Nat
  BY LenProperties DEF Typed
<1>3. Joins(u, u, <<>>) /\ HasTypes(<<>>, <<>>)
  BY <1>2, JoinsNone
<1>4. w \in Seq(ValueType)
  BY PrefixOk
<1>5. Over(st, k, <<>>) = w
  <2> HIDE DEF w
  <2>1. w \o <<>> = w
    BY <1>4, ConcatEmptySeq
  <2> QED
    BY <2>1 DEF Over, w
<1> HIDE DEF u, w
<1>6. /\ ValuesOk(u, 0, st, fr.base, k) /\ Joins(cs[t].stack, u, <<>>)
  BY <1>3 DEF u
<1>7. TopStep(fr, fr2, b, cs, st, Over(st, k, <<>>), ct, ct2)
  BY <1>1, <1>2, <1>3, <1>6, Arrive
<1> QED
  BY <1>5, <1>7 DEF w

\* Arriving with all of them.
LEMMA Stays ==
  ASSUME NEW fr, NEW fr2, NEW t, NEW b, NEW cs, Whole(fr.fn, b, cs), NEW st \in Seq(ValueType),
         NEW ct \in Seq(EntryType), Top(fr, b, cs, st, ct), Moves(fr, fr2, t),
         t \in 1 .. Len(b) + 1, Typed(cs[t]), cs[t].stack = cs[fr.pc].stack,
         NEW ct2 \in Seq(EntryType),
         EntriesOk(fr.fn, b, cs, t, fr.base, ct2, fr.ctrl_base, Len(ct2)),
         fr.ctrl_base <= Len(ct2), \A m \in 1..fr.ctrl_base : ct2[m] = ct[m]
  PROVE  TopStep(fr, fr2, b, cs, st, st, ct, ct2)
<1> DEFINE k == Len(st)
<1>1. ValuesOk(cs[t].stack, 0, st, fr.base, Len(st)) /\ Len(st) \in Nat
  BY TopFacts
<1>2. k \in 0..Len(st) /\ SubSeq(st, 1, k) = st
  BY <1>1, WholePrefix
<1>3. ValuesOk(cs[t].stack, 0, st, fr.base, k)
  BY <1>1
<1> HIDE DEF k
<1>4. TopStep(fr, fr2, b, cs, st, SubSeq(st, 1, k), ct, ct2)
  BY <1>2, <1>3, CutTo
<1> QED
  BY <1>2, <1>4

\* Where an arm ends, the frame leaves the block.
LEMMA ArmMove ==
  ASSUME NEW fr, NEW fr2, NEW b, NEW cs, Whole(fr.fn, b, cs), NEW st \in Seq(ValueType),
         NEW ct \in Seq(EntryType), Top(fr, b, cs, st, ct), NEW q \in 1..Len(b), fr.pc = q,
         b[q].op \in {"else", "end"}, OpenAt(b)[q] # <<>>,
         Moves(fr, fr2, IF b[q].op = "else" THEN b[q].end ELSE q + 1)
  PROVE  TopStep(fr, fr2, b, cs, st, st, ct, Front(ct))
<1> DEFINE s == OpenAt(b)[q]
           l == Len(s)
           p == s[l]
           lo == fr.ctrl_base
           t == IF b[q].op = "else" THEN b[q].end ELSE q + 1
           cu == SubSeq(ct, 1, lo + l)
<1>1. /\ Len(b) \in Nat /\ lo \in Nat /\ Typed(cs[q])
      /\ EntriesOk(fr.fn, b, cs, q, fr.base, ct, lo, Len(ct)) /\ Len(ct) \in Nat
  BY TopFacts
<1>2. l \in 1..l /\ p = Last(s) /\ l \in Nat
  BY <1>1, LastIsDirect
<1>3. OuterOk(fr.fn, b, cs, q, fr.base, ct, lo, l, p)
  BY <1>1, <1>2, EntriesDown
<1>4. Len(ct) = lo + (l + 1)
  BY <1>1, PlaceFacts DEF EntriesOk
<1>5. Front(ct) = cu
  <2>1. Len(ct) - 1 = lo + l
    BY <1>1, <1>2, <1>4
  <2> QED
    BY <2>1 DEF Front
<1> HIDE DEF p, t, s, l, cu, lo
<1>6. /\ p \in 1..Len(b) /\ Typed(cs[p]) /\ cu \in Seq(EntryType) /\ Len(cu) = lo + l
      /\ \A m \in 1 .. lo + l : cu[m] = ct[m]
      /\ EntriesOk(fr.fn, b, cs, p, fr.base, cu, lo, lo + l)
  BY <1>3 DEF OuterOk, cu
<1>7. /\ t \in 1..Len(b) /\ OpenAt(b)[t] = OpenAt(b)[p]
      /\ Len(cs[t].ctrls) = Len(cs[p].ctrls) /\ Typed(cs[t])
      /\ cs[t].stack = cs[q].stack
  <2>1. Typed(cs[Last(OpenAt(b)[q])]) /\ p = Last(OpenAt(b)[q])
    BY <1>2, <1>6 DEF s
  <2> QED
    BY <1>1, <2>1, ArmDone DEF t
<1>8. EntriesOk(fr.fn, b, cs, t, fr.base, cu, lo, Len(cu))
  <2>1. cs[p].ctrls # <<>>
    BY <1>6, PlaceFacts DEF Live
  <2> QED
    BY <1>6, <1>7, <2>1, EntriesSame
<1>9. lo <= Len(cu) /\ \A m \in 1..lo : cu[m] = ct[m]
  BY <1>1, <1>2, <1>6
<1>10. Moves(fr, fr2, t) /\ t \in 1 .. Len(b) + 1
  BY <1>1, <1>7 DEF t
<1>11. TopStep(fr, fr2, b, cs, st, st, ct, cu)
  BY <1>6, <1>7, <1>8, <1>9, <1>10, Stays DEF lo
<1> QED
  BY <1>5, <1>11

\* The last end drops the entry of the function.
LEMMA FinalMove ==
  ASSUME NEW fr, NEW fr2, NEW b, NEW cs, Whole(fr.fn, b, cs), NEW st \in Seq(ValueType),
         NEW ct \in Seq(EntryType), Top(fr, b, cs, st, ct), NEW q \in 1..Len(b), fr.pc = q,
         b[q].op = "end", OpenAt(b)[q] = <<>>, Moves(fr, fr2, q + 1)
  PROVE  TopStep(fr, fr2, b, cs, st, st, ct, Front(ct))
<1> DEFINE lo == fr.ctrl_base
           outs == FuncTypeOf(fr.fn).outs
           cu == Front(ct)
<1>1. /\ Len(b) \in Nat /\ lo \in Nat /\ Typed(cs[q])
      /\ EntriesOk(fr.fn, b, cs, q, fr.base, ct, lo, Len(ct)) /\ Len(ct) \in Nat
  BY TopFacts
<1>2. /\ cs[q].stack = outs /\ Len(cs[q].ctrls) = 1
      /\ cs[q + 1] = [stack |-> outs, ctrls |-> <<>>]
  BY <1>1, BodyDone
<1> HIDE DEF outs
<1>3. cs[q + 1].stack = cs[q].stack /\ cs[q + 1].ctrls = <<>> /\ Len(<<>>) = 0
  BY <1>2, EmptySeq
<1>4. Typed(cs[q + 1])
  <2>1. Alive(cs[q + 1])
    BY <1>3 DEF Alive
  <2> QED
    BY <1>1, <1>3, <2>1 DEF Typed
<1>5. Len(ct) = lo + 1
  BY <1>1, <1>2 DEF EntriesOk
<1>6. /\ cu \in Seq(EntryType) /\ Len(cu) = lo /\ \A m \in 1..lo : cu[m] = ct[m]
  <2>1. ct # <<>> /\ Len(ct) - 1 = lo
    BY <1>1, <1>5, EmptySeq
  <2>2. /\ cu \in Seq(EntryType) /\ Len(cu) = Len(ct) - 1
        /\ \A i \in 1 .. Len(ct) - 1 : cu[i] = ct[i]
    BY <2>1, FrontOk
  <2> QED
    BY <2>1, <2>2
<1> HIDE DEF lo, cu
<1>7. EntriesOk(fr.fn, b, cs, q + 1, fr.base, cu, lo, Len(cu))
  BY <1>1, <1>3, <1>6 DEF EntriesOk
<1>8. q + 1 \in 1 .. Len(b) + 1 /\ lo <= Len(cu)
  BY <1>1, <1>6
<1>9. TopStep(fr, fr2, b, cs, st, st, ct, cu)
  BY <1>3, <1>4, <1>6, <1>7, <1>8, Stays DEF lo
<1> QED
  BY <1>9 DEF cu

\* A stack with one value more than another.
LEMMA OneMore ==
  ASSUME NEW s, NEW w, NEW u, NEW ts \in Seq(BodyType), NEW x \in BodyType,
         Joins(s, u, Append(ts, x)), Joins(w, u, ts), Len(u) \in Nat
  PROVE  Joins(s, w, <<x>>) /\ Len(w) \in Nat /\ Len(<<x>>) = 1
<1> DEFINE y == Append(ts, x)
<1>1. /\ Len(ts) \in Nat /\ Len(y) = Len(ts) + 1 /\ y[Len(ts) + 1] = x
      /\ \A i \in 1..Len(ts) : y[i] = ts[i]
  BY AppendOk
<1> HIDE DEF y
<1>2. Joins(s, u, y)
  BY DEF y
<1>3. Len(w) = Len(u) + Len(ts) /\ Len(s) = Len(u) + (Len(ts) + 1)
  BY <1>1, <1>2 DEF Joins
<1>4. Len(w) \in Nat /\ Len(s) = Len(w) + 1
  BY <1>1, <1>3
<1>5. s[Len(w) + 1] = x
  <2>1. Len(ts) + 1 \in 1..Len(y) /\ Len(w) + 1 = Len(u) + (Len(ts) + 1)
    BY <1>1, <1>3
  <2>2. s[Len(u) + (Len(ts) + 1)] = y[Len(ts) + 1]
    BY <1>2, <2>1 DEF Joins
  <2> QED
    BY <1>1, <2>1, <2>2
<1>6. ASSUME NEW m \in 1..Len(w)
      PROVE  s[m] = w[m]
  <2>1. CASE m <= Len(u)
    BY <1>2, <2>1 DEF Joins
  <2>2. CASE ~ m <= Len(u)
    <3> DEFINE i == m - Len(u)
    <3>1. i \in 1..Len(ts) /\ i \in 1..Len(y) /\ m = Len(u) + i
      BY <1>1, <1>3, <2>2
    <3> HIDE DEF i
    <3>2. s[Len(u) + i] = y[i] /\ w[Len(u) + i] = ts[i]
      BY <1>2, <3>1 DEF Joins
    <3> QED
      BY <1>1, <3>1, <3>2
  <2> QED
    BY <2>1, <2>2
<1>7. Len(<<x>>) = 1 /\ <<x>>[1] = x
  OBVIOUS
<1>8. Joins(s, w, <<x>>)
  BY <1>4, <1>5, <1>6, <1>7 DEF Joins
<1> QED
  BY <1>4, <1>7, <1>8

\* The entry pushed for an opener is its block's.
LEMMA EntryIs ==
  ASSUME NEW fr, NEW b, NEW cs, Whole(fr.fn, b, cs), NEW st \in Seq(ValueType),
         NEW ct \in Seq(EntryType), Top(fr, b, cs, st, ct), NEW p \in 1..Len(b), fr.pc = p,
         b[p].op \in Openers
  PROVE  Entry(b, cs, fr.base, p) =
           [target |-> IF b[p].op = "loop" THEN p ELSE b[p].end,
            arity |-> Len(LabelOf(b[p])), height |-> Len(st) - Taken(b[p])]
<1> DEFINE u == Under(cs[p], b[p])
           k == Taken(b[p])
<1>1. /\ Len(st) = fr.base + Len(u) + k /\ k \in Nat
  <2>1. Len(st) = fr.base + Len(Under(cs[p], b[p])) + Taken(b[p])
    BY UnderHere
  <2>2. Taken(b[p]) \in Nat
    BY UnderHere
  <2> QED
    BY <2>1, <2>2
<1>2. fr.base \in Nat /\ Len(u) \in Nat
  <2>1. fr.base \in Nat /\ Typed(cs[p])
    BY TopFacts
  <2>2. Len(u) \in Nat
    BY <2>1, OpenerPops
  <2> QED
    BY <2>1, <2>2
<1> DEFINE n == fr.base
<1> HIDE DEF u, k, n
<1>3. fr.base + Len(u) = Len(st) - k
  <2>1. n + Len(u) = Len(st) - k
    BY <1>1, <1>2 DEF n
  <2> QED
    BY <2>1 DEF n
<1> QED
  BY <1>3 DEF Entry, u, k

\* A frame that enters a block, after it took the condition of an if.
LEMMA EnterMove ==
  ASSUME NEW fr, NEW fr2, NEW b, NEW cs, Whole(fr.fn, b, cs), NEW st \in Seq(ValueType),
         NEW ct \in Seq(EntryType), Top(fr, b, cs, st, ct), NEW p \in 1..Len(b), fr.pc = p,
         b[p].op \in Openers, NEW t, Enters(b, cs, p, t), Moves(fr, fr2, t)
  PROVE  TopStep(fr, fr2, b, cs, st,
                 IF b[p].op = "if" THEN SubSeq(st, 1, Len(st) - 1) ELSE st,
                 ct, Append(ct, Entry(b, cs, fr.base, p)))
<1> DEFINE u == Under(cs[p], b[p])
           ct2 == Append(ct, Entry(b, cs, fr.base, p))
           ins == Types[b[p].bt].ins
           s == cs[p].stack
           w == cs[t].stack
<1>1. /\ fr.base \in Nat /\ fr.ctrl_base \in Nat /\ Len(b) \in Nat /\ Typed(cs[p])
      /\ EntriesOk(fr.fn, b, cs, p, fr.base, ct, fr.ctrl_base, Len(ct))
      /\ ValuesOk(s, 0, st, fr.base, Len(st)) /\ Len(st) \in Nat /\ Len(ct) \in Nat
  BY TopFacts
<1>2. /\ ct2 \in Seq(EntryType) /\ fr.ctrl_base <= Len(ct) /\ fr.ctrl_base <= Len(ct2)
      /\ \A m \in 1..Len(ct) : ct2[m] = ct[m]
      /\ EntriesOk(fr.fn, b, cs, t, fr.base, ct2, fr.ctrl_base, Len(ct2))
  BY <1>1, EntriesUp
<1> HIDE DEF ct2
<1>3. \A m \in 1..fr.ctrl_base : ct2[m] = ct[m]
  BY <1>1, <1>2
<1>4. t \in 1 .. Len(b) + 1 /\ Typed(cs[t]) /\ Joins(w, u, ins)
  BY <1>1 DEF Enters
<1>5. b[p].bt \in DOMAIN Types /\ Joins(s, u, Operands(b[p])) /\ Len(u) \in Nat
      /\ u \in Seq(BodyType)
  BY <1>1, OpenerPops
<1>6. ins \in Seq(BodyType) /\ "i32" \in BodyType
  BY <1>5, BlockTypes DEF BodyType
<1>7. CASE b[p].op = "if"
  <2>1. Operands(b[p]) = Append(ins, "i32")
    BY <1>7 DEF Operands
  <2> DEFINE n == Len(st) - 1
             lo == fr.base
  <2> HIDE DEF u, ins, s, w, lo
  <2>2. Joins(s, w, <<"i32">>) /\ Len(w) \in Nat /\ Len(<<"i32">>) = 1
    BY <1>4, <1>5, <1>6, <2>1, OneMore
  <2>3. lo \in Nat /\ ValuesOk(s, 0, st, lo, Len(st)) /\ Len(<<"i32">>) \in Nat
    BY <1>1, <2>2 DEF lo
  <2> DEFINE ts == <<"i32">>
  <2>4. Len(ts) = 1 /\ Joins(s, w, ts)
    BY <2>2
  <2> HIDE DEF ts
  <2>5. ValuesOk(w, 0, st, lo, Len(st) - Len(ts)) /\ Len(st) - Len(ts) \in 0..Len(st)
    BY <1>1, <2>2, <2>3, <2>4, ValuesCut
  <2>6. n \in 0..Len(st) /\ ValuesOk(w, 0, st, lo, n)
    BY <2>4, <2>5
  <2> HIDE DEF n
  <2>7. TopStep(fr, fr2, b, cs, st, SubSeq(st, 1, n), ct, ct2)
    BY <1>2, <1>3, <1>4, <2>6, CutTo DEF w, lo
  <2> QED
    BY <1>7, <2>7 DEF n, ct2
<1>8. CASE b[p].op # "if"
  <2>1. Operands(b[p]) = ins
    BY <1>8 DEF Operands
  <2> HIDE DEF u, ins, s, w
  <2>2. s \in Seq(BodyType) /\ w \in Seq(BodyType)
    BY <1>1, <1>4 DEF Typed, s, w
  <2>3. s = u \o ins /\ w = u \o ins
    BY <1>4, <1>5, <1>6, <2>1, <2>2, JoinTyped
  <2>4. cs[t].stack = cs[fr.pc].stack
    BY <2>3 DEF s, w
  <2>5. TopStep(fr, fr2, b, cs, st, st, ct, ct2)
    BY <1>2, <1>3, <1>4, <2>4, Stays
  <2> QED
    BY <1>8, <2>5 DEF ct2
<1> QED
  BY <1>7, <1>8

\* An if without else gives back what it takes.
LEMMA NoElseTypes ==
  ASSUME NEW f, NEW b, NEW cs, Whole(f, b, cs), NEW p \in 1..Len(b), b[p].op = "if",
         b[p].else_ = b[p].end, Typed(cs[p])
  PROVE  Types[b[p].bt].ins = Types[b[p].bt].outs
<1> DEFINE e == b[p].end
           q == e - 1
           ins == Types[b[p].bt].ins
           outs == Types[b[p].bt].outs
           l == Len(cs[p].ctrls)
           r == cs[q].ctrls[l + 1]
           k == Kind(b[p], q)
<1>1. b[p].op \in Openers
  BY DEF Openers
<1>2. /\ q \in p + 1 .. Len(b) /\ Directly(b, p, q) /\ b[q].op = "end"
  BY <1>1, EndResumes
<1>3. q \in 1..Len(b)
  BY <1>2
<1>4. Kind(b[p], q) = "if"
  BY DEF Kind
<1> HIDE DEF q, l, ins, outs, r, k
<1>5. r.ins = ins /\ r.outs = outs /\ r.kind = k /\ Last(cs[q].ctrls) = r
  BY <1>1, <1>2, <1>3, InnerBlock DEF ins, outs, l, r, k
<1>6. Accepts(f, cs[q], b[q])
  BY <1>3, PlaceFacts
<1>7. IfEnds(Last(cs[q].ctrls))
  BY <1>2, <1>6 DEF Accepts, Openers
<1> QED
  BY <1>4, <1>5, <1>7 DEF IfEnds, ins, outs, k

\* An if without else whose condition is zero does nothing: its block gives
\* back what it takes.
LEMMA SkipMove ==
  ASSUME NEW fr, NEW fr2, NEW b, NEW cs, Whole(fr.fn, b, cs), NEW st \in Seq(ValueType),
         NEW ct \in Seq(EntryType), Top(fr, b, cs, st, ct), NEW p \in 1..Len(b), fr.pc = p,
         b[p].op = "if", b[p].else_ = b[p].end, Moves(fr, fr2, b[p].end)
  PROVE  TopStep(fr, fr2, b, cs, st, SubSeq(st, 1, Len(st) - 1), ct, ct)
<1> DEFINE u == Under(cs[p], b[p])
           e == b[p].end
           q == e - 1
           ins == Types[b[p].bt].ins
           outs == Types[b[p].bt].outs
           s == cs[p].stack
           w == cs[e].stack
<1>1. /\ fr.base \in Nat /\ fr.ctrl_base \in Nat /\ Len(b) \in Nat /\ Typed(cs[p])
      /\ EntriesOk(fr.fn, b, cs, p, fr.base, ct, fr.ctrl_base, Len(ct))
      /\ ValuesOk(s, 0, st, fr.base, Len(st)) /\ Len(st) \in Nat /\ fr.ctrl_base <= Len(ct)
  BY TopFacts
<1>2. b[p].op \in Openers
  BY DEF Openers
<1>3. /\ Resumes(b, cs, p, e, outs)
      /\ q \in p + 1 .. Len(b) /\ Directly(b, p, q) /\ b[q].op = "end"
  BY <1>1, <1>2, EndResumes
<1>4. q \in 1..Len(b)
  BY <1>3
<1>5. ins = outs
  BY <1>1, NoElseTypes
<1>6. b[p].bt \in DOMAIN Types /\ Joins(s, u, Operands(b[p])) /\ Len(u) \in Nat
  BY <1>1, <1>2, OpenerPops
<1>7. ins \in Seq(BodyType) /\ "i32" \in BodyType
  BY <1>6, BlockTypes DEF BodyType
<1>8. Operands(b[p]) = Append(ins, "i32")
  BY DEF Operands
<1> HIDE DEF q, e
<1>9. /\ e \in 1 .. Len(b) + 1 /\ Typed(cs[e]) /\ Joins(w, u, ins)
      /\ EntriesOk(fr.fn, b, cs, e, fr.base, ct, fr.ctrl_base, Len(ct))
  <2>1. cs[p].ctrls # <<>>
    BY PlaceFacts DEF Live
  <2>2. /\ e \in 1..Len(b) /\ OpenAt(b)[e] = OpenAt(b)[p]
        /\ Len(cs[e].ctrls) = Len(cs[p].ctrls) /\ Typed(cs[e])
        /\ Joins(cs[e].stack, Under(cs[p], b[p]), outs)
    BY <1>3 DEF Resumes
  <2>3. EntriesOk(fr.fn, b, cs, e, fr.base, ct, fr.ctrl_base, Len(ct))
    BY <1>1, <2>1, <2>2, EntriesSame
  <2> QED
    BY <1>1, <1>5, <2>2, <2>3
<1> DEFINE n == Len(st) - 1
           lo == fr.base
<1> HIDE DEF u, ins, outs, s, w, lo
<1>10. Joins(s, w, <<"i32">>) /\ Len(w) \in Nat /\ Len(<<"i32">>) = 1
  BY <1>6, <1>7, <1>8, <1>9, OneMore
<1> DEFINE ts == <<"i32">>
<1>11. lo \in Nat /\ ValuesOk(s, 0, st, lo, Len(st)) /\ Len(ts) = 1 /\ Joins(s, w, ts)
       /\ Len(ts) \in Nat
  BY <1>1, <1>10 DEF lo
<1> HIDE DEF ts
<1>12. ValuesOk(w, 0, st, lo, Len(st) - Len(ts)) /\ Len(st) - Len(ts) \in 0..Len(st)
  BY <1>1, <1>10, <1>11, ValuesCut
<1>13. n \in 0..Len(st) /\ ValuesOk(w, 0, st, lo, n)
  BY <1>11, <1>12
<1> HIDE DEF n
<1>14. TopStep(fr, fr2, b, cs, st, SubSeq(st, 1, n), ct, ct)
  <2>1. \A m \in 1..fr.ctrl_base : ct[m] = ct[m]
    OBVIOUS
  <2>2. Moves(fr, fr2, e)
    BY DEF e
  <2> QED
    BY <1>1, <1>9, <1>13, <2>1, <2>2, CutTo DEF w, lo
<1> QED
  BY <1>14 DEF n

-----------------------------------------------------------------------------
(* Steps of the top frame: branches.                                       *)

\* The first n values of st have ts on top, above the lo that stay.
Carries(st, n, ts, lo) ==
  /\ n \in 0..Len(st) /\ Len(ts) \in Nat /\ lo \in Nat /\ lo + Len(ts) <= n
  /\ \A m \in 1..Len(ts) : st[n - Len(ts) + m].ty = ts[m]

\* What the checker popped is there.
LEMMA CarriesPops ==
  ASSUME NEW s, NEW u, NEW ts, Joins(s, u, ts), Len(u) \in Nat, Len(ts) \in Nat,
         NEW st, Len(st) \in Nat, NEW base \in Nat, NEW n \in 0..Len(st),
         ValuesOk(s, 0, st, base, n), NEW h \in Nat, h <= Len(u)
  PROVE  Carries(st, n, ts, base + h)
<1>1. Len(s) = Len(u) + Len(ts) /\ n = base + Len(s)
  BY DEF Joins, ValuesOk
<1>2. \A m \in 1..Len(s) : st[base + m].ty = s[m]
  BY <1>1 DEF ValuesOk
<1>3. ASSUME NEW m \in 1..Len(ts)
      PROVE  st[n - Len(ts) + m].ty = ts[m]
  <2>1. Len(u) + m \in 1..Len(s) /\ n - Len(ts) + m = base + (Len(u) + m)
    BY <1>1
  <2>2. s[Len(u) + m] = ts[m]
    BY DEF Joins
  <2> QED
    BY <1>2, <2>1, <2>2
<1>4. base + h \in Nat /\ (base + h) + Len(ts) <= n
  BY <1>1
<1> QED
  BY <1>3, <1>4 DEF Carries

\* The condition on top is left out.
LEMMA CarriesMore ==
  ASSUME NEW st, Len(st) \in Nat, NEW n, NEW ts \in Seq(BodyType), NEW x \in BodyType, NEW lo,
         Carries(st, n, Append(ts, x), lo)
  PROVE  Carries(st, n - 1, ts, lo)
<1> DEFINE y == Append(ts, x)
<1>1. /\ Len(ts) \in Nat /\ Len(y) = Len(ts) + 1
      /\ \A i \in 1..Len(ts) : y[i] = ts[i]
  BY AppendOk
<1> HIDE DEF y
<1>2. /\ n \in 0..Len(st) /\ lo \in Nat /\ lo + Len(y) <= n
      /\ \A m \in 1..Len(y) : st[n - Len(y) + m].ty = y[m]
  BY DEF Carries, y
<1>3. n - 1 \in 0..Len(st) /\ lo + Len(ts) <= n - 1
  BY <1>1, <1>2
<1>4. ASSUME NEW m \in 1..Len(ts)
      PROVE  st[(n - 1) - Len(ts) + m].ty = ts[m]
  <2>1. m \in 1..Len(y) /\ n - Len(y) + m = (n - 1) - Len(ts) + m
    BY <1>1, <1>2
  <2> QED
    BY <1>1, <1>2, <2>1
<1> QED
  BY <1>1, <1>2, <1>3, <1>4 DEF Carries

\* The last n of a sequence.
LEMMA LastOfOk ==
  ASSUME NEW S, NEW s \in Seq(S), NEW n \in 0..Len(s)
  PROVE  /\ LastOf(s, n) \in Seq(S) /\ Len(LastOf(s, n)) = n
         /\ \A m \in 1..n : LastOf(s, n)[m] = s[Len(s) - n + m]
<1>1. Len(s) \in Nat
  BY LenProperties
<1> DEFINE l == Len(s)
           a == l - n + 1
           w == SubSeq(s, a, l)
<1>2. a \in 1 .. l + 1 /\ l - a + 1 = n
  BY <1>1
<1>3. \A i \in a..l : s[i] \in S
  BY <1>1, ElementOfSeq
<1>4. w \in Seq(S) /\ Len(w) = n /\ \A m \in 1..n : w[m] = s[a + m - 1]
  <2> HIDE DEF a
  <2>1. w \in Seq(S) /\ Len(w) = (IF a <= l THEN l - a + 1 ELSE 0)
        /\ \A i \in 1 .. l - a + 1 : w[i] = s[a + i - 1]
    BY <1>1, <1>2, <1>3, SubSeqProperties
  <2>2. l \in Nat /\ a \in 1 .. l + 1 /\ l - a + 1 = n
    BY <1>1, <1>2
  <2> HIDE DEF w, l
  <2>3. Len(w) = n /\ 1 .. l - a + 1 = 1..n
    BY <2>1, <2>2
  <2> QED
    BY <2>1, <2>3
<1> HIDE DEF w
<1>5. ASSUME NEW m \in 1..n
      PROVE  w[m] = s[l - n + m]
  <2>1. a + m - 1 = l - n + m
    BY <1>1
  <2> QED
    BY <1>4, <2>1
<1>6. LastOf(s, n) = w
  BY DEF LastOf, w
<1> QED
  BY <1>4, <1>5, <1>6

\* What do_branch and pop_frame leave when enough is below the values they keep.
LEMMA KeepIs ==
  ASSUME NEW st \in Seq(ValueType), NEW n, NEW ts \in Seq(BodyType), NEW lo,
         Carries(st, n, ts, lo), NEW h \in Nat, h <= lo
  PROVE  LET rs == LastOf(SubSeq(st, 1, n), Len(ts)) IN
         /\ HasTypes(rs, ts) /\ h \in 0..Len(st) /\ Len(SubSeq(st, 1, n)) = n
         /\ Keep(SubSeq(st, 1, n), Len(ts), h) = Over(st, h, rs)
<1> DEFINE w == SubSeq(st, 1, n)
           k == Len(ts)
           rs == LastOf(w, k)
<1>1. /\ n \in 0..Len(st) /\ k \in Nat /\ lo \in Nat /\ lo + k <= n
      /\ \A m \in 1..k : st[n - k + m].ty = ts[m]
  BY DEF Carries
<1>2. Len(st) \in Nat
  BY LenProperties
<1>3. w \in Seq(ValueType) /\ Len(w) = n /\ \A m \in 1..n : w[m] = st[m]
  BY <1>1, PrefixOk
<1> HIDE DEF w, k
<1>4. k \in 0..Len(w) /\ h <= n - k /\ n \in Nat
  BY <1>1, <1>2, <1>3
<1>5. rs \in Seq(ValueType) /\ Len(rs) = k /\ \A m \in 1..k : rs[m] = w[Len(w) - k + m]
  BY <1>3, <1>4, LastOfOk
<1> HIDE DEF rs
<1>6. \A m \in 1..k : rs[m] = st[n - k + m]
  <2> TAKE m \in 1..k
  <2>1. n - k + m \in 1..n
    BY <1>1, <1>4
  <2> QED
    BY <1>3, <1>5, <2>1
<1>7. HasTypes(rs, ts)
  BY <1>1, <1>5, <1>6 DEF HasTypes, k
<1>8. Min({h, n - k}) = h
  <2>1. h \in Int /\ n - k \in Int /\ h <= n - k
    BY <1>1, <1>4
  <2> DEFINE y == n - k
  <2> HIDE DEF y
  <2>2. Min({h, y}) = h
    BY <2>1, MinOfTwo DEF y
  <2> QED
    BY <2>2 DEF y
<1>9. SubSeq(w, 1, h) = SubSeq(st, 1, h)
  <2> DEFINE x == SubSeq(w, 1, h)
             y == SubSeq(st, 1, h)
  <2>0. h \in 0..Len(w) /\ h \in 0..Len(st)
    BY <1>1, <1>2, <1>3, <1>4
  <2>1. x \in Seq(ValueType) /\ Len(x) = h /\ \A m \in 1..h : x[m] = w[m]
    BY <1>3, <2>0, PrefixOk
  <2>2. y \in Seq(ValueType) /\ Len(y) = h /\ \A m \in 1..h : y[m] = st[m]
    BY <2>0, PrefixOk
  <2> HIDE DEF x, y
  <2>3. \A m \in 1..Len(x) : x[m] = y[m]
    <3> TAKE m \in 1..Len(x)
    <3>1. m \in 1..h /\ m \in 1..n
      BY <1>4, <1>1, <2>1
    <3> QED
      BY <1>3, <2>1, <2>2, <3>1
  <2>4. x = y
    BY <2>1, <2>2, <2>3, SameSequence
  <2> QED
    BY <2>4 DEF x, y
<1>10. Keep(w, k, h) = Over(st, h, rs)
  <2>1. Keep(w, k, h) = SubSeq(w, 1, Min({h, Len(w) - k})) \o LastOf(w, k)
    BY DEF Keep
  <2> QED
    BY <1>3, <1>8, <1>9, <2>1 DEF Over, rs
<1>11. h \in 0..Len(st)
  BY <1>1, <1>2, <1>4
<1> QED
  BY <1>3, <1>7, <1>10, <1>11 DEF w, k, rs

\* A frame leaves its results on what its caller had.
Results(st, st2, base, ts) ==
  \E rs : HasTypes(rs, ts) /\ base \in 0..Len(st) /\ st2 = Over(st, base, rs)

\* do_branch and pop_frame leave just the values kept on the base, and a
\* second Keep of as many changes nothing.
LEMMA KeepResults ==
  ASSUME NEW st \in Seq(ValueType), NEW n, NEW ts \in Seq(BodyType), NEW lo,
         Carries(st, n, ts, lo), NEW base \in Nat, base <= lo
  PROVE  LET w == Keep(SubSeq(st, 1, n), Len(ts), base) IN
         /\ Results(st, w, base, ts) /\ Keep(w, Len(ts), base) = w
         /\ Len(w) = base + Len(ts) /\ w \in Seq(ValueType)
<1> DEFINE w == Keep(SubSeq(st, 1, n), Len(ts), base)
           rs == LastOf(SubSeq(st, 1, n), Len(ts))
           k == Len(ts)
<1>1. HasTypes(rs, ts) /\ base \in 0..Len(st) /\ w = Over(st, base, rs)
  BY KeepIs
<1> HIDE DEF rs, w
<1>2. Results(st, w, base, ts)
  BY <1>1 DEF Results
<1>3. rs \in Seq(ValueType) /\ Len(rs) = k /\ \A m \in 1..k : rs[m].ty = ts[m]
  BY <1>1 DEF HasTypes
<1>4. /\ w \in Seq(ValueType) /\ Len(w) = base + Len(rs) /\ Len(rs) \in Nat
      /\ \A m \in 1..Len(rs) : w[base + m] = rs[m]
  BY <1>1, <1>3, OverOk
<1> HIDE DEF k
<1>5. Len(w) = base + k /\ k \in Nat /\ Len(w) \in Nat
  BY <1>3, <1>4
<1>6. Carries(w, Len(w), ts, base)
  <2>1. \A m \in 1..Len(ts) : w[Len(w) - Len(ts) + m].ty = ts[m]
    <3> TAKE m \in 1..Len(ts)
    <3>1. m \in 1..k /\ Len(w) - Len(ts) + m = base + m
      BY <1>5 DEF k
    <3> QED
      BY <1>3, <1>4, <3>1
  <2>2. Len(ts) \in Nat /\ base + Len(ts) <= Len(w) /\ Len(w) \in 0..Len(w)
    BY <1>5 DEF k
  <2> QED
    BY <2>1, <2>2 DEF Carries
<1>7. SubSeq(w, 1, Len(w)) = w
  BY <1>4, WholePrefix
<1> DEFINE r2 == LastOf(w, k)
<1>8. HasTypes(r2, ts) /\ Keep(w, k, base) = Over(w, base, r2)
  <2> DEFINE x == SubSeq(w, 1, Len(w))
             r == LastOf(x, Len(ts))
  <2>1. base <= base
    OBVIOUS
  <2>2. HasTypes(r, ts) /\ Keep(x, Len(ts), base) = Over(w, base, r)
    BY <1>4, <1>6, <2>1, KeepIs
  <2> HIDE DEF x
  <2>3. x = w
    BY <1>7 DEF x
  <2> QED
    BY <2>2, <2>3 DEF k
<1>9. k \in 0..Len(w) /\ Len(w) - k = base
  BY <1>5
<1>10. r2 \in Seq(ValueType) /\ Len(r2) = k /\ \A m \in 1..k : r2[m] = w[base + m]
  BY <1>4, <1>9, LastOfOk
<1> HIDE DEF r2
<1>11. r2 = rs
  <2>1. \A m \in 1..Len(r2) : r2[m] = rs[m]
    BY <1>3, <1>4, <1>10
  <2> QED
    BY <1>3, <1>10, <2>1, SameSequence
<1>12. Over(w, base, rs) = w
  <2> DEFINE z == Over(w, base, rs)
  <2>0. base \in 0..Len(w)
    BY <1>5
  <2>1. /\ z \in Seq(ValueType) /\ Len(z) = base + Len(rs)
        /\ \A m \in 1..base : z[m] = w[m]
        /\ \A m \in 1..Len(rs) : z[base + m] = rs[m]
    BY <1>3, <1>4, <2>0, OverOk
  <2> HIDE DEF z
  <2>2. ASSUME NEW m \in 1..Len(z)
        PROVE  z[m] = w[m]
    <3>1. CASE m <= base
      BY <2>1, <3>1
    <3>2. CASE ~ m <= base
      <4>1. m - base \in 1..Len(rs) /\ base + (m - base) = m
        BY <1>4, <2>1, <3>2
      <4> QED
        BY <1>4, <2>1, <4>1
    <3> QED
      BY <3>1, <3>2
  <2>3. z = w
    BY <1>4, <2>1, <2>2, SameSequence
  <2> QED
    BY <2>3 DEF z
<1>13. Keep(w, k, base) = w
  BY <1>8, <1>11, <1>12
<1> QED
  BY <1>2, <1>4, <1>5, <1>13 DEF w, k

\* The types a branch of depth d carries.
LEMMA LabelIs ==
  ASSUME NEW f, NEW b, NEW cs, Whole(f, b, cs), NEW q \in 1..Len(b), NEW d \in Nat,
         HasLabel(cs[q], d)
  PROVE  LET j == Len(OpenAt(b)[q]) - d IN
         /\ j \in 0..Len(OpenAt(b)[q])
         /\ j = 0 => LabelTypes(cs[q], d) = FuncTypeOf(f).outs
         /\ j # 0 => LabelTypes(cs[q], d) = LabelOf(b[OpenAt(b)[q][j]])
         /\ LabelTypes(cs[q], d) \in Seq(BodyType)
<1> DEFINE s == OpenAt(b)[q]
           l == Len(s)
           j == l - d
           c == cs[q]
<1>1. LabelsOk(b, q, cs, c, s, l)
  BY PlaceFacts
<1>2. StateOk(f, b, cs, q)
  BY PlaceFacts
<1>3. /\ l \in Nat /\ Len(c.ctrls) = l + 1 /\ c \in CheckerType
      /\ \A i \in 1..l : BlockOk(b, c, q, i, s[i], cs[s[i]])
  BY <1>1 DEF LabelsOk
<1>4. d < l + 1
  BY <1>3 DEF HasLabel
<1>5. j \in 0..l /\ Len(c.ctrls) - d = j + 1
  BY <1>3, <1>4
<1> HIDE DEF s, l, c
<1>6. Label(c, d) = c.ctrls[j + 1]
  BY <1>5 DEF Label
<1> HIDE DEF j
<1>7. CASE j = 0
  <2>1. Label(c, d) = c.ctrls[1]
    BY <1>6, <1>7
  <2>2. c.ctrls[1].kind = "block" /\ c.ctrls[1].outs = FuncTypeOf(f).outs
    BY <1>2 DEF StateOk, c
  <2>3. LabelTypes(c, d) = FuncTypeOf(f).outs
    BY <2>1, <2>2 DEF LabelTypes
  <2>4. FuncTypeOf(f).outs \in Seq(BodyType)
    <3>1. f \in DOMAIN Funcs
      BY PlaceFacts
    <3> QED
      BY <3>1, FunctionTypes
  <2> QED
    BY <1>5, <1>7, <2>3, <2>4 DEF c, s, l, j
<1>8. CASE j # 0
  <2>1. j \in 1..l
    BY <1>3, <1>5, <1>8
  <2> DEFINE p == s[j]
  <2>2. BlockOk(b, c, q, j, p, cs[p])
    BY <1>3, <2>1
  <2>3. b[p].op \in Openers
    <3>1. Len(b) \in Nat /\ q \in 1 .. Len(b) + 1
      BY PlaceFacts
    <3> QED
      BY <2>1, <3>1, OpenBlocks DEF s, l
  <2> HIDE DEF p
  <2>4. /\ b[p].bt \in DOMAIN Types /\ c.ctrls[j + 1].ins = Types[b[p].bt].ins
        /\ c.ctrls[j + 1].outs = Types[b[p].bt].outs /\ c.ctrls[j + 1].kind = Kind(b[p], q)
    BY <2>2 DEF BlockOk
  <2>5. (Kind(b[p], q) = "loop") = (b[p].op = "loop")
    BY DEF Kind
  <2>6. LabelTypes(c, d) = LabelOf(b[p])
    BY <1>6, <2>4, <2>5 DEF LabelTypes, LabelOf
  <2>7. LabelOf(b[p]) \in Seq(BodyType)
    BY <2>4, OperandsAre
  <2> QED
    BY <1>5, <1>8, <2>6, <2>7 DEF c, s, l, j, p
<1> QED
  BY <1>7, <1>8

\* A branch to a block that is open.
LEMMA BranchMove ==
  ASSUME NEW fr, NEW fr2, NEW b, NEW cs, Whole(fr.fn, b, cs), NEW st \in Seq(ValueType),
         NEW ct \in Seq(EntryType), Top(fr, b, cs, st, ct), NEW q \in 1..Len(b), fr.pc = q,
         NEW j \in 1..Len(OpenAt(b)[q]), NEW n,
         Carries(st, n, LabelOf(b[OpenAt(b)[q][j]]), fr.base + Last(cs[q].ctrls).height),
         Moves(fr, fr2, ct[fr.ctrl_base + j + 1].target)
  PROVE  LET e == ct[fr.ctrl_base + j + 1] IN
         TopStep(fr, fr2, b, cs, st, Keep(SubSeq(st, 1, n), e.arity, e.height),
                 ct, SubSeq(ct, 1, fr.ctrl_base + j))
<1> DEFINE s == OpenAt(b)[q]
           p == s[j]
           lo == fr.ctrl_base
           cu == SubSeq(ct, 1, lo + j)
           e == ct[lo + j + 1]
           u == Under(cs[p], b[p])
           h == fr.base + Len(u)
           x == Last(cs[q].ctrls).height
<1>1. /\ lo \in Nat /\ fr.base \in Nat
      /\ EntriesOk(fr.fn, b, cs, q, fr.base, ct, lo, Len(ct)) /\ Len(st) \in Nat
  BY TopFacts
<1>2. OuterOk(fr.fn, b, cs, q, fr.base, ct, lo, j, p)
  BY <1>1, EntriesDown
<1>3. /\ UnderKept(b, cs, p, st, fr.base) /\ Len(u) \in Nat /\ Len(u) <= x
  BY UnderOuter
<1> HIDE DEF p, s, cu, lo, e
<1>4. /\ p \in 1..Len(b) /\ b[p].op \in Openers /\ Typed(cs[p])
      /\ e = Entry(b, cs, fr.base, p)
      /\ cu \in Seq(EntryType) /\ Len(cu) = lo + j
      /\ \A m \in 1 .. lo + j : cu[m] = ct[m]
      /\ EntriesOk(fr.fn, b, cs, p, fr.base, cu, lo, lo + j)
  BY <1>2 DEF OuterOk, cu, e
<1> DEFINE t == e.target
           ts == LabelOf(b[p])
<1>5. b[p].bt \in DOMAIN Types
  BY <1>4, OpenerPops
<1>6. ts \in Seq(BodyType)
  BY <1>5, OperandsAre
<1>7. t = (IF b[p].op = "loop" THEN p ELSE b[p].end) /\ e.arity = Len(ts) /\ e.height = h
  BY <1>4 DEF Entry
<1>8. Resumes(b, cs, p, t, ts)
  <2>1. CASE b[p].op = "loop"
    <3>1. t = p /\ ts = Types[b[p].bt].ins
      BY <1>7, <2>1 DEF LabelOf
    <3> QED
      BY <1>4, <2>1, <3>1, LoopResumes
  <2>2. CASE b[p].op # "loop"
    <3>1. t = b[p].end /\ ts = Types[b[p].bt].outs
      BY <1>7, <2>2 DEF LabelOf
    <3>2. Resumes(b, cs, p, b[p].end, Types[b[p].bt].outs)
      BY <1>4, EndResumes
    <3> QED
      BY <3>1, <3>2
  <2> QED
    BY <2>1, <2>2
<1>9. Moves(fr, fr2, t)
  BY DEF e, lo
<1>10. Carries(st, n, ts, fr.base + x)
  BY DEF p, s
<1> HIDE DEF t, ts, u, x
<1>11. x \in Nat
  <2>1. cs[q] \in CheckerType /\ cs[q].ctrls # <<>>
    BY PlaceFacts DEF Live
  <2> DEFINE c == cs[q]
  <2> HIDE DEF c
  <2>2. c \in CheckerType /\ c.ctrls # <<>> /\ x = Last(c.ctrls).height
    BY <2>1 DEF c, x
  <2>3. Last(c.ctrls).height \in Nat
    BY <2>2, CheckerParts
  <2> QED
    BY <2>2, <2>3
<1>12. h \in Nat /\ h <= fr.base + x
  BY <1>1, <1>3, <1>11
<1> HIDE DEF h
<1> DEFINE rs == LastOf(SubSeq(st, 1, n), Len(ts))
<1>13. HasTypes(rs, ts) /\ Keep(SubSeq(st, 1, n), Len(ts), h) = Over(st, h, rs)
  BY <1>6, <1>10, <1>12, KeepIs
<1> HIDE DEF rs
<1>14. TopStep(fr, fr2, b, cs, st, Over(st, h, rs), ct, cu)
  <2>1. lo <= Len(cu) /\ \A m \in 1..lo : cu[m] = ct[m]
    BY <1>1, <1>4
  <2>2. EntriesOk(fr.fn, b, cs, p, fr.base, cu, fr.ctrl_base, Len(cu))
    BY <1>4 DEF lo
  <2>3. TopStep(fr, fr2, b, cs, st, Over(st, fr.base + Len(Under(cs[p], b[p])), rs), ct, cu)
    BY <1>3, <1>4, <1>8, <1>9, <1>13, <2>1, <2>2, Land DEF lo
  <2> QED
    BY <2>3 DEF h, u
<1>15. TopStep(fr, fr2, b, cs, st, Keep(SubSeq(st, 1, n), e.arity, e.height), ct, cu)
  BY <1>7, <1>13, <1>14
<1> QED
  BY <1>15 DEF e, cu, lo

\* What pop_vals accepts is on the machine's stack.
LEMMA CarriesAll ==
  ASSUME NEW c, Live(c), Typed(c), NEW ts \in Seq(BodyType), CanPop(c, ts),
         NEW st, Len(st) \in Nat, NEW base \in Nat, NEW n \in 0..Len(st),
         ValuesOk(c.stack, 0, st, base, n)
  PROVE  Carries(st, n, ts, base + Last(c.ctrls).height)
<1> DEFINE u == Popped(c, Len(ts))
           h == Last(c.ctrls).height
<1>1. Pops(c, ts, u)
  BY PopTyped
<1> HIDE DEF u
<1>2. /\ Joins(c.stack, u.stack, ts) /\ u.ctrls = c.ctrls /\ Live(u)
      /\ Len(ts) \in Nat /\ Len(u.stack) \in Nat
  BY <1>1 DEF Pops
<1>3. h <= Len(u.stack) /\ h \in Nat
  <2>1. h <= Len(u.stack)
    BY <1>2 DEF Live
  <2>2. c \in CheckerType /\ c.ctrls # <<>>
    BY DEF Live
  <2>3. h \in Nat
    BY <2>2, CheckerParts
  <2> QED
    BY <2>1, <2>3
<1> HIDE DEF h
<1>4. Carries(st, n, ts, base + h)
  BY <1>2, <1>3, CarriesPops
<1> QED
  BY <1>4 DEF h

\* And below the condition of a branch.
LEMMA CarriesTable ==
  ASSUME NEW c, Live(c), Typed(c), NEW ts \in Seq(BodyType), CanPop(c, <<"i32">>),
         CanPop(Popped(c, 1), ts), NEW st, Len(st) \in Nat, NEW base \in Nat,
         ValuesOk(c.stack, 0, st, base, Len(st))
  PROVE  Carries(st, Len(st) - 1, ts, base + Last(c.ctrls).height)
<1> DEFINE one == <<"i32">>
           v == Popped(c, 1)
           n == Len(st) - 1
<1>1. one \in Seq(BodyType) /\ Len(one) = 1
  BY DEF BodyType
<1> HIDE DEF one
<1>2. CanPop(c, one) /\ v = Popped(c, Len(one))
  BY <1>1 DEF one
<1> HIDE DEF v
<1>3. Pops(c, one, v)
  BY <1>1, <1>2, PopTyped
<1>4. /\ Joins(c.stack, v.stack, one) /\ v.ctrls = c.ctrls /\ Live(v) /\ Len(v.stack) \in Nat
      /\ v.stack \in Seq(BodyType)
  BY <1>3 DEF Pops
<1>5. Typed(v)
  BY <1>4 DEF Typed, Alive
<1>6. ValuesOk(v.stack, 0, st, base, n) /\ n \in 0..Len(st)
  <2>0. Len(one) \in Nat
    BY <1>1
  <2>1. ValuesOk(v.stack, 0, st, base, Len(st) - Len(one)) /\ Len(st) - Len(one) \in 0..Len(st)
    BY <1>4, <2>0, ValuesCut
  <2>2. n = Len(st) - Len(one)
    BY <1>1
  <2> HIDE DEF n
  <2> QED
    BY <2>1, <2>2
<1> HIDE DEF n
<1>7. CanPop(v, ts)
  BY DEF v
<1>8. Carries(st, n, ts, base + Last(v.ctrls).height)
  BY <1>4, <1>5, <1>6, <1>7, CarriesAll
<1> QED
  BY <1>4, <1>8 DEF n

\* A branch of depth d over the first n values: the function's own label
\* returns, any other is gone to.
BranchOk(fr, b, cs, st, ct, n, d) ==
  LET idx  == Len(ct) - d
      c    == ct[idx]
      kept == Keep(SubSeq(st, 1, n), c.arity, c.height)
      outs == FuncTypeOf(fr.fn).outs
  IN
  IF idx = fr.ctrl_base + 1
  THEN Results(st, kept, fr.base, outs) /\ Keep(kept, Len(outs), fr.base) = kept
  ELSE c.target \in Nat /\
       \A fr2 : Moves(fr, fr2, c.target) =>
                TopStep(fr, fr2, b, cs, st, kept, ct, SubSeq(ct, 1, idx - 1))

\* A branch to label d at a typed place, with its operands on top, leaves the
\* frame where the label goes on, with what the checker had there, or ends it.
LEMMA BranchTaken ==
  ASSUME NEW fr, NEW b, NEW cs, Whole(fr.fn, b, cs), NEW st \in Seq(ValueType),
         NEW ct \in Seq(EntryType), Top(fr, b, cs, st, ct), NEW q \in 1..Len(b), fr.pc = q,
         NEW d \in Nat, HasLabel(cs[q], d), NEW n,
         Carries(st, n, LabelTypes(cs[q], d), fr.base + Last(cs[q].ctrls).height)
  PROVE  BranchOk(fr, b, cs, st, ct, n, d)
<1> DEFINE s == OpenAt(b)[q]
           j == Len(s) - d
           lo == fr.ctrl_base
           idx == Len(ct) - d
           ts == LabelTypes(cs[q], d)
           x == Last(cs[q].ctrls).height
           outs == FuncTypeOf(fr.fn).outs
           c == ct[idx]
           kept == Keep(SubSeq(st, 1, n), c.arity, c.height)
<1>1. /\ lo \in Nat /\ fr.base \in Nat /\ Len(st) \in Nat /\ Len(ct) \in Nat
      /\ EntriesOk(fr.fn, b, cs, q, fr.base, ct, lo, Len(ct))
  BY TopFacts
<1>2. /\ j \in 0..Len(s)
      /\ j = 0 => ts = outs
      /\ j # 0 => ts = LabelOf(b[s[j]])
      /\ ts \in Seq(BodyType)
  BY LabelIs
<1>3. Len(cs[q].ctrls) = Len(s) + 1 /\ cs[q].ctrls # <<>>
  <2>1. Len(cs[q].ctrls) = Len(s) + 1
    BY PlaceFacts
  <2>2. cs[q].ctrls # <<>>
    BY PlaceFacts DEF Live
  <2> QED
    BY <2>1, <2>2
<1>4. Len(s) \in Nat
  <2>1. Len(b) \in Nat /\ q \in 1 .. Len(b) + 1
    BY PlaceFacts
  <2> QED
    BY <2>1, OpenBlocks
<1>5. Len(ct) = lo + Len(cs[q].ctrls) /\ ct[lo + 1] = Bottom(fr.fn, b, fr.base)
  BY <1>1, <1>3 DEF EntriesOk
<1>6. idx = lo + j + 1 /\ idx - 1 = lo + j /\ (idx = lo + 1) = (j = 0)
  <2> DEFINE y == Len(s)
             z == Len(ct)
  <2>1. lo \in Nat /\ y \in Nat /\ z = lo + (y + 1)
    BY <1>1, <1>3, <1>4, <1>5
  <2> HIDE DEF y, z, lo
  <2>2. z - d = lo + (y - d) + 1 /\ z - d - 1 = lo + (y - d) /\ (z - d = lo + 1) = (y - d = 0)
    BY <2>1
  <2> QED
    BY <2>2 DEF y, z
<1> HIDE DEF idx, c, lo
<1>7. CASE j = 0
  <2>1. idx = lo + 1 /\ c = Bottom(fr.fn, b, fr.base) /\ ts = outs
    BY <1>2, <1>5, <1>6, <1>7 DEF c
  <2>2. c.arity = Len(outs) /\ c.height = fr.base
    BY <2>1 DEF Bottom
  <2>3. x \in Nat
    <3> DEFINE g == cs[q]
    <3>1. g \in CheckerType
      BY PlaceFacts
    <3>2. g.ctrls # <<>>
      BY <1>3
    <3> HIDE DEF g
    <3>3. Last(g.ctrls).height \in Nat
      BY <3>1, <3>2, CheckerParts
    <3> QED
      BY <3>3 DEF g
  <2> DEFINE base == fr.base
  <2> HIDE DEF outs, x, base
  <2>4. base \in Nat /\ base <= base + x /\ outs \in Seq(BodyType)
        /\ Carries(st, n, outs, base + x)
    BY <1>1, <1>2, <2>1, <2>3 DEF base, x
  <2>5. /\ Results(st, Keep(SubSeq(st, 1, n), Len(outs), base), base, outs)
        /\ Keep(Keep(SubSeq(st, 1, n), Len(outs), base), Len(outs), base)
             = Keep(SubSeq(st, 1, n), Len(outs), base)
    BY <2>4, KeepResults
  <2>6. Results(st, kept, fr.base, outs) /\ Keep(kept, Len(outs), fr.base) = kept
    BY <2>2, <2>5 DEF base
  <2> QED
    BY <2>1, <2>6 DEF BranchOk, idx, c, lo, outs
<1>8. CASE j # 0
  <2>1. j \in 1..Len(s) /\ ts = LabelOf(b[s[j]])
    BY <1>2, <1>4, <1>8
  <2>2. Carries(st, n, LabelOf(b[OpenAt(b)[q][j]]), fr.base + Last(cs[q].ctrls).height)
    BY <2>1
  <2> HIDE DEF j, x
  <2>3. c = ct[lo + j + 1]
    BY <1>6 DEF c
  <2>4. ASSUME NEW fr2, Moves(fr, fr2, c.target)
        PROVE  TopStep(fr, fr2, b, cs, st, kept, ct, SubSeq(ct, 1, idx - 1))
    <3>1. Moves(fr, fr2, ct[fr.ctrl_base + j + 1].target)
      BY <2>3, <2>4 DEF lo
    <3>2. TopStep(fr, fr2, b, cs, st,
                  Keep(SubSeq(st, 1, n), ct[fr.ctrl_base + j + 1].arity,
                       ct[fr.ctrl_base + j + 1].height),
                  ct, SubSeq(ct, 1, fr.ctrl_base + j))
      BY <2>1, <2>2, <3>1, BranchMove
    <3> QED
      BY <1>6, <2>3, <3>2 DEF lo
  <2>5. c.target \in Nat
    <3>1. lo + j + 1 \in 1..Len(ct)
      BY <1>1, <1>3, <1>4, <1>5, <2>1
    <3>2. c \in EntryType
      BY <2>3, <3>1, ElementOfSeq
    <3> QED
      BY <3>2 DEF EntryType
  <2> QED
    BY <1>6, <1>8, <2>4, <2>5 DEF BranchOk, idx, c, lo
<1> QED
  BY <1>7, <1>8

-----------------------------------------------------------------------------
(* Steps of the top frame: the other instructions.                         *)

\* Operands popped and others pushed.
LEMMA PushedReplaces ==
  ASSUME NEW c, Typed(c), NEW ts, NEW u, Pops(c, ts, u), NEW vt \in Seq(BodyType)
  PROVE  Replaces(c, Pushed(u, vt), u.stack, ts, vt)
<1> DEFINE e == Pushed(u, vt)
           x == u.stack
<1>1. /\ Joins(c.stack, x, ts) /\ x \in Seq(BodyType) /\ u.ctrls = c.ctrls
      /\ u \in CheckerType /\ Len(ts) \in Nat /\ Len(x) \in Nat
  BY DEF Pops, Live
<1>2. vt \in Seq(BodyType \cup {Bot})
  BY SeqMonotonic
<1>3. e.ctrls = u.ctrls /\ e.stack = x \o vt
  BY <1>1, <1>2, PushedOk
<1> HIDE DEF e, x
<1>4. /\ x \o vt \in Seq(BodyType) /\ Len(x \o vt) = Len(x) + Len(vt)
      /\ \A m \in 1..Len(x) : (x \o vt)[m] = x[m]
      /\ \A m \in 1..Len(vt) : (x \o vt)[Len(x) + m] = vt[m]
  BY <1>1, ConcatOk
<1>5. Joins(e.stack, x, vt)
  BY <1>3, <1>4 DEF Joins
<1>6. e.ctrls = c.ctrls /\ e.stack \in Seq(BodyType)
  BY <1>1, <1>3, <1>4
<1>7. Typed(e)
  BY <1>6 DEF Typed, Alive
<1>8. Replaces(c, e, x, ts, vt)
  BY <1>1, <1>5, <1>6, <1>7 DEF Replaces
<1> QED
  BY <1>8 DEF e, x

\* Operands of any type popped.
LEMMA PopsAny ==
  ASSUME NEW c, Live(c), Typed(c), NEW k \in Nat, HasOperands(c, k)
  PROVE  LET ts == LastOf(c.stack, k) IN
         /\ Pops(c, ts, Popped(c, k)) /\ ts \in Seq(BodyType) /\ Len(ts) = k
         /\ k <= Avail(c) /\ Len(c.stack) \in Nat /\ k <= Len(c.stack)
         /\ \A m \in 1..k : ts[m] = c.stack[Len(c.stack) - k + m]
<1> DEFINE s == c.stack
           ts == LastOf(s, k)
           u == Popped(c, k)
<1>1. /\ k <= Avail(c) /\ Len(s) = Len(u.stack) + k
      /\ u.stack \in Seq(BodyType) /\ u.ctrls = c.ctrls /\ Live(u)
      /\ Len(u.stack) \in Nat /\ Len(s) \in Nat
      /\ \A m \in 1..Len(u.stack) : u.stack[m] = s[m]
  BY PopCount
<1>2. s \in Seq(BodyType)
  BY DEF Typed
<1> HIDE DEF s, u
<1>3. k \in 0..Len(s) /\ Len(s) - k = Len(u.stack) /\ k <= Len(s)
  BY <1>1
<1>4. ts \in Seq(BodyType) /\ Len(ts) = k /\ \A m \in 1..k : ts[m] = s[Len(s) - k + m]
  BY <1>2, <1>3, LastOfOk
<1> HIDE DEF ts
<1>5. \A m \in 1..Len(ts) : s[Len(u.stack) + m] = ts[m]
  BY <1>3, <1>4
<1>6. Joins(s, u.stack, ts)
  BY <1>1, <1>4, <1>5 DEF Joins
<1>7. Pops(c, ts, u)
  BY <1>1, <1>4, <1>6 DEF Pops, s
<1> QED
  BY <1>1, <1>3, <1>4, <1>7 DEF ts, s, u

\* Operands that are only taken.
LEMMA PoppedReplaces ==
  ASSUME NEW c, Typed(c), NEW ts, NEW u, Pops(c, ts, u)
  PROVE  Replaces(c, u, u.stack, ts, <<>>)
<1>1. /\ Joins(c.stack, u.stack, ts) /\ u.stack \in Seq(BodyType) /\ u.ctrls = c.ctrls
      /\ Len(ts) \in Nat /\ Len(u.stack) \in Nat
  BY DEF Pops
<1>2. Joins(u.stack, u.stack, <<>>)
  BY <1>1, JoinsNone
<1>3. Typed(u)
  BY <1>1 DEF Typed, Alive
<1> QED
  BY <1>1, <1>2, <1>3 DEF Replaces

\* The values they stood for are taken.
LEMMA FlatCut ==
  ASSUME NEW fr, NEW fr2, NEW b, NEW cs, Whole(fr.fn, b, cs), NEW st \in Seq(ValueType),
         NEW ct \in Seq(EntryType), Top(fr, b, cs, st, ct), NEW q \in 1..Len(b), fr.pc = q,
         b[q].op \notin Openers \cup {"else", "end"}, Moves(fr, fr2, q + 1),
         NEW u, NEW ts, Replaces(cs[q], cs[q + 1], u, ts, <<>>)
  PROVE  TopStep(fr, fr2, b, cs, st, SubSeq(st, 1, Len(st) - Len(ts)), ct, ct)
<1> DEFINE k == Len(st) - Len(ts)
           w == SubSeq(st, 1, k)
<1>1. HasTypes(<<>>, <<>>)
  <2>1. Len(<<>>) \in Nat
    BY EmptySeq
  <2> QED
    BY <2>1, JoinsNone
<1>2. TopStep(fr, fr2, b, cs, st, Over(st, k, <<>>), ct, ct)
  BY <1>1, FlatMove
<1>3. k \in 0..Len(st)
  <2>1. /\ fr.base \in Nat /\ ValuesOk(cs[q].stack, 0, st, fr.base, Len(st)) /\ Len(st) \in Nat
    BY TopFacts
  <2>2. Joins(cs[q].stack, u, ts) /\ Len(u) \in Nat /\ Len(ts) \in Nat
    BY DEF Replaces
  <2> QED
    BY <2>1, <2>2, ValuesCut
<1> HIDE DEF k
<1>4. w \in Seq(ValueType)
  BY <1>3, PrefixOk
<1> HIDE DEF w
<1>5. w \o <<>> = w
  BY <1>4, ConcatEmptySeq
<1>6. Over(st, k, <<>>) = w
  BY <1>5 DEF Over, w
<1> QED
  BY <1>2, <1>6 DEF w, k

\* Nothing is taken and nothing pushed.
LEMMA FlatStay ==
  ASSUME NEW fr, NEW fr2, NEW b, NEW cs, Whole(fr.fn, b, cs), NEW st \in Seq(ValueType),
         NEW ct \in Seq(EntryType), Top(fr, b, cs, st, ct), NEW q \in 1..Len(b), fr.pc = q,
         b[q].op \notin Openers \cup {"else", "end"}, Moves(fr, fr2, q + 1),
         cs[q + 1].stack = cs[q].stack, cs[q + 1].ctrls = cs[q].ctrls
  PROVE  TopStep(fr, fr2, b, cs, st, st, ct, ct)
<1>1. /\ fr.ctrl_base \in Nat /\ Len(b) \in Nat /\ Typed(cs[q])
      /\ EntriesOk(fr.fn, b, cs, q, fr.base, ct, fr.ctrl_base, Len(ct))
      /\ fr.ctrl_base <= Len(ct)
  BY TopFacts
<1>2. q + 1 \in 1 .. Len(b) + 1
  BY PlaceFacts
<1>3. OpenAt(b)[q + 1] = OpenAt(b)[q]
  BY <1>1, OpenAtNext DEF OpenNext
<1>4. cs[q].ctrls # <<>>
  BY PlaceFacts DEF Live
<1>5. EntriesOk(fr.fn, b, cs, q + 1, fr.base, ct, fr.ctrl_base, Len(ct))
  BY <1>1, <1>3, <1>4, EntriesSame
<1>6. Typed(cs[q + 1])
  BY <1>1 DEF Typed, Alive
<1>7. \A m \in 1..fr.ctrl_base : ct[m] = ct[m]
  OBVIOUS
<1> QED
  BY <1>1, <1>2, <1>5, <1>6, <1>7, Stays

\* What the parts of an instruction are.
LEMMA InstrParts ==
  ASSUME NEW i \in Instructions
  PROVE  /\ i.op = "const" => i.ty \in BodyType /\ i.val \in Nat
         /\ i.op \in {"local.get", "local.set", "local.tee"} => i.idx \in Nat
         /\ i.op \in {"br", "br_if"} => i.depth \in Nat
         /\ i.op = "br_table" => i.depths \in Seq(Nat) /\ i.default \in Nat
         /\ i.op = "call" => i.func \in Nat /\ i = Call(i.func)
<1> USE DEF Instructions, InstrOf
<1>1. i.op = "const" => i.ty \in BodyType /\ i.val \in Nat
  OBVIOUS
<1>2. i.op \in {"local.get", "local.set", "local.tee"} => i.idx \in Nat
  OBVIOUS
<1>3. i.op \in {"br", "br_if"} => i.depth \in Nat
  OBVIOUS
<1>4. i.op = "br_table" => i.depths \in Seq(Nat) /\ i.default \in Nat
  OBVIOUS
<1>5. i.op = "call" => i.func \in Nat /\ i = Call(i.func)
  BY DEF Call
<1> QED
  BY <1>1, <1>2, <1>3, <1>4, <1>5

\* No operand popped.
LEMMA PopsNone ==
  ASSUME NEW c, Live(c), Typed(c)
  PROVE  Pops(c, <<>>, c)
<1>1. c.stack \in Seq(BodyType) /\ Len(c.stack) \in Nat /\ Len(<<>>) = 0
  BY LenProperties, EmptySeq DEF Typed
<1>2. Joins(c.stack, c.stack, <<>>)
  BY <1>1, JoinsNone
<1> QED
  BY <1>1, <1>2 DEF Pops

\* What a place is to the next one, if its instruction is not about control.
FlatOk(f, c, e, i) ==
  /\ i.op = "nop" => e = c
  /\ i.op = "const" => Replaces(c, e, c.stack, <<>>, <<i.ty>>)
  /\ i.op = "drop" => \E u, ts : Replaces(c, e, u, ts, <<>>) /\ Len(ts) = 1
  /\ i.op \in {"eqz", "extend"} =>
       \E u : Replaces(c, e, u, <<"i32">>, <<IF i.op = "eqz" THEN "i32" ELSE "i64">>)
  /\ i.op = "local.get" =>
       /\ i.idx \in DOMAIN LocalsOf(f)
       /\ Replaces(c, e, c.stack, <<>>, <<LocalsOf(f)[i.idx]>>)
  /\ i.op \in {"local.set", "local.tee"} =>
       /\ i.idx \in DOMAIN LocalsOf(f)
       /\ \E u : Replaces(c, e, u, <<LocalsOf(f)[i.idx]>>,
                          IF i.op = "local.set" THEN <<>> ELSE <<LocalsOf(f)[i.idx]>>)
  /\ i.op = "call" =>
       /\ i.func \in DOMAIN Funcs
       /\ \E u : Replaces(c, e, u, FuncTypeOf(i.func).ins, FuncTypeOf(i.func).outs)

\* The checker's step for the instructions without control flow: what each
\* pops is there and what it pushes is on top.
LEMMA SimplePlaces ==
  ASSUME NEW f, NEW b, NEW cs, Whole(f, b, cs), NEW q \in 1..Len(b), Typed(cs[q]),
         NEW c, c = cs[q], NEW e, e = cs[q + 1], NEW i, i = b[q]
  PROVE  FlatOk(f, c, e, i)
<1>1. /\ Live(c) /\ Typed(c) /\ Accepts(f, c, i) /\ e = Checked(f, c, i)
      /\ i \in Instructions /\ f \in DOMAIN Funcs
  BY PlaceFacts
<1>2. "i32" \in BodyType /\ "i64" \in BodyType
  BY DEF BodyType
<1>3. i.op = "nop" => e = c
  BY <1>1 DEF Checked
<1>4. ASSUME i.op = "const"
      PROVE  Replaces(c, e, c.stack, <<>>, <<i.ty>>)
  <2>1. i.ty \in BodyType
    BY <1>1, <1>4, InstrParts
  <2>2. e = Pushed(c, <<i.ty>>)
    BY <1>1, <1>4 DEF Checked, Openers
  <2>3. <<i.ty>> \in Seq(BodyType)
    BY <2>1
  <2> QED
    BY <1>1, <2>2, <2>3, PopsNone, PushedReplaces
<1>5. ASSUME i.op = "drop"
      PROVE  \E u, ts : Replaces(c, e, u, ts, <<>>) /\ Len(ts) = 1
  <2>1. e = Popped(c, 1)
    BY <1>1, <1>5 DEF Checked, Openers
  <2>2. HasOperands(c, 1)
    BY <1>1, <1>5 DEF Accepts, Openers
  <2> DEFINE ts == LastOf(c.stack, 1)
  <2> DEFINE u == Popped(c, 1)
  <2>3. Pops(c, ts, u) /\ Len(ts) = 1
    <3>1. 1 \in Nat
      OBVIOUS
    <3>2. Pops(c, ts, u)
      BY <1>1, <2>2, <3>1, PopsAny
    <3>3. Len(ts) = 1
      BY <1>1, <2>2, <3>1, PopsAny
    <3> QED
      BY <3>2, <3>3
  <2>5. e = u
    BY <2>1
  <2> HIDE DEF ts, u
  <2>4. Replaces(c, e, e.stack, ts, <<>>)
    BY <1>1, <2>3, <2>5, PoppedReplaces
  <2> QED
    BY <2>3, <2>4
<1>6. ASSUME i.op \in {"eqz", "extend"}
      PROVE  \E u : Replaces(c, e, u, <<"i32">>, <<IF i.op = "eqz" THEN "i32" ELSE "i64">>)
  <2> DEFINE ts == <<"i32">>
             vt == <<IF i.op = "eqz" THEN "i32" ELSE "i64">>
  <2>1. e = Pushed(Popped(c, 1), vt)
    BY <1>1, <1>6 DEF Checked, Openers
  <2>2. CanPop(c, ts)
    BY <1>1, <1>6 DEF Accepts, Openers
  <2>3. ts \in Seq(BodyType) /\ Len(ts) = 1 /\ vt \in Seq(BodyType)
    BY <1>2
  <2> HIDE DEF ts, vt
  <2>4. Pops(c, ts, Popped(c, 1))
    BY <1>1, <2>2, <2>3, PopTyped
  <2>5. Replaces(c, e, Popped(c, 1).stack, ts, vt)
    BY <1>1, <2>1, <2>3, <2>4, PushedReplaces
  <2> QED
    BY <2>5 DEF ts, vt
<1>7. ASSUME i.op = "local.get"
      PROVE  /\ i.idx \in DOMAIN LocalsOf(f)
             /\ Replaces(c, e, c.stack, <<>>, <<LocalsOf(f)[i.idx]>>)
  <2>1. i.idx \in DOMAIN LocalsOf(f)
    BY <1>1, <1>7 DEF Accepts, Openers
  <2>2. LocalsOf(f) \in Seq(BodyType)
    BY <1>1, FunctionTypes
  <2> DEFINE x == LocalsOf(f)[i.idx]
  <2>3. x \in BodyType
    BY <2>1, <2>2, LenProperties, ElementOfSeq
  <2>4. e = Pushed(c, <<x>>)
    BY <1>1, <1>7 DEF Checked, Openers
  <2> HIDE DEF x
  <2>5. <<x>> \in Seq(BodyType)
    BY <2>3
  <2>6. Replaces(c, e, c.stack, <<>>, <<x>>)
    BY <1>1, <2>4, <2>5, PopsNone, PushedReplaces
  <2> QED
    BY <2>1, <2>6 DEF x
<1>8. ASSUME i.op \in {"local.set", "local.tee"}
      PROVE  /\ i.idx \in DOMAIN LocalsOf(f)
             /\ \E u : Replaces(c, e, u, <<LocalsOf(f)[i.idx]>>,
                                IF i.op = "local.set" THEN <<>> ELSE <<LocalsOf(f)[i.idx]>>)
  <2>1. i.idx \in DOMAIN LocalsOf(f) /\ CanPop(c, <<LocalsOf(f)[i.idx]>>)
    BY <1>1, <1>8 DEF Accepts, Openers
  <2>2. LocalsOf(f) \in Seq(BodyType)
    BY <1>1, FunctionTypes
  <2> DEFINE x == LocalsOf(f)[i.idx]
             ts == <<x>>
             u == Popped(c, 1)
  <2>3. x \in BodyType
    BY <2>1, <2>2, LenProperties, ElementOfSeq
  <2>4. e = IF i.op = "local.set" THEN u ELSE Pushed(u, ts)
    BY <1>1, <1>8 DEF Checked, Openers
  <2> HIDE DEF x
  <2>5. ts \in Seq(BodyType) /\ Len(ts) = 1 /\ CanPop(c, ts)
    BY <2>1, <2>3 DEF x
  <2> HIDE DEF ts, u
  <2>6. Pops(c, ts, u)
    BY <1>1, <2>5, PopTyped DEF u
  <2>7. Replaces(c, u, u.stack, ts, <<>>) /\ Replaces(c, Pushed(u, ts), u.stack, ts, ts)
    BY <1>1, <2>5, <2>6, PoppedReplaces, PushedReplaces
  <2>8. Replaces(c, e, u.stack, ts, IF i.op = "local.set" THEN <<>> ELSE ts)
    BY <2>4, <2>7
  <2> QED
    BY <2>1, <2>8 DEF ts, x
<1>9. ASSUME i.op = "call"
      PROVE  /\ i.func \in DOMAIN Funcs
             /\ \E u : Replaces(c, e, u, FuncTypeOf(i.func).ins, FuncTypeOf(i.func).outs)
  <2> DEFINE ts == FuncTypeOf(i.func).ins
             vt == FuncTypeOf(i.func).outs
             u == Popped(c, Len(ts))
  <2>1. i.func \in DOMAIN Funcs /\ CanPop(c, ts)
    BY <1>1, <1>9 DEF Accepts, Openers
  <2>2. e = Pushed(u, vt)
    BY <1>1, <1>9 DEF Checked, Openers
  <2>3. ts \in Seq(BodyType) /\ vt \in Seq(BodyType)
    BY <2>1, FunctionTypes
  <2> HIDE DEF ts, vt
  <2>4. Pops(c, ts, u)
    BY <1>1, <2>1, <2>3, PopTyped
  <2> HIDE DEF u
  <2>5. Replaces(c, e, u.stack, ts, vt)
    BY <1>1, <2>2, <2>3, <2>4, PushedReplaces
  <2> QED
    BY <2>1, <2>5 DEF ts, vt
<1> QED
  BY <1>3, <1>4, <1>5, <1>6, <1>7, <1>8, <1>9 DEF FlatOk

\* A select leaves one of two operands of one type.
SelectOk(c, e) ==
  \E u, ts : /\ Replaces(c, e, u, ts, <<ts[1]>>)
             /\ ts \in Seq(BodyType) /\ Len(ts) = 3 /\ ts[1] = ts[2]

\* The checker's step for select, whose two operands have one type.
LEMMA SelectPlace ==
  ASSUME NEW f, NEW b, NEW cs, Whole(f, b, cs), NEW q \in 1..Len(b), Typed(cs[q]),
         b[q].op = "select"
  PROVE  SelectOk(cs[q], cs[q + 1])
<1> DEFINE c == cs[q]
           e == cs[q + 1]
           i == b[q]
           ts == LastOf(c.stack, 3)
           u == Popped(c, 3)
<1>1. Live(c) /\ Accepts(f, c, i)
  BY PlaceFacts
<1>2. e = Checked(f, c, i)
  BY PlaceFacts
<1> HIDE DEF e, c, i
<1>3. CanSelect(c) /\ i.op = "select"
  BY <1>1 DEF Accepts, Openers, i
<1>4. e = Pushed(u, <<Selected(c)>>)
  BY <1>2, <1>3 DEF Checked, Openers
<1>5. HasOperands(c, 3) /\ 3 \in Nat
  BY <1>3 DEF CanSelect
<1> HIDE DEF u
<1>6. Typed(c)
  BY DEF c
<1>7. /\ Pops(c, ts, u) /\ ts \in Seq(BodyType) /\ Len(ts) = 3
      /\ 3 <= Avail(c) /\ Len(c.stack) \in Nat
      /\ \A m \in 1..3 : ts[m] = c.stack[Len(c.stack) - 3 + m]
  <2>1. Pops(c, ts, Popped(c, 3))
    BY <1>1, <1>5, <1>6, PopsAny
  <2>2. ts \in Seq(BodyType) /\ Len(ts) = 3
    BY <1>1, <1>5, <1>6, PopsAny
  <2>3. 3 <= Avail(c) /\ Len(c.stack) \in Nat
    BY <1>1, <1>5, <1>6, PopsAny
  <2>4. \A m \in 1..3 : ts[m] = c.stack[Len(c.stack) - 3 + m]
    BY <1>1, <1>5, <1>6, PopsAny
  <2> QED
    BY <2>1, <2>2, <2>3, <2>4 DEF u
<1> HIDE DEF ts
<1>8. Operand(c, 1) = ts[2] /\ Operand(c, 2) = ts[1]
  <2> DEFINE n == Avail(c)
  <2>1. n \in Int
    <3>1. c \in CheckerType /\ c.ctrls # <<>>
      BY <1>1 DEF Live
    <3>2. Last(c.ctrls).height \in Int
      BY <3>1, CheckerParts
    <3> QED
      BY <1>7, <3>2 DEF Avail
  <2>2. 3 <= n
    BY <1>7
  <2> HIDE DEF n
  <2>3. 1 < n /\ 2 < n
    BY <2>1, <2>2
  <2>4. Len(c.stack) - 1 = Len(c.stack) - 3 + 2 /\ Len(c.stack) - 2 = Len(c.stack) - 3 + 1
    BY <1>7
  <2>5. ts[2] = c.stack[Len(c.stack) - 3 + 2] /\ ts[1] = c.stack[Len(c.stack) - 3 + 1]
    BY <1>7
  <2> QED
    BY <2>3, <2>4, <2>5 DEF Operand, n
<1>9. ts[1] \in BodyType /\ ts[2] \in BodyType
  <2>1. 1 \in 1..Len(ts) /\ 2 \in 1..Len(ts) /\ ts \in Seq(BodyType)
    BY <1>7
  <2> QED
    BY <2>1, ElementOfSeq
<1>10. Bot \notin BodyType
  BY DEF Bot, BodyType
<1>11. ts[1] = ts[2] /\ Selected(c) = ts[1]
  <2>1. Operand(c, 1) # Bot /\ Operand(c, 2) # Bot
    BY <1>8, <1>9, <1>10
  <2>2. Operand(c, 1) = Operand(c, 2)
    BY <1>3, <2>1 DEF CanSelect
  <2> QED
    BY <1>8, <2>1, <2>2 DEF Selected
<1>12. <<ts[1]>> \in Seq(BodyType)
  BY <1>9
<1>13. Replaces(c, e, u.stack, ts, <<ts[1]>>)
  BY <1>4, <1>6, <1>7, <1>11, <1>12, PushedReplaces
<1> QED
  BY <1>7, <1>11, <1>13 DEF c, e, SelectOk

\* A branch that is not taken takes its condition.
LEMMA BrIfPlace ==
  ASSUME NEW f, NEW b, NEW cs, Whole(f, b, cs), NEW q \in 1..Len(b), Typed(cs[q]),
         b[q].op = "br_if"
  PROVE  Replaces(cs[q], cs[q + 1], cs[q + 1].stack, <<"i32">>, <<>>)
<1> DEFINE c == cs[q]
           e == cs[q + 1]
           i == b[q]
           ts == LabelTypes(c, i.depth)
           more == Append(ts, "i32")
           u == Popped(c, Len(more))
<1>1. Live(c) /\ Accepts(f, c, i)
  BY PlaceFacts
<1>2. e = Checked(f, c, i) /\ i \in Instructions
  BY PlaceFacts
<1>3. i.depth \in Nat
  BY <1>2, InstrParts
<1>4. HasLabel(c, i.depth) /\ CanPop(c, more)
  BY <1>1 DEF Accepts, Openers
<1>5. ts \in Seq(BodyType)
  BY <1>3, <1>4, LabelIs
<1>6. e = Pushed(Popped(c, Len(ts) + 1), ts)
  BY <1>2 DEF Checked, Openers
<1>7. Typed(c)
  OBVIOUS
<1> HIDE DEF ts, e, c, i
<1>8. "i32" \in BodyType
  BY DEF BodyType
<1>9. more \in Seq(BodyType) /\ Len(more) = Len(ts) + 1
  BY <1>5, <1>8, AppendOk
<1>10. e = Pushed(u, ts)
  BY <1>6, <1>9
<1> HIDE DEF more
<1>11. Pops(c, more, u)
  BY <1>1, <1>4, <1>7, <1>9, PopTyped
<1> HIDE DEF u
<1>12. Replaces(c, e, u.stack, more, ts)
  BY <1>5, <1>7, <1>10, <1>11, PushedReplaces
<1>13. /\ Joins(c.stack, u.stack, more) /\ Joins(e.stack, u.stack, ts) /\ e.ctrls = c.ctrls
       /\ Typed(e) /\ Len(u.stack) \in Nat
  BY <1>12 DEF Replaces
<1> DEFINE w == e.stack
           one == <<"i32">>
<1>14. Joins(c.stack, w, one) /\ Len(w) \in Nat /\ Len(one) = 1
  BY <1>5, <1>8, <1>13, OneMore DEF more
<1>15. w \in Seq(BodyType) /\ Joins(w, w, <<>>)
  BY <1>13, <1>14, JoinsNone DEF Typed
<1> HIDE DEF one
<1>16. Replaces(c, e, w, one, <<>>)
  BY <1>13, <1>14, <1>15 DEF Replaces
<1> QED
  BY <1>16 DEF c, e, one

-----------------------------------------------------------------------------
(* All the frames.                                                         *)

\* Code that was decoded and checked.
AllWhole(B, K) == \A f \in Local : Whole(f, B[f], K[f])

\* A frame's piece of the stacks depends on nothing above it.
LEMMA FrameKept ==
  ASSUME NEW fr, NEW b, NEW cs, Whole(fr.fn, b, cs), NEW w \in Nat, NEW st, NEW hi \in Nat,
         NEW ct, NEW chi \in Nat, FrameOk(fr, b, cs, w, st, hi, ct, chi),
         NEW st2, \A m \in 1..hi : st2[m] = st[m], NEW ct2, \A m \in 1..chi : ct2[m] = ct[m]
  PROVE  FrameOk(fr, b, cs, w, st2, hi, ct2, chi) /\ fr.base <= hi /\ fr.ctrl_base <= chi
<1> DEFINE c == cs[fr.pc]
           lo == fr.base
           clo == fr.ctrl_base
           l == Len(c.ctrls)
<1>1. /\ fr \in FrameType /\ fr.pc \in 1 .. Len(b) + 1
      /\ ValuesOk(c.stack, w, st, lo, hi) /\ Typed(c)
      /\ EntriesOk(fr.fn, b, cs, fr.pc, lo, ct, clo, chi)
  BY DEF FrameOk
<1>2. lo \in Nat /\ clo \in Nat
  BY <1>1 DEF FrameType
<1>3. c \in CheckerType
  <2>1. cs \in Seq(CheckerType) /\ Len(cs) = Len(b) + 1
    BY EndFacts DEF Whole
  <2> QED
    BY <1>1, <2>1, LenProperties, ElementOfSeq
<1>4. l \in Nat /\ Len(c.stack) \in Nat /\ (c.ctrls # <<>> => l # 0)
  <2> HIDE DEF c
  <2>1. c.ctrls \in Seq(CtrlType)
    BY <1>3, CheckerParts
  <2> QED
    BY <1>3, <2>1, CheckerParts, EmptySeq
<1>5. ValuesOk(c.stack, w, st2, lo, hi) /\ lo <= hi
  <2> DEFINE x == c.stack
  <2>1. lo <= hi /\ hi + w = lo + Len(x) /\ \A m \in 1 .. Len(x) - w : st[lo + m].ty = x[m]
    BY <1>1 DEF ValuesOk
  <2> HIDE DEF x, lo
  <2>2. \A m \in 1 .. Len(x) - w : lo + m \in 1..hi
    BY <1>2, <1>4, <2>1 DEF x
  <2>3. \A m \in 1 .. Len(x) - w : st2[lo + m].ty = x[m]
    BY <2>1, <2>2
  <2> QED
    BY <2>1, <2>3 DEF ValuesOk, x
<1>6. EntriesOk(fr.fn, b, cs, fr.pc, lo, ct2, clo, chi) /\ clo <= chi
  <2> DEFINE s == OpenAt(b)[fr.pc]
  <2>1. /\ chi = clo + l
        /\ c.ctrls # <<>> => ct[clo + 1] = Bottom(fr.fn, b, lo)
        /\ \A j \in 1 .. l - 1 : ct[clo + j + 1] = Entry(b, cs, lo, s[j]) /\ Typed(cs[s[j]])
    BY <1>1 DEF EntriesOk
  <2> HIDE DEF l, s, clo, c
  <2>2. clo <= chi /\ \A j \in 1 .. l - 1 : clo + j + 1 \in 1..chi
    BY <1>2, <1>4, <2>1
  <2>3. \A j \in 1 .. l - 1 : ct2[clo + j + 1] = Entry(b, cs, lo, s[j]) /\ Typed(cs[s[j]])
    BY <2>1, <2>2
  <2>4. c.ctrls # <<>> => clo + 1 \in 1..chi
    BY <1>2, <1>4, <2>1
  <2>5. c.ctrls # <<>> => ct2[clo + 1] = Bottom(fr.fn, b, lo)
    BY <2>1, <2>4
  <2> QED
    BY <2>1, <2>2, <2>3, <2>5 DEF EntriesOk, l, s, c
<1> QED
  BY <1>5, <1>6 DEF FrameOk

\* What is known of one frame.
LEMMA OneFrame ==
  ASSUME NEW B, NEW K, AllWhole(B, K), NEW frs, NEW st, NEW ct, FramesOk(B, K, frs, st, ct),
         NEW n \in 1..Len(frs)
  PROVE  /\ Whole(frs[n].fn, B[frs[n].fn], K[frs[n].fn]) /\ frs[n] \in FrameType
         /\ frs[n].base \in Nat /\ frs[n].ctrl_base \in Nat /\ frs[n].results \in Nat
         /\ FrameOk(frs[n], B[frs[n].fn], K[frs[n].fn], Wait(frs, n), st, Hi(frs, st, n),
                    ct, CtrlHi(frs, ct, n))
         /\ Wait(frs, n) \in Nat /\ Hi(frs, st, n) \in Nat /\ CtrlHi(frs, ct, n) \in Nat
         /\ frs[n].base <= Hi(frs, st, n) /\ frs[n].ctrl_base <= CtrlHi(frs, ct, n)
         /\ Len(frs) \in Nat /\ Len(st) \in Nat /\ Len(ct) \in Nat
<1>1. /\ st \in Seq(ValueType) /\ frs \in Seq(FrameType) /\ ct \in Seq(EntryType)
      /\ NthOk(B, K, frs, st, ct, n)
  BY DEF FramesOk
<1>2. Len(frs) \in Nat /\ Len(st) \in Nat /\ Len(ct) \in Nat
  BY <1>1, LenProperties
<1>3. \A m \in 1..Len(frs) : frs[m] \in FrameType
  BY <1>1, ElementOfSeq
<1>4. \A m \in 1..Len(frs) :
        /\ frs[m].base \in Nat /\ frs[m].ctrl_base \in Nat /\ frs[m].results \in Nat
        /\ frs[m].fn \in Local
  BY <1>3 DEF FrameType
<1>5. Wait(frs, n) \in Nat /\ Hi(frs, st, n) \in Nat /\ CtrlHi(frs, ct, n) \in Nat
  <2>1. n < Len(frs) => n + 1 \in 1..Len(frs)
    BY <1>2
  <2> QED
    BY <1>2, <1>4, <2>1 DEF Wait, Hi, CtrlHi
<1> DEFINE fr == frs[n]
           b == B[fr.fn]
           cs == K[fr.fn]
<1>6. FrameOk(fr, b, cs, Wait(frs, n), st, Hi(frs, st, n), ct, CtrlHi(frs, ct, n))
  BY <1>1 DEF NthOk
<1>7. Whole(fr.fn, b, cs)
  BY <1>4 DEF AllWhole
<1> HIDE DEF fr, b, cs
<1>8. fr.base <= Hi(frs, st, n) /\ fr.ctrl_base <= CtrlHi(frs, ct, n)
  <2>1. (\A m \in 1..Hi(frs, st, n) : st[m] = st[m]) /\ \A m \in 1..CtrlHi(frs, ct, n) : ct[m] = ct[m]
    OBVIOUS
  <2> QED
    BY <1>5, <1>6, <1>7, <2>1, FrameKept
<1> QED
  BY <1>2, <1>3, <1>4, <1>5, <1>6, <1>7, <1>8 DEF fr, b, cs

\* The pieces of the stacks lie one above the other.
LEMMA PiecesOrdered ==
  ASSUME NEW B, NEW K, AllWhole(B, K), NEW frs, NEW st, NEW ct, FramesOk(B, K, frs, st, ct)
  PROVE  \A n \in 1..Len(frs) : \A m \in 1..n :
           frs[m].base <= frs[n].base /\ frs[m].ctrl_base <= frs[n].ctrl_base
<1> DEFINE P(n) == \A m \in 1..n :
                     frs[m].base <= frs[n].base /\ frs[m].ctrl_base <= frs[n].ctrl_base
           T == {n \in Nat : n <= Len(frs) => P(n)}
<1>1. \A n \in 1..Len(frs) :
        /\ frs[n].base \in Nat /\ frs[n].ctrl_base \in Nat
        /\ frs[n].base <= Hi(frs, st, n) /\ frs[n].ctrl_base <= CtrlHi(frs, ct, n)
  BY OneFrame
<1>2. Len(frs) \in Nat
  BY LenProperties DEF FramesOk
<1>3. \A n \in 1..Len(frs) : n < Len(frs) =>
        frs[n].base <= frs[n + 1].base /\ frs[n].ctrl_base <= frs[n + 1].ctrl_base
  BY <1>1, <1>2 DEF Hi, CtrlHi
<1>4. 0 \in T
  OBVIOUS
<1>5. ASSUME NEW n \in Nat, n \in T
      PROVE  n + 1 \in T
  <2> SUFFICES ASSUME n + 1 <= Len(frs), NEW m \in 1 .. n + 1
               PROVE  /\ frs[m].base <= frs[n + 1].base
                      /\ frs[m].ctrl_base <= frs[n + 1].ctrl_base
    OBVIOUS
  <2>1. n + 1 \in 1..Len(frs) /\ m \in 1..Len(frs)
    BY <1>2
  <2>2. CASE m = n + 1
    BY <1>1, <2>1, <2>2
  <2>3. CASE m # n + 1
    <3>1. m \in 1..n /\ n \in 1..Len(frs) /\ n < Len(frs)
      BY <1>2, <2>3
    <3>2. frs[m].base <= frs[n].base /\ frs[m].ctrl_base <= frs[n].ctrl_base
      BY <1>5, <3>1
    <3>3. frs[n].base <= frs[n + 1].base /\ frs[n].ctrl_base <= frs[n + 1].ctrl_base
      BY <1>3, <3>1
    <3> QED
      BY <1>1, <2>1, <3>1, <3>2, <3>3
  <2> QED
    BY <2>2, <2>3
<1>6. \A n \in Nat : n \in T
  <2> HIDE DEF T
  <2> QED
    BY <1>4, <1>5, NaturalsIn
<1> QED
  BY <1>2, <1>6

\* All below the pieces of frame n is as it was, and what frame n is to its
\* caller.
Untouched(frs, st, ct, n, frs2, st2, ct2) ==
  /\ \A i \in 1..frs[n].base : st2[i] = st[i]
  /\ \A i \in 1..frs[n].ctrl_base : ct2[i] = ct[i]
  /\ n <= Len(frs2) /\ Len(frs2) \in Nat /\ \A i \in 1 .. n - 1 : frs2[i] = frs[i]
  /\ frs2[n].base = frs[n].base /\ frs2[n].ctrl_base = frs[n].ctrl_base
  /\ frs2[n].results = frs[n].results /\ frs2[n].fn = frs[n].fn

\* The suspended frames, when the last one changes and leaves them alone.
LEMMA CallersKept ==
  ASSUME NEW B, NEW K, AllWhole(B, K), NEW frs, NEW st, NEW ct, FramesOk(B, K, frs, st, ct),
         NEW n \in 1..Len(frs), NEW frs2, NEW st2, NEW ct2,
         Untouched(frs, st, ct, n, frs2, st2, ct2)
  PROVE  \A m \in 1 .. n - 1 : NthOk(B, K, frs2, st2, ct2, m)
<1> USE DEF Untouched
<1> SUFFICES ASSUME NEW m \in 1 .. n - 1
             PROVE  NthOk(B, K, frs2, st2, ct2, m)
  OBVIOUS
<1>1. Len(frs) \in Nat /\ n \in Nat
  BY LenProperties DEF FramesOk
<1>2. m \in 1..Len(frs) /\ m < Len(frs) /\ m < Len(frs2) /\ m + 1 \in 1..n /\ m + 1 \in 1..Len(frs)
  BY <1>1
<1> DEFINE fr == frs[m]
           b == B[fr.fn]
           cs == K[fr.fn]
           up == frs[m + 1]
<1>3. frs2[m] = frs[m]
  OBVIOUS
<1>4. /\ frs2[m + 1].base = up.base /\ frs2[m + 1].ctrl_base = up.ctrl_base
      /\ frs2[m + 1].results = up.results /\ frs2[m + 1].fn = up.fn
  <2>1. CASE m + 1 = n
    BY <2>1
  <2>2. CASE m + 1 # n
    <3>1. m + 1 \in 1 .. n - 1
      BY <1>1, <2>2
    <3> QED
      BY <3>1
  <2> QED
    BY <2>1, <2>2
<1>5. /\ Wait(frs, m) = up.results /\ Wait(frs2, m) = up.results
      /\ Hi(frs, st, m) = up.base /\ Hi(frs2, st2, m) = up.base
      /\ CtrlHi(frs, ct, m) = up.ctrl_base /\ CtrlHi(frs2, ct2, m) = up.ctrl_base
  BY <1>2, <1>4 DEF Wait, Hi, CtrlHi
<1>6. /\ Whole(fr.fn, b, cs)
      /\ FrameOk(fr, b, cs, Wait(frs, m), st, Hi(frs, st, m), ct, CtrlHi(frs, ct, m))
      /\ Wait(frs, m) \in Nat /\ Hi(frs, st, m) \in Nat /\ CtrlHi(frs, ct, m) \in Nat
  BY <1>2, OneFrame
<1>7. /\ up.base <= frs[n].base /\ up.ctrl_base <= frs[n].ctrl_base
      /\ up.base \in Nat /\ up.ctrl_base \in Nat
      /\ frs[n].base \in Nat /\ frs[n].ctrl_base \in Nat
  <2>1. up.base <= frs[n].base /\ up.ctrl_base <= frs[n].ctrl_base
    BY <1>2, PiecesOrdered
  <2>2. /\ up.base \in Nat /\ up.ctrl_base \in Nat
    BY <1>2, OneFrame
  <2>3. /\ frs[n].base \in Nat /\ frs[n].ctrl_base \in Nat
    BY OneFrame
  <2> QED
    BY <2>1, <2>2, <2>3
<1>8. /\ fr.pc > 1 /\ b[fr.pc - 1] = Call(up.fn)
  BY <1>2 DEF FramesOk, NthOk
<1> HIDE DEF fr, b, cs, up
<1>9. (\A i \in 1..up.base : st2[i] = st[i]) /\ \A i \in 1..up.ctrl_base : ct2[i] = ct[i]
  <2> DEFINE x == frs[n].base
             y == frs[n].ctrl_base
             v == up.base
             w == up.ctrl_base
  <2>1. (\A i \in 1..x : st2[i] = st[i]) /\ \A i \in 1..y : ct2[i] = ct[i]
    OBVIOUS
  <2>2. v <= x /\ w <= y /\ v \in Nat /\ w \in Nat /\ x \in Nat /\ y \in Nat
    BY <1>7
  <2> HIDE DEF x, y, v, w
  <2>3. (\A i \in 1..v : st2[i] = st[i]) /\ \A i \in 1..w : ct2[i] = ct[i]
    BY <2>1, <2>2
  <2> QED
    BY <2>3 DEF v, w
<1>10. FrameOk(fr, b, cs, up.results, st2, up.base, ct2, up.ctrl_base)
  BY <1>5, <1>6, <1>9, FrameKept
<1> QED
  BY <1>3, <1>4, <1>5, <1>8, <1>10 DEF NthOk, fr, b, cs

\* A step of the last frame.
LEMMA FramesMove ==
  ASSUME NEW B, NEW K, AllWhole(B, K), NEW frs, NEW st, NEW ct, FramesOk(B, K, frs, st, ct),
         NEW n, n = Len(frs), n # 0, NEW fr2, NEW st2, NEW ct2,
         TopStep(frs[n], fr2, B[frs[n].fn], K[frs[n].fn], st, st2, ct, ct2)
  PROVE  FramesOk(B, K, [frs EXCEPT ![n] = fr2], st2, ct2)
<1> DEFINE fr == frs[n]
           frs2 == [frs EXCEPT ![n] = fr2]
<1>1. /\ st2 \in Seq(ValueType) /\ ct2 \in Seq(EntryType)
      /\ Top(fr2, B[fr.fn], K[fr.fn], st2, ct2) /\ Moves(fr, fr2, fr2.pc)
      /\ \A m \in 1..fr.base : st2[m] = st[m]
      /\ \A m \in 1..fr.ctrl_base : ct2[m] = ct[m]
  BY DEF TopStep, KeepsBelow
<1>2. frs \in Seq(FrameType) /\ n \in Nat /\ Len(frs) \in Nat /\ n \in 1..Len(frs)
  BY LenProperties DEF FramesOk
<1>3. /\ fr2 \in FrameType /\ fr2.fn = fr.fn /\ fr2.base = fr.base
      /\ fr2.ctrl_base = fr.ctrl_base /\ fr2.results = fr.results
  BY <1>1 DEF Moves
<1>4. frs2 \in Seq(FrameType) /\ Len(frs2) = n /\ frs2[n] = fr2
      /\ \A m \in 1 .. n - 1 : frs2[m] = frs[m]
  <2>1. frs2 \in Seq(FrameType) /\ Len(frs2) = Len(frs)
    BY <1>2, <1>3, ExceptSeq
  <2>2. DOMAIN frs = 1..n
    BY <1>2, LenProperties
  <2>3. frs2[n] = fr2 /\ \A m \in 1 .. n - 1 : frs2[m] = frs[m]
    BY <1>2, <2>2
  <2> QED
    BY <2>1, <2>3
<1> HIDE DEF frs2
<1>5. \A m \in 1 .. n - 1 : NthOk(B, K, frs2, st2, ct2, m)
  <2>1. n <= Len(frs2) /\ Len(frs2) \in Nat
    BY <1>2, <1>4
  <2>2. /\ frs2[n].base = frs[n].base /\ frs2[n].ctrl_base = frs[n].ctrl_base
        /\ frs2[n].results = frs[n].results /\ frs2[n].fn = frs[n].fn
    BY <1>3, <1>4
  <2>3. Untouched(frs, st, ct, n, frs2, st2, ct2)
    BY <1>1, <1>4, <2>1, <2>2 DEF Untouched
  <2> QED
    BY <1>2, <2>3, CallersKept
<1>6. NthOk(B, K, frs2, st2, ct2, n)
  <2>1. Wait(frs2, n) = 0 /\ Hi(frs2, st2, n) = Len(st2) /\ CtrlHi(frs2, ct2, n) = Len(ct2)
    BY <1>2, <1>4 DEF Wait, Hi, CtrlHi
  <2>2. FrameOk(fr2, B[fr2.fn], K[fr2.fn], 0, st2, Len(st2), ct2, Len(ct2))
    BY <1>1, <1>3 DEF Top
  <2> QED
    BY <1>2, <1>4, <2>1, <2>2 DEF NthOk
<1>7. \A m \in 1..Len(frs2) : NthOk(B, K, frs2, st2, ct2, m)
  <2> TAKE m \in 1..Len(frs2)
  <2>1. m = n \/ m \in 1 .. n - 1
    BY <1>2, <1>4
  <2> QED
    BY <1>5, <1>6, <2>1
<1>8. frs2 # <<>> => frs2[1].base = 0 /\ frs2[1].ctrl_base = 0
  <2>1. frs[1].base = 0 /\ frs[1].ctrl_base = 0
    BY <1>2, EmptySeq DEF FramesOk
  <2>2. CASE n = 1
    BY <1>3, <1>4, <2>1, <2>2
  <2>3. CASE n # 1
    <3>1. 1 \in 1 .. n - 1
      BY <1>2, <2>3
    <3> QED
      BY <1>4, <2>1, <3>1
  <2> QED
    BY <2>2, <2>3
<1>9. FramesOk(B, K, frs2, st2, ct2)
  BY <1>1, <1>4, <1>7, <1>8 DEF FramesOk
<1> QED
  BY <1>9 DEF frs2

\* After a call the caller has the results of the function on what was left.
LEMMA CallPlace ==
  ASSUME NEW f, NEW b, NEW cs, Whole(f, b, cs), NEW q \in 1..Len(b), b[q].op = "call"
  PROVE  LET g == b[q].func IN
         /\ g \in DOMAIN Funcs /\ b[q] = Call(g)
         /\ \E u : Joins(cs[q + 1].stack, u, FuncTypeOf(g).outs) /\ Len(u) \in Nat
<1> DEFINE c == cs[q]
           i == b[q]
           v == Popped(c, Len(FuncTypeOf(i.func).ins))
           ts == FuncTypeOf(i.func).outs
           x == v.stack
<1>1. Live(c) /\ Accepts(f, c, i) /\ i \in Instructions
  BY PlaceFacts
<1>2. cs[q + 1] = Checked(f, c, i)
  BY PlaceFacts
<1> HIDE DEF c, i
<1>3. i.op = "call"
  BY DEF i
<1>4. i.func \in DOMAIN Funcs
  BY <1>1, <1>3 DEF Accepts, Openers
<1>5. cs[q + 1] = Pushed(v, ts)
  BY <1>2, <1>3 DEF Checked, Openers
<1>6. Len(FuncTypeOf(i.func).ins) \in Nat /\ ts \in Seq(BodyType)
  BY <1>4, FunctionTypes
<1>7. v \in CheckerType
  BY <1>1, <1>6, PoppedOk
<1> HIDE DEF v, ts
<1>8. x \in Seq(BodyType \cup {Bot}) /\ ts \in Seq(BodyType \cup {Bot})
  BY <1>6, <1>7, CheckerParts, SeqMonotonic
<1>9. cs[q + 1].stack = x \o ts
  BY <1>5, <1>7, <1>8, PushedOk
<1> HIDE DEF x
<1>10. /\ Len(x \o ts) = Len(x) + Len(ts) /\ Len(x) \in Nat
       /\ \A m \in 1..Len(x) : (x \o ts)[m] = x[m]
       /\ \A m \in 1..Len(ts) : (x \o ts)[Len(x) + m] = ts[m]
  BY <1>8, ConcatOk
<1>11. Joins(cs[q + 1].stack, x, ts)
  BY <1>9, <1>10 DEF Joins
<1>12. b[q] = Call(i.func)
  BY <1>1, <1>3, InstrParts DEF i
<1> QED
  BY <1>4, <1>10, <1>11, <1>12 DEF i, ts

\* Values without the results that are waited for.
LEMMA ValuesWait ==
  ASSUME NEW s, NEW u, NEW ts, Joins(s, u, ts), Len(u) \in Nat, Len(ts) \in Nat,
         NEW st, NEW lo \in Nat, NEW hi \in Nat
  PROVE  ValuesOk(s, Len(ts), st, lo, hi) <=> ValuesOk(u, 0, st, lo, hi)
<1>1. Len(s) = Len(u) + Len(ts) /\ \A m \in 1..Len(u) : s[m] = u[m]
  BY DEF Joins
<1>2. Len(s) - Len(ts) = Len(u) /\ Len(u) - 0 = Len(u)
  BY <1>1
<1>3. hi + Len(ts) = lo + Len(s) <=> hi + 0 = lo + Len(u)
  BY <1>1
<1>4. (\A m \in 1..Len(u) : st[lo + m].ty = s[m]) <=> \A m \in 1..Len(u) : st[lo + m].ty = u[m]
  BY <1>1
<1> QED
  BY <1>2, <1>3, <1>4 DEF ValuesOk

\* A caller gets the results on top of what it had.
LEMMA CallerResumes ==
  ASSUME NEW fr, NEW b, NEW cs, Whole(fr.fn, b, cs), NEW w, NEW st \in Seq(ValueType),
         NEW hi \in 0..Len(st), NEW ct, NEW chi \in Nat, FrameOk(fr, b, cs, w, st, hi, ct, chi),
         NEW g \in DOMAIN Funcs, fr.pc > 1, b[fr.pc - 1] = Call(g),
         w = Len(FuncTypeOf(g).outs), NEW rs, HasTypes(rs, FuncTypeOf(g).outs),
         NEW ct2, \A m \in 1..chi : ct2[m] = ct[m]
  PROVE  FrameOk(fr, b, cs, 0, Over(st, hi, rs), Len(Over(st, hi, rs)), ct2, chi)
<1> DEFINE q == fr.pc - 1
           outs == FuncTypeOf(g).outs
           st2 == Over(st, hi, rs)
           s == cs[fr.pc].stack
<1>1. /\ fr \in FrameType /\ fr.pc \in 1 .. Len(b) + 1
      /\ fr.results = Len(FuncTypeOf(fr.fn).outs) /\ TypesOf(fr.locals) = LocalsOf(fr.fn)
      /\ ValuesOk(s, w, st, fr.base, hi) /\ Typed(cs[fr.pc])
  BY DEF FrameOk
<1>2. Len(b) \in Nat /\ fr.base \in Nat
  BY <1>1, EndFacts DEF FrameType
<1>3. q \in 1..Len(b) /\ q + 1 = fr.pc
  BY <1>1, <1>2
<1>4. b[q].op = "call" /\ b[q].func = g
  BY DEF Call
<1>5. PICK u : Joins(cs[q + 1].stack, u, outs) /\ Len(u) \in Nat
  BY <1>3, <1>4, CallPlace
<1>6. Len(outs) \in Nat
  BY FunctionTypes
<1> HIDE DEF q, outs, s
<1>7. Joins(s, u, outs) /\ ValuesOk(s, Len(outs), st, fr.base, hi)
  BY <1>1, <1>3, <1>5 DEF s, outs
<1>8. hi \in Nat /\ hi \in 0..Len(st)
  <2>1. Len(st) \in Nat
    BY LenProperties
  <2> QED
    BY <2>1
<1>9. ValuesOk(u, 0, st, fr.base, hi)
  BY <1>2, <1>5, <1>6, <1>7, <1>8, ValuesWait
<1>10. HasTypes(rs, outs)
  BY DEF outs
<1>11. ValuesOk(s, 0, st2, fr.base, Len(st2))
  BY <1>2, <1>5, <1>7, <1>8, <1>9, <1>10, ValuesPush
<1>12. EntriesOk(fr.fn, b, cs, fr.pc, fr.base, ct2, fr.ctrl_base, chi)
  <2>1. (\A m \in 1..hi : st[m] = st[m]) /\ w \in Nat
    BY <1>6 DEF outs
  <2>2. FrameOk(fr, b, cs, w, st, hi, ct2, chi)
    BY <1>8, <2>1, FrameKept
  <2> QED
    BY <2>2 DEF FrameOk
<1> HIDE DEF st2
<1>13. FrameOk(fr, b, cs, 0, st2, Len(st2), ct2, chi)
  BY <1>1, <1>11, <1>12 DEF FrameOk, s
<1> QED
  BY <1>13 DEF st2

\* The last frame is gone and its results are there.
LEMMA FramePopped ==
  ASSUME NEW B, NEW K, AllWhole(B, K), NEW frs, NEW st, NEW ct, FramesOk(B, K, frs, st, ct),
         NEW n, n = Len(frs), n # 0, NEW st2,
         Results(st, st2, frs[n].base, FuncTypeOf(frs[n].fn).outs)
  PROVE  /\ FramesOk(B, K, Front(frs), st2, SubSeq(ct, 1, frs[n].ctrl_base))
         /\ Len(Front(frs)) = n - 1 /\ n \in Nat
         /\ n = 1 => TypesOf(st2) = FuncTypeOf(frs[n].fn).outs
<1> DEFINE fr == frs[n]
           outs == FuncTypeOf(fr.fn).outs
           k == fr.base
           l == fr.ctrl_base
           frs2 == Front(frs)
           ct2 == SubSeq(ct, 1, l)
<1>1. /\ st \in Seq(ValueType) /\ frs \in Seq(FrameType) /\ ct \in Seq(EntryType)
      /\ n \in Nat /\ Len(frs) \in Nat /\ n \in 1..Len(frs) /\ frs # <<>>
  BY LenProperties, EmptySeq DEF FramesOk
<1>2. PICK rs : HasTypes(rs, outs) /\ k \in 0..Len(st) /\ st2 = Over(st, k, rs)
  BY DEF Results
<1>3. /\ fr \in FrameType /\ k \in Nat /\ l \in Nat /\ Len(st) \in Nat /\ Len(ct) \in Nat
      /\ l <= CtrlHi(frs, ct, n) /\ fr.results = Len(outs) /\ fr.fn \in Local
      /\ fr.results \in Nat
  <2>1. /\ fr \in FrameType /\ k \in Nat /\ l \in Nat /\ Len(st) \in Nat /\ Len(ct) \in Nat
        /\ l <= CtrlHi(frs, ct, n) /\ fr.results \in Nat
    BY <1>1, OneFrame
  <2>2. FrameOk(fr, B[fr.fn], K[fr.fn], Wait(frs, n), st, Hi(frs, st, n),
                ct, CtrlHi(frs, ct, n))
    BY <1>1, OneFrame
  <2>3. fr.results = Len(outs) /\ fr.fn \in Local
    BY <2>1, <2>2 DEF FrameOk, FrameType
  <2> QED
    BY <2>1, <2>3
<1>4. l \in 0..Len(ct)
  <2>1. CtrlHi(frs, ct, n) = Len(ct)
    BY <1>1 DEF CtrlHi
  <2> QED
    BY <1>3, <2>1
<1> HIDE DEF fr, outs, k, l
<1>5. /\ ct2 \in Seq(EntryType) /\ Len(ct2) = l /\ \A m \in 1..l : ct2[m] = ct[m]
  BY <1>1, <1>4, PrefixOk
<1>6. /\ st2 \in Seq(ValueType) /\ Len(st2) = k + Len(rs) /\ Len(rs) \in Nat
      /\ \A m \in 1..k : st2[m] = st[m]
      /\ \A m \in 1..Len(rs) : st2[k + m] = rs[m]
  BY <1>1, <1>2, OverOk DEF HasTypes
<1>7. /\ frs2 \in Seq(FrameType) /\ Len(frs2) = n - 1
      /\ \A i \in 1 .. n - 1 : frs2[i] = frs[i]
  BY <1>1, FrontOk
<1> HIDE DEF frs2, ct2
<1>8. \A m \in 1..Len(frs2) : NthOk(B, K, frs2, st2, ct2, m)
  <2> SUFFICES ASSUME NEW m \in 1..Len(frs2)
               PROVE  NthOk(B, K, frs2, st2, ct2, m)
    OBVIOUS
  <2>1. n # 1 /\ n - 1 \in 1..Len(frs) /\ n - 1 = Len(frs2) /\ n - 1 < Len(frs)
    BY <1>1, <1>7
  <2> DEFINE up == frs[n - 1]
             b == B[up.fn]
             cs == K[up.fn]
  <2>2. /\ Whole(up.fn, b, cs) /\ up \in FrameType
        /\ FrameOk(up, b, cs, Wait(frs, n - 1), st, Hi(frs, st, n - 1), ct, CtrlHi(frs, ct, n - 1))
    BY <2>1, OneFrame
  <2>3. Wait(frs, n - 1) = Len(outs) /\ Hi(frs, st, n - 1) = k /\ CtrlHi(frs, ct, n - 1) = l
    <3>1. (n - 1) + 1 = n
      BY <1>1
    <3> QED
      BY <1>3, <2>1, <3>1 DEF Wait, Hi, CtrlHi, fr, k, l
  <2>4. up.pc > 1 /\ b[up.pc - 1] = Call(fr.fn)
    <3>1. (n - 1) + 1 = n /\ NthOk(B, K, frs, st, ct, n - 1)
      BY <1>1, <2>1 DEF FramesOk
    <3> QED
      BY <2>1, <3>1 DEF NthOk, fr
  <2>5. up.base \in Nat /\ up.ctrl_base \in Nat /\ up.base <= k /\ up.ctrl_base <= l
    <3>1. up.base \in Nat /\ up.ctrl_base \in Nat
      BY <2>1, OneFrame
    <3>2. up.base <= Hi(frs, st, n - 1) /\ up.ctrl_base <= CtrlHi(frs, ct, n - 1)
      BY <2>1, OneFrame
    <3> QED
      BY <2>3, <3>1, <3>2
  <2>6. CASE m < n - 1
    <3>1. frs2[n - 1] = up
      BY <1>7, <2>1
    <3>2. /\ \A i \in 1..frs[n - 1].base : st2[i] = st[i]
          /\ \A i \in 1..frs[n - 1].ctrl_base : ct2[i] = ct[i]
      <4> DEFINE x == up.base
                 y == up.ctrl_base
      <4>1. x \in Nat /\ y \in Nat /\ x <= k /\ y <= l
        BY <2>5
      <4> HIDE DEF x, y
      <4>2. (\A i \in 1..x : st2[i] = st[i]) /\ \A i \in 1..y : ct2[i] = ct[i]
        BY <1>3, <1>5, <1>6, <4>1
      <4> QED
        BY <4>2 DEF x, y
    <3>3. Untouched(frs, st, ct, n - 1, frs2, st2, ct2)
      <4>1. n - 1 <= Len(frs2) /\ Len(frs2) \in Nat
        BY <1>7, <2>1
      <4>2. \A i \in 1 .. (n - 1) - 1 : frs2[i] = frs[i]
        BY <1>1, <1>7
      <4> QED
        BY <3>1, <3>2, <4>1, <4>2 DEF Untouched
    <3>4. \A i \in 1 .. (n - 1) - 1 : NthOk(B, K, frs2, st2, ct2, i)
      BY <2>1, <3>3, CallersKept
    <3> QED
      BY <1>1, <2>6, <3>4
  <2>7. CASE m = n - 1
    <3>1. Wait(frs2, m) = 0 /\ Hi(frs2, st2, m) = Len(st2) /\ CtrlHi(frs2, ct2, m) = l
      BY <1>5, <2>1, <2>7 DEF Wait, Hi, CtrlHi
    <3>2. FrameOk(up, b, cs, 0, st2, Len(st2), ct2, l)
      <4>1. FrameOk(up, b, cs, Len(outs), st, k, ct, l)
        BY <2>2, <2>3
      <4>2. fr.fn \in DOMAIN Funcs
        BY <1>3, NextLocal
      <4> HIDE DEF up, b, cs
      <4>3. FrameOk(up, b, cs, 0, Over(st, k, rs), Len(Over(st, k, rs)), ct2, l)
        BY <1>1, <1>2, <1>3, <1>5, <2>2, <2>4, <4>1, <4>2, CallerResumes DEF outs
      <4> QED
        BY <1>2, <4>3
    <3>3. frs2[m] = up
      BY <1>7, <2>1, <2>7
    <3>4. ~ m < Len(frs2)
      BY <1>1, <2>1, <2>7
    <3> QED
      BY <3>1, <3>2, <3>3, <3>4 DEF NthOk
  <2> QED
    BY <1>1, <2>1, <2>6, <2>7
<1>9. frs2 # <<>> => frs2[1].base = 0 /\ frs2[1].ctrl_base = 0
  <2>1. frs[1].base = 0 /\ frs[1].ctrl_base = 0
    BY <1>1 DEF FramesOk
  <2> SUFFICES ASSUME frs2 # <<>>
               PROVE  frs2[1] = frs[1]
    BY <2>1
  <2>2. Len(frs2) # 0
    BY <1>7, EmptySeq
  <2>3. 1 \in 1 .. n - 1
    BY <1>1, <1>7, <2>2
  <2> QED
    BY <1>7, <2>3
<1>10. FramesOk(B, K, frs2, st2, ct2)
  BY <1>5, <1>6, <1>7, <1>8, <1>9 DEF FramesOk
<1>11. ASSUME n = 1
       PROVE  TypesOf(st2) = outs
  <2>1. k = 0
    BY <1>1, <1>11 DEF FramesOk, fr, k
  <2>2. /\ rs \in Seq(ValueType) /\ outs \in Seq(BodyType) /\ Len(rs) = Len(outs)
        /\ \A m \in 1..Len(outs) : rs[m].ty = outs[m]
    BY <1>2 DEF HasTypes
  <2>3. Len(st2) = Len(outs) /\ DOMAIN st2 = 1..Len(outs) /\ \A m \in 1..Len(outs) : st2[m].ty = outs[m]
    <3>1. Len(st2) = Len(outs)
      BY <1>6, <2>1, <2>2
    <3>2. DOMAIN st2 = 1..Len(outs)
      BY <1>6, <3>1, LenProperties
    <3>3. ASSUME NEW m \in 1..Len(outs)
          PROVE  st2[m].ty = outs[m]
      <4>1. st2[0 + m] = rs[m] /\ 0 + m = m
        BY <1>6, <2>1, <2>2
      <4> QED
        BY <2>2, <4>1
    <3> QED
      BY <3>1, <3>2, <3>3
  <2>4. outs = [m \in 1..Len(outs) |-> outs[m]]
    BY <2>2, LenProperties
  <2> QED
    BY <2>3, <2>4 DEF TypesOf
<1> QED
  BY <1>1, <1>7, <1>10, <1>11 DEF frs2, ct2, l, fr, outs

-----------------------------------------------------------------------------
(* A new frame.                                                            *)

\* The locals of a new frame: arguments with the types of the parameters, and
\* zeros of the declared types.
LEMMA LocalsBegin ==
  ASSUME NEW g \in DOMAIN Funcs, NEW args, HasTypes(args, FuncTypeOf(g).ins)
  PROVE  LET ls == args \o [i \in DOMAIN Funcs[g].locals |-> Value(Funcs[g].locals[i], 0)] IN
         ls \in Seq(ValueType) /\ TypesOf(ls) = LocalsOf(g)
<1> DEFINE ds == Funcs[g].locals
           ins == FuncTypeOf(g).ins
           zs == [i \in DOMAIN ds |-> Value(ds[i], 0)]
           ls == args \o zs
           ts == ins \o ds
<1>1. ds \in Seq(BodyType) /\ ins \in Seq(BodyType)
  BY FunctionTypes
<1>2. args \in Seq(ValueType) /\ Len(args) = Len(ins) /\ \A m \in 1..Len(ins) : args[m].ty = ins[m]
  BY DEF HasTypes
<1> HIDE DEF ds, ins
<1>3. DOMAIN ds = 1..Len(ds) /\ Len(ds) \in Nat /\ \A m \in 1..Len(ds) : ds[m] \in BodyType
  BY <1>1, LenProperties, ElementOfSeq
<1>4. zs = [m \in 1..Len(ds) |-> Value(ds[m], 0)] /\ \A m \in 1..Len(ds) : Value(ds[m], 0) \in ValueType
  BY <1>3 DEF Value, ValueType
<1>5. zs \in Seq(ValueType) /\ Len(zs) = Len(ds) /\ \A m \in 1..Len(ds) : zs[m].ty = ds[m]
  <2> DEFINE z == zs
  <2>1. z \in Seq(ValueType)
    BY <1>3, <1>4, SeqDef
  <2>2. Len(z) = Len(ds)
    BY <1>3, <1>4, <2>1, LenProperties
  <2>3. \A m \in 1..Len(ds) : zs[m].ty = ds[m]
    BY <1>4 DEF Value
  <2> QED
    BY <2>1, <2>2, <2>3
<1> HIDE DEF zs
<1>6. /\ ls \in Seq(ValueType) /\ Len(ls) = Len(args) + Len(zs) /\ Len(args) \in Nat
      /\ \A m \in 1..Len(args) : ls[m] = args[m]
      /\ \A m \in 1..Len(zs) : ls[Len(args) + m] = zs[m]
  <2>1. args \in Seq(ValueType) /\ zs \in Seq(ValueType)
    BY <1>2, <1>5
  <2>2. Len(args) \in Nat
    BY <2>1, LenProperties
  <2> HIDE DEF ls
  <2>3. ls = args \o zs
    BY DEF ls
  <2> QED
    BY <2>1, <2>2, <2>3, ConcatOk
<1>7. /\ ts \in Seq(BodyType) /\ Len(ts) = Len(ins) + Len(ds)
      /\ \A m \in 1..Len(ins) : ts[m] = ins[m]
      /\ \A m \in 1..Len(ds) : ts[Len(ins) + m] = ds[m]
  BY <1>1, ConcatOk
<1> HIDE DEF ls, ts
<1>8. Len(ls) = Len(ts) /\ Len(ls) \in Nat
  BY <1>2, <1>3, <1>5, <1>6, <1>7
<1>9. ASSUME NEW m \in 1..Len(ls)
      PROVE  ls[m].ty = ts[m]
  <2>1. CASE m <= Len(ins)
    BY <1>2, <1>6, <1>7, <2>1
  <2>2. CASE ~ m <= Len(ins)
    <3>1. m - Len(ins) \in 1..Len(ds) /\ Len(ins) + (m - Len(ins)) = m
      BY <1>2, <1>3, <1>6, <1>7, <1>8, <2>2
    <3>2. ls[Len(ins) + (m - Len(ins))] = zs[m - Len(ins)]
      BY <1>2, <1>5, <1>6, <3>1
    <3>3. ts[Len(ins) + (m - Len(ins))] = ds[m - Len(ins)]
      BY <1>7, <3>1
    <3> QED
      BY <1>5, <3>1, <3>2, <3>3
  <2> QED
    BY <2>1, <2>2
<1>10. TypesOf(ls) = ts
  <2>1. DOMAIN ls = 1..Len(ls) /\ ts = [m \in 1..Len(ts) |-> ts[m]]
    BY <1>6, <1>7, LenProperties
  <2> QED
    BY <1>8, <1>9, <2>1 DEF TypesOf
<1> QED
  BY <1>6, <1>10 DEF ls, ts, zs, ds, ins, LocalsOf

\* A frame for g over the stack st and the control entries ct.
NewFrame(g, ls, below, ct) ==
  [fn |-> g, locals |-> ls, pc |-> 1, base |-> below, ctrl_base |-> Len(ct),
   results |-> Len(FuncTypeOf(g).outs)]

\* ct2 is ct with one more entry.
OneEntryMore(ct, ct2) ==
  ct2 \in Seq(EntryType) /\ Len(ct2) = Len(ct) + 1 /\ \A m \in 1..Len(ct) : ct2[m] = ct[m]

\* It begins where the checker began.
LEMMA FrameBegins ==
  ASSUME NEW g, NEW b, NEW cs, Whole(g, b, cs), NEW ls \in Seq(ValueType),
         TypesOf(ls) = LocalsOf(g), NEW st2 \in Seq(ValueType), NEW below, Len(st2) = below,
         NEW ct \in Seq(EntryType), NEW fr, fr = NewFrame(g, ls, below, ct),
         NEW ct2, ct2 = Append(ct, Bottom(g, b, below))
  PROVE  /\ fr \in FrameType /\ OneEntryMore(ct, ct2)
         /\ FrameOk(fr, b, cs, 0, st2, Len(st2), ct2, Len(ct2))
<1> DEFINE e == Bottom(g, b, below)
           c == NewChecker(g)
<1>1. /\ Len(b) \in Nat \ {0} /\ g \in DOMAIN Funcs /\ g \in Local /\ cs[1] = c
  BY EndFacts DEF Whole
<1>2. Len(FuncTypeOf(g).outs) \in Nat /\ below \in Nat /\ Len(ct) \in Nat
  BY <1>1, FunctionTypes, LenProperties
<1>3. e \in EntryType
  BY <1>1, <1>2 DEF Bottom, EntryType
<1>4. fr \in FrameType
  BY <1>1, <1>2 DEF NewFrame, FrameType
<1> HIDE DEF e
<1>5. /\ ct2 \in Seq(EntryType) /\ Len(ct2) = Len(ct) + 1 /\ ct2[Len(ct) + 1] = e
      /\ \A m \in 1..Len(ct) : ct2[m] = ct[m]
  <2> DEFINE x == Append(ct, e)
  <2>1. ct2 = x
    BY DEF e
  <2>2. /\ x \in Seq(EntryType) /\ Len(x) = Len(ct) + 1 /\ x[Len(ct) + 1] = e
        /\ \A m \in 1..Len(ct) : x[m] = ct[m]
    BY <1>3, AppendOk
  <2> QED
    BY <2>1, <2>2
<1>6. c.stack = <<>> /\ Len(c.ctrls) = 1 /\ c.ctrls[1].unreachable = FALSE /\ Len(c.stack) = 0
      /\ c.ctrls # <<>>
  BY DEF NewChecker
<1>7. Typed(c)
  BY <1>6, EmptySeq DEF Typed, Alive
<1>8. /\ fr.pc = 1 /\ fr.fn = g /\ fr.base = below /\ fr.ctrl_base = Len(ct) /\ fr.locals = ls
      /\ fr.results = Len(FuncTypeOf(g).outs)
  BY DEF NewFrame
<1> HIDE DEF c
<1>9. ValuesOk(c.stack, 0, st2, below, Len(st2))
  BY <1>2, <1>6 DEF ValuesOk
<1>10. EntriesOk(g, b, cs, 1, below, ct2, Len(ct), Len(ct2))
  <2>1. \A j \in 1 .. Len(cs[1].ctrls) - 1 : FALSE
    BY <1>1, <1>6
  <2> QED
    BY <1>1, <1>5, <1>6, <2>1 DEF EntriesOk, e
<1>11. FrameOk(fr, b, cs, 0, st2, Len(st2), ct2, Len(ct2))
  BY <1>1, <1>4, <1>7, <1>8, <1>9, <1>10 DEF FrameOk
<1> QED
  BY <1>4, <1>5, <1>11 DEF OneEntryMore

\* The first frame, over nothing.
LEMMA FirstFrame ==
  ASSUME NEW B, NEW K, AllWhole(B, K), NEW g \in Local, NEW ls \in Seq(ValueType),
         TypesOf(ls) = LocalsOf(g)
  PROVE  FramesOk(B, K, Append(<<>>, NewFrame(g, ls, 0, <<>>)), <<>>,
                  Append(<<>>, Bottom(g, B[g], 0)))
<1> DEFINE fr == NewFrame(g, ls, 0, <<>>)
           frs == Append(<<>>, fr)
           ct == Append(<<>>, Bottom(g, B[g], 0))
<1>1. Whole(g, B[g], K[g])
  BY DEF AllWhole
<1>2. <<>> \in Seq(ValueType) /\ <<>> \in Seq(EntryType) /\ Len(<<>>) = 0
  BY EmptySeq
<1>3. fr \in FrameType /\ ct \in Seq(EntryType) /\ FrameOk(fr, B[g], K[g], 0, <<>>, Len(<<>>), ct, Len(ct))
  <2>1. fr = NewFrame(g, ls, 0, <<>>) /\ ct = Append(<<>>, Bottom(g, B[g], 0))
    OBVIOUS
  <2> HIDE DEF fr, ct
  <2>2. fr \in FrameType /\ OneEntryMore(<<>>, ct) /\ FrameOk(fr, B[g], K[g], 0, <<>>, Len(<<>>), ct, Len(ct))
    BY <1>1, <1>2, <2>1, FrameBegins
  <2> QED
    BY <2>2 DEF OneEntryMore
<1>4. fr.fn = g /\ fr.base = 0 /\ fr.ctrl_base = 0
  BY <1>2 DEF NewFrame
<1> HIDE DEF fr, ct
<1>5. frs = <<fr>> /\ Len(frs) = 1 /\ frs[1] = fr /\ frs \in Seq(FrameType)
  BY <1>3
<1> HIDE DEF frs
<1>6. Wait(frs, 1) = 0 /\ Hi(frs, <<>>, 1) = Len(<<>>) /\ CtrlHi(frs, ct, 1) = Len(ct)
  BY <1>5 DEF Wait, Hi, CtrlHi
<1>7. NthOk(B, K, frs, <<>>, ct, 1)
  BY <1>3, <1>4, <1>5, <1>6 DEF NthOk
<1>8. \A n \in 1..Len(frs) : n = 1
  BY <1>5
<1>9. FramesOk(B, K, frs, <<>>, ct)
  BY <1>2, <1>3, <1>4, <1>5, <1>7, <1>8 DEF FramesOk
<1> QED
  BY <1>9 DEF fr, ct, frs

\* The caller of a call it has gone past, without its arguments.
LEMMA CallerWaits ==
  ASSUME NEW fr, NEW fr2, NEW b, NEW cs, Whole(fr.fn, b, cs), NEW st \in Seq(ValueType),
         NEW ct \in Seq(EntryType), Top(fr, b, cs, st, ct), NEW q \in 1..Len(b), fr.pc = q,
         b[q].op = "call", Moves(fr, fr2, q + 1)
  PROVE  LET ty == FuncTypeOf(b[q].func)
             below == Len(st) - Len(ty.ins)
         IN /\ FrameOk(fr2, b, cs, Len(ty.outs), st, below, ct, Len(ct))
            /\ below \in 0..Len(st) /\ fr.base <= below
            /\ Len(ty.ins) \in 0..Len(st) /\ HasTypes(LastOf(st, Len(ty.ins)), ty.ins)
<1> DEFINE g == b[q].func
           ins == FuncTypeOf(g).ins
           outs == FuncTypeOf(g).outs
           c == cs[q]
           e == cs[q + 1]
           k == Len(ins)
           below == Len(st) - k
           hi == Len(ct)
           base == fr.base
<1>1. /\ fr \in FrameType /\ base \in Nat /\ fr.ctrl_base \in Nat
      /\ fr.results = Len(FuncTypeOf(fr.fn).outs)
      /\ Typed(c) /\ ValuesOk(c.stack, 0, st, base, Len(st))
      /\ EntriesOk(fr.fn, b, cs, q, base, ct, fr.ctrl_base, hi)
      /\ Len(st) \in Nat /\ hi \in Nat /\ Len(b) \in Nat \ {0}
  BY TopFacts
<1>2. g \in DOMAIN Funcs /\ \E u : Replaces(c, e, u, ins, outs)
  <2>1. FlatOk(fr.fn, c, e, b[q])
    BY <1>1, SimplePlaces
  <2> QED
    BY <2>1 DEF FlatOk
<1>3. PICK u : Replaces(c, e, u, ins, outs)
  BY <1>2
<1>4. q + 1 \in 1 .. Len(b) + 1
  BY PlaceFacts
<1>5. OpenAt(b)[q + 1] = OpenAt(b)[q]
  BY <1>1, OpenAtNext DEF OpenNext, Openers
<1>6. c.ctrls # <<>> /\ e.ctrls = c.ctrls
  BY <1>3, PlaceFacts DEF Live, Replaces
<1>7. EntriesOk(fr.fn, b, cs, q + 1, base, ct, fr.ctrl_base, hi)
  BY <1>1, <1>5, <1>6, EntriesSame
<1>8. /\ Joins(c.stack, u, ins) /\ Joins(e.stack, u, outs) /\ Len(u) \in Nat /\ Typed(e)
      /\ ins \in Seq(BodyType) /\ k \in Nat /\ Len(outs) \in Nat
  BY <1>2, <1>3, FunctionTypes DEF Replaces
<1> HIDE DEF g, ins, outs, c, e, base
<1>9. /\ ValuesOk(u, 0, st, base, below) /\ below = base + Len(u) /\ below \in 0..Len(st)
      /\ \A m \in 1..k : st[below + m].ty = ins[m]
  BY <1>1, <1>8, ValuesCut
<1>10. below \in Nat /\ base <= below /\ k \in 0..Len(st)
  BY <1>1, <1>8, <1>9
<1>11. HasTypes(LastOf(st, k), ins)
  <2>1. /\ LastOf(st, k) \in Seq(ValueType) /\ Len(LastOf(st, k)) = k
        /\ \A m \in 1..k : LastOf(st, k)[m] = st[Len(st) - k + m]
    BY <1>10, LastOfOk
  <2> QED
    BY <1>8, <1>9, <2>1 DEF HasTypes
<1> HIDE DEF below, k
<1>12. ValuesOk(e.stack, Len(outs), st, base, below)
  BY <1>1, <1>8, <1>9, <1>10, ValuesWait
<1>13. FrameOk(fr2, b, cs, Len(outs), st, below, ct, hi)
  BY <1>1, <1>4, <1>7, <1>8, <1>12 DEF FrameOk, Moves, e, base
<1> QED
  BY <1>9, <1>10, <1>11, <1>13 DEF g, ins, outs, below, k, base

\* The last frame is at a call of g, whose arguments are above `below`.
CallsNow(B, frs, st, n, q, g, below) ==
  /\ n = Len(frs) /\ q \in 1..Len(B[frs[n].fn]) /\ frs[n].pc = q
  /\ B[frs[n].fn][q].op = "call" /\ g = B[frs[n].fn][q].func
  /\ below = Len(st) - Len(FuncTypeOf(g).ins)

\* A frame for the function called, over its caller.
LEMMA FramePushed ==
  ASSUME NEW B, NEW K, AllWhole(B, K), NEW frs, NEW st, NEW ct, FramesOk(B, K, frs, st, ct),
         NEW n, n # 0, NEW q, NEW g \in Local, NEW below, CallsNow(B, frs, st, n, q, g, below),
         NEW fr2, Moves(frs[n], fr2, q + 1), NEW ls \in Seq(ValueType), TypesOf(ls) = LocalsOf(g)
  PROVE  FramesOk(B, K, Append([frs EXCEPT ![n] = fr2], NewFrame(g, ls, below, ct)),
                  SubSeq(st, 1, below), Append(ct, Bottom(g, B[g], below)))
<1> DEFINE fr == frs[n]
           b == B[fr.fn]
           cs == K[fr.fn]
           new == NewFrame(g, ls, below, ct)
           mid == [frs EXCEPT ![n] = fr2]
           frs2 == Append(mid, new)
           st2 == SubSeq(st, 1, below)
           ct2 == Append(ct, Bottom(g, B[g], below))
<1>1. /\ st \in Seq(ValueType) /\ frs \in Seq(FrameType) /\ ct \in Seq(EntryType)
      /\ n \in Nat /\ Len(frs) \in Nat /\ n \in 1..Len(frs) /\ n = Len(frs)
  BY LenProperties DEF FramesOk, CallsNow
<1>b. q \in 1..Len(b) /\ fr.pc = q /\ b[q].op = "call" /\ g = b[q].func
  BY DEF CallsNow
<1>c. below = Len(st) - Len(FuncTypeOf(g).ins)
  BY DEF CallsNow
<1>2. /\ Whole(fr.fn, b, cs) /\ fr \in FrameType /\ fr.base \in Nat /\ fr.ctrl_base \in Nat
      /\ FrameOk(fr, b, cs, Wait(frs, n), st, Hi(frs, st, n), ct, CtrlHi(frs, ct, n))
      /\ fr.ctrl_base <= CtrlHi(frs, ct, n) /\ Len(st) \in Nat /\ Len(ct) \in Nat
  BY <1>1, OneFrame
<1>3. Wait(frs, n) = 0 /\ Hi(frs, st, n) = Len(st) /\ CtrlHi(frs, ct, n) = Len(ct)
  BY <1>1 DEF Wait, Hi, CtrlHi
<1>4. Top(fr, b, cs, st, ct) /\ fr.ctrl_base <= Len(ct)
  BY <1>2, <1>3 DEF Top
<1>5. /\ fr2 \in FrameType /\ fr2.fn = fr.fn /\ fr2.base = fr.base /\ fr2.pc = q + 1
      /\ fr2.ctrl_base = fr.ctrl_base /\ fr2.results = fr.results
  BY DEF Moves
<1>6. mid \in Seq(FrameType) /\ Len(mid) = n /\ mid[n] = fr2
      /\ \A m \in 1 .. n - 1 : mid[m] = frs[m]
  <2>1. mid \in Seq(FrameType) /\ Len(mid) = Len(frs)
    BY <1>1, <1>5, ExceptSeq
  <2>2. DOMAIN frs = 1..n
    BY <1>1, LenProperties
  <2>3. mid[n] = fr2 /\ \A m \in 1 .. n - 1 : mid[m] = frs[m]
    BY <1>1, <2>2
  <2> QED
    BY <1>1, <2>1, <2>3
<1> DEFINE w == Len(FuncTypeOf(g).outs)
<1>7. /\ FrameOk(fr2, b, cs, w, st, below, ct, Len(ct))
      /\ below \in 0..Len(st) /\ fr.base <= below
  <2> HIDE DEF fr, b, cs
  <2>1. /\ q \in 1..Len(b) /\ fr.pc = q /\ b[q].op = "call" /\ g = b[q].func
        /\ Moves(fr, fr2, q + 1)
    BY <1>b DEF fr, b
  <2> QED
    BY <1>1, <1>2, <1>4, <1>c, <2>1, CallerWaits
<1>8. /\ st2 \in Seq(ValueType) /\ Len(st2) = below /\ \A m \in 1..below : st2[m] = st[m]
  BY <1>1, <1>7, PrefixOk
<1>a. below \in Nat
  <2> DEFINE l == Len(st)
  <2>1. l \in Nat /\ below \in 0..l
    BY <1>2, <1>7
  <2> HIDE DEF l
  <2> QED
    BY <2>1
<1>9. Whole(g, B[g], K[g])
  BY DEF AllWhole
<1> HIDE DEF st2
<1>10. /\ new \in FrameType /\ ct2 \in Seq(EntryType) /\ Len(ct2) = Len(ct) + 1
       /\ \A m \in 1..Len(ct) : ct2[m] = ct[m]
       /\ FrameOk(new, B[g], K[g], 0, st2, Len(st2), ct2, Len(ct2))
  <2>1. new = NewFrame(g, ls, below, ct) /\ ct2 = Append(ct, Bottom(g, B[g], below))
    OBVIOUS
  <2> HIDE DEF new, ct2
  <2> QED
    <3>1. /\ new \in FrameType /\ OneEntryMore(ct, ct2)
          /\ FrameOk(new, B[g], K[g], 0, st2, Len(st2), ct2, Len(ct2))
      <4>1. st2 \in Seq(ValueType) /\ Len(st2) = below /\ ct \in Seq(EntryType)
        BY <1>1, <1>8
      <4>2. new \in FrameType
        BY <1>9, <2>1, <4>1, FrameBegins
      <4>3. OneEntryMore(ct, ct2)
        BY <1>9, <2>1, <4>1, FrameBegins
      <4>4. FrameOk(new, B[g], K[g], 0, st2, Len(st2), ct2, Len(ct2))
        BY <1>9, <2>1, <4>1, FrameBegins
      <4> QED
        BY <4>2, <4>3, <4>4
    <3> QED
      BY <3>1 DEF OneEntryMore
<1>11. new.fn = g /\ new.base = below /\ new.ctrl_base = Len(ct) /\ new.results = w
  BY DEF NewFrame
<1> HIDE DEF new, ct2, mid
<1>12. /\ frs2 \in Seq(FrameType) /\ Len(frs2) = n + 1 /\ frs2[n + 1] = new /\ frs2[n] = fr2
       /\ \A m \in 1 .. n - 1 : frs2[m] = frs[m]
  <2>1. /\ frs2 \in Seq(FrameType) /\ Len(frs2) = Len(mid) + 1 /\ frs2[Len(mid) + 1] = new
        /\ \A m \in 1..Len(mid) : frs2[m] = mid[m]
    <3>1. frs2 = Append(mid, new)
      OBVIOUS
    <3> HIDE DEF frs2
    <3> QED
      <4>1. frs2 \in Seq(FrameType) /\ Len(frs2) = Len(mid) + 1 
        BY <1>6, <1>10, <3>1, AppendOk
      <4>2. frs2[Len(mid) + 1] = new
        BY <1>6, <1>10, <3>1, AppendOk
      <4>3. ASSUME NEW m \in 1..Len(mid)
            PROVE  frs2[m] = mid[m]
        BY <1>6, <1>10, <3>1, AppendOk
      <4> QED
        BY <4>1, <4>2, <4>3
  <2> HIDE DEF frs2
  <2> QED
    BY <1>1, <1>6, <2>1
<1> HIDE DEF frs2
<1>13. \A m \in 1 .. n - 1 : NthOk(B, K, frs2, st2, ct2, m)
  <2>1. (\A i \in 1..fr.base : st2[i] = st[i]) /\ \A i \in 1..fr.ctrl_base : ct2[i] = ct[i]
    <3> DEFINE x == fr.base
               y == fr.ctrl_base
               z == Len(ct)
    <3>1. x \in Nat /\ y \in Nat /\ z \in Nat /\ x <= below /\ y <= z
      BY <1>2, <1>4, <1>7
    <3>2. \A m \in 1..z : ct2[m] = ct[m]
      BY <1>10
    <3> HIDE DEF x, y, z
    <3>3. (\A i \in 1..x : st2[i] = st[i]) /\ \A i \in 1..y : ct2[i] = ct[i]
      BY <1>8, <1>a, <3>1, <3>2
    <3> QED
      BY <3>3 DEF x, y
  <2>2. n <= Len(frs2) /\ Len(frs2) \in Nat
    BY <1>1, <1>12
  <2>3. Untouched(frs, st, ct, n, frs2, st2, ct2)
    BY <1>5, <1>12, <2>1, <2>2 DEF Untouched
  <2> QED
    BY <1>1, <2>3, CallersKept
<1>14. NthOk(B, K, frs2, st2, ct2, n)
  <2>1. Wait(frs2, n) = w /\ Hi(frs2, st2, n) = below /\ CtrlHi(frs2, ct2, n) = Len(ct)
    BY <1>1, <1>11, <1>12 DEF Wait, Hi, CtrlHi
  <2>2. FrameOk(fr2, b, cs, w, st2, below, ct2, Len(ct))
    <3>1. fr2.fn = fr.fn /\ below \in Nat /\ w \in Nat
      <4>1. g \in DOMAIN Funcs
        BY NextLocal
      <4> QED
        BY <1>5, <1>a, <4>1, FunctionTypes
    <3>2. Whole(fr2.fn, b, cs)
      BY <1>2, <3>1
    <3> HIDE DEF b, cs, w
    <3> QED
      BY <1>2, <1>7, <1>8, <1>10, <3>1, <3>2, FrameKept
  <2>3. fr2.pc > 1 /\ b[fr2.pc - 1] = Call(g)
    <3>1. q + 1 > 1 /\ (q + 1) - 1 = q
      <4>1. Len(b) \in Nat /\ q \in 1..Len(b)
        BY <1>2, <1>b, EndFacts
      <4> HIDE DEF b
      <4> QED
        BY <4>1
    <3>2. b[q] = Call(g)
      <4>1. b[q] = Call(b[q].func)
        BY <1>2, <1>b, CallPlace
      <4> QED
        BY <1>b, <4>1
    <3> QED
      BY <1>5, <3>1, <3>2
  <2> QED
    BY <1>5, <1>11, <1>12, <2>1, <2>2, <2>3 DEF NthOk
<1>15. NthOk(B, K, frs2, st2, ct2, n + 1)
  <2>1. /\ Wait(frs2, n + 1) = 0 /\ Hi(frs2, st2, n + 1) = Len(st2)
        /\ CtrlHi(frs2, ct2, n + 1) = Len(ct2) /\ ~ n + 1 < Len(frs2)
    BY <1>1, <1>12 DEF Wait, Hi, CtrlHi
  <2> QED
    BY <1>10, <1>11, <1>12, <2>1 DEF NthOk
<1>16. \A m \in 1..Len(frs2) : NthOk(B, K, frs2, st2, ct2, m)
  <2> TAKE m \in 1..Len(frs2)
  <2>1. m = n + 1 \/ m = n \/ m \in 1 .. n - 1
    BY <1>1, <1>12
  <2> QED
    BY <1>13, <1>14, <1>15, <2>1
<1>17. frs2[1].base = 0 /\ frs2[1].ctrl_base = 0
  <2>1. frs[1].base = 0 /\ frs[1].ctrl_base = 0
    BY <1>1, EmptySeq DEF FramesOk
  <2>2. CASE n = 1
    BY <1>5, <1>12, <2>1, <2>2
  <2>3. CASE n # 1
    <3>1. 1 \in 1 .. n - 1
      BY <1>1, <2>3
    <3> QED
      BY <1>12, <2>1, <3>1
  <2> QED
    BY <2>2, <2>3
<1>18. FramesOk(B, K, frs2, st2, ct2)
  BY <1>8, <1>10, <1>12, <1>16, <1>17 DEF FramesOk
<1> QED
  BY <1>18 DEF frs2, mid, new, st2, ct2

-----------------------------------------------------------------------------
(* The machine at work.                                                    *)

Checks == checked[Frame.fn]

\* When all is validated, everything is known of every body.
LEMMA WholeCode ==
  ASSUME StructInv, BeginsOk, phase \in {"ready", "run", "done", "trap"}
  PROVE  AllWhole(bodies, checked)
<1> SUFFICES ASSUME NEW f \in Local
             PROVE  Whole(f, bodies[f], checked[f])
  BY DEF AllWhole
<1>1. /\ BodyOk(bodies[f], <<>>, TRUE) /\ AllChecked(f, bodies[f], checked[f])
      /\ checked \in [DOMAIN Funcs -> Seq(CheckerType)]
  BY DEF StructInv, DecodeInv, CheckInv
<1>2. f \in DOMAIN Funcs
  BY NextLocal
<1> HIDE DEF Local
<1>3. checked[f] \in Seq(CheckerType)
  BY <1>1, <1>2
<1>4. checked[f] # <<>>
  <2>1. Len(checked[f]) = Len(bodies[f]) + 1 /\ Len(bodies[f]) \in Nat
    BY <1>1, CompleteBody DEF AllChecked
  <2> QED
    BY <2>1
<1>5. checked[f][1] = NewChecker(f)
  BY <1>4 DEF BeginsOk
<1> QED
  BY <1>1, <1>3, <1>5 DEF Whole

\* The running frame is the last one, and it has the top of both stacks.
LEMMA Here ==
  ASSUME RunInv, phase = "run"
  PROVE  /\ AllWhole(bodies, checked) /\ FramesOk(bodies, checked, frames, stack, ctrls)
         /\ stack \in Seq(ValueType) /\ ctrls \in Seq(EntryType) /\ frames \in Seq(FrameType)
         /\ Len(frames) \in Nat \ {0} /\ Frame = frames[Len(frames)] /\ Frame \in FrameType
         /\ Whole(Frame.fn, Body, Checks) /\ Top(Frame, Body, Checks, stack, ctrls)
         /\ Frame.pc \in 1 .. Len(Body) + 1 /\ Frame.pc \in Nat /\ Len(Body) \in Nat \ {0}
         /\ Len(stack) \in Nat /\ Len(ctrls) \in Nat
         /\ Frame.base \in Nat /\ Frame.ctrl_base \in Nat /\ Frame.ctrl_base <= Len(ctrls)
         /\ TypesOf(Frame.locals) = LocalsOf(Frame.fn)
         /\ Frame.results = Len(FuncTypeOf(Frame.fn).outs)
<1>1. AllWhole(bodies, checked)
  BY WholeCode DEF RunInv
<1>2. FramesOk(bodies, checked, frames, stack, ctrls) /\ frames # <<>>
  BY DEF RunInv, MachineOk
<1>3. stack \in Seq(ValueType) /\ ctrls \in Seq(EntryType) /\ frames \in Seq(FrameType)
  BY <1>2 DEF FramesOk
<1>4. Len(frames) \in Nat \ {0} /\ Len(frames) \in 1..Len(frames) /\ Frame = frames[Len(frames)]
  BY <1>2, <1>3, LenProperties, EmptySeq DEF Frame, Last
<1> DEFINE n == Len(frames)
<1>5. /\ Whole(frames[n].fn, bodies[frames[n].fn], checked[frames[n].fn]) /\ frames[n] \in FrameType
      /\ FrameOk(frames[n], bodies[frames[n].fn], checked[frames[n].fn], Wait(frames, n), stack,
                 Hi(frames, stack, n), ctrls, CtrlHi(frames, ctrls, n))
  BY <1>1, <1>2, <1>4, OneFrame
<1>6. Wait(frames, n) = 0 /\ Hi(frames, stack, n) = Len(stack) /\ CtrlHi(frames, ctrls, n) = Len(ctrls)
  BY <1>4 DEF Wait, Hi, CtrlHi
<1>7. Whole(Frame.fn, Body, Checks) /\ Top(Frame, Body, Checks, stack, ctrls) /\ Frame \in FrameType
  BY <1>4, <1>5, <1>6 DEF Top, Body, Checks
<1> HIDE DEF n
<1>8. /\ Frame.pc \in 1 .. Len(Body) + 1 /\ Len(Body) \in Nat \ {0}
      /\ Len(stack) \in Nat /\ Len(ctrls) \in Nat
      /\ Frame.base \in Nat /\ Frame.ctrl_base \in Nat /\ Frame.ctrl_base <= Len(ctrls)
      /\ TypesOf(Frame.locals) = LocalsOf(Frame.fn)
      /\ Frame.results = Len(FuncTypeOf(Frame.fn).outs)
  BY <1>3, <1>7, TopFacts
<1>9. Frame.pc \in Nat
  BY <1>7 DEF FrameType
<1> QED
  BY <1>1, <1>2, <1>3, <1>4, <1>7, <1>8, <1>9

\* The instruction at hand.
LEMMA AtHere ==
  ASSUME RunInv, NEW ops, At(ops)
  PROVE  /\ phase = "run" /\ Frame.pc \in 1..Len(Body) /\ Instr = Body[Frame.pc]
         /\ Instr.op \in ops /\ Instr \in Instructions
         /\ Accepts(Frame.fn, Checks[Frame.pc], Instr) /\ Live(Checks[Frame.pc])
         /\ Typed(Checks[Frame.pc])
         /\ ValuesOk(Checks[Frame.pc].stack, 0, stack, Frame.base, Len(stack))
<1>1. phase = "run" /\ Frame.pc <= Len(Body) /\ Instr.op \in ops
  BY DEF At
<1>2. /\ Frame.pc \in 1 .. Len(Body) + 1 /\ Frame.pc \in Nat /\ Len(Body) \in Nat
      /\ Whole(Frame.fn, Body, Checks) /\ Top(Frame, Body, Checks, stack, ctrls)
      /\ stack \in Seq(ValueType) /\ ctrls \in Seq(EntryType)
  BY <1>1, Here
<1> DEFINE q == Frame.pc
<1> HIDE DEF q
<1>3. q \in 1..Len(Body)
  BY <1>1, <1>2 DEF q
<1>4. Body[q] \in Instructions /\ Live(Checks[q]) /\ Accepts(Frame.fn, Checks[q], Body[q])
  BY <1>2, <1>3, PlaceFacts
<1>5. Typed(Checks[Frame.pc]) /\ ValuesOk(Checks[Frame.pc].stack, 0, stack, Frame.base, Len(stack))
  BY <1>2, TopFacts
<1> QED
  BY <1>1, <1>3, <1>4, <1>5 DEF q, Instr

-----------------------------------------------------------------------------
(* What a step is: the running frame goes on, returns, calls, or all is    *)
(* dropped.                                                                *)

\* Position t follows with the stacks as the step leaves them.
Steps(t) ==
  \A fr2 : Moves(Frame, fr2, t) =>
    TopStep(Frame, fr2, Body, Checks, stack, stack', ctrls, ctrls')

GoesOn ==
  /\ phase' = "run" /\ locals_total' = locals_total
  /\ \E fr2 : /\ frames' = [frames EXCEPT ![Len(frames)] = fr2]
              /\ Len(fr2.locals) = Len(Frame.locals)
              /\ TopStep(Frame, fr2, Body, Checks, stack, stack', ctrls, ctrls')

Returns ==
  /\ phase' = IF Len(frames) = 1 THEN "done" ELSE "run"
  /\ locals_total' = locals_total - Len(Frame.locals)
  /\ frames' = Front(frames) /\ ctrls' = SubSeq(ctrls, 1, Frame.ctrl_base)
  /\ Results(stack, stack', Frame.base, FuncTypeOf(Frame.fn).outs)

CallsTo(q, g, below, ls, fr2) ==
  /\ CallsNow(bodies, frames, stack, Len(frames), q, g, below) /\ g \in Local
  /\ Moves(Frame, fr2, q + 1) /\ Len(fr2.locals) = Len(Frame.locals)
  /\ ls \in Seq(ValueType) /\ TypesOf(ls) = LocalsOf(g)
  /\ ~ below + locals_total + Len(ls) > MAX_VALUE_STACK
  /\ locals_total' = locals_total + Len(ls)
  /\ frames' = Append([frames EXCEPT ![Len(frames)] = fr2], NewFrame(g, ls, below, ctrls))
  /\ stack' = SubSeq(stack, 1, below)
  /\ ctrls' = Append(ctrls, Bottom(g, bodies[g], below))

Calls == phase' = "run" /\ \E q, g, below, ls, fr2 : CallsTo(q, g, below, ls, fr2)

\* A step that only moves the position.
LEMMA JumpsTo ==
  ASSUME RunInv, phase = "run", NEW t \in Nat, Jump(t), Steps(t), phase' = phase,
         locals_total' = locals_total
  PROVE  GoesOn
<1> DEFINE fr2 == [Frame EXCEPT !.pc = t]
<1>1. /\ Frame = frames[Len(frames)] /\ Frame \in FrameType
      /\ TypesOf(Frame.locals) = LocalsOf(Frame.fn)
  BY Here
<1>2. frames' = [frames EXCEPT ![Len(frames)] = fr2]
  BY <1>1 DEF Jump
<1>3. Moves(Frame, fr2, t)
  BY <1>1, MovedFrame
<1>4. fr2.locals = Frame.locals
  BY <1>1 DEF FrameType
<1> HIDE DEF fr2
<1>5. TopStep(Frame, fr2, Body, Checks, stack, stack', ctrls, ctrls')
  BY <1>3 DEF Steps
<1> QED
  BY <1>2, <1>4, <1>5 DEF GoesOn

-----------------------------------------------------------------------------
(* Blocks.                                                                 *)

\* An else has a target.
LEMMA ElseParts ==
  ASSUME NEW i \in Instructions, i.op = "else"
  PROVE  i.end \in Nat
BY DEF Instructions, InstrOf

\* What a block's entry says.
LEMMA EntryHere ==
  ASSUME RunInv, NEW ops, At(ops), Instr.op \in Openers
  PROVE  /\ Entry(Body, Checks, Frame.base, Frame.pc) =
              [target |-> IF Instr.op = "loop" THEN Frame.pc ELSE Instr.end,
               arity |-> Len(LabelOf(Instr)), height |-> Len(stack) - Taken(Instr)]
         /\ Typed(Checks[Frame.pc]) /\ Instr.bt \in DOMAIN Types
         /\ Len(Types[Instr.bt].ins) \in Nat
<1> DEFINE q == Frame.pc
<1>1. /\ q \in 1..Len(Body) /\ Instr = Body[q] /\ phase = "run" /\ Frame.pc = q
      /\ Typed(Checks[q])
  BY AtHere
<1> HIDE DEF q
<1>2. /\ Whole(Frame.fn, Body, Checks) /\ Top(Frame, Body, Checks, stack, ctrls)
      /\ stack \in Seq(ValueType) /\ ctrls \in Seq(EntryType)
  BY <1>1, Here
<1>3. Body[q].op \in Openers
  BY <1>1
<1>4. Entry(Body, Checks, Frame.base, q) =
        [target |-> IF Body[q].op = "loop" THEN q ELSE Body[q].end,
         arity |-> Len(LabelOf(Body[q])), height |-> Len(stack) - Taken(Body[q])]
  BY <1>1, <1>2, <1>3, EntryIs
<1>5. Body[q].bt \in DOMAIN Types
  BY <1>1, <1>2, <1>3, OpenerPops
<1>6. Len(Types[Instr.bt].ins) \in Nat
  BY <1>1, <1>5, BlockTypes
<1> QED
  BY <1>1, <1>4, <1>5, <1>6

\* A block or a loop is entered.
LEMMA BlockSteps ==
  ASSUME RunInv, ExecBlock
  PROVE  GoesOn
<1> DEFINE q == Frame.pc
<1>1. /\ At({"block", "loop"}) /\ stack' = stack /\ phase' = phase
      /\ locals_total' = locals_total /\ Jump(q + 1)
  BY DEF ExecBlock, Next1
<1>2. /\ q \in 1..Len(Body) /\ Instr = Body[q] /\ phase = "run" /\ Frame.pc = q
      /\ Instr.op \in {"block", "loop"} /\ Typed(Checks[q])
  BY <1>1, AtHere
<1>3. Instr.op \in Openers
  BY <1>2 DEF Openers
<1>4. /\ Entry(Body, Checks, Frame.base, q) =
           [target |-> IF Instr.op = "loop" THEN q ELSE Instr.end,
            arity |-> Len(LabelOf(Instr)), height |-> Len(stack) - Taken(Instr)]
      /\ Len(Types[Instr.bt].ins) \in Nat
  BY <1>1, <1>3, EntryHere
<1>5. Taken(Instr) = Len(Types[Instr.bt].ins)
  <2> DEFINE x == Len(Types[Instr.bt].ins)
  <2>1. Instr.op # "if"
    BY <1>2
  <2>2. Taken(Instr) = x + 0 /\ x \in Nat
    BY <1>4, <2>1 DEF Taken
  <2> HIDE DEF x
  <2>3. Taken(Instr) = x
    BY <2>2
  <2> QED
    BY <2>3 DEF x
<1>6. ctrls' = Append(ctrls, Entry(Body, Checks, Frame.base, q))
  <2>1. CASE Instr.op = "block"
    BY <1>4, <1>5, <2>1 DEF ExecBlock, Enter, LabelOf
  <2>2. CASE Instr.op = "loop"
    BY <1>4, <1>5, <2>2 DEF ExecBlock, Enter, LabelOf
  <2> QED
    BY <1>2, <2>1, <2>2
<1> HIDE DEF q
<1>7. /\ Whole(Frame.fn, Body, Checks) /\ Top(Frame, Body, Checks, stack, ctrls)
      /\ stack \in Seq(ValueType) /\ ctrls \in Seq(EntryType)
  BY <1>2, Here
<1>8. Steps(q + 1)
  <2> SUFFICES ASSUME NEW fr2, Moves(Frame, fr2, q + 1)
               PROVE  TopStep(Frame, fr2, Body, Checks, stack, stack', ctrls, ctrls')
    BY DEF Steps
  <2>1. Body[q].op \in Openers /\ Body[q].op # "if"
    BY <1>2, <1>3
  <2>2. Enters(Body, Checks, q, q + 1)
    BY <1>2, <1>7, <2>1, FirstArm
  <2>3. TopStep(Frame, fr2, Body, Checks, stack,
                IF Body[q].op = "if" THEN SubSeq(stack, 1, Len(stack) - 1) ELSE stack,
                ctrls, Append(ctrls, Entry(Body, Checks, Frame.base, q)))
    BY <1>2, <1>7, <2>1, <2>2, EnterMove
  <2> QED
    BY <1>1, <1>6, <2>1, <2>3
<1>9. q + 1 \in Nat
  BY <1>2
<1> QED
  BY <1>1, <1>2, <1>8, <1>9, JumpsTo

\* An if enters one of its arms or skips the only one.
LEMMA IfSteps ==
  ASSUME RunInv, ExecIf
  PROVE  GoesOn
<1> DEFINE q == Frame.pc
<1>1. /\ At({"if"}) /\ stack' = Below(1) /\ phase' = phase
      /\ locals_total' = locals_total /\ Holds(<<"i32">>)
  BY DEF ExecIf
<1>2. /\ q \in 1..Len(Body) /\ Instr = Body[q] /\ phase = "run" /\ Frame.pc = q
      /\ Instr.op = "if" /\ Typed(Checks[q]) /\ Instr \in Instructions
  BY <1>1, AtHere
<1>3. Instr.op \in Openers
  BY <1>2 DEF Openers
<1>4. /\ Entry(Body, Checks, Frame.base, q) =
           [target |-> IF Instr.op = "loop" THEN q ELSE Instr.end,
            arity |-> Len(LabelOf(Instr)), height |-> Len(stack) - Taken(Instr)]
      /\ Len(Types[Instr.bt].ins) \in Nat
  BY <1>1, <1>3, EntryHere
<1>5. Taken(Instr) = Len(Types[Instr.bt].ins) + 1 /\ LabelOf(Instr) = Types[Instr.bt].outs
  BY <1>2, <1>4 DEF Taken, LabelOf
<1>7. /\ Whole(Frame.fn, Body, Checks) /\ Top(Frame, Body, Checks, stack, ctrls)
      /\ stack \in Seq(ValueType) /\ ctrls \in Seq(EntryType) /\ Len(stack) \in Nat
  BY <1>2, Here
<1>8. Len(stack) >= 1 /\ Len(Below(1)) = Len(stack) - 1
  <2>1. Len(stack) >= 1
    BY <1>1, <1>7 DEF Holds
  <2>2. Len(stack) - 1 \in 0..Len(stack)
    BY <1>7, <2>1
  <2> QED
    BY <1>7, <2>1, <2>2, PrefixOk DEF Below
<1>9. ASSUME Enter(Below(1), Instr.end, Len(Types[Instr.bt].outs))
      PROVE  ctrls' = Append(ctrls, Entry(Body, Checks, Frame.base, q))
  <2>1. Len(Below(1)) - Len(Types[Instr.bt].ins) = Len(stack) - Taken(Instr)
    BY <1>4, <1>5, <1>7, <1>8
  <2> QED
    BY <1>2, <1>4, <1>5, <1>9, <2>1 DEF Enter
<1> HIDE DEF q
<1>10. ASSUME NEW t, Enters(Body, Checks, q, t),
              ctrls' = Append(ctrls, Entry(Body, Checks, Frame.base, q))
       PROVE  Steps(t)
  <2> SUFFICES ASSUME NEW fr2, Moves(Frame, fr2, t)
               PROVE  TopStep(Frame, fr2, Body, Checks, stack, stack', ctrls, ctrls')
    BY DEF Steps
  <2>1. Body[q].op \in Openers /\ Body[q].op = "if"
    BY <1>2, <1>3
  <2>3. TopStep(Frame, fr2, Body, Checks, stack,
                IF Body[q].op = "if" THEN SubSeq(stack, 1, Len(stack) - 1) ELSE stack,
                ctrls, Append(ctrls, Entry(Body, Checks, Frame.base, q)))
    BY <1>2, <1>7, <1>10, <2>1, EnterMove
  <2> QED
    BY <1>1, <1>10, <2>1, <2>3 DEF Below
<1>11. CASE Enter(Below(1), Instr.end, Len(Types[Instr.bt].outs)) /\ Next1
  <2>1. Jump(q + 1) /\ q + 1 \in Nat
    BY <1>2, <1>11 DEF Next1
  <2>2. Enters(Body, Checks, q, q + 1)
    BY <1>2, <1>3, <1>7, FirstArm
  <2>3. Steps(q + 1)
    BY <1>9, <1>10, <1>11, <2>2
  <2> QED
    BY <1>1, <1>2, <2>1, <2>3, JumpsTo
<1>12. CASE Instr.else_ # Instr.end /\ Jump(Instr.else_)
            /\ Enter(Below(1), Instr.end, Len(Types[Instr.bt].outs))
  <2>1. Enters(Body, Checks, q, Instr.else_)
    BY <1>2, <1>7, <1>12, SecondArm
  <2>2. Instr.else_ \in Nat
    <3>1. Len(Body) \in Nat
      BY <1>2, Here
    <3> QED
      BY <2>1, <3>1 DEF Enters
  <2>3. Steps(Instr.else_)
    BY <1>9, <1>10, <1>12, <2>1
  <2> QED
    BY <1>1, <1>2, <1>12, <2>2, <2>3, JumpsTo
<1>13. CASE Instr.else_ = Instr.end /\ Jump(Instr.end) /\ ctrls' = ctrls
  <2>1. Body[q].op = "if" /\ Body[q].else_ = Body[q].end
    BY <1>2, <1>13
  <2>2. Steps(Instr.end)
    <3> SUFFICES ASSUME NEW fr2, Moves(Frame, fr2, Instr.end)
                 PROVE  TopStep(Frame, fr2, Body, Checks, stack, stack', ctrls, ctrls')
      BY DEF Steps
    <3>1. Moves(Frame, fr2, Body[q].end)
      BY <1>2
    <3>2. TopStep(Frame, fr2, Body, Checks, stack, SubSeq(stack, 1, Len(stack) - 1), ctrls, ctrls)
      BY <1>2, <1>7, <2>1, <3>1, SkipMove
    <3> QED
      BY <1>1, <1>13, <3>2 DEF Below
  <2>3. Instr.end \in Nat
    BY <1>2, <1>3, <1>7, EndResumes
  <2> QED
    BY <1>1, <1>2, <1>13, <2>2, <2>3, JumpsTo
<1> QED
  BY <1>11, <1>12, <1>13 DEF ExecIf

\* An arm ends, or the body does.
LEMMA EndSteps ==
  ASSUME RunInv, ExecElse \/ ExecEnd
  PROVE  GoesOn
<1> DEFINE q == Frame.pc
           t == IF Instr.op = "else" THEN Instr.end ELSE q + 1
<1>1. /\ At({"else", "end"}) /\ stack' = stack /\ phase' = phase /\ ctrls' = Front(ctrls)
      /\ locals_total' = locals_total /\ Jump(t)
  <2>1. CASE ExecElse
    BY <2>1 DEF ExecElse, At
  <2>2. CASE ExecEnd
    BY <2>2 DEF ExecEnd, At, Next1
  <2> QED
    BY <2>1, <2>2
<1>2. /\ q \in 1..Len(Body) /\ Instr = Body[q] /\ phase = "run" /\ Frame.pc = q
      /\ Instr.op \in {"else", "end"} /\ Typed(Checks[q]) /\ Instr \in Instructions
  BY <1>1, AtHere
<1>3. /\ Whole(Frame.fn, Body, Checks) /\ Top(Frame, Body, Checks, stack, ctrls)
      /\ stack \in Seq(ValueType) /\ ctrls \in Seq(EntryType) /\ Len(stack) \in Nat
  BY <1>2, Here
<1>4. Instr.op = "else" => OpenAt(Body)[q] # <<>> /\ Instr.end \in Nat
  <2>1. PlaceOk(Body, <<>>, TRUE, q)
    BY <1>2, <1>3 DEF Whole, BodyOk
  <2>2. Instr.op = "else" => Instr.end \in Nat
    BY <1>2, ElseParts
  <2> QED
    BY <1>2, <2>1, <2>2 DEF PlaceOk
<1>5. t \in Nat
  BY <1>2, <1>4
<1> HIDE DEF q
<1>6. Steps(t)
  <2> SUFFICES ASSUME NEW fr2, Moves(Frame, fr2, t)
               PROVE  TopStep(Frame, fr2, Body, Checks, stack, stack', ctrls, ctrls')
    BY DEF Steps
  <2>1. Moves(Frame, fr2, IF Body[q].op = "else" THEN Body[q].end ELSE q + 1)
    BY <1>2
  <2>2. Body[q].op \in {"else", "end"}
    BY <1>2
  <2> HIDE DEF t
  <2>3. CASE OpenAt(Body)[q] # <<>>
    <3>1. TopStep(Frame, fr2, Body, Checks, stack, stack, ctrls, Front(ctrls))
      BY <1>2, <1>3, <2>1, <2>2, <2>3, ArmMove
    <3> QED
      BY <1>1, <3>1
  <2>4. CASE OpenAt(Body)[q] = <<>>
    <3>1. Body[q].op = "end" /\ Moves(Frame, fr2, q + 1)
      BY <1>2, <1>4, <2>1, <2>4
    <3>2. TopStep(Frame, fr2, Body, Checks, stack, stack, ctrls, Front(ctrls))
      BY <1>2, <1>3, <2>4, <3>1, FinalMove
    <3> QED
      BY <1>1, <3>2
  <2> QED
    BY <2>3, <2>4
<1> QED
  <2> HIDE DEF t
  <2> QED
    BY <1>1, <1>2, <1>5, <1>6, JumpsTo

-----------------------------------------------------------------------------
(* Returns and branches.                                                   *)

\* pop_frame with the results on top of what it is given.
LEMMA PopReturns ==
  ASSUME RunInv, phase = "run", NEW st, PopFrame(st),
         Results(stack, Keep(st, Len(FuncTypeOf(Frame.fn).outs), Frame.base), Frame.base,
                 FuncTypeOf(Frame.fn).outs)
  PROVE  Returns
<1>1. /\ Frame.results = Len(FuncTypeOf(Frame.fn).outs) /\ Frame.ctrl_base \in Nat
      /\ Len(ctrls) \in Nat /\ Frame.ctrl_base <= Len(ctrls)
  BY Here
<1>2. Min({Frame.ctrl_base, Len(ctrls)}) = Frame.ctrl_base
  <2> DEFINE x == Frame.ctrl_base
             y == Len(ctrls)
  <2>1. x \in Int /\ y \in Int /\ x <= y
    BY <1>1
  <2> HIDE DEF x, y
  <2>2. Min({x, y}) = x
    BY <2>1, MinOfTwo
  <2> QED
    BY <2>2 DEF x, y
<1>3. /\ stack' = Keep(st, Frame.results, Frame.base) /\ frames' = Front(frames)
      /\ ctrls' = SubSeq(ctrls, 1, Min({Frame.ctrl_base, Len(ctrls)}))
      /\ locals_total' = locals_total - Len(Frame.locals)
      /\ phase' = IF Len(frames) = 1 THEN "done" ELSE phase
  BY DEF PopFrame, Frame
<1>4. Results(stack, stack', Frame.base, FuncTypeOf(Frame.fn).outs)
  BY <1>1, <1>3
<1> QED
  BY <1>2, <1>3, <1>4 DEF Returns

\* A branch goes to its label or returns.
LEMMA BranchSteps ==
  ASSUME RunInv, phase = "run", NEW n, NEW d, BranchOk(Frame, Body, Checks, stack, ctrls, n, d),
         NEW st, st = SubSeq(stack, 1, n), Branch(d, st)
  PROVE  GoesOn \/ Returns
<1> DEFINE idx  == Len(ctrls) - d
           c    == ctrls[idx]
           kept == Keep(st, c.arity, c.height)
           outs == FuncTypeOf(Frame.fn).outs
<1>1. CASE idx = Frame.ctrl_base + 1
  <2>1. Results(stack, kept, Frame.base, outs) /\ Keep(kept, Len(outs), Frame.base) = kept
    BY <1>1 DEF BranchOk
  <2>2. PopFrame(kept)
    BY <1>1 DEF Branch
  <2> HIDE DEF kept
  <2>3. Results(stack, Keep(kept, Len(outs), Frame.base), Frame.base, outs)
    BY <2>1
  <2> QED
    BY <2>2, <2>3, PopReturns
<1>2. CASE idx # Frame.ctrl_base + 1
  <2>1. /\ stack' = kept /\ ctrls' = SubSeq(ctrls, 1, idx - 1) /\ Jump(c.target)
        /\ phase' = phase /\ locals_total' = locals_total
    BY <1>2 DEF Branch
  <2>2. c.target \in Nat /\
        \A fr2 : Moves(Frame, fr2, c.target) =>
                 TopStep(Frame, fr2, Body, Checks, stack, kept, ctrls, SubSeq(ctrls, 1, idx - 1))
    BY <1>2 DEF BranchOk
  <2> HIDE DEF c, kept, idx
  <2>3. Steps(c.target)
    BY <2>1, <2>2 DEF Steps
  <2> QED
    BY <2>1, <2>2, <2>3, JumpsTo
<1> QED
  BY <1>1, <1>2

\* The value on top of an i32 is one.
LEMMA TopValue ==
  ASSUME RunInv, phase = "run", Holds(<<"i32">>)
  PROVE  /\ Len(stack) >= 1 /\ stack # <<>> /\ Last(stack) \in ValueType /\ Last(stack).val \in Nat
         /\ Len(stack) - 1 \in 0..Len(stack) /\ Last(stack) = stack[Len(stack)]
         /\ Len(stack) \in 1..Len(stack)
<1>1. stack \in Seq(ValueType) /\ Len(stack) \in Nat
  BY Here
<1>2. Len(stack) >= 1
  BY <1>1 DEF Holds
<1>3. stack # <<>> /\ Len(stack) \in 1..Len(stack) /\ Len(stack) - 1 \in 0..Len(stack)
  BY <1>1, <1>2
<1>4. Last(stack) = stack[Len(stack)] /\ Last(stack) \in ValueType
  BY <1>1, <1>3, ElementOfSeq DEF Last
<1> QED
  BY <1>2, <1>3, <1>4 DEF ValueType

\* br.
LEMMA BrSteps ==
  ASSUME RunInv, ExecBr
  PROVE  GoesOn \/ Returns
<1> DEFINE q == Frame.pc
           c == Checks[q]
           d == Instr.depth
           ts == LabelTypes(c, d)
<1>1. At({"br"}) /\ Branch(d, stack)
  BY DEF ExecBr
<1>2. /\ phase = "run" /\ q \in 1..Len(Body) /\ Instr = Body[q] /\ Frame.pc = q
      /\ Instr.op = "br" /\ Instr \in Instructions /\ Accepts(Frame.fn, c, Instr)
      /\ Live(c) /\ Typed(c) /\ ValuesOk(c.stack, 0, stack, Frame.base, Len(stack))
  BY <1>1, AtHere
<1>3. /\ Whole(Frame.fn, Body, Checks) /\ Top(Frame, Body, Checks, stack, ctrls)
      /\ stack \in Seq(ValueType) /\ ctrls \in Seq(EntryType) /\ Len(stack) \in Nat
      /\ Frame.base \in Nat
  BY <1>2, Here
<1>4. HasLabel(c, d) /\ CanPop(c, ts) /\ d \in Nat
  BY <1>2, InstrParts DEF Accepts, Openers
<1> HIDE DEF q, d
<1>5. ts \in Seq(BodyType)
  BY <1>2, <1>3, <1>4, LabelIs
<1>6. Len(stack) \in 0..Len(stack)
  BY <1>3
<1> HIDE DEF ts
<1>7. Carries(stack, Len(stack), ts, Frame.base + Last(c.ctrls).height)
  <2> HIDE DEF c
  <2> QED
    BY <1>2, <1>3, <1>4, <1>5, <1>6, CarriesAll
<1>8. BranchOk(Frame, Body, Checks, stack, ctrls, Len(stack), d)
  BY <1>2, <1>3, <1>4, <1>7, BranchTaken DEF ts, c
<1>9. stack = SubSeq(stack, 1, Len(stack))
  BY <1>3, WholePrefix
<1> QED
  BY <1>1, <1>2, <1>8, <1>9, BranchSteps

\* br_if.
LEMMA BrIfSteps ==
  ASSUME RunInv, ExecBrIf
  PROVE  GoesOn \/ Returns
<1> DEFINE q == Frame.pc
           c == Checks[q]
           d == Instr.depth
           ts == LabelTypes(c, d)
<1>1. At({"br_if"}) /\ Holds(<<"i32">>)
  BY DEF ExecBrIf
<1>2. /\ phase = "run" /\ q \in 1..Len(Body) /\ Instr = Body[q] /\ Frame.pc = q
      /\ Instr.op = "br_if" /\ Instr \in Instructions /\ Accepts(Frame.fn, c, Instr)
      /\ Live(c) /\ Typed(c) /\ ValuesOk(c.stack, 0, stack, Frame.base, Len(stack))
  BY <1>1, AtHere
<1>3. /\ Whole(Frame.fn, Body, Checks) /\ Top(Frame, Body, Checks, stack, ctrls)
      /\ stack \in Seq(ValueType) /\ ctrls \in Seq(EntryType) /\ Len(stack) \in Nat
      /\ Frame.base \in Nat
  BY <1>2, Here
<1>4. HasLabel(c, d) /\ CanPop(c, Append(ts, "i32")) /\ d \in Nat
  BY <1>2, InstrParts DEF Accepts, Openers
<1>5. CASE Branch(d, Below(1))
  <2> HIDE DEF q, d
  <2>1. ts \in Seq(BodyType) /\ "i32" \in BodyType
    BY <1>2, <1>3, <1>4, LabelIs DEF BodyType
  <2>2. Append(ts, "i32") \in Seq(BodyType) /\ Len(stack) \in 0..Len(stack)
    BY <1>3, <2>1, AppendOk
  <2> HIDE DEF ts
  <2>3. Carries(stack, Len(stack), Append(ts, "i32"), Frame.base + Last(c.ctrls).height)
    <3> HIDE DEF c
    <3> QED
      BY <1>2, <1>3, <1>4, <2>2, CarriesAll
  <2>4. Carries(stack, Len(stack) - 1, ts, Frame.base + Last(c.ctrls).height)
    BY <1>3, <2>1, <2>3, CarriesMore
  <2>5. BranchOk(Frame, Body, Checks, stack, ctrls, Len(stack) - 1, d)
    BY <1>2, <1>3, <1>4, <2>4, BranchTaken DEF ts, c
  <2>6. Below(1) = SubSeq(stack, 1, Len(stack) - 1)
    BY DEF Below
  <2> QED
    BY <1>2, <1>5, <2>5, <2>6, BranchSteps
<1>6. CASE stack' = Below(1) /\ Next1 /\ UNCHANGED <<phase, ctrls, locals_total>>
  <2>1. Jump(q + 1) /\ q + 1 \in Nat
    BY <1>2, <1>6 DEF Next1
  <2> HIDE DEF q
  <2>2. Steps(q + 1)
    <3> SUFFICES ASSUME NEW fr2, Moves(Frame, fr2, q + 1)
                 PROVE  TopStep(Frame, fr2, Body, Checks, stack, stack', ctrls, ctrls')
      BY DEF Steps
    <3>1. Body[q].op = "br_if" /\ Body[q].op \notin Openers \cup {"else", "end"}
      BY <1>2 DEF Openers
    <3>2. Replaces(Checks[q], Checks[q + 1], Checks[q + 1].stack, <<"i32">>, <<>>)
      BY <1>2, <1>3, <3>1, BrIfPlace
    <3> DEFINE w == <<"i32">>
    <3>3. Len(w) = 1
      OBVIOUS
    <3> HIDE DEF w
    <3>4. TopStep(Frame, fr2, Body, Checks, stack, SubSeq(stack, 1, Len(stack) - Len(w)), ctrls, ctrls)
      BY <1>2, <1>3, <3>1, <3>2, FlatCut DEF w
    <3> QED
      BY <1>6, <3>3, <3>4 DEF Below
  <2> QED
    BY <1>2, <1>6, <2>1, <2>2, JumpsTo
<1> QED
  BY <1>5, <1>6 DEF ExecBrIf

\* br_table.
LEMMA BrTableSteps ==
  ASSUME RunInv, ExecBrTable
  PROVE  GoesOn \/ Returns
<1> DEFINE q == Frame.pc
           c == Checks[q]
           i == Last(stack).val
           d == IF i < Len(Instr.depths) THEN Instr.depths[i + 1] ELSE Instr.default
           ts == LabelTypes(c, d)
<1>1. At({"br_table"}) /\ Holds(<<"i32">>) /\ Branch(d, Below(1))
  BY DEF ExecBrTable
<1>2. /\ phase = "run" /\ q \in 1..Len(Body) /\ Instr = Body[q] /\ Frame.pc = q
      /\ Instr.op = "br_table" /\ Instr \in Instructions /\ Accepts(Frame.fn, c, Instr)
      /\ Live(c) /\ Typed(c) /\ ValuesOk(c.stack, 0, stack, Frame.base, Len(stack))
  BY <1>1, AtHere
<1>3. /\ Whole(Frame.fn, Body, Checks) /\ Top(Frame, Body, Checks, stack, ctrls)
      /\ stack \in Seq(ValueType) /\ ctrls \in Seq(EntryType) /\ Len(stack) \in Nat
      /\ Frame.base \in Nat
  BY <1>2, Here
<1>4. CanBrTable(c, Instr.depths, Instr.default)
  BY <1>2 DEF Accepts, Openers
<1>5. Instr.depths \in Seq(Nat) /\ Instr.default \in Nat /\ i \in Nat
  BY <1>1, <1>2, InstrParts, TopValue
<1>6. CanPop(c, <<"i32">>) /\ HasLabel(c, d) /\ CanPop(Popped(c, 1), ts) /\ d \in Nat
  <2> HIDE DEF i, c
  <2>1. CASE i < Len(Instr.depths)
    <3>1. i + 1 \in DOMAIN Instr.depths /\ i + 1 \in 1..Len(Instr.depths)
      BY <1>5, <2>1, LenProperties
    <3>2. Instr.depths[i + 1] \in Nat
      BY <1>5, <3>1, ElementOfSeq
    <3> QED
      BY <1>4, <2>1, <3>1, <3>2 DEF CanBrTable
  <2>2. CASE ~ i < Len(Instr.depths)
    BY <1>4, <1>5, <2>2 DEF CanBrTable
  <2> QED
    BY <2>1, <2>2
<1> HIDE DEF q, d
<1>7. ts \in Seq(BodyType)
  BY <1>2, <1>3, <1>6, LabelIs
<1> HIDE DEF ts
<1>8. Carries(stack, Len(stack) - 1, ts, Frame.base + Last(c.ctrls).height)
  <2> HIDE DEF c
  <2> QED
    BY <1>2, <1>3, <1>6, <1>7, CarriesTable
<1>9. BranchOk(Frame, Body, Checks, stack, ctrls, Len(stack) - 1, d)
  BY <1>2, <1>3, <1>6, <1>8, BranchTaken DEF ts, c
<1>10. Below(1) = SubSeq(stack, 1, Len(stack) - 1)
  BY DEF Below
<1> QED
  BY <1>1, <1>2, <1>9, <1>10, BranchSteps

\* return, and falling off the end.
LEMMA ReturnSteps ==
  ASSUME RunInv, ExecReturn
  PROVE  Returns
<1> DEFINE q == Frame.pc
           c == Checks[q]
           outs == FuncTypeOf(Frame.fn).outs
<1>1. At({"return"}) /\ PopFrame(stack)
  BY DEF ExecReturn
<1>2. /\ phase = "run" /\ q \in 1..Len(Body) /\ Instr = Body[q] /\ Frame.pc = q
      /\ Instr.op = "return" /\ Instr \in Instructions /\ Accepts(Frame.fn, c, Instr)
      /\ Live(c) /\ Typed(c) /\ ValuesOk(c.stack, 0, stack, Frame.base, Len(stack))
  BY <1>1, AtHere
<1>3. /\ Whole(Frame.fn, Body, Checks) /\ Top(Frame, Body, Checks, stack, ctrls)
      /\ stack \in Seq(ValueType) /\ ctrls \in Seq(EntryType) /\ Len(stack) \in Nat
      /\ Frame.base \in Nat
  BY <1>2, Here
<1> HIDE DEF q
<1>4. CanPop(c, outs)
  <2>1. CanPop(c, c.ctrls[1].outs)
    BY <1>2 DEF Accepts, Openers
  <2>2. StateOk(Frame.fn, Body, Checks, q)
    BY <1>2, <1>3, PlaceFacts
  <2>3. c.ctrls[1].outs = outs
    BY <2>2 DEF StateOk
  <2> QED
    BY <2>1, <2>3
<1>5. outs \in Seq(BodyType)
  BY <1>3, EndFacts, FunctionTypes
<1>6. Last(c.ctrls).height \in Nat
  <2> HIDE DEF c
  <2>1. c.ctrls # <<>> /\ c \in CheckerType
    BY <1>2 DEF Live
  <2> QED
    BY <2>1, CheckerParts
<1>7. Carries(stack, Len(stack), outs, Frame.base + Last(c.ctrls).height)
  <2> HIDE DEF c, outs
  <2>1. Len(stack) \in 0..Len(stack)
    BY <1>3
  <2> QED
    BY <1>2, <1>3, <1>4, <1>5, <2>1, CarriesAll
<1>8. Results(stack, Keep(stack, Len(outs), Frame.base), Frame.base, outs)
  <2> DEFINE h == Last(c.ctrls).height
             l == Frame.base + h
  <2>1. Frame.base <= l
    <3> DEFINE z == Frame.base
    <3>1. z \in Nat /\ h \in Nat
      BY <1>3, <1>6
    <3> HIDE DEF z, h
    <3>2. z <= z + h
      BY <3>1
    <3> QED
      BY <3>2 DEF z
  <2>2. Carries(stack, Len(stack), outs, l)
    BY <1>7
  <2> HIDE DEF l, outs
  <2>3. Results(stack, Keep(SubSeq(stack, 1, Len(stack)), Len(outs), Frame.base), Frame.base, outs)
    BY <1>3, <1>5, <2>1, <2>2, KeepResults
  <2>4. SubSeq(stack, 1, Len(stack)) = stack
    BY <1>3, WholePrefix
  <2> QED
    BY <2>3, <2>4
<1> QED
  BY <1>1, <1>2, <1>8, PopReturns

\* The end of a body's code is a return.
LEMMA EndReturns ==
  ASSUME RunInv, EndOfBody
  PROVE  Returns
<1> DEFINE outs == FuncTypeOf(Frame.fn).outs
<1>1. phase = "run" /\ Frame.pc > Len(Body) /\ PopFrame(stack)
  BY DEF EndOfBody
<1>2. /\ Whole(Frame.fn, Body, Checks) /\ Top(Frame, Body, Checks, stack, ctrls)
      /\ stack \in Seq(ValueType) /\ ctrls \in Seq(EntryType) /\ Len(stack) \in Nat
      /\ Frame.base \in Nat /\ Frame.pc \in 1 .. Len(Body) + 1 /\ Len(Body) \in Nat
  BY <1>1, Here
<1>3. Frame.pc = Len(Body) + 1
  BY <1>1, <1>2
<1>4. Checks[Len(Body) + 1].stack = outs /\ outs \in Seq(BodyType) /\ Len(outs) \in Nat
  <2>1. Frame.fn \in DOMAIN Funcs
    BY <1>2, EndFacts
  <2>2. Checks[Len(Body) + 1] = [stack |-> outs, ctrls |-> <<>>]
    BY <1>2, EndFacts
  <2> QED
    BY <2>1, <2>2, FunctionTypes
<1>5. ValuesOk(outs, 0, stack, Frame.base, Len(stack))
  <2>1. ValuesOk(Checks[Frame.pc].stack, 0, stack, Frame.base, Len(stack))
    BY <1>2, TopFacts
  <2> QED
    BY <1>3, <1>4, <2>1
<1> HIDE DEF outs
<1>6. Carries(stack, Len(stack), outs, Frame.base)
  <2> DEFINE z == Frame.base
             n == Len(stack)
             k == Len(outs)
  <2>1. z \in Nat /\ n \in Nat /\ k \in Nat /\ n + 0 = z + k /\ \A m \in 1 .. k - 0 : stack[z + m].ty = outs[m]
    BY <1>2, <1>4, <1>5 DEF ValuesOk
  <2> HIDE DEF z, n, k
  <2>2. n \in 0..n /\ z + k <= n /\ n - k = z /\ k - 0 = k
    BY <2>1
  <2>3. Carries(stack, n, outs, z)
    BY <2>1, <2>2 DEF Carries, n, k
  <2> QED
    BY <2>3 DEF z, n
<1>7. Results(stack, Keep(stack, Len(outs), Frame.base), Frame.base, outs)
  <2> DEFINE z == Frame.base
  <2>1. z <= z /\ z \in Nat
    BY <1>2
  <2>2. Results(stack, Keep(SubSeq(stack, 1, Len(stack)), Len(outs), Frame.base), Frame.base, outs)
    BY <1>2, <1>4, <1>6, <2>1, KeepResults
  <2>4. SubSeq(stack, 1, Len(stack)) = stack
    BY <1>2, WholePrefix
  <2> QED
    BY <2>2, <2>4
<1> QED
  BY <1>1, <1>7, PopReturns DEF outs

-----------------------------------------------------------------------------
(* Instructions that replace the top of the stack.                         *)

\* An instruction that replaces the operands ts by values of the types vt, as
\* the checker does, leaves the frame at the next place.
LEMMA ReplaceSteps ==
  ASSUME RunInv, NEW ops, At(ops), Instr.op \notin Openers \cup {"else", "end"},
         NEW u, NEW ts, NEW vt, Replaces(Checks[Frame.pc], Checks[Frame.pc + 1], u, ts, vt),
         NEW k, Len(ts) = k, NEW vs, HasTypes(vs, vt), stack' = Below(k) \o vs, Next1,
         UNCHANGED <<phase, ctrls, locals_total>>
  PROVE  GoesOn
<1> DEFINE q == Frame.pc
<1>1. /\ phase = "run" /\ q \in 1..Len(Body) /\ Instr = Body[q] /\ Frame.pc = q
  BY AtHere
<1>2. /\ Whole(Frame.fn, Body, Checks) /\ Top(Frame, Body, Checks, stack, ctrls)
      /\ stack \in Seq(ValueType) /\ ctrls \in Seq(EntryType)
  BY <1>1, Here
<1>3. Jump(q + 1) /\ q + 1 \in Nat
  BY <1>1 DEF Next1
<1> HIDE DEF q
<1>4. Steps(q + 1)
  <2> SUFFICES ASSUME NEW fr2, Moves(Frame, fr2, q + 1)
               PROVE  TopStep(Frame, fr2, Body, Checks, stack, stack', ctrls, ctrls')
    BY DEF Steps
  <2>1. /\ Body[q].op \notin Openers \cup {"else", "end"}
        /\ Replaces(Checks[q], Checks[q + 1], u, ts, vt)
    BY <1>1
  <2>2. TopStep(Frame, fr2, Body, Checks, stack, Over(stack, Len(stack) - Len(ts), vs), ctrls, ctrls)
    BY <1>1, <1>2, <2>1, FlatMove
  <2>3. stack' = Over(stack, Len(stack) - Len(ts), vs)
    BY DEF Over, Below
  <2> QED
    BY <2>2, <2>3
<1> QED
  BY <1>1, <1>3, <1>4, JumpsTo

\* Of one value.
LEMMA OneTyped ==
  ASSUME NEW v \in ValueType, NEW t, t \in BodyType, v.ty = t
  PROVE  HasTypes(<<v>>, <<t>>)
<1>1. <<v>> \in Seq(ValueType) /\ <<t>> \in Seq(BodyType) /\ Len(<<v>>) = 1 /\ Len(<<t>>) = 1
  OBVIOUS
<1>2. \A m \in 1..1 : <<v>>[m].ty = <<t>>[m]
  OBVIOUS
<1> QED
  BY <1>1, <1>2 DEF HasTypes

\* The values of types.
LEMMA VectorsTyped ==
  ASSUME NEW ts \in Seq(BodyType), NEW v \in Vectors(ts)
  PROVE  HasTypes(v, ts)
<1>1. DOMAIN ts = 1..Len(ts) /\ Len(ts) \in Nat /\ \A m \in 1..Len(ts) : ts[m] \in BodyType
  BY LenProperties, ElementOfSeq
<1>2. /\ v \in [DOMAIN ts -> UNION {ValuesOf(t) : t \in ToSet(ts)}]
      /\ \A m \in DOMAIN ts : v[m].ty = ts[m]
  BY DEF Vectors
<1>3. ToSet(ts) \subseteq BodyType
  BY <1>1 DEF ToSet
<1>4. \A t \in BodyType : ValuesOf(t) \subseteq ValueType
  BY MachineAssumption DEF ValuesOf, Value, ValueType
<1>5. v \in [1..Len(ts) -> ValueType]
  <2>1. UNION {ValuesOf(t) : t \in ToSet(ts)} \subseteq ValueType
    BY <1>3, <1>4
  <2> HIDE DEF ValuesOf
  <2> DEFINE S == UNION {ValuesOf(t) : t \in ToSet(ts)}
  <2>2. v \in [1..Len(ts) -> S] /\ S \subseteq ValueType
    BY <1>1, <1>2, <2>1
  <2> HIDE DEF S
  <2> QED
    BY <2>2
<1>6. v \in Seq(ValueType)
  BY <1>1, <1>5, SeqDef
<1>7. Len(v) = Len(ts)
  BY <1>1, <1>5, <1>6, LenProperties
<1> QED
  BY <1>1, <1>2, <1>6, <1>7 DEF HasTypes

\* The instructions of ExecSimple leave the frame at the next place.
LEMMA SimpleSteps ==
  ASSUME RunInv, ExecSimple
  PROVE  GoesOn
<1> DEFINE q == Frame.pc
           c == Checks[q]
           e == Checks[q + 1]
           ops == {"nop", "const", "drop", "eqz", "extend", "select"}
<1>1. At(ops)
  BY DEF ExecSimple, At
<1>2. /\ phase = "run" /\ q \in 1..Len(Body) /\ Instr = Body[q]
      /\ Instr.op \in ops /\ Instr \in Instructions /\ Typed(c) /\ Live(c)
      /\ ValuesOk(c.stack, 0, stack, Frame.base, Len(stack))
  BY <1>1, AtHere
<1>3. /\ Whole(Frame.fn, Body, Checks) /\ stack \in Seq(ValueType) /\ Len(stack) \in Nat
      /\ Frame.base \in Nat
  BY <1>2, Here
<1>4. Instr.op \notin Openers \cup {"else", "end"}
  BY <1>2 DEF Openers
<1> HIDE DEF q, ops
<1>5. FlatOk(Frame.fn, c, e, Instr)
  BY <1>2, <1>3, SimplePlaces
<1> HIDE DEF c, e
<1>6. ASSUME NEW u, NEW ts, NEW vt, Replaces(c, e, u, ts, vt), NEW k, Len(ts) = k,
             NEW vs, HasTypes(vs, vt), NEW w, Len(w) = k, Replace(w, vs)
      PROVE  GoesOn
  <2>1. /\ stack' = Below(k) \o vs /\ Next1 /\ UNCHANGED <<phase, ctrls, locals_total>>
    BY <1>6 DEF Replace
  <2>2. Replaces(Checks[Frame.pc], Checks[Frame.pc + 1], u, ts, vt)
    BY <1>6 DEF c, e, q
  <2> QED
    BY <1>1, <1>4, <1>6, <2>1, <2>2, ReplaceSteps
<1>7. /\ Joins(c.stack, c.stack, <<>>) /\ HasTypes(<<>>, <<>>)
      /\ c.stack \in Seq(BodyType) /\ Len(c.stack) \in Nat /\ Len(<<>>) = 0
  <2>1. c.stack \in Seq(BodyType)
    BY <1>2 DEF Typed
  <2>2. Len(c.stack) \in Nat
    BY <2>1, LenProperties
  <2> QED
    BY <2>1, <2>2, JoinsNone, EmptySeq
<1>8. CASE Instr.op = "nop" /\ Replace(<<>>, <<>>)
  <2>1. Replaces(c, e, c.stack, <<>>, <<>>)
    BY <1>2, <1>5, <1>7, <1>8 DEF Replaces, FlatOk
  <2> QED
    BY <1>6, <1>7, <1>8, <2>1
<1>9. CASE Instr.op = "const" /\ Replace(<<>>, <<Value(Instr.ty, Instr.val)>>)
  <2>1. Instr.ty \in BodyType /\ Instr.val \in Nat
    BY <1>2, <1>9, InstrParts
  <2>2. Value(Instr.ty, Instr.val) \in ValueType /\ Value(Instr.ty, Instr.val).ty = Instr.ty
    BY <2>1 DEF Value, ValueType
  <2>3. HasTypes(<<Value(Instr.ty, Instr.val)>>, <<Instr.ty>>)
    BY <2>1, <2>2, OneTyped
  <2>4. Replaces(c, e, c.stack, <<>>, <<Instr.ty>>)
    BY <1>5, <1>9 DEF FlatOk
  <2> QED
    BY <1>6, <1>7, <1>9, <2>3, <2>4
<1>10. CASE Instr.op = "drop" /\ Replace(<<Last(stack).ty>>, <<>>)
  <2>1. PICK u, ts : Replaces(c, e, u, ts, <<>>) /\ Len(ts) = 1
    BY <1>5, <1>10 DEF FlatOk
  <2>2. Len(<<Last(stack).ty>>) = 1
    OBVIOUS
  <2> QED
    BY <1>6, <1>7, <1>10, <2>1, <2>2
<1>11. ASSUME Instr.op \in {"eqz", "extend"}, NEW v \in ValueType,
              v.ty = IF Instr.op = "eqz" THEN "i32" ELSE "i64", Replace(<<"i32">>, <<v>>)
       PROVE  GoesOn
  <2> DEFINE t == IF Instr.op = "eqz" THEN "i32" ELSE "i64"
  <2>1. PICK u : Replaces(c, e, u, <<"i32">>, <<t>>)
    BY <1>5, <1>11 DEF FlatOk
  <2>2. t \in BodyType /\ v.ty = t
    BY <1>11 DEF BodyType
  <2> DEFINE w == <<"i32">>
  <2>3. Len(w) = 1
    OBVIOUS
  <2> HIDE DEF t, w
  <2>4. HasTypes(<<v>>, <<t>>)
    BY <2>2, OneTyped
  <2>5. Replaces(c, e, u, w, <<t>>) /\ Replace(w, <<v>>)
    BY <1>11, <2>1 DEF w
  <2> QED
    BY <1>6, <2>3, <2>4, <2>5
<1>12. CASE At({"eqz"}) /\ \/ Replace(<<"i32">>, <<Value("i32", 1)>>)
                           \/ Replace(<<"i32">>, <<Value("i32", 0)>>)
  <2>1. Instr.op = "eqz"
    BY <1>12 DEF At
  <2>2. \A k \in {0, 1} : Value("i32", k) \in ValueType /\ Value("i32", k).ty = "i32"
    BY DEF Value, ValueType, BodyType
  <2> QED
    BY <1>11, <1>12, <2>1, <2>2
<1>13. CASE At({"extend"}) /\ Replace(<<"i32">>, <<Value("i64", Last(stack).val)>>)
  <2>1. Instr.op = "extend" /\ Instr.op # "eqz"
    BY <1>13 DEF At
  <2>2. Last(stack).val \in Nat
    <3>1. Holds(<<"i32">>)
      BY <1>13 DEF Replace
    <3> QED
      BY <1>2, <3>1, TopValue
  <2>3. Value("i64", Last(stack).val) \in ValueType /\ Value("i64", Last(stack).val).ty = "i64"
    BY <2>2 DEF Value, ValueType, BodyType
  <2> QED
    BY <1>11, <1>13, <2>1, <2>3
<1>14. ASSUME At({"select"}), Len(stack) >= 3, NEW a, a = LastOf(stack, 3),
              Replace(TypesOf(a), <<IF a[3].val # 0 THEN a[1] ELSE a[2]>>)
       PROVE  GoesOn
  <2>1. Instr.op = "select"
    BY <1>14 DEF At
  <2>2. PICK u, ts : /\ Replaces(c, e, u, ts, <<ts[1]>>)
                     /\ ts \in Seq(BodyType) /\ Len(ts) = 3 /\ ts[1] = ts[2]
    <3>1. /\ Whole(Frame.fn, Body, Checks) /\ q \in 1..Len(Body) /\ Typed(Checks[q])
          /\ Body[q].op = "select"
      BY <1>2, <1>3, <2>1 DEF c
    <3>2. SelectOk(c, e)
      BY <3>1, SelectPlace DEF c, e
    <3> QED
      BY <3>2 DEF SelectOk
  <2>3. /\ a \in Seq(ValueType) /\ Len(a) = 3 /\ \A m \in 1..3 : a[m] = stack[Len(stack) - 3 + m]
    <3>1. 3 \in 0..Len(stack)
      BY <1>3, <1>14
    <3> QED
      BY <1>3, <1>14, <3>1, LastOfOk
  <2>4. \A m \in 1..3 : a[m].ty = ts[m]
    <3>1. Joins(c.stack, u, ts) /\ Len(u) \in Nat /\ Len(ts) \in Nat
      BY <2>2 DEF Replaces
    <3>2. \A m \in 1..Len(ts) : stack[Len(stack) - Len(ts) + m].ty = ts[m]
      BY <1>2, <1>3, <3>1, ValuesCut
    <3> QED
      BY <2>2, <2>3, <3>2
  <2> DEFINE v == IF a[3].val # 0 THEN a[1] ELSE a[2]
  <2>5. a[1] \in ValueType /\ a[2] \in ValueType /\ ts[1] \in BodyType
    <3>1. 1 \in 1..Len(a) /\ 2 \in 1..Len(a) /\ 1 \in 1..Len(ts)
      BY <2>2, <2>3
    <3> QED
      BY <2>2, <2>3, <3>1, ElementOfSeq
  <2>6. v \in ValueType /\ v.ty = ts[1]
    BY <2>2, <2>4, <2>5
  <2> HIDE DEF v
  <2>7. HasTypes(<<v>>, <<ts[1]>>)
    BY <2>5, <2>6, OneTyped
  <2>8. Len(TypesOf(a)) = 3
    <3>1. DOMAIN a = 1..3
      BY <2>3, LenProperties
    <3>2. TypesOf(a) = [m \in 1..3 |-> a[m].ty]
      BY <3>1 DEF TypesOf
    <3> QED
      BY <3>2
  <2>9. Replace(TypesOf(a), <<v>>)
    BY <1>14 DEF v
  <2> QED
    BY <1>6, <2>2, <2>7, <2>8, <2>9
<1>15. ASSUME At({"select"}), Len(stack) >= 3,
              LET a == LastOf(stack, 3) IN
              Replace(TypesOf(a), <<IF a[3].val # 0 THEN a[1] ELSE a[2]>>)
       PROVE  GoesOn
  BY <1>14, <1>15
<1>16. CASE At({"nop"}) /\ Replace(<<>>, <<>>)
  BY <1>8, <1>16 DEF At
<1>17. CASE At({"const"}) /\ Replace(<<>>, <<Value(Instr.ty, Instr.val)>>)
  BY <1>9, <1>17 DEF At
<1>18. CASE At({"drop"}) /\ stack # <<>> /\ Replace(<<Last(stack).ty>>, <<>>)
  BY <1>10, <1>18 DEF At
<1> QED
  BY <1>12, <1>13, <1>15, <1>16, <1>17, <1>18 DEF ExecSimple

\* A local has its declared type.
LEMMA LocalHere ==
  ASSUME RunInv, phase = "run", NEW k \in DOMAIN Frame.locals
  PROVE  /\ Frame.locals[k] \in ValueType /\ Frame.locals[k].ty = LocalsOf(Frame.fn)[k]
         /\ k \in DOMAIN LocalsOf(Frame.fn) /\ Frame.locals \in Seq(ValueType)
         /\ LocalsOf(Frame.fn) \in Seq(BodyType) /\ LocalsOf(Frame.fn)[k] \in BodyType
<1>1. Frame \in FrameType /\ TypesOf(Frame.locals) = LocalsOf(Frame.fn) /\ Whole(Frame.fn, Body, Checks)
  BY Here
<1>2. Frame.locals \in Seq(ValueType)
  BY <1>1 DEF FrameType
<1>3. k \in 1..Len(Frame.locals) /\ Frame.locals[k] \in ValueType
  BY <1>2, LenProperties, ElementOfSeq
<1>4. Frame.locals[k].ty = LocalsOf(Frame.fn)[k] /\ k \in DOMAIN LocalsOf(Frame.fn)
  BY <1>1 DEF TypesOf
<1>5. LocalsOf(Frame.fn) \in Seq(BodyType)
  BY <1>1, EndFacts, FunctionTypes
<1>6. LocalsOf(Frame.fn)[k] \in BodyType
  BY <1>4, <1>5, LenProperties, ElementOfSeq
<1> QED
  BY <1>2, <1>3, <1>4, <1>5, <1>6

\* local.get.
LEMMA LocalGetSteps ==
  ASSUME RunInv, ExecLocalGet
  PROVE  GoesOn
<1> DEFINE q == Frame.pc
           k == Instr.idx
           v == Frame.locals[k]
           c == Checks[q]
           e == Checks[q + 1]
<1>1. /\ At({"local.get"}) /\ k \in DOMAIN Frame.locals
      /\ Replace(<<>>, <<v>>)
  BY DEF ExecLocalGet, LocalSlot
<1>2. /\ phase = "run" /\ q \in 1..Len(Body) /\ Instr = Body[q]
      /\ Instr.op = "local.get" /\ Typed(c) /\ Whole(Frame.fn, Body, Checks)
  BY <1>1, AtHere, Here
<1>3. Instr.op \notin Openers \cup {"else", "end"}
  BY <1>2 DEF Openers
<1>4. v \in ValueType /\ v.ty = LocalsOf(Frame.fn)[k] /\ LocalsOf(Frame.fn)[k] \in BodyType
  BY <1>1, <1>2, LocalHere
<1>5. FlatOk(Frame.fn, c, e, Instr)
  BY <1>2, SimplePlaces
<1> DEFINE t == LocalsOf(Frame.fn)[k]
<1>6. Replaces(c, e, c.stack, <<>>, <<t>>)
  BY <1>2, <1>5 DEF FlatOk
<1> HIDE DEF v, t
<1>7. HasTypes(<<v>>, <<t>>)
  BY <1>4, OneTyped DEF t
<1>8. stack' = Below(0) \o <<v>> /\ Next1 /\ UNCHANGED <<phase, ctrls, locals_total>> /\ Len(<<>>) = 0
  BY <1>1, EmptySeq DEF Replace
<1> QED
  BY <1>1, <1>3, <1>6, <1>7, <1>8, ReplaceSteps

\* A frame that goes on with other locals of the same types.
LEMMA MovedWith ==
  ASSUME NEW fr \in FrameType, NEW ls \in Seq(ValueType), TypesOf(ls) = LocalsOf(fr.fn), NEW t \in Nat
  PROVE  LET fr2 == [fr EXCEPT !.pc = t, !.locals = ls] IN
         fr2.locals = ls /\ Moves(fr, fr2, t)
<1> DEFINE fr1 == [fr EXCEPT !.pc = t]
           fr2 == [fr EXCEPT !.pc = t, !.locals = ls]
<1>1. fr1 = [fn |-> fr.fn, locals |-> fr.locals, pc |-> t, base |-> fr.base,
             ctrl_base |-> fr.ctrl_base, results |-> fr.results]
  BY DEF FrameType
<1>2. fr1 \in FrameType
  BY <1>1 DEF FrameType
<1>3. fr2 = [fr1 EXCEPT !.locals = ls]
  OBVIOUS
<1> HIDE DEF fr1, fr2
<1>4. fr2 = [fn |-> fr1.fn, locals |-> ls, pc |-> fr1.pc, base |-> fr1.base,
             ctrl_base |-> fr1.ctrl_base, results |-> fr1.results]
  BY <1>2, <1>3 DEF FrameType
<1>5. fr2 \in FrameType /\ fr2.locals = ls
  BY <1>2, <1>4 DEF FrameType
<1>6. Moves(fr, fr2, t)
  BY <1>1, <1>4, <1>5 DEF Moves
<1> QED
  BY <1>5, <1>6 DEF fr2

\* local.set and local.tee.
LEMMA LocalSetSteps ==
  ASSUME RunInv, ExecLocalSet
  PROVE  GoesOn
<1> DEFINE q == Frame.pc
           n == Len(frames)
           k == Instr.idx
           v == Last(stack)
           c == Checks[q]
           e == Checks[q + 1]
           t == LocalsOf(Frame.fn)[k]
           ls == [Frame.locals EXCEPT ![k] = v]
           fr2 == [Frame EXCEPT !.pc = q + 1, !.locals = ls]
<1>1. /\ At({"local.set", "local.tee"}) /\ k \in DOMAIN Frame.locals /\ stack # <<>>
      /\ frames' = [frames EXCEPT ![n].pc = @ + 1, ![n].locals[k] = v]
      /\ stack' = IF Instr.op = "local.set" THEN Below(1) ELSE stack
      /\ UNCHANGED <<phase, ctrls, locals_total>>
  BY DEF ExecLocalSet, LocalSlot
<1>2. /\ phase = "run" /\ q \in 1..Len(Body) /\ Instr = Body[q] /\ Frame.pc = q
      /\ Instr.op \in {"local.set", "local.tee"} /\ Typed(c)
      /\ ValuesOk(c.stack, 0, stack, Frame.base, Len(stack))
  BY <1>1, AtHere
<1>3. /\ Whole(Frame.fn, Body, Checks) /\ Top(Frame, Body, Checks, stack, ctrls)
      /\ stack \in Seq(ValueType) /\ ctrls \in Seq(EntryType) /\ Len(stack) \in Nat
      /\ frames \in Seq(FrameType) /\ n \in Nat \ {0} /\ Frame = frames[n] /\ Frame \in FrameType
      /\ Frame.base \in Nat /\ TypesOf(Frame.locals) = LocalsOf(Frame.fn)
  BY <1>2, Here
<1>4. Instr.op \notin Openers \cup {"else", "end"}
  BY <1>2 DEF Openers
<1>5. /\ Frame.locals \in Seq(ValueType) /\ k \in DOMAIN LocalsOf(Frame.fn)
      /\ LocalsOf(Frame.fn) \in Seq(BodyType) /\ t \in BodyType
  BY <1>1, <1>2, LocalHere
<1>6. PICK u : Replaces(c, e, u, <<t>>, IF Instr.op = "local.set" THEN <<>> ELSE <<t>>)
  <2>1. FlatOk(Frame.fn, c, e, Instr)
    BY <1>2, <1>3, SimplePlaces
  <2> QED
    BY <1>2, <2>1 DEF FlatOk
<1>7. Len(<<t>>) = 1 /\ <<t>>[1] = t /\ <<t>> \in Seq(BodyType)
  BY <1>5
<1> DEFINE w == <<t>>
<1>8. v.ty = t /\ v \in ValueType
  <2>1. Joins(c.stack, u, w) /\ Len(u) \in Nat /\ Len(w) = 1 /\ w[1] = t
    BY <1>6, <1>7 DEF Replaces
  <2> DEFINE s == c.stack
             lo == Frame.base
  <2>2. \A m \in 1..Len(w) : stack[Len(stack) - Len(w) + m].ty = w[m]
    <3>1. Joins(s, u, w) /\ Len(u) \in Nat /\ Len(w) \in Nat
      BY <2>1
    <3>2. Len(stack) \in Nat /\ lo \in Nat
      BY <1>3
    <3>3. ValuesOk(s, 0, stack, lo, Len(stack))
      BY <1>2
    <3> HIDE DEF s, lo, w
    <3> QED
      BY <3>1, <3>2, <3>3, ValuesCut
  <2> HIDE DEF w, t, c
  <2>3. stack[Len(stack) - 1 + 1].ty = t
    BY <2>1, <2>2
  <2>4. Len(stack) - 1 + 1 = Len(stack) /\ Len(stack) \in 1..Len(stack)
    BY <1>1, <1>3, EmptySeq
  <2> QED
    BY <1>3, <2>3, <2>4, ElementOfSeq DEF Last
<1>9. ls \in Seq(ValueType) /\ Len(ls) = Len(Frame.locals) /\ TypesOf(ls) = LocalsOf(Frame.fn)
  <2> DEFINE x == Frame.locals
             y == LocalsOf(Frame.fn)
  <2>1. x \in Seq(ValueType) /\ k \in 1..Len(x) /\ DOMAIN x = 1..Len(x)
    BY <1>1, <1>5, LenProperties
  <2>2. TypesOf(x) = y
    BY <1>3
  <2> HIDE DEF x, y, v, k
  <2> DEFINE z == [x EXCEPT ![k] = v]
  <2>3. z \in Seq(ValueType) /\ Len(z) = Len(x)
    BY <1>8, <2>1, ExceptSeq
  <2>4. DOMAIN z = DOMAIN x /\ \A m \in DOMAIN x : z[m] = IF m = k THEN v ELSE x[m]
    BY <2>1
  <2> HIDE DEF z
  <2>5. v.ty = x[k].ty
    <3>1. y[k] = x[k].ty
      BY <2>1, <2>2 DEF TypesOf
    <3>2. v.ty = y[k]
      BY <1>8 DEF t, y
    <3> QED
      BY <3>1, <3>2
  <2>6. \A m \in DOMAIN x : z[m].ty = x[m].ty
    BY <2>4, <2>5
  <2>7. TypesOf(z) = TypesOf(x)
    BY <2>4, <2>6 DEF TypesOf
  <2> QED
    BY <2>2, <2>3, <2>7 DEF z, x, y
<1> HIDE DEF ls, v
<1>10. q + 1 \in Nat
  BY <1>2
<1>11. fr2.locals = ls /\ Moves(Frame, fr2, q + 1)
  <2> HIDE DEF q
  <2> QED
    BY <1>3, <1>9, <1>10, MovedWith
<1>12. frames' = [frames EXCEPT ![n] = fr2]
  BY <1>1, <1>3 DEF ls
<1> HIDE DEF fr2
<1>13. Moves(Frame, fr2, q + 1)
  BY <1>11
<1>14. /\ Body[q].op \notin Openers \cup {"else", "end"}
  BY <1>2, <1>4
<1> HIDE DEF q, n
<1>15. TopStep(Frame, fr2, Body, Checks, stack, stack', ctrls, ctrls')
  <2>1. CASE Instr.op = "local.set"
    <3>1. Replaces(Checks[q], Checks[q + 1], u, w, <<>>)
      BY <1>6, <2>1
    <3>2. Len(w) = 1
      BY <1>7
    <3> HIDE DEF w
    <3>3. TopStep(Frame, fr2, Body, Checks, stack, SubSeq(stack, 1, Len(stack) - Len(w)), ctrls, ctrls)
      BY <1>2, <1>3, <1>13, <1>14, <3>1, FlatCut
    <3> QED
      BY <1>1, <2>1, <3>2, <3>3 DEF Below
  <2>2. CASE Instr.op # "local.set"
    <3>1. Replaces(c, e, u, w, w) /\ w \in Seq(BodyType)
      BY <1>6, <1>7, <2>2
    <3>2. /\ Joins(c.stack, u, w) /\ Joins(e.stack, u, w) /\ u \in Seq(BodyType)
          /\ e.ctrls = c.ctrls /\ c.stack \in Seq(BodyType) /\ e.stack \in Seq(BodyType)
      BY <1>2, <3>1 DEF Replaces, Typed
    <3> HIDE DEF w
    <3>3. c.stack = u \o w /\ e.stack = u \o w
      <4> HIDE DEF c, e
      <4>1. c.stack = u \o w
        BY <3>1, <3>2, JoinTyped
      <4>2. e.stack = u \o w
        BY <3>1, <3>2, JoinTyped
      <4> QED
        BY <4>1, <4>2
    <3>4. TopStep(Frame, fr2, Body, Checks, stack, stack, ctrls, ctrls)
      BY <1>2, <1>3, <1>13, <1>14, <3>2, <3>3, FlatStay
    <3> QED
      BY <1>1, <2>2, <3>4
  <2> QED
    BY <2>1, <2>2
<1> QED
  BY <1>1, <1>2, <1>9, <1>11, <1>12, <1>15 DEF GoesOn, n

\* A call of a host function, of one of the module, or a trap.
LEMMA CallSteps ==
  ASSUME RunInv, ExecCall
  PROVE  GoesOn \/ Calls \/ Trap
<1> DEFINE q == Frame.pc
           g == Instr.func
           n == Len(frames)
           c == Checks[q]
           e == Checks[q + 1]
           ty == FuncTypeOf(g)
           k == Len(ty.ins)
<1>1. At({"call"}) /\ k <= Len(stack)
  BY DEF ExecCall
<1>2. /\ phase = "run" /\ q \in 1..Len(Body) /\ Instr = Body[q] /\ Frame.pc = q
      /\ Instr.op = "call" /\ Typed(c)
      /\ ValuesOk(c.stack, 0, stack, Frame.base, Len(stack))
  BY <1>1, AtHere
<1>3. /\ Whole(Frame.fn, Body, Checks) /\ Top(Frame, Body, Checks, stack, ctrls)
      /\ stack \in Seq(ValueType) /\ ctrls \in Seq(EntryType) /\ Len(stack) \in Nat
      /\ frames \in Seq(FrameType) /\ n \in Nat \ {0} /\ Frame = frames[n] /\ Frame \in FrameType
      /\ Frame.base \in Nat /\ TypesOf(Frame.locals) = LocalsOf(Frame.fn)
  BY <1>2, Here
<1>4. Instr.op \notin Openers \cup {"else", "end"}
  BY <1>2 DEF Openers
<1>5. g \in DOMAIN Funcs /\ \E u : Replaces(c, e, u, ty.ins, ty.outs)
  <2>1. FlatOk(Frame.fn, c, e, Instr)
    BY <1>2, <1>3, SimplePlaces
  <2> QED
    BY <1>2, <2>1 DEF FlatOk
<1>6. PICK u : Replaces(c, e, u, ty.ins, ty.outs)
  BY <1>5
<1>7. ty.ins \in Seq(BodyType) /\ ty.outs \in Seq(BodyType)
  BY <1>5, FunctionTypes
<1>8. ASSUME NEW rs \in Vectors(ty.outs), stack' = Below(k) \o rs, Next1,
             UNCHANGED <<phase, ctrls, locals_total>>
      PROVE  GoesOn
  <2>1. HasTypes(rs, ty.outs)
    BY <1>7, VectorsTyped
  <2> QED
    BY <1>1, <1>4, <1>6, <1>8, <2>1, ReplaceSteps
<1> DEFINE below == Len(stack) - k
           args == LastOf(stack, k)
           ls == args \o [i \in DOMAIN Funcs[g].locals |-> Value(Funcs[g].locals[i], 0)]
           fr2 == [Frame EXCEPT !.pc = q + 1]
           callers == [frames EXCEPT ![n].pc = @ + 1]
<1>9. ASSUME ~ Funcs[g].host, phase' = "run",
             ~ below + locals_total + Len(ls) > MAX_VALUE_STACK,
             stack' = SubSeq(stack, 1, below),
             frames' = Append(callers, [fn |-> g, locals |-> ls, pc |-> 1, base |-> below,
                                        ctrl_base |-> Len(ctrls), results |-> Len(ty.outs)]),
             ctrls' = Append(ctrls, [target |-> Len(bodies[g]) + 1, arity |-> Len(ty.outs),
                                     height |-> below]),
             locals_total' = locals_total + Len(ls)
      PROVE  Calls
  <2>1. g \in Local
    BY <1>5, <1>9 DEF Local, Imported
  <2>2. Moves(Frame, fr2, q + 1) /\ fr2.locals = Frame.locals
    <3>1. q + 1 \in Nat
      BY <1>2
    <3> QED
      BY <1>3, <3>1, MovedFrame DEF FrameType
  <2>3. callers = [frames EXCEPT ![n] = fr2]
    BY <1>3
  <2>4. HasTypes(args, ty.ins)
    <3>1. Body[q].op = "call" /\ g = Body[q].func
      BY <1>2
    <3> HIDE DEF q, fr2, ty, k, g
    <3>2. HasTypes(LastOf(stack, Len(FuncTypeOf(Body[q].func).ins)), FuncTypeOf(Body[q].func).ins)
      BY <1>2, <1>3, <2>2, <3>1, CallerWaits
    <3> QED
      BY <3>1, <3>2 DEF ty, k
  <2> HIDE DEF fr2, callers, args
  <2>5. ls \in Seq(ValueType) /\ TypesOf(ls) = LocalsOf(g)
    BY <1>5, <2>4, LocalsBegin
  <2> HIDE DEF ls
  <2>6. CallsNow(bodies, frames, stack, n, q, g, below)
    <3>1. bodies[frames[n].fn] = Body
      BY <1>3 DEF Body
    <3> QED
      BY <1>2, <1>3, <3>1 DEF CallsNow
  <2>7. /\ frames' = Append([frames EXCEPT ![Len(frames)] = fr2], NewFrame(g, ls, below, ctrls))
        /\ ctrls' = Append(ctrls, Bottom(g, bodies[g], below))
    BY <1>9, <2>3 DEF NewFrame, Bottom
  <2>8. CallsTo(q, g, below, ls, fr2)
    BY <1>9, <2>1, <2>2, <2>5, <2>6, <2>7 DEF CallsTo
  <2> QED
    BY <1>9, <2>8 DEF Calls
<1>10. ASSUME ~ Funcs[g].host, PushFrame(g, stack, callers), ~ Trap
       PROVE  Calls
  <2>1. /\ phase' = "run" /\ ~ below + locals_total + Len(ls) > MAX_VALUE_STACK
        /\ stack' = SubSeq(stack, 1, below)
        /\ frames' = Append(callers, [fn |-> g, locals |-> ls, pc |-> 1, base |-> below,
                                      ctrl_base |-> Len(ctrls), results |-> Len(ty.outs)])
        /\ ctrls' = Append(ctrls, [target |-> Len(bodies[g]) + 1, arity |-> Len(ty.outs),
                                   height |-> below])
        /\ locals_total' = locals_total + Len(ls)
    <3> HIDE DEF callers, g
    <3> QED
      BY ONLY <1>10, Zenon DEF PushFrame, ls, args, below, ty, k
  <2> QED
    BY <1>9, <1>10, <2>1
<1> QED
  BY <1>8, <1>10 DEF ExecCall

\* Every step of running code is one of these.
LEMMA StepKinds ==
  ASSUME RunInv, Execute
  PROVE  /\ phase = "run" /\ UNCHANGED codeVars
         /\ GoesOn \/ Returns \/ Calls \/ Trap
<1>1. phase = "run"
  BY DEF Execute, EndOfBody, ExecUnreachable, ExecBlock, ExecIf, ExecElse, ExecEnd, ExecBr, ExecBrIf,
         ExecBrTable, ExecReturn, ExecCall, ExecSimple, ExecLocalGet, ExecLocalSet, At
<1>2. ExecUnreachable => Trap
  BY DEF ExecUnreachable
<1> QED
  BY <1>1, <1>2, EndReturns, BlockSteps, IfSteps, EndSteps, BrSteps, BrIfSteps, BrTableSteps,
     ReturnSteps, CallSteps, SimpleSteps, LocalGetSteps, LocalSetSteps DEF Execute

-----------------------------------------------------------------------------
(* Counting locals.                                                        *)

\* The slots of the frames s, where frame i has a[i] of them, and how many
\* the first n frames have.
Slots(a, s) == {x \in s \X Nat : x[2] \in 1..a[x[1]]}
Total(a, n) == Cardinality(Slots(a, 1..n))

\* The numbers of locals of frames.
Lens(frs) == [i \in 1..Len(frs) |-> Len(frs[i].locals)]

\* Slots depend on those frames alone.
LEMMA SlotsAgree ==
  ASSUME NEW s, NEW a, NEW b, \A i \in s : a[i] = b[i]
  PROVE  Slots(a, s) = Slots(b, s)
BY DEF Slots

\* A frame more has its slots more.
LEMMA SlotsMore ==
  ASSUME NEW a, NEW s, NEW x, x \notin s, a[x] \in Nat, IsFiniteSet(Slots(a, s))
  PROVE  /\ IsFiniteSet(Slots(a, s \cup {x}))
         /\ Cardinality(Slots(a, s \cup {x})) = Cardinality(Slots(a, s)) + a[x]
<1> DEFINE S == Slots(a, s)
           T == {x} \X (1..a[x])
<1>1. Slots(a, s \cup {x}) = S \cup T
  <2>1. ASSUME NEW y \in Slots(a, s \cup {x})
        PROVE  y \in S \cup T
    <3>1. y \in (s \cup {x}) \X Nat /\ y[2] \in 1..a[y[1]]
      BY DEF Slots
    <3>2. CASE y[1] = x
      <4>1. y[1] \in {x} /\ y[2] \in 1..a[x] /\ y = <<y[1], y[2]>>
        BY <3>1, <3>2
      <4> QED
        BY <4>1
    <3>3. CASE y[1] # x
      <4>1. y \in s \X Nat
        BY <3>1, <3>3
      <4> QED
        BY <3>1, <4>1 DEF Slots
    <3> QED
      BY <3>2, <3>3
  <2>2. ASSUME NEW y \in S
        PROVE  y \in Slots(a, s \cup {x})
    BY DEF Slots
  <2>3. ASSUME NEW y \in T
        PROVE  y \in Slots(a, s \cup {x})
    <3>1. y[1] = x /\ y[2] \in 1..a[x] /\ y \in {x} \X Nat
      OBVIOUS
    <3> QED
      BY <3>1 DEF Slots
  <2> HIDE DEF S, T
  <2> QED
    BY <2>1, <2>2, <2>3
<1>2. S \cap T = {}
  BY DEF Slots
<1>3. IsFiniteSet(1..a[x]) /\ Cardinality(1..a[x]) = a[x]
  <2>1. 1 \in Int /\ a[x] \in Int
    OBVIOUS
  <2>2. /\ IsFiniteSet(1..a[x])
        /\ Cardinality(1..a[x]) = IF 1 > a[x] THEN 0 ELSE a[x] - 1 + 1
    BY <2>1, FS_Interval
  <2> QED
    BY <2>2
<1>4. IsFiniteSet({x}) /\ Cardinality({x}) = 1
  BY FS_Singleton
<1>5. IsFiniteSet(T) /\ Cardinality(T) = a[x]
  <2>1. IsFiniteSet(T) /\ Cardinality(T) = Cardinality({x}) * Cardinality(1..a[x])
    BY <1>3, <1>4, FS_Product
  <2> QED
    BY <1>3, <1>4, <2>1
<1> HIDE DEF S, T
<1>6. /\ IsFiniteSet(S \cup T)
      /\ Cardinality(S \cup T) = Cardinality(S) + Cardinality(T) - Cardinality(S \cap T)
  BY <1>5, FS_Union DEF S
<1>7. Cardinality({}) = 0 /\ Cardinality(S) \in Nat
  BY FS_EmptySet, FS_CardinalityType DEF S
<1>8. Cardinality(S \cup T) = Cardinality(S) + a[x]
  <2>1. Cardinality(S \cap T) = 0
    BY <1>2, <1>7
  <2> DEFINE k == Cardinality(S)
             r == a[x]
             z == Cardinality(S \cup T)
  <2>2. z = k + r - 0 /\ k \in Nat /\ r \in Nat
    BY <1>5, <1>6, <1>7, <2>1
  <2> HIDE DEF k, r, z
  <2>3. z = k + r
    BY <2>2
  <2> QED
    BY <2>3 DEF k, r, z
<1> QED
  BY <1>1, <1>6, <1>8 DEF S

\* The slots of some of n frames are finitely many, and none of no frames.
LEMMA SlotsFinite ==
  ASSUME NEW n \in Nat, NEW a, \A i \in 1..n : a[i] \in Nat
  PROVE  /\ \A s \in SUBSET (1..n) : IsFiniteSet(Slots(a, s)) /\ Cardinality(Slots(a, s)) \in Nat
         /\ Cardinality(Slots(a, {})) = 0
<1> DEFINE T == {m \in Nat : m <= n => IsFiniteSet(Slots(a, 1..m))}
<1>1. Slots(a, {}) = {}
  BY DEF Slots
<1>2. 0 \in T
  <2>1. 1..0 = {}
    OBVIOUS
  <2> QED
    BY <1>1, <2>1, FS_EmptySet
<1>3. \A m \in Nat : m \in T => m + 1 \in T
  <2> SUFFICES ASSUME NEW m \in Nat, m \in T, m + 1 <= n
               PROVE  IsFiniteSet(Slots(a, 1 .. m + 1))
    OBVIOUS
  <2>1. IsFiniteSet(Slots(a, 1..m)) /\ m + 1 \notin 1..m /\ a[m + 1] \in Nat
    OBVIOUS
  <2>2. IsFiniteSet(Slots(a, (1..m) \cup {m + 1}))
    BY <2>1, SlotsMore
  <2>3. (1..m) \cup {m + 1} = 1 .. m + 1
    OBVIOUS
  <2> QED
    BY <2>2, <2>3
<1>4. \A m \in Nat : m \in T
  <2> HIDE DEF T
  <2> QED
    BY <1>2, <1>3, NaturalsIn
<1>5. IsFiniteSet(Slots(a, 1..n))
  BY <1>4
<1>6. ASSUME NEW s \in SUBSET (1..n)
      PROVE  IsFiniteSet(Slots(a, s)) /\ Cardinality(Slots(a, s)) \in Nat
  <2>1. Slots(a, s) \in SUBSET Slots(a, 1..n)
    BY DEF Slots
  <2>2. IsFiniteSet(Slots(a, s))
    BY <1>5, <2>1, FS_Subset
  <2> QED
    BY <2>2, FS_CardinalityType
<1> QED
  BY <1>1, <1>6, FS_EmptySet

\* What a fold over 1..n does with its subsets.
FoldsTo(it, n, a) ==
  it = [s \in SUBSET (1..n) |->
          IF s = {} THEN 0 ELSE it[s \ {CHOOSE x \in s : TRUE}] + a[CHOOSE x \in s : TRUE]]

\* Any element may come first.
LEMMA OneFrameLess ==
  ASSUME NEW n \in Nat, NEW a, \A i \in 1..n : a[i] \in Nat, NEW s \in SUBSET (1..n), NEW x \in s
  PROVE  Cardinality(Slots(a, s)) = Cardinality(Slots(a, s \ {x})) + a[x]
<1>1. s \ {x} \in SUBSET (1..n) /\ x \notin s \ {x} /\ (s \ {x}) \cup {x} = s /\ a[x] \in Nat
  OBVIOUS
<1>2. IsFiniteSet(Slots(a, s \ {x}))
  BY <1>1, SlotsFinite
<1>3. Cardinality(Slots(a, (s \ {x}) \cup {x})) = Cardinality(Slots(a, s \ {x})) + a[x]
  BY <1>1, <1>2, SlotsMore
<1> QED
  BY <1>1, <1>3

\* Such a function exists: it counts slots.
LEMMA FoldIsThere ==
  ASSUME NEW n \in Nat, NEW a, \A i \in 1..n : a[i] \in Nat
  PROVE  \E it : FoldsTo(it, n, a)
<1> DEFINE it == [s \in SUBSET (1..n) |-> Cardinality(Slots(a, s))]
           C(s) == CHOOSE x \in s : TRUE
<1>1. ASSUME NEW s \in SUBSET (1..n)
      PROVE  it[s] = IF s = {} THEN 0 ELSE it[s \ {C(s)}] + a[C(s)]
  <2>1. CASE s = {}
    BY <2>1, SlotsFinite
  <2>2. CASE s # {}
    <3>1. C(s) \in s
      BY <2>2
    <3> HIDE DEF C
    <3>2. s \ {C(s)} \in SUBSET (1..n)
      OBVIOUS
    <3>3. Cardinality(Slots(a, s)) = Cardinality(Slots(a, s \ {C(s)})) + a[C(s)]
      BY <3>1, OneFrameLess
    <3> QED
      BY <2>2, <3>2, <3>3
  <2> QED
    BY <2>1, <2>2
<1>2. it = [s \in SUBSET (1..n) |-> IF s = {} THEN 0 ELSE it[s \ {C(s)}] + a[C(s)]]
  <2> HIDE DEF C
  <2> QED
    BY <1>1
<1> HIDE DEF it
<1>3. FoldsTo(it, n, a)
  BY <1>2 DEF FoldsTo
<1> QED
  BY <1>3

\* Every such function counts slots.
LEMMA FoldCounts ==
  ASSUME NEW n \in Nat, NEW a, \A i \in 1..n : a[i] \in Nat, NEW it, FoldsTo(it, n, a)
  PROVE  it[1..n] = Total(a, n)
<1> DEFINE T == {m \in Nat : \A s \in SUBSET (1..n) : Cardinality(s) = m =>
                               it[s] = Cardinality(Slots(a, s))}
           C(s) == CHOOSE x \in s : TRUE
<1>1. ASSUME NEW s \in SUBSET (1..n)
      PROVE  it[s] = IF s = {} THEN 0 ELSE it[s \ {C(s)}] + a[C(s)]
  BY DEF FoldsTo
<1>2. IsFiniteSet(1..n) /\ \A s \in SUBSET (1..n) : IsFiniteSet(s)
  <2>1. IsFiniteSet(1..n)
    <3>1. 1 \in Int /\ n \in Int
      OBVIOUS
    <3> QED
      BY <3>1, FS_Interval
  <2> QED
    BY <2>1, FS_Subset
<1>3. 0 \in T
  <2> SUFFICES ASSUME NEW s \in SUBSET (1..n), Cardinality(s) = 0
               PROVE  it[s] = Cardinality(Slots(a, s))
    OBVIOUS
  <2>1. s = {}
    BY <1>2, FS_EmptySet
  <2> QED
    BY <1>1, <2>1, SlotsFinite
<1>4. \A m \in Nat : m \in T => m + 1 \in T
  <2> SUFFICES ASSUME NEW m \in Nat, m \in T, NEW s \in SUBSET (1..n), Cardinality(s) = m + 1
               PROVE  it[s] = Cardinality(Slots(a, s))
    OBVIOUS
  <2>1. s # {}
    BY FS_EmptySet
  <2>2. C(s) \in s
    BY <2>1
  <2>3. it[s] = it[s \ {C(s)}] + a[C(s)]
    BY <1>1, <2>1
  <2> HIDE DEF C
  <2>4. Cardinality(s \ {C(s)}) = m /\ s \ {C(s)} \in SUBSET (1..n)
    <3>1. Cardinality(s \ {C(s)}) = Cardinality(s) - 1
      BY <1>2, <2>2, FS_RemoveElement
    <3>2. Cardinality(s) - 1 = m
      OBVIOUS
    <3>3. s \ {C(s)} \in SUBSET (1..n)
      OBVIOUS
    <3> QED
      BY <3>1, <3>2, <3>3
  <2>5. it[s \ {C(s)}] = Cardinality(Slots(a, s \ {C(s)}))
    BY <2>4
  <2>6. Cardinality(Slots(a, s)) = Cardinality(Slots(a, s \ {C(s)})) + a[C(s)]
    BY <2>2, OneFrameLess
  <2> QED
    BY <2>3, <2>5, <2>6
<1>5. \A m \in Nat : m \in T
  <2> HIDE DEF T
  <2> QED
    BY <1>3, <1>4, NaturalsIn
<1>6. Cardinality(1..n) \in Nat /\ 1..n \in SUBSET (1..n)
  BY <1>2, FS_CardinalityType
<1> QED
  BY <1>5, <1>6 DEF Total

\* The sum LocalsCounted speaks of.
LEMMA LocalsAre ==
  ASSUME NEW frs \in Seq(FrameType), NEW m \in 0..Len(frs)
  PROVE  FoldSet(LAMBDA n, sum : sum + Len(frs[n].locals), 0, 1..m) = Total(Lens(frs), m)
<1> DEFINE a == Lens(frs)
           it == CHOOSE x : FoldsTo(x, m, a)
<1>1. Len(frs) \in Nat /\ m \in Nat /\ \A i \in 1..m : i \in 1..Len(frs)
  BY LenProperties
<1>2. \A i \in 1..m : a[i] = Len(frs[i].locals) /\ a[i] \in Nat
  <2> TAKE i \in 1..m
  <2>1. i \in 1..Len(frs) /\ frs[i] \in FrameType
    BY <1>1, ElementOfSeq
  <2>2. Len(frs[i].locals) \in Nat
    BY <2>1, LenProperties DEF FrameType
  <2> QED
    BY <2>1, <2>2 DEF Lens
<1>3. FoldSet(LAMBDA n, sum : sum + Len(frs[n].locals), 0, 1..m) =
        (CHOOSE x : x = [s \in SUBSET (1..m) |->
            IF s = {} THEN 0
            ELSE x[s \ {CHOOSE y \in s : TRUE}] + Len(frs[CHOOSE y \in s : TRUE].locals)])[1..m]
  BY DEF FoldSet, MapThenFoldSet
<1>4. ASSUME NEW s \in SUBSET (1..m), s # {}
      PROVE  a[CHOOSE y \in s : TRUE] = Len(frs[CHOOSE y \in s : TRUE].locals)
  <2>1. (CHOOSE y \in s : TRUE) \in s
    BY <1>4
  <2> QED
    BY <1>2, <2>1
<1>5. ASSUME NEW x
      PROVE  FoldsTo(x, m, a) <=>
               x = [s \in SUBSET (1..m) |->
                      IF s = {} THEN 0
                      ELSE x[s \ {CHOOSE y \in s : TRUE}] + Len(frs[CHOOSE y \in s : TRUE].locals)]
  BY <1>4 DEF FoldsTo
<1>6. it = CHOOSE x : x = [s \in SUBSET (1..m) |->
            IF s = {} THEN 0
            ELSE x[s \ {CHOOSE y \in s : TRUE}] + Len(frs[CHOOSE y \in s : TRUE].locals)]
  BY <1>5
<1>7. FoldsTo(it, m, a)
  BY <1>1, <1>2, FoldIsThere
<1>8. it[1..m] = Total(a, m)
  <2> HIDE DEF it, a
  <2> QED
    BY <1>1, <1>2, <1>7, FoldCounts
<1> QED
  BY <1>3, <1>6, <1>8

-----------------------------------------------------------------------------
(* The invariant is kept.                                                  *)

\* Without frames there is nothing to agree on.
LEMMA NoFrames ==
  ASSUME NEW B, NEW K, NEW st \in Seq(ValueType)
  PROVE  FramesOk(B, K, <<>>, st, <<>>)
<1>1. <<>> \in Seq(FrameType) /\ <<>> \in Seq(EntryType) /\ Len(<<>>) = 0
  BY EmptySeq
<1>2. 1..Len(<<>>) = {}
  BY <1>1
<1> QED
  BY <1>1, <1>2 DEF FramesOk

\* After a trap nothing is left.
LEMMA TrapKeeps ==
  ASSUME Trap
  PROVE  MachineOk'
<1>1. /\ phase' = "trap" /\ stack' = <<>> /\ frames' = <<>> /\ ctrls' = <<>>
  BY DEF Trap
<1>2. <<>> \in Seq(ValueType)
  BY EmptySeq
<1>3. FramesOk(bodies', checked', frames', stack', ctrls')
  BY <1>1, <1>2, NoFrames
<1> QED
  BY <1>1, <1>3 DEF MachineOk, Phases

\* A frame that goes on.
LEMMA GoesOnKeeps ==
  ASSUME RunInv, phase = "run", UNCHANGED codeVars, GoesOn
  PROVE  MachineOk'
<1> DEFINE n == Len(frames)
<1>1. /\ AllWhole(bodies, checked) /\ FramesOk(bodies, checked, frames, stack, ctrls)
      /\ n \in Nat \ {0} /\ Frame = frames[n] /\ frames \in Seq(FrameType)
  BY Here
<1>2. PICK fr2 : /\ frames' = [frames EXCEPT ![n] = fr2]
                 /\ TopStep(Frame, fr2, Body, Checks, stack, stack', ctrls, ctrls')
  BY DEF GoesOn
<1>3. Body = bodies[frames[n].fn] /\ Checks = checked[frames[n].fn]
  BY <1>1 DEF Body, Checks
<1> DEFINE fs == [frames EXCEPT ![n] = fr2]
<1>4. FramesOk(bodies, checked, fs, stack', ctrls')
  <2>1. TopStep(frames[n], fr2, bodies[frames[n].fn], checked[frames[n].fn], stack, stack', ctrls, ctrls')
    BY <1>1, <1>2, <1>3
  <2>2. n = Len(frames) /\ n # 0
    BY <1>1
  <2> HIDE DEF n
  <2> QED
    BY <1>1, <2>1, <2>2, FramesMove
<1>5. fs # <<>>
  <2>1. fs \in Seq(FrameType)
    BY <1>4 DEF FramesOk
  <2>2. DOMAIN fs = DOMAIN frames /\ DOMAIN frames = 1..n
    BY <1>1, LenProperties
  <2>3. 1 \in DOMAIN fs
    BY <1>1, <2>2
  <2> HIDE DEF fs
  <2> QED
    BY <2>3, EmptySeq
<1> HIDE DEF fs
<1>6. frames' = fs /\ bodies' = bodies /\ checked' = checked /\ phase' = "run"
  BY <1>2 DEF codeVars, fs, GoesOn
<1> QED
  BY <1>4, <1>5, <1>6 DEF MachineOk, Phases

\* A call.
LEMMA CallsKeeps ==
  ASSUME RunInv, phase = "run", UNCHANGED codeVars, Calls
  PROVE  MachineOk'
<1> DEFINE n == Len(frames)
<1>1. /\ AllWhole(bodies, checked) /\ FramesOk(bodies, checked, frames, stack, ctrls)
      /\ n \in Nat \ {0} /\ Frame = frames[n] /\ frames \in Seq(FrameType)
  BY Here
<1>2. PICK q, g, below, ls, fr2 : CallsTo(q, g, below, ls, fr2)
  BY DEF Calls
<1>3. /\ CallsNow(bodies, frames, stack, n, q, g, below) /\ g \in Local
      /\ Moves(frames[n], fr2, q + 1) /\ ls \in Seq(ValueType) /\ TypesOf(ls) = LocalsOf(g)
      /\ frames' = Append([frames EXCEPT ![n] = fr2], NewFrame(g, ls, below, ctrls))
      /\ stack' = SubSeq(stack, 1, below)
      /\ ctrls' = Append(ctrls, Bottom(g, bodies[g], below))
  BY <1>1, <1>2 DEF CallsTo
<1> DEFINE fs == Append([frames EXCEPT ![n] = fr2], NewFrame(g, ls, below, ctrls))
           st == SubSeq(stack, 1, below)
           ct == Append(ctrls, Bottom(g, bodies[g], below))
<1>4. FramesOk(bodies, checked, fs, st, ct)
  <2>1. n # 0
    BY <1>1
  <2> HIDE DEF n
  <2> QED
    BY <1>1, <1>3, <2>1, FramePushed
<1>5. fs # <<>>
  OBVIOUS
<1>6. frames' = fs /\ stack' = st /\ ctrls' = ct
  BY <1>3
<1> HIDE DEF fs, st, ct
<1>7. bodies' = bodies /\ checked' = checked /\ phase' = "run"
  BY DEF codeVars, Calls
<1> QED
  BY <1>4, <1>5, <1>6, <1>7 DEF MachineOk, Phases

\* A return.
LEMMA ReturnsKeeps ==
  ASSUME RunInv, phase = "run", UNCHANGED codeVars, Returns
  PROVE  MachineOk'
<1> DEFINE n == Len(frames)
<1>1. /\ AllWhole(bodies, checked) /\ FramesOk(bodies, checked, frames, stack, ctrls)
      /\ n \in Nat \ {0} /\ Frame = frames[n] /\ frames \in Seq(FrameType)
      /\ Frame \in FrameType
  BY Here
<1> DEFINE fs == Front(frames)
           ct == SubSeq(ctrls, 1, Frame.ctrl_base)
<1>2. /\ FramesOk(bodies, checked, fs, stack', ct) /\ Len(fs) = n - 1
      /\ n = 1 => TypesOf(stack') = FuncTypeOf(Frame.fn).outs
  <2>1. Results(stack, stack', frames[n].base, FuncTypeOf(frames[n].fn).outs)
    BY <1>1 DEF Returns
  <2>2. n # 0 /\ n = Len(frames)
    BY <1>1
  <2> HIDE DEF n
  <2> QED
    BY <1>1, <2>1, <2>2, FramePopped
<1>3. /\ frames' = fs /\ ctrls' = ct /\ bodies' = bodies /\ checked' = checked
      /\ phase' = IF n = 1 THEN "done" ELSE "run"
  BY DEF Returns, codeVars
<1>4. fs \in Seq(FrameType)
  BY <1>2 DEF FramesOk
<1> HIDE DEF fs
<1>5. (n = 1) = (fs = <<>>)
  BY <1>1, <1>2, <1>4, EmptySeq
<1>6. ASSUME n = 1
      PROVE  ct = <<>>
  <2>1. frames[1].ctrl_base = 0
    <3>1. frames # <<>>
      BY <1>1, EmptySeq
    <3> QED
      BY <1>1, <3>1 DEF FramesOk
  <2>2. ct = SubSeq(ctrls, 1, 0)
    BY <1>1, <1>6, <2>1
  <2>3. ctrls \in Seq(EntryType) /\ 0 \in 0..Len(ctrls)
    BY Here
  <2>4. ct \in Seq(EntryType) /\ Len(ct) = 0
    BY <2>2, <2>3, PrefixOk
  <2> HIDE DEF ct
  <2> QED
    BY <2>4, EmptySeq
<1>7. Frame.fn \in Local
  BY <1>1 DEF FrameType
<1> HIDE DEF ct, n
<1>8. CASE n = 1
  BY <1>2, <1>3, <1>5, <1>6, <1>7, <1>8 DEF MachineOk, Phases
<1>9. CASE n # 1
  BY <1>2, <1>3, <1>5, <1>9 DEF MachineOk, Phases
<1> QED
  BY <1>8, <1>9

\* The machine of an instruction.
LEMMA ExecuteKeeps ==
  ASSUME RunInv, Execute
  PROVE  MachineOk'
BY StepKinds, GoesOnKeeps, CallsKeeps, ReturnsKeeps, TrapKeeps

\* What a call from the embedder begins.
Begins(g, ls) ==
  /\ phase' = "run" /\ g \in Local /\ ls \in Seq(ValueType) /\ TypesOf(ls) = LocalsOf(g)
  /\ ~ 0 + locals_total + Len(ls) > MAX_VALUE_STACK
  /\ stack' = <<>>
  /\ frames' = Append(<<>>, NewFrame(g, ls, 0, <<>>))
  /\ ctrls' = Append(<<>>, Bottom(g, bodies[g], 0))
  /\ locals_total' = locals_total + Len(ls)

\* A call from the embedder begins a frame or traps.
LEMMA InvokeSteps ==
  ASSUME RunInv, Invoke
  PROVE  /\ phase = "ready" /\ frames = <<>> /\ UNCHANGED codeVars
         /\ (\E g, ls : Begins(g, ls)) \/ Trap
<1>1. /\ phase = "ready" /\ UNCHANGED codeVars
      /\ \E f \in Local : \E args \in Vectors(FuncTypeOf(f).ins) : PushFrame(f, args, frames)
  BY DEF Invoke
<1>2. frames = <<>> /\ ctrls = <<>>
  BY <1>1 DEF RunInv, MachineOk
<1>3. PICK g \in Local : \E args \in Vectors(FuncTypeOf(g).ins) : PushFrame(g, args, frames)
  BY <1>1
<1>4. PICK args \in Vectors(FuncTypeOf(g).ins) : PushFrame(g, args, frames)
  BY <1>3
<1>5. g \in DOMAIN Funcs
  BY DEF Local
<1> DEFINE ty == FuncTypeOf(g)
           k == Len(ty.ins)
           below == Len(args) - k
           top == LastOf(args, k)
           ls == top \o [i \in DOMAIN Funcs[g].locals |-> Value(Funcs[g].locals[i], 0)]
<1>6. ty.ins \in Seq(BodyType) /\ k \in Nat
  BY <1>5, FunctionTypes
<1>7. HasTypes(args, ty.ins)
  BY <1>6, VectorsTyped
<1>8. args \in Seq(ValueType) /\ Len(args) = k /\ DOMAIN args = 1..k
  BY <1>7, LenProperties DEF HasTypes
<1>9. below = 0 /\ top = args
  <2>1. below = 0
    BY <1>6, <1>8
  <2>2. SubSeq(args, 1, Len(args)) = args
    BY <1>8, WholePrefix
  <2>3. Len(args) - k + 1 = 1
    BY <1>6, <1>8
  <2> QED
    BY <2>1, <2>2, <2>3 DEF LastOf
<1>10. ls \in Seq(ValueType) /\ TypesOf(ls) = LocalsOf(g)
  BY <1>5, <1>7, <1>9, LocalsBegin
<1>11. ASSUME ~ Trap
       PROVE  /\ phase' = "run" /\ ~ below + locals_total + Len(ls) > MAX_VALUE_STACK
              /\ stack' = SubSeq(args, 1, below)
              /\ frames' = Append(frames, [fn |-> g, locals |-> ls, pc |-> 1, base |-> below,
                                           ctrl_base |-> Len(ctrls), results |-> Len(ty.outs)])
              /\ ctrls' = Append(ctrls, [target |-> Len(bodies[g]) + 1, arity |-> Len(ty.outs),
                                         height |-> below])
              /\ locals_total' = locals_total + Len(ls)
  BY ONLY <1>4, <1>11, Zenon DEF PushFrame, ls, top, below, ty, k
<1> HIDE DEF ls, below
<1>12. ASSUME ~ Trap
       PROVE  Begins(g, ls)
  <2>1. SubSeq(args, 1, below) = <<>>
    BY <1>9
  <2>2. frames' = Append(<<>>, NewFrame(g, ls, 0, <<>>))
    BY <1>2, <1>9, <1>11, <1>12 DEF NewFrame
  <2>3. ctrls' = Append(<<>>, Bottom(g, bodies[g], 0))
    BY <1>2, <1>9, <1>11, <1>12 DEF Bottom
  <2> QED
    BY <1>9, <1>10, <1>11, <1>12, <2>1, <2>2, <2>3 DEF Begins
<1> QED
  BY <1>1, <1>2, <1>12

\* The machine of a call from the embedder.
LEMMA InvokeKeeps ==
  ASSUME RunInv, Invoke
  PROVE  MachineOk'
<1>1. /\ phase = "ready" /\ bodies' = bodies /\ checked' = checked
      /\ (\E g, ls : Begins(g, ls)) \/ Trap
  BY InvokeSteps DEF codeVars
<1>2. AllWhole(bodies, checked)
  BY <1>1, WholeCode DEF RunInv
<1>3. ASSUME NEW g, NEW ls, Begins(g, ls)
      PROVE  MachineOk'
  <2> DEFINE fs == Append(<<>>, NewFrame(g, ls, 0, <<>>))
             ct == Append(<<>>, Bottom(g, bodies[g], 0))
  <2>1. FramesOk(bodies, checked, fs, <<>>, ct)
    BY <1>2, <1>3, FirstFrame DEF Begins
  <2>2. fs # <<>>
    OBVIOUS
  <2>3. frames' = fs /\ ctrls' = ct /\ stack' = <<>> /\ phase' = "run"
    BY <1>3 DEF Begins
  <2> HIDE DEF fs, ct
  <2> QED
    BY <1>1, <2>1, <2>2, <2>3 DEF MachineOk, Phases
<1> QED
  BY <1>1, <1>3, TrapKeeps

\* While code is read there is no machine.
LEMMA ReadKeeps ==
  ASSUME RunInv, Decode \/ Validate
  PROVE  MachineOk'
<1>1. /\ phase \in {"decode", "validate"} /\ phase' \in Phases \ {"run", "done", "trap"}
      /\ UNCHANGED machineVars
  BY DEF Decode, Validate, Phases
<1>2. /\ frames = <<>> /\ ctrls = <<>> /\ stack = <<>>
  BY <1>1 DEF RunInv, MachineOk
<1>3. frames' = <<>> /\ ctrls' = <<>> /\ stack' = <<>>
  BY <1>1, <1>2 DEF machineVars
<1>4. <<>> \in Seq(ValueType)
  BY EmptySeq
<1>5. FramesOk(bodies', checked', frames', stack', ctrls')
  BY <1>3, <1>4, NoFrames
<1> QED
  BY <1>1, <1>3, <1>5 DEF MachineOk, Phases

\* Checkers begin with the function's label.
LEMMA BeginningsKept ==
  ASSUME RunInv, Next
  PROVE  BeginsOk'
<1>1. /\ BeginsOk /\ checked \in [DOMAIN Funcs -> Seq(CheckerType)] /\ fn \in Local
  BY DEF RunInv, StructInv, CheckInv, DecodeInv
<1>2. First \in Local /\ \A f \in Local : f \in DOMAIN Funcs
  BY LocalIsInterval DEF Local
<1>3. CASE checked' = checked
  BY <1>1, <1>3 DEF BeginsOk
<1>4. ASSUME NEW g \in Local, checked' = [checked EXCEPT ![g] = <<NewChecker(g)>>]
      PROVE  BeginsOk'
  <2>1. checked'[g] = <<NewChecker(g)>> /\ \A f \in Local : f # g => checked'[f] = checked[f]
    BY <1>1, <1>2, <1>4
  <2>2. checked'[g][1] = NewChecker(g)
    BY <2>1
  <2> QED
    BY <1>1, <2>1, <2>2 DEF BeginsOk
<1>5. ASSUME checked[fn] # <<>>, NEW x, checked' = [checked EXCEPT ![fn] = Append(@, x)]
      PROVE  BeginsOk'
  <2> DEFINE cs == checked[fn]
  <2>1. checked'[fn] = Append(cs, x) /\ \A f \in Local : f # fn => checked'[f] = checked[f]
    BY <1>1, <1>2, <1>5
  <2>2. cs \in Seq(CheckerType) /\ cs # <<>>
    BY <1>1, <1>2, <1>5
  <2>3. 1 \in 1..Len(cs)
    BY <2>2, EmptySeq, LenProperties
  <2>4. Append(cs, x)[1] = cs[1]
    <3> HIDE DEF cs
    <3> QED
      BY <2>2, <2>3
  <2> QED
    BY <1>1, <1>5, <2>1, <2>4 DEF BeginsOk
<1>6. CASE Decode
  <2>1. checked' = checked \/ checked' = [checked EXCEPT ![First] = <<NewChecker(First)>>]
    BY <1>6 DEF Decode, codeVars
  <2> QED
    BY <1>2, <1>3, <1>4, <2>1
<1>7. CASE Validate
  <2>1. /\ phase = "validate"
        /\ \/ \E x : checked' = [checked EXCEPT ![fn] = Append(@, x)]
           \/ checked' = checked
           \/ fn < Len(Funcs) /\ checked' = [checked EXCEPT ![fn + 1] = <<NewChecker(fn + 1)>>]
    BY <1>7 DEF Validate
  <2>2. checked[fn] # <<>>
    <3>1. ChecksOk(fn, bodies[fn], checked[fn])
      BY <1>1, <2>1 DEF RunInv, StructInv, CheckInv
    <3>2. Len(checked[fn]) # 0
      BY <3>1 DEF ChecksOk
    <3> QED
      BY <3>2, EmptySeq
  <2>3. fn < Len(Funcs) => fn + 1 \in Local
    BY <1>1, NextLocal
  <2> QED
    BY <1>3, <1>4, <1>5, <2>1, <2>2, <2>3
<1>8. CASE Invoke \/ Execute
  BY <1>3, <1>8, RunSteps DEF codeVars
<1> QED
  BY <1>6, <1>7, <1>8 DEF Next

\* The invariant of running code.
THEOREM RunInvariant == Spec => []RunInv
<1>1. Init => RunInv
  <2> SUFFICES ASSUME Init
               PROVE  RunInv
    OBVIOUS
  <2>1. StructInv
    BY DecodeInit, CheckInit DEF StructInv
  <2>2. BeginsOk
    <3>1. \A f \in Local : f \in DOMAIN Funcs /\ checked = [h \in DOMAIN Funcs |-> <<>>]
      BY DEF Init, Local
    <3> QED
      BY <3>1 DEF BeginsOk
  <2>3. MachineOk
    <3>1. phase = "decode" /\ stack = <<>> /\ frames = <<>> /\ ctrls = <<>>
      BY DEF Init
    <3>2. <<>> \in Seq(ValueType)
      BY EmptySeq
    <3>3. FramesOk(bodies, checked, frames, stack, ctrls)
      BY <3>1, <3>2, NoFrames
    <3> QED
      BY <3>1, <3>3 DEF MachineOk, Phases
  <2> QED
    BY <2>1, <2>2, <2>3 DEF RunInv
<1>2. RunInv /\ StructInv' /\ [Next]_vars => RunInv'
  <2> SUFFICES ASSUME RunInv, StructInv', [Next]_vars
               PROVE  RunInv'
    OBVIOUS
  <2>1. CASE Next
    <3>1. BeginsOk'
      BY <2>1, BeginningsKept
    <3>2. MachineOk'
      BY <2>1, ReadKeeps, InvokeKeeps, ExecuteKeeps DEF Next
    <3> QED
      BY <3>1, <3>2 DEF RunInv
  <2>2. CASE UNCHANGED vars
    BY <2>2 DEF vars, codeVars, machineVars, RunInv, BeginsOk, MachineOk
  <2> QED
    BY <2>1, <2>2
<1>3. Spec => []StructInv
  BY StructureInvariant
<1> QED
  BY <1>1, <1>2, <1>3, PTL DEF Spec

-----------------------------------------------------------------------------
(* What the invariant says.                                                *)

\* The locals counted are those of the frames, and each frame was within the
\* budget when it was entered.
CountOk ==
  /\ locals_total = Total(Lens(frames), Len(frames))
  /\ \A n \in 1..Len(frames) :
       ~ frames[n].base + Total(Lens(frames), n) > MAX_VALUE_STACK

\* The locals of the first frames are those frames' own.
LEMMA TotalAgrees ==
  ASSUME NEW n, NEW a, NEW b, \A i \in 1..n : a[i] = b[i]
  PROVE  Total(a, n) = Total(b, n)
BY SlotsAgree DEF Total

\* The numbers of locals are numbers.
LEMMA LensOk ==
  ASSUME NEW frs \in Seq(FrameType)
  PROVE  /\ Len(frs) \in Nat
         /\ \A i \in 1..Len(frs) : Lens(frs)[i] = Len(frs[i].locals) /\ Lens(frs)[i] \in Nat
<1>1. Len(frs) \in Nat
  BY LenProperties
<1>2. ASSUME NEW i \in 1..Len(frs)
      PROVE  Lens(frs)[i] = Len(frs[i].locals) /\ Lens(frs)[i] \in Nat
  <2>1. frs[i] \in FrameType
    BY ElementOfSeq
  <2>2. Len(frs[i].locals) \in Nat
    BY <2>1, LenProperties DEF FrameType
  <2> QED
    BY <2>2 DEF Lens
<1> QED
  BY <1>1, <1>2

\* The locals of n frames are those of n - 1 and of the last one.
LEMMA TotalNext ==
  ASSUME NEW frs \in Seq(FrameType), NEW n \in 1..Len(frs)
  PROVE  /\ Total(Lens(frs), n) = Total(Lens(frs), n - 1) + Len(frs[n].locals)
         /\ Total(Lens(frs), n) \in Nat /\ Total(Lens(frs), n - 1) \in Nat
         /\ Len(frs[n].locals) \in Nat /\ n - 1 \in Nat
<1> DEFINE a == Lens(frs)
<1>1. Len(frs) \in Nat /\ \A i \in 1..Len(frs) : a[i] = Len(frs[i].locals) /\ a[i] \in Nat
  BY LensOk
<1> HIDE DEF a
<1>2. /\ n \in Nat /\ n - 1 \in Nat /\ n \in 1..n /\ (1..n) \ {n} = 1 .. n - 1
      /\ 1..n \in SUBSET (1..n) /\ 1 .. n - 1 \in SUBSET (1..n)
      /\ \A i \in 1..n : a[i] \in Nat
  BY <1>1
<1>3. Cardinality(Slots(a, 1..n)) = Cardinality(Slots(a, (1..n) \ {n})) + a[n]
  BY <1>2, OneFrameLess
<1>4. Cardinality(Slots(a, 1..n)) \in Nat /\ Cardinality(Slots(a, 1 .. n - 1)) \in Nat
  BY <1>2, SlotsFinite
<1> QED
  BY <1>1, <1>2, <1>3, <1>4 DEF Total, a

\* No frames have no locals.
LEMMA TotalNone ==
  ASSUME NEW a
  PROVE  Total(a, 0) = 0
<1>1. 1..0 = {} /\ Slots(a, {}) = {}
  BY DEF Slots
<1> QED
  BY <1>1, FS_EmptySet DEF Total

\* A frame more, over frames with the same numbers of locals.
LEMMA CountPush ==
  ASSUME NEW frs \in Seq(FrameType), NEW frs2 \in Seq(FrameType),
         Len(frs2) = Len(frs) + 1, NEW l,
         \A i \in 1..Len(frs) : frs2[i].base = frs[i].base /\ Len(frs2[i].locals) = Len(frs[i].locals),
         Len(frs2[Len(frs2)].locals) = l,
         \A n \in 1..Len(frs) : ~ frs[n].base + Total(Lens(frs), n) > MAX_VALUE_STACK,
         ~ frs2[Len(frs2)].base + Total(Lens(frs), Len(frs)) + l > MAX_VALUE_STACK
  PROVE  /\ Total(Lens(frs2), Len(frs2)) = Total(Lens(frs), Len(frs)) + l
         /\ \A n \in 1..Len(frs2) : ~ frs2[n].base + Total(Lens(frs2), n) > MAX_VALUE_STACK
<1> DEFINE k == Len(frs)
           a == Lens(frs)
           b == Lens(frs2)
<1>1. /\ k \in Nat /\ Len(frs2) = k + 1 /\ k + 1 \in 1 .. k + 1 /\ (k + 1) - 1 = k
      /\ \A i \in 1..k : i \in 1 .. k + 1 /\ i # k + 1 /\ 1..i \subseteq 1..k
      /\ \A i \in 1 .. k + 1 : i # k + 1 => i \in 1..k
  BY LenProperties
<1>2. \A i \in 1..k : a[i] = b[i]
  <2> TAKE i \in 1..k
  <2>1. i \in 1..Len(frs) /\ i \in 1..Len(frs2)
    BY <1>1
  <2> QED
    BY <2>1, LensOk
<1>3. \A n \in 1..k : Total(a, n) = Total(b, n)
  <2> TAKE n \in 1..k
  <2>1. \A i \in 1..n : a[i] = b[i]
    BY <1>1, <1>2
  <2> HIDE DEF a, b
  <2> QED
    BY <2>1, TotalAgrees
<1>4. Total(a, k) = Total(b, k)
  <2> HIDE DEF a, b
  <2> QED
    BY <1>2, TotalAgrees
<1>5. /\ Total(b, k + 1) = Total(b, k) + Len(frs2[k + 1].locals)
      /\ Len(frs2[k + 1].locals) \in Nat /\ Total(b, k) \in Nat /\ frs2[k + 1].base \in Nat
  <2>1. k + 1 \in 1..Len(frs2)
    BY <1>1
  <2>2. frs2[k + 1] \in FrameType
    BY <2>1, ElementOfSeq
  <2>3. frs2[k + 1].base \in Nat
    BY <2>2 DEF FrameType
  <2> HIDE DEF k
  <2> QED
    BY <1>1, <2>1, <2>3, TotalNext
<1>6. Total(b, k + 1) = Total(a, k) + l /\ l = Len(frs2[k + 1].locals)
  BY <1>1, <1>4, <1>5
<1>7. ~ frs2[k + 1].base + Total(b, k + 1) > MAX_VALUE_STACK
  <2> DEFINE x == frs2[k + 1].base
             y == Total(a, k)
  <2>1. ~ x + y + l > MAX_VALUE_STACK /\ x \in Nat /\ y \in Nat /\ l \in Nat
    BY <1>1, <1>4, <1>5, <1>6
  <2> HIDE DEF x, y
  <2>2. x + y + l = x + (y + l)
    BY <2>1
  <2>3. ~ x + (y + l) > MAX_VALUE_STACK
    BY <2>1, <2>2
  <2> QED
    BY <1>6, <2>3 DEF x, y
<1>8. ASSUME NEW n \in 1..Len(frs2)
      PROVE  ~ frs2[n].base + Total(b, n) > MAX_VALUE_STACK
  <2>1. CASE n = k + 1
    BY <1>7, <2>1
  <2>2. CASE n # k + 1
    <3>1. n \in 1..k
      BY <1>1, <2>2
    <3> HIDE DEF a, b
    <3>2. frs2[n].base = frs[n].base /\ Total(a, n) = Total(b, n)
      BY <1>3, <3>1
    <3>3. ~ frs[n].base + Total(a, n) > MAX_VALUE_STACK
      BY <3>1 DEF a
    <3> QED
      BY <3>2, <3>3
  <2> QED
    BY <2>1, <2>2
<1> QED
  BY <1>1, <1>6, <1>8

\* Going on changes neither.
LEMMA GoesOnCounts ==
  ASSUME RunInv, CountOk, phase = "run", GoesOn
  PROVE  CountOk'
<1> DEFINE n == Len(frames)
<1>1. frames \in Seq(FrameType) /\ n \in Nat \ {0} /\ Frame = frames[n] /\ DOMAIN frames = 1..n
  BY Here, LenProperties
<1>2. PICK fr2 : /\ frames' = [frames EXCEPT ![n] = fr2]
                 /\ Len(fr2.locals) = Len(Frame.locals) /\ fr2.base = Frame.base
                 /\ fr2 \in FrameType
  BY DEF GoesOn, TopStep, Moves
<1> DEFINE fs == [frames EXCEPT ![n] = fr2]
<1>3. Len(fs) = n /\ \A i \in 1..n : fs[i] = IF i = n THEN fr2 ELSE frames[i]
  <2>1. n \in 1..Len(frames)
    BY <1>1
  <2>2. Len(fs) = n
    BY <1>1, <1>2, <2>1, ExceptSeq
  <2> QED
    BY <1>1, <2>2
<1> HIDE DEF fs
<1>4. \A i \in 1..n : Len(fs[i].locals) = Len(frames[i].locals) /\ fs[i].base = frames[i].base
  BY <1>1, <1>2, <1>3
<1>5. Lens(fs) = Lens(frames)
  BY <1>3, <1>4 DEF Lens
<1>6. frames' = fs /\ locals_total' = locals_total
  BY <1>2 DEF fs, GoesOn
<1>7. Lens(frames') = Lens(frames) /\ Len(frames') = Len(frames)
  BY <1>3, <1>5, <1>6
<1>8. ASSUME NEW i \in 1..n
      PROVE  ~ fs[i].base + Total(Lens(fs), i) > MAX_VALUE_STACK
  <2>1. fs[i].base = frames[i].base
    BY <1>4
  <2>2. ~ frames[i].base + Total(Lens(frames), i) > MAX_VALUE_STACK
    BY DEF CountOk
  <2> QED
    BY <1>5, <2>1, <2>2
<1> QED
  BY <1>3, <1>5, <1>6, <1>8 DEF CountOk

\* A return gives back the frame's locals.
LEMMA ReturnCounts ==
  ASSUME RunInv, CountOk, phase = "run", Returns
  PROVE  CountOk'
<1> DEFINE n == Len(frames)
           fs == Front(frames)
<1>1. frames \in Seq(FrameType) /\ n \in Nat \ {0} /\ Frame = frames[n]
  BY Here
<1>2. frames' = fs /\ locals_total' = locals_total - Len(Frame.locals)
  BY DEF Returns
<1>3. fs \in Seq(FrameType) /\ Len(fs) = n - 1 /\ \A i \in 1 .. n - 1 : fs[i] = frames[i]
  BY <1>1, FrontOk
<1> HIDE DEF fs
<1>4. n \in 1..n /\ \A i \in 1 .. n - 1 : i \in 1..n /\ 1..i \subseteq 1 .. n - 1
  BY <1>1
<1>5. /\ Total(Lens(frames), n) = Total(Lens(frames), n - 1) + Len(frames[n].locals)
      /\ Total(Lens(frames), n - 1) \in Nat /\ Len(frames[n].locals) \in Nat
  <2>1. n \in 1..Len(frames)
    BY <1>4
  <2> HIDE DEF n
  <2> QED
    BY <1>1, <2>1, TotalNext
<1> DEFINE a == Lens(frames)
           b == Lens(fs)
<1>6. \A i \in 1 .. n - 1 : a[i] = b[i]
  <2> TAKE i \in 1 .. n - 1
  <2>1. i \in 1..Len(frames) /\ i \in 1..Len(fs)
    BY <1>3, <1>4
  <2> QED
    BY <1>1, <1>3, <2>1, LensOk
<1> HIDE DEF a, b
<1>7. Total(a, n - 1) = Total(b, n - 1)
  BY <1>6, TotalAgrees
<1>8. \A i \in 1 .. n - 1 : Total(a, i) = Total(b, i)
  <2> TAKE i \in 1 .. n - 1
  <2>1. \A j \in 1..i : a[j] = b[j]
    BY <1>4, <1>6
  <2> QED
    BY <2>1, TotalAgrees
<1>9. locals_total' = Total(b, Len(fs))
  <2>1. locals_total = Total(a, n)
    BY DEF CountOk, a
  <2>2. /\ Total(a, n) = Total(a, n - 1) + Len(frames[n].locals)
        /\ Total(a, n - 1) \in Nat /\ Len(frames[n].locals) \in Nat
    BY <1>5 DEF a
  <2> DEFINE x == Total(a, n - 1)
             y == Len(frames[n].locals)
             z == locals_total'
  <2>3. z = x + y - y /\ x \in Nat /\ y \in Nat
    BY <1>1, <1>2, <2>1, <2>2
  <2> HIDE DEF x, y, z
  <2>4. z = x
    BY <2>3
  <2> QED
    BY <1>3, <1>7, <2>4 DEF x, z
<1>10. ASSUME NEW i \in 1..Len(fs)
       PROVE  ~ fs[i].base + Total(b, i) > MAX_VALUE_STACK
  <2>1. i \in 1 .. n - 1 /\ i \in 1..n
    BY <1>3, <1>4
  <2>2. ~ frames[i].base + Total(a, i) > MAX_VALUE_STACK
    BY <2>1 DEF CountOk, a
  <2> QED
    BY <1>3, <1>8, <2>1, <2>2
<1> QED
  BY <1>2, <1>9, <1>10 DEF CountOk, b

\* A call counts the locals of its frame.
LEMMA CallsCount ==
  ASSUME RunInv, CountOk, phase = "run", Calls, MachineOk'
  PROVE  CountOk'
<1> DEFINE n == Len(frames)
<1>1. frames \in Seq(FrameType) /\ n \in Nat \ {0} /\ Frame = frames[n] /\ DOMAIN frames = 1..n
  BY Here, LenProperties
<1>2. PICK q, g, below, ls, fr2 : CallsTo(q, g, below, ls, fr2)
  BY DEF Calls
<1>3. /\ frames' = Append([frames EXCEPT ![n] = fr2], NewFrame(g, ls, below, ctrls))
      /\ fr2 \in FrameType /\ fr2.base = Frame.base /\ Len(fr2.locals) = Len(Frame.locals)
      /\ locals_total' = locals_total + Len(ls)
      /\ ~ below + locals_total + Len(ls) > MAX_VALUE_STACK
  BY <1>2 DEF CallsTo, Moves
<1> DEFINE fs == [frames EXCEPT ![n] = fr2]
           new == NewFrame(g, ls, below, ctrls)
           ft == Append(fs, new)
<1>4. fs \in Seq(FrameType) /\ Len(fs) = n /\ \A i \in 1..n : fs[i] = IF i = n THEN fr2 ELSE frames[i]
  <2>1. n \in 1..Len(frames)
    BY <1>1
  <2>2. fs \in Seq(FrameType) /\ Len(fs) = n
    BY <1>1, <1>3, <2>1, ExceptSeq
  <2> QED
    BY <1>1, <2>2
<1> HIDE DEF fs
<1>5. new.base = below /\ new.locals = ls
  BY DEF NewFrame
<1> HIDE DEF new
<1>6. ft \in Seq(FrameType)
  <2>1. frames' \in Seq(FrameType)
    BY DEF MachineOk, FramesOk
  <2> QED
    BY <1>3, <2>1 DEF fs, new
<1>7. /\ Len(ft) = n + 1 /\ ft[n + 1] = new /\ \A i \in 1..n : ft[i] = fs[i]
      /\ \A i \in 1..n : i \in 1..Len(fs)
  <2> DEFINE S == FrameType \cup {new}
  <2>1. fs \in Seq(S) /\ new \in S
    <3>1. fs = [i \in 1..n |-> fs[i]] /\ \A i \in 1..n : fs[i] \in FrameType
      BY <1>1, <1>4, LenProperties, ElementOfSeq
    <3> HIDE DEF n
    <3>2. fs \in [1..n -> S] /\ n \in Nat
      BY <1>1, <3>1
    <3> QED
      BY <3>2, SeqDef
  <2> HIDE DEF S
  <2>2. /\ Len(ft) = Len(fs) + 1 /\ ft[Len(fs) + 1] = new
        /\ \A i \in 1..Len(fs) : ft[i] = fs[i]
    BY <2>1, AppendOk
  <2> HIDE DEF ft
  <2> QED
    BY <1>4, <2>2
<1>8. ft[Len(ft)] = new
  BY <1>7
<1> HIDE DEF ft
<1>9. \A i \in 1..n : ft[i].base = frames[i].base /\ Len(ft[i].locals) = Len(frames[i].locals)
  BY <1>1, <1>3, <1>4, <1>7
<1>10. /\ locals_total = Total(Lens(frames), Len(frames))
       /\ \A i \in 1..n : ~ frames[i].base + Total(Lens(frames), i) > MAX_VALUE_STACK
  BY DEF CountOk
<1>11. /\ Total(Lens(ft), Len(ft)) = Total(Lens(frames), Len(frames)) + Len(ls)
       /\ \A i \in 1..Len(ft) : ~ ft[i].base + Total(Lens(ft), i) > MAX_VALUE_STACK
  <2>1. ~ ft[Len(ft)].base + Total(Lens(frames), Len(frames)) + Len(ls) > MAX_VALUE_STACK
    BY <1>3, <1>5, <1>8, <1>10
  <2>2. Len(ft[Len(ft)].locals) = Len(ls)
    BY <1>5, <1>8
  <2> QED
    BY <1>1, <1>6, <1>7, <1>9, <1>10, <2>1, <2>2, CountPush
<1>12. frames' = ft
  BY <1>3 DEF ft, fs, new
<1> QED
  BY <1>3, <1>10, <1>11, <1>12 DEF CountOk

\* So does a call from the embedder.
LEMMA BeginsCount ==
  ASSUME CountOk, frames = <<>>, NEW g, NEW ls, Begins(g, ls), MachineOk'
  PROVE  CountOk'
<1> DEFINE new == NewFrame(g, ls, 0, <<>>)
           ft == Append(<<>>, new)
<1>1. frames \in Seq(FrameType) /\ Len(frames) = 0 /\ 1..Len(frames) = {}
  BY EmptySeq
<1>2. /\ frames' = ft /\ locals_total' = locals_total + Len(ls)
      /\ ~ 0 + locals_total + Len(ls) > MAX_VALUE_STACK
  BY DEF Begins
<1>3. new.base = 0 /\ new.locals = ls
  BY DEF NewFrame
<1> HIDE DEF new
<1>4. Len(ft) = 1 /\ ft[1] = new
  OBVIOUS
<1>5. ft \in Seq(FrameType)
  BY <1>2 DEF MachineOk, FramesOk
<1>6. ft[Len(ft)] = new /\ Len(ft) = Len(frames) + 1
  BY <1>1, <1>4
<1> HIDE DEF ft
<1>7. locals_total = Total(Lens(frames), Len(frames))
  BY DEF CountOk
<1>8. /\ Total(Lens(ft), Len(ft)) = Total(Lens(frames), Len(frames)) + Len(ls)
      /\ \A i \in 1..Len(ft) : ~ ft[i].base + Total(Lens(ft), i) > MAX_VALUE_STACK
  <2>1. ~ ft[Len(ft)].base + Total(Lens(frames), Len(frames)) + Len(ls) > MAX_VALUE_STACK
    BY <1>2, <1>3, <1>6, <1>7
  <2>2. Len(ft[Len(ft)].locals) = Len(ls)
    BY <1>3, <1>6
  <2>3. /\ \A i \in 1..Len(frames) : ft[i].base = frames[i].base
                                     /\ Len(ft[i].locals) = Len(frames[i].locals)
        /\ \A i \in 1..Len(frames) : ~ frames[i].base + Total(Lens(frames), i) > MAX_VALUE_STACK
    BY <1>1
  <2> QED
    BY <1>1, <1>5, <1>6, <2>1, <2>2, <2>3, CountPush
<1> QED
  BY <1>2, <1>7, <1>8 DEF CountOk

\* Without frames nothing is counted.
LEMMA NothingCounted ==
  ASSUME frames = <<>>, locals_total = 0
  PROVE  CountOk
<1>1. Len(frames) = 0 /\ 1..Len(frames) = {}
  BY EmptySeq
<1> QED
  BY <1>1, TotalNone DEF CountOk

\* The locals of the frames are counted.
THEOREM LocalsAreCounted == Spec => []CountOk
<1>1. Init => CountOk
  BY NothingCounted DEF Init
<1>2. RunInv /\ RunInv' /\ CountOk /\ [Next]_vars => CountOk'
  <2> SUFFICES ASSUME RunInv, RunInv', CountOk, [Next]_vars
               PROVE  CountOk'
    OBVIOUS
  <2>1. MachineOk'
    BY DEF RunInv
  <2>2. CASE UNCHANGED machineVars
    BY <2>2 DEF machineVars, CountOk
  <2>3. CASE Trap
    <3>1. frames' = <<>> /\ locals_total' = 0
      BY <2>3 DEF Trap
    <3>2. Len(frames') = 0 /\ 1..Len(frames') = {}
      BY <3>1, EmptySeq
    <3> QED
      BY <3>1, <3>2, TotalNone DEF CountOk
  <2>4. CASE Execute
    BY <2>1, <2>3, <2>4, StepKinds, GoesOnCounts, ReturnCounts, CallsCount
  <2>5. CASE Invoke
    <3>1. frames = <<>> /\ ((\E g, ls : Begins(g, ls)) \/ Trap)
      BY <2>5, InvokeSteps
    <3>2. ASSUME NEW g, NEW ls, Begins(g, ls)
          PROVE  CountOk'
      BY <2>1, <3>1, <3>2, BeginsCount
    <3> QED
      BY <2>3, <3>1, <3>2
  <2>6. CASE Decode \/ Validate \/ UNCHANGED vars
    BY <2>2, <2>6 DEF Decode, Validate, vars
  <2> QED
    BY <2>4, <2>5, <2>6 DEF Next
<1> QED
  BY <1>1, <1>2, RunInvariant, PTL DEF Spec

OpenOk == open \in Seq(Nat)

\* The decoder's open blocks are positions.
LEMMA OpenIsNumbers == Spec => []OpenOk
<1>1. Init => OpenOk
  BY EmptySeq DEF Init, OpenOk
<1>2. DecodeInv /\ OpenOk /\ [Next]_vars => OpenOk'
  <2> SUFFICES ASSUME DecodeInv, open \in Seq(Nat), [Next]_vars
               PROVE  open' \in Seq(Nat)
    BY DEF OpenOk
  <2>1. CASE open' = open
    BY <2>1
  <2>2. CASE \E op \in Following : open' = DecodeOp(op, bodies[fn], open).open
    <3> PICK op \in Following : open' = DecodeOp(op, bodies[fn], open).open
      BY <2>2
    <3> DEFINE b == bodies[fn]
    <3>1. Len(b) \in Nat
      <4>1. fn \in DOMAIN Funcs /\ bodies \in [DOMAIN Funcs -> Seq(Instructions)]
        BY NextLocal DEF DecodeInv
      <4>2. b \in Seq(Instructions)
        BY <4>1
      <4> QED
        BY <4>2, LenProperties
    <3> HIDE DEF b
    <3>2. open' = DecodeOp(op, b, open).open
      BY DEF b
    <3>3. "end" \notin Openers /\ "else" \notin Openers /\ End.op = "end"
      BY DEF Openers, End
    <3>4. CASE op.op \in Openers
      <4>1. DecodeOp(op, b, open) = [out |-> Append(b, op), open |-> Append(open, Len(b) + 1)]
        BY <3>3, <3>4 DEF DecodeOp
      <4>2. Len(b) + 1 \in Nat
        BY <3>1
      <4> QED
        BY <3>2, <4>1, <4>2, AppendOk
    <3>5. CASE op = End /\ open # <<>>
      <4>1. DecodeOp(op, b, open) = [out |-> CloseBlock(b, Last(open)), open |-> Front(open)]
        BY <3>3, <3>5 DEF DecodeOp
      <4> QED
        BY <3>2, <3>5, <4>1, FrontOk
    <3>6. CASE op.op \notin Openers /\ ~ (op = End /\ open # <<>>)
      <4>1. DecodeOp(op, b, open).open = open
        BY <3>3, <3>6 DEF DecodeOp
      <4> QED
        BY <3>2, <4>1
    <3> QED
      BY <3>4, <3>5, <3>6
  <2>3. open' = open \/ \E op \in Following : open' = DecodeOp(op, bodies[fn], open).open
    <3>1. CASE Decode
      BY <3>1 DEF Decode, codeVars
    <3>2. CASE Validate \/ UNCHANGED vars
      BY <3>2 DEF Validate, vars, codeVars
    <3>3. CASE Invoke \/ Execute
      BY <3>3, RunSteps DEF codeVars
    <3> QED
      BY <3>1, <3>2, <3>3 DEF Next
  <2> QED
    BY <2>1, <2>2, <2>3
<1>3. Spec => []DecodeInv
  <2>1. StructInv => DecodeInv
    BY DEF StructInv
  <2> QED
    BY <2>1, StructureInvariant, PTL
<1> QED
  BY <1>1, <1>2, <1>3, PTL DEF Spec

\* What a call takes and gives back is counted, it leaves the results of its
\* type, and there is a machine only in between (exec.rs, Machine::call,
\* push_frame and pop_frame): for every depth of calls and every budget.
THEOREM CallsAreBalanced == Spec => []CallsBalance
<1>1. RunInv /\ CountOk /\ OpenOk => CallsBalance
  <2> SUFFICES ASSUME RunInv, CountOk, open \in Seq(Nat)
               PROVE  CallsBalance
    BY DEF OpenOk
  <2>1. /\ DecodeInv /\ CheckInv /\ MachineOk /\ FramesOk(bodies, checked, frames, stack, ctrls)
        /\ stack \in Seq(ValueType) /\ frames \in Seq(FrameType) /\ ctrls \in Seq(EntryType)
    BY DEF RunInv, StructInv, MachineOk, FramesOk
  <2>2. Len(frames) \in Nat
    BY <2>1, LenProperties
  <2>3. locals_total \in Nat
    <3>1. locals_total = Total(Lens(frames), Len(frames))
      BY DEF CountOk
    <3>2. CASE Len(frames) = 0
      BY <3>1, <3>2, TotalNone
    <3>3. CASE Len(frames) # 0
      <4>1. Len(frames) \in 1..Len(frames)
        BY <2>2, <3>3
      <4> QED
        BY <2>1, <3>1, <4>1, TotalNext
    <3> QED
      BY <3>2, <3>3
  <2>4. TypeOK
    <3>2. fn \in Local /\ DOMAIN bodies = DOMAIN Funcs /\ DOMAIN checked = DOMAIN Funcs
      BY <2>1 DEF DecodeInv, CheckInv
    <3>3. phase \in Phases /\ Running = (frames # <<>>)
      BY <2>1 DEF MachineOk, Running
    <3> QED
      BY <2>1, <2>3, <3>2, <3>3 DEF TypeOK, ValueType, FrameType, EntryType, Phases
  <2>5. LocalsCounted
    <3> DEFINE Locals(m) == FoldSet(LAMBDA n, sum : sum + Len(frames[n].locals), 0, 1..m)
    <3>1. \A m \in 0..Len(frames) : Locals(m) = Total(Lens(frames), m)
      BY <2>1, LocalsAre
    <3> HIDE DEF Locals
    <3>2. Len(frames) \in 0..Len(frames) /\ DOMAIN frames = 1..Len(frames)
          /\ \A n \in 1..Len(frames) : n \in 0..Len(frames)
      BY <2>1, <2>2, LenProperties
    <3>3. locals_total = Locals(Len(frames))
      BY <3>1, <3>2 DEF CountOk
    <3>4. ASSUME NEW n \in DOMAIN frames
          PROVE  frames[n].base + Locals(n) <= MAX_VALUE_STACK
      <4>1. ~ frames[n].base + Locals(n) > MAX_VALUE_STACK
        BY <3>1, <3>2, <3>4 DEF CountOk
      <4>2. frames[n].base \in Nat /\ Locals(n) \in Nat /\ MAX_VALUE_STACK \in Nat
        <5>1. frames[n] \in FrameType
          BY <2>1, <3>2, ElementOfSeq
        <5>2. Total(Lens(frames), n) \in Nat
          BY <2>1, <3>2, TotalNext
        <5> QED
          BY <3>1, <3>2, <5>1, <5>2, MachineAssumption DEF FrameType
      <4> QED
        BY <4>1, <4>2
    <3> QED
      BY <3>3, <3>4 DEF LocalsCounted, Locals
  <2>6. ResultsTyped
    <3> SUFFICES ASSUME phase = "done"
                 PROVE  /\ \E f \in Local : TypesOf(stack) = FuncTypeOf(f).outs
                        /\ frames = <<>> /\ ctrls = <<>> /\ locals_total = 0
      BY DEF ResultsTyped
    <3>1. /\ \E f \in Local : TypesOf(stack) = FuncTypeOf(f).outs
          /\ frames = <<>> /\ ctrls = <<>>
      BY <2>1 DEF MachineOk
    <3>2. locals_total = 0
      <4>1. Len(frames) = 0
        BY <3>1, EmptySeq
      <4> QED
        BY <4>1, TotalNone DEF CountOk
    <3> QED
      BY <3>1, <3>2
  <2> QED
    BY <2>4, <2>5, <2>6 DEF CallsBalance
<1> QED
  BY <1>1, RunInvariant, LocalsAreCounted, OpenIsNumbers, PTL

-----------------------------------------------------------------------------
(* Callers.                                                                *)

\* What is the same below n is kept.
LEMMA KeptBelow ==
  ASSUME NEW S, NEW s \in Seq(S), NEW t \in Seq(S), NEW n \in Nat, n <= Len(s), n <= Len(t),
         \A m \in 1..n : t[m] = s[m]
  PROVE  Kept(s, t, n)
<1>1. n \in 0..Len(s) /\ n \in 0..Len(t)
  BY LenProperties
<1> DEFINE x == SubSeq(s, 1, n)
           y == SubSeq(t, 1, n)
<1>2. /\ x \in Seq(S) /\ Len(x) = n /\ \A m \in 1..n : x[m] = s[m]
  BY <1>1, PrefixOk
<1>3. /\ y \in Seq(S) /\ Len(y) = n /\ \A m \in 1..n : y[m] = t[m]
  BY <1>1, PrefixOk
<1>4. x = y
  <2> HIDE DEF x, y
  <2> QED
    BY <1>2, <1>3, SameSequence
<1>5. SubSeq(x, 1, n) = x
  <2> HIDE DEF x
  <2> QED
    BY <1>2, WholePrefix
<1>6. IsPrefix(x, t)
  <2> HIDE DEF x
  <2> QED
    BY <1>2, <1>4, <1>5 DEF IsPrefix, y
<1> QED
  BY <1>6 DEF Kept

\* A step that does not return leaves all that is below the running frame.
LEMMA CallersKeep ==
  ASSUME RunInv, Execute, Len(frames') >= Len(frames)
  PROVE  /\ KeepsBelow(Frame, stack, stack', ctrls, ctrls')
         /\ \A i \in 1 .. Len(frames) - 1 : frames'[i] = frames[i]
<1> DEFINE n == Len(frames)
<1>1. phase = "run" /\ (GoesOn \/ Returns \/ Calls \/ Trap)
  BY StepKinds
<1>2. /\ AllWhole(bodies, checked) /\ FramesOk(bodies, checked, frames, stack, ctrls)
      /\ stack \in Seq(ValueType) /\ ctrls \in Seq(EntryType) /\ frames \in Seq(FrameType)
      /\ n \in Nat \ {0} /\ Frame = frames[n] /\ Frame \in FrameType
      /\ Whole(Frame.fn, Body, Checks) /\ Top(Frame, Body, Checks, stack, ctrls)
      /\ Len(stack) \in Nat /\ Len(ctrls) \in Nat
      /\ Frame.base \in Nat /\ Frame.ctrl_base \in Nat /\ Frame.ctrl_base <= Len(ctrls)
  BY <1>1, Here
<1>3. /\ DOMAIN frames = 1..n /\ \A i \in 1 .. n - 1 : i \in 1..n /\ i # n
      /\ n \in 1..n
  BY <1>2, LenProperties
<1>4. CASE GoesOn
  <2> PICK fr2 : /\ frames' = [frames EXCEPT ![n] = fr2]
                 /\ TopStep(Frame, fr2, Body, Checks, stack, stack', ctrls, ctrls')
    BY <1>4 DEF GoesOn
  <2>1. \A i \in 1 .. n - 1 : frames'[i] = frames[i]
    BY <1>3
  <2> QED
    BY <2>1 DEF TopStep
<1>5. CASE Returns
  <2>1. frames # <<>> /\ frames' = Front(frames)
    BY <1>2, <1>5, EmptySeq DEF Returns
  <2>2. Len(frames') = n - 1
    BY <1>2, <2>1, FrontOk
  <2> HIDE DEF n
  <2>3. ~ n - 1 >= n
    BY <1>2
  <2> QED
    BY <2>2, <2>3 DEF n
<1>6. CASE Calls
  <2> PICK q, g, below, ls, fr2 : CallsTo(q, g, below, ls, fr2)
    BY <1>6 DEF Calls
  <2> DEFINE fs == [frames EXCEPT ![n] = fr2]
             new == NewFrame(g, ls, below, ctrls)
             bot == Bottom(g, bodies[g], below)
  <2>1. /\ frames' = Append(fs, new) /\ stack' = SubSeq(stack, 1, below)
        /\ ctrls' = Append(ctrls, bot) /\ Moves(Frame, fr2, q + 1)
        /\ CallsNow(bodies, frames, stack, n, q, g, below) /\ fr2 \in FrameType
    BY DEF CallsTo, Moves
  <2>2. below \in 0..Len(stack) /\ Frame.base <= below
    <3> DEFINE k == Len(FuncTypeOf(Body[q].func).ins)
    <3>1. /\ q \in 1..Len(Body) /\ Frame.pc = q /\ Body[q].op = "call"
          /\ below = Len(stack) - k
      BY <1>2, <2>1 DEF CallsNow, Body
    <3>2. Len(stack) - k \in 0..Len(stack) /\ Frame.base <= Len(stack) - k
      BY <1>2, <2>1, <3>1, CallerWaits
    <3> HIDE DEF k
    <3> QED
      BY <3>1, <3>2
  <2>3. fs \in Seq(FrameType) /\ Len(fs) = n /\ \A i \in 1 .. n - 1 : fs[i] = frames[i]
    <3>1. fs \in Seq(FrameType) /\ Len(fs) = n
      BY <1>2, <1>3, <2>1, ExceptSeq
    <3> QED
      BY <1>3, <3>1
  <2> HIDE DEF fs, new, bot
  <2>4. \A i \in 1 .. n - 1 : frames'[i] = frames[i]
    <3> TAKE i \in 1 .. n - 1
    <3>1. i \in 1..Len(fs)
      BY <1>3, <2>3
    <3>2. Append(fs, new)[i] = fs[i]
      BY <2>3, <3>1
    <3> QED
      BY <2>1, <2>3, <3>2
  <2>5. /\ Len(stack') = below /\ \A m \in 1..below : stack'[m] = stack[m]
    BY <1>2, <2>1, <2>2, PrefixOk
  <2>6. Len(ctrls') = Len(ctrls) + 1 /\ \A m \in 1..Len(ctrls) : ctrls'[m] = ctrls[m]
    BY <1>2, <2>1
  <2>7. KeepsBelow(Frame, stack, stack', ctrls, ctrls')
    <3> DEFINE x == Frame.base
               y == Frame.ctrl_base
               l == Len(ctrls)
    <3>1. /\ x \in Nat /\ y \in Nat /\ y <= l /\ l \in Nat /\ x <= below /\ below \in Nat
          /\ Len(stack') = below /\ Len(ctrls') = l + 1
          /\ (\A m \in 1..below : stack'[m] = stack[m]) /\ \A m \in 1..l : ctrls'[m] = ctrls[m]
      BY <1>2, <2>2, <2>5, <2>6
    <3> HIDE DEF x, y, l
    <3>2. /\ x <= Len(stack') /\ y <= Len(ctrls')
          /\ \A m \in 1..x : stack'[m] = stack[m]
          /\ \A m \in 1..y : ctrls'[m] = ctrls[m]
      BY <3>1
    <3> QED
      BY <3>2 DEF KeepsBelow, x, y
  <2> QED
    BY <2>4, <2>7
<1>7. CASE Trap
  <2>1. Len(frames') = 0
    BY <1>7, EmptySeq DEF Trap
  <2> QED
    BY <1>2, <2>1
<1> QED
  BY <1>1, <1>4, <1>5, <1>6, <1>7

\* Running code never touches its callers: their frames, and the values and
\* control entries below its own, stay as they are until it returns (exec.rs,
\* do_branch, pop_frame and push_frame, which share one stack of each kind).
THEOREM CallersAreUntouched == Spec => CallersUntouched
<1> DEFINE A == \A n \in DOMAIN frames : n < Len(frames) /\ Len(frames') >= Len(frames) =>
                  /\ frames'[n] = frames[n]
                  /\ Kept(stack, stack', frames[n + 1].base)
                  /\ Kept(ctrls, ctrls', frames[n + 1].ctrl_base)
<1>1. RunInv /\ RunInv' /\ [Next]_vars => [A]_vars
  <2> SUFFICES ASSUME RunInv, RunInv', Next, NEW n \in DOMAIN frames, n < Len(frames),
                      Len(frames') >= Len(frames)
               PROVE  /\ frames'[n] = frames[n]
                      /\ Kept(stack, stack', frames[n + 1].base)
                      /\ Kept(ctrls, ctrls', frames[n + 1].ctrl_base)
    OBVIOUS
  <2>1. phase = "run"
    <3>1. frames # <<>>
      BY EmptySeq
    <3> QED
      BY <3>1 DEF RunInv, MachineOk
  <2>2. Execute
    BY <2>1 DEF Next, Decode, Validate, Invoke
  <2>3. /\ KeepsBelow(Frame, stack, stack', ctrls, ctrls')
        /\ \A i \in 1 .. Len(frames) - 1 : frames'[i] = frames[i]
    BY <2>2, CallersKeep
  <2> DEFINE l == Len(frames)
             x == Frame.base
             y == Frame.ctrl_base
             v == frames[n + 1].base
             w == frames[n + 1].ctrl_base
  <2>4. /\ AllWhole(bodies, checked) /\ FramesOk(bodies, checked, frames, stack, ctrls)
        /\ stack \in Seq(ValueType) /\ ctrls \in Seq(EntryType) /\ frames \in Seq(FrameType)
        /\ l \in Nat \ {0} /\ Frame = frames[l]
        /\ x \in Nat /\ y \in Nat /\ y <= Len(ctrls) /\ Len(ctrls) \in Nat /\ Len(stack) \in Nat
    BY <2>1, Here
  <2>5. stack' \in Seq(ValueType) /\ ctrls' \in Seq(EntryType)
    BY DEF RunInv, MachineOk, FramesOk
  <2>6. n \in 1 .. l - 1 /\ n + 1 \in 1..l /\ l \in 1..l
    BY <2>4, LenProperties
  <2>7. v <= x /\ w <= y /\ v \in Nat /\ w \in Nat
    <3>1. n + 1 \in 1..Len(frames) /\ l \in 1..Len(frames) /\ n + 1 \in 1..l
      BY <2>6
    <3>2. v <= x /\ w <= y
      BY <2>4, <3>1, PiecesOrdered
    <3>3. frames[n + 1] \in FrameType
      BY <2>4, <3>1, ElementOfSeq
    <3> QED
      BY <3>2, <3>3 DEF FrameType
  <2>8. x <= Len(stack)
    <3>1. ValuesOk(Checks[Frame.pc].stack, 0, stack, Frame.base, Len(stack))
      BY <2>1, Here DEF Top, FrameOk
    <3> QED
      BY <3>1 DEF ValuesOk
  <2>9. /\ x <= Len(stack') /\ y <= Len(ctrls') /\ Len(stack') \in Nat /\ Len(ctrls') \in Nat
        /\ \A m \in 1..x : stack'[m] = stack[m]
        /\ \A m \in 1..y : ctrls'[m] = ctrls[m]
    BY <2>3, <2>5, LenProperties DEF KeepsBelow
  <2> HIDE DEF x, y, v, w
  <2>10. /\ v <= Len(stack) /\ v <= Len(stack') /\ w <= Len(ctrls) /\ w <= Len(ctrls')
         /\ \A m \in 1..v : stack'[m] = stack[m]
         /\ \A m \in 1..w : ctrls'[m] = ctrls[m]
    BY <2>4, <2>7, <2>8, <2>9
  <2>11. Kept(stack, stack', v)
    BY <2>4, <2>5, <2>7, <2>10, KeptBelow
  <2>12. Kept(ctrls, ctrls', w)
    BY <2>4, <2>5, <2>7, <2>10, KeptBelow
  <2>13. frames'[n] = frames[n]
    BY <2>3, <2>6
  <2> QED
    BY <2>11, <2>12, <2>13 DEF v, w
<1> QED
  BY <1>1, RunInvariant, PTL DEF Spec, CallersUntouched

-----------------------------------------------------------------------------
(* What validation promised.                                               *)

\* LabelAgrees for label j of a frame over base at place q, whose values have
\* the types x.
LabelOk(b, cs, q, x, base, ct, lo, j) ==
  LET label == cs[q].ctrls[j]
      entry == ct[lo + j]
      there == cs[entry.target]
      types == IF label.kind = "loop" THEN label.ins ELSE label.outs
  IN
  /\ entry.height = base + label.height
  /\ entry.arity = Len(types)
  /\ j = 1 \/ there.ctrls = SubSeq(cs[q].ctrls, 1, j - 1)
  /\ j = 1 \/ there.stack = SubSeq(x, 1, label.height) \o types
  /\ (label.kind = "loop") = (entry.target \in DOMAIN b /\ b[entry.target].op = "loop"
                               /\ entry.target < q)

\* The types x are those the checker had, but for some at the top.
Truncates(x, c) ==
  /\ x \in Seq(BodyType) /\ Len(x) <= Len(c.stack)
  /\ \A m \in 1..Len(x) : x[m] = c.stack[m]
  /\ \A j \in 1..Len(c.ctrls) : c.ctrls[j].height <= Len(x)

\* The function's own label.
LEMMA BottomLabel ==
  ASSUME NEW f, NEW b, NEW cs, Whole(f, b, cs), NEW q \in 1..Len(b), NEW x,
         NEW base \in Nat, NEW ct, NEW lo \in Nat, NEW hi,
         EntriesOk(f, b, cs, q, base, ct, lo, hi)
  PROVE  LabelOk(b, cs, q, x, base, ct, lo, 1)
<1> DEFINE c == cs[q]
           label == c.ctrls[1]
           entry == ct[lo + 1]
<1>1. /\ StateOk(f, b, cs, q) /\ Live(c) /\ Len(b) \in Nat /\ BodyOk(b, <<>>, TRUE)
  BY PlaceFacts DEF Whole
<1>2. /\ label.kind = "block" /\ label.height = 0 /\ label.outs = FuncTypeOf(f).outs
  BY <1>1 DEF StateOk
<1>3. entry = Bottom(f, b, base)
  BY <1>1 DEF EntriesOk, Live
<1>4. DOMAIN b = 1..Len(b)
  BY <1>1, CompleteBody, LenProperties DEF BodyOk
<1>5. ~ Len(b) + 1 \in DOMAIN b
  BY <1>1, <1>4
<1>6. /\ entry.height = base + label.height /\ entry.arity = Len(label.outs)
      /\ ~ entry.target \in DOMAIN b
  BY <1>2, <1>3, <1>5 DEF Bottom
<1> HIDE DEF label, entry
<1> QED
  BY <1>2, <1>6 DEF LabelOk, label, entry, c

\* A branch to a block goes on behind its end, and to a loop at its begin.
LEMMA TargetResumes ==
  ASSUME NEW f, NEW b, NEW cs, Whole(f, b, cs), NEW p \in 1..Len(b), b[p].op \in Openers,
         Typed(cs[p]), NEW t, t = IF b[p].op = "loop" THEN p ELSE b[p].end
  PROVE  Resumes(b, cs, p, t, LabelOf(b[p]))
BY LoopResumes, EndResumes DEF LabelOf

\* Of the blocks open at q none has ended.
LEMMA OpenIsAhead ==
  ASSUME NEW f, NEW b, NEW cs, Whole(f, b, cs), NEW q \in 1..Len(b),
         NEW j \in 1..Len(OpenAt(b)[q]), NEW p, p = OpenAt(b)[q][j], Typed(cs[p])
  PROVE  /\ p \in 1..Len(b) /\ p \in Nat /\ p < q /\ b[p].op \in Openers
         /\ b[p].end \in Nat /\ ~ b[p].end < q
<1>1. Len(b) \in Nat /\ BodyOk(b, <<>>, TRUE) /\ q \in 1 .. Len(b) + 1
  BY PlaceFacts DEF Whole
<1>2. NestedAt(OpenAt(b), b, q)
  BY <1>1, Nested
<1>3. /\ p \in 1 .. q - 1 /\ p \in 1..Len(b) /\ b[p].op \in Openers /\ Len(OpenAt(b)[p]) = j - 1
  BY <1>1, OpenBlocks
<1>4. \A r \in p + 1 .. q : j <= Len(OpenAt(b)[r])
  BY <1>2 DEF NestedAt
<1> DEFINE e == b[p].end
<1>5. /\ Resumes(b, cs, p, e, Types[b[p].bt].outs)
      /\ e \in Nat \ {0} /\ e - 1 \in p + 1 .. Len(b)
  BY <1>3, EndResumes
<1>6. Len(OpenAt(b)[e]) = j - 1
  BY <1>3, <1>5 DEF Resumes
<1> HIDE DEF e
<1>7. ASSUME e < q
      PROVE  FALSE
  <2>1. e \in p + 1 .. q /\ j \in Nat
    BY <1>1, <1>3, <1>5, <1>7
  <2>2. j <= j - 1
    BY <1>4, <1>6, <2>1
  <2> QED
    BY <2>1, <2>2
<1> QED
  BY <1>1, <1>3, <1>5, <1>7 DEF e

\* The label of a block.
LEMMA BlockLabel ==
  ASSUME NEW f, NEW b, NEW cs, Whole(f, b, cs), NEW q \in 1..Len(b), NEW x, Truncates(x, cs[q]),
         NEW base \in Nat, NEW ct, NEW lo \in Nat, NEW hi,
         EntriesOk(f, b, cs, q, base, ct, lo, hi), NEW j \in 1..Len(cs[q].ctrls), j # 1
  PROVE  LabelOk(b, cs, q, x, base, ct, lo, j)
<1> DEFINE c == cs[q]
           s == OpenAt(b)[q]
           i == j - 1
           p == s[i]
           d == cs[p]
           u == Under(d, b[p])
           label == c.ctrls[j]
           entry == ct[lo + j]
           t == entry.target
           there == cs[t]
<1> HIDE DEF c, s, i, p, d, u, label, entry, t, there
<1>a. BodyOk(b, <<>>, TRUE)
  BY DEF Whole
<1>b. Len(b) \in Nat /\ c \in CheckerType
  BY PlaceFacts DEF c
<1>c. Len(c.ctrls) = Len(s) + 1
  BY PlaceFacts DEF c, s
<1>d. LabelsOk(b, q, cs, c, s, Len(s))
  BY PlaceFacts DEF c, s
<1>1. /\ Len(b) \in Nat /\ c \in CheckerType /\ BodyOk(b, <<>>, TRUE)
      /\ Len(c.ctrls) = Len(s) + 1
      /\ LabelsOk(b, q, cs, c, s, Len(s))
  BY <1>a, <1>b, <1>c, <1>d
<1>2. Len(s) \in Nat
  BY <1>1 DEF LabelsOk
<1>3. i \in 1..Len(s) /\ i + 1 = j /\ i \in 1 .. Len(c.ctrls) - 1 /\ i \in Nat /\ lo + i + 1 = lo + j
  <2> DEFINE n == Len(s)
             l == Len(c.ctrls)
  <2>1. j \in 1..l /\ j # 1 /\ l = n + 1 /\ n \in Nat
    BY <1>1, <1>2 DEF c
  <2> HIDE DEF n, l
  <2>2. i = j - 1
    BY DEF i
  <2>3. j \in Nat /\ j >= 2 /\ j <= n + 1
    BY <2>1
  <2>4. i \in 1..n /\ i + 1 = j /\ i \in 1 .. l - 1 /\ i \in Nat /\ lo + i + 1 = lo + j
    BY <2>1, <2>2, <2>3
  <2> QED
    BY <2>4 DEF n, l
<1> USE DEF c, s, p, d, u, label, entry, t, there
<1>4. entry = Entry(b, cs, base, p) /\ Typed(d)
  <2>1. ct[lo + i + 1] = Entry(b, cs, base, p) /\ Typed(d)
    BY <1>3 DEF EntriesOk
  <2> QED
    BY <1>3, <2>1
<1>5. /\ p \in 1..Len(b) /\ p \in Nat /\ p < q /\ b[p].op \in Openers
      /\ b[p].end \in Nat /\ ~ b[p].end < q
  BY <1>3, <1>4, OpenIsAhead
<1>6. BlockOk(b, c, q, i, p, d)
  BY <1>1, <1>3 DEF LabelsOk
<1>7. /\ b[p].bt \in DOMAIN Types /\ Len(d.ctrls) = i
      /\ \A m \in 1..i : c.ctrls[m] = d.ctrls[m]
      /\ label.ins = Types[b[p].bt].ins /\ label.outs = Types[b[p].bt].outs
      /\ label.height = Len(u) /\ label.kind = Kind(b[p], q)
      /\ \A m \in 1..Len(u) : c.stack[m] = u[m]
  BY <1>3, <1>6 DEF BlockOk
<1>8. /\ t = IF b[p].op = "loop" THEN p ELSE b[p].end
      /\ entry.arity = Len(LabelOf(b[p])) /\ entry.height = base + Len(u)
  BY <1>4 DEF Entry
<1>9. Resumes(b, cs, p, t, LabelOf(b[p]))
  <2> HIDE DEF t, p
  <2> QED
    BY <1>4, <1>5, <1>8, TargetResumes
<1>10. (label.kind = "loop") = (b[p].op = "loop")
  BY <1>7 DEF Kind
<1> DEFINE types == IF label.kind = "loop" THEN label.ins ELSE label.outs
<1>11. types = LabelOf(b[p])
  BY <1>7, <1>10 DEF LabelOf
<1>12. /\ u \in Seq(BodyType) /\ Len(u) \in Nat
       /\ LabelOf(b[p]) \in Seq(BodyType)
  BY <1>4, <1>5, <1>7, OpenerPops, OperandsAre
<1> HIDE DEF types, label, entry, t, there, u, d, p, s, c
<1>13. there.ctrls = SubSeq(c.ctrls, 1, j - 1)
  <2> DEFINE y == SubSeq(c.ctrls, 1, i)
             z == d.ctrls
  <2>1. there.ctrls = z
    BY <1>9 DEF Resumes, there, d
  <2>2. c.ctrls \in Seq(CtrlType) /\ i \in 0..Len(c.ctrls)
    BY <1>1, <1>2, <1>3, CheckerParts
  <2>3. y \in Seq(CtrlType) /\ Len(y) = i /\ \A m \in 1..i : y[m] = c.ctrls[m]
    BY <2>2, PrefixOk
  <2>4. z \in Seq(CtrlType)
    <3>1. d \in CheckerType
      BY <1>5, PlaceFacts DEF d
    <3> QED
      BY <3>1, CheckerParts
  <2>5. Len(z) = i /\ \A m \in 1..i : z[m] = c.ctrls[m]
    BY <1>7
  <2> HIDE DEF y, z
  <2>6. z = y
    BY <2>3, <2>4, <2>5, SameSequence
  <2>7. j - 1 = i
    BY <1>3
  <2> QED
    BY <2>1, <2>6, <2>7 DEF y
<1>14. there.stack = SubSeq(x, 1, label.height) \o types
  <2> DEFINE y == SubSeq(x, 1, Len(u))
  <2>1. x \in Seq(BodyType) /\ Len(u) \in 0..Len(x) /\ Len(x) \in Nat
    <3>1. x \in Seq(BodyType) /\ Len(x) \in Nat
      BY LenProperties DEF Truncates
    <3>2. label.height <= Len(x)
      BY DEF Truncates, label, c
    <3> QED
      BY <1>7, <1>12, <3>1, <3>2
  <2>2. y \in Seq(BodyType) /\ Len(y) = Len(u) /\ \A m \in 1..Len(u) : y[m] = x[m]
    BY <2>1, PrefixOk
  <2>3. \A m \in 1..Len(u) : x[m] = u[m]
    <3>1. \A m \in 1..Len(x) : x[m] = c.stack[m]
      BY DEF Truncates, c
    <3>2. \A m \in 1..Len(u) : m \in 1..Len(x)
      BY <2>1
    <3> QED
      BY <1>7, <3>1, <3>2
  <2> HIDE DEF y
  <2>4. y = u
    BY <1>12, <2>2, <2>3, SameSequence
  <2>5. Joins(there.stack, u, types) /\ there.stack \in Seq(BodyType)
    BY <1>9, <1>11 DEF Resumes, Typed, there, u, d, p
  <2>6. there.stack = u \o types
    BY <1>11, <1>12, <2>5, JoinTyped
  <2> QED
    BY <1>7, <2>4, <2>6 DEF y
<1>15. (label.kind = "loop") = (t \in DOMAIN b /\ b[t].op = "loop" /\ t < q)
  <2>1. DOMAIN b = 1..Len(b)
    BY <1>1, CompleteBody, LenProperties DEF BodyOk
  <2>2. CASE b[p].op = "loop"
    <3>1. t = p
      BY <1>8, <2>2
    <3> QED
      BY <1>5, <1>10, <2>1, <2>2, <3>1
  <2>3. CASE b[p].op # "loop"
    <3>1. t = b[p].end
      BY <1>8, <2>3
    <3> QED
      BY <1>5, <1>10, <2>3, <3>1
  <2> QED
    BY <2>2, <2>3
<1>16. entry.height = base + label.height /\ entry.arity = Len(types)
  BY <1>7, <1>8, <1>11
<1> QED
  BY <1>13, <1>14, <1>15, <1>16 DEF LabelOk, types, there, t, label, entry, c

\* A call leaves below its results what is below every label.
LEMMA CallUnder ==
  ASSUME NEW f, NEW b, NEW cs, Whole(f, b, cs), NEW q \in 1..Len(b), b[q].op = "call",
         NEW j \in 1..Len(cs[q + 1].ctrls)
  PROVE  cs[q + 1].ctrls[j].height <= Len(cs[q + 1].stack) - Len(FuncTypeOf(b[q].func).outs)
<1> DEFINE c == cs[q]
           i == b[q]
           v == Popped(c, Len(FuncTypeOf(i.func).ins))
           ts == FuncTypeOf(i.func).outs
           l == Len(OpenAt(b)[q])
<1>1. Live(c) /\ Accepts(f, c, i) /\ i \in Instructions
  BY PlaceFacts
<1>2. cs[q + 1] = Checked(f, c, i)
  BY PlaceFacts
<1>3. LabelsOk(b, q, cs, c, OpenAt(b)[q], l)
  BY PlaceFacts
<1> HIDE DEF c, i, l
<1>4. i.op = "call"
  BY DEF i
<1>5. i.func \in DOMAIN Funcs
  BY <1>1, <1>4 DEF Accepts, Openers
<1>6. cs[q + 1] = Pushed(v, ts)
  BY <1>2, <1>4 DEF Checked, Openers
<1>7. Len(FuncTypeOf(i.func).ins) \in Nat /\ ts \in Seq(BodyType)
  BY <1>5, FunctionTypes
<1>8. /\ v \in CheckerType /\ v.ctrls = c.ctrls
      /\ Len(v.stack) \in Nat /\ Last(c.ctrls).height <= Len(v.stack)
  BY <1>1, <1>7, PoppedOk
<1> HIDE DEF v, ts
<1>9. ts \in Seq(BodyType \cup {Bot})
  BY <1>7, SeqMonotonic
<1>10. /\ cs[q + 1].ctrls = v.ctrls /\ Len(ts) \in Nat
       /\ Len(cs[q + 1].stack) = Len(v.stack) + Len(ts)
  BY <1>6, <1>8, <1>9, PushedOk
<1>11. /\ Last(c.ctrls) = c.ctrls[l + 1] /\ Len(c.ctrls) = l + 1 /\ l \in Nat
       /\ \A m \in 1 .. l + 1 : c.ctrls[m].height \in Nat /\ c.ctrls[m].height <= c.ctrls[l + 1].height
  BY <1>3 DEF LabelsOk
<1>12. cs[q + 1].ctrls = c.ctrls /\ j \in 1 .. l + 1 /\ l + 1 \in 1 .. l + 1
  BY <1>8, <1>10, <1>11
<1> DEFINE h == c.ctrls[j].height
           k == c.ctrls[l + 1].height
           n == Len(v.stack)
           o == Len(ts)
           z == Len(cs[q + 1].stack)
<1>13. h \in Nat /\ k \in Nat /\ h <= k /\ k <= n /\ n \in Nat /\ o \in Nat /\ z = n + o
  BY <1>8, <1>10, <1>11, <1>12
<1> HIDE DEF h, k, n, o, z
<1>14. h <= z - o
  BY <1>13
<1> QED
  BY <1>12, <1>14 DEF h, z, o, ts, i

\* The types a frame has, when it waits for w results.
Present(c, w) == SubSeq(c.stack, 1, Len(c.stack) - w)

\* The results a suspended frame waits for are above all of its labels.
LEMMA PresentFits ==
  ASSUME NEW f, NEW b, NEW cs, Whole(f, b, cs), NEW t \in 1 .. Len(b) + 1, Typed(cs[t]),
         NEW w \in Nat, w <= Len(cs[t].stack),
         w # 0 => /\ t > 1 /\ b[t - 1].op = "call"
                  /\ w = Len(FuncTypeOf(b[t - 1].func).outs)
  PROVE  Truncates(Present(cs[t], w), cs[t])
<1> DEFINE c == cs[t]
           n == Len(c.stack)
           x == Present(c, w)
<1>1. Len(b) \in Nat /\ t \in Nat
  BY EndFacts
<1>2. c.stack \in Seq(BodyType) /\ n \in Nat
  BY LenProperties DEF Typed
<1>3. n - w \in 0..n
  BY <1>2
<1>4. x \in Seq(BodyType) /\ Len(x) = n - w /\ \A m \in 1 .. n - w : x[m] = c.stack[m]
  BY <1>2, <1>3, PrefixOk DEF Present
<1>5. \A j \in 1..Len(c.ctrls) : c.ctrls[j].height <= n - w
  <2> SUFFICES ASSUME NEW j \in 1..Len(c.ctrls)
               PROVE  c.ctrls[j].height <= n - w
    OBVIOUS
  <2>1. CASE w # 0
    <3> DEFINE q == t - 1
    <3>1. q \in 1..Len(b) /\ q + 1 = t
      BY <1>1, <2>1
    <3>2. b[q].op = "call" /\ w = Len(FuncTypeOf(b[q].func).outs)
      BY <2>1
    <3> HIDE DEF q
    <3>3. j \in 1..Len(cs[q + 1].ctrls)
      BY <3>1
    <3>4. cs[q + 1].ctrls[j].height <= Len(cs[q + 1].stack) - Len(FuncTypeOf(b[q].func).outs)
      BY <3>1, <3>2, <3>3, CallUnder
    <3> QED
      BY <3>1, <3>2, <3>4
  <2>2. CASE w = 0 /\ t = Len(b) + 1
    <3>a. cs[Len(b) + 1] = [stack |-> FuncTypeOf(f).outs, ctrls |-> <<>>]
      BY EndFacts
    <3>b. c = cs[Len(b) + 1]
      BY <2>2
    <3> HIDE DEF c
    <3>1. c.ctrls = <<>>
      BY <3>a, <3>b
    <3>2. Len(c.ctrls) = 0
      BY <3>1
    <3> QED
      BY <3>2
  <2>3. CASE w = 0 /\ t # Len(b) + 1
    <3>1. t \in 1..Len(b)
      BY <1>1, <2>3
    <3>2. HeightsOk(c)
      BY <3>1, PlaceFacts DEF StateOk
    <3>3. c.ctrls[j].height <= n /\ n - w = n
      BY <1>2, <2>3, <3>2 DEF HeightsOk
    <3> QED
      BY <3>3
  <2> QED
    BY <2>1, <2>2, <2>3
<1> HIDE DEF x, n
<1>6. Len(x) <= n
  BY <1>2, <1>4
<1> QED
  BY <1>4, <1>5, <1>6 DEF Truncates, x, n

\* The piece of a frame has the types the checker had, as far as they are there.
LEMMA PieceTyped ==
  ASSUME NEW c, c.stack \in Seq(BodyType), NEW w \in Nat, NEW st \in Seq(ValueType),
         NEW lo \in Nat, NEW hi \in Nat, hi <= Len(st), ValuesOk(c.stack, w, st, lo, hi)
  PROVE  /\ TypesAgree(Present(c, w), SubSeq(st, lo + 1, hi))
         /\ w <= Len(c.stack)
<1> DEFINE n == Len(c.stack)
           x == Present(c, w)
           v == SubSeq(st, lo + 1, hi)
           a == lo + 1
<1>1. n \in Nat /\ Len(st) \in Nat
  BY LenProperties
<1>2. lo <= hi /\ hi + w = lo + n /\ \A m \in 1 .. n - w : st[lo + m].ty = c.stack[m]
  BY DEF ValuesOk
<1>3. n - w \in 0..n /\ hi - lo = n - w /\ w <= n
  BY <1>1, <1>2
<1>4. x \in Seq(BodyType) /\ Len(x) = n - w /\ \A m \in 1 .. n - w : x[m] = c.stack[m]
  BY <1>3, PrefixOk DEF Present
<1>5. v \in Seq(ValueType) /\ Len(v) = n - w /\ \A m \in 1 .. n - w : v[m] = st[lo + m]
  <2>1. a \in 1 .. Len(st) + 1 /\ a \in Nat /\ hi - a + 1 = hi - lo
    BY <1>1, <1>2
  <2>2. \A m \in a..hi : st[m] \in ValueType
    <3>1. \A m \in a..hi : m \in 1..Len(st)
      BY <1>1, <2>1
    <3> QED
      BY <3>1, ElementOfSeq
  <2> HIDE DEF a
  <2>3. /\ SubSeq(st, a, hi) \in Seq(ValueType)
        /\ Len(SubSeq(st, a, hi)) = (IF a <= hi THEN hi - a + 1 ELSE 0)
        /\ \A m \in 1 .. hi - a + 1 : SubSeq(st, a, hi)[m] = st[a + m - 1]
    BY <2>1, <2>2, SubSeqProperties
  <2>4. Len(SubSeq(st, a, hi)) = hi - lo
    <3> DEFINE y == SubSeq(st, a, hi)
    <3>1. Len(y) = IF a <= hi THEN hi - a + 1 ELSE 0
      BY <2>3
    <3> HIDE DEF y
    <3>2. a = lo + 1
      BY DEF a
    <3>3. Len(y) = hi - lo
      BY <1>2, <3>1, <3>2
    <3> QED
      BY <3>3 DEF y
  <2>5. \A m \in 1 .. n - w : m \in 1 .. hi - a + 1 /\ a + m - 1 = lo + m
    <3>1. a = lo + 1
      BY DEF a
    <3> QED
      BY <1>1, <1>3, <2>1, <3>1
  <2> QED
    BY <1>3, <2>3, <2>4, <2>5 DEF a
<1> HIDE DEF v, x
<1>6. DOMAIN v = 1 .. n - w /\ x = [m \in 1 .. n - w |-> x[m]]
  BY <1>4, <1>5, LenProperties
<1>7. \A m \in 1 .. n - w : v[m].ty = x[m]
  BY <1>2, <1>4, <1>5
<1>8. TypesOf(v) = x
  BY <1>6, <1>7 DEF TypesOf
<1> QED
  BY <1>3, <1>8 DEF TypesAgree, v, x, n

\* What frame n is to the checker, in a machine that runs.
LEMMA NthShape ==
  ASSUME RunInv, phase = "run", NEW n \in 1..Len(frames)
  PROVE  LET f  == frames[n]
             b  == bodies[f.fn]
             cs == checked[f.fn]
             w  == Wait(frames, n)
         IN
         /\ Whole(f.fn, b, cs) /\ f \in FrameType /\ f.pc \in 1 .. Len(b) + 1
         /\ FrameOk(f, b, cs, w, stack, StackEnd(n), ctrls, CtrlEnd(n))
         /\ w \in Nat /\ StackEnd(n) \in Nat /\ CtrlEnd(n) \in Nat /\ StackEnd(n) <= Len(stack)
         /\ w # 0 => /\ f.pc > 1 /\ b[f.pc - 1].op = "call"
                     /\ w = Len(FuncTypeOf(b[f.pc - 1].func).outs)
<1> DEFINE f == frames[n]
           b == bodies[f.fn]
           cs == checked[f.fn]
           w == Wait(frames, n)
           l == Len(frames)
<1>1. /\ AllWhole(bodies, checked) /\ FramesOk(bodies, checked, frames, stack, ctrls)
      /\ Len(stack) \in Nat /\ l \in Nat \ {0}
  BY Here
<1>2. /\ Whole(f.fn, b, cs) /\ f \in FrameType
      /\ FrameOk(f, b, cs, w, stack, Hi(frames, stack, n), ctrls, CtrlHi(frames, ctrls, n))
      /\ w \in Nat /\ Hi(frames, stack, n) \in Nat /\ CtrlHi(frames, ctrls, n) \in Nat
  BY <1>1, OneFrame
<1>3. StackEnd(n) = Hi(frames, stack, n) /\ CtrlEnd(n) = CtrlHi(frames, ctrls, n)
  BY DEF StackEnd, CtrlEnd, Hi, CtrlHi
<1>4. f.pc \in 1 .. Len(b) + 1
  BY <1>2 DEF FrameOk
<1>5. Hi(frames, stack, n) <= Len(stack)
  <2>1. CASE n < l
    <3>1. n + 1 \in 1..l /\ l \in 1..l /\ n + 1 \in 1..l
      BY <1>1, <2>1
    <3>2. frames[n + 1].base <= frames[l].base
      BY <1>1, <3>1, PiecesOrdered
    <3>3. /\ frames[l].base <= Hi(frames, stack, l) /\ frames[l].base \in Nat
          /\ frames[n + 1].base \in Nat
      BY <1>1, <3>1, OneFrame
    <3>4. Hi(frames, stack, l) = Len(stack) /\ Hi(frames, stack, n) = frames[n + 1].base
      BY <1>1, <2>1 DEF Hi
    <3> QED
      BY <1>1, <3>2, <3>3, <3>4
  <2>2. CASE ~ n < l
    <3>1. Hi(frames, stack, n) = Len(stack)
      BY <2>2 DEF Hi
    <3> QED
      BY <1>1, <3>1
  <2> QED
    BY <2>1, <2>2
<1>6. w # 0 => f.pc > 1 /\ b[f.pc - 1].op = "call" /\ w = Len(FuncTypeOf(b[f.pc - 1].func).outs)
  <2> SUFFICES ASSUME w # 0
               PROVE  /\ f.pc > 1 /\ b[f.pc - 1].op = "call"
                      /\ w = Len(FuncTypeOf(b[f.pc - 1].func).outs)
    OBVIOUS
  <2>1. n < l /\ w = frames[n + 1].results
    BY DEF Wait
  <2>2. f.pc > 1 /\ b[f.pc - 1] = Call(frames[n + 1].fn)
    BY <1>1, <2>1 DEF FramesOk, NthOk
  <2>3. n + 1 \in 1..l
    BY <1>1, <2>1
  <2>4. FrameOk(frames[n + 1], bodies[frames[n + 1].fn], checked[frames[n + 1].fn],
                Wait(frames, n + 1), stack, Hi(frames, stack, n + 1), ctrls, CtrlHi(frames, ctrls, n + 1))
    BY <1>1, <2>3, OneFrame
  <2>5. frames[n + 1].results = Len(FuncTypeOf(frames[n + 1].fn).outs)
    BY <2>4 DEF FrameOk
  <2>6. b[f.pc - 1].op = "call" /\ b[f.pc - 1].func = frames[n + 1].fn
    BY <2>2 DEF Call
  <2> QED
    BY <2>1, <2>2, <2>5, <2>6
<1> QED
  BY <1>2, <1>3, <1>4, <1>5, <1>6

\* ShapesAgree, of one frame.
LEMMA ShapeOfFrame ==
  ASSUME RunInv, phase = "run", NEW n \in 1..Len(frames)
  PROVE  LET f == frames[n]
             c == Expected(n)
         IN
         /\ TypesAgree(c.stack, SubSeq(stack, f.base + 1, StackEnd(n)))
         /\ TypesAgree(LocalsOf(f.fn), f.locals)
         /\ f.results = Len(FuncTypeOf(f.fn).outs)
         /\ CtrlEnd(n) - f.ctrl_base = Len(c.ctrls)
         /\ c.ctrls # <<>> => ~ Last(c.ctrls).unreachable
         /\ \A j \in DOMAIN c.ctrls : LabelAgrees(n, j)
<1> DEFINE f == frames[n]
           b == bodies[f.fn]
           cs == checked[f.fn]
           w == Wait(frames, n)
           c == cs[f.pc]
           x == Present(c, w)
           hi == StackEnd(n)
           chi == CtrlEnd(n)
<1>1. /\ Whole(f.fn, b, cs) /\ f \in FrameType /\ f.pc \in 1 .. Len(b) + 1
      /\ FrameOk(f, b, cs, w, stack, hi, ctrls, chi)
      /\ w \in Nat /\ hi \in Nat /\ chi \in Nat /\ hi <= Len(stack)
      /\ w # 0 => /\ f.pc > 1 /\ b[f.pc - 1].op = "call"
                  /\ w = Len(FuncTypeOf(b[f.pc - 1].func).outs)
  BY NthShape
<1>2. stack \in Seq(ValueType)
  BY Here
<1>a. n < Len(frames) => w = frames[n + 1].results
  BY DEF Wait
<1>b. ~ n < Len(frames) => w = 0
  BY DEF Wait
<1>c. Expected(n) = IF n < Len(frames)
                    THEN [c EXCEPT !.stack = SubSeq(c.stack, 1, Len(c.stack) - frames[n + 1].results)]
                    ELSE c
  BY DEF Expected
<1>d. LabelAgrees(n, 0) = LabelAgrees(n, 0) /\ StackEnd(n) = hi /\ CtrlEnd(n) = chi
  OBVIOUS
<1> HIDE DEF hi, chi, w, b, cs
<1>3. f.base \in Nat /\ f.ctrl_base \in Nat
  BY <1>1 DEF FrameType
<1>4. /\ f.results = Len(FuncTypeOf(f.fn).outs) /\ TypesOf(f.locals) = LocalsOf(f.fn)
      /\ Typed(c) /\ ValuesOk(c.stack, w, stack, f.base, hi)
      /\ EntriesOk(f.fn, b, cs, f.pc, f.base, ctrls, f.ctrl_base, chi)
  BY <1>1 DEF FrameOk
<1>5. c \in CheckerType
  <2>1. cs \in Seq(CheckerType)
    BY <1>1 DEF Whole
  <2> DEFINE g == f.fn
  <2>2. Whole(g, b, cs)
    BY <1>1
  <2> HIDE DEF f, c, g
  <2>3. Len(cs) = Len(b) + 1
    BY <2>2, EndFacts
  <2> USE DEF c
  <2> QED
    BY <1>1, <2>1, <2>3, ElementOfSeq
<1>6. c.stack \in Seq(BodyType)
  BY <1>4 DEF Typed
<1>7. TypesAgree(x, SubSeq(stack, f.base + 1, hi)) /\ w <= Len(c.stack)
  <2> HIDE DEF c, x
  <2>1. TypesAgree(Present(c, w), SubSeq(stack, f.base + 1, hi)) /\ w <= Len(c.stack)
    BY <1>1, <1>2, <1>3, <1>4, <1>6, PieceTyped
  <2> QED
    BY <2>1 DEF x
<1>8. Truncates(x, c)
  <2> DEFINE t == f.pc
             g == f.fn
  <2>1. /\ Whole(g, b, cs) /\ t \in 1 .. Len(b) + 1 /\ Typed(cs[t]) /\ w \in Nat
        /\ w <= Len(cs[t].stack)
        /\ w # 0 => t > 1 /\ b[t - 1].op = "call" /\ w = Len(FuncTypeOf(b[t - 1].func).outs)
    BY <1>1, <1>4, <1>7
  <2> HIDE DEF t, g
  <2>2. Truncates(Present(cs[t], w), cs[t])
    BY <2>1, PresentFits
  <2> QED
    BY <2>2 DEF t
<1>9. Expected(n).ctrls = c.ctrls /\ Expected(n).stack = x
  <2>1. c = [stack |-> c.stack, ctrls |-> c.ctrls] /\ c.stack \in Seq(BodyType \cup {Bot})
        /\ Len(c.stack) \in Nat
    BY <1>5, CheckerParts
  <2>2. CASE n < Len(frames)
    BY <1>a, <1>c, <2>1, <2>2 DEF Present
  <2>3. CASE ~ n < Len(frames)
    <3>1. w = 0 /\ Len(c.stack) \in 0..Len(c.stack) /\ Len(c.stack) - w = Len(c.stack)
      BY <1>b, <2>1, <2>3
    <3> DEFINE s == c.stack
               y == SubSeq(s, 1, Len(s))
    <3>2. y \in Seq(BodyType) /\ Len(y) = Len(s) /\ \A m \in 1..Len(s) : y[m] = s[m]
      BY <1>6, <3>1, PrefixOk
    <3>3. s \in Seq(BodyType)
      BY <1>6
    <3> HIDE DEF y, s
    <3>4. y = s
      BY <3>2, <3>3, SameSequence
    <3>5. x = c.stack
      BY <3>1, <3>4 DEF Present, y, s
    <3> QED
      BY <1>c, <2>3, <3>5
  <2> QED
    BY <2>2, <2>3
<1>10. chi - f.ctrl_base = Len(c.ctrls)
  <2>1. chi = f.ctrl_base + Len(c.ctrls)
    BY <1>4 DEF EntriesOk
  <2>2. Len(c.ctrls) \in Nat
    BY <1>5, CheckerParts
  <2> QED
    BY <1>3, <2>1, <2>2
<1>11. c.ctrls # <<>> => ~ Last(c.ctrls).unreachable
  <2> SUFFICES ASSUME c.ctrls # <<>>
               PROVE  ~ Last(c.ctrls).unreachable
    OBVIOUS
  <2>1. Len(c.ctrls) \in Nat \ {0} /\ Last(c.ctrls) = c.ctrls[Len(c.ctrls)]
    BY <1>5, CheckerParts
  <2>2. Len(c.ctrls) \in 1..Len(c.ctrls)
    BY <2>1
  <2> QED
    BY <1>4, <2>1, <2>2 DEF Typed, Alive
<1>12. ASSUME NEW j \in 1..Len(c.ctrls)
       PROVE  LabelOk(b, cs, f.pc, x, f.base, ctrls, f.ctrl_base, j)
  <2> DEFINE q == f.pc
             g == f.fn
             v == f.base
             lo == f.ctrl_base
  <2>1. q \in 1..Len(b)
    <3>1. CASE q = Len(b) + 1
      <4>1. cs[Len(b) + 1] = [stack |-> FuncTypeOf(f.fn).outs, ctrls |-> <<>>]
        BY <1>1, EndFacts
      <4>2. c = cs[Len(b) + 1]
        BY <3>1
      <4> HIDE DEF c
      <4>3. c.ctrls = <<>>
        BY <4>1, <4>2
      <4>4. Len(c.ctrls) = 0
        BY <4>3
      <4> QED
        BY <4>4
    <3>2. Len(b) \in Nat
      BY <1>1, EndFacts
    <3> QED
      BY <1>1, <3>1, <3>2
  <2>2. /\ Whole(g, b, cs) /\ EntriesOk(g, b, cs, q, v, ctrls, lo, chi)
        /\ v \in Nat /\ lo \in Nat /\ Truncates(x, cs[q]) /\ j \in 1..Len(cs[q].ctrls)
    BY <1>1, <1>3, <1>4, <1>8
  <2> HIDE DEF q, g, v, lo, c, x
  <2>3. CASE j = 1
    <3>1. LabelOk(b, cs, q, x, v, ctrls, lo, 1)
      BY <2>1, <2>2, BottomLabel
    <3> QED
      BY <2>3, <3>1 DEF q, v, lo
  <2>4. CASE j # 1
    <3>1. LabelOk(b, cs, q, x, v, ctrls, lo, j)
      BY <2>1, <2>2, <2>4, BlockLabel
    <3> QED
      BY <3>1 DEF q, v, lo
  <2> QED
    BY <2>3, <2>4
<1>13. ASSUME NEW j \in DOMAIN Expected(n).ctrls
       PROVE  LabelAgrees(n, j)
  <2>1. c.ctrls \in Seq(CtrlType)
    BY <1>5, CheckerParts
  <2>2. j \in 1..Len(c.ctrls)
    BY <1>9, <2>1, LenProperties
  <2>3. LabelOk(b, cs, f.pc, x, f.base, ctrls, f.ctrl_base, j)
    BY <1>12, <2>2
  <2> HIDE DEF x
  <2> QED
    BY <1>9, <2>3 DEF LabelOk, LabelAgrees, b, cs
<1> QED
  BY <1>4, <1>7, <1>9, <1>10, <1>11, <1>13 DEF hi, chi, TypesAgree

\* Validation is sound: before every instruction each frame's part of the
\* value stack has the types the checker computed for that place, its locals
\* have their declared types, and its control entries are the checker's labels
\* (validate.rs, FuncChecker; "types guaranteed by validation", exec.rs).
THEOREM ShapesAlwaysAgree == Spec => []ShapesAgree
<1>1. ASSUME RunInv
      PROVE  ShapesAgree
  <2>1. frames \in Seq(FrameType) /\ (phase = "run") = (frames # <<>>)
    BY <1>1 DEF RunInv, MachineOk, FramesOk
  <2>2. DOMAIN frames = 1..Len(frames)
    BY <2>1, LenProperties
  <2>3. ASSUME NEW n \in DOMAIN frames
        PROVE  n \in 1..Len(frames) /\ phase = "run"
    <3>1. frames # <<>>
      BY <2>2
    <3> QED
      BY <2>1, <2>2, <3>1
  <2> QED
    BY <1>1, <2>3, ShapeOfFrame DEF ShapesAgree
<1> QED
  BY <1>1, RunInvariant, PTL

-----------------------------------------------------------------------------
(* What the interpreter takes for granted.                                 *)

\* Operands carried on top are what an instruction pops.
LEMMA CarriedHolds ==
  ASSUME stack \in Seq(ValueType), NEW ts \in Seq(BodyType), NEW lo,
         Carries(stack, Len(stack), ts, lo)
  PROVE  Holds(ts) /\ Len(ts) <= Len(stack)
<1> DEFINE n == Len(stack)
           k == Len(ts)
<1>1. n \in Nat /\ k \in Nat /\ lo \in Nat /\ lo + k <= n /\ DOMAIN ts = 1..k
      /\ \A m \in 1..k : stack[n - k + m].ty = ts[m]
  BY LenProperties DEF Carries
<1> HIDE DEF n, k
<1>2. k \in 0..n
  BY <1>1
<1>3. \A m \in 1..k : LastOf(stack, k)[m] = stack[n - k + m]
  BY <1>2, LastOfOk DEF n
<1> QED
  BY <1>1, <1>2, <1>3 DEF Holds, n, k

\* What the checker could pop at the instruction at hand is on top of the
\* stack, above what the blocks around it have.
LEMMA PoppedIsThere ==
  ASSUME RunInv, NEW ops, At(ops), NEW ts \in Seq(BodyType), CanPop(Checks[Frame.pc], ts)
  PROVE  /\ Carries(stack, Len(stack), ts, Frame.base + Last(Checks[Frame.pc].ctrls).height)
         /\ Holds(ts) /\ Len(ts) <= Len(stack)
<1> DEFINE c == Checks[Frame.pc]
<1>1. /\ Live(c) /\ Typed(c) /\ ValuesOk(c.stack, 0, stack, Frame.base, Len(stack))
      /\ phase = "run"
  BY AtHere
<1>2. stack \in Seq(ValueType) /\ Len(stack) \in Nat /\ Frame.base \in Nat
  BY <1>1, Here
<1>3. Len(stack) \in 0..Len(stack)
  BY <1>2
<1>4. Carries(stack, Len(stack), ts, Frame.base + Last(c.ctrls).height)
  <2> HIDE DEF c
  <2>1. CanPop(c, ts)
    BY DEF c
  <2> QED
    BY <1>1, <1>2, <1>3, <2>1, CarriesAll
<1> DEFINE lo == Frame.base + Last(c.ctrls).height
<1> HIDE DEF lo
<1>5. Holds(ts) /\ Len(ts) <= Len(stack)
  <2>1. Carries(stack, Len(stack), ts, lo)
    BY <1>4 DEF lo
  <2> QED
    BY <1>2, <2>1, CarriedHolds
<1> QED
  BY <1>4, <1>5

\* The label of a branch the checker accepts is there, with its arity and, for
\* the function's own, the height of the frame.
LEMMA LabelIsThere ==
  ASSUME RunInv, NEW ops, At(ops), NEW d \in Nat, HasLabel(Checks[Frame.pc], d)
  PROVE  LET c   == Checks[Frame.pc]
             idx == Len(ctrls) - d
         IN /\ idx \in DOMAIN ctrls /\ ctrls[idx].arity = Len(LabelTypes(c, d))
            /\ LabelTypes(c, d) \in Seq(BodyType)
            /\ idx = Frame.ctrl_base + 1 =>
                 ctrls[idx].height = Frame.base /\ Frame.results = Len(LabelTypes(c, d))
<1> DEFINE q == Frame.pc
           c == Checks[q]
           b == Body
           f == Frame.fn
           s == OpenAt(b)[q]
           l == Len(s)
           j == l - d
           lo == Frame.ctrl_base
           idx == Len(ctrls) - d
           ts == LabelTypes(c, d)
<1>1. q \in 1..Len(b) /\ phase = "run"
  BY AtHere
<1>2. /\ Whole(f, b, Checks) /\ Top(Frame, b, Checks, stack, ctrls)
      /\ stack \in Seq(ValueType) /\ ctrls \in Seq(EntryType) /\ Len(ctrls) \in Nat
      /\ lo \in Nat /\ Frame.results = Len(FuncTypeOf(f).outs)
  BY <1>1, Here
<1>3. EntriesOk(f, b, Checks, q, Frame.base, ctrls, lo, Len(ctrls)) /\ HasLabel(Checks[q], d)
  BY <1>2, TopFacts
<1> HIDE DEF q, b, f
<1>4. /\ j \in 0..l /\ ts \in Seq(BodyType)
      /\ j = 0 => ts = FuncTypeOf(f).outs
      /\ j # 0 => ts = LabelOf(b[s[j]])
  BY <1>1, <1>2, <1>3, LabelIs
<1>5. Len(c.ctrls) = l + 1 /\ c.ctrls # <<>> /\ l \in Nat
  <2>1. Len(c.ctrls) = l + 1 /\ Live(c) /\ Len(b) \in Nat /\ q \in 1 .. Len(b) + 1
    BY <1>1, <1>2, PlaceFacts
  <2>2. l \in Nat
    BY <2>1, OpenBlocks
  <2> QED
    BY <2>1, <2>2 DEF Live
<1>6. /\ Len(ctrls) = lo + Len(c.ctrls) /\ ctrls[lo + 1] = Bottom(f, b, Frame.base)
      /\ \A m \in 1 .. Len(c.ctrls) - 1 :
           ctrls[lo + m + 1] = Entry(b, Checks, Frame.base, s[m])
  BY <1>3, <1>5 DEF EntriesOk
<1> HIDE DEF l, lo, c, s, ts
<1>7. idx = lo + j + 1 /\ idx \in 1..Len(ctrls) /\ (idx = lo + 1) = (j = 0)
  BY <1>2, <1>4, <1>5, <1>6
<1>8. idx \in DOMAIN ctrls
  BY <1>2, <1>7, LenProperties
<1>9. CASE j = 0
  BY <1>2, <1>4, <1>6, <1>7, <1>8, <1>9 DEF Bottom, ts, c, q, lo
<1>10. CASE j # 0
  <2>1. j \in 1 .. Len(c.ctrls) - 1
    BY <1>4, <1>5, <1>10
  <2> HIDE DEF j, idx
  <2>2. ctrls[idx] = Entry(b, Checks, Frame.base, s[j])
    BY <1>6, <1>7, <2>1
  <2>3. ctrls[idx].arity = Len(ts)
    BY <1>4, <1>10, <2>2 DEF Entry
  <2> QED
    BY <1>4, <1>7, <1>8, <1>10, <2>3 DEF idx, ts, c, q, lo
<1> QED
  BY <1>9, <1>10

\* A branch over the first n values finds what it takes, if its types are on
\* top of them.
LEMMA ReachesLabel ==
  ASSUME RunInv, NEW ops, At(ops), NEW d \in Nat, HasLabel(Checks[Frame.pc], d), NEW n,
         Carries(stack, n, LabelTypes(Checks[Frame.pc], d),
                 Frame.base + Last(Checks[Frame.pc].ctrls).height),
         NEW st, st = SubSeq(stack, 1, n)
  PROVE  Reaches(d, st)
<1> DEFINE c   == Checks[Frame.pc]
           idx == Len(ctrls) - d
           ts  == LabelTypes(c, d)
           h   == Last(c.ctrls).height
           base == Frame.base
           e   == ctrls[idx]
<1>1. /\ idx \in DOMAIN ctrls /\ e.arity = Len(ts) /\ ts \in Seq(BodyType)
      /\ idx = Frame.ctrl_base + 1 => e.height = base /\ Frame.results = Len(ts)
  BY LabelIsThere
<1>2. /\ stack \in Seq(ValueType) /\ Len(stack) \in Nat /\ base \in Nat /\ Live(c)
  BY Here, AtHere
<1>3. h \in Nat
  <2> HIDE DEF c
  <2>1. c.ctrls # <<>> /\ c \in CheckerType
    BY <1>2 DEF Live
  <2> QED
    BY <2>1, CheckerParts
<1> DEFINE lo == base + h
<1>4. lo \in Nat /\ base <= lo
  <2> HIDE DEF base, h
  <2> QED
    BY <1>2, <1>3
<1>5. Carries(stack, n, ts, lo)
  OBVIOUS
<1> HIDE DEF lo, h, base, ts, c, idx, e
<1>6. n \in 0..Len(stack) /\ Len(ts) \in Nat /\ lo + Len(ts) <= n
  BY <1>5 DEF Carries
<1>7. Len(st) = n
  BY <1>2, <1>6, PrefixOk
<1>8. e.arity <= Len(st)
  BY <1>1, <1>2, <1>4, <1>6, <1>7
<1>9. ASSUME idx = Frame.ctrl_base + 1
      PROVE  Frame.results <= Len(Keep(st, e.arity, e.height))
  <2>1. e.height = base /\ Frame.results = Len(ts) /\ e.arity = Len(ts)
    BY <1>1, <1>9
  <2>2. Len(Keep(SubSeq(stack, 1, n), Len(ts), base)) = base + Len(ts)
    BY <1>1, <1>2, <1>4, <1>5, KeepResults
  <2>3. Len(ts) <= base + Len(ts)
    BY <1>2, <1>6
  <2> QED
    BY <2>1, <2>2, <2>3
<1> QED
  BY <1>1, <1>8, <1>9 DEF Reaches, idx, e

\* Blocks find their parameters, and an if its condition on top.
LEMMA OpenersReady ==
  ASSUME RunInv, At({"block", "loop", "if"})
  PROVE  Premises
<1> DEFINE c == Checks[Frame.pc]
<1>1. /\ Instr.op \in {"block", "loop", "if"} /\ Accepts(Frame.fn, c, Instr)
      /\ phase = "run" /\ Frame.pc <= Len(Body)
  BY AtHere DEF At
<1> HIDE DEF c
<1>2. Instr.bt \in DOMAIN Types /\ CanPop(c, Operands(Instr))
  BY <1>1 DEF Accepts, Operands, Openers
<1>3. Operands(Instr) \in Seq(BodyType)
  BY <1>2, OperandsAre
<1>4. Holds(Operands(Instr))
  BY <1>2, <1>3, PoppedIsThere DEF c
<1>5. CASE Instr.op = "if"
  <2>1. At({"if"}) /\ Holds(Append(Types[Instr.bt].ins, "i32"))
    BY <1>1, <1>4, <1>5 DEF At, Operands
  <2> QED
    BY <1>2, <2>1 DEF Premises
<1>6. CASE Instr.op \in {"block", "loop"}
  <2>1. At({"block", "loop"}) /\ Holds(Types[Instr.bt].ins)
    BY <1>1, <1>4, <1>6 DEF At, Operands
  <2> QED
    BY <1>2, <2>1 DEF Premises
<1> QED
  BY <1>1, <1>5, <1>6

\* An else or end has a control entry of its frame to drop.
LEMMA EndsReady ==
  ASSUME RunInv, At({"else", "end"})
  PROVE  Premises
<1> DEFINE q == Frame.pc
           lo == Frame.ctrl_base
           s == OpenAt(Body)[q]
<1>1. q \in 1..Len(Body) /\ phase = "run"
  BY AtHere
<1>2. /\ Whole(Frame.fn, Body, Checks) /\ Top(Frame, Body, Checks, stack, ctrls)
      /\ stack \in Seq(ValueType) /\ ctrls \in Seq(EntryType) /\ lo \in Nat
  BY <1>1, Here
<1>3. Len(ctrls) = lo + Len(Checks[q].ctrls)
  <2>1. EntriesOk(Frame.fn, Body, Checks, q, Frame.base, ctrls, lo, Len(ctrls))
    BY <1>2, TopFacts
  <2> HIDE DEF q, lo
  <2> QED
    BY <2>1 DEF EntriesOk
<1> HIDE DEF q
<1>4. Len(Checks[q].ctrls) = Len(s) + 1 /\ Len(s) \in Nat
  <2>1. Len(Checks[q].ctrls) = Len(s) + 1 /\ Len(Body) \in Nat /\ q \in 1 .. Len(Body) + 1
    BY <1>1, <1>2, PlaceFacts
  <2> QED
    BY <2>1, OpenBlocks
<1> HIDE DEF lo, s
<1>5. lo < Len(ctrls)
  BY <1>2, <1>3, <1>4
<1> QED
  BY <1>5 DEF Premises, lo

\* A branch finds its label and values, and its condition.
LEMMA BranchesReady ==
  ASSUME RunInv, At({"br", "br_if"})
  PROVE  Premises
<1> DEFINE q == Frame.pc
           c == Checks[q]
           d == Instr.depth
           ts == LabelTypes(c, d)
           lo == Frame.base + Last(c.ctrls).height
<1>1. /\ Instr.op \in {"br", "br_if"} /\ Accepts(Frame.fn, c, Instr) /\ d \in Nat
      /\ phase = "run" /\ Frame.pc <= Len(Body)
  BY AtHere, InstrParts DEF At
<1>2. stack \in Seq(ValueType) /\ Len(stack) \in Nat
  BY <1>1, Here
<1>3. HasLabel(c, d) /\ CanPop(c, IF Instr.op = "br" THEN ts ELSE Append(ts, "i32"))
  BY <1>1 DEF Accepts, Openers
<1>4. ts \in Seq(BodyType) /\ "i32" \in BodyType
  BY <1>1, <1>3, LabelIsThere DEF BodyType
<1> HIDE DEF q, d, ts, c, lo
<1>5. CASE Instr.op = "br"
  <2>1. At({"br"})
    BY <1>1, <1>5 DEF At
  <2>2. Carries(stack, Len(stack), ts, lo)
    BY <1>3, <1>4, <1>5, PoppedIsThere DEF c, lo, q
  <2>3. stack = SubSeq(stack, 1, Len(stack))
    BY <1>2, WholePrefix
  <2>4. Reaches(d, stack)
    BY <1>1, <1>3, <2>2, <2>3, ReachesLabel DEF c, lo, q, ts
  <2> QED
    BY <2>1, <2>4 DEF Premises, d
<1>6. CASE Instr.op = "br_if"
  <2>1. At({"br_if"})
    BY <1>1, <1>6 DEF At
  <2> DEFINE v == Append(ts, "i32")
  <2>2. /\ v \in Seq(BodyType) /\ Len(v) = Len(ts) + 1 /\ Len(ts) \in Nat
        /\ v[Len(ts) + 1] = "i32"
    BY <1>4, AppendOk
  <2>3. CanPop(c, v)
    BY <1>3, <1>6
  <2> HIDE DEF v
  <2>4. Carries(stack, Len(stack), v, lo) /\ Len(v) <= Len(stack)
    BY <2>2, <2>3, PoppedIsThere DEF c, lo, q
  <2>5. Carries(stack, Len(stack) - 1, ts, lo)
    BY <1>2, <1>4, <2>4, CarriesMore DEF v
  <2>6. Below(1) = SubSeq(stack, 1, Len(stack) - 1)
    BY DEF Below
  <2>7. Reaches(d, Below(1))
    BY <1>1, <1>3, <2>5, <2>6, ReachesLabel DEF c, lo, q, ts
  <2>8. Holds(<<"i32">>)
    <3>1. stack[Len(stack)].ty = "i32" /\ 1 \in 0..Len(stack)
      <4>1. \A m \in 1..Len(v) : stack[Len(stack) - Len(v) + m].ty = v[m]
        BY <2>4 DEF Carries
      <4>2. Len(v) \in 1..Len(v) /\ Len(stack) - Len(v) + Len(v) = Len(stack) /\ 1 \in 0..Len(stack)
        BY <1>2, <2>2, <2>4
      <4> QED
        BY <2>2, <4>1, <4>2
    <3>2. LastOf(stack, 1)[1] = stack[Len(stack) - 1 + 1]
      BY <1>2, <3>1, LastOfOk
    <3>3. Len(stack) - 1 + 1 = Len(stack) /\ 1 <= Len(stack)
      BY <1>2, <3>1
    <3> QED
      BY <3>1, <3>2, <3>3 DEF Holds
  <2> QED
    BY <2>1, <2>7, <2>8 DEF Premises, d
<1> QED
  BY <1>1, <1>5, <1>6

\* An index into a table of labels finds every label of the table.
LEMMA TableReady ==
  ASSUME RunInv, At({"br_table"})
  PROVE  Premises
<1> DEFINE c == Checks[Frame.pc]
           lo == Frame.base + Last(c.ctrls).height
           ds == Instr.depths
           all == ToSet(ds) \cup {Instr.default}
<1>1. /\ Instr.op = "br_table" /\ Accepts(Frame.fn, c, Instr) /\ phase = "run"
      /\ ds \in Seq(Nat) /\ Instr.default \in Nat
      /\ Live(c) /\ Typed(c) /\ ValuesOk(c.stack, 0, stack, Frame.base, Len(stack))
  BY AtHere, InstrParts
<1>2. stack \in Seq(ValueType) /\ Len(stack) \in Nat /\ Frame.base \in Nat
  BY <1>1, Here
<1>3. CanBrTable(c, ds, Instr.default)
  BY <1>1 DEF Accepts, Openers
<1>4. CanPop(c, <<"i32">>) /\ <<"i32">> \in Seq(BodyType)
  BY <1>3 DEF CanBrTable, BodyType
<1>5. Holds(<<"i32">>)
  BY <1>4, PoppedIsThere
<1>6. ASSUME NEW d \in all
      PROVE  Reaches(d, Below(1))
  <2> DEFINE ts == LabelTypes(c, d)
  <2>1. d \in Nat /\ HasLabel(c, d) /\ CanPop(Popped(c, 1), ts)
    <3> HIDE DEF c
    <3>1. CASE d = Instr.default
      BY <1>1, <1>3, <3>1 DEF CanBrTable
    <3>2. CASE d \in ToSet(ds)
      <4> PICK i \in DOMAIN ds : ds[i] = d
        BY <3>2 DEF ToSet
      <4>1. ds[i] \in Nat
        BY <1>1, LenProperties, ElementOfSeq
      <4> QED
        BY <1>3, <4>1 DEF CanBrTable
    <3> QED
      BY <3>1, <3>2
  <2>2. ts \in Seq(BodyType)
    BY <2>1, LabelIsThere
  <2> HIDE DEF ts
  <2>3. Carries(stack, Len(stack) - 1, ts, lo)
    <3> HIDE DEF c
    <3> QED
      BY <1>1, <1>2, <1>4, <2>1, <2>2, CarriesTable
  <2>4. Below(1) = SubSeq(stack, 1, Len(stack) - 1)
    BY DEF Below
  <2> QED
    BY <2>1, <2>3, <2>4, ReachesLabel DEF ts
<1> QED
  BY <1>5, <1>6 DEF Premises

\* A return, and the end of the body, find the results.
LEMMA ReturnReady ==
  ASSUME RunInv, At({"return"})
  PROVE  Premises
<1> DEFINE q == Frame.pc
           c == Checks[q]
           outs == FuncTypeOf(Frame.fn).outs
<1>1. Instr.op = "return" /\ Accepts(Frame.fn, c, Instr) /\ phase = "run" /\ q \in 1..Len(Body)
  BY AtHere
<1>2. Whole(Frame.fn, Body, Checks) /\ Frame.results = Len(outs)
  BY <1>1, Here
<1>3. CanPop(c, outs)
  <2>1. CanPop(c, c.ctrls[1].outs)
    BY <1>1 DEF Accepts, Openers
  <2> HIDE DEF q
  <2>2. StateOk(Frame.fn, Body, Checks, q)
    BY <1>1, <1>2, PlaceFacts
  <2> QED
    BY <2>1, <2>2 DEF StateOk
<1>4. outs \in Seq(BodyType)
  BY <1>2, EndFacts, FunctionTypes
<1> HIDE DEF outs
<1>5. Len(outs) <= Len(stack)
  BY <1>3, <1>4, PoppedIsThere
<1> QED
  BY <1>2, <1>5 DEF Premises

LEMMA FinishReady ==
  ASSUME RunInv, phase = "run", Frame.pc > Len(Body)
  PROVE  Premises
<1> DEFINE outs == FuncTypeOf(Frame.fn).outs
           base == Frame.base
<1>1. /\ Whole(Frame.fn, Body, Checks) /\ Top(Frame, Body, Checks, stack, ctrls)
      /\ stack \in Seq(ValueType) /\ ctrls \in Seq(EntryType) /\ Len(stack) \in Nat
      /\ base \in Nat /\ Frame.pc \in 1 .. Len(Body) + 1 /\ Len(Body) \in Nat
      /\ Frame.results = Len(outs)
  BY Here
<1>2. Frame.pc = Len(Body) + 1
  BY <1>1
<1>3. Checks[Frame.pc].stack = outs /\ Len(outs) \in Nat
  <2>1. Frame.fn \in DOMAIN Funcs /\ Checks[Len(Body) + 1] = [stack |-> outs, ctrls |-> <<>>]
    BY <1>1, EndFacts
  <2> QED
    BY <1>2, <2>1, FunctionTypes
<1>4. ValuesOk(outs, 0, stack, base, Len(stack))
  BY <1>1, <1>3, TopFacts
<1> HIDE DEF outs, base
<1>5. Len(outs) <= Len(stack)
  BY <1>1, <1>3, <1>4 DEF ValuesOk
<1> QED
  BY <1>1, <1>5 DEF Premises

\* A call finds its arguments.
LEMMA CallReady ==
  ASSUME RunInv, At({"call"})
  PROVE  Premises
<1> DEFINE c == Checks[Frame.pc]
<1>1. Instr.op = "call" /\ Accepts(Frame.fn, c, Instr)
  BY AtHere
<1>2. Instr.func \in DOMAIN Funcs /\ CanPop(c, FuncTypeOf(Instr.func).ins)
  BY <1>1 DEF Accepts, Openers
<1>3. FuncTypeOf(Instr.func).ins \in Seq(BodyType)
  BY <1>2, FunctionTypes
<1>4. Holds(FuncTypeOf(Instr.func).ins)
  BY <1>2, <1>3, PoppedIsThere
<1> QED
  BY <1>2, <1>4 DEF Premises

\* Operands of any type that the checker counted are there.
LEMMA CountedIsThere ==
  ASSUME RunInv, NEW ops, At(ops), NEW k \in Nat, HasOperands(Checks[Frame.pc], k)
  PROVE  k <= Len(stack) /\ k <= Avail(Checks[Frame.pc])
<1> DEFINE c == Checks[Frame.pc]
           u == Popped(c, k)
           base == Frame.base
<1>1. /\ Live(c) /\ Typed(c) /\ ValuesOk(c.stack, 0, stack, base, Len(stack)) /\ phase = "run"
  BY AtHere
<1>2. Len(stack) \in Nat /\ base \in Nat
  BY <1>1, Here
<1>3. k <= Avail(c) /\ Len(c.stack) = Len(u.stack) + k /\ Len(u.stack) \in Nat /\ Len(c.stack) \in Nat
  <2>1. HasOperands(c, k)
    OBVIOUS
  <2> HIDE DEF c
  <2> QED
    BY <1>1, <2>1, PopCount
<1> HIDE DEF u, c, base
<1>4. Len(stack) = base + Len(c.stack)
  BY <1>1, <1>2, <1>3 DEF ValuesOk
<1>5. k <= Len(stack)
  BY <1>2, <1>3, <1>4
<1> QED
  BY <1>3, <1>5 DEF c

LEMMA OperandsReady ==
  ASSUME RunInv, At({"drop", "eqz", "extend", "select"})
  PROVE  Premises
<1> DEFINE c == Checks[Frame.pc]
<1>1. /\ Instr.op \in {"drop", "eqz", "extend", "select"} /\ Accepts(Frame.fn, c, Instr)
      /\ phase = "run" /\ Frame.pc <= Len(Body)
  BY AtHere DEF At
<1>2. Len(stack) \in Nat /\ stack \in Seq(ValueType) /\ <<"i32">> \in Seq(BodyType)
  BY <1>1, Here DEF BodyType
<1>3. CASE Instr.op = "drop"
  <2>1. At({"drop"}) /\ HasOperands(c, 1)
    BY <1>1, <1>3 DEF At, Accepts, Openers
  <2>2. 1 <= Len(stack)
    BY <2>1, CountedIsThere
  <2>3. stack # <<>>
    BY <1>2, <2>2
  <2> QED
    BY <2>1, <2>3 DEF Premises
<1>4. CASE Instr.op \in {"eqz", "extend"}
  <2>1. At({"eqz", "extend"}) /\ CanPop(c, <<"i32">>)
    BY <1>1, <1>4 DEF At, Accepts, Openers
  <2>2. Holds(<<"i32">>)
    BY <1>2, <2>1, PoppedIsThere
  <2> QED
    BY <2>1, <2>2 DEF Premises
<1>5. CASE Instr.op = "select"
  <2>1. At({"select"}) /\ CanSelect(c)
    BY <1>1, <1>5 DEF At, Accepts, Openers
  <2>2. HasOperands(c, 3) /\ Operand(c, 0) \in {"i32", Bot}
    BY <2>1 DEF CanSelect
  <2>3. 3 <= Len(stack) /\ 3 <= Avail(c)
    BY <2>1, <2>2, CountedIsThere
  <2>4. CanPop(c, <<"i32">>)
    <3> DEFINE one == <<"i32">>
    <3>1. Len(one) = 1 /\ DOMAIN one = {1} /\ one[1] = "i32"
      OBVIOUS
    <3>2. HasOperands(c, 1)
      <4>1. Avail(c) \in Int
        <5>1. Live(c)
          BY AtHere
        <5> HIDE DEF c
        <5>2. c \in CheckerType /\ c.ctrls # <<>>
          BY <5>1 DEF Live
        <5>3. Last(c.ctrls).height \in Int /\ Len(c.stack) \in Int
          BY <5>2, CheckerParts
        <5> QED
          BY <5>3 DEF Avail
      <4> QED
        BY <2>3, <4>1 DEF HasOperands
    <3> HIDE DEF one
    <3>3. \A i \in DOMAIN one : Operand(c, Len(one) - i) \in {one[i], Bot}
      <4>1. Len(one) - 1 = 0
        BY <3>1
      <4> QED
        BY <2>2, <3>1, <4>1
    <3>4. CanPop(c, one)
      BY <3>1, <3>2, <3>3 DEF CanPop
    <3> QED
      BY <3>4 DEF one
  <2>5. Holds(<<"i32">>)
    BY <1>2, <2>1, <2>4, PoppedIsThere
  <2>6. Len(stack) >= 3
    BY <1>2, <2>3
  <2> QED
    BY <2>1, <2>5, <2>6 DEF Premises
<1> QED
  BY <1>1, <1>3, <1>4, <1>5

\* A local is one of the frame, and local.set finds a value for it.
LEMMA LocalsReady ==
  ASSUME RunInv, At({"local.get", "local.set", "local.tee"})
  PROVE  Premises
<1> DEFINE c == Checks[Frame.pc]
<1>1. /\ Instr.op \in {"local.get", "local.set", "local.tee"} /\ Accepts(Frame.fn, c, Instr)
      /\ phase = "run" /\ Frame.pc <= Len(Body)
  BY AtHere DEF At
<1>2. Len(stack) \in Nat /\ TypesOf(Frame.locals) = LocalsOf(Frame.fn)
      /\ Whole(Frame.fn, Body, Checks)
  BY <1>1, Here
<1>3. Instr.idx \in DOMAIN LocalsOf(Frame.fn)
  BY <1>1 DEF Accepts, Openers
<1>4. LocalSlot
  BY <1>2, <1>3 DEF LocalSlot, TypesOf
<1>5. CASE Instr.op = "local.get"
  <2>1. At({"local.get"})
    BY <1>1, <1>5 DEF At
  <2> QED
    BY <1>4, <2>1 DEF Premises
<1>6. CASE Instr.op \in {"local.set", "local.tee"}
  <2>1. At({"local.set", "local.tee"})
    BY <1>1, <1>6 DEF At
  <2> DEFINE one == <<LocalsOf(Frame.fn)[Instr.idx]>>
  <2>2. CanPop(c, one)
    BY <1>1, <1>6 DEF Accepts, Openers
  <2>3. LocalsOf(Frame.fn) \in Seq(BodyType)
    BY <1>2, EndFacts, FunctionTypes
  <2>4. LocalsOf(Frame.fn)[Instr.idx] \in BodyType
    BY <1>3, <2>3, LenProperties, ElementOfSeq
  <2>5. one \in Seq(BodyType) /\ Len(one) = 1
    BY <2>4
  <2> HIDE DEF one
  <2>6. Len(one) <= Len(stack)
    BY <2>1, <2>2, <2>5, PoppedIsThere
  <2>7. stack # <<>>
    BY <1>2, <2>5, <2>6
  <2> QED
    BY <1>4, <2>1, <2>7 DEF Premises
<1> QED
  BY <1>1, <1>5, <1>6

\* Validated code never meets a panic of the interpreter: before every
\* instruction of every frame that runs, the operands, labels, locals and
\* functions it takes without a test are there (exec.rs, Machine::step and the
\* pops it rests on; validate.rs, Checker::step).
THEOREM PremisesAlwaysHold == Spec => []NeverPanics
<1>1. ASSUME RunInv
      PROVE  NeverPanics
  <2> SUFFICES ASSUME phase = "run"
               PROVE  Premises
    BY DEF NeverPanics, Running
  <2>1. Frame.pc \in 1 .. Len(Body) + 1 /\ Frame.pc \in Nat /\ Len(Body) \in Nat
        /\ Whole(Frame.fn, Body, Checks)
    BY <1>1, Here
  <2>2. CASE Frame.pc > Len(Body)
    BY <1>1, <2>2, FinishReady
  <2>3. CASE Frame.pc <= Len(Body)
    <3>1. Frame.pc \in 1..Len(Body)
      BY <2>1, <2>3
    <3>2. Instr \in Instructions
      <4> DEFINE q == Frame.pc
      <4>1. q \in 1..Len(Body)
        BY <3>1
      <4> HIDE DEF q
      <4>2. Body[q] \in Instructions
        BY <2>1, <4>1, PlaceFacts
      <4> QED
        BY <4>2 DEF Instr, q
    <3>3. \A ops : Instr.op \in ops => At(ops)
      BY <2>3 DEF At
    <3>4. \/ Instr.op \in {"unreachable", "nop", "const"}
          \/ Instr.op \in {"block", "loop", "if"}
          \/ Instr.op \in {"else", "end"}
          \/ Instr.op \in {"br", "br_if"}
          \/ Instr.op \in {"br_table"}
          \/ Instr.op \in {"return"}
          \/ Instr.op \in {"call"}
          \/ Instr.op \in {"drop", "eqz", "extend", "select"}
          \/ Instr.op \in {"local.get", "local.set", "local.tee"}
      BY <3>2 DEF Instructions, InstrOf
    <3>5. \/ At({"unreachable", "nop", "const"})
          \/ At({"block", "loop", "if"})
          \/ At({"else", "end"})
          \/ At({"br", "br_if"})
          \/ At({"br_table"})
          \/ At({"return"})
          \/ At({"call"})
          \/ At({"drop", "eqz", "extend", "select"})
          \/ At({"local.get", "local.set", "local.tee"})
      BY <3>3, <3>4
    <3>6. CASE At({"unreachable", "nop", "const"})
      BY <3>6 DEF Premises
    <3> QED
      BY <1>1, <3>5, <3>6, OpenersReady, EndsReady, BranchesReady, TableReady, ReturnReady,
         CallReady, OperandsReady, LocalsReady
  <2> QED
    BY <2>1, <2>2, <2>3
<1> QED
  BY <1>1, RunInvariant, PTL
=============================================================================
