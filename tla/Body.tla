-------------------------------- MODULE Body --------------------------------
(***************************************************************************)
(* A function body on its way to the interpreter: the decoder resolves its *)
(* branch targets (decode.rs, `expr_until_end`), the validator checks it   *)
(* one instruction after the other (validate.rs, `Checker`).               *)
(*                                                                         *)
(* Positions are 1-based, so the position after the last instruction of a  *)
(* body b is Len(b) + 1.  A block type is an index into Types; the forms   *)
(* without an index are the types that take no parameter.                  *)
(***************************************************************************)
EXTENDS Integers, Sequences, SequencesExt

CONSTANTS
  Types,   \* the function types of the module
  Funcs    \* its functions: type index, declared locals, host or not

BodyType == {"i32", "i64", "funcref"}
FunType  == [ins : Seq(BodyType), outs : Seq(BodyType)]
FunDecl  == [ty : Nat, locals : Seq(BodyType), host : BOOLEAN]

ASSUME BodyAssumption ==
  /\ Types \in Seq(FunType)
  /\ Funcs \in Seq(FunDecl)
  /\ \A f \in DOMAIN Funcs : Funcs[f].ty \in DOMAIN Types

FuncTypeOf(f) == Types[Funcs[f].ty]
LocalsOf(f)   == FuncTypeOf(f).ins \o Funcs[f].locals

-----------------------------------------------------------------------------
(* Instructions, as written (targets 0) and as decoded.                    *)

Openers    == {"block", "loop", "if"}
Ins(op)    == [op |-> op]
Block(t)   == [op |-> "block", bt |-> t, end |-> 0]
Loop(t)    == [op |-> "loop", bt |-> t, end |-> 0]
If(t)      == [op |-> "if", bt |-> t, else_ |-> 0, end |-> 0]
Else       == [op |-> "else", end |-> 0]
End        == [op |-> "end"]
Br(d)      == [op |-> "br", depth |-> d]
BrIf(d)    == [op |-> "br_if", depth |-> d]
BrTable(ds, d) == [op |-> "br_table", depths |-> ds, default |-> d]
Call(f)    == [op |-> "call", func |-> f]
Const(t, n)   == [op |-> "const", ty |-> t, val |-> n]
LocalGet(i) == [op |-> "local.get", idx |-> i]
LocalSet(i) == [op |-> "local.set", idx |-> i]
LocalTee(i) == [op |-> "local.tee", idx |-> i]

\* All of them, with targets in a set: as written they have none.
InstrOf(targets) ==
  [op : {"unreachable", "nop", "end", "return", "drop", "select", "eqz", "extend"}]
  \cup [op : {"block", "loop"}, bt : Nat, end : targets]
  \cup [op : {"if"}, bt : Nat, else_ : targets, end : targets]
  \cup [op : {"else"}, end : targets]
  \cup [op : {"br", "br_if"}, depth : Nat]
  \cup [op : {"br_table"}, depths : Seq(Nat), default : Nat]
  \cup [op : {"call"}, func : Nat]
  \cup [op : {"const"}, ty : BodyType, val : Nat]
  \cup [op : {"local.get", "local.set", "local.tee"}, idx : Nat]
Operators == InstrOf({0})

-----------------------------------------------------------------------------
(* The decoder.  out is the body so far, open the positions of the blocks  *)
(* that have not ended (their number is the code's `depth`).               *)

\* The `end` at hand is the one of the body.
BodyEnds(op, open) == op = End /\ open = <<>>

\* "misplaced else": there is no open `if`, or it has an else already.
Misplaced(op, out, open) ==
  /\ op.op = "else"
  /\ open # <<>> => ~ (out[Last(open)].op = "if" /\ out[Last(open)].else_ = 0)

\* Mutant of CloseBlock: the else keeps no way out.
CloseBlockNotElse(out, b) ==
  LET here == Len(out) + 2
      new  == Append([out EXCEPT ![b].end = here], End)
  IN IF out[b].op = "if" /\ out[b].else_ = 0 THEN [new EXCEPT ![b].else_ = here] ELSE new

\* `end` of the block opened at b: the block, and the else it may have,
\* continue one past this `end`; an if without else has its else there too.
CloseBlock(out, b) ==
  LET here == Len(out) + 2
      new  == Append([out EXCEPT ![b].end = here], End)
  IN CASE out[b].op # "if"   -> new
       [] out[b].op = "if" /\ out[b].else_ = 0 -> [new EXCEPT ![b].else_ = here]
       [] OTHER -> [new EXCEPT ![out[b].else_ - 1].end = here]

\* The body and the open blocks after one more operator.
DecodeOp(op, out, open) ==
  CASE op.op \in Openers -> [out |-> Append(out, op), open |-> Append(open, Len(out) + 1)]
    [] op = End /\ open # <<>> ->
         [out |-> CloseBlock(out, Last(open)), open |-> Front(open)]
    [] op.op = "else" ->
         [out |-> Append([out EXCEPT ![Last(open)].else_ = Len(out) + 2], op), open |-> open]
    [] OTHER -> [out |-> Append(out, op), open |-> open]

-----------------------------------------------------------------------------
(* The validator.  A checker is its operand stack and its control frames.  *)
(* Below the height of an unreachable frame lie operands of any type.      *)

Bot == "bot"

\* The checker of a body before its first instruction.
NewChecker(f) ==
  [stack |-> <<>>,
   ctrls |-> <<[kind |-> "block", ins |-> <<>>, outs |-> FuncTypeOf(f).outs,
                height |-> 0, unreachable |-> FALSE]>>]

\* Operands of the innermost frame.
Avail(c) == Len(c.stack) - Last(c.ctrls).height

\* The operand i places below the top, if pop_any yields one.
Operand(c, i) ==
  IF i < Avail(c) THEN c.stack[Len(c.stack) - i] ELSE Bot

HasOperands(c, n) == n <= Avail(c) \/ Last(c.ctrls).unreachable

\* Mutant of CanPop: the types are not compared.
CanPopAny(c, ts) == HasOperands(c, Len(ts))

\* pop_vals(ts) succeeds.
CanPop(c, ts) ==
  /\ HasOperands(c, Len(ts))
  /\ \A i \in DOMAIN ts : Operand(c, Len(ts) - i) \in {ts[i], Bot}

\* The checker after it popped n operands and pushed ts.
Popped(c, n)  == [c EXCEPT !.stack = SubSeq(@, 1, Len(@) - Min({n, Avail(c)}))]
Pushed(c, ts) == [c EXCEPT !.stack = @ \o ts]

PushCtrl(c, kind, t) ==
  [stack |-> c.stack \o t.ins,
   ctrls |-> Append(c.ctrls, [kind |-> kind, ins |-> t.ins, outs |-> t.outs,
                              height |-> Len(c.stack), unreachable |-> FALSE])]

\* pop_ctrl succeeds: the results are there and nothing else.
CanPopCtrl(c) == CanPop(c, Last(c.ctrls).outs) /\ Avail(c) <= Len(Last(c.ctrls).outs)
PopCtrl(c)    == [stack |-> SubSeq(c.stack, 1, Last(c.ctrls).height),
                  ctrls |-> Front(c.ctrls)]

Unreachable(c) ==
  [stack |-> SubSeq(c.stack, 1, Last(c.ctrls).height),
   ctrls |-> [c.ctrls EXCEPT ![Len(c.ctrls)].unreachable = TRUE]]

Label(c, d) == c.ctrls[Len(c.ctrls) - d]
HasLabel(c, d) == d < Len(c.ctrls)

LabelTypes(c, d) ==
  IF Label(c, d).kind = "loop" THEN Label(c, d).ins ELSE Label(c, d).outs

\* A missing else arm must be an identity.
IfEnds(f) == f.kind = "if" => f.ins = f.outs

\* br_table: every target agrees with the operands, and with the default on
\* their number; operands of any type agree with targets that differ.
CanBrTable(c, ds, d) ==
  /\ CanPop(c, <<"i32">>)
  /\ HasLabel(c, d)
  /\ \A i \in DOMAIN ds :
       /\ HasLabel(c, ds[i])
       /\ Len(LabelTypes(c, ds[i])) = Len(LabelTypes(c, d))
       /\ CanPop(Popped(c, 1), LabelTypes(c, ds[i]))
  /\ CanPop(Popped(c, 1), LabelTypes(c, d))

\* An untyped select takes two operands of one number type.
CanSelect(c) ==
  /\ HasOperands(c, 3) /\ Operand(c, 0) \in {"i32", Bot}
  /\ \A i \in 1..2 : Operand(c, i) # "funcref"
  /\ Operand(c, 1) = Operand(c, 2) \/ Bot \in {Operand(c, 1), Operand(c, 2)}
Selected(c) == IF Operand(c, 1) # Bot THEN Operand(c, 1) ELSE Operand(c, 2)

\* step(c, i) = Ok(()) in function f.
Accepts(f, c, i) ==
  CASE i.op \in {"unreachable", "nop"} -> TRUE
    [] i.op \in {"block", "loop"} -> i.bt \in DOMAIN Types /\ CanPop(c, Types[i.bt].ins)
    [] i.op = "if" ->
         i.bt \in DOMAIN Types /\ CanPop(c, Append(Types[i.bt].ins, "i32"))
    [] i.op = "else" -> CanPopCtrl(c) /\ Last(c.ctrls).kind = "if"
    [] i.op = "end" -> CanPopCtrl(c) /\ IfEnds(Last(c.ctrls))
    [] i.op = "br" -> HasLabel(c, i.depth) /\ CanPop(c, LabelTypes(c, i.depth))
    [] i.op = "br_if" ->
         HasLabel(c, i.depth) /\ CanPop(c, Append(LabelTypes(c, i.depth), "i32"))
    [] i.op = "br_table" -> CanBrTable(c, i.depths, i.default)
    [] i.op = "return" -> CanPop(c, c.ctrls[1].outs)
    [] i.op = "call" -> i.func \in DOMAIN Funcs /\ CanPop(c, FuncTypeOf(i.func).ins)
    [] i.op = "drop" -> HasOperands(c, 1)
    [] i.op = "select" -> CanSelect(c)
    [] i.op = "const" -> TRUE
    [] i.op \in {"eqz", "extend"} -> CanPop(c, <<"i32">>)
    [] i.op = "local.get" -> i.idx \in DOMAIN LocalsOf(f)
    [] i.op \in {"local.set", "local.tee"} ->
         i.idx \in DOMAIN LocalsOf(f) /\ CanPop(c, <<LocalsOf(f)[i.idx]>>)

\* What step(c, i) leaves of an accepting c.
Checked(f, c, i) ==
  CASE i.op \in {"unreachable", "br", "br_table", "return"} -> Unreachable(c)
    [] i.op = "nop" -> c
    [] i.op \in {"block", "loop"} ->
         PushCtrl(Popped(c, Len(Types[i.bt].ins)), i.op, Types[i.bt])
    [] i.op = "if" -> PushCtrl(Popped(c, Len(Types[i.bt].ins) + 1), "if", Types[i.bt])
    [] i.op = "else" -> PushCtrl(PopCtrl(c), "else", Last(c.ctrls))
    [] i.op = "end" -> Pushed(PopCtrl(c), Last(c.ctrls).outs)
    [] i.op = "br_if" ->
         LET ts == LabelTypes(c, i.depth) IN Pushed(Popped(c, Len(ts) + 1), ts)
    [] i.op = "call" ->
         Pushed(Popped(c, Len(FuncTypeOf(i.func).ins)), FuncTypeOf(i.func).outs)
    [] i.op = "drop" -> Popped(c, 1)
    [] i.op = "select" -> Pushed(Popped(c, 3), <<Selected(c)>>)
    [] i.op = "const" -> Pushed(c, <<i.ty>>)
    [] i.op = "eqz" -> Pushed(Popped(c, 1), <<"i32">>)
    [] i.op = "extend" -> Pushed(Popped(c, 1), <<"i64">>)
    [] i.op = "local.get" -> Pushed(c, <<LocalsOf(f)[i.idx]>>)
    [] i.op = "local.set" -> Popped(c, 1)
    [] i.op = "local.tee" -> Pushed(Popped(c, 1), <<LocalsOf(f)[i.idx]>>)
=============================================================================
