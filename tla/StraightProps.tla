--------------------------- MODULE StraightProps ---------------------------
(***************************************************************************)
(* What the three tables of Straight promise together.                     *)
(***************************************************************************)
EXTENDS Straight

\* The variables stay in their ranges.
TypeOK ==
  /\ stage \in Stages
  /\ mems \in Memories
  /\ types \in Seq(ValTypes) /\ values \in Seq(ValTypes)
  /\ instr.op \in Nat /\ (stage \in {"decode", "malformed", "trapped"} => instr = NoInstr)

\* An instruction the validator accepted does not make the interpreter
\* panic: every operand has the type the typed pop of exec.rs or simd.rs
\* wants, every index and lane number is in its list, the memory exists and
\* no operation falls through to "handled earlier".
NeverPanics == stage # "panicked"

\* Between instructions the interpreter's values have the types on the
\* validator's stack, whichever operand a select took and whatever a table,
\* a local or a global held.
StacksAgree == stage = "decode" => values = types

\* exec.rs writes locals, globals and tables without looking at the value:
\* still each holds values of its declared type only.
SlotsKeepTypes ==
  /\ locals = Locals
  /\ \A g \in DOMAIN globals : globals[g] = Globals[g].val
  /\ \A t \in DOMAIN tables : tables[t] \subseteq {Tables[t]}
  /\ \A e \in DOMAIN segs : segs[e] \subseteq {Elems[e]}

\* Types are kept wherever values go: on the stack, whose values exec.rs pops
\* by type, and in what it stores them to.
StacksKeepTypes == StacksAgree /\ SlotsKeepTypes

\* The validator is no stricter on numbers and vectors than the interpreter
\* needs: a numeric, vector or lane instruction it rejects would have made
\* the interpreter panic on the same stack.
RejectionsAreNeeded ==
  stage = "invalid" /\ instr.kind \in {"Num", "Simd", "SimdLane", "Shuffle"} =>
    Panics(instr, values)

\* An access that runs has an alignment of at most the bytes mem_load or
\* mem_store is asked for, and one that was refused for its alignment alone
\* wanted more than them: validate.rs's table of natural alignments is the
\* table of widths in exec.rs and simd.rs.
AlignedToWidth ==
  instr.kind \in Accesses =>
    /\ stage = "execute" => 2^instr.align <= Width(instr)
    /\ stage = "invalid" /\ ~Panics(instr, values) => 2^instr.align > Width(instr)

\* The validator asks for what the interpreter needs and for no more: the
\* operands and lanes of numbers and vectors, the width of an access.
AsksWhatIsNeeded == TypeOK /\ RejectionsAreNeeded /\ AlignedToWidth
=============================================================================
