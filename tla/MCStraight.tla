----------------------------- MODULE MCStraight -----------------------------
(***************************************************************************)
(* Straight-line code over a small module: two locals, a mutable and an    *)
(* immutable global, a table of each kind, a segment of each kind, one     *)
(* data segment and two functions of which one is declared.                *)
(***************************************************************************)
EXTENDS StraightProps

VARIABLE part   \* stacks of up to two operands with every immediate, or taller ones

SmallLocals   == <<"i32", "externref">>
SmallGlobals  == <<[val |-> "funcref", mutable |-> TRUE], [val |-> "f64", mutable |-> FALSE]>>
SmallTables   == <<"funcref", "externref">>
SmallElems    == <<"externref", "funcref">>
SmallDeclared == <<TRUE, FALSE>>
\* One index of each space is out of range.
SmallIndices  == 0..2
\* Up to twice the widest access, one far above it, and one memarg refuses.
SmallAligns   == {0, 1, 2, 3, 4, 5, 30, 32}
\* Both sides of every number of lanes.
SmallLanes    == {0, 1, 2, 3, 4, 7, 8, 15, 16, 31, 32}

\* Stacks of up to three operands: an access and a lane of each outcome.
Tall == INSTANCE StraightProps WITH
  Memories <- {1}, Aligns <- {0, 3}, LaneBytes <- {1, 15}, MaxHeight <- 3

StraightInit ==
  \/ part = "wide" /\ Init
  \/ part = "tall" /\ Tall!Init
StraightNext ==
  /\ UNCHANGED part
  /\ \/ part = "wide" /\ Next
     \/ part = "tall" /\ Tall!Next
StraightSpec == StraightInit /\ [][StraightNext]_<<part, vars>>
=============================================================================
