-------------------------- MODULE SectionsProps --------------------------
(***************************************************************************)
(* What it means that a module is read: stated over the sections and       *)
(* bodies met, against the grammar of the binary format.                   *)
(***************************************************************************)
EXTENDS Sections, FiniteSets

\* The position and every end are inside the file, so no subtraction from
\* the length underflows and no slice is out of range (take, module, code).
TypeOK ==
  /\ pc \in {"magic", "version", "section", "custom", "name", "start", "datacount", "count", "entry", "size", 
             "groups", "locals", "body", "tail", "accepted", "rejected"}
  /\ reason \in IF pc = "rejected" THEN Reasons ELSE {"none"}
  /\ pos \in 0 .. len /\ end \in 0 .. len /\ codeEnd \in 0 .. len
  /\ left \in Nat /\ groups \in Nat /\ depth \in Nat /\ funcs \in Nat
  /\ datacount \in Nat \cup {None}

\* Once it has gone past a byte the decoder never reads it again: setting
\* the position after a custom section only skips.  (Where an error steps
\* back by a byte, it is to report that byte's offset.)
PositionsOnlyGrow == [][pos' >= pos]_vars

\* The bytes a frame says are its content
Start(f) == f.from + 1 + f.w

\* An accepted file is its preamble and its sections, end to end, and each
\* section has the size it declares; so it is with the entries of the code
\* section, whose declared sizes nothing bounds by the section's.
FramesTile ==
  pc = "accepted" =>
    /\ \A i \in DOMAIN frames :
         /\ frames[i].from = IF i = 1 THEN 8 ELSE frames[i - 1].to
         /\ Start(frames[i]) <= frames[i].to
    /\ len = IF frames = <<>> THEN 8 ELSE frames[Len(frames)].to
    /\ bodies # <<>> => \E i \in DOMAIN frames :
         /\ frames[i].id = 10 /\ frames[i].n = Len(bodies)
         /\ Start(frames[i]) < bodies[1].from
         /\ bodies[Len(bodies)].to = frames[i].to

\* Bodies follow one another without a gap, the last token of each at the
\* end its entry declares.
BodiesTile ==
  pc = "accepted" => \A i \in DOMAIN bodies :
    i > 1 => bodies[i].from = bodies[i - 1].to

\* An accepted file is exhausted: its sections, and the bodies of its code
\* section, lie end to end and each has the size it declares (module, code).
FilesTile == FramesTile /\ BodiesTile

\* The grammar: the sections that are not custom ones in their order, each
\* at most once; as many bodies as functions; the data count, if given, that
\* of the data; and given if a body uses a segment and there is a data section.
Order == <<1, 2, 3, 4, 5, 6, 7, 8, 9, 12, 10, 11>>
With(i)   == {f \in DOMAIN frames : frames[f].id = i}
NumOf(i)  == IF With(i) = {} THEN 0 ELSE frames[CHOOSE f \in With(i) : TRUE].n
InOrder ==
  \A f, g \in DOMAIN frames : f < g /\ frames[f].id # 0 /\ frames[g].id # 0 =>
    \E p, q \in DOMAIN Order : p < q /\ Order[p] = frames[f].id /\ Order[q] = frames[g].id
WellFormed ==
  /\ InOrder
  /\ NumOf(3) = NumOf(10)
  /\ With(12) # {} => NumOf(12) = NumOf(11)
  /\ (\E b \in DOMAIN bodies : bodies[b].uses) /\ With(11) # {} => With(12) # {}

\* A body that uses a segment counts for the module wherever it stands.
UsesAreShared == dcUsed = \E b \in DOMAIN bodies : bodies[b].uses

\* Only well-formed sequences of sections are accepted, and none is rejected
\* for its order or its counts that could still be one: the sections met
\* until then already break the grammar (module()).
StructureDecides ==
  /\ UsesAreShared
  /\ pc = "accepted" => WellFormed
  /\ reason = "order" => ~InOrder
  /\ reason = "code_count" => NumOf(3) # NumOf(10)
  /\ reason = "data_count" => NumOf(12) # NumOf(11)
  /\ reason = "data_count_required" => ~WellFormed

\* No more locals are ever allocated than the limit allows, however the runs
\* are split and also on the way to the error (MAX_LOCALS).
LocalsBounded == locals <= MaxLocals
=============================================================================
