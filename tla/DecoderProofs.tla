---------------------------- MODULE DecoderProofs ---------------------------
(***************************************************************************)
(* The decoder: its framing, for files, numbers and limits of any size;    *)
(* and its readers of numbers, which accept exactly the encodings of the   *)
(* grammar, for bytes, accumulators and widths of any size.                *)
(***************************************************************************)
EXTENDS SectionsProps, Leb128, SequenceTheorems, WellFoundedInduction, TLAPS

-----------------------------------------------------------------------------
(* Types of the decoder's own numbers.                                     *)

\* What TypeOK needs to be inductive: the length and the running totals are
\* natural, and the locals pushed are those counted while runs are read.
NumbersInv ==
  /\ TypeOK
  /\ len \in Nat /\ id \in Nat /\ last \in Nat /\ total \in Nat /\ locals \in Nat
  /\ locals <= MaxLocals
  /\ pc = "locals" => locals = total

\* The phases in which content is read.
LEMMA ContentIsPhase ==
  ASSUME NEW i \in Nat, i <= 12
  PROVE  Content(i) \in {"custom", "start", "datacount", "count"}
  BY Zenon DEF Content

\* NumbersInv holds at first ...
LEMMA NumbersInit == Init => NumbersInv
  BY SectionsAssumption DEF Init, NumbersInv, TypeOK

\* ... and is inductive.
LEMMA NumbersStep == NumbersInv /\ [Next]_vars => NumbersInv'
<1> SUFFICES ASSUME NumbersInv, [Next]_vars PROVE NumbersInv'
    OBVIOUS
<1> USE SectionsAssumption DEF NumbersInv, TypeOK
<1>1. CASE Preamble
    BY <1>1 DEF Preamble, Reject, Goto, section, counts, entry, noted, Reasons
<1>2. CASE ReadFails
    BY <1>2 DEF ReadFails, Reject, position, section, counts, entry, noted, Reasons
<1>3. CASE SectionHeader
    BY ContentIsPhase, <1>3 DEF SectionHeader, Reject, Goto, Rank, U32, Fits, section, counts, entry, noted, Reasons
<1>4. CASE Custom
    BY <1>4 DEF Custom, Goto, U32, Fits, counts, entry, noted
<1>5. CASE SkipCustom
    BY <1>5 DEF SkipCustom, NameFits, Reject, Goto, section, counts, entry, noted, Reasons
<1>6. CASE Single
    BY <1>6 DEF Single, Goto, U32, Fits, section, counts, entry, noted
<1>7. CASE Count
    BY <1>7 DEF Count, Reject, Goto, U32, Fits, entry, Reasons
<1>8. CASE Entry
    BY <1>8 DEF Entry, Goto, U32, Tokens, Fits, entry, noted
<1>9. CASE CodeSize
    BY <1>9 DEF CodeSize, Overruns, Reject, Goto, U32, Fits, section, counts, Reasons
<1>10. CASE Groups
    BY <1>10 DEF Groups, Goto, U32, Fits, section, counts, noted
<1>11. CASE Locals
    BY <1>11 DEF Locals, Materialised, Reject, Goto, U32, Fits, section, counts, noted, Reasons
<1>12. CASE Instruction
    <2>1. CASE pos >= codeEnd
        BY <1>12, <2>1 DEF Instruction, Reject, section, counts, Reasons
    <2>2. CASE pos < codeEnd
        <3>1. PICK w \in Tokens : pos' = pos + w
            BY <1>12, <2>2 DEF Instruction, Goto, Reject, EndsAt, Used
        <3>2. pos' \in 0 .. len
            BY <3>1 DEF Tokens, Fits
        <3>3. /\ UNCHANGED <<len, id, end, left, last, funcs, datacount, codeEnd, groups, total, locals>>
              /\ depth' \in Nat
            BY <1>12, <2>2 DEF Instruction, Goto, Reject, EndsAt, Used, section, counts
        <3>4. \/ pc' \in {"entry", "body"} /\ UNCHANGED reason
              \/ pc' = "rejected" /\ reason' = "code_size"
            BY <1>12, <2>2 DEF Instruction, Reject, Goto, EndsAt, Used
        <3> QED
            BY <1>12, <3>2, <3>3, <3>4 DEF Instruction, Reasons
    <2> QED
        BY <2>1, <2>2
<1>13. CASE SectionTail
    BY <1>13 DEF SectionTail, SizeMatches, Reject, Goto, position, section, counts, entry, noted, Reasons
<1>14. CASE Finish
    BY <1>14 DEF Finish, Reject, Goto, position, section, counts, entry, noted, Reasons
<1>15. CASE UNCHANGED vars
    BY <1>15 DEF vars, position, section, counts, entry, noted
<1> QED
    BY <1>1, <1>2, <1>3, <1>4, <1>5, <1>6, <1>7, <1>8, <1>9, <1>10, <1>11, <1>12, <1>13, <1>14, <1>15 DEF Next

\* Every position and end stays inside the file and every count natural,
\* whatever the file holds (module, code, take).
THEOREM TypeCorrect == Spec => []TypeOK
<1>1. NumbersInv => TypeOK
    BY DEF NumbersInv
<1> QED
    BY NumbersInit, NumbersStep, <1>1, PTL DEF Spec

\* The locals pushed never exceed MAX_LOCALS, for runs of any number and any
\* length (code: the total is tested before a run is pushed).
THEOREM LocalsAlwaysBounded == Spec => []LocalsBounded
<1>1. NumbersInv => LocalsBounded
    BY DEF NumbersInv, LocalsBounded
<1> QED
    BY NumbersInit, NumbersStep, <1>1, PTL DEF Spec

\* No step goes back.
LEMMA StepGrows == NumbersInv /\ [Next]_vars => pos' >= pos
<1> SUFFICES ASSUME NumbersInv, Next PROVE pos' >= pos
    BY DEF NumbersInv, TypeOK, vars, position
<1> USE SectionsAssumption DEF NumbersInv, TypeOK
<1>1. CASE SkipCustom
    BY <1>1 DEF SkipCustom, NameFits, Reject
<1>2. CASE ReadFails \/ SectionTail \/ Finish
    BY <1>2 DEF ReadFails, SectionTail, Finish, position
<1>3. CASE Preamble \/ Custom \/ Single \/ Groups
    BY <1>3 DEF Preamble, Custom, Single, Groups, U32, Fits
<1>4. CASE SectionHeader
    BY <1>4 DEF SectionHeader, U32, Fits, Reject, Goto
<1>5. CASE Count
    BY <1>5 DEF Count, U32, Fits
<1>6. CASE CodeSize
    BY <1>6 DEF CodeSize, U32, Fits
<1>7. CASE Entry
    BY <1>7 DEF Entry, U32, Tokens, Fits, Goto
<1>8. CASE Locals
    BY <1>8 DEF Locals, U32, Fits, Goto, Reject
<1>9. CASE Instruction
    BY <1>9 DEF Instruction, Tokens, Fits, Goto, Reject, EndsAt, Used
<1> QED
    BY <1>1, <1>2, <1>3, <1>4, <1>5, <1>6, <1>7, <1>8, <1>9 DEF Next

\* The decoder never goes back: a byte is read once, and a custom section
\* whose name ends beyond it is rejected rather than skipped backwards.
THEOREM NeverGoesBack == Spec => PositionsOnlyGrow
<1> QED
    BY NumbersInit, NumbersStep, StepGrows, PTL DEF Spec, PositionsOnlyGrow

-----------------------------------------------------------------------------
(* What the notes of sections and bodies hold.                             *)

Frame == [id : Nat, from : Nat, to : Nat, n : Nat, w : Nat]
Body  == [from : Nat, to : Nat, w : Nat, uses : BOOLEAN]

\* Inside a section, and inside a function body.
InSection == pc \in {"custom", "name", "start", "datacount", "count", "entry", "size",
                     "groups", "locals", "body", "tail"}
InBody    == pc \in {"groups", "locals", "body"}

\* Giving the last section its number changes nothing else.
LEMMA NumberedFrames ==
  ASSUME frames \in Seq(Frame), frames # <<>>, NEW n \in Nat
  PROVE  /\ Numbered(n) \in Seq(Frame)
         /\ Len(Numbered(n)) = Len(frames)
         /\ \A i \in 1 .. Len(frames) :
              /\ Numbered(n)[i].id = frames[i].id /\ Numbered(n)[i].w = frames[i].w
              /\ Numbered(n)[i].from = frames[i].from /\ Numbered(n)[i].to = frames[i].to
              /\ i # Len(frames) => Numbered(n)[i].n = frames[i].n
         /\ Numbered(n)[Len(frames)].n = n
<1> DEFINE l == Len(frames)
           f == [id |-> frames[l].id, from |-> frames[l].from, to |-> frames[l].to,
                 n |-> n, w |-> frames[l].w]
<1>1. l \in 1 .. Len(frames) /\ frames[l] \in Frame
    OBVIOUS
<1>2. [frames[l] EXCEPT !.n = n] = f /\ f \in Frame
    BY <1>1 DEF Frame
<1>3. Numbered(n) = [frames EXCEPT ![l] = f]
    BY <1>2, Zenon DEF Numbered
<1> QED
    BY <1>1, <1>2, <1>3

\* Noting a use in the last body changes no bound of any.
LEMMA NotedBodies ==
  ASSUME bodies \in Seq(Body), bodies # <<>>, NEW uses \in BOOLEAN
  PROVE  /\ Noted(uses) \in Seq(Body)
         /\ Len(Noted(uses)) = Len(bodies)
         /\ \A i \in 1 .. Len(bodies) :
              /\ Noted(uses)[i].from = bodies[i].from /\ Noted(uses)[i].to = bodies[i].to
              /\ i # Len(bodies) => Noted(uses)[i].uses = bodies[i].uses
         /\ Noted(uses)[Len(bodies)].uses = (bodies[Len(bodies)].uses \/ uses)
<1> DEFINE l == Len(bodies)
           u == bodies[l].uses \/ uses
           b == [from |-> bodies[l].from, to |-> bodies[l].to, w |-> bodies[l].w, uses |-> u]
<1>1. l \in 1 .. Len(bodies) /\ bodies[l] \in Body
    OBVIOUS
<1>2. u \in BOOLEAN
    BY Zenon
<1> HIDE DEF u
<1>3. [bodies[l] EXCEPT !.uses = u] = b /\ b \in Body
    <2> DEFINE x == bodies[l]
    <2>1. x \in Body
        BY <1>1
    <2> HIDE DEF x
    <2>2. x.from \in Nat /\ x.to \in Nat /\ x.w \in Nat
          /\ x = [from |-> x.from, to |-> x.to, w |-> x.w, uses |-> x.uses]
        BY <2>1 DEF Body
    <2>3. [x EXCEPT !.uses = u] = [from |-> x.from, to |-> x.to, w |-> x.w, uses |-> u]
        BY <2>2
    <2> QED
        BY <1>2, <2>2, <2>3 DEF Body, x
<1>4. Noted(uses) = [bodies EXCEPT ![l] = b]
    BY <1>3, Zenon DEF Noted, u
<1>5. b.uses = u /\ b.from = bodies[l].from /\ b.to = bodies[l].to
    OBVIOUS
<1> HIDE DEF b
<1>6. Noted(uses) \in Seq(Body) /\ Len(Noted(uses)) = l
    BY <1>1, <1>3, <1>4
<1>7. \A i \in 1 .. l : Noted(uses)[i] = IF i = l THEN b ELSE bodies[i]
    BY <1>1, <1>4
<1>8. Noted(uses)[l].uses = (bodies[l].uses \/ uses)
    BY <1>1, <1>5, <1>7 DEF u
<1> QED
    BY <1>1, <1>5, <1>6, <1>7, <1>8

-----------------------------------------------------------------------------
(* The data count flag.                                                    *)

UsesInv ==
  /\ bodies \in Seq(Body) /\ dcUsed \in BOOLEAN
  /\ InBody => bodies # <<>>
  /\ UsesAreShared

\* UsesInv holds at first ...
LEMMA UsesInit == Init => UsesInv
<1> SUFFICES ASSUME Init PROVE UsesInv
    OBVIOUS
<1>1. bodies = <<>> /\ dcUsed = FALSE /\ ~ InBody
    BY DEF Init, InBody
<1>2. bodies \in Seq(Body) /\ DOMAIN bodies = {}
    BY <1>1
<1> QED
    BY <1>1, <1>2, Zenon DEF UsesInv, UsesAreShared

\* All steps but two leave the flag and the bodies alone.
LEMMA QuietSteps ==
  ASSUME Next, ~ CodeSize, ~ Instruction
  PROVE  UNCHANGED <<dcUsed, bodies>> /\ (InBody' => InBody)
<1>1. CASE Preamble \/ ReadFails \/ SkipCustom \/ Custom
    BY <1>1 DEF Preamble, ReadFails, SkipCustom, Custom, Reject, Goto, InBody, noted
<1>2. CASE SectionHeader
    <2>1. UNCHANGED <<dcUsed, bodies>>
        BY <1>2, Zenon DEF SectionHeader, noted
    <2>2. pc' = "rejected" \/ \E i \in Ids : i <= 12 /\ pc' = Content(i)
        BY <1>2, SectionsAssumption DEF SectionHeader, Reject, Goto
    <2> QED
        BY <2>1, <2>2, ContentIsPhase, SectionsAssumption DEF InBody
<1>3. CASE Single \/ Entry \/ Groups
    BY <1>3 DEF Single, Entry, Groups, Goto, InBody, noted
<1>4. CASE Count
    BY <1>4 DEF Count, Reject, Goto, InBody
<1>5. CASE Locals
    BY <1>5 DEF Locals, Reject, Goto, InBody, noted
<1>6. CASE SectionTail \/ Finish
    BY <1>6 DEF SectionTail, Finish, Reject, Goto, InBody, noted
<1> QED
    BY <1>1, <1>2, <1>3, <1>4, <1>5, <1>6 DEF Next

\* ... and is inductive with NumbersInv.
LEMMA UsesStep == NumbersInv /\ UsesInv /\ [Next]_vars => UsesInv'
<1> SUFFICES ASSUME NumbersInv, UsesInv, [Next]_vars PROVE UsesInv'
    OBVIOUS
<1> USE SectionsAssumption
<1>1. CASE Next /\ ~ CodeSize /\ ~ Instruction
    BY <1>1, QuietSteps DEF UsesInv, UsesAreShared
<1>2. CASE UNCHANGED vars
    BY <1>2 DEF UsesInv, UsesAreShared, InBody, vars, noted
<1>3. CASE CodeSize
    <2>1. PICK w \in U32, s \in Sizes :
             /\ pos' = pos + w
             /\ \/ pc' = "rejected" /\ UNCHANGED bodies
                \/ bodies' = Append(bodies, [from |-> pos, to |-> pos' + s, w |-> w, uses |-> FALSE])
        BY <1>3 DEF CodeSize, Reject, Goto
    <2> DEFINE b == [from |-> pos, to |-> pos' + s, w |-> w, uses |-> FALSE]
    <2>2. b \in Body /\ b.uses = FALSE
        BY <2>1 DEF NumbersInv, TypeOK, U32, Fits, Body
    <2>3. UNCHANGED dcUsed
        BY <1>3 DEF CodeSize
    <2> HIDE DEF b
    <2>4. CASE pc' = "rejected" /\ UNCHANGED bodies
        BY <2>3, <2>4 DEF UsesInv, UsesAreShared, InBody
    <2>5. CASE bodies' = Append(bodies, b)
        <3>1. bodies' \in Seq(Body) /\ Len(bodies') = Len(bodies) + 1 /\ bodies' # <<>>
            BY <2>2, <2>5 DEF UsesInv
        <3>2. \A i \in 1 .. Len(bodies) + 1 :
                bodies'[i] = IF i = Len(bodies) + 1 THEN b ELSE bodies[i]
            BY <2>5 DEF UsesInv
        <3>3. (\E i \in 1 .. Len(bodies) + 1 : bodies'[i].uses)
                <=> (\E i \in 1 .. Len(bodies) : bodies[i].uses)
            BY <2>2, <3>2 DEF UsesInv
        <3>4. DOMAIN bodies = 1 .. Len(bodies) /\ DOMAIN bodies' = 1 .. Len(bodies) + 1
            BY <3>1 DEF UsesInv
        <3>5. UsesAreShared'
            BY <2>3, <3>3, <3>4, Zenon DEF UsesInv, UsesAreShared
        <3> QED
            BY <2>3, <3>1, <3>5 DEF UsesInv
    <2> QED
        BY <2>1, <2>4, <2>5 DEF b
<1>4. CASE Instruction
    <2>1. pc = "body" /\ bodies # <<>>
        BY <1>4 DEF Instruction, UsesInv, InBody
    <2>2. CASE UNCHANGED <<dcUsed, bodies>>
        BY <2>1, <2>2 DEF UsesInv, UsesAreShared
    <2>3. ASSUME NEW uses \in BOOLEAN, dcUsed' = Used(uses), bodies' = Noted(uses)
          PROVE  UsesInv'
        <3> DEFINE l == Len(bodies)
        <3>1. /\ bodies' \in Seq(Body) /\ Len(bodies') = l /\ bodies' # <<>> /\ l \in 1 .. l
              /\ \A i \in 1 .. l : i # l => bodies'[i].uses = bodies[i].uses
              /\ bodies'[l].uses = (bodies[l].uses \/ uses)
            BY <2>1, <2>3, NotedBodies DEF UsesInv
        <3> HIDE DEF l
        <3>2. (\E i \in 1 .. l : bodies'[i].uses) <=> ((\E i \in 1 .. l : bodies[i].uses) \/ uses)
            BY <3>1, Zenon
        <3>3. DOMAIN bodies = 1 .. l /\ DOMAIN bodies' = 1 .. l
            BY <3>1 DEF UsesInv, l
        <3>4. UsesAreShared'
            BY <2>3, <3>2, <3>3, Zenon DEF UsesInv, UsesAreShared, Used
        <3>5. dcUsed' \in BOOLEAN
            BY <2>3, Zenon DEF Used
        <3> QED
            BY <3>1, <3>4, <3>5 DEF UsesInv
    <2>4. \/ UNCHANGED <<dcUsed, bodies>>
          \/ \E uses \in BOOLEAN : dcUsed' = Used(uses) /\ bodies' = Noted(uses)
        BY <1>4, Zenon DEF Instruction
    <2> QED
        BY <2>2, <2>3, <2>4
<1> QED
    BY <1>1, <1>2, <1>3, <1>4

\* The flag the data count is tested against is set exactly when some body
\* met so far, not only the last, uses a segment (code takes it by reference).
THEOREM UsesAlwaysShared == Spec => []UsesAreShared
<1>1. UsesInv => UsesAreShared
    BY DEF UsesInv
<1> QED
    BY NumbersInit, NumbersStep, UsesInit, UsesStep, <1>1, PTL DEF Spec

-----------------------------------------------------------------------------
(* Sections lie end to end.                                                *)

\* Where the sections met end: the first begins after the preamble.
Reached == IF frames = <<>> THEN 8 ELSE frames[Len(frames)].to

Chained ==
  \A i \in 1 .. Len(frames) :
    /\ frames[i].from = IF i = 1 THEN 8 ELSE frames[i - 1].to
    /\ Start(frames[i]) <= frames[i].to

FramesInv ==
  /\ frames \in Seq(Frame) /\ Chained
  /\ pc = "magic" => pos = 0 /\ frames = <<>>
  /\ pc = "version" => pos = 4 /\ frames = <<>>
  /\ pc = "section" => pos = Reached
  /\ pc = "accepted" => pos = Reached /\ pos = len
  /\ InSection => frames # <<>> /\ end = Reached /\ frames[Len(frames)].id = id

\* FramesInv holds at first ...
LEMMA FramesInit == Init => FramesInv
  BY DEF Init, FramesInv, Chained, InSection

\* A step inside a section, or out of one into an error, keeps the frames.
LEMMA FramesKept ==
  ASSUME FramesInv, UNCHANGED <<frames, end, id>>,
         (InSection /\ InSection') \/ pc' = "rejected"
  PROVE  FramesInv'
<1>1. Chained' /\ Reached' = Reached
    BY DEF FramesInv, Chained, Reached
<1> QED
    BY <1>1 DEF FramesInv, InSection

\* So does one that numbers the last section.
LEMMA FramesNumbered ==
  ASSUME FramesInv, InSection, NEW n \in Nat, frames' = Numbered(n), UNCHANGED <<end, id>>,
         InSection' \/ pc' = "rejected"
  PROVE  FramesInv'
<1>1. /\ frames' \in Seq(Frame) /\ Len(frames') = Len(frames) /\ frames' # <<>> /\ frames # <<>>
      /\ \A i \in 1 .. Len(frames) :
           /\ frames'[i].id = frames[i].id /\ frames'[i].w = frames[i].w
           /\ frames'[i].from = frames[i].from /\ frames'[i].to = frames[i].to
    BY NumberedFrames DEF FramesInv
<1>2. Len(frames) \in 1 .. Len(frames)
    BY <1>1 DEF FramesInv
<1>3. Chained'
    <2> SUFFICES ASSUME NEW i \in 1 .. Len(frames)
                 PROVE  /\ frames'[i].from = IF i = 1 THEN 8 ELSE frames'[i - 1].to
                        /\ Start(frames'[i]) <= frames'[i].to
        BY <1>1 DEF Chained
    <2>1. i # 1 => i - 1 \in 1 .. Len(frames)
        BY <1>2
    <2> QED
        BY <1>1, <2>1 DEF FramesInv, Chained, Start
<1>4. Reached' = Reached
    BY <1>1, <1>2 DEF Reached
<1> QED
    BY <1>1, <1>2, <1>3, <1>4 DEF FramesInv, InSection

\* A new section begins where the last one ended.
LEMMA FramesGrow ==
  ASSUME NumbersInv, FramesInv, SectionHeader
  PROVE  FramesInv'
<1> USE SectionsAssumption
<1>1. PICK i \in Ids, s \in Sizes, w \in U32 :
        /\ pos' = pos + 1 + w
        /\ \/ pc' = "rejected" /\ UNCHANGED <<frames, section>>
           \/ /\ frames' = Append(frames, [id |-> i, from |-> pos, to |-> pos' + s, n |-> 0, w |-> w])
              /\ \/ pc' = "rejected"
                 \/ i <= 12 /\ pc' = Content(i) /\ id' = i /\ end' = pos' + s
    BY DEF SectionHeader, Reject, Goto, noted
<1> DEFINE f == [id |-> i, from |-> pos, to |-> pos' + s, n |-> 0, w |-> w]
<1>2. CASE pc' = "rejected" /\ UNCHANGED <<frames, section>>
    BY <1>2, FramesKept DEF section
<1>3. CASE frames' = Append(frames, f)
    <2>1. /\ f \in Frame /\ f.from = pos /\ f.to = pos' + s /\ f.id = i
          /\ Start(f) <= f.to
        BY <1>1 DEF NumbersInv, TypeOK, U32, Fits, Frame, Start
    <2>2. pos = Reached /\ pc = "section"
        BY DEF FramesInv, SectionHeader
    <2> HIDE DEF f
    <2>3. /\ frames' \in Seq(Frame) /\ Len(frames') = Len(frames) + 1 /\ frames' # <<>>
          /\ \A k \in 1 .. Len(frames) : frames'[k] = frames[k]
          /\ frames'[Len(frames) + 1] = f /\ Len(frames) \in Nat
        BY <1>3, <2>1 DEF FramesInv
    <2>4. Chained'
        <3> SUFFICES ASSUME NEW k \in 1 .. Len(frames) + 1
                     PROVE  /\ frames'[k].from = IF k = 1 THEN 8 ELSE frames'[k - 1].to
                            /\ Start(frames'[k]) <= frames'[k].to
            BY <2>3 DEF Chained
        <3>1. CASE k = Len(frames) + 1
            <4>1. frames = <<>> <=> Len(frames) = 0
                BY DEF FramesInv
            <4>2. k # 1 => k - 1 \in 1 .. Len(frames) /\ frames'[k - 1] = frames[Len(frames)]
                BY <2>3, <3>1
            <4> QED
                BY <2>1, <2>2, <2>3, <3>1, <4>1, <4>2 DEF Reached
        <3>2. CASE k \in 1 .. Len(frames)
            <4>1. k # 1 => k - 1 \in 1 .. Len(frames) /\ frames'[k - 1] = frames[k - 1]
                BY <2>3, <3>2
            <4> QED
                BY <2>3, <3>2, <4>1 DEF FramesInv, Chained
        <3> QED
            BY <2>3, <3>1, <3>2
    <2>5. Reached' = f.to
        BY <2>3 DEF Reached
    <2>6. CASE pc' = "rejected"
        BY <2>3, <2>4, <2>6 DEF FramesInv, InSection
    <2>7. CASE i <= 12 /\ pc' = Content(i) /\ id' = i /\ end' = pos' + s
        <3>1. pc' \in {"custom", "start", "datacount", "count"}
            BY <2>7, ContentIsPhase
        <3>2. frames'[Len(frames')].id = id' /\ end' = Reached'
            BY <2>1, <2>3, <2>5, <2>7
        <3> QED
            BY <2>3, <2>4, <3>1, <3>2 DEF FramesInv
    <2>8. pc' = "rejected" \/ (i <= 12 /\ pc' = Content(i) /\ id' = i /\ end' = pos' + s)
        BY <1>1
    <2> QED
        BY <2>6, <2>7, <2>8
<1> QED
    BY <1>1, <1>2, <1>3

\* ... and is inductive with NumbersInv.
LEMMA FramesStep == NumbersInv /\ FramesInv /\ [Next]_vars => FramesInv'
<1> SUFFICES ASSUME NumbersInv, FramesInv, [Next]_vars PROVE FramesInv'
    OBVIOUS
<1> USE SectionsAssumption
<1>1. CASE Preamble
    BY <1>1 DEF Preamble, Reject, Goto, FramesInv, Chained, Reached, InSection, noted, section
<1>2. CASE ReadFails \/ Custom \/ SkipCustom \/ Entry \/ Groups
    <2>1. UNCHANGED <<frames, end, id>> /\ ((InSection /\ InSection') \/ pc' = "rejected")
        BY <1>2 DEF ReadFails, Custom, SkipCustom, Entry, Groups, Reject, Goto, InSection,
                    noted, section
    <2> QED
        BY <2>1, FramesKept
<1>3. CASE CodeSize \/ Locals
    <2>1. UNCHANGED <<frames, end, id>> /\ ((InSection /\ InSection') \/ pc' = "rejected")
        BY <1>3 DEF CodeSize, Locals, Reject, Goto, InSection, noted, section
    <2> QED
        BY <2>1, FramesKept
<1>4. CASE Instruction
    <2>1. UNCHANGED <<frames, end, id>> /\ ((InSection /\ InSection') \/ pc' = "rejected")
        BY <1>4 DEF Instruction, Reject, Goto, EndsAt, Used, InSection, section
    <2> QED
        BY <2>1, FramesKept
<1>5. CASE SectionHeader
    BY <1>5, FramesGrow
<1>6. CASE Single
    <2>1. CASE UNCHANGED frames
        <3>1. UNCHANGED <<end, id>> /\ InSection /\ InSection'
            BY <1>6 DEF Single, Goto, InSection, section
        <3> QED
            BY <2>1, <3>1, FramesKept
    <2>2. CASE \E n \in Counts : frames' = Numbered(n)
        <3>1. UNCHANGED <<end, id>> /\ InSection /\ InSection'
            BY <1>6 DEF Single, Goto, InSection, section
        <3> QED
            BY <2>2, <3>1, FramesNumbered
    <2> QED
        BY <1>6, <2>1, <2>2 DEF Single, noted
<1>7. CASE Count
    <2>1. PICK n \in Counts : frames' = Numbered(n)
        BY <1>7 DEF Count
    <2>2. UNCHANGED <<end, id>> /\ InSection /\ (InSection' \/ pc' = "rejected")
        BY <1>7 DEF Count, Reject, Goto, InSection
    <2> QED
        BY <2>1, <2>2, FramesNumbered
<1>8. CASE SectionTail
    BY <1>8 DEF SectionTail, SizeMatches, Reject, Goto, FramesInv, Chained, Reached, InSection,
                position, section, noted
<1>9. CASE Finish
    BY <1>9 DEF Finish, Reject, Goto, FramesInv, Chained, Reached, InSection,
                position, section, noted
<1>10. CASE UNCHANGED vars
    BY <1>10 DEF vars, position, section, noted, FramesInv, Chained, Reached, InSection
<1> QED
    BY <1>1, <1>2, <1>3, <1>4, <1>5, <1>6, <1>7, <1>8, <1>9, <1>10 DEF Next

-----------------------------------------------------------------------------
(* Bodies lie end to end in the code section.                              *)

\* The code section being read: its bodies and what is left make its number.
InCode == InSection /\ id = 10
Coding ==
  LET f == frames[Len(frames)] IN
  /\ pc = "count" => bodies = <<>> /\ pos >= Start(f)
  /\ pc # "count" =>
       /\ f.n = Len(bodies) + left + (IF pc = "size" THEN 1 ELSE 0)
       /\ pos > Start(f)
       /\ bodies # <<>> => Start(f) < bodies[1].from
  /\ pc \in {"entry", "size", "tail"} /\ bodies # <<>> => pos = bodies[Len(bodies)].to
  /\ pc = "tail" => left = 0

\* The section the bodies are in, once it has been read.
Coded ==
  \E i \in 1 .. Len(frames) :
    /\ frames[i].id = 10 /\ frames[i].n = Len(bodies)
    /\ Start(frames[i]) < bodies[1].from
    /\ bodies[Len(bodies)].to = frames[i].to

BodiesInv ==
  /\ pc \in {"magic", "version"} => bodies = <<>>
  /\ pc \in {"size", "groups", "locals", "body"} => id = 10
  /\ pc \in {"custom", "name", "start", "datacount"} => id # 10
  /\ bodies # <<>> \/ InCode => last >= 11
  /\ \A i \in 2 .. Len(bodies) : bodies[i].from = bodies[i - 1].to
  /\ InBody => codeEnd = bodies[Len(bodies)].to
  /\ InCode => Coding
  /\ bodies # <<>> /\ (pc \in {"section", "accepted"} \/ (InSection /\ id # 10)) => Coded

\* BodiesInv holds at first.
LEMMA BodiesInit == Init => BodiesInv
  BY DEF Init, BodiesInv, InSection, InCode, InBody

\* Everything a step of the decoder may assume.
Inv == NumbersInv /\ UsesInv /\ FramesInv /\ BodiesInv

\* Steps that leave both notes alone, in a section that holds no code.
LEMMA BodiesKept ==
  ASSUME BodiesInv, UNCHANGED <<frames, bodies, last, id>>,
         \/ pc' = "rejected"
         \/ /\ InSection /\ InSection' /\ id # 10 /\ ~ InBody'
            /\ pc' \notin {"size", "groups", "locals", "body"}
  PROVE  BodiesInv'
  BY DEF BodiesInv, InCode, InSection, InBody, Coded, Coding

\* Code is read inside the code section.
LEMMA ContentOfCode ==
  ASSUME NEW i, i = 10, i # 0, i # 8, i # 12
  PROVE  Content(i) = "count"
<1>1. i \notin {0, 8, 12}
    OBVIOUS
<1> QED
    BY <1>1, Zenon DEF Content

\* A section header, and the bodies noted so far.
LEMMA BodiesOfHeader ==
  ASSUME Inv, SectionHeader
  PROVE  BodiesInv'
<1> USE SectionsAssumption
<1>1. PICK i \in Ids, s \in Sizes, w \in U32 :
        /\ pos' = pos + 1 + w
        /\ \/ pc' = "rejected" /\ UNCHANGED <<frames, last>>
           \/ /\ frames' = Append(frames, [id |-> i, from |-> pos, to |-> pos' + s, n |-> 0, w |-> w])
              /\ \/ pc' = "rejected" /\ UNCHANGED last
                 \/ /\ i <= 12 /\ pc' = Content(i) /\ id' = i
                    /\ i = 0 \/ Rank(i) > last
                    /\ last' = IF i = 0 THEN last ELSE Rank(i)
    BY DEF SectionHeader, Reject, Goto, noted, section, Inv, NumbersInv, Rank
<1>2. UNCHANGED bodies /\ pc = "section"
    BY Zenon DEF SectionHeader, noted
<1>3. CASE pc' = "rejected" /\ UNCHANGED last
    BY <1>2, <1>3 DEF Inv, BodiesInv, InCode, InSection, InBody
<1>4. CASE /\ frames' = Append(frames, [id |-> i, from |-> pos, to |-> pos' + s, n |-> 0, w |-> w])
           /\ i <= 12 /\ pc' = Content(i) /\ id' = i
           /\ i = 0 \/ Rank(i) > last
           /\ last' = IF i = 0 THEN last ELSE Rank(i)
    <2> DEFINE f == [id |-> i, from |-> pos, to |-> pos' + s, n |-> 0, w |-> w]
    <2>1. f \in Frame /\ Start(f) = pos'
        BY <1>1 DEF Inv, NumbersInv, TypeOK, U32, Fits, Frame, Start
    <2> HIDE DEF f
    <2>2. /\ Len(frames') = Len(frames) + 1 /\ Len(frames) \in Nat
          /\ \A k \in 1 .. Len(frames) : frames'[k] = frames[k]
          /\ frames'[Len(frames')] = f
        BY <1>4, <2>1 DEF Inv, FramesInv, f
    <2>3. pc' \in {"custom", "start", "datacount", "count"}
        BY <1>4, ContentIsPhase
    <2>4. pc' = "count" \/ id' # 10
        BY <1>4, ContentOfCode
    <2>5. bodies # <<>> => last >= 11 /\ Coded
        <3>1. BodiesInv /\ pc \in {"section", "accepted"}
            BY <1>2 DEF Inv
        <3> QED
            BY <3>1, Zenon DEF BodiesInv
    <2>6. bodies # <<>> => Coded'
        BY <1>2, <2>2, <2>5 DEF Coded
    <2>7. last' >= last /\ last \in Nat /\ last' \in Nat /\ (id' = 10 => last' = 11 /\ last < 11)
        BY <1>4 DEF Inv, NumbersInv, Rank
    <2>8. id' = 10 => bodies' = <<>>
        BY <1>2, <2>5, <2>7
    <2>9. InCode' => Coding'
        <3> SUFFICES ASSUME InCode' PROVE Coding'
            OBVIOUS
        <3>1. pc' = "count" /\ bodies' = <<>>
            BY <2>4, <2>8 DEF InCode
        <3>2. frames'[Len(frames')] = f /\ pos' >= Start(f)
            BY <1>1, <2>1, <2>2 DEF Inv, NumbersInv, TypeOK, U32, Fits
        <3> QED
            BY <3>1, <3>2 DEF Coding
    <2> QED
        <3>1. bodies' # <<>> \/ InCode' => last' >= 11
            BY <1>2, <2>5, <2>7 DEF InCode
        <3>2. \A k \in 2 .. Len(bodies') : bodies'[k].from = bodies'[k - 1].to
            BY <1>2 DEF Inv, BodiesInv
        <3>3. bodies' # <<>> => Coded'
            BY <1>2, <2>6
        <3> QED
            BY <2>3, <2>4, <2>9, <3>1, <3>2, <3>3 DEF BodiesInv, InBody
<1> QED
    BY <1>1, <1>3, <1>4, <1>2 DEF SectionHeader

\* A number of the code section, and the bodies noted so far.
LEMMA BodiesOfNumber ==
  ASSUME Inv, Single \/ Count
  PROVE  BodiesInv'
<1> USE SectionsAssumption
<1>1. CASE Single /\ UNCHANGED frames
    <2>1. /\ UNCHANGED <<bodies, last, id>>
          /\ pc \in {"start", "datacount"} /\ pc' = "tail"
        BY <1>1 DEF Single, Goto, noted, section
    <2> QED
        BY <1>1, <2>1, BodiesKept DEF Inv, BodiesInv, InSection, InBody
<1>2. ASSUME NEW n \in Counts, frames' = Numbered(n), InSection, pc \notin {"size", "groups", "locals", "body", "custom", "name"},
             UNCHANGED <<bodies, last, id>>,
             \/ pc' = "rejected"
             \/ id # 10 /\ pc' \in {"tail", "entry"}
             \/ id = 10 /\ pc = "count" /\ pc' = "entry" /\ left' = n
                /\ \E w \in U32 : pos' = pos + w
      PROVE  BodiesInv'
    <2>1. /\ Len(frames') = Len(frames) /\ Len(frames) \in 1 .. Len(frames)
          /\ frames[Len(frames)].id = id
          /\ \A i \in 1 .. Len(frames) :
               /\ frames'[i].id = frames[i].id /\ Start(frames'[i]) = Start(frames[i])
               /\ frames'[i].to = frames[i].to
               /\ i # Len(frames) => frames'[i].n = frames[i].n
          /\ frames'[Len(frames)].n = n
        <3>1. frames # <<>> /\ frames \in Seq(Frame) /\ frames[Len(frames)].id = id
            BY <1>2 DEF Inv, FramesInv
        <3>2. /\ Len(frames') = Len(frames)
              /\ \A i \in 1 .. Len(frames) :
                   /\ frames'[i].id = frames[i].id /\ frames'[i].w = frames[i].w
                   /\ frames'[i].from = frames[i].from /\ frames'[i].to = frames[i].to
                   /\ i # Len(frames) => frames'[i].n = frames[i].n
              /\ frames'[Len(frames)].n = n
            BY <1>2, <3>1, NumberedFrames
        <3>3. \A i \in 1 .. Len(frames) : Start(frames'[i]) = Start(frames[i])
            BY <3>2 DEF Start
        <3>4. Len(frames) \in 1 .. Len(frames)
            BY <3>1
        <3> QED
            BY <3>1, <3>2, <3>3, <3>4
    <2>2. CASE pc' = "rejected"
        BY <1>2, <2>2 DEF Inv, BodiesInv, InCode, InSection, InBody
    <2>3. CASE id # 10 /\ pc' \in {"tail", "entry"}
        <3>1. bodies # <<>> => Coded'
            BY <1>2, <2>1, <2>3 DEF Inv, BodiesInv, Coded
        <3> QED
            BY <1>2, <2>3, <3>1 DEF Inv, BodiesInv, InCode, InSection, InBody
    <2>4. CASE id = 10 /\ pc = "count" /\ pc' = "entry" /\ left' = n
               /\ \E w \in U32 : pos' = pos + w
        <3>1. bodies = <<>> /\ pos >= Start(frames[Len(frames)]) /\ last >= 11
            BY <1>2, <2>4 DEF Inv, BodiesInv, InCode, Coding
        <3>2. pos' > pos /\ pos \in Nat /\ pos' \in Nat
            BY <2>4 DEF Inv, NumbersInv, TypeOK, U32, Fits
        <3>3. Start(frames[Len(frames)]) \in Nat
            <4>1. frames[Len(frames)] \in Frame
                BY <2>1 DEF Inv, FramesInv
            <4> QED
                BY <4>1 DEF Frame, Start
        <3>4. Coding'
            BY <1>2, <2>1, <2>4, <3>1, <3>2, <3>3 DEF Coding
        <3> QED
            BY <1>2, <2>4, <3>1, <3>4 DEF BodiesInv, InCode, InSection, InBody
    <2> QED
        BY <1>2, <2>2, <2>3, <2>4
<1>3. CASE Single /\ ~ UNCHANGED frames
    <2>1. PICK n \in Counts : frames' = Numbered(n)
        BY <1>3, Zenon DEF Single, noted
    <2>2. /\ UNCHANGED <<bodies, last, id>>
          /\ pc \in {"start", "datacount"} /\ pc' = "tail"
        BY <1>3 DEF Single, Goto, noted, section
    <2>3. id # 10 /\ InSection
        BY <2>2 DEF Inv, BodiesInv, InSection
    <2> QED
        BY <1>2, <2>1, <2>2, <2>3
<1>4. CASE Count
    <2>1. PICK n \in Counts, w \in U32 :
            /\ frames' = Numbered(n) /\ left' = n /\ pos' = pos + w
            /\ pc' \in {"rejected", "entry"}
        BY <1>4 DEF Count, Reject, Goto
    <2>2. UNCHANGED <<bodies, last, id>> /\ pc = "count" /\ InSection
        BY <1>4 DEF Count, InSection
    <2> QED
        BY <1>2, <2>1, <2>2
<1> QED
    BY <1>1, <1>3, <1>4

\* Steps inside the code section that append no body: what Coding says after.
LEMMA BodiesOfCode ==
  ASSUME Inv, InCode, pc # "count", UNCHANGED <<last, id, frames>>,
         Len(bodies') = Len(bodies), bodies' \in Seq(Body),
         \A i \in 1 .. Len(bodies) : bodies'[i].from = bodies[i].from /\ bodies'[i].to = bodies[i].to,
         pos' \in Nat, pos' >= pos,
         \/ pc' = "rejected"
         \/ /\ pc' = "tail" /\ pc = "entry" /\ left = 0 /\ UNCHANGED <<pos, left>>
         \/ /\ pc' = "size" /\ pc = "entry" /\ left' = left - 1 /\ UNCHANGED pos
         \/ /\ pc' \in {"groups", "locals", "body"} /\ InBody /\ UNCHANGED <<left, codeEnd>>
         \/ /\ pc' = "entry" /\ InBody /\ UNCHANGED left /\ pos' = codeEnd
  PROVE  BodiesInv'
<1>1. bodies \in Seq(Body) /\ (bodies = <<>> <=> bodies' = <<>>) /\ (InBody => bodies # <<>>)
    BY DEF Inv, UsesInv
<1>2. /\ \A i \in 2 .. Len(bodies) : bodies'[i].from = bodies'[i - 1].to
      /\ bodies # <<>> => bodies'[1].from = bodies[1].from
                          /\ bodies'[Len(bodies)].to = bodies[Len(bodies)].to
    <2>1. \A i \in 2 .. Len(bodies) : i \in 1 .. Len(bodies) /\ i - 1 \in 1 .. Len(bodies)
        BY <1>1
    <2>2. bodies # <<>> => 1 \in 1 .. Len(bodies) /\ Len(bodies) \in 1 .. Len(bodies)
        BY <1>1
    <2>3. \A i \in 2 .. Len(bodies) : bodies[i].from = bodies[i - 1].to
        BY DEF Inv, BodiesInv
    <2> QED
        BY <2>1, <2>2, <2>3
<1>3. id = 10 /\ last >= 11 /\ Coding
    BY DEF Inv, BodiesInv, InCode
<1>4. pos \in Nat /\ left \in Nat /\ Len(bodies) \in Nat /\ frames[Len(frames)] \in Frame
    BY <1>1 DEF Inv, NumbersInv, TypeOK, FramesInv, InCode
<1>5. frames[Len(frames)].n \in Nat /\ Start(frames[Len(frames)]) \in Nat
    BY <1>4 DEF Frame, Start
<1>6. pc' # "rejected" => Coding'
    <2> DEFINE f == frames[Len(frames)]
    <2>1. /\ f.n = Len(bodies) + left + (IF pc = "size" THEN 1 ELSE 0)
          /\ pos > Start(f)
          /\ bodies # <<>> => Start(f) < bodies[1].from
          /\ pc \in {"entry", "size", "tail"} /\ bodies # <<>> => pos = bodies[Len(bodies)].to
        BY <1>3 DEF Coding
    <2>2. InBody => codeEnd = bodies[Len(bodies)].to
        BY DEF Inv, BodiesInv
    <2>3. f' = f /\ pos' > Start(f)
        BY <1>4, <1>5, <2>1
    <2> HIDE DEF f
    <2>4. pc' # "rejected" => f.n = Len(bodies') + left' + (IF pc' = "size" THEN 1 ELSE 0)
        BY <1>4, <2>1 DEF InBody
    <2>5. pc' \in {"entry", "size", "tail"} /\ bodies' # <<>> => pos' = bodies'[Len(bodies')].to
        BY <1>1, <1>2, <2>1, <2>2 DEF InBody
    <2>6. bodies' # <<>> => Start(f) < bodies'[1].from
        BY <1>1, <1>2, <2>1
    <2>7. pc' = "tail" => left' = 0
        OBVIOUS
    <2>8. pc' # "rejected" => pc' # "count"
        OBVIOUS
    <2> QED
        BY <2>3, <2>4, <2>5, <2>6, <2>7, <2>8 DEF Coding, f
<1>7. InBody' => codeEnd' = bodies'[Len(bodies')].to
    BY <1>1, <1>2 DEF InBody, Inv, BodiesInv
<1> QED
    BY <1>1, <1>2, <1>3, <1>6, <1>7 DEF BodiesInv, InCode, InSection

\* The size of a body begins it.
LEMMA BodiesOfSize ==
  ASSUME Inv, CodeSize
  PROVE  BodiesInv'
<1> USE SectionsAssumption
<1>1. PICK w \in U32, s \in Sizes :
        /\ pos' = pos + w
        /\ \/ pc' = "rejected" /\ UNCHANGED bodies
           \/ /\ codeEnd' = pos' + s /\ pc' = "groups"
              /\ bodies' = Append(bodies, [from |-> pos, to |-> pos' + s, w |-> w, uses |-> FALSE])
    BY DEF CodeSize, Reject, Goto
<1>2. UNCHANGED <<frames, last, id, left>> /\ pc = "size"
    BY DEF CodeSize, section
<1>3. /\ InCode /\ Coding /\ last >= 11 /\ id = 10
      /\ \A i \in 2 .. Len(bodies) : bodies[i].from = bodies[i - 1].to
    BY <1>2 DEF Inv, BodiesInv, InCode, InSection
<1>4. CASE pc' = "rejected" /\ UNCHANGED bodies
    BY <1>2, <1>3, <1>4 DEF BodiesInv, InCode, InSection, InBody
<1>5. CASE /\ codeEnd' = pos' + s /\ pc' = "groups"
           /\ bodies' = Append(bodies, [from |-> pos, to |-> pos' + s, w |-> w, uses |-> FALSE])
    <2> DEFINE b == [from |-> pos, to |-> pos' + s, w |-> w, uses |-> FALSE]
               f == frames[Len(frames)]
    <2>1. b \in Body /\ b.from = pos /\ b.to = codeEnd' /\ pos \in Nat /\ pos' > pos /\ pos' \in Nat
        BY <1>1, <1>5 DEF Inv, NumbersInv, TypeOK, U32, Fits, Body
    <2> HIDE DEF b
    <2>2. bodies \in Seq(Body) /\ f \in Frame /\ left \in Nat
        BY <1>3 DEF Inv, UsesInv, FramesInv, InCode, NumbersInv, TypeOK
    <2>3. /\ bodies' # <<>> /\ Len(bodies') = Len(bodies) + 1 /\ Len(bodies) \in Nat
          /\ \A i \in 1 .. Len(bodies) : bodies'[i] = bodies[i]
          /\ bodies'[Len(bodies) + 1] = b
          /\ bodies # <<>> <=> Len(bodies) > 0
        BY <1>5, <2>1, <2>2 DEF b
    <2>4. /\ f.n = Len(bodies) + left + 1 /\ pos > Start(f)
          /\ bodies # <<>> => Start(f) < bodies[1].from /\ pos = bodies[Len(bodies)].to
        BY <1>2, <1>3 DEF Coding
    <2>5. f.n \in Nat /\ Start(f) \in Nat
        BY <2>2 DEF Frame, Start
    <2>6. f' = f
        BY <1>2
    <2> HIDE DEF f
    <2>7. \A i \in 2 .. Len(bodies') : bodies'[i].from = bodies'[i - 1].to
        <3> SUFFICES ASSUME NEW i \in 2 .. Len(bodies) + 1
                     PROVE  bodies'[i].from = bodies'[i - 1].to
            BY <2>3
        <3>1. i - 1 \in 1 .. Len(bodies)
            BY <2>3
        <3>2. CASE i = Len(bodies) + 1
            BY <2>1, <2>3, <2>4, <3>1, <3>2
        <3>3. CASE i \in 2 .. Len(bodies)
            BY <1>3, <2>3, <3>1, <3>3
        <3> QED
            BY <2>3, <3>2, <3>3
    <2>8. Start(f) < bodies'[1].from
        <3>1. CASE Len(bodies) = 0
            BY <2>1, <2>3, <2>4, <3>1
        <3>2. CASE Len(bodies) > 0
            BY <2>3, <2>4, <3>2
        <3> QED
            BY <2>3, <3>1, <3>2
    <2>9. Coding'
        <3>1. /\ f.n = Len(bodies') + left' /\ pos' > Start(f) /\ Start(f) < bodies'[1].from
              /\ pc' \notin {"count", "size", "entry", "tail"}
            BY <1>2, <1>5, <2>1, <2>2, <2>3, <2>4, <2>5, <2>8
        <3>2. f.n = Len(bodies') + left' + 0
            BY <2>2, <2>3, <1>2, <3>1
        <3> QED
            BY <2>6, <3>1, <3>2 DEF Coding, f
    <2> QED
        BY <1>2, <1>3, <1>5, <2>1, <2>3, <2>7, <2>9 DEF BodiesInv, InCode, InSection, InBody
<1> QED
    BY <1>1, <1>4, <1>5

\* BodiesInv is inductive with the rest of Inv.
LEMMA BodiesStep == Inv /\ [Next]_vars => BodiesInv'
<1> SUFFICES ASSUME Inv, [Next]_vars PROVE BodiesInv'
    OBVIOUS
<1> USE SectionsAssumption
<1>1. CASE Preamble
    <2>1. /\ bodies = <<>> /\ UNCHANGED <<bodies, frames, last, id>>
          /\ pc' \in {"rejected", "version", "section"}
        BY <1>1 DEF Preamble, Reject, Goto, noted, section, Inv, BodiesInv
    <2> QED
        BY <2>1 DEF BodiesInv, InCode, InSection, InBody
<1>2. CASE ReadFails
    <2>1. pc' = "rejected" /\ UNCHANGED <<frames, bodies, last, id>>
        BY <1>2 DEF ReadFails, Reject, noted, section
    <2> QED
        BY <2>1, BodiesKept DEF Inv
<1>3. CASE Custom \/ SkipCustom
    <2>1. UNCHANGED <<frames, bodies, last, id>> /\ pc \in {"custom", "name"}
          /\ pc' \in {"rejected", "name", "tail"}
        BY <1>3 DEF Custom, SkipCustom, Reject, Goto, noted, section
    <2>2. id # 10
        BY <2>1 DEF Inv, BodiesInv
    <2> QED
        BY <2>1, <2>2, BodiesKept DEF Inv, InSection, InBody
<1>4. CASE SectionHeader
    BY <1>4, BodiesOfHeader
<1>5. CASE Single \/ Count
    BY <1>5, BodiesOfNumber
<1>6. CASE CodeSize
    BY <1>6, BodiesOfSize
<1>7. CASE Entry
    <2>1. UNCHANGED <<frames, bodies, last, id>> /\ pc = "entry" /\ InSection
        BY <1>7 DEF Entry, noted, InSection
    <2>2. CASE id # 10
        <3>1. pc' \in {"tail", "entry"}
            BY <1>7, <2>2 DEF Entry, Goto
        <3> QED
            BY <2>1, <2>2, <3>1, BodiesKept DEF Inv, InSection, InBody
    <2>3. CASE id = 10
        <3>1. \/ pc' = "tail" /\ left = 0 /\ UNCHANGED <<pos, left>>
              \/ pc' = "size" /\ left' = left - 1 /\ UNCHANGED pos
            BY <1>7, <2>3 DEF Entry, Goto
        <3>2. pos \in Nat /\ bodies \in Seq(Body)
            BY DEF Inv, NumbersInv, TypeOK, UsesInv
        <3> QED
            BY <2>1, <2>3, <3>1, <3>2, BodiesOfCode DEF InCode
    <2> QED
        BY <2>2, <2>3
<1>8. CASE Groups \/ Locals
    <2>1. /\ UNCHANGED <<frames, bodies, last, id, left, codeEnd>> /\ InBody /\ InSection
          /\ pc' \in {"locals", "body", "rejected"}
        BY <1>8 DEF Groups, Locals, Reject, Goto, noted, section, InBody, InSection
    <2>2. id = 10 /\ pc # "count"
        BY <2>1 DEF Inv, BodiesInv, InBody
    <2>3. pos \in Nat /\ pos' \in Nat /\ pos' >= pos /\ bodies \in Seq(Body)
        BY NumbersStep, StepGrows DEF Inv, NumbersInv, TypeOK, UsesInv
    <2> QED
        BY <2>1, <2>2, <2>3, BodiesOfCode DEF InCode
<1>9. CASE Instruction
    <2>1. UNCHANGED <<frames, last, id, left, codeEnd>> /\ pc = "body"
        BY <1>9 DEF Instruction, section
    <2>2. \/ pc' \in {"rejected", "body"}
          \/ pc' = "entry" /\ pos' = codeEnd
        BY <1>9 DEF Instruction, Reject, Goto, EndsAt, Used
    <2>3. UNCHANGED bodies \/ \E uses \in BOOLEAN : bodies' = Noted(uses)
        BY <1>9, Zenon DEF Instruction
    <2>4. id = 10 /\ InSection /\ InBody /\ bodies # <<>>
        BY <2>1 DEF Inv, BodiesInv, UsesInv, InSection, InBody
    <2>5. /\ Len(bodies') = Len(bodies) /\ bodies' \in Seq(Body)
          /\ \A i \in 1 .. Len(bodies) : bodies'[i].from = bodies[i].from /\ bodies'[i].to = bodies[i].to
        BY <2>3, <2>4, NotedBodies DEF Inv, UsesInv
    <2>6. pos \in Nat /\ pos' \in Nat /\ pos' >= pos
        BY NumbersStep, StepGrows DEF Inv, NumbersInv, TypeOK
    <2> QED
        BY <2>1, <2>2, <2>4, <2>5, <2>6, BodiesOfCode DEF InCode
<1>10. CASE SectionTail
    <2>1. /\ UNCHANGED <<frames, bodies, last, id>> /\ pc = "tail" /\ InSection
          /\ pc' = "rejected" \/ (pc' = "section" /\ pos = end)
        BY <1>10 DEF SectionTail, SizeMatches, Reject, Goto, noted, section, InSection
    <2>2. CASE pc' = "rejected"
        BY <2>1, <2>2, BodiesKept DEF Inv
    <2>3. CASE pc' = "section" /\ pos = end
        <3>1. CASE id = 10
            <4> DEFINE f == frames[Len(frames)]
            <4>1. /\ f.n = Len(bodies) + left + 0 /\ left = 0
                  /\ bodies # <<>> => Start(f) < bodies[1].from /\ pos = bodies[Len(bodies)].to
                BY <2>1, <3>1 DEF Inv, BodiesInv, InCode, Coding
            <4>2. f.id = 10 /\ f.to = end /\ Len(frames) \in 1 .. Len(frames) /\ bodies \in Seq(Body)
                BY <2>1, <3>1 DEF Inv, FramesInv, Reached, UsesInv
            <4>3. f.n = Len(bodies)
                BY <4>1, <4>2
            <4>4. bodies # <<>> => Coded
                BY <2>3, <4>1, <4>2, <4>3 DEF Coded
            <4>5. last >= 11
                BY <2>1, <3>1 DEF Inv, BodiesInv, InCode
            <4> QED
                BY <2>1, <2>3, <4>4, <4>5 DEF Inv, BodiesInv, InCode, InSection, InBody, Coded
        <3>2. CASE id # 10
            BY <2>1, <2>3, <3>2 DEF Inv, BodiesInv, InCode, InSection, InBody, Coded
        <3> QED
            BY <3>1, <3>2
    <2> QED
        BY <2>1, <2>2, <2>3
<1>11. CASE Finish
    <2>1. UNCHANGED <<frames, bodies, last, id>> /\ pc = "section" /\ pc' \in {"rejected", "accepted"}
        BY <1>11 DEF Finish, Reject, Goto, noted, section
    <2> QED
        BY <2>1 DEF Inv, BodiesInv, InCode, InSection, InBody, Coded
<1>12. CASE UNCHANGED vars
    BY <1>12 DEF vars, position, section, entry, noted, Inv, BodiesInv, InCode, InSection, InBody,
                 Coding, Coded
<1> QED
    BY <1>1, <1>2, <1>3, <1>4, <1>5, <1>6, <1>7, <1>8, <1>9, <1>10, <1>11, <1>12 DEF Next

-----------------------------------------------------------------------------

\* The four invariants hold at first ...
LEMMA InvInit == Init => Inv
  BY NumbersInit, UsesInit, FramesInit, BodiesInit DEF Inv

\* ... and are inductive together.
LEMMA InvStep == Inv /\ [Next]_vars => Inv'
  BY NumbersStep, UsesStep, FramesStep, BodiesStep DEF Inv

\* An accepted file of any length is its preamble and its sections end to
\* end, and its bodies fill the end of the code section (module, code).
THEOREM FramesAlwaysTile == Spec => []FramesTile
<1>1. Inv => FramesTile
    <2> SUFFICES ASSUME Inv, pc = "accepted" PROVE FramesTile
        BY DEF FramesTile
    <2>1. frames \in Seq(Frame) /\ Chained /\ pos = Reached /\ pos = len
        BY DEF Inv, FramesInv
    <2>2. bodies # <<>> => Coded
        BY DEF Inv, BodiesInv
    <2> QED
        BY <2>1, <2>2 DEF FramesTile, Chained, Reached, Coded
<1> QED
    BY InvInit, InvStep, <1>1, PTL DEF Spec

\* The function bodies of an accepted file follow one another without a gap,
\* however many there are (code: the position is where the entry ends).
THEOREM BodiesAlwaysTile == Spec => []BodiesTile
<1>1. Inv => BodiesTile
    <2> SUFFICES ASSUME Inv, NEW i \in DOMAIN bodies, i > 1
                 PROVE  bodies[i].from = bodies[i - 1].to
        BY DEF BodiesTile
    <2>1. i \in 2 .. Len(bodies)
        BY DEF Inv, UsesInv
    <2> QED
        BY <2>1 DEF Inv, BodiesInv
<1> QED
    BY InvInit, InvStep, <1>1, PTL DEF Spec

\* An accepted file is exhausted by its sections and its bodies, whatever its
\* length (module, code).
THEOREM FilesAlwaysTile == Spec => []FilesTile
  BY FramesAlwaysTile, BodiesAlwaysTile, PTL DEF FilesTile

-----------------------------------------------------------------------------
(* Which structures are accepted.                                          *)

\* The sections of fs that are not custom ones come in the order of their
\* ranks.
Ranked(fs) ==
  \A f, g \in 1 .. Len(fs) : f < g /\ fs[f].id # 0 /\ fs[g].id # 0 => Rank(fs[f].id) < Rank(fs[g].id)

\* The ids that module() accepts.
Known(fs) == \A f \in 1 .. Len(fs) : fs[f].id <= 12

\* The sections with the id i, and NumOf, of any list of sections.
Among(fs, i) == {f \in DOMAIN fs : fs[f].id = i}
NumIn(fs, i) == IF Among(fs, i) = {} THEN 0 ELSE fs[CHOOSE f \in Among(fs, i) : TRUE].n

\* A rank is a position in Order.
LEMMA RankIsPlace ==
  /\ DOMAIN Order = 1 .. 12
  /\ \A p \in 1 .. 12 : Order[p] \in 1 .. 12 /\ Rank(Order[p]) = p
  /\ \A i \in 1 .. 12 : Rank(i) \in 1 .. 12 /\ Order[Rank(i)] = i
<1>1. \A i \in 1 .. 12 : i \in {1, 2, 3, 4, 5, 6, 7, 8, 9, 10, 11, 12}
    OBVIOUS
<1>2. ASSUME NEW p \in 1 .. 12
      PROVE  Order[p] \in 1 .. 12 /\ Rank(Order[p]) = p
    BY <1>1 DEF Order, Rank
<1>3. ASSUME NEW i \in 1 .. 12
      PROVE  Rank(i) \in 1 .. 12 /\ Order[Rank(i)] = i
    BY <1>1 DEF Order, Rank
<1>4. DOMAIN Order = 1 .. 12
    BY DEF Order
<1> QED
    BY <1>2, <1>3, <1>4

\* Ids and numbers of sections are naturals.
LEMMA IdsAreNumbers ==
  ASSUME NEW fs \in Seq(Frame)
  PROVE  \A f \in 1 .. Len(fs) : fs[f].id \in Nat /\ fs[f].n \in Nat
<1> SUFFICES ASSUME NEW f \in 1 .. Len(fs) PROVE fs[f].id \in Nat /\ fs[f].n \in Nat
    OBVIOUS
<1>1. fs[f] \in Frame
    OBVIOUS
<1> DEFINE x == fs[f]
<1>2. x \in Frame
    BY <1>1
<1> HIDE DEF x
<1>3. x.id \in Nat /\ x.n \in Nat
    BY <1>2 DEF Frame
<1> QED
    BY <1>3 DEF x

\* The grammar's order is the order of ranks.
LEMMA OrderIsRanks ==
  ASSUME frames \in Seq(Frame), Known(frames)
  PROVE  InOrder <=> Ranked(frames)
<1>1. DOMAIN frames = 1 .. Len(frames)
    OBVIOUS
<1>2. \A f \in 1 .. Len(frames) : frames[f].id # 0 => frames[f].id \in 1 .. 12
    BY IdsAreNumbers DEF Known
<1>3. ASSUME NEW a \in 1 .. 12, NEW b \in 1 .. 12
      PROVE  (\E p, q \in DOMAIN Order : p < q /\ Order[p] = a /\ Order[q] = b) <=> Rank(a) < Rank(b)
    BY RankIsPlace
<1> QED
    BY <1>1, <1>2, <1>3 DEF InOrder, Ranked

\* In their order no two sections have one id.
LEMMA OneOfEach ==
  ASSUME NEW fs \in Seq(Frame), Ranked(fs), NEW f \in 1 .. Len(fs), NEW g \in 1 .. Len(fs),
         fs[f].id = fs[g].id, fs[f].id # 0
  PROVE  f = g
<1>1. fs[f].id \in Nat /\ Rank(fs[f].id) \in Nat
    BY IdsAreNumbers DEF Rank
<1>2. ~ (f < g) /\ ~ (g < f)
    BY <1>1 DEF Ranked
<1> QED
    BY <1>2

\* The number of a section is the number of the one that has its id.
LEMMA NumIs ==
  ASSUME NEW fs \in Seq(Frame), Ranked(fs), NEW f \in 1 .. Len(fs), fs[f].id # 0
  PROVE  NumIn(fs, fs[f].id) = fs[f].n
<1> DEFINE W == Among(fs, fs[f].id)
           c == CHOOSE g \in W : TRUE
<1>1. f \in W
    BY DEF Among
<1> HIDE DEF W
<1>2. c \in W
    BY <1>1, Zenon
<1>3. W # {}
    BY <1>1
<1> HIDE DEF c
<1>4. c \in 1 .. Len(fs) /\ fs[c].id = fs[f].id
    BY <1>2 DEF W, Among
<1>5. c = f
    BY <1>4, OneOfEach
<1>6. NumIn(fs, fs[f].id) = fs[c].n
    BY <1>3, Zenon DEF NumIn, W, c
<1> QED
    BY <1>5, <1>6

\* And zero if there is none.
LEMMA NumOfNone ==
  ASSUME NEW fs \in Seq(Frame), NEW i, \A f \in 1 .. Len(fs) : fs[f].id # i
  PROVE  NumIn(fs, i) = 0 /\ Among(fs, i) = {}
<1>1. Among(fs, i) = {}
    BY DEF Among
<1> QED
    BY <1>1 DEF NumIn

\* What the decoder remembers of the order.
OrderInv ==
  /\ Known(frames)
  /\ reason # "order" =>
       /\ Ranked(frames)
       /\ \A f \in 1 .. Len(frames) : frames[f].id # 0 => Rank(frames[f].id) <= last
       /\ last # 0 => \E f \in 1 .. Len(frames) : frames[f].id # 0 /\ Rank(frames[f].id) = last
  /\ reason = "order" => ~ Ranked(frames)

\* Which sections the phases belong to.
PhaseInv ==
  /\ pc \in {"custom", "name"} => id = 0
  /\ pc = "start" => id = 8
  /\ pc = "datacount" => id = 12
  /\ pc \in {"count", "entry"} => id \notin {0, 8, 12}
  /\ pc = "count" => frames[Len(frames)].n = 0
  /\ pc \in {"size", "groups", "locals", "body"} => id = 10

\* What it remembers of the numbers: of the functions, the code, the data
\* count and the data.
FuncsMet ==
  /\ \A f \in 1 .. Len(frames) : frames[f].id = 3 =>
       frames[f].n = funcs + (IF pc = "entry" /\ id = 3 THEN left ELSE 0)
  /\ (\A f \in 1 .. Len(frames) : frames[f].id # 3) => funcs = 0

CodeMet ==
  /\ sawCode => \E f \in 1 .. Len(frames) : frames[f].id = 10
  /\ \A f \in 1 .. Len(frames) : frames[f].id = 10 =>
       \/ sawCode /\ frames[f].n = funcs
       \/ pc = "count" /\ id = 10

DataCountMet ==
  /\ datacount # None => \E f \in 1 .. Len(frames) : frames[f].id = 12
  /\ \A f \in 1 .. Len(frames) : frames[f].id = 12 => frames[f].n = datacount \/ pc = "datacount"

DataMet ==
  /\ sawData => \E f \in 1 .. Len(frames) : frames[f].id = 11
  /\ \A f \in 1 .. Len(frames) : frames[f].id = 11 =>
       \/ sawData /\ (datacount # None => frames[f].n = datacount)
       \/ pc = "count" /\ id = 11

CountsInv == pc # "rejected" => FuncsMet /\ CodeMet /\ DataCountMet /\ DataMet

\* What StructureDecides says of the end.
Decided ==
  /\ pc = "accepted" => WellFormed
  /\ reason = "code_count" => NumOf(3) # NumOf(10)
  /\ reason = "data_count" => NumOf(12) # NumOf(11)
  /\ reason = "data_count_required" => ~ WellFormed

DecidesInv == OrderInv /\ PhaseInv /\ CountsInv /\ Decided

\* DecidesInv holds at first.
LEMMA DecidesInit == Init => DecidesInv
<1> SUFFICES ASSUME Init PROVE DecidesInv
    OBVIOUS
<1>1. Len(frames) = 0 /\ pc = "magic" /\ reason = "none" /\ last = 0 /\ funcs = 0 /\ datacount = None
      /\ sawCode = FALSE /\ sawData = FALSE
    BY DEF Init
<1>2. \A f \in 1 .. Len(frames) : FALSE
    BY <1>1
<1>3. OrderInv
    BY <1>1, <1>2 DEF OrderInv, Known, Ranked
<1>4. CountsInv
    BY <1>1, <1>2 DEF CountsInv, FuncsMet, CodeMet, DataCountMet, DataMet
<1> QED
    BY <1>1, <1>3, <1>4 DEF DecidesInv, PhaseInv, Decided

\* Why a file is rejected that is read to the point where it is judged.
Judged == {"order", "code_count", "data_count", "data_count_required"}

\* A step that meets no section and counts nothing, or ends in another error.
LEMMA NothingMet ==
  ASSUME DecidesInv, reason = "none", pc \notin {"rejected", "accepted"},
         UNCHANGED <<frames, id, last, counts>>, PhaseInv', reason' \notin Judged,
         pc' # "accepted",
         pc' = "rejected" \/ (pc \notin {"count", "datacount", "entry"} /\ (pc' = "entry" => id # 3))
  PROVE  DecidesInv'
<1>1. OrderInv'
    BY DEF DecidesInv, OrderInv, Judged
<1>2. CountsInv'
    BY DEF DecidesInv, CountsInv, FuncsMet, CodeMet, DataCountMet, DataMet, counts
<1>3. Decided'
    BY DEF Decided, Judged
<1> QED
    BY <1>1, <1>2, <1>3 DEF DecidesInv

\* The steps that read between the sections' headers and numbers.
LEMMA ReadersMeetNothing ==
  ASSUME NumbersInv, DecidesInv,
         \/ Preamble \/ ReadFails \/ Custom \/ SkipCustom \/ (Single /\ pc = "start")
         \/ CodeSize \/ Groups \/ Locals \/ Instruction \/ SectionTail
  PROVE  DecidesInv'
<1>1. reason = "none" /\ pc \notin {"rejected", "accepted"}
    BY DEF Preamble, ReadFails, Custom, SkipCustom, Single, CodeSize, Groups, Locals, Instruction,
           SectionTail, NumbersInv, TypeOK
<1>2. UNCHANGED <<frames, id, last, counts>>
    BY Zenon DEF Preamble, ReadFails, Custom, SkipCustom, Single, CodeSize, Groups, Locals, Instruction,
           SectionTail, section, noted
<1>3. CASE Preamble \/ ReadFails \/ Custom \/ SkipCustom \/ (Single /\ pc = "start") \/ SectionTail
    <2>1. /\ reason' \notin Judged /\ pc' \notin {"accepted", "entry"}
          /\ pc' = "rejected" \/ pc \notin {"count", "datacount", "entry"}
        BY <1>1, <1>3 DEF Preamble, ReadFails, Custom, SkipCustom, Single, SectionTail, SizeMatches,
                          Reject, Goto, Judged
    <2>2. PhaseInv'
        BY <1>2, <1>3 DEF Preamble, ReadFails, Custom, SkipCustom, Single, SectionTail, SizeMatches,
                          Reject, Goto, DecidesInv, PhaseInv
    <2> QED
        BY <1>1, <1>2, <2>1, <2>2, NothingMet
<1>4. CASE CodeSize \/ Groups \/ Locals \/ Instruction
    <2>1. /\ pc \in {"size", "groups", "locals", "body"}
          /\ \/ pc' = "rejected" /\ reason' \in {"overrun", "locals", "eof", "code_size"}
             \/ pc' \in {"groups", "locals", "body", "entry"} /\ UNCHANGED reason
        BY <1>4 DEF CodeSize, Groups, Locals, Instruction, Reject, Goto
    <2>2. id = 10
        BY <2>1 DEF DecidesInv, PhaseInv
    <2>3. PhaseInv'
        BY <1>2, <2>1, <2>2 DEF PhaseInv
    <2>4. reason' \notin Judged
        BY <1>1, <2>1 DEF Judged
    <2>5. /\ pc' # "accepted"
          /\ pc' = "rejected" \/ (pc \notin {"count", "datacount", "entry"} /\ (pc' = "entry" => id # 3))
        BY <2>1, <2>2
    <2> QED
        BY <1>1, <1>2, <2>3, <2>4, <2>5, NothingMet
<1> QED
    BY <1>3, <1>4

\* A section later in rank than all before comes in order.
LEMMA RankedMore ==
  ASSUME NEW fs \in Seq(Frame), NEW f \in Frame, Ranked(fs),
         \A k \in 1 .. Len(fs) : fs[k].id # 0 /\ f.id # 0 => Rank(fs[k].id) < Rank(f.id)
  PROVE  Ranked(Append(fs, f))
<1> DEFINE gs == Append(fs, f)
<1>1. /\ Len(gs) = Len(fs) + 1 /\ gs[Len(fs) + 1] = f /\ Len(fs) \in Nat
      /\ \A k \in 1 .. Len(fs) : gs[k] = fs[k]
    OBVIOUS
<1> HIDE DEF gs
<1>2. ASSUME NEW a \in 1 .. Len(gs), NEW b \in 1 .. Len(gs), a < b, gs[a].id # 0, gs[b].id # 0
      PROVE  Rank(gs[a].id) < Rank(gs[b].id)
    <2>1. a \in 1 .. Len(fs) /\ (b \in 1 .. Len(fs) \/ b = Len(fs) + 1)
        BY <1>1, <1>2
    <2> QED
        BY <1>1, <1>2, <2>1 DEF Ranked
<1> QED
    BY <1>2 DEF Ranked, gs

\* The phases of three sections.
LEMMA ContentOf ==
  ASSUME NEW i
  PROVE  (i = 12 => Content(i) = "datacount") /\ (i \in {10, 11} => Content(i) = "count")
<1>1. 12 # 0 /\ 12 # 8 /\ 12 \in {0, 8, 12} /\ 10 \notin {0, 8, 12} /\ 11 \notin {0, 8, 12}
    OBVIOUS
<1>2. 10 # 0 /\ 10 # 8 /\ 10 # 12 /\ 11 # 0 /\ 11 # 8 /\ 11 # 12
    OBVIOUS
<1>3. Content(12) = "datacount"
    BY <1>1 DEF Content
<1>4. Content(10) = "count" /\ Content(11) = "count"
    BY <1>1, <1>2 DEF Content
<1> QED
    BY <1>3, <1>4

\* The numbers met do not change with a section that has none yet.
LEMMA HeaderCounts ==
  ASSUME frames \in Seq(Frame), NEW f \in Frame, frames' = Append(frames, f), f.n = 0, f.id = id',
         pc = "section", funcs \in Nat, UNCHANGED counts, CountsInv,
         \A k \in 1 .. Len(frames) : f.id # 0 => frames[k].id # f.id,
         pc' = Content(f.id), f.id <= 12
  PROVE  CountsInv'
<1> DEFINE l == Len(frames)
<1>1. /\ Len(frames') = l + 1 /\ frames'[l + 1] = f /\ l \in Nat
      /\ \A k \in 1 .. l : frames'[k] = frames[k]
    OBVIOUS
<1>2. \A k \in 1 .. l + 1 : k \in 1 .. l \/ k = l + 1
    BY <1>1
<1>3. 1 .. l \subseteq 1 .. l + 1 /\ l + 1 \in 1 .. l + 1
    BY <1>1
<1>4. f.id \in Nat
    BY DEF Frame
<1>5. pc' \in {"custom", "start", "datacount", "count"}
    BY <1>4, ContentIsPhase
<1>6. (f.id = 12 => pc' = "datacount") /\ (f.id \in {10, 11} => pc' = "count")
    BY ContentOf
<1> HIDE DEF l
<1>7. UNCHANGED <<funcs, datacount, sawCode, sawData>>
    BY DEF counts
<1>8. FuncsMet /\ CodeMet /\ DataCountMet /\ DataMet
    BY DEF CountsInv
<1>9. FuncsMet'
    <2>1. \A k \in 1 .. l + 1 : frames'[k].id = 3 => frames'[k].n = funcs
        <3>1. \A k \in 1 .. l : frames[k].id = 3 => frames[k].n = funcs
            BY <1>8 DEF FuncsMet, l
        <3>2. f.id = 3 => funcs = 0
            BY <1>8 DEF FuncsMet, l
        <3> QED
            BY <1>1, <1>2, <3>1, <3>2
    <2>2. (\A k \in 1 .. l + 1 : frames'[k].id # 3) => funcs = 0
        BY <1>1, <1>3, <1>8 DEF FuncsMet, l
    <2>3. funcs + 0 = funcs
        OBVIOUS
    <2> QED
        BY <1>1, <1>5, <1>7, <2>1, <2>2, <2>3 DEF FuncsMet
<1>10. CodeMet'
    <2>1. sawCode => \E k \in 1 .. l + 1 : frames'[k].id = 10
        BY <1>1, <1>3, <1>8 DEF CodeMet, l
    <2>2. \A k \in 1 .. l + 1 : frames'[k].id = 10 =>
            (sawCode /\ frames'[k].n = funcs) \/ (pc' = "count" /\ id' = 10)
        BY <1>1, <1>2, <1>6, <1>8 DEF CodeMet, l
    <2> QED
        BY <1>1, <1>7, <2>1, <2>2 DEF CodeMet
<1>11. DataCountMet'
    <2>1. datacount # None => \E k \in 1 .. l + 1 : frames'[k].id = 12
        BY <1>1, <1>3, <1>8 DEF DataCountMet, l
    <2>2. \A k \in 1 .. l + 1 : frames'[k].id = 12 => frames'[k].n = datacount \/ pc' = "datacount"
        BY <1>1, <1>2, <1>6, <1>8 DEF DataCountMet, l
    <2> QED
        BY <1>1, <1>7, <2>1, <2>2 DEF DataCountMet
<1>12. DataMet'
    <2>1. sawData => \E k \in 1 .. l + 1 : frames'[k].id = 11
        BY <1>1, <1>3, <1>8 DEF DataMet, l
    <2>2. \A k \in 1 .. l + 1 : frames'[k].id = 11 =>
            \/ sawData /\ (datacount # None => frames'[k].n = datacount)
            \/ pc' = "count" /\ id' = 11
        BY <1>1, <1>2, <1>6, <1>8 DEF DataMet, l
    <2> QED
        BY <1>1, <1>7, <2>1, <2>2 DEF DataMet
<1> QED
    BY <1>9, <1>10, <1>11, <1>12 DEF CountsInv

\* A header is accepted if its section comes later in rank than all before,
\* and only then.
LEMMA HeaderDecides ==
  ASSUME NumbersInv, FramesInv, DecidesInv, SectionHeader
  PROVE  DecidesInv'
<1> USE SectionsAssumption
<1>1. pc = "section" /\ reason = "none" /\ frames \in Seq(Frame) /\ last \in Nat /\ funcs \in Nat
    BY DEF SectionHeader, NumbersInv, TypeOK, FramesInv
<1>2. PICK i \in Ids, s \in Sizes, w \in U32 :
        \/ /\ Reject("overrun") \/ Reject("id")
           /\ UNCHANGED <<section, noted>>
        \/ /\ ~ (i > 12) /\ pos' = pos + 1 + w
           /\ frames' = Append(frames, [id |-> i, from |-> pos, to |-> pos' + s, n |-> 0, w |-> w])
           /\ \/ i # 0 /\ Rank(i) <= last /\ Reject("order") /\ UNCHANGED section
              \/ /\ ~ (i # 0 /\ Rank(i) <= last)
                 /\ id' = i /\ last' = (IF i = 0 THEN last ELSE Rank(i)) /\ Goto(Content(i))
    BY Zenon DEF SectionHeader
<1>3. UNCHANGED counts
    BY DEF SectionHeader
<1> DEFINE f == [id |-> i, from |-> pos, to |-> pos' + s, n |-> 0, w |-> w]
           l == Len(frames)
<1>4. CASE (Reject("overrun") \/ Reject("id")) /\ UNCHANGED <<section, noted>>
    <2>1. PhaseInv'
        BY <1>4 DEF Reject, PhaseInv
    <2>2. UNCHANGED <<frames, id, last>> /\ pc' = "rejected" /\ reason' \notin Judged
        BY <1>4 DEF Reject, section, noted, Judged
    <2> QED
        BY <1>1, <1>3, <2>1, <2>2, NothingMet
<1>5. ASSUME ~ (i > 12), pos' = pos + 1 + w, frames' = Append(frames, f)
      PROVE  /\ f \in Frame /\ f.id = i /\ f.n = 0 /\ i \in Nat /\ i <= 12
             /\ Len(frames') = l + 1 /\ frames'[l + 1] = f /\ l \in Nat
             /\ \A k \in 1 .. l : frames'[k] = frames[k]
             /\ Known(frames')
    <2>1. f \in Frame /\ f.id = i /\ f.n = 0 /\ i \in Nat
        BY <1>5 DEF NumbersInv, TypeOK, U32, Fits, Frame
    <2> HIDE DEF f
    <2>2. /\ Len(frames') = l + 1 /\ frames'[l + 1] = f /\ l \in Nat
          /\ \A k \in 1 .. l : frames'[k] = frames[k]
        BY <1>1, <1>5, <2>1
    <2>3. i <= 12
        BY <1>5, <2>1
    <2>4. Known(frames')
        <3>1. \A k \in 1 .. l + 1 : k \in 1 .. l \/ k = l + 1
            BY <2>2
        <3> QED
            BY <2>1, <2>2, <2>3, <3>1 DEF DecidesInv, OrderInv, Known
    <2> QED
        BY <2>1, <2>2, <2>3, <2>4
<1>6. /\ Known(frames) /\ Ranked(frames)
      /\ \A k \in 1 .. l : frames[k].id # 0 => Rank(frames[k].id) <= last
      /\ last # 0 => \E k \in 1 .. l : frames[k].id # 0 /\ Rank(frames[k].id) = last
    BY <1>1 DEF DecidesInv, OrderInv
<1>7. CASE /\ ~ (i > 12) /\ pos' = pos + 1 + w /\ frames' = Append(frames, f)
           /\ i # 0 /\ Rank(i) <= last /\ Reject("order") /\ UNCHANGED section
    <2>1. /\ f.id = i /\ i \in Nat /\ i <= 12 /\ Len(frames') = l + 1 /\ frames'[l + 1] = f /\ l \in Nat
          /\ \A k \in 1 .. l : frames'[k] = frames[k]
          /\ Known(frames')
        BY <1>5, <1>7
    <2>2. Rank(i) \in 1 .. 12
        BY <1>7, <2>1, RankIsPlace
    <2>3. PICK k \in 1 .. l : frames[k].id # 0 /\ Rank(frames[k].id) = last
        BY <1>1, <1>6, <1>7, <2>2
    <2> HIDE DEF f, l
    <2>4. k \in 1 .. l + 1 /\ l + 1 \in 1 .. l + 1 /\ k < l + 1 /\ ~ (last < Rank(i))
        BY <1>1, <1>7, <2>1, <2>2
    <2>5. ~ Ranked(frames')
        <3>1. /\ frames'[k].id # 0 /\ frames'[l + 1].id # 0
              /\ ~ (Rank(frames'[k].id) < Rank(frames'[l + 1].id))
            BY <1>7, <2>1, <2>3, <2>4
        <3> QED
            BY <2>1, <2>4, <3>1, Zenon DEF Ranked
    <2>6. pc' = "rejected" /\ reason' = "order"
        BY <1>7 DEF Reject
    <2> QED
        BY <2>1, <2>5, <2>6 DEF DecidesInv, OrderInv, PhaseInv, CountsInv, Decided
<1>8. CASE /\ ~ (i > 12) /\ pos' = pos + 1 + w /\ frames' = Append(frames, f)
           /\ ~ (i # 0 /\ Rank(i) <= last)
           /\ id' = i /\ last' = (IF i = 0 THEN last ELSE Rank(i)) /\ Goto(Content(i))
    <2>1. /\ f \in Frame /\ f.id = i /\ f.n = 0 /\ i \in Nat /\ i <= 12
          /\ Len(frames') = l + 1 /\ frames'[l + 1] = f /\ l \in Nat
          /\ \A k \in 1 .. l : frames'[k] = frames[k]
          /\ Known(frames')
        BY <1>5, <1>8
    <2>2. frames' = Append(frames, f)
        BY <1>8
    <2> HIDE DEF f, l
    <2>3. i # 0 => Rank(i) \in 1 .. 12
        BY <2>1, RankIsPlace
    <2>4. i # 0 => last < Rank(i)
        BY <1>1, <1>8, <2>3
    <2>5. \A k \in 1 .. l : frames[k].id # 0 => Rank(frames[k].id) \in Nat
        BY <1>1, IdsAreNumbers DEF Rank, l
    <2>6. \A k \in 1 .. l : frames[k].id # 0 /\ i # 0 => Rank(frames[k].id) < Rank(i)
        BY <1>1, <1>6, <2>3, <2>4, <2>5
    <2>7. Ranked(frames')
        <3>1. \A k \in 1 .. Len(frames) : frames[k].id # 0 /\ f.id # 0 => Rank(frames[k].id) < Rank(f.id)
            BY <2>1, <2>6 DEF l
        <3> QED
            BY <1>1, <1>6, <2>1, <2>2, <3>1, RankedMore
    <2>8. \A k \in 1 .. l : i # 0 => frames[k].id # i
        BY <2>3, <2>6
    <2>9. pc' = Content(i) /\ reason' = "none" /\ id' = f.id
        BY <1>1, <1>8, <2>1 DEF Goto
    <2>10. CountsInv'
        <3>1. \A k \in 1 .. Len(frames) : f.id # 0 => frames[k].id # f.id
            BY <2>1, <2>8 DEF l
        <3>2. CountsInv
            BY DEF DecidesInv
        <3> QED
            BY <1>1, <1>3, <2>1, <2>2, <2>9, <3>1, <3>2, HeaderCounts
    <2>11. PhaseInv'
        <3>1. pc' \in {"custom", "start", "datacount", "count"}
            BY <2>1, <2>9, ContentIsPhase
        <3>2. /\ pc' = "custom" => i = 0
              /\ pc' = "start" => i = 8
              /\ pc' = "datacount" => i = 12
              /\ pc' = "count" => i \notin {0, 8, 12}
            BY <2>9, Zenon DEF Content
        <3>3. frames'[Len(frames')].n = 0
            BY <2>1
        <3> QED
            BY <2>1, <2>9, <3>1, <3>2, <3>3 DEF PhaseInv
    <2>12. OrderInv'
        <3>1. \A k \in 1 .. l + 1 : k \in 1 .. l \/ k = l + 1
            BY <2>1
        <3>2. 1 .. l \subseteq 1 .. l + 1 /\ l + 1 \in 1 .. l + 1
            BY <2>1
        <3>3. last' = (IF i = 0 THEN last ELSE Rank(i))
            BY <1>8
        <3>4. \A k \in 1 .. l + 1 : frames'[k].id # 0 => Rank(frames'[k].id) <= last'
            <4>1. CASE i = 0
                BY <1>6, <2>1, <3>1, <3>3, <4>1
            <4>2. CASE i # 0
                BY <2>1, <2>3, <2>5, <2>6, <3>1, <3>3, <4>2
            <4> QED
                BY <4>1, <4>2
        <3>5. last' # 0 => \E k \in 1 .. l + 1 : frames'[k].id # 0 /\ Rank(frames'[k].id) = last'
            <4>1. CASE i = 0
                BY <1>6, <2>1, <3>2, <3>3, <4>1
            <4>2. CASE i # 0
                BY <2>1, <3>2, <3>3, <4>2
            <4> QED
                BY <4>1, <4>2
        <3> QED
            BY <2>1, <2>7, <2>9, <3>4, <3>5 DEF OrderInv
    <2>13. Decided'
        <3>1. pc' \in {"custom", "start", "datacount", "count"}
            BY <2>1, <2>9, ContentIsPhase
        <3> QED
            BY <2>9, <3>1 DEF Decided
    <2> QED
        BY <2>10, <2>11, <2>12, <2>13 DEF DecidesInv
<1> QED
    BY <1>2, <1>4, <1>7, <1>8

\* The order is that of the ids, whatever the numbers.
LEMMA NumberedOrder ==
  ASSUME FramesInv, frames # <<>>, OrderInv, reason = "none", NEW n \in Nat, frames' = Numbered(n),
         UNCHANGED last, reason' # "order"
  PROVE  OrderInv' /\ Ranked(frames')
<1>1. Len(frames') = Len(frames) /\ \A k \in 1 .. Len(frames) : frames'[k].id = frames[k].id
    BY NumberedFrames DEF FramesInv
<1>2. /\ Known(frames) /\ Ranked(frames)
      /\ \A k \in 1 .. Len(frames) : frames[k].id # 0 => Rank(frames[k].id) <= last
      /\ last # 0 => \E k \in 1 .. Len(frames) : frames[k].id # 0 /\ Rank(frames[k].id) = last
    BY DEF OrderInv
<1>3. Known(frames') /\ Ranked(frames')
    BY <1>1, <1>2 DEF Known, Ranked
<1>4. \A k \in 1 .. Len(frames') : frames'[k].id # 0 => Rank(frames'[k].id) <= last'
    BY <1>1, <1>2
<1>5. last' # 0 => \E k \in 1 .. Len(frames') : frames'[k].id # 0 /\ Rank(frames'[k].id) = last'
    BY <1>1, <1>2
<1> QED
    BY <1>3, <1>4, <1>5 DEF OrderInv

\* Of the sections before the current one none has its id, and none has a
\* later rank.
LEMMA OthersBefore ==
  ASSUME FramesInv, InSection, OrderInv, reason = "none", id # 0
  PROVE  /\ Len(frames) \in 1 .. Len(frames) /\ frames[Len(frames)].id = id
         /\ \A k \in 1 .. Len(frames) : frames[k].id = id => k = Len(frames)
         /\ \A k \in 1 .. Len(frames) : frames[k].id # 0 => Rank(frames[k].id) <= Rank(id)
<1> DEFINE l == Len(frames)
<1>1. frames \in Seq(Frame) /\ l \in 1 .. l /\ l \in Nat /\ frames[l].id = id
    BY DEF FramesInv
<1>2. Ranked(frames)
    BY DEF OrderInv
<1> HIDE DEF l
<1>3. \A k \in 1 .. Len(frames) : frames[k].id = id => k = Len(frames)
    BY <1>1, <1>2, OneOfEach DEF l
<1>4. ASSUME NEW k \in 1 .. Len(frames), frames[k].id # 0
      PROVE  Rank(frames[k].id) <= Rank(id)
    <2>1. Rank(frames[k].id) \in Nat
        BY <1>1, IdsAreNumbers DEF Rank
    <2>2. CASE k = l
        BY <1>1, <2>1, <2>2
    <2>3. CASE k < l
        <3>1. Rank(frames[k].id) < Rank(id)
            BY <1>1, <1>2, <1>4, <2>3 DEF Ranked, l
        <3>2. Rank(id) \in Nat
            BY <1>1, IdsAreNumbers DEF Rank, l
        <3> QED
            BY <2>1, <3>1, <3>2
    <2> QED
        BY <1>1, <2>2, <2>3 DEF l
<1> QED
    BY <1>1, <1>3, <1>4 DEF l

\* The data count is remembered, and no data section came before.
LEMMA DataCountDecides ==
  ASSUME NumbersInv, FramesInv, DecidesInv, Single, pc = "datacount"
  PROVE  DecidesInv'
<1> USE SectionsAssumption
<1> DEFINE l == Len(frames)
<1>1. PICK n \in Counts : datacount' = n /\ frames' = Numbered(n)
    BY DEF Single
<1>2. /\ UNCHANGED <<id, last, funcs, sawCode, sawData, reason>> /\ pc' = "tail" /\ reason = "none" /\ id = 12
      /\ n \in Nat
    BY <1>1 DEF Single, Goto, section, NumbersInv, TypeOK, DecidesInv, PhaseInv
<1>3. /\ frames \in Seq(Frame) /\ frames # <<>> /\ InSection
    BY DEF FramesInv, InSection
<1>4. /\ Len(frames') = l /\ frames'[l].n = n
      /\ \A k \in 1 .. l : frames'[k].id = frames[k].id /\ (k # l => frames'[k].n = frames[k].n)
    BY <1>1, <1>2, <1>3, NumberedFrames
<1>5. OrderInv'
    BY <1>1, <1>2, <1>3, NumberedOrder DEF DecidesInv
<1>6. /\ l \in 1 .. l /\ frames[l].id = 12
      /\ \A k \in 1 .. l : frames[k].id = 12 => k = l
      /\ \A k \in 1 .. l : frames[k].id # 0 => Rank(frames[k].id) <= Rank(12)
    BY <1>2, <1>3, OthersBefore DEF DecidesInv
<1>7. \A k \in 1 .. l : frames[k].id # 11
    BY <1>6 DEF Rank
<1>8. FuncsMet /\ CodeMet /\ DataMet
    BY DEF DecidesInv, CountsInv
<1> HIDE DEF l
<1>9. FuncsMet'
    <2>1. \A k \in 1 .. l : frames'[k].id = 3 => frames'[k].n = frames[k].n /\ frames[k].id = 3
        BY <1>4, <1>6
    <2>2. \A k \in 1 .. l : frames[k].id = 3 => frames[k].n = funcs + 0
        BY <1>2, <1>8 DEF FuncsMet, l
    <2>3. (\A k \in 1 .. l : frames[k].id # 3) => funcs = 0
        BY <1>8 DEF FuncsMet, l
    <2> QED
        BY <1>2, <1>4, <2>1, <2>2, <2>3 DEF FuncsMet
<1>10. CodeMet'
    <2>1. \A k \in 1 .. l : frames'[k].id = 10 => frames'[k].n = frames[k].n /\ frames[k].id = 10
        BY <1>4, <1>6
    <2>2. \A k \in 1 .. l : frames[k].id = 10 => sawCode /\ frames[k].n = funcs
        BY <1>2, <1>8 DEF CodeMet, l
    <2>3. sawCode => \E k \in 1 .. l : frames[k].id = 10
        BY <1>8 DEF CodeMet, l
    <2> QED
        BY <1>2, <1>4, <2>1, <2>2, <2>3 DEF CodeMet
<1>11. DataCountMet'
    BY <1>1, <1>4, <1>6 DEF DataCountMet
<1>12. DataMet'
    <2>1. ~ sawData
        BY <1>7, <1>8 DEF DataMet, l
    <2> QED
        BY <1>2, <1>4, <1>7, <2>1 DEF DataMet
<1> QED
    BY <1>2, <1>5, <1>9, <1>10, <1>11, <1>12 DEF DecidesInv, PhaseInv, CountsInv, Decided

\* The entries that are read: only those of the function section count.
LEMMA EntryDecides ==
  ASSUME NumbersInv, FramesInv, DecidesInv, Entry
  PROVE  DecidesInv'
<1> DEFINE l == Len(frames)
<1>1. /\ UNCHANGED <<frames, id, last, datacount, sawCode, sawData, reason>> /\ reason = "none"
      /\ pc = "entry" /\ left \in Nat /\ funcs \in Nat /\ id # 12 /\ frames \in Seq(Frame)
      /\ id \notin {0, 8, 12} /\ InSection
    BY DEF Entry, Goto, NumbersInv, TypeOK, noted, DecidesInv, PhaseInv, FramesInv, InSection
<1>2. \/ left = 0 /\ pc' = "tail" /\ UNCHANGED <<left, funcs>>
      \/ left # 0 /\ left' = left - 1 /\ id = 10 /\ pc' = "size" /\ UNCHANGED funcs
      \/ left # 0 /\ left' = left - 1 /\ id = 3 /\ funcs' = funcs + 1 /\ pc' = "entry"
      \/ left # 0 /\ left' = left - 1 /\ id \notin {3, 10} /\ UNCHANGED funcs /\ pc' = "entry"
    BY <1>1 DEF Entry, Goto
<1>3. OrderInv'
    BY <1>1 DEF DecidesInv, OrderInv
<1>4. PhaseInv'
    BY <1>1, <1>2 DEF PhaseInv
<1>5. FuncsMet /\ CodeMet /\ DataCountMet /\ DataMet
    BY <1>1 DEF DecidesInv, CountsInv
<1>6. /\ l \in 1 .. l /\ frames[l].id = id
      /\ \A k \in 1 .. l : frames[k].id # 0 => Rank(frames[k].id) <= Rank(id)
    BY <1>1, OthersBefore DEF DecidesInv
<1> HIDE DEF l
<1>7. FuncsMet'
    <2>1. \A k \in 1 .. l : frames[k].id = 3 => frames[k].n = funcs + (IF id = 3 THEN left ELSE 0)
        BY <1>1, <1>5 DEF FuncsMet, l
    <2>2. (\A k \in 1 .. l : frames[k].id # 3) => funcs = 0
        BY <1>5 DEF FuncsMet, l
    <2>3. \A k \in 1 .. l : frames[k].id = 3 =>
             frames[k].n = funcs' + (IF pc' = "entry" /\ id = 3 THEN left' ELSE 0)
        BY <1>1, <1>2, <2>1
    <2>4. (\A k \in 1 .. l : frames[k].id # 3) => funcs' = 0
        BY <1>2, <1>6, <2>2
    <2> QED
        BY <1>1, <2>3, <2>4 DEF FuncsMet, l
<1>8. CodeMet'
    <2>1. id = 3 => \A k \in 1 .. l : frames[k].id # 10
        BY <1>6 DEF Rank
    <2>2. \A k \in 1 .. l : frames[k].id = 10 => sawCode /\ frames[k].n = funcs
        BY <1>1, <1>5 DEF CodeMet, l
    <2>3. \A k \in 1 .. l : frames[k].id = 10 => sawCode /\ frames[k].n = funcs'
        BY <1>2, <2>1, <2>2
    <2>4. sawCode => \E k \in 1 .. l : frames[k].id = 10
        BY <1>5 DEF CodeMet, l
    <2> QED
        BY <1>1, <2>3, <2>4 DEF CodeMet, l
<1>9. DataCountMet' /\ DataMet'
    BY <1>1, <1>5 DEF DataCountMet, DataMet
<1> QED
    BY <1>1, <1>2, <1>3, <1>4, <1>7, <1>8, <1>9 DEF DecidesInv, CountsInv, Decided

\* The number of the section with an id, or zero if there is none, is m.
Numbers(fs, i, m) ==
  /\ \A f \in 1 .. Len(fs) : fs[f].id = i => fs[f].n = m
  /\ (\A f \in 1 .. Len(fs) : fs[f].id # i) => m = 0

\* It is NumOf of the section.
LEMMA NumMet ==
  ASSUME NEW fs \in Seq(Frame), Ranked(fs), NEW i, i # 0, NEW m, Numbers(fs, i, m)
  PROVE  NumIn(fs, i) = m
<1>1. CASE \A f \in 1 .. Len(fs) : fs[f].id # i
    BY <1>1, NumOfNone DEF Numbers
<1>2. ASSUME NEW f \in 1 .. Len(fs), fs[f].id = i
      PROVE  NumIn(fs, i) = m
    BY <1>2, NumIs DEF Numbers
<1> QED
    BY <1>1, <1>2

\* The number of entries of a section is that of the functions, or that of
\* the data count, or the file is rejected.
LEMMA CountDecides ==
  ASSUME NumbersInv, FramesInv, DecidesInv, Count
  PROVE  DecidesInv'
<1> USE SectionsAssumption
<1> DEFINE l == Len(frames)
<1>1. PICK n \in Counts :
        /\ left' = n /\ frames' = Numbered(n)
        /\ \/ id = 10 /\ n # funcs /\ Reject("code_count")
           \/ id = 11 /\ datacount # None /\ datacount # n /\ Reject("data_count")
           \/ /\ id = 10 => n = funcs
              /\ id = 11 => datacount = None \/ datacount = n
              /\ Goto("entry")
    BY DEF Count
<1>2. /\ UNCHANGED <<id, last, funcs, datacount>> /\ pc = "count" /\ reason = "none" /\ id \notin {0, 8, 12}
      /\ n \in Nat /\ funcs \in Nat
      /\ sawCode' <=> sawCode \/ id = 10
      /\ sawData' <=> sawData \/ id = 11
    BY <1>1 DEF Count, NumbersInv, TypeOK, DecidesInv, PhaseInv
<1>3. frames \in Seq(Frame) /\ frames # <<>> /\ InSection
    BY <1>2 DEF FramesInv, InSection
<1>4. /\ frames' \in Seq(Frame) /\ Len(frames') = l /\ frames'[l].n = n
      /\ \A k \in 1 .. l : frames'[k].id = frames[k].id /\ (k # l => frames'[k].n = frames[k].n)
    BY <1>1, <1>2, <1>3, NumberedFrames
<1>5. OrderInv' /\ Ranked(frames')
    <2>1. reason' # "order"
        BY <1>1, <1>2 DEF Reject, Goto
    <2> QED
        BY <1>1, <1>2, <1>3, <2>1, NumberedOrder DEF DecidesInv
<1>6. /\ l \in 1 .. l /\ frames[l].id = id
      /\ \A k \in 1 .. l : frames[k].id = id => k = l
      /\ \A k \in 1 .. l : frames[k].id # 0 => Rank(frames[k].id) <= Rank(id)
    BY <1>2, <1>3, OthersBefore DEF DecidesInv
<1>7. FuncsMet /\ CodeMet /\ DataCountMet /\ DataMet
    BY <1>2 DEF DecidesInv, CountsInv
<1>8. frames[l].n = 0
    BY <1>2 DEF DecidesInv, PhaseInv
<1> HIDE DEF l
<1>9. \A i : i # id => \A k \in 1 .. l : frames'[k].id = i => frames[k].id = i /\ frames'[k].n = frames[k].n
    BY <1>4, <1>6
<1>10. /\ \A k \in 1 .. l : frames[k].id = 3 => frames[k].n = funcs
       /\ (\A k \in 1 .. l : frames[k].id # 3) => funcs = 0
    BY <1>2, <1>7 DEF FuncsMet, l
<1>11. CASE id = 10 /\ n # funcs /\ Reject("code_count")
    <2>1. NumIn(frames', 10) = n
        <3>1. frames'[l].id = 10 /\ l \in 1 .. Len(frames')
            BY <1>4, <1>6, <1>11
        <3> QED
            BY <1>4, <1>5, <3>1, NumIs
    <2>2. NumIn(frames', 3) = funcs
        <3>1. \A k \in 1 .. Len(frames') : frames'[k].id = 3 => frames'[k].n = funcs
            BY <1>4, <1>9, <1>10, <1>11
        <3>2. (\A k \in 1 .. Len(frames') : frames'[k].id # 3) => funcs = 0
            BY <1>4, <1>10
        <3>3. Numbers(frames', 3, funcs)
            BY <3>1, <3>2 DEF Numbers
        <3>4. 3 # 0
            OBVIOUS
        <3> QED
            BY <1>4, <1>5, <3>3, <3>4, NumMet
    <2>3. NumOf(3)' = NumIn(frames', 3) /\ NumOf(10)' = NumIn(frames', 10)
        BY DEF NumOf, With, NumIn, Among
    <2>4. Decided'
        BY <1>11, <2>1, <2>2, <2>3 DEF Decided, Reject
    <2> QED
        BY <1>5, <1>11, <2>4 DEF Reject, DecidesInv, PhaseInv, CountsInv
<1>12. CASE id = 11 /\ datacount # None /\ datacount # n /\ Reject("data_count")
    <2>1. NumIn(frames', 11) = n
        <3>1. frames'[l].id = 11 /\ l \in 1 .. Len(frames')
            BY <1>4, <1>6, <1>12
        <3> QED
            BY <1>4, <1>5, <3>1, NumIs
    <2>2. NumIn(frames', 12) = datacount
        <3>1. PICK k \in 1 .. l : frames[k].id = 12
            BY <1>7, <1>12 DEF DataCountMet, l
        <3>2. frames[k].n = datacount
            BY <1>2, <1>7, <3>1 DEF DataCountMet, l
        <3>3. k # l
            BY <1>6, <1>12, <3>1
        <3>4. frames'[k].n = datacount /\ frames'[k].id = 12 /\ k \in 1 .. Len(frames')
            BY <1>4, <3>1, <3>2, <3>3
        <3> QED
            BY <1>4, <1>5, <3>4, NumIs
    <2>3. NumOf(12)' = NumIn(frames', 12) /\ NumOf(11)' = NumIn(frames', 11)
        BY DEF NumOf, With, NumIn, Among
    <2>4. Decided'
        BY <1>12, <2>1, <2>2, <2>3 DEF Decided, Reject
    <2> QED
        BY <1>5, <1>12, <2>4 DEF Reject, DecidesInv, PhaseInv, CountsInv
<1>13. CASE /\ id = 10 => n = funcs
            /\ id = 11 => datacount = None \/ datacount = n
            /\ Goto("entry")
    <2>1. pc' = "entry" /\ reason' = "none"
        BY <1>2, <1>13 DEF Goto
    <2>2. FuncsMet'
        <3>1. \A k \in 1 .. l : frames'[k].id = 3 => frames'[k].n = funcs + (IF id = 3 THEN n ELSE 0)
            <4>1. CASE id = 3
                <5>1. funcs = 0
                    BY <1>6, <1>8, <1>10, <4>1
                <5> QED
                    BY <1>2, <1>4, <1>6, <4>1, <5>1
            <4>2. CASE id # 3
                BY <1>2, <1>9, <1>10, <4>2
            <4> QED
                BY <4>1, <4>2
        <3>2. (\A k \in 1 .. l : frames'[k].id # 3) => funcs = 0
            BY <1>4, <1>10
        <3> QED
            BY <1>1, <1>2, <1>4, <2>1, <3>1, <3>2 DEF FuncsMet
    <2>3. CodeMet'
        <3>1. sawCode' => \E k \in 1 .. l : frames'[k].id = 10
            BY <1>2, <1>4, <1>6, <1>7 DEF CodeMet, l
        <3>2. \A k \in 1 .. l : frames'[k].id = 10 => sawCode' /\ frames'[k].n = funcs
            <4>1. CASE id = 10
                BY <1>2, <1>4, <1>6, <1>13, <4>1
            <4>2. CASE id # 10
                <5>1. \A k \in 1 .. l : frames[k].id = 10 => sawCode /\ frames[k].n = funcs
                    BY <1>7, <4>2 DEF CodeMet, l
                <5> QED
                    BY <1>2, <1>9, <4>2, <5>1
            <4> QED
                BY <4>1, <4>2
        <3> QED
            BY <1>2, <1>4, <3>1, <3>2 DEF CodeMet
    <2>4. DataCountMet'
        <3>1. datacount # None => \E k \in 1 .. l : frames'[k].id = 12
            BY <1>4, <1>7 DEF DataCountMet, l
        <3>2. \A k \in 1 .. l : frames[k].id = 12 => frames[k].n = datacount
            BY <1>2, <1>7 DEF DataCountMet, l
        <3>3. \A k \in 1 .. l : frames'[k].id = 12 => frames'[k].n = datacount
            BY <1>2, <1>9, <3>2
        <3> QED
            BY <1>2, <1>4, <3>1, <3>3 DEF DataCountMet
    <2>5. DataMet'
        <3>1. sawData' => \E k \in 1 .. l : frames'[k].id = 11
            BY <1>2, <1>4, <1>6, <1>7 DEF DataMet, l
        <3>2. \A k \in 1 .. l : frames'[k].id = 11 => sawData' /\ (datacount # None => frames'[k].n = datacount)
            <4>1. CASE id = 11
                BY <1>2, <1>4, <1>6, <1>13, <4>1
            <4>2. CASE id # 11
                <5>1. \A k \in 1 .. l : frames[k].id = 11 => sawData /\ (datacount # None => frames[k].n = datacount)
                    BY <1>7, <4>2 DEF DataMet, l
                <5> QED
                    BY <1>2, <1>9, <4>2, <5>1
            <4> QED
                BY <4>1, <4>2
        <3> QED
            BY <1>2, <1>4, <3>1, <3>2 DEF DataMet
    <2>6. PhaseInv' /\ Decided'
        BY <1>2, <2>1 DEF PhaseInv, Decided
    <2> QED
        BY <1>5, <2>2, <2>3, <2>4, <2>5, <2>6 DEF DecidesInv, CountsInv
<1> QED
    BY <1>1, <1>11, <1>12, <1>13

\* At the end of the file the numbers met are those of the grammar.
LEMMA FinishDecides ==
  ASSUME NumbersInv, UsesInv, FramesInv, DecidesInv, Finish
  PROVE  DecidesInv'
<1> DEFINE l == Len(frames)
<1>1. /\ pc = "section" /\ reason = "none" /\ frames \in Seq(Frame) /\ funcs \in Nat
      /\ UNCHANGED <<frames, bodies, id, last, funcs, datacount, sawCode, sawData>>
    BY DEF Finish, NumbersInv, TypeOK, FramesInv, position, section, counts, noted
<1>2. \/ funcs # 0 /\ ~ sawCode /\ Reject("code_count")
      \/ dcUsed /\ datacount = None /\ sawData /\ Reject("data_count_required")
      \/ datacount # None /\ datacount # 0 /\ ~ sawData /\ Reject("data_count")
      \/ /\ ~ (funcs # 0 /\ ~ sawCode) /\ ~ (dcUsed /\ datacount = None /\ sawData)
         /\ ~ (datacount # None /\ datacount # 0 /\ ~ sawData) /\ Goto("accepted")
    BY Zenon DEF Finish
<1>3. FuncsMet /\ CodeMet /\ DataCountMet /\ DataMet /\ Ranked(frames) /\ Known(frames)
    BY <1>1 DEF DecidesInv, CountsInv, OrderInv
<1>4. OrderInv'
    <2>1. reason' # "order"
        BY <1>1, <1>2 DEF Reject, Goto
    <2> QED
        BY <1>1, <2>1 DEF DecidesInv, OrderInv
<1>5. CountsInv'
    BY <1>1, <1>2, <1>3 DEF CountsInv, FuncsMet, CodeMet, DataCountMet, DataMet, Reject, Goto
<1>6. PhaseInv'
    BY <1>1, <1>2 DEF PhaseInv, Reject, Goto
<1>7. NumOf(3) = funcs
    <2>1. Numbers(frames, 3, funcs)
        BY <1>1, <1>3 DEF FuncsMet, Numbers
    <2>2. 3 # 0 /\ NumOf(3) = NumIn(frames, 3)
        BY DEF NumOf, With, NumIn, Among
    <2> QED
        BY <1>1, <1>3, <2>1, <2>2, NumMet
<1>8. NumOf(10) = IF sawCode THEN funcs ELSE 0
    <2>1. Numbers(frames, 10, IF sawCode THEN funcs ELSE 0)
        BY <1>1, <1>3 DEF CodeMet, Numbers
    <2>2. 10 # 0 /\ NumOf(10) = NumIn(frames, 10)
        BY DEF NumOf, With, NumIn, Among
    <2> QED
        BY <1>1, <1>3, <2>1, <2>2, NumMet
<1>9. /\ With(12) # {} <=> datacount # None
      /\ datacount # None => NumOf(12) = datacount
      /\ datacount = None => NumOf(12) = 0
    <2>1. \A f \in 1 .. l : frames[f].id = 12 => frames[f].n = datacount /\ datacount # None
        BY <1>1, <1>3, IdsAreNumbers, SectionsAssumption DEF DataCountMet
    <2>2. datacount # None => \E f \in 1 .. l : frames[f].id = 12
        BY <1>3 DEF DataCountMet
    <2>3. With(12) # {} <=> datacount # None
        BY <1>1, <2>1, <2>2 DEF With
    <2>4. Numbers(frames, 12, IF datacount # None THEN datacount ELSE 0)
        BY <2>1, <2>2 DEF Numbers
    <2>5. 12 # 0 /\ NumOf(12) = NumIn(frames, 12)
        BY DEF NumOf, With, NumIn, Among
    <2>6. NumOf(12) = IF datacount # None THEN datacount ELSE 0
        BY <1>1, <1>3, <2>4, <2>5, NumMet
    <2> QED
        BY <2>3, <2>6
<1>10. /\ With(11) # {} <=> sawData
       /\ sawData /\ datacount # None => NumOf(11) = datacount
       /\ ~ sawData => NumOf(11) = 0
    <2>1. \A f \in 1 .. l : frames[f].id = 11 => sawData /\ (datacount # None => frames[f].n = datacount)
        BY <1>1, <1>3 DEF DataMet
    <2>2. sawData => \E f \in 1 .. l : frames[f].id = 11
        BY <1>3 DEF DataMet
    <2>3. With(11) # {} <=> sawData
        BY <1>1, <2>1, <2>2 DEF With
    <2>4. NumOf(11) = NumIn(frames, 11) /\ 11 # 0
        BY DEF NumOf, With, NumIn, Among
    <2>5. ASSUME sawData, datacount # None
          PROVE  NumOf(11) = datacount
        <3>1. Numbers(frames, 11, datacount)
            BY <2>1, <2>2, <2>5 DEF Numbers
        <3> QED
            BY <1>1, <1>3, <2>4, <3>1, NumMet
    <2>6. ASSUME ~ sawData
          PROVE  NumOf(11) = 0
        <3>1. Numbers(frames, 11, 0)
            BY <2>1, <2>6 DEF Numbers
        <3> QED
            BY <1>1, <1>3, <2>4, <3>1, NumMet
    <2> QED
        BY <2>3, <2>5, <2>6
<1>11. InOrder
    BY <1>1, <1>3, OrderIsRanks
<1>12. dcUsed <=> \E b \in DOMAIN bodies : bodies[b].uses
    BY DEF UsesInv, UsesAreShared
<1>13. /\ UNCHANGED <<NumOf(3), NumOf(10), NumOf(11), NumOf(12)>>
       /\ WellFormed' = WellFormed
    BY <1>1 DEF NumOf, With, WellFormed, InOrder
<1>14. Decided'
    <2>1. CASE funcs # 0 /\ ~ sawCode /\ Reject("code_count")
        BY <1>7, <1>8, <1>13, <2>1 DEF Decided, Reject
    <2>2. CASE dcUsed /\ datacount = None /\ sawData /\ Reject("data_count_required")
        <3>1. ~ WellFormed
            BY <1>9, <1>10, <1>12, <2>2 DEF WellFormed
        <3> QED
            BY <1>13, <2>2, <3>1 DEF Decided, Reject
    <2>3. CASE datacount # None /\ datacount # 0 /\ ~ sawData /\ Reject("data_count")
        BY <1>9, <1>10, <1>13, <2>3 DEF Decided, Reject
    <2>4. CASE /\ ~ (funcs # 0 /\ ~ sawCode) /\ ~ (dcUsed /\ datacount = None /\ sawData)
               /\ ~ (datacount # None /\ datacount # 0 /\ ~ sawData) /\ Goto("accepted")
        <3>1. NumOf(3) = NumOf(10)
            BY <1>7, <1>8, <2>4
        <3>2. With(12) # {} => NumOf(12) = NumOf(11)
            BY <1>9, <1>10, <2>4
        <3>3. (\E b \in DOMAIN bodies : bodies[b].uses) /\ With(11) # {} => With(12) # {}
            BY <1>9, <1>10, <1>12, <2>4
        <3>4. WellFormed
            BY <1>11, <3>1, <3>2, <3>3 DEF WellFormed
        <3> QED
            BY <1>1, <1>13, <2>4, <3>4 DEF Decided, Goto
    <2> QED
        BY <1>2, <2>1, <2>2, <2>3, <2>4
<1> QED
    BY <1>4, <1>5, <1>6, <1>14 DEF DecidesInv

\* DecidesInv is inductive with the invariants of the frames and the flag.
LEMMA DecidesStep == NumbersInv /\ UsesInv /\ FramesInv /\ DecidesInv /\ [Next]_vars => DecidesInv'
<1> SUFFICES ASSUME NumbersInv, UsesInv, FramesInv, DecidesInv, [Next]_vars PROVE DecidesInv'
    OBVIOUS
<1>1. CASE \/ Preamble \/ ReadFails \/ Custom \/ SkipCustom \/ (Single /\ pc = "start")
           \/ CodeSize \/ Groups \/ Locals \/ Instruction \/ SectionTail
    BY <1>1, ReadersMeetNothing
<1>2. CASE SectionHeader
    BY <1>2, HeaderDecides
<1>3. CASE Single /\ pc = "datacount"
    BY <1>3, DataCountDecides
<1>4. CASE Count
    BY <1>4, CountDecides
<1>5. CASE Entry
    BY <1>5, EntryDecides
<1>6. CASE Finish
    BY <1>6, FinishDecides
<1>7. CASE UNCHANGED vars
    <2>1. /\ UNCHANGED <<pc, reason, frames, bodies, id, left, last, funcs, datacount, sawCode, sawData>>
          /\ OrderInv /\ PhaseInv /\ CountsInv /\ Decided
        BY <1>7 DEF vars, section, counts, noted, DecidesInv
    <2>2. OrderInv' /\ PhaseInv'
        BY <2>1 DEF OrderInv, PhaseInv
    <2>3. CountsInv'
        BY <2>1 DEF CountsInv, FuncsMet, CodeMet, DataCountMet, DataMet
    <2>4. UNCHANGED <<NumOf(3), NumOf(10), NumOf(11), NumOf(12)>> /\ WellFormed' = WellFormed
        BY <2>1 DEF NumOf, With, WellFormed, InOrder
    <2>5. Decided'
        BY <2>1, <2>4 DEF Decided
    <2> QED
        BY <2>2, <2>3, <2>5 DEF DecidesInv
<1>8. Single => pc = "start" \/ pc = "datacount"
    BY DEF Single
<1> QED
    BY <1>1, <1>2, <1>3, <1>4, <1>5, <1>6, <1>7, <1>8 DEF Next

\* A file is accepted only if its sections are in order and their numbers
\* agree, and one that is rejected for its order or its numbers already breaks
\* that grammar, however many entries and bodies it has (module()).
THEOREM StructureAlwaysDecides == Spec => []StructureDecides
<1>1. Init => NumbersInv /\ UsesInv /\ FramesInv /\ DecidesInv
    BY NumbersInit, UsesInit, FramesInit, DecidesInit
<1>2. /\ NumbersInv /\ UsesInv /\ FramesInv /\ DecidesInv /\ [Next]_vars
      => (NumbersInv /\ UsesInv /\ FramesInv /\ DecidesInv)'
    BY NumbersStep, UsesStep, FramesStep, DecidesStep
<1>3. NumbersInv /\ UsesInv /\ FramesInv /\ DecidesInv => StructureDecides
    <2> SUFFICES ASSUME UsesInv, FramesInv, DecidesInv PROVE StructureDecides
        OBVIOUS
    <2>1. reason = "order" => ~ InOrder
        BY OrderIsRanks DEF DecidesInv, OrderInv, FramesInv
    <2> QED
        BY <2>1 DEF StructureDecides, DecidesInv, Decided, UsesInv
<1> QED
    BY <1>1, <1>2, <1>3, PTL DEF Spec

-----------------------------------------------------------------------------
(* Induction on numbers.                                                   *)

\* A set of numbers has a least one.
LEMMA LeastOf ==
  ASSUME NEW T, T \subseteq Nat, T # {}
  PROVE  \E x \in T : \A y \in T : x <= y
<1> DEFINE R == OpToRel(<, Nat)
<1>1. IsWellFoundedOn(R, Nat)
  BY NatLessThanWellFounded
<1>2. \A x, y \in Nat : y < x => <<y, x>> \in R
  BY DEF OpToRel
<1> HIDE DEF R
<1> PICK x \in T : \A y \in T : ~ (<<y, x>> \in R)
  BY <1>1, WFMin
<1>3. ASSUME NEW y \in T
      PROVE  x <= y
  <2>1. x \in Nat /\ y \in Nat /\ ~ (y < x)
    BY <1>2
  <2> QED
    BY <2>1
<1> QED
  BY <1>3

\* A set with 0 and every successor of a number it has, has every number.
LEMMA InductionOn ==
  ASSUME NEW T, 0 \in T, \A n \in Nat : n \in T => n + 1 \in T
  PROVE  \A n \in Nat : n \in T
<1> SUFFICES ASSUME Nat \ T # {}
             PROVE  FALSE
  OBVIOUS
<1>1. PICK x \in Nat \ T : \A y \in Nat \ T : x <= y
  BY LeastOf
<1>2. x # 0 /\ x - 1 \in Nat
  OBVIOUS
<1>3. x - 1 \in T
  BY <1>1, <1>2
<1> QED
  BY <1>2, <1>3

-----------------------------------------------------------------------------
(* Powers of two.                                                          *)

\* The powers up to n.
Powers(g, n) == g = [i \in 0..n |-> IF i = 0 THEN 1 ELSE 2 * g[i - 1]]

LEMMA PowersSame ==
  ASSUME NEW m \in Nat, NEW n \in Nat, NEW g, NEW h, Powers(g, m), Powers(h, n)
  PROVE  \A k \in Nat : k <= m /\ k <= n => g[k] = h[k]
<1> DEFINE T == {k \in Nat : k <= m /\ k <= n => g[k] = h[k]}
<1>0. /\ \A i \in 0..m : g[i] = IF i = 0 THEN 1 ELSE 2 * g[i - 1]
      /\ \A i \in 0..n : h[i] = IF i = 0 THEN 1 ELSE 2 * h[i - 1]
  BY DEF Powers
<1>1. 0 \in T
  BY <1>0
<1>2. ASSUME NEW k \in Nat, k \in T
      PROVE  k + 1 \in T
  <2>1. k + 1 \in Nat /\ k + 1 # 0 /\ (k + 1) - 1 = k
    OBVIOUS
  <2>2. k + 1 <= m /\ k + 1 <= n => g[k + 1] = h[k + 1]
    BY <1>0, <1>2, <2>1
  <2> QED
    BY <2>1, <2>2
<1>3. \A k \in Nat : k \in T
  <2> HIDE DEF T
  <2> QED
    BY <1>1, <1>2, InductionOn
<1> QED
  BY <1>3

LEMMA PowersExist == \A n \in Nat : \E g : Powers(g, n)
<1> DEFINE T == {n \in Nat : \E g : Powers(g, n)}
<1>1. 0 \in T
  <2> DEFINE g == [i \in 0..0 |-> 1]
  <2>1. g = [i \in 0..0 |-> IF i = 0 THEN 1 ELSE 2 * g[i - 1]]
    OBVIOUS
  <2> HIDE DEF g
  <2> QED
    BY <2>1 DEF Powers
<1>2. ASSUME NEW n \in Nat, n \in T
      PROVE  n + 1 \in T
  <2> PICK g : Powers(g, n)
    BY <1>2
  <2> DEFINE h == [i \in 0 .. n + 1 |-> IF i = n + 1 THEN 2 * g[n] ELSE g[i]]
  <2>1. \A i \in 0..n : g[i] = IF i = 0 THEN 1 ELSE 2 * g[i - 1]
    BY DEF Powers
  <2>2. ASSUME NEW i \in 0 .. n + 1
        PROVE  h[i] = IF i = 0 THEN 1 ELSE 2 * h[i - 1]
    <3>1. CASE i = n + 1
      <4>1. i # 0 /\ i - 1 = n /\ n \in 0 .. n + 1 /\ n # n + 1
        BY <3>1
      <4> QED
        BY <3>1, <4>1
    <3>2. CASE i # n + 1
      <4>1. i \in 0..n /\ (i # 0 => i - 1 \in 0 .. n + 1 /\ i - 1 # n + 1)
        BY <3>2
      <4> QED
        BY <2>1, <3>2, <4>1
    <3> QED
      BY <3>1, <3>2
  <2>3. h = [i \in 0 .. n + 1 |-> h[i]]
    OBVIOUS
  <2> HIDE DEF h
  <2>4. h = [i \in 0 .. n + 1 |-> IF i = 0 THEN 1 ELSE 2 * h[i - 1]]
    BY <2>2, <2>3
  <2> QED
    BY <2>4 DEF Powers
<1>3. \A n \in Nat : n \in T
  <2> HIDE DEF T
  <2> QED
    BY <1>1, <1>2, InductionOn
<1> QED
  BY <1>3

\* The recursion has a solution, so Pow2 is one.
LEMMA Pow2Is ==
  /\ Pow2[0] = 1
  /\ \A n \in Nat : Pow2[n + 1] = 2 * Pow2[n]
<1> DEFINE g(n) == CHOOSE g : Powers(g, n)
           f    == [n \in Nat |-> g(n)[n]]
           R(x) == x = [n \in Nat |-> IF n = 0 THEN 1 ELSE 2 * x[n - 1]]
<1>1. \A n \in Nat : Powers(g(n), n)
  BY PowersExist
<1> HIDE DEF g
<1>2. ASSUME NEW n \in Nat
      PROVE  f[n] = IF n = 0 THEN 1 ELSE 2 * f[n - 1]
  <2>1. n \in 0..n /\ f[n] = g(n)[n]
    OBVIOUS
  <2>2. g(n)[n] = IF n = 0 THEN 1 ELSE 2 * g(n)[n - 1]
    BY <1>1, <2>1 DEF Powers
  <2>3. ASSUME n # 0
        PROVE  g(n)[n - 1] = f[n - 1]
    <3>1. n - 1 \in Nat /\ n - 1 <= n /\ n - 1 <= n - 1
      BY <2>3
    <3>2. g(n)[n - 1] = g(n - 1)[n - 1]
      BY <1>1, <3>1, PowersSame
    <3> QED
      BY <3>1, <3>2
  <2> QED
    BY <2>1, <2>2, <2>3
<1>3. f = [n \in Nat |-> f[n]]
  OBVIOUS
<1> HIDE DEF f
<1>4. R(f)
  BY <1>2, <1>3
<1>5. Pow2 = CHOOSE x : R(x)
  BY DEF Pow2
<1>6. R(Pow2)
  <2> HIDE DEF R
  <2> QED
    BY <1>4, <1>5
<1>7. \A n \in Nat : Pow2[n] = IF n = 0 THEN 1 ELSE 2 * Pow2[n - 1]
  BY <1>6
<1>8. \A n \in Nat : n + 1 \in Nat /\ n + 1 # 0 /\ (n + 1) - 1 = n
  OBVIOUS
<1> QED
  BY <1>7, <1>8

LEMMA Pow2Positive == \A n \in Nat : Pow2[n] \in Nat /\ Pow2[n] > 0
<1> DEFINE T == {n \in Nat : Pow2[n] \in Nat /\ Pow2[n] > 0}
<1>1. 0 \in T
  BY Pow2Is
<1>2. ASSUME NEW n \in Nat, n \in T
      PROVE  n + 1 \in T
  <2>1. Pow2[n + 1] = 2 * Pow2[n] /\ Pow2[n] \in Nat /\ Pow2[n] > 0
    BY <1>2, Pow2Is
  <2> QED
    BY <2>1
<1>3. \A n \in Nat : n \in T
  <2> HIDE DEF T
  <2> QED
    BY <1>1, <1>2, InductionOn
<1> QED
  BY <1>3

\* A product of powers is the power of the sum.
LEMMA Pow2Adds == \A m, n \in Nat : Pow2[m + n] = Pow2[m] * Pow2[n]
<1> TAKE m \in Nat
<1> DEFINE T == {n \in Nat : Pow2[m + n] = Pow2[m] * Pow2[n]}
<1>1. 0 \in T
  <2>1. m + 0 = m /\ Pow2[m] * 1 = Pow2[m]
    BY Pow2Positive
  <2> QED
    BY <2>1, Pow2Is
<1>2. ASSUME NEW n \in Nat, n \in T
      PROVE  n + 1 \in T
  <2> DEFINE p == Pow2[m]
             q == Pow2[n]
  <2>1. p \in Nat /\ q \in Nat /\ m + n \in Nat /\ m + (n + 1) = (m + n) + 1
    BY Pow2Positive
  <2>2. Pow2[m + (n + 1)] = 2 * (p * q) /\ Pow2[n + 1] = 2 * q
    BY <1>2, <2>1, Pow2Is
  <2> HIDE DEF p, q
  <2>3. 2 * (p * q) = p * (2 * q)
    BY <2>1
  <2> QED
    BY <2>2, <2>3 DEF p
<1>3. \A n \in Nat : n \in T
  <2> HIDE DEF T
  <2> QED
    BY <1>1, <1>2, InductionOn
<1> QED
  BY <1>3

LEMMA Pow2Grows == \A m, n \in Nat : m <= n => Pow2[m] <= Pow2[n]
<1> SUFFICES ASSUME NEW m \in Nat, NEW n \in Nat, m <= n
             PROVE  Pow2[m] <= Pow2[n]
  OBVIOUS
<1> DEFINE p == Pow2[m]
           q == Pow2[n - m]
<1>1. n - m \in Nat /\ m + (n - m) = n
  OBVIOUS
<1>2. p \in Nat /\ q \in Nat /\ q > 0 /\ Pow2[n] = p * q
  BY <1>1, Pow2Positive, Pow2Adds
<1> HIDE DEF p, q
<1>3. p <= p * q
  BY <1>2
<1> QED
  BY <1>2, <1>3 DEF p

-----------------------------------------------------------------------------
(* Quotients and remainders.                                               *)

LEMMA DivMod ==
  ASSUME NEW n \in Nat, NEW d \in Nat, d > 0
  PROVE  /\ n \div d \in Nat /\ n % d \in Nat /\ n % d < d
         /\ n = (n \div d) * d + (n % d)
OBVIOUS

\* They are the only ones.
LEMMA DivIs ==
  ASSUME NEW q \in Nat, NEW d \in Nat, NEW r \in Nat, r < d
  PROVE  (q * d + r) \div d = q /\ (q * d + r) % d = r
<1> DEFINE n == q * d + r
           x == n \div d
           y == n % d
<1>1. n \in Nat /\ d > 0
  OBVIOUS
<1>2. x \in Nat /\ y \in Nat /\ y < d /\ n = x * d + y
  <2> HIDE DEF n
  <2> QED
    BY <1>1, DivMod
<1>3. q * d + r = x * d + y
  BY <1>2
<1> HIDE DEF n, x, y
<1>4. CASE x < q
  <2>1. x + 1 <= q /\ (x + 1) * d <= q * d
    BY <1>2, <1>4
  <2>2. (x + 1) * d = x * d + d /\ x * d \in Nat /\ q * d \in Nat
    BY <1>2
  <2> DEFINE xd == x * d
             qd == q * d
  <2>3. xd \in Nat /\ qd \in Nat /\ xd + d <= qd /\ qd + r = xd + y
    BY <1>3, <2>1, <2>2
  <2> HIDE DEF xd, qd
  <2> QED
    BY <1>2, <2>3
<1>5. CASE q < x
  <2>1. q + 1 <= x /\ (q + 1) * d <= x * d
    BY <1>2, <1>5
  <2>2. (q + 1) * d = q * d + d /\ x * d \in Nat /\ q * d \in Nat
    BY <1>2
  <2> DEFINE xd == x * d
             qd == q * d
  <2>3. xd \in Nat /\ qd \in Nat /\ qd + d <= xd /\ qd + r = xd + y
    BY <1>3, <2>1, <2>2
  <2> HIDE DEF xd, qd
  <2> QED
    BY <1>2, <2>3
<1>6. CASE x = q
  <2> DEFINE qd == q * d
  <2>1. qd \in Nat /\ qd + r = qd + y
    BY <1>3, <1>6
  <2> HIDE DEF qd
  <2>2. r = y
    BY <1>2, <2>1
  <2> QED
    BY <1>6, <2>2 DEF x, y, n
<1> QED
  BY <1>2, <1>4, <1>5, <1>6

\* A number below the modulus is its remainder.
LEMMA ModSmall ==
  ASSUME NEW n \in Nat, NEW d \in Nat, n < d
  PROVE  n % d = n
<1>1. 0 * d + n = n
  OBVIOUS
<1> QED
  BY <1>1, DivIs

-----------------------------------------------------------------------------
(* The constants.                                                          *)

LEMMA WidthsAre ==
  /\ Payload \in Nat /\ Payload > 0 /\ Acc \in Nat /\ Acc > 0
  /\ \A w \in Widths : w \in Nat /\ 0 < w /\ w <= Acc
  /\ Pow2[Payload] \in Nat /\ Pow2[Payload] > 0
  /\ Pow2[Payload - 1] \in Nat /\ Pow2[Payload - 1] > 0
  /\ Pow2[Payload] = 2 * Pow2[Payload - 1]
  /\ Pow2[Acc] \in Nat /\ Pow2[Acc - 1] \in Nat /\ Pow2[Acc - 1] > 0
  /\ Pow2[Acc] = 2 * Pow2[Acc - 1]
  /\ Byte = 0 .. 2 * Pow2[Payload] - 1
<1>1. Payload \in Nat /\ Payload > 0 /\ Acc \in Nat /\ Acc > 0
  BY LebAssumption
<1>2. \A w \in Widths : w \in Nat /\ 0 < w /\ w <= Acc
  BY <1>1, LebAssumption
<1>3. \A n \in Nat : n > 0 => n - 1 \in Nat /\ (n - 1) + 1 = n
  OBVIOUS
<1>4. \A n \in Nat : n > 0 => Pow2[n] = 2 * Pow2[n - 1]
  BY <1>3, Pow2Is
<1>5. Pow2[Payload + 1] = 2 * Pow2[Payload]
  BY <1>1, Pow2Is
<1> QED
  BY <1>1, <1>2, <1>3, <1>4, <1>5, Pow2Positive DEF Byte

\* A width takes MaxBytes bytes, of the last of which UsedBits bits.
LEMMA MaxBytesIs ==
  ASSUME NEW w \in Widths
  PROVE  /\ MaxBytes(w) \in Nat /\ MaxBytes(w) > 0
         /\ UsedBits(w) \in 1..Payload /\ UsedBits(w) = w - Payload * (MaxBytes(w) - 1)
         /\ w <= Payload * MaxBytes(w)
<1> DEFINE p == Payload
           n == w + p - 1
           q == n \div p
           r == n % p
<1>1. p \in Nat /\ p > 0 /\ w \in Nat /\ w > 0
  BY WidthsAre
<1>2. n \in Nat /\ n >= p
  BY <1>1
<1>3. MaxBytes(w) = q
  BY DEF MaxBytes
<1>4. q \in Nat /\ r \in Nat /\ r < p /\ n = q * p + r
  <2> HIDE DEF n, p
  <2> QED
    BY <1>1, <1>2, DivMod
<1>5. w = n - p + 1
  BY <1>1
<1> HIDE DEF n, q, r, p
<1>6. q > 0
  <2> SUFFICES ASSUME q = 0
               PROVE  FALSE
    BY <1>4
  <2>1. q * p = 0
    BY <1>1
  <2>2. n = r
    BY <1>4, <2>1
  <2> QED
    BY <1>1, <1>2, <1>4, <2>2
<1>7. p * q = q * p /\ p * (q - 1) = q * p - p /\ q * p \in Nat
  BY <1>1, <1>4
<1> DEFINE z == q * p
<1> HIDE DEF z
<1>8. p * q = z /\ p * (q - 1) = z - p /\ z \in Nat /\ n = z + r
  BY <1>4, <1>7 DEF z
<1>9. w - p * (q - 1) = r + 1 /\ w <= p * q
  BY <1>1, <1>2, <1>4, <1>5, <1>8
<1>10. UsedBits(w) = w - p * (q - 1)
  BY <1>3 DEF UsedBits, p
<1> QED
  BY <1>1, <1>3, <1>4, <1>6, <1>9, <1>10 DEF p

-----------------------------------------------------------------------------
(* What a sequence of bytes denotes.                                       *)

\* A recursion from the end: base where it stops, else a step from the next.
Down(t, k, stop, base, c, a) ==
  t = [i \in 1 .. k + 1 |-> IF stop[i] THEN base[i] ELSE {c * m + a[i] : m \in t[i + 1]}]

LEMMA DownExists ==
  ASSUME NEW k \in Nat, NEW stop, stop[k + 1], NEW base, NEW c, NEW a
  PROVE  \E t : Down(t, k, stop, base, c, a)
<1> DEFINE D(t, j) ==
             t = [i \in j .. k + 1 |-> IF stop[i] THEN base[i] ELSE {c * m + a[i] : m \in t[i + 1]}]
           T == {n \in Nat : n <= k => \E t : D(t, (k + 1) - n)}
<1>1. 0 \in T
  <2> DEFINE t == [i \in k + 1 .. k + 1 |-> base[i]]
  <2>1. t = [i \in k + 1 .. k + 1 |-> IF stop[i] THEN base[i] ELSE {c * m + a[i] : m \in t[i + 1]}]
    <3>1. \A i \in k + 1 .. k + 1 : i = k + 1
      OBVIOUS
    <3> QED
      BY <3>1
  <2>2. (k + 1) - 0 = k + 1
    OBVIOUS
  <2> HIDE DEF t
  <2> QED
    BY <2>1, <2>2
<1>2. ASSUME NEW n \in Nat, n \in T
      PROVE  n + 1 \in T
  <2> SUFFICES ASSUME n + 1 <= k
               PROVE  \E t : D(t, (k + 1) - (n + 1))
    OBVIOUS
  <2> DEFINE j == k - n
  <2>1. (k + 1) - n = j + 1 /\ (k + 1) - (n + 1) = j /\ j \in 1..k
    OBVIOUS
  <2> PICK t : D(t, j + 1)
    BY <1>2, <2>1
  <2> DEFINE u == [i \in j .. k + 1 |-> IF i = j THEN IF stop[j] THEN base[j]
                                                     ELSE {c * m + a[j] : m \in t[j + 1]}
                                        ELSE t[i]]
  <2> HIDE DEF j
  <2>2. \A i \in j + 1 .. k + 1 :
          t[i] = IF stop[i] THEN base[i] ELSE {c * m + a[i] : m \in t[i + 1]}
    OBVIOUS
  <2>3. ASSUME NEW i \in j .. k + 1
        PROVE  u[i] = IF stop[i] THEN base[i] ELSE {c * m + a[i] : m \in u[i + 1]}
    <3>1. CASE i = j
      <4>1. u[i + 1] = t[j + 1]
        BY <2>1, <3>1
      <4> QED
        BY <3>1, <4>1
    <3>2. CASE i = k + 1
      BY <2>1, <2>2, <3>2
    <3>3. CASE i # j /\ i # k + 1
      <4>1. i \in j + 1 .. k + 1 /\ i + 1 \in j .. k + 1 /\ i + 1 # j
        BY <2>1, <3>3
      <4>2. u[i] = t[i] /\ u[i + 1] = t[i + 1]
        BY <3>3, <4>1
      <4> HIDE DEF u
      <4> QED
        BY <2>2, <4>1, <4>2
    <3> QED
      BY <3>1, <3>2, <3>3
  <2>4. u = [i \in j .. k + 1 |-> u[i]]
    OBVIOUS
  <2> HIDE DEF u
  <2>5. u = [i \in j .. k + 1 |-> IF stop[i] THEN base[i] ELSE {c * m + a[i] : m \in u[i + 1]}]
    BY <2>3, <2>4
  <2> QED
    BY <2>1, <2>5
<1>3. \A n \in Nat : n \in T
  <2> HIDE DEF T
  <2> QED
    BY <1>1, <1>2, InductionOn
<1>4. (k + 1) - k = 1 /\ k <= k
  OBVIOUS
<1>5. \E t : D(t, 1)
  BY <1>3, <1>4
<1> QED
  BY <1>5 DEF Down

\* The bits of w that are left at place i.
BitsLeft(w, i) == w - Payload * (i - 1)

\* The recursion has a solution, so DenotedFrom is one.
LEMMA FromIs ==
  ASSUME NEW s \in Seq(Byte)
  PROVE  \A i \in 1 .. Len(s) + 1 :
           DenotedFrom(s, bits, kind)[i] =
             IF i > Len(s) \/ BitsLeft(bits, i) <= 0 THEN {}
             ELSE IF Continues(s[i])
             THEN {Pow2[Payload] * m + (s[i] - Pow2[Payload]) : m \in DenotedFrom(s, bits, kind)[i + 1]}
             ELSE IF i = Len(s) THEN LastByte(s[i], BitsLeft(bits, i), kind) ELSE {}
<1> DEFINE k == Len(s)
           B == Pow2[Payload]
           stop == [i \in 1 .. k + 1 |-> i > k \/ BitsLeft(bits, i) <= 0 \/ ~ Continues(s[i])]
           base == [i \in 1 .. k + 1 |-> IF i > k \/ BitsLeft(bits, i) <= 0 THEN {}
                                         ELSE IF i = k THEN LastByte(s[i], BitsLeft(bits, i), kind) ELSE {}]
           a == [i \in 1 .. k + 1 |-> s[i] - B]
           R(t) == t = [i \in 1 .. k + 1 |->
                     IF i > k \/ BitsLeft(bits, i) <= 0 THEN {}
                     ELSE IF Continues(s[i]) THEN {B * m + (s[i] - B) : m \in t[i + 1]}
                     ELSE IF i = k THEN LastByte(s[i], BitsLeft(bits, i), kind) ELSE {}]
           f == DenotedFrom(s, bits, kind)
<1>1. k \in Nat
  BY LenProperties
<1>2. stop[k + 1]
  <2>1. k + 1 \in 1 .. k + 1 /\ k + 1 > k
    BY <1>1
  <2> HIDE DEF k
  <2> QED
    BY <2>1
<1>3. ASSUME NEW t
      PROVE  Down(t, k, stop, base, B, a) => R(t)
  <2> DEFINE d(i) == IF stop[i] THEN base[i] ELSE {B * m + a[i] : m \in t[i + 1]}
             e(i) == IF i > k \/ BitsLeft(bits, i) <= 0 THEN {}
                     ELSE IF Continues(s[i]) THEN {B * m + (s[i] - B) : m \in t[i + 1]}
                     ELSE IF i = k THEN LastByte(s[i], BitsLeft(bits, i), kind) ELSE {}
  <2>1. ASSUME NEW i \in 1 .. k + 1
        PROVE  d(i) = e(i)
    <3>1. CASE i > k \/ BitsLeft(bits, i) <= 0
      BY <3>1
    <3>2. CASE ~ (i > k \/ BitsLeft(bits, i) <= 0) /\ Continues(s[i])
      <4>1. ~ stop[i] /\ a[i] = s[i] - B
        BY <3>2
      <4> HIDE DEF stop, a
      <4>2. d(i) = {B * m + (s[i] - B) : m \in t[i + 1]}
        BY <4>1
      <4> QED
        BY <3>2, <4>2
    <3>3. CASE ~ (i > k \/ BitsLeft(bits, i) <= 0) /\ ~ Continues(s[i])
      BY <3>3
    <3> QED
      BY <3>1, <3>2, <3>3
  <2> HIDE DEF d, e
  <2>2. [i \in 1 .. k + 1 |-> d(i)] = [i \in 1 .. k + 1 |-> e(i)]
    BY <2>1
  <2> QED
    BY <2>2 DEF Down, d, e
<1>4. \E t : Down(t, k, stop, base, B, a)
  <2> HIDE DEF stop, base, a, B
  <2> QED
    BY <1>1, <1>2, DownExists
<1>5. f = CHOOSE t : R(t)
  BY DEF DenotedFrom, BitsLeft
<1>6. R(f)
  <2> HIDE DEF R, f, stop, base, a, B
  <2> QED
    BY <1>3, <1>4, <1>5
<1> HIDE DEF f
<1>7. \A i \in 1 .. k + 1 :
        f[i] = IF i > k \/ BitsLeft(bits, i) <= 0 THEN {}
               ELSE IF Continues(s[i]) THEN {B * m + (s[i] - B) : m \in f[i + 1]}
               ELSE IF i = k THEN LastByte(s[i], BitsLeft(bits, i), kind) ELSE {}
  BY <1>6
<1> QED
  BY <1>7 DEF f

\* These are numbers.
LEMMA FromNumbers ==
  ASSUME NEW s \in Seq(Byte), bits \in Nat
  PROVE  \A i \in 1 .. Len(s) + 1 : DenotedFrom(s, bits, kind)[i] \subseteq Int
<1> DEFINE k == Len(s)
           f == DenotedFrom(s, bits, kind)
           B == Pow2[Payload]
           T == {n \in Nat : n <= k => f[(k + 1) - n] \subseteq Int}
<1>0. k \in Nat /\ B \in Nat /\ Pow2[Payload - 1] \in Nat
  BY LenProperties, WidthsAre
<1>1. \A i \in 1..k : s[i] \in Int
  BY ElementOfSeq, WidthsAre
<1>2. 0 \in T
  <2>1. (k + 1) - 0 = k + 1 /\ k + 1 \in 1 .. k + 1 /\ k + 1 > k
    BY <1>0
  <2>2. f[k + 1] = {}
    BY <2>1, FromIs
  <2> HIDE DEF f
  <2> QED
    BY <2>1, <2>2
<1>3. ASSUME NEW n \in Nat, n \in T
      PROVE  n + 1 \in T
  <2> SUFFICES ASSUME n + 1 <= k
               PROVE  f[(k + 1) - (n + 1)] \subseteq Int
    OBVIOUS
  <2> DEFINE i == (k + 1) - (n + 1)
  <2>1. i \in 1..k /\ i \in 1 .. k + 1 /\ (k + 1) - n = i + 1
    BY <1>0
  <2>2. f[i + 1] \subseteq Int
    BY <1>3, <2>1
  <2> HIDE DEF i
  <2>3. LastByte(s[i], BitsLeft(bits, i), kind) \subseteq Int
    BY <1>0, <1>1, <2>1 DEF LastByte
  <2>4. {B * m + (s[i] - B) : m \in f[i + 1]} \subseteq Int
    <3> HIDE DEF B, f
    <3> QED
      BY <1>0, <1>1, <2>1, <2>2
  <2>5. f[i] = IF i > k \/ BitsLeft(bits, i) <= 0 THEN {}
               ELSE IF Continues(s[i]) THEN {B * m + (s[i] - B) : m \in f[i + 1]}
               ELSE IF i = k THEN LastByte(s[i], BitsLeft(bits, i), kind) ELSE {}
    BY <2>1, FromIs
  <2> HIDE DEF f, B
  <2> QED
    BY <2>3, <2>4, <2>5 DEF i
<1>4. \A n \in Nat : n \in T
  <2> HIDE DEF T
  <2> QED
    BY <1>2, <1>3, InductionOn
<1>5. ASSUME NEW i \in 1 .. k + 1
      PROVE  f[i] \subseteq Int
  <2>1. i \in Nat /\ i >= 1 /\ i <= k + 1
    BY <1>0
  <2> HIDE DEF k, f
  <2> DEFINE n == (k + 1) - i
  <2>2. n \in Nat /\ n <= k /\ (k + 1) - n = i
    BY <1>0, <2>1
  <2> HIDE DEF n
  <2> QED
    BY <1>4, <2>2
<1> QED
  BY <1>5

\* R sums the payloads of the first j bytes of s, which all continue.
Gathers(R, s, j, w) ==
  /\ R[0] = 0
  /\ \A i \in 1..j : /\ Continues(s[i]) /\ BitsLeft(w, i) > 0
                     /\ R[i] = R[i - 1] + (s[i] - Pow2[Payload]) * Pow2[Payload * (i - 1)]

\* The numbers denoted are the payloads so far and what the rest denotes.
LEMMA DenotedByRest ==
  ASSUME NEW s \in Seq(Byte), bits \in Nat, NEW k \in 0 .. Len(s), NEW R,
         Gathers(R, s, k, bits)
  PROVE  /\ R[k] \in Int
         /\ Denoted(s) = {R[k] + Pow2[Payload * k] * m : m \in DenotedFrom(s, bits, kind)[k + 1]}
<1> DEFINE f == DenotedFrom(s, bits, kind)
           B == Pow2[Payload]
           p(j) == Pow2[Payload * j]
           T == {j \in Nat : j <= k => /\ R[j] \in Int
                                       /\ f[1] = {R[j] + p(j) * m : m \in f[j + 1]}}
<1>0. B \in Nat /\ Payload \in Nat /\ Len(s) \in Nat /\ k \in Nat
  BY WidthsAre, LenProperties
<1>1. \A i \in 1 .. Len(s) + 1 : f[i] \subseteq Int
  BY FromNumbers
<1>2. \A i \in 1 .. Len(s) : s[i] \in Int
  <2>1. Byte \subseteq Int
    BY WidthsAre
  <2> QED
    BY <2>1, ElementOfSeq
<1>3. \A j \in Nat : /\ p(j) \in Nat
                     /\ p(j + 1) = B * p(j)
  <2> TAKE j \in Nat
  <2> DEFINE x == Payload * j
  <2>1. x \in Nat /\ Payload * (j + 1) = Payload + x
    BY <1>0
  <2> HIDE DEF x
  <2>2. Pow2[x] \in Nat /\ Pow2[Payload + x] = B * Pow2[x]
    BY <1>0, <2>1, Pow2Positive, Pow2Adds
  <2> QED
    BY <2>1, <2>2 DEF x
<1>4. 0 \in T
  <2>1. p(0) = 1
    <3>1. Payload * 0 = 0
      BY <1>0
    <3> QED
      BY <3>1, Pow2Is
  <2>2. f[1] \subseteq Int
    BY <1>0, <1>1
  <2>3. R[0] = 0
    BY DEF Gathers
  <2> HIDE DEF f, p
  <2>4. \A m \in f[1] : 0 + 1 * m = m
    BY <2>2
  <2>5. f[1] = {0 + 1 * m : m \in f[1]}
    BY <2>4
  <2> QED
    BY <2>1, <2>3, <2>5
<1>5. ASSUME NEW j \in Nat, j \in T
      PROVE  j + 1 \in T
  <2> SUFFICES ASSUME j + 1 <= k
               PROVE  /\ R[j + 1] \in Int
                      /\ f[1] = {R[j + 1] + p(j + 1) * m : m \in f[(j + 1) + 1]}
    OBVIOUS
  <2> DEFINE i == j + 1
             a == s[i] - B
  <2>1. i \in 1..k /\ i \in 1 .. Len(s) /\ i - 1 = j /\ j <= k /\ i \in 1 .. Len(s) + 1
        /\ i + 1 \in 1 .. Len(s) + 1 /\ ~ (i > Len(s))
    BY <1>0
  <2>2. R[j] \in Int /\ f[1] = {R[j] + p(j) * m : m \in f[i]}
    BY <1>5, <2>1
  <2>3. Continues(s[i]) /\ BitsLeft(bits, i) > 0 /\ R[i] = R[j] + a * p(j)
    BY <2>1 DEF Gathers
  <2>4. f[i] = {B * m + a : m \in f[i + 1]}
    <3>1. ~ (BitsLeft(bits, i) <= 0)
      <4>1. Payload * (i - 1) \in Int
        BY <1>0
      <4> QED
        BY <2>3, <4>1 DEF BitsLeft
    <3> QED
      BY <2>1, <2>3, <3>1, FromIs
  <2>5. f[i + 1] \subseteq Int /\ a \in Int
    BY <1>0, <1>1, <1>2, <2>1
  <2>6. p(j) \in Nat /\ p(i) = B * p(j)
    BY <1>3
  <2> HIDE DEF f, a, B, i, p
  <2>7. ASSUME NEW m \in Int
        PROVE  R[j] + p(j) * (B * m + a) = R[i] + p(i) * m
    <3> DEFINE x == p(j)
    <3>1. x * (B * m + a) = (B * x) * m + a * x
      BY <1>0, <2>5, <2>6
    <3>2. (B * x) * m \in Int /\ a * x \in Int
      BY <1>0, <2>5, <2>6
    <3> QED
      BY <2>2, <2>3, <2>6, <3>1, <3>2
  <2>8. f[1] = {R[i] + p(i) * m : m \in f[i + 1]}
    <3>1. f[1] = {R[j] + p(j) * (B * m + a) : m \in f[i + 1]}
      BY <2>2, <2>4
    <3> QED
      BY <2>5, <2>7, <3>1
  <2>9. R[i] \in Int
    BY <2>2, <2>3, <2>5, <2>6
  <2> QED
    BY <2>8, <2>9 DEF i
<1>6. \A j \in Nat : j \in T
  <2> HIDE DEF T
  <2> QED
    BY <1>4, <1>5, InductionOn
<1>7. k <= k
  BY <1>0
<1> QED
  BY <1>0, <1>6, <1>7 DEF Denoted

\* Sums of a prefix are sums of what begins with it.
LEMMA GathersPrefix ==
  ASSUME NEW R, NEW s, NEW u, NEW k, Gathers(R, s, k, bits), \A i \in 1..k : u[i] = s[i]
  PROVE  Gathers(R, u, k, bits)
BY DEF Gathers

\* The sum of one more byte.
LEMMA GathersNext ==
  ASSUME NEW R, NEW k \in Nat, NEW s, Gathers(R, s, k, bits), Continues(s[k + 1]), BitsLeft(bits, k + 1) > 0
  PROVE  \E Q : /\ Gathers(Q, s, k + 1, bits) /\ Q[k] = R[k]
                /\ Q[k + 1] = R[k] + (s[k + 1] - Pow2[Payload]) * Pow2[Payload * k]
<1> DEFINE a(i) == (s[i] - Pow2[Payload]) * Pow2[Payload * (i - 1)]
           Q == [i \in 0 .. k + 1 |-> IF i = k + 1 THEN R[k] + a(k + 1) ELSE R[i]]
<1>1. (k + 1) - 1 = k /\ 0 # k + 1 /\ k # k + 1 /\ 0 \in 0 .. k + 1 /\ k \in 0 .. k + 1
      /\ k + 1 \in 0 .. k + 1
  OBVIOUS
<1>2. Q[0] = R[0] /\ Q[k] = R[k] /\ Q[k + 1] = R[k] + a(k + 1)
  BY <1>1
<1>3. ASSUME NEW i \in 1 .. k + 1
      PROVE  Continues(s[i]) /\ BitsLeft(bits, i) > 0 /\ Q[i] = Q[i - 1] + a(i)
  <2>1. CASE i = k + 1
    <3>1. Q[i - 1] = R[k]
      BY <1>1, <1>2, <2>1
    <3> HIDE DEF Q, a
    <3> QED
      BY <1>2, <2>1, <3>1
  <2>2. CASE i # k + 1
    <3>1. i \in 1..k /\ i \in 0 .. k + 1 /\ i - 1 \in 0 .. k + 1 /\ i - 1 # k + 1
      BY <2>2
    <3>2. Q[i] = R[i] /\ Q[i - 1] = R[i - 1]
      BY <2>2, <3>1
    <3> HIDE DEF Q
    <3> QED
      BY <3>1, <3>2 DEF Gathers
  <2> QED
    BY <2>1, <2>2
<1> HIDE DEF Q
<1>4. Gathers(Q, s, k + 1, bits)
  BY <1>2, <1>3 DEF Gathers
<1> QED
  BY <1>1, <1>2, <1>4

\* A byte that ends the number, after k that continue.
LEMMA DenotedByLast ==
  ASSUME NEW s \in Seq(Byte), bits \in Nat, NEW k \in Nat, Len(s) = k + 1, NEW R,
         Gathers(R, s, k, bits), ~ Continues(s[k + 1]), BitsLeft(bits, k + 1) > 0
  PROVE  Denoted(s) = {R[k] + Pow2[Payload * k] * m : m \in LastByte(s[k + 1], BitsLeft(bits, k + 1), kind)}
<1>1. k \in 0 .. Len(s) /\ k + 1 \in 1 .. Len(s) + 1 /\ ~ (k + 1 > Len(s))
  OBVIOUS
<1>2. ~ (BitsLeft(bits, k + 1) <= 0)
  <2>1. Payload * ((k + 1) - 1) \in Int
    BY WidthsAre
  <2> QED
    BY <2>1 DEF BitsLeft
<1>3. DenotedFrom(s, bits, kind)[k + 1] = LastByte(s[k + 1], BitsLeft(bits, k + 1), kind)
  BY <1>1, <1>2, FromIs
<1> QED
  BY <1>1, <1>3, DenotedByRest

\* Nothing follows the byte that ends a number, and no byte follows when no
\* bits are left.
LEMMA NothingDenoted ==
  ASSUME NEW s \in Seq(Byte), bits \in Nat, NEW k \in 0 .. Len(s), NEW R,
         Gathers(R, s, k, bits),
         \/ k < Len(s) - 1 /\ ~ Continues(s[k + 1])
         \/ BitsLeft(bits, k + 1) <= 0
  PROVE  Denoted(s) = {}
<1>1. k \in Nat /\ Len(s) \in Nat /\ k + 1 \in 1 .. Len(s) + 1
  BY LenProperties
<1>2. DenotedFrom(s, bits, kind)[k + 1] = {}
  <2>1. CASE k < Len(s) - 1 /\ ~ Continues(s[k + 1])
    <3>1. k + 1 # Len(s)
      BY <1>1, <2>1
    <3> QED
      BY <1>1, <2>1, <3>1, FromIs
  <2>2. CASE BitsLeft(bits, k + 1) <= 0
    BY <1>1, <2>2, FromIs
  <2> QED
    BY <2>1, <2>2
<1> QED
  BY <1>2, DenotedByRest

-----------------------------------------------------------------------------
(* The last byte.                                                          *)

\* The bits left after k bytes that continue.
LEMMA LeftIs ==
  ASSUME bits \in Widths, NEW k \in Nat, k < MaxBytes(bits)
  PROVE  /\ Payload * k \in Nat /\ BitsLeft(bits, k + 1) \in Nat /\ BitsLeft(bits, k + 1) > 0
         /\ Payload * k + BitsLeft(bits, k + 1) = bits
         /\ k # MaxBytes(bits) - 1 => BitsLeft(bits, k + 1) > Payload
         /\ k = MaxBytes(bits) - 1 => /\ BitsLeft(bits, k + 1) = UsedBits(bits)
                                      /\ BitsLeft(bits, (k + 1) + 1) <= 0
<1> DEFINE p == Payload
           mx == MaxBytes(bits)
           u == UsedBits(bits)
<1>1. p \in Nat /\ p > 0 /\ bits \in Nat /\ mx \in Nat /\ mx > 0
      /\ u \in 1..p /\ u = bits - p * (mx - 1)
  BY WidthsAre, MaxBytesIs
<1>2. BitsLeft(bits, k + 1) = bits - p * k /\ BitsLeft(bits, (k + 1) + 1) = bits - p * (k + 1)
  <2>1. (k + 1) - 1 = k /\ ((k + 1) + 1) - 1 = k + 1
    OBVIOUS
  <2> QED
    BY <2>1 DEF BitsLeft
<1> HIDE DEF p, mx, u
<1>3. p * k \in Nat
  BY <1>1
<1>4. CASE k = mx - 1
  <2>1. p * (k + 1) = p * k + p
    BY <1>1
  <2>2. bits - p * k = u
    BY <1>1, <1>4
  <2> DEFINE z == p * k
  <2> HIDE DEF z
  <2>3. z \in Nat /\ bits - z = u /\ BitsLeft(bits, (k + 1) + 1) = bits - (z + p) /\ BitsLeft(bits, k + 1) = bits - z
    BY <1>2, <1>3, <2>1, <2>2 DEF z
  <2> QED
    BY <1>1, <1>4, <2>3 DEF z, p, mx, u
<1>5. CASE k # mx - 1
  <2> DEFINE d == (mx - 1) - k
  <2>1. d \in Nat /\ d >= 1 /\ mx - 1 = k + d
    BY <1>1, <1>5 DEF mx
  <2> HIDE DEF d
  <2>2. p * (k + d) = p * k + p * d /\ p * d >= p /\ p * d \in Nat
    BY <1>1, <2>1
  <2> DEFINE z == p * k
             y == p * d
  <2> HIDE DEF z, y
  <2>3. z \in Nat /\ y \in Nat /\ y >= p /\ u = bits - (z + y) /\ BitsLeft(bits, k + 1) = bits - z
    BY <1>1, <1>2, <1>3, <2>1, <2>2 DEF z, y
  <2> QED
    BY <1>1, <1>5, <2>3 DEF z, p, mx, u
<1> QED
  BY <1>4, <1>5 DEF mx

\* What a payload is as a signed number.
Signed(b) == IF b < Pow2[Payload - 1] THEN b ELSE b - Pow2[Payload]

\* The test of the code for the sign: of h times 2 g values, those whose bits
\* from g on are all the same.
LEMMA SameBits ==
  ASSUME NEW g \in Nat, g > 0, NEW h \in Nat, h > 0, NEW b \in Nat, b < h * (2 * g)
  PROVE  b \div (2 * g) = ((b \div g) % 2) * (h - 1) <=>
           IF b < h * g THEN b < g ELSE b - h * (2 * g) >= -g
<1> DEFINE e == b \div g
           r == b % g
           q == e \div 2
           z == e % 2
<1>1. e \in Nat /\ r \in Nat /\ r < g /\ b = e * g + r
  BY DivMod
<1>2. q \in Nat /\ z \in {0, 1} /\ e = q * 2 + z
  <2> HIDE DEF e
  <2>1. \A x \in Nat : /\ x \div 2 \in Nat /\ (x % 2) \in {0, 1}
                      /\ x = (x \div 2) * 2 + (x % 2)
    OBVIOUS
  <2> QED
    BY <1>1, <2>1
<1> HIDE DEF e, r, q, z
<1>3. b = q * (2 * g) + (z * g + r) /\ z * g + r \in Nat /\ z * g + r < 2 * g
  <2>1. CASE z = 0
    BY <1>1, <1>2, <2>1
  <2>2. CASE z = 1
    BY <1>1, <1>2, <2>2
  <2> QED
    BY <1>2, <2>1, <2>2
<1>4. b \div (2 * g) = q
  <2> DEFINE d == 2 * g
             y == z * g + r
  <2>1. d \in Nat /\ y \in Nat /\ y < d /\ b = q * d + y
    BY <1>3
  <2> HIDE DEF d, y
  <2>2. b \div d = q
    BY <1>2, <2>1, DivIs
  <2> QED
    BY <2>2 DEF d
<1>5. q < h
  <2> SUFFICES ASSUME q >= h
               PROVE  FALSE
    BY <1>2
  <2>1. q * (2 * g) >= h * (2 * g)
    BY <1>2
  <2> DEFINE x == q * (2 * g)
             y == h * (2 * g)
  <2>2. x \in Nat /\ y \in Nat /\ x >= y /\ b < y /\ b >= x
    BY <1>2, <1>3, <2>1
  <2> HIDE DEF x, y
  <2> QED
    BY <2>2
<1>6. h * (2 * g) = 2 * (h * g) /\ q * (2 * g) = 2 * (q * g) /\ h * g \in Nat /\ q * g \in Nat
  BY <1>2
<1>7. CASE z = 0
  <2>1. q = z * (h - 1) <=> q = 0
    BY <1>2, <1>7
  <2>2. ASSUME q = 0
        PROVE  b < g /\ b < h * g
    <3>1. b = r /\ h * g >= g
      BY <1>1, <1>3, <1>7, <2>2
    <3> QED
      BY <1>1, <1>6, <3>1
  <2>3. ASSUME q # 0
        PROVE  b >= g /\ b - h * (2 * g) < -g
    <3>1. q * g >= g
      BY <1>2, <2>3
    <3>2. (q + 1) * g <= h * g /\ (q + 1) * g = q * g + g
      BY <1>2, <1>5
    <3> DEFINE x == q * g
               y == h * g
    <3>3. x \in Nat /\ y \in Nat /\ x >= g /\ x + g <= y /\ b = 2 * x + r /\ h * (2 * g) = 2 * y
      BY <1>1, <1>2, <1>3, <1>6, <1>7, <3>1, <3>2
    <3> HIDE DEF x, y
    <3> QED
      BY <1>1, <3>3
  <2> QED
    BY <1>4, <2>1, <2>2, <2>3 DEF e, z
<1>8. CASE z = 1
  <2>1. q = z * (h - 1) <=> q = h - 1
    BY <1>2, <1>8
  <2>2. ASSUME q = h - 1
        PROVE  b >= h * g /\ b - h * (2 * g) >= -g
    <3>1. q * g = h * g - g /\ h * g >= g
      BY <1>2, <2>2
    <3> DEFINE x == q * g
               y == h * g
    <3>2. x \in Nat /\ y \in Nat /\ x = y - g /\ y >= g /\ b = 2 * x + (g + r) /\ h * (2 * g) = 2 * y
      BY <1>1, <1>2, <1>3, <1>6, <1>8, <3>1
    <3> HIDE DEF x, y
    <3> QED
      BY <1>1, <3>2
  <2>3. ASSUME q # h - 1
        PROVE  b >= g /\ b - h * (2 * g) < -g
    <3>1. q + 2 <= h
      BY <1>2, <1>5, <2>3
    <3>2. (q + 2) * g <= h * g /\ (q + 2) * g = q * g + 2 * g
      BY <1>2, <3>1
    <3> DEFINE x == q * g
               y == h * g
    <3>3. x \in Nat /\ y \in Nat /\ x + 2 * g <= y /\ b = 2 * x + (g + r) /\ h * (2 * g) = 2 * y
      BY <1>1, <1>2, <1>3, <1>6, <1>8, <3>2
    <3> HIDE DEF x, y
    <3> QED
      BY <1>1, <3>3
  <2> QED
    BY <1>4, <2>1, <2>2, <2>3 DEF e, z
<1> QED
  BY <1>2, <1>7, <1>8

\* A byte that does not continue is its payload, one that does has it above.
LEMMA PayloadIs ==
  ASSUME NEW b \in Byte
  PROVE  /\ b \in Nat
         /\ ~ Continues(b) => b < Pow2[Payload] /\ PayloadOf(b) = b
         /\ Continues(b) => /\ PayloadOf(b) = b - Pow2[Payload]
                            /\ b - Pow2[Payload] \in Nat /\ b - Pow2[Payload] < Pow2[Payload]
<1> DEFINE B == Pow2[Payload]
<1>1. B \in Nat /\ B > 0 /\ b \in 0 .. 2 * B - 1
  BY WidthsAre
<1> HIDE DEF B
<1>2. b < B => b % B = b
  BY <1>1, ModSmall
<1>3. ASSUME b >= B
      PROVE  b % B = b - B
  <2> DEFINE r == b - B
  <2>1. r \in Nat /\ r < B /\ 1 * B + r = b
    BY <1>1, <1>3
  <2> HIDE DEF r
  <2>2. (1 * B + r) % B = r
    BY <1>1, <2>1, DivIs
  <2> QED
    BY <2>1, <2>2 DEF r
<1>4. b >= B => b - B \in Nat /\ b - B < B
  BY <1>1
<1>5. b \in Nat /\ (~ (b >= B) => b < B)
  BY <1>1
<1> QED
  BY <1>2, <1>3, <1>4, <1>5 DEF Continues, PayloadOf, B

\* The number a last byte stands for, and whether it does.
Last(b) == IF kind = "unsigned" THEN b ELSE Signed(b)

LEMMA LastByteIs ==
  ASSUME bits \in Widths, NEW k \in Nat, k < MaxBytes(bits),
         NEW b \in Byte, ~ Continues(b)
  PROVE  LastByte(b, BitsLeft(bits, k + 1), kind) =
           IF k = MaxBytes(bits) - 1 /\ ~ UnusedBitsOk(b) THEN {} ELSE {Last(b)}
<1> DEFINE rest == BitsLeft(bits, k + 1)
           B == Pow2[Payload]
           G == Pow2[Payload - 1]
           g == Pow2[rest - 1]
<1>0. /\ rest \in Nat /\ rest > 0 /\ rest - 1 \in Nat /\ (rest - 1) + 1 = rest
      /\ k # MaxBytes(bits) - 1 => rest > Payload
      /\ k = MaxBytes(bits) - 1 => rest = UsedBits(bits)
  BY LeftIs
<1>1. /\ Payload \in Nat /\ Payload > 0 /\ B \in Nat /\ G \in Nat /\ G > 0 /\ B = 2 * G
      /\ UsedBits(bits) \in 1..Payload
  BY WidthsAre, MaxBytesIs
<1>2. b \in Nat /\ b < B
  BY PayloadIs
<1>3. /\ g \in Nat /\ g > 0 /\ Pow2[rest] = 2 * g
  <2> HIDE DEF rest
  <2>1. Pow2[(rest - 1) + 1] = 2 * Pow2[rest - 1]
    BY <1>0, Pow2Is
  <2> QED
    BY <1>0, <2>1, Pow2Positive
<1>4. rest > Payload => B <= g
  <2> HIDE DEF rest
  <2>1. rest > Payload => Payload <= rest - 1
    BY <1>0, <1>1
  <2> QED
    BY <1>0, <1>1, <2>1, Pow2Grows
<1>5. CASE kind = "unsigned"
  <2>1. UnusedBitsOk(b) <=> b < Pow2[UsedBits(bits)]
    BY <1>5 DEF UnusedBitsOk, ZeroUnused
  <2>2. LastByte(b, rest, kind) = {n \in {b} : n < Pow2[rest]} /\ Last(b) = b
    BY <1>5 DEF LastByte, Last
  <2>3. k # MaxBytes(bits) - 1 => b < Pow2[rest]
    <3> HIDE DEF rest, g, B
    <3> QED
      BY <1>0, <1>1, <1>2, <1>3, <1>4
  <2> HIDE DEF rest
  <2>4. b < Pow2[rest] => {n \in {b} : n < Pow2[rest]} = {b}
    OBVIOUS
  <2>5. ~ (b < Pow2[rest]) => {n \in {b} : n < Pow2[rest]} = {}
    OBVIOUS
  <2> QED
    BY <1>0, <2>1, <2>2, <2>3, <2>4, <2>5 DEF rest
<1>6. CASE kind # "unsigned"
  <2> DEFINE v == Signed(b)
             fits == -g <= v /\ v < g
  <2>1. LastByte(b, rest, kind) = {n \in {v} : -g <= n /\ n < g} /\ Last(b) = v
    BY <1>6 DEF LastByte, Last, Signed
  <2>2. v = (IF b < G THEN b ELSE b - B) /\ v \in Int
    BY <1>1, <1>2 DEF Signed
  <2>3. k # MaxBytes(bits) - 1 => fits
    <3> HIDE DEF rest, g, B, G, v
    <3> QED
      BY <1>0, <1>1, <1>2, <1>3, <1>4, <2>2
  <2>4. k = MaxBytes(bits) - 1 => (fits <=> UnusedBitsOk(b))
    <3> SUFFICES ASSUME k = MaxBytes(bits) - 1
                 PROVE  fits <=> UnusedBitsOk(b)
      OBVIOUS
    <3> DEFINE h == Pow2[Payload - rest]
    <3>1. rest \in 1..Payload /\ rest = UsedBits(bits)
      BY <1>0, <1>1
    <3>2. h \in Nat /\ h > 0 /\ B = h * (2 * g) /\ G = h * g
      <4> HIDE DEF rest
      <4>1. Payload - rest \in Nat /\ (Payload - rest) + rest = Payload
            /\ (Payload - rest) + (rest - 1) = Payload - 1
        BY <1>1, <3>1
      <4>2. Pow2[(Payload - rest) + rest] = h * Pow2[rest]
        BY <1>0, <4>1, Pow2Adds
      <4>3. Pow2[(Payload - rest) + (rest - 1)] = h * g
        BY <1>0, <4>1, Pow2Adds
      <4> QED
        BY <1>3, <4>1, <4>2, <4>3, Pow2Positive
    <3>3. UnusedBitsOk(b) <=> b \div Pow2[rest] = ((b \div g) % 2) * (h - 1)
      BY <1>6, <3>1 DEF UnusedBitsOk, SignUnused
    <3> HIDE DEF rest, g, h, B, G, v
    <3>4. b \div (2 * g) = ((b \div g) % 2) * (h - 1) <=>
            IF b < h * g THEN b < g ELSE b - h * (2 * g) >= -g
      BY <1>2, <1>3, <3>2, SameBits
    <3>5. fits <=> IF b < G THEN b < g ELSE b - B >= -g
      BY <1>1, <1>2, <1>3, <2>2
    <3> QED
      BY <1>3, <3>2, <3>3, <3>4, <3>5
  <2> HIDE DEF rest, g, v
  <2>5. fits => {n \in {v} : -g <= n /\ n < g} = {v}
    OBVIOUS
  <2>6. ~ fits => {n \in {v} : -g <= n /\ n < g} = {}
    OBVIOUS
  <2> HIDE DEF fits
  <2> QED
    BY <2>1, <2>3, <2>4, <2>5, <2>6 DEF rest
<1> QED
  BY <1>5, <1>6

\* A negative number is kept above the middle of the accumulator.
LEMMA Wraps ==
  ASSUME NEW A \in Nat, NEW y \in Nat, y > 0, NEW x \in Int, x < 0, x >= -A
  PROVE  (x + y * A) % A = x + A
<1> DEFINE q == y - 1
           r == x + A
<1>1. q \in Nat /\ r \in Nat /\ r < A
  OBVIOUS
<1>2. y * A = q * A + A /\ q * A \in Nat
  OBVIOUS
<1>3. x + y * A = q * A + r
  <2> DEFINE z == q * A
             w == y * A
  <2>1. w = z + A /\ z \in Nat
    BY <1>2
  <2> HIDE DEF z, w
  <2>2. x + w = z + r
    BY <2>1
  <2> QED
    BY <2>2 DEF z, w
<1> HIDE DEF q, r
<1>4. (q * A + r) % A = r
  BY <1>1, DivIs
<1> QED
  BY <1>3, <1>4 DEF r

\* The accumulator after the last byte is the number, in the width of the
\* accumulator: no bit of it is lost, and its sign is.
LEMMA FinalIs ==
  ASSUME bits \in Widths, NEW k \in Nat, k < MaxBytes(bits),
         shift = Payload * k, result \in Nat, result < Pow2[shift],
         NEW b \in Byte, ~ Continues(b), LastByte(b, BitsLeft(bits, k + 1), kind) = {Last(b)}
  PROVE  /\ Final(b) \in 0 .. Pow2[Acc] - 1
         /\ ValueOf(Final(b)) = result + Pow2[shift] * Last(b)
         /\ kind # "unsigned" => (Negative(Final(b)) <=> ValueOf(Final(b)) < 0)
<1> DEFINE rest == BitsLeft(bits, k + 1)
           B == Pow2[Payload]
           G == Pow2[Payload - 1]
           g == Pow2[rest - 1]
           p == Pow2[shift]
           A == Pow2[Acc]
           H == Pow2[Acc - 1]
           n == result
           s == shift + Payload
<1>0. /\ rest \in Nat /\ rest > 0 /\ rest - 1 \in Nat /\ (rest - 1) + 1 = rest
      /\ shift \in Nat /\ shift + rest = bits /\ shift + (rest - 1) = bits - 1
      /\ bits \in Nat /\ bits - 1 \in Nat /\ bits <= Acc
      /\ bits - 1 <= Acc - 1 /\ Acc - 1 \in Nat /\ Acc \in Nat /\ Payload \in Nat /\ s \in Nat
  <2>1. /\ rest \in Nat /\ rest > 0 /\ shift \in Nat /\ shift + rest = bits
    BY LeftIs
  <2>2. bits \in Nat /\ bits > 0 /\ bits <= Acc /\ Acc \in Nat /\ Acc > 0 /\ Payload \in Nat
    BY WidthsAre
  <2> HIDE DEF rest
  <2> QED
    BY <2>1, <2>2
<1>1. /\ B \in Nat /\ B > 0 /\ G \in Nat /\ B = 2 * G /\ A \in Nat /\ H \in Nat /\ H > 0 /\ A = 2 * H
  BY WidthsAre
<1>2. b \in Nat /\ b < B /\ PayloadOf(b) = b
  BY PayloadIs
<1>3. /\ p \in Nat /\ p > 0 /\ g \in Nat /\ g > 0 /\ Pow2[rest] = 2 * g
      /\ p * g <= H /\ Pow2[s] = p * B
  <2> HIDE DEF rest, s
  <2>1. Pow2[(rest - 1) + 1] = 2 * Pow2[rest - 1]
    BY <1>0, Pow2Is
  <2>2. Pow2[shift + (rest - 1)] = p * g
    BY <1>0, Pow2Adds
  <2>3. Pow2[bits - 1] <= H
    BY <1>0, Pow2Grows
  <2>4. Pow2[shift + Payload] = p * B
    BY <1>0, Pow2Adds
  <2> QED
    BY <1>0, <2>1, <2>2, <2>3, <2>4, Pow2Positive DEF s
<1>4. Gathered(b) = (n + b * p) % A
  BY <1>2 DEF Gathered
<1>5. CASE kind = "unsigned"
  <2>1. Last(b) = b /\ b < 2 * g
    <3>1. Last(b) = b /\ LastByte(b, rest, kind) = {m \in {b} : m < Pow2[rest]}
      BY <1>5 DEF Last, LastByte
    <3> HIDE DEF rest, g
    <3>2. b \in {m \in {b} : m < Pow2[rest]}
      BY <3>1 DEF rest
    <3> QED
      BY <1>3, <3>1, <3>2
  <2>2. n + b * p \in Nat /\ n + b * p < A
    <3> HIDE DEF g, p, A, n, B, H
    <3>1. n \in Nat /\ n < p
      BY DEF n, p
    <3>2. (b + 1) * p <= (2 * g) * p /\ (b + 1) * p = b * p + p /\ (2 * g) * p = 2 * (p * g)
      BY <1>2, <1>3, <2>1
    <3> DEFINE x == b * p
               y == p * g
    <3>3. x \in Nat /\ y \in Nat /\ x + p <= 2 * y /\ y <= H
      BY <1>2, <1>3, <3>2
    <3> HIDE DEF x, y
    <3>4. n + x \in Nat /\ n + x < A
      BY <1>1, <1>3, <3>1, <3>3
    <3> QED
      BY <3>4 DEF x
  <2>3. Final(b) = n + b * p
    <3>1. Final(b) = Gathered(b)
      BY <1>5 DEF Final
    <3>2. (n + b * p) % A = n + b * p
      <4> DEFINE x == n + b * p
      <4> HIDE DEF A, x
      <4>1. x \in Nat /\ A \in Nat /\ x < A
        BY <1>1, <2>2 DEF x
      <4>2. x % A = x
        BY <4>1, ModSmall
      <4> QED
        BY <4>2 DEF x
    <3> QED
      BY <1>4, <3>1, <3>2
  <2>4. ValueOf(Final(b)) = n + b * p
    BY <1>5, <2>3 DEF ValueOf
  <2>5. b * p = p * b
    <3> HIDE DEF p
    <3> QED
      BY <1>2, <1>3
  <2>6. n + b * p \in 0 .. A - 1
    <3> DEFINE x == n + b * p
    <3> HIDE DEF x, A
    <3>1. x \in Nat /\ x < A
      BY <2>2 DEF x
    <3>2. x \in 0 .. A - 1
      BY <1>1, <3>1
    <3> QED
      BY <3>2 DEF x
  <2> QED
    BY <1>5, <2>1, <2>3, <2>4, <2>5, <2>6
<1>6. CASE kind # "unsigned"
  <2> DEFINE v == Signed(b)
             x == n + p * v
             r == Final(b)
  <2>1. Last(b) = v /\ -g <= v /\ v < g
    <3>1. Last(b) = v /\ LastByte(b, rest, kind) = {m \in {v} : -g <= m /\ m < g}
      BY <1>6 DEF Last, LastByte, Signed
    <3> HIDE DEF rest, g, v
    <3>2. v \in {m \in {v} : -g <= m /\ m < g}
      BY <3>1 DEF rest
    <3> QED
      BY <3>1, <3>2
  <2>2. /\ v = IF b < G THEN b ELSE b - B
        /\ v \in Int
    BY <1>1, <1>2 DEF Signed
  <2>3. n \in Nat /\ n < p
    OBVIOUS
  <2>4. x \in Int /\ -H <= x /\ x < H /\ (x < 0 <=> v < 0)
    <3> HIDE DEF g, p, H, n, v
    <3>1. p * v >= -(p * g) /\ p * v + p <= p * g
      <4>1. p * (-g) <= p * v /\ p * (-g) = -(p * g)
        BY <1>3, <2>1, <2>2
      <4>2. p * (v + 1) <= p * g /\ p * (v + 1) = p * v + p
        BY <1>3, <2>1, <2>2
      <4> QED
        BY <4>1, <4>2
    <3>2. (v < 0 => p * v + p <= 0) /\ (v >= 0 => p * v >= 0)
      <4>1. ASSUME v < 0
            PROVE  p * v + p <= 0
        <5>1. p * (v + 1) <= p * 0 /\ p * (v + 1) = p * v + p /\ p * 0 = 0
          BY <1>3, <2>2, <4>1
        <5> QED
          BY <5>1
      <4>2. ASSUME v >= 0
            PROVE  p * v >= 0
        BY <1>3, <2>2, <4>2
      <4> QED
        BY <4>1, <4>2
    <3> DEFINE y == p * v
               z == p * g
    <3>3. /\ y \in Int /\ z \in Nat /\ z <= H /\ y >= -z /\ y + p <= z /\ x = n + y
          /\ (v < 0 => y + p <= 0) /\ (v >= 0 => y >= 0)
      BY <1>3, <2>2, <3>1, <3>2
    <3> HIDE DEF y, z, x
    <3> QED
      BY <1>1, <1>3, <2>2, <2>3, <3>3
  <2>5. r = IF s < Acc /\ b >= G THEN Gathered(b) + A - Pow2[s] ELSE Gathered(b)
    <3>1. Final(b) = SignExtended(b, Gathered(b), s)
      BY <1>6 DEF Final
    <3>2. SignExtended(b, Gathered(b), s) =
            IF s < Acc /\ b >= G THEN Gathered(b) + A - Pow2[s] ELSE Gathered(b)
      BY <1>2 DEF SignExtended
    <3> QED
      BY <3>1, <3>2
  <2>6. ValueOf(r) = IF r < H THEN r ELSE r - A
    BY <1>6 DEF ValueOf
  <2>7. CASE b < G
    <3>1. v = b /\ ~ (b >= G) /\ x >= 0
      BY <1>1, <1>2, <2>2, <2>4, <2>7
    <3>2. n + b * p = x
      <4> HIDE DEF p, n, v
      <4> QED
        BY <1>2, <1>3, <2>3, <3>1
    <3>3. x % A = x
      <4> HIDE DEF x, A, H
      <4>1. x \in Nat /\ x < A
        BY <1>1, <2>4, <3>1
      <4> QED
        BY <1>1, <4>1, ModSmall
    <3>4. r = x
      BY <1>4, <2>5, <3>1, <3>2, <3>3
    <3> HIDE DEF x, r, A, H
    <3> QED
      BY <1>1, <2>1, <2>4, <2>6, <3>1, <3>4 DEF x, r, A, H, Negative
  <2>8. CASE ~ (b < G)
    <3>1. v = b - B /\ b >= G /\ x < 0
      BY <1>1, <1>2, <2>2, <2>4, <2>8
    <3>2. n + b * p = x + Pow2[s]
      <4> HIDE DEF p, n, v, B, s
      <4>1. p * v = p * b - p * B /\ p * b = b * p
        BY <1>1, <1>2, <1>3, <3>1
      <4> DEFINE y == p * v
                 z == b * p
                 w == p * B
      <4>2. y = z - w /\ y \in Int /\ z \in Int /\ w \in Int /\ Pow2[s] = w /\ x = n + y
        BY <1>1, <1>2, <1>3, <2>2, <4>1
      <4> HIDE DEF y, z, w, x
      <4>3. n + z = x + w
        BY <2>3, <4>2
      <4> QED
        BY <4>2, <4>3 DEF z
    <3>3. r = x + A
      <4>1. CASE s < Acc
        <5>1. Pow2[s] <= A /\ Pow2[s] \in Nat
          <6> HIDE DEF s
          <6> QED
            BY <1>0, <4>1, Pow2Grows, Pow2Positive
        <5>2. x + Pow2[s] \in Nat
          <6>1. b * p \in Nat
            <7> HIDE DEF p
            <7> QED
              BY <1>2, <1>3
          <6> HIDE DEF n, p, x
          <6> QED
            BY <2>3, <3>2, <6>1
        <5> DEFINE q == Pow2[s]
        <5> HIDE DEF q, x, A, H
        <5>3. (x + q) % A = x + q
          <6>1. x + q \in Nat /\ x + q < A
            BY <1>1, <2>4, <3>1, <5>1, <5>2 DEF q
          <6> QED
            BY <1>1, <6>1, ModSmall
        <5>4. Gathered(b) = x + q
          BY <1>4, <3>2, <5>3 DEF q
        <5>5. r = x + q + A - q
          BY <2>5, <3>1, <4>1, <5>4 DEF q
        <5> QED
          BY <1>1, <2>4, <5>1, <5>5 DEF q
      <4>2. CASE ~ (s < Acc)
        <5> DEFINE y == Pow2[s - Acc]
        <5>1. y \in Nat /\ y > 0 /\ Pow2[s] = y * A
          <6> HIDE DEF s
          <6>1. s - Acc \in Nat /\ (s - Acc) + Acc = s
            BY <1>0, <4>2
          <6> QED
            BY <1>0, <6>1, Pow2Positive, Pow2Adds
        <5> HIDE DEF y, x, A, H
        <5>2. (x + y * A) % A = x + A
          <6>1. x \in Int /\ x < 0 /\ x >= -A
            BY <1>1, <2>4, <3>1
          <6> QED
            BY <1>1, <5>1, <6>1, Wraps
        <5>3. Gathered(b) = x + A
          BY <1>4, <3>2, <5>1, <5>2
        <5> QED
          BY <2>5, <4>2, <5>3
      <4> QED
        BY <4>1, <4>2
    <3> HIDE DEF x, r, A, H
    <3>4. /\ r \in 0 .. A - 1 /\ ~ (r < H) /\ r - A = x /\ r >= H
      BY <1>1, <2>4, <3>1, <3>3
    <3>5. ValueOf(r) = x
      BY <2>6, <3>4
    <3>6. Negative(r)
      BY <3>4 DEF Negative, H
    <3> QED
      BY <2>1, <3>1, <3>4, <3>5, <3>6 DEF x, r, A
  <2> QED
    BY <2>7, <2>8
<1> QED
  BY <1>5, <1>6

-----------------------------------------------------------------------------
(* The invariant.                                                          *)

\* While it is reading, the accumulator holds the payloads read.
Gathering ==
  /\ Len(input) < MaxBytes(bits)
  /\ shift = Payload * Len(input) /\ result < Pow2[shift]
  /\ \E R : Gathers(R, input, Len(input), bits) /\ R[Len(input)] = result

\* What is refused begins no encoding, however it goes on.
Refused ==
  status \in {"too long", "too large"} => \A t \in Seq(Byte) : Denoted(input \o t) = {}

LebInv ==
  /\ kind \in {"unsigned", "signed", "block"} /\ bits \in Widths /\ input \in Seq(Byte)
  /\ NumbersAreTheirs /\ Refused
  /\ status = "reading" => Gathering

\* What the bytes read so far are, with b after them and t after that.
LEMMA Appended ==
  ASSUME NEW b \in Byte, input \in Seq(Byte), NEW t \in Seq(Byte)
  PROVE  LET s == Append(input, b)
             k == Len(input)
         IN /\ k \in Nat /\ s \in Seq(Byte) /\ Len(s) = k + 1
            /\ s \o t \in Seq(Byte) /\ Len(s \o t) = (k + 1) + Len(t) /\ Len(t) \in Nat
            /\ s[k + 1] = b /\ (s \o t)[k + 1] = b
            /\ \A i \in 1..k : s[i] = input[i] /\ (s \o t)[i] = input[i]
<1> DEFINE s == Append(input, b)
           k == Len(input)
<1>1. /\ k \in Nat /\ s \in Seq(Byte) /\ Len(s) = k + 1 /\ s[k + 1] = b
      /\ \A i \in 1..k : s[i] = input[i]
  BY LenProperties, AppendProperties
<1>2. \A i \in 1 .. k + 1 : (s \o t)[i] = s[i]
  <2> HIDE DEF s
  <2> QED
    BY <1>1, ConcatProperties
<1>3. s \o t \in Seq(Byte) /\ Len(s \o t) = (k + 1) + Len(t) /\ Len(t) \in Nat
  <2>1. Len(t) \in Nat
    BY LenProperties
  <2> HIDE DEF s, k
  <2>2. s \o t \in Seq(Byte) /\ Len(s \o t) = Len(s) + Len(t)
    BY <1>1, ConcatProperties
  <2> QED
    BY <1>1, <2>1, <2>2
<1>4. k + 1 \in 1 .. k + 1 /\ \A i \in 1..k : i \in 1 .. k + 1
  BY <1>1
<1> QED
  BY <1>1, <1>2, <1>3, <1>4

\* A byte of a type is a negative number, whatever follows.
LEMMA TypeByteStep ==
  ASSUME LebInv, status = "reading", NEW b \in Byte, IsTypeByte(b)
  PROVE  /\ \A n \in Denoted(Append(input, b)) : n < 0
         /\ \A c \in Byte : Denoted(Append(Append(input, b), c)) = {}
<1> DEFINE s == Append(input, b)
<1>1. /\ kind = "block" /\ input = <<>> /\ b \in TypeBytes /\ bits \in Widths /\ Gathering
      /\ input \in Seq(Byte)
  BY DEF IsTypeByte, LebInv
<1>2. Len(input) = 0 /\ bits \in Nat
  BY <1>1, EmptySeq, WidthsAre
<1>3. PICK R : Gathers(R, input, 0, bits) /\ 0 < MaxBytes(bits)
  BY <1>1, <1>2 DEF Gathering
<1>4. BitsLeft(bits, 0 + 1) > 0
  BY <1>1, <1>3, LeftIs
<1>5. /\ b < Pow2[Payload] /\ ~ (b < Pow2[Payload - 1]) /\ ~ Continues(b) /\ b \in Nat
      /\ Pow2[Payload] \in Nat
  <2>1. /\ b \in Pow2[Payload - 1] .. Pow2[Payload] - 1
        /\ Pow2[Payload] \in Nat /\ Pow2[Payload - 1] \in Nat
    BY <1>1, WidthsAre, LebAssumption
  <2> QED
    BY <2>1 DEF Continues
<1>6. ASSUME NEW u \in Seq(Byte), u[1] = b
      PROVE  /\ Len(u) = 1 => \A n \in Denoted(u) : n < 0
             /\ Len(u) = 2 => Denoted(u) = {}
  <2>1. Gathers(R, u, 0, bits)
    BY <1>3 DEF Gathers
  <2>2. 0 + 1 = 1 /\ 0 \in Nat /\ R[0] = 0
    BY <1>3 DEF Gathers
  <2>3. ASSUME Len(u) = 1, NEW n \in Denoted(u)
        PROVE  n < 0
    <3>1. Denoted(u) = {R[0] + Pow2[Payload * 0] * m : m \in LastByte(u[0 + 1], BitsLeft(bits, 0 + 1), kind)}
      <4>1. Len(u) = 0 + 1
        BY <2>2, <2>3
      <4>2. ~ Continues(u[0 + 1])
        BY <1>5, <1>6, <2>2
      <4>3. u \in Seq(Byte) /\ bits \in Nat
        BY <1>2, <1>6
      <4> QED
        BY <1>4, <2>1, <2>2, <4>1, <4>2, <4>3, DenotedByLast
    <3>2. Pow2[Payload * 0] = 1
      <4>1. Payload * 0 = 0
        BY WidthsAre
      <4> QED
        BY <4>1, Pow2Is
    <3>3. LastByte(b, BitsLeft(bits, 0 + 1), kind) \subseteq {b - Pow2[Payload]}
      BY <1>1, <1>5 DEF LastByte
    <3>4. b - Pow2[Payload] < 0 /\ 0 + 1 * (b - Pow2[Payload]) = b - Pow2[Payload]
      BY <1>5
    <3> QED
      BY <1>6, <2>2, <2>3, <3>1, <3>2, <3>3, <3>4
  <2>4. ASSUME Len(u) = 2
        PROVE  Denoted(u) = {}
    <3>1. 0 < Len(u) - 1 /\ 0 \in 0 .. Len(u)
      BY <2>4
    <3> QED
      BY <1>2, <1>5, <1>6, <2>1, <2>2, <3>1, NothingDenoted
  <2> QED
    BY <2>3, <2>4
<1>7. s \in Seq(Byte) /\ Len(s) = 1 /\ s[1] = b
  BY <1>1, <1>2, AppendProperties
<1>8. \A c \in Byte : Append(s, c) \in Seq(Byte) /\ Len(Append(s, c)) = 2 /\ Append(s, c)[1] = b
  <2> TAKE c \in Byte
  <2> HIDE DEF s
  <2>1. Append(s, c) \in Seq(Byte) /\ Len(Append(s, c)) = Len(s) + 1
    BY <1>7, AppendProperties
  <2>2. 1 \in 1 .. Len(s) /\ Len(s) + 1 = 2
    BY <1>7
  <2>3. Append(s, c)[1] = s[1]
    BY <1>7, <2>2, AppendProperties
  <2> QED
    BY <1>7, <2>1, <2>2, <2>3
<1> HIDE DEF s
<1> QED
  BY <1>6, <1>7, <1>8 DEF s

\* Nothing begins with more bytes that continue than the width takes.
LEMMA TooLongStep ==
  ASSUME LebInv, status = "reading", NEW b \in Byte,
         Len(input) = MaxBytes(bits) - 1, Continues(b), NEW t \in Seq(Byte)
  PROVE  Denoted(Append(input, b) \o t) = {}
<1> DEFINE u == Append(input, b) \o t
           k == Len(input)
<1>1. bits \in Widths /\ input \in Seq(Byte) /\ Gathering /\ bits \in Nat
  BY WidthsAre DEF LebInv
<1>2. k \in Nat /\ k < MaxBytes(bits)
  BY <1>1, LenProperties DEF Gathering
<1>3. /\ u \in Seq(Byte) /\ Len(u) = (k + 1) + Len(t) /\ Len(t) \in Nat /\ u[k + 1] = b
      /\ \A i \in 1..k : u[i] = input[i]
  BY <1>1, Appended
<1> PICK R : Gathers(R, input, k, bits)
  BY <1>1 DEF Gathering
<1>4. BitsLeft(bits, k + 1) > 0 /\ BitsLeft(bits, (k + 1) + 1) <= 0
  BY <1>1, <1>2, LeftIs
<1> HIDE DEF u
<1>5. Gathers(R, u, k, bits)
  BY <1>3, GathersPrefix
<1>6. \E Q : Gathers(Q, u, k + 1, bits)
  BY <1>2, <1>3, <1>4, <1>5, GathersNext
<1>7. k + 1 \in 0 .. Len(u)
  BY <1>2, <1>3
<1> QED
  BY <1>1, <1>3, <1>4, <1>6, <1>7, NothingDenoted DEF u

\* Nothing begins with a number that is too large for its width.
LEMMA TooLargeStep ==
  ASSUME LebInv, status = "reading", NEW b \in Byte,
         Len(input) = MaxBytes(bits) - 1, ~ Continues(b), ~ UnusedBitsOk(b), NEW t \in Seq(Byte)
  PROVE  Denoted(Append(input, b) \o t) = {}
<1> DEFINE s == Append(input, b)
           u == s \o t
           k == Len(input)
<1>1. bits \in Widths /\ input \in Seq(Byte) /\ Gathering /\ bits \in Nat
  BY WidthsAre DEF LebInv
<1>2. k \in Nat /\ k < MaxBytes(bits)
  BY <1>1, LenProperties DEF Gathering
<1>3. /\ u \in Seq(Byte) /\ Len(u) = (k + 1) + Len(t) /\ Len(t) \in Nat /\ u[k + 1] = b
      /\ \A i \in 1..k : u[i] = input[i]
  BY <1>1, Appended
<1> PICK R : Gathers(R, input, k, bits)
  BY <1>1 DEF Gathering
<1>4. BitsLeft(bits, k + 1) > 0
  BY <1>1, <1>2, LeftIs
<1>5. LastByte(b, BitsLeft(bits, k + 1), kind) = {}
  BY <1>1, <1>2, LastByteIs
<1> HIDE DEF u
<1>6. Gathers(R, u, k, bits)
  BY <1>3, GathersPrefix
<1>7. CASE Len(t) = 0
  <2>1. Len(u) = k + 1
    BY <1>2, <1>3, <1>7
  <2>2. Denoted(u) = {R[k] + Pow2[Payload * k] * m : m \in LastByte(u[k + 1], BitsLeft(bits, k + 1), kind)}
    BY <1>1, <1>2, <1>3, <1>4, <1>6, <2>1, DenotedByLast
  <2> QED
    BY <1>3, <1>5, <2>2 DEF u
<1>8. CASE Len(t) # 0
  <2>1. k < Len(u) - 1 /\ k \in 0 .. Len(u)
    BY <1>2, <1>3, <1>8
  <2> QED
    BY <1>1, <1>3, <1>6, <2>1, NothingDenoted DEF u
<1> QED
  BY <1>7, <1>8

\* A byte that continues adds its payload; none of it is lost.
LEMMA ContinueStep ==
  ASSUME LebInv, status = "reading", NEW b \in Byte,
         Len(input) # MaxBytes(bits) - 1, Continues(b)
  PROVE  /\ Len(input) + 1 < MaxBytes(bits)
         /\ shift + Payload = Payload * (Len(input) + 1) /\ shift + Payload < Acc
         /\ Gathered(b) \in 0 .. Pow2[Acc] - 1 /\ Gathered(b) < Pow2[shift + Payload]
         /\ \E R : /\ Gathers(R, Append(input, b), Len(input) + 1, bits)
                   /\ R[Len(input) + 1] = Gathered(b)
<1> DEFINE s == Append(input, b)
           k == Len(input)
           p == Pow2[shift]
           B == Pow2[Payload]
           A == Pow2[Acc]
           a == b - B
<1>1. bits \in Widths /\ input \in Seq(Byte) /\ Gathering /\ bits \in Nat
  BY WidthsAre DEF LebInv
<1>2. k \in Nat /\ k < MaxBytes(bits) /\ MaxBytes(bits) \in Nat
  BY <1>1, LenProperties, MaxBytesIs DEF Gathering
<1>3. k + 1 \in Nat /\ k + 1 < MaxBytes(bits)
  BY <1>2
<1>4. /\ shift = Payload * k /\ result < p /\ result \in Nat
      /\ Payload \in Nat /\ Acc \in Nat /\ bits <= Acc /\ A \in Nat /\ B \in Nat /\ B > 0
  BY <1>1, WidthsAre DEF Gathering, LebInv, NumbersAreTheirs, AccumulatorOK
<1>5. /\ shift \in Nat /\ BitsLeft(bits, k + 1) > 0
      /\ Payload * (k + 1) \in Nat /\ Payload * (k + 1) < Acc
  <2>1. shift \in Nat /\ BitsLeft(bits, k + 1) > 0
    BY <1>1, <1>2, <1>4, LeftIs
  <2> DEFINE l == BitsLeft(bits, (k + 1) + 1)
             x == Payload * (k + 1)
  <2>2. x \in Nat /\ l \in Nat /\ l > 0 /\ x + l = bits
    BY <1>1, <1>3, LeftIs
  <2> HIDE DEF l, x
  <2>3. x < Acc
    BY <1>1, <1>4, <2>2
  <2> QED
    BY <2>1, <2>2, <2>3 DEF x
<1>6. shift + Payload = Payload * (k + 1)
  <2>1. Payload * (k + 1) = Payload * k + Payload
    BY <1>2, <1>4
  <2> QED
    BY <1>4, <2>1
<1>7. p \in Nat /\ p > 0 /\ Pow2[shift + Payload] = p * B /\ p * B <= A
  <2> DEFINE x == Payload * (k + 1)
  <2>1. x \in Nat /\ x <= Acc /\ x = shift + Payload
    BY <1>4, <1>5, <1>6
  <2> HIDE DEF x
  <2>2. Pow2[x] <= A
    BY <1>4, <2>1, Pow2Grows
  <2>3. Pow2[shift + Payload] = p * B
    BY <1>4, <1>5, Pow2Adds
  <2>4. p \in Nat /\ p > 0
    BY <1>5, Pow2Positive
  <2> QED
    BY <2>1, <2>2, <2>3, <2>4
<1>8. PayloadOf(b) = a /\ a \in Nat /\ a < B
  BY PayloadIs
<1>9. result + a * p \in Nat /\ result + a * p < p * B
  <2> HIDE DEF p, B, a
  <2>1. (a + 1) * p <= B * p /\ (a + 1) * p = a * p + p /\ B * p = p * B
    BY <1>4, <1>7, <1>8
  <2> DEFINE x == a * p
             y == p * B
  <2>2. x \in Nat /\ y \in Nat /\ x + p <= y
    BY <1>4, <1>7, <1>8, <2>1
  <2> HIDE DEF x, y
  <2>3. result + x \in Nat /\ result + x < y
    BY <1>4, <1>7, <2>2
  <2> QED
    BY <2>3 DEF x, y
<1>10. Gathered(b) = result + a * p
  <2> DEFINE x == result + a * p
             y == p * B
  <2>1. x \in Nat /\ x < y /\ y \in Nat /\ y <= A
    BY <1>4, <1>7, <1>9
  <2> HIDE DEF x, y, A
  <2>2. x < A
    BY <1>4, <2>1
  <2>3. x % A = x
    BY <1>4, <2>1, <2>2, ModSmall
  <2>4. Gathered(b) = x % A
    BY <1>8 DEF Gathered, x, A
  <2> QED
    BY <2>3, <2>4 DEF x
<1>11. Gathered(b) \in 0 .. A - 1 /\ Gathered(b) < Pow2[shift + Payload]
  <2> DEFINE x == result + a * p
             y == p * B
  <2>1. x \in Nat /\ x < y /\ y \in Nat /\ y <= A
    BY <1>4, <1>7, <1>9
  <2> HIDE DEF x, y, A
  <2>2. x \in 0 .. A - 1
    BY <1>4, <2>1
  <2> QED
    BY <1>7, <1>10, <2>1, <2>2 DEF x, y
<1>12. \E R : Gathers(R, s, k + 1, bits) /\ R[k + 1] = Gathered(b)
  <2> PICK R : Gathers(R, input, k, bits) /\ R[k] = result
    BY <1>1 DEF Gathering
  <2>1. <<>> \in Seq(Byte)
    BY EmptySeq
  <2>2. s[k + 1] = b /\ \A i \in 1..k : s[i] = input[i]
    BY <1>1, <2>1, Appended
  <2> HIDE DEF s
  <2>3. Gathers(R, s, k, bits)
    BY <2>2, GathersPrefix
  <2>4. Continues(s[k + 1])
    BY <2>2
  <2> PICK Q : /\ Gathers(Q, s, k + 1, bits)
               /\ Q[k + 1] = R[k] + (s[k + 1] - Pow2[Payload]) * Pow2[Payload * k]
    BY <1>2, <1>5, <2>3, <2>4, GathersNext
  <2>5. Q[k + 1] = Gathered(b)
    BY <1>4, <1>10, <2>2
  <2> QED
    BY <2>5
<1> QED
  BY <1>3, <1>5, <1>6, <1>11, <1>12

\* The last byte makes the number denoted.
LEMMA LastStep ==
  ASSUME LebInv, status = "reading", NEW b \in Byte, ~ Continues(b),
         ~ (Len(input) = MaxBytes(bits) - 1 /\ ~ UnusedBitsOk(b))
  PROVE  /\ Final(b) \in 0 .. Pow2[Acc] - 1
         /\ Denoted(Append(input, b)) = {ValueOf(Final(b))}
         /\ kind # "unsigned" => (Negative(Final(b)) <=> ValueOf(Final(b)) < 0)
<1> DEFINE s == Append(input, b)
           k == Len(input)
<1>1. bits \in Widths /\ input \in Seq(Byte) /\ Gathering /\ bits \in Nat
  BY WidthsAre DEF LebInv
<1>2. k \in Nat /\ k < MaxBytes(bits)
  BY <1>1, LenProperties DEF Gathering
<1>3. shift = Payload * k /\ result < Pow2[shift] /\ result \in Nat
  BY <1>1, WidthsAre DEF Gathering, LebInv, NumbersAreTheirs, AccumulatorOK
<1>4. LastByte(b, BitsLeft(bits, k + 1), kind) = {Last(b)}
  BY <1>1, <1>2, LastByteIs
<1>5. /\ Final(b) \in 0 .. Pow2[Acc] - 1
      /\ ValueOf(Final(b)) = result + Pow2[shift] * Last(b)
      /\ kind # "unsigned" => (Negative(Final(b)) <=> ValueOf(Final(b)) < 0)
  BY <1>1, <1>2, <1>3, <1>4, FinalIs
<1> PICK R : Gathers(R, input, k, bits) /\ R[k] = result
  BY <1>1 DEF Gathering
<1>6. <<>> \in Seq(Byte)
  BY EmptySeq
<1>7. s \in Seq(Byte) /\ Len(s) = k + 1 /\ s[k + 1] = b /\ \A i \in 1..k : s[i] = input[i]
  BY <1>1, <1>6, Appended
<1>8. BitsLeft(bits, k + 1) > 0
  BY <1>1, <1>2, LeftIs
<1> HIDE DEF s
<1>9. Gathers(R, s, k, bits)
  BY <1>7, GathersPrefix
<1>10. Denoted(s) = {R[k] + Pow2[Payload * k] * m : m \in LastByte(s[k + 1], BitsLeft(bits, k + 1), kind)}
  BY <1>1, <1>2, <1>7, <1>8, <1>9, DenotedByLast
<1>11. Denoted(s) = {result + Pow2[shift] * Last(b)}
  BY <1>3, <1>4, <1>7, <1>10
<1> QED
  BY <1>5, <1>11 DEF s

-----------------------------------------------------------------------------
(* The steps.                                                              *)

LEMMA InitLeb ==
  ASSUME NumberInit
  PROVE  LebInv
<1>1. /\ kind \in {"unsigned", "signed", "block"} /\ bits \in Widths
      /\ shift = 0 /\ result = 0 /\ status = "reading" /\ input = <<>>
  BY DEF NumberInit
<1>2. input \in Seq(Byte) /\ Len(input) = 0
  BY <1>1, EmptySeq
<1>3. Payload \in Nat /\ Acc \in Nat /\ Acc > 0 /\ Pow2[Acc] \in Nat /\ Pow2[Acc] > 0 /\ Payload * 0 = 0
  BY WidthsAre, Pow2Positive
<1>4. AccumulatorOK
  BY <1>1, <1>2, <1>3 DEF AccumulatorOK
<1>5. Gathering
  <2>1. MaxBytes(bits) > 0 /\ Pow2[0] = 1
    BY <1>1, MaxBytesIs, Pow2Is
  <2> DEFINE R == [i \in 0 .. 0 |-> 0]
  <2>2. Gathers(R, input, 0, bits) /\ R[0] = 0
    BY DEF Gathers
  <2> HIDE DEF R
  <2> QED
    BY <1>1, <1>2, <1>3, <2>1, <2>2 DEF Gathering
<1> QED
  BY <1>1, <1>2, <1>4, <1>5
     DEF LebInv, NumbersAreTheirs, AcceptsItsValue, RejectsNoNumber, TypesShadowNoIndex, Refused

LEMMA ReadStep ==
  ASSUME LebInv, NEW b \in Byte, ReadByte(b)
  PROVE  LebInv'
<1> DEFINE s == Append(input, b)
           k == Len(input)
<1>1. /\ status = "reading" /\ input' = s /\ kind' = kind /\ bits' = bits
      /\ kind \in {"unsigned", "signed", "block"} /\ bits \in Widths /\ input \in Seq(Byte)
      /\ AccumulatorOK /\ Gathering /\ result \in 0 .. Pow2[Acc] - 1
  BY DEF ReadByte, LebInv, NumbersAreTheirs, AccumulatorOK
<1>2. <<>> \in Seq(Byte)
  BY EmptySeq
<1>3. s \in Seq(Byte) /\ k \in Nat /\ Len(s) = k + 1
  BY <1>1, <1>2, Appended
<1> HIDE DEF s, k
<1>4. \A u : DenotedFrom(u, bits', kind')[1] = Denoted(u)
  BY <1>1 DEF Denoted
<1>5. kind' \in {"unsigned", "signed", "block"} /\ bits' \in Widths /\ input' \in Seq(Byte)
  BY <1>1, <1>3
<1>6. CASE IsTypeByte(b)
  <2>1. status' = "type" /\ result' = result
    BY <1>6 DEF ReadByte
  <2>2. /\ \A n \in Denoted(s) : n < 0
        /\ \A c \in Byte : Denoted(Append(s, c)) = {}
    BY <1>1, <1>6, TypeByteStep DEF s
  <2>3. TypesShadowNoIndex'
    <3>1. \A n \in DenotedFrom(input', bits', kind')[1] : n < 0
      BY <1>1, <1>4, <2>2
    <3>2. \A c \in Byte : DenotedFrom(Append(input', c), bits', kind')[1] = {}
      BY <1>1, <1>4, <2>2
    <3> QED
      BY <3>1, <3>2 DEF TypesShadowNoIndex, Denoted
  <2>4. AccumulatorOK' /\ AcceptsItsValue' /\ RejectsNoNumber' /\ Refused' /\ (status = "reading" => Gathering)'
    BY <1>1, <2>1 DEF AccumulatorOK, AcceptsItsValue, RejectsNoNumber, Refused
  <2> QED
    BY <1>5, <2>3, <2>4 DEF LebInv, NumbersAreTheirs
<1>7. ASSUME ~ IsTypeByte(b), k = MaxBytes(bits) - 1, Continues(b) \/ ~ UnusedBitsOk(b)
      PROVE  LebInv'
  <2>1. status' \in {"too long", "too large"} /\ result' = result
    BY <1>7 DEF ReadByte, k
  <2>2. \A t \in Seq(Byte) : Denoted(s \o t) = {}
    BY <1>1, <1>7, TooLongStep, TooLargeStep DEF s, k
  <2>3. \A t \in Seq(Byte) : DenotedFrom(input' \o t, bits', kind')[1] = {}
    BY <1>1, <1>4, <2>2
  <2>4. Refused'
    BY <2>3 DEF Refused, Denoted
  <2>5. RejectsNoNumber'
    <3>1. \A t \in {<<>>} \cup {<<c>> : c \in Byte} : DenotedFrom(input' \o t, bits', kind')[1] = {}
      <4>1. \A c \in Byte : <<c>> \in Seq(Byte)
        OBVIOUS
      <4> QED
        BY <1>2, <2>3, <4>1
    <3> QED
      BY <2>1, <3>1 DEF RejectsNoNumber, Denoted
  <2>6. AccumulatorOK' /\ AcceptsItsValue' /\ TypesShadowNoIndex' /\ (status = "reading" => Gathering)'
    BY <1>1, <2>1 DEF AccumulatorOK, AcceptsItsValue, TypesShadowNoIndex
  <2> QED
    BY <1>5, <2>4, <2>5, <2>6 DEF LebInv, NumbersAreTheirs
<1>8. ASSUME ~ IsTypeByte(b), k # MaxBytes(bits) - 1, Continues(b)
      PROVE  LebInv'
  <2>1. status' = "reading" /\ shift' = shift + Payload /\ result' = Gathered(b)
    BY <1>8 DEF ReadByte, k
  <2>2. /\ k + 1 < MaxBytes(bits)
        /\ shift + Payload = Payload * (k + 1) /\ shift + Payload < Acc
        /\ Gathered(b) \in 0 .. Pow2[Acc] - 1 /\ Gathered(b) < Pow2[shift + Payload]
        /\ \E R : Gathers(R, s, k + 1, bits) /\ R[k + 1] = Gathered(b)
    BY <1>1, <1>8, ContinueStep DEF s, k
  <2>3. Len(input') = k + 1
    BY <1>1, <1>3
  <2>4. AccumulatorOK'
    BY <2>1, <2>2, <2>3 DEF AccumulatorOK
  <2>5. Gathering'
    BY <1>1, <2>1, <2>2, <2>3 DEF Gathering, MaxBytes
  <2>6. AcceptsItsValue' /\ RejectsNoNumber' /\ TypesShadowNoIndex' /\ Refused'
    BY <2>1 DEF AcceptsItsValue, RejectsNoNumber, TypesShadowNoIndex, Refused
  <2> QED
    BY <1>5, <2>4, <2>5, <2>6 DEF LebInv, NumbersAreTheirs
<1>9. ASSUME ~ IsTypeByte(b), ~ (k = MaxBytes(bits) - 1 /\ ~ UnusedBitsOk(b)), ~ Continues(b)
      PROVE  LebInv'
  <2>1. /\ result' = Final(b)
        /\ status' = IF kind = "block" /\ Negative(Final(b)) THEN "malformed" ELSE "ok"
    BY <1>9 DEF ReadByte, k
  <2>2. /\ Final(b) \in 0 .. Pow2[Acc] - 1
        /\ Denoted(s) = {ValueOf(Final(b))}
        /\ kind # "unsigned" => (Negative(Final(b)) <=> ValueOf(Final(b)) < 0)
    BY <1>1, <1>9, LastStep DEF s, k
  <2>3. DenotedFrom(input', bits', kind')[1] = {ValueOf(Final(b))}
    BY <1>1, <1>4, <2>2
  <2> DEFINE v == ValueOf(Final(b))
             pv == IF kind' = "unsigned" \/ result' < Pow2[Acc - 1] THEN result' ELSE result' - Pow2[Acc]
  <2>4. v = pv
    BY <1>1, <2>1 DEF ValueOf
  <2>5. v \in Int
    <3>1. Final(b) \in Int /\ Pow2[Acc] \in Int
      BY <2>2, WidthsAre
    <3> QED
      BY <3>1 DEF ValueOf
  <2>6. status' = "ok" /\ kind' = "block" => v >= 0
    <3>1. status' = "ok" /\ kind = "block" => ~ Negative(Final(b))
      BY <2>1
    <3> HIDE DEF v
    <3> QED
      BY <1>1, <2>2, <2>5, <3>1 DEF v
  <2>7. status' = "malformed" => v < 0
    BY <2>1, <2>2
  <2> HIDE DEF v
  <2>8. DenotedFrom(input', bits', kind')[1] = {v}
    BY <2>3 DEF v
  <2>9. AcceptsItsValue'
    <3>1. status' = "ok" => DenotedFrom(input', bits', kind')[1] = {pv}
      BY <2>4, <2>8
    <3>2. status' = "ok" /\ kind' = "block" => pv >= 0
      BY <2>4, <2>6
    <3> QED
      BY <3>1, <3>2 DEF AcceptsItsValue, Denoted, ValueOf
  <2>10. RejectsNoNumber'
    <3>1. status' = "malformed" => \A n \in DenotedFrom(input', bits', kind')[1] : n < 0
      BY <2>7, <2>8
    <3>2. ~ (status' \in {"too long", "too large"})
      BY <2>1
    <3> QED
      BY <3>1, <3>2 DEF RejectsNoNumber, Denoted
  <2>11. AccumulatorOK' /\ TypesShadowNoIndex' /\ Refused' /\ (status = "reading" => Gathering)'
    BY <2>1, <2>2 DEF AccumulatorOK, TypesShadowNoIndex, Refused
  <2> QED
    BY <1>5, <2>9, <2>10, <2>11 DEF LebInv, NumbersAreTheirs
<1> QED
  BY <1>6, <1>7, <1>8, <1>9

LEMMA EndStep ==
  ASSUME LebInv, EndOfInput
  PROVE  LebInv'
<1>1. status' = "eof" /\ UNCHANGED <<kind, bits, shift, result, input>>
  BY DEF EndOfInput
<1> QED
  BY <1>1 DEF LebInv, NumbersAreTheirs, AccumulatorOK, AcceptsItsValue, RejectsNoNumber, TypesShadowNoIndex, Refused

LEMMA StutterStep ==
  ASSUME LebInv, UNCHANGED numberVars
  PROVE  LebInv'
<1>1. UNCHANGED <<kind, bits, shift, result, status, input>>
  BY DEF numberVars
<1>2. \A u : DenotedFrom(u, bits', kind')[1] = Denoted(u)
  BY <1>1 DEF Denoted
<1>3. NumbersAreTheirs' /\ Refused'
  BY <1>1
     DEF LebInv, NumbersAreTheirs, AccumulatorOK, AcceptsItsValue, RejectsNoNumber, TypesShadowNoIndex, Refused,
         Denoted, ValueOf
<1>4. (status = "reading" => Gathering)'
  BY <1>1 DEF LebInv, Gathering, MaxBytes
<1> QED
  BY <1>1, <1>3, <1>4 DEF LebInv

LEMMA LebKept == LebInv /\ [NumberNext]_numberVars => LebInv'
<1> SUFFICES ASSUME LebInv, [NumberNext]_numberVars
             PROVE  LebInv'
  OBVIOUS
<1> QED
  BY ReadStep, EndStep, StutterStep DEF NumberNext

-----------------------------------------------------------------------------
(* The theorems.                                                           *)

\* The readers accept exactly what the grammar allows, with its value, and a
\* block type's byte hides no index: NumbersAreTheirs, for every payload,
\* accumulator and width (decode.rs uleb, sleb, blocktype).
THEOREM NumbersAreAlwaysTheirs == NumberSpec => []NumbersAreTheirs
<1>1. NumberInit => LebInv
  BY InitLeb
<1>2. LebInv /\ [NumberNext]_numberVars => LebInv'
  BY LebKept
<1>3. LebInv => NumbersAreTheirs
  BY DEF LebInv
<1> QED
  BY <1>1, <1>2, <1>3, PTL DEF NumberSpec

\* What is refused as too long or too large begins no encoding of a number,
\* however many bytes follow: reading on could not have helped, and no bound
\* on the continuations is needed (decode.rs uleb, sleb).
THEOREM RefusalIsFinal == NumberSpec => []Refused
<1>1. NumberInit => LebInv
  BY InitLeb
<1>2. LebInv /\ [NumberNext]_numberVars => LebInv'
  BY LebKept
<1>3. LebInv => Refused
  BY DEF LebInv
<1> QED
  BY <1>1, <1>2, <1>3, PTL DEF NumberSpec
=============================================================================
