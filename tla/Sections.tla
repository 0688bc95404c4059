----------------------------- MODULE Sections -----------------------------
(***************************************************************************)
(* The framing of a binary module (decode.rs: module, code and the outline *)
(* of expr_until_end): sections with declared sizes in a file of len       *)
(* bytes, entries and function bodies in them.  What the bytes say is      *)
(* chosen when they are read, a token takes some number of bytes, and any  *)
(* read may fail: the bytes are not there or are no token of the grammar.  *)
(* frames and bodies are not the decoder's: they note what it has read.    *)
(***************************************************************************)
EXTENDS Integers, Sequences

CONSTANTS
  Lengths,     \* lengths of files
  Sizes,       \* values of declared sizes and lengths of names
  Counts,      \* values of declared numbers: entries, locals, the data count
  Ids,         \* section ids
  MaxWidth,    \* most bytes of a u32
  MaxToken,    \* most bytes of any other entry or instruction
  MaxDepth,    \* bound on open blocks
  MaxLocals,   \* MAX_LOCALS
  None

\* Why a file is rejected: the messages of decode.rs, grouped
Reasons == {"preamble", "token", "overrun", "id", "order", "code_count", "data_count",
            "data_count_required", "locals", "eof", "code_size", "size"}

ASSUME SectionsAssumption ==
  /\ Lengths \subseteq Nat /\ Sizes \subseteq Nat /\ Counts \subseteq Nat /\ Ids \subseteq Nat
  /\ MaxWidth \in Nat /\ MaxToken \in Nat /\ MaxDepth \in Nat /\ MaxLocals \in Nat
  /\ None \notin Nat

VARIABLES
  pc,                \* where in module() or code() the decoder is
  len, pos,          \* self.b.len() and self.pos
  id, end, left,     \* the section: its id, its end, the entries (or bytes of a name) left
  last,              \* last_rank
  funcs,             \* func_types.len()
  datacount, sawCode, sawData, dcUsed,
  codeEnd, groups,   \* the code entry: its end, the runs of locals still to read
  total, locals,     \* their total, and locals.len()
  depth,             \* open blocks of the expression
  reason,            \* why the file was rejected, or "none"
  frames, bodies     \* the sections and function bodies met so far

position == <<len, pos>>
section  == <<id, end, left, last>>
counts   == <<funcs, datacount, sawCode, sawData>>
entry    == <<codeEnd, groups, total, locals, depth>>
noted    == <<frames, bodies>>
vars == <<pc, position, section, counts, dcUsed, entry, reason, noted>>

Init ==
  /\ pc = "magic" /\ len \in Lengths /\ pos = 0
  /\ id = 0 /\ end = 0 /\ left = 0 /\ last = 0
  /\ funcs = 0 /\ datacount = None /\ sawCode = FALSE /\ sawData = FALSE /\ dcUsed = FALSE
  /\ codeEnd = 0 /\ groups = 0 /\ total = 0 /\ locals = 0 /\ depth = 0
  /\ reason = "none" /\ frames = <<>> /\ bodies = <<>>

-----------------------------------------------------------------------------

\* rank in module(): the data count comes between the elements and the code
Rank(i) == IF i = 12 THEN 10 ELSE IF i \in {10, 11} THEN i + 1 ELSE i

\* self.err(...) and the ? that pass it on
Reject(why) == pc' = "rejected" /\ reason' = why
Goto(next)  == pc' = next /\ UNCHANGED reason

\* Widths at which a token read at the position ends inside the file
Fits(most) == {w \in 1 .. most : pos + w <= len}
U32 == Fits(MaxWidth)

\* Entries and instructions take a byte or more
Tokens == Fits(MaxToken)

\* take(4) for the magic number and for the version
Preamble ==
  /\ pc \in {"magic", "version"}
  /\ \/ Reject("preamble") /\ UNCHANGED pos
     \/ /\ len - pos >= 4
        /\ pos' = pos + 4
        /\ Goto(IF pc = "magic" THEN "version" ELSE "section")
  /\ UNCHANGED <<len, section, counts, dcUsed, entry, noted>>

\* A read fails at any of its bytes: the position is not looked at again
ReadFails ==
  /\ pc \in {"section", "custom", "name", "start", "datacount", "count", "entry", "size", "groups", "locals", "body"}
  /\ pc = "section" => pos < len
  /\ pc = "entry" => left # 0 /\ id # 10
  /\ pc = "locals" => groups # 0
  /\ pc = "body" => pos < codeEnd
  /\ Reject("token")
  /\ UNCHANGED <<position, section, counts, dcUsed, entry, noted>>

\* What a section holds: the arms of the match on its id
Content(i) ==
  CASE i = 0 -> "custom" [] i = 8 -> "start" [] i = 12 -> "datacount" [] i \notin {0, 8, 12} -> "count"

\* The section met last has the number n
Numbered(n) == [frames EXCEPT ![Len(frames)].n = n]

\* id, size; then the tests of the size, the id and the order
SectionHeader ==
  /\ pc = "section" /\ pos < len
  /\ \E i \in Ids, s \in Sizes : \E w \in {w \in U32 : pos + 1 + w <= len} :
       /\ pos' = pos + 1 + w
       /\ IF len - pos' < s THEN Reject("overrun") /\ UNCHANGED <<section, noted>>
          ELSE IF i > 12 THEN Reject("id") /\ UNCHANGED <<section, noted>>
          ELSE /\ frames' = Append(frames, [id |-> i, from |-> pos, to |-> pos' + s, n |-> 0, w |-> w])
               /\ UNCHANGED bodies
               /\ IF i # 0 /\ Rank(i) <= last THEN Reject("order") /\ UNCHANGED section
                  ELSE /\ id' = i /\ end' = pos' + s /\ left' = 0
                       /\ last' = IF i = 0 THEN last ELSE Rank(i)
                       /\ Goto(Content(i))
  /\ UNCHANGED <<len, counts, dcUsed, entry>>

\* Mutant of NameFits: the end is not looked at, the position jumps back.
NameFitsAnyway(p, n) == n <= IF end < p THEN 0 ELSE end - p

\* sec_end.checked_sub(self.pos), and the length against what remains
NameFits(p, n) == end >= p /\ n <= end - p

\* A custom section: the length of its name ...
Custom ==
  /\ pc = "custom"
  /\ \E w \in U32, n \in Sizes : pos' = pos + w /\ left' = n
  /\ Goto("name")
  /\ UNCHANGED <<len, id, end, last, counts, dcUsed, entry, noted>>

\* ... must fit; the rest is skipped
SkipCustom ==
  /\ pc = "name"
  /\ IF NameFits(pos, left) THEN pos' = end /\ Goto("tail") ELSE Reject("overrun") /\ UNCHANGED pos
  /\ UNCHANGED <<len, section, counts, dcUsed, entry, noted>>

\* The start section is one index, the data count section one number
Single ==
  /\ \/ pc = "start" /\ UNCHANGED <<counts, noted>>
     \/ /\ pc = "datacount"
        /\ \E n \in Counts : datacount' = n /\ frames' = Numbered(n)
        /\ UNCHANGED <<funcs, sawCode, sawData, bodies>>
  /\ \E w \in U32 : pos' = pos + w
  /\ Goto("tail")
  /\ UNCHANGED <<len, section, dcUsed, entry>>

\* The number of entries, against the functions or the data count
Count ==
  /\ pc = "count"
  /\ \E w \in U32, n \in Counts :
       /\ pos' = pos + w
       /\ left' = n
       /\ frames' = Numbered(n)
       /\ IF id = 10 /\ n # funcs THEN Reject("code_count")
          ELSE IF id = 11 /\ datacount # None /\ datacount # n THEN Reject("data_count")
          ELSE Goto("entry")
  /\ sawCode' = (sawCode \/ id = 10)
  /\ sawData' = (sawData \/ id = 11)
  /\ UNCHANGED <<len, id, end, last, funcs, datacount, dcUsed, entry, bodies>>

\* The next entry of the section's loop, or its end
Entry ==
  /\ pc = "entry"
  /\ IF left = 0 THEN Goto("tail") /\ UNCHANGED <<pos, left, funcs>>
     ELSE /\ left' = left - 1
          /\ IF id = 10 THEN Goto("size") /\ UNCHANGED <<pos, funcs>>
             ELSE /\ \E w \in IF id = 3 THEN U32 ELSE Tokens : pos' = pos + w
                  /\ funcs' = IF id = 3 THEN funcs + 1 ELSE funcs
                  /\ UNCHANGED <<pc, reason>>
  /\ UNCHANGED <<len, id, end, last, datacount, sawCode, sawData, dcUsed, entry, noted>>

\* Mutant of Overruns: the size of a code entry is not tested.
OverrunsNever(p, s) == FALSE

\* self.b.len() - self.pos < size
Overruns(p, s) == len - p < s

\* code(): the size of the entry ...
CodeSize ==
  /\ pc = "size"
  /\ \E w \in U32, s \in Sizes :
       /\ pos' = pos + w
       /\ IF Overruns(pos', s) THEN Reject("overrun") /\ UNCHANGED <<codeEnd, bodies>>
          ELSE /\ codeEnd' = pos' + s
               /\ bodies' = Append(bodies, [from |-> pos, to |-> pos' + s, w |-> w, uses |-> FALSE])
               /\ Goto("groups")
  /\ UNCHANGED <<len, section, counts, dcUsed, groups, total, locals, depth, frames>>

\* ... the number of runs of locals ...
Groups ==
  /\ pc = "groups"
  /\ \E w \in U32, n \in Counts : pos' = pos + w /\ groups' = n
  /\ total' = 0 /\ locals' = 0 /\ depth' = 0
  /\ Goto("locals")
  /\ UNCHANGED <<len, section, counts, dcUsed, codeEnd, noted>>

\* Mutant of Materialised: the run is pushed before its total is tested.
MaterialisedFirst(n) == locals + n

\* The locals pushed when a run of n brings the total to total + n
Materialised(n) == IF total + n > MaxLocals THEN locals ELSE locals + n

\* ... a run: its length and its type, and the test before it is pushed ...
Locals ==
  /\ pc = "locals"
  /\ IF groups = 0 THEN Goto("body") /\ UNCHANGED <<pos, groups, total, locals>>
     ELSE \E w \in U32, n \in Counts :
            /\ pos + w + 1 <= len
            /\ pos' = pos + w + 1
            /\ groups' = groups - 1
            /\ total' = total + n
            /\ locals' = Materialised(n)
            /\ IF total + n > MaxLocals THEN Reject("locals") ELSE UNCHANGED <<pc, reason>>
  /\ UNCHANGED <<len, section, counts, dcUsed, codeEnd, depth, noted>>

\* Mutant of Used: every entry forgets what those before it used.
UsedHere(uses) == uses \/ (dcUsed /\ bodies[Len(bodies)].uses)

\* memory.init and data.drop set the flag all bodies of the module share
Used(uses) == dcUsed \/ uses

\* The body being read is noted as using a segment, or not
Noted(uses) == [bodies EXCEPT ![Len(bodies)].uses = @ \/ uses]

\* self.pos != end of the entry
EndsAt(p) == p = codeEnd

\* ... and the instructions up to the end that closes the body
Instruction ==
  /\ pc = "body"
  /\ IF pos >= codeEnd THEN Reject("eof") /\ UNCHANGED <<pos, depth, dcUsed, bodies>>
     ELSE \E w \in Tokens :
            /\ pos' = pos + w
            /\ \/ /\ w = 1 /\ depth = 0
                  /\ IF EndsAt(pos') THEN Goto("entry") ELSE Reject("code_size")
                  /\ UNCHANGED <<depth, dcUsed, bodies>>
               \/ /\ w = 1 /\ depth > 0 /\ depth' = depth - 1
                  /\ UNCHANGED <<pc, reason, dcUsed, bodies>>
               \/ /\ w > 1 /\ depth < MaxDepth /\ depth' = depth + 1
                  /\ UNCHANGED <<pc, reason, dcUsed, bodies>>
               \/ /\ UNCHANGED <<pc, reason, depth>>
                  /\ \E uses \in BOOLEAN :
                       /\ uses => w > 1
                       /\ dcUsed' = Used(uses)
                       /\ bodies' = Noted(uses)
  /\ UNCHANGED <<len, section, counts, codeEnd, groups, total, locals, frames>>

\* Mutant of SizeMatches: a section may be shorter than it says.
SizeCovers == pos <= end

\* self.pos != end of the section
SizeMatches == pos = end

SectionTail ==
  /\ pc = "tail"
  /\ IF SizeMatches THEN Goto("section") ELSE Reject("size")
  /\ UNCHANGED <<position, section, counts, dcUsed, entry, noted>>

\* The file is read: what must hold over all sections
Finish ==
  /\ pc = "section" /\ pos = len
  /\ IF funcs # 0 /\ ~sawCode THEN Reject("code_count")
     ELSE IF dcUsed /\ datacount = None /\ sawData THEN Reject("data_count_required")
     ELSE IF datacount # None /\ datacount # 0 /\ ~sawData THEN Reject("data_count")
     ELSE Goto("accepted")
  /\ UNCHANGED <<position, section, counts, dcUsed, entry, noted>>

Next ==
  \/ Preamble \/ ReadFails \/ SectionHeader \/ Custom \/ SkipCustom \/ Single \/ Count \/ Entry
  \/ CodeSize \/ Groups \/ Locals \/ Instruction \/ SectionTail \/ Finish

Spec == Init /\ [][Next]_vars
=============================================================================
