---------------------------- MODULE RunnerProofs -----------------------------
(***************************************************************************)
(* The verdicts of the spec-runner are right for every set of commands,    *)
(* every corpus of any number of files, and whatever the engine makes of   *)
(* them.                                                                   *)
(***************************************************************************)
EXTENDS LedgerProps, SequenceTheorems, FiniteSetTheorems, WellFoundedInduction, TLAPS

-----------------------------------------------------------------------------
(* The inductive invariant.  A context is a record of what a file knows at *)
(* one place; the operators take it, the rows and the store as parameters. *)

\* The context the first n of the rows rs speak of.
Modules(rs, n) == {i \in 1..n : rs[i].cmd.type = "module" /\ rs[i].cmd.bin # Bad}
Namings(rs, name, n) ==
  {i \in 1..n : rs[i].cmd.type = "module" /\ rs[i].verdict = "PASS" /\ rs[i].cmd.name = name}
Registrations(rs, space, n) ==
  {i \in 1..n : rs[i].cmd.type = "register" /\ rs[i].verdict = "PASS" /\ rs[i].cmd.as = space}

CurrentBy(rs, n) ==
  IF Modules(rs, n) # {} /\ rs[Max(Modules(rs, n))].verdict = "PASS"
  THEN rs[Max(Modules(rs, n))].made ELSE None
NamedBy(rs, name, n) ==
  IF Namings(rs, name, n) = {} THEN None ELSE rs[Max(Namings(rs, name, n))].made
RegisteredBy(rs, space, n) ==
  IF Registrations(rs, space, n) = {} THEN IF space = "spectest" THEN 1 ELSE None
  ELSE rs[Max(Registrations(rs, space, n))].on

ContextBy(rs, n) ==
  [current  |-> CurrentBy(rs, n),
   named    |-> [name \in Names |-> NamedBy(rs, name, n)],
   registry |-> [space \in Spaces |-> RegisteredBy(rs, space, n)]]

\* What one row does to a context.
ContextStep(c, r) ==
  [current  |-> IF r.cmd.type = "module" /\ r.cmd.bin # Bad
                THEN IF r.verdict = "PASS" THEN r.made ELSE None
                ELSE c.current,
   named    |-> [name \in Names |->
                   IF r.cmd.type = "module" /\ r.verdict = "PASS" /\ r.cmd.name = name
                   THEN r.made ELSE c.named[name]],
   registry |-> [space \in Spaces |->
                   IF r.cmd.type = "register" /\ r.verdict = "PASS" /\ r.cmd.as = space
                   THEN r.on ELSE c.registry[space]]]

\* The context of the state.
Now == [current |-> current, named |-> named, registry |-> registry]

\* A context of a store of n instances.
ContextType(n) ==
  [current : 0..n, named : [Names -> 0..n], registry : [Spaces -> 0..n]]

DesignatedIn(c, field) ==
  IF field = Absent THEN c.current ELSE IF field \in Names THEN c.named[field] ELSE None

ExportedIn(is, c, imp) ==
  /\ imp.module \in Spaces /\ c.registry[imp.module] # None
  /\ imp.name \in DOMAIN is[c.registry[imp.module]].exports
  /\ is[c.registry[imp.module]].exports[imp.name] = imp.kind

ActionTypes == {"action", "assert_return", "assert_trap", "assert_exhaustion"}

\* What a row says of the context c it was judged in: about its types, ...
RowTyped(is, r, c) ==
  /\ r.cmd \in Commands /\ r.verdict \in Verdicts
  /\ r.made \in 0..Len(is) /\ r.on \in 0..Len(is) /\ c \in ContextType(Len(is))
  /\ r.cmd.type = "register" /\ r.verdict = "PASS" => r.cmd.as \in Spaces
\* ... about the instance it acted on, ...
RowOn(r, c) ==
  r.cmd.type \in ActionTypes =>
    /\ r.on \in {None, DesignatedIn(c, r.cmd.action.module)}
    /\ r.verdict = "PASS" => r.on # None
    /\ r.cmd.action.type = "invoke" /\ r.cmd.action.args # "good" => r.on = None
\* ... about the one it made, ...
RowLinked(is, r, c) ==
  r.made # None =>
    \A imp \in DOMAIN is[r.made].links :
      /\ imp.module \in Spaces
      /\ is[r.made].links[imp] = c.registry[imp.module]
      /\ is[r.made].links[imp] \in 1 .. r.made - 1
\* ... and about what it passed for.
LinkedIn(is, c, b) == b.decodes /\ b.valid /\ \A imp \in b.imports : ExportedIn(is, c, imp)
ReachedIn(is, a, on, c) ==
  /\ DesignatedIn(c, a.module) # None /\ on = DesignatedIn(c, a.module)
  /\ a.field \in DOMAIN is[on].exports
  /\ is[on].exports[a.field] = IF a.type = "invoke" THEN "func" ELSE "global"
EarnedIn(is, r, c) ==
  \/ /\ r.cmd.type = "module" /\ r.outcome = Came("ok")
     /\ LinkedIn(is, c, r.cmd.bin) /\ r.cmd.name # Bad
  \/ r.cmd.type = "register" /\ r.cmd.as \in Spaces /\ DesignatedIn(c, r.cmd.name) # None
  \/ /\ r.cmd.type = "action" /\ r.outcome.res = "values"
     /\ ReachedIn(is, r.cmd.action, r.on, c)
  \/ /\ r.cmd.type = "assert_return" /\ r.outcome = Returns(r.cmd.expected)
     /\ ReachedIn(is, r.cmd.action, r.on, c)
  \/ /\ r.cmd.type \in {"assert_trap", "assert_exhaustion"}
     /\ r.outcome.res = "trap" /\ Agree(r.outcome.msg, r.cmd.text)
     /\ ReachedIn(is, r.cmd.action, r.on, c) /\ r.cmd.action.type = "invoke"
  \/ /\ r.cmd.type = "assert_malformed" /\ r.cmd.module_type = "binary"
     /\ r.cmd.bin # Bad /\ ~ r.cmd.bin.decodes
  \/ r.cmd.type = "assert_invalid" /\ r.cmd.bin # Bad /\ r.cmd.bin.decodes /\ ~ r.cmd.bin.valid
  \/ /\ r.cmd.type = "assert_unlinkable" /\ r.cmd.bin # Bad
     /\ r.cmd.bin.decodes /\ r.cmd.bin.valid
     /\ \E imp \in r.cmd.bin.imports : ~ ExportedIn(is, c, imp)
  \/ /\ r.cmd.type = "assert_uninstantiable" /\ r.outcome = Came("uninstantiable")
     /\ LinkedIn(is, c, r.cmd.bin) /\ r.made # None
RowEarned(is, r, c) == r.verdict = "PASS" <=> EarnedIn(is, r, c)
RowFits(is, r, c) ==
  RowTyped(is, r, c) /\ RowOn(r, c) /\ RowLinked(is, r, c) /\ RowEarned(is, r, c)

\* The store is a sequence of instances, the spectest one included.
StoreInv == instances \in Seq(Range(instances)) /\ Len(instances) > 0

\* The rows are a sequence and each fits the rows before it; those before
\* the next command speak of the context of the state.
RowsInv ==
  /\ rows \in Seq(Range(rows))
  /\ \A i \in 1..Len(rows) : RowFits(instances, rows[i], ContextBy(rows, i - 1))
  /\ Now = ContextBy(rows, Len(rows)) /\ Now \in ContextType(Len(instances))

\* No later command reaches what a passed assert_uninstantiable made.
ReachInv ==
  \A i \in 1..Len(rows) :
    rows[i].cmd.type = "assert_uninstantiable" /\ rows[i].verdict = "PASS" =>
      /\ current # rows[i].made
      /\ \A name \in Names : named[name] # rows[i].made
      /\ \A space \in Spaces : registry[space] # rows[i].made

ContextInv ==
  /\ StoreInv /\ RowsInv /\ ReachInv
  /\ counts \in [{"total", "pass", "fail", "unsupported"} -> Nat]
  /\ exit \in {"files", "file", "success", "failure", "error"}

-----------------------------------------------------------------------------
(* Numbers and sequences.                                                  *)

\* A set of numbers has a least one.
LEMMA LeastOf ==
  ASSUME NEW T, T \subseteq Nat, T # {}
  PROVE  \E x \in T : \A y \in T : x <= y
<1> DEFINE R == OpToRel(<, Nat)
<1>1. IsWellFoundedOn(R, Nat)
  BY NatLessThanWellFounded
<1>2. \A x, y \in Nat : y < x => <<y, x>> \in R
  BY DEF OpToRel
<1> HIDE DEF R
<1>3. \E x \in T : \A y \in T : ~ (<<y, x>> \in R)
  BY <1>1, WFMin
<1> PICK x \in T : \A y \in T : ~ (<<y, x>> \in R)
  BY <1>3
<1>4. ASSUME NEW y \in T
      PROVE  x <= y
  <2>1. ~ (<<y, x>> \in R) /\ x \in Nat /\ y \in Nat
    OBVIOUS
  <2>2. ~ (y < x)
    BY <2>1, <1>2
  <2> QED
    BY <2>1, <2>2
<1> QED
  BY <1>4

\* A set that has 0 and every successor of a number it has, has every number.
LEMMA InductionOn ==
  ASSUME NEW T, 0 \in T, \A n \in Nat : n \in T => n + 1 \in T
  PROVE  \A n \in Nat : n \in T
<1> SUFFICES ASSUME Nat \ T # {}
             PROVE  FALSE
  OBVIOUS
<1>1. PICK x \in Nat \ T : \A y \in Nat \ T : x <= y
  BY LeastOf
<1>2. x # 0 /\ x - 1 \in Nat
  OBVIOUS
<1>3. x - 1 \in T
  BY <1>1, <1>2
<1> QED
  BY <1>2, <1>3

\* Max finds the last of some of the first n numbers.
LEMMA MaxIn ==
  ASSUME NEW n \in Nat, NEW S, S \subseteq 1..n, S # {}
  PROVE  Max(S) \in S /\ \A y \in S : y <= Max(S)
<1> DEFINE T == {x \in Nat : \E y \in S : x = n - y}
<1>1. T \subseteq Nat /\ T # {}
  <2>1. PICK y : y \in S
    OBVIOUS
  <2>2. n - y \in Nat
    BY <2>1
  <2> QED
    BY <2>1, <2>2
<1>2. PICK x \in T : \A z \in T : x <= z
  <2> HIDE DEF T
  <2> QED
    BY <1>1, LeastOf
<1>3. PICK m \in S : x = n - m
  BY <1>2
<1>4. ASSUME NEW y \in S
      PROVE  m >= y
  <2>1. n - y \in T
    OBVIOUS
  <2>2. n - m <= n - y
    BY <1>2, <1>3, <2>1
  <2> QED
    BY <2>2
<1>5. \E m1 \in S : \A y \in S : m1 >= y
  BY <1>4
<1>6. Max(S) \in S /\ \A y \in S : Max(S) >= y
  BY <1>5 DEF Max
<1> QED
  BY <1>6

\* The next number is the last.
LEMMA MaxNew ==
  ASSUME NEW n \in Nat, NEW S, S \subseteq 1 .. n + 1, n + 1 \in S
  PROVE  Max(S) = n + 1
<1>1. n + 1 \in Nat /\ S # {}
  OBVIOUS
<1>2. Max(S) \in S /\ \A y \in S : y <= Max(S)
  BY <1>1, MaxIn
<1>3. Max(S) \in 1 .. n + 1 /\ n + 1 <= Max(S)
  BY <1>2
<1> QED
  BY <1>3

\* A sequence over one set is one over its own elements, and over any other
\* they are in.
LEMMA SeqRange ==
  ASSUME NEW S, NEW s \in Seq(S)
  PROVE  /\ Len(s) \in Nat /\ DOMAIN s = 1..Len(s)
         /\ s \in Seq(Range(s))
         /\ \A T : (\A i \in 1..Len(s) : s[i] \in T) => s \in Seq(T)
<1>1. Len(s) \in Nat /\ s \in [1..Len(s) -> S] /\ DOMAIN s = 1..Len(s)
  BY LenProperties
<1>2. ASSUME NEW T, \A i \in 1..Len(s) : s[i] \in T
      PROVE  s \in Seq(T)
  <2>1. s \in [1..Len(s) -> T]
    BY <1>1, <1>2
  <2> QED
    BY <1>1, <2>1, SeqDef
<1>3. \A i \in 1..Len(s) : s[i] \in Range(s)
  BY <1>1 DEF Range
<1> QED
  BY <1>1, <1>2, <1>3

\* One more element of any kind.
LEMMA AppendAny ==
  ASSUME NEW S, NEW s \in Seq(S), NEW e
  PROVE  /\ Append(s, e) \in Seq(Range(Append(s, e)))
         /\ Len(s) \in Nat /\ Len(Append(s, e)) = Len(s) + 1
         /\ DOMAIN s = 1..Len(s) /\ DOMAIN Append(s, e) = 1 .. Len(s) + 1
         /\ \A a \in 1..Len(s) : Append(s, e)[a] = s[a]
         /\ Append(s, e)[Len(s) + 1] = e
<1> DEFINE T == S \union {e}
<1>1. s \in Seq(T) /\ e \in T
  <2>1. \A i \in 1..Len(s) : s[i] \in T
    BY ElementOfSeq
  <2> QED
    BY <2>1, SeqRange
<1> HIDE DEF T
<1>2. Append(s, e) \in Seq(T) /\ Len(Append(s, e)) = Len(s) + 1 /\ Len(s) \in Nat
  BY <1>1, AppendProperties, LenProperties
<1>3. DOMAIN s = 1..Len(s) /\ DOMAIN Append(s, e) = 1 .. Len(s) + 1
  BY <1>1, <1>2, LenProperties
<1>4. Append(s, e) \in Seq(Range(Append(s, e)))
  BY <1>2, SeqRange
<1> QED
  BY <1>1, <1>2, <1>3, <1>4, AppendProperties

-----------------------------------------------------------------------------
(* What the rows say of the context.                                       *)

\* A row more says nothing new of the places before it.
LEMMA ContextKept ==
  ASSUME NEW S, NEW rs \in Seq(S), NEW r, NEW n \in 0..Len(rs)
  PROVE  ContextBy(Append(rs, r), n) = ContextBy(rs, n)
<1> DEFINE new == Append(rs, r)
<1>1. n \in Nat /\ \A i \in 1..n : new[i] = rs[i]
  <2>1. Len(rs) \in Nat
    BY LenProperties
  <2> QED
    BY <2>1, AppendAny
<1> HIDE DEF new
<1>2. /\ Modules(new, n) = Modules(rs, n)
      /\ \A name : Namings(new, name, n) = Namings(rs, name, n)
      /\ \A space : Registrations(new, space, n) = Registrations(rs, space, n)
  BY <1>1 DEF Modules, Namings, Registrations
<1>3. /\ Modules(rs, n) \subseteq 1..n
      /\ \A name : Namings(rs, name, n) \subseteq 1..n
      /\ \A space : Registrations(rs, space, n) \subseteq 1..n
  BY DEF Modules, Namings, Registrations
<1>4. \A T : T \subseteq 1..n /\ T # {} => new[Max(T)] = rs[Max(T)]
  BY <1>1, MaxIn
<1>5. CurrentBy(new, n) = CurrentBy(rs, n)
  BY <1>2, <1>3, <1>4 DEF CurrentBy
<1>6. \A name : NamedBy(new, name, n) = NamedBy(rs, name, n)
  BY <1>2, <1>3, <1>4 DEF NamedBy
<1>7. \A space : RegisteredBy(new, space, n) = RegisteredBy(rs, space, n)
  BY <1>2, <1>3, <1>4 DEF RegisteredBy
<1> QED
  BY <1>5, <1>6, <1>7 DEF ContextBy, new

\* What the next row says.
LEMMA ContextNext ==
  ASSUME NEW S, NEW rs \in Seq(S), NEW r
  PROVE  ContextBy(Append(rs, r), Len(rs) + 1) = ContextStep(ContextBy(rs, Len(rs)), r)
<1> DEFINE new == Append(rs, r)
           n   == Len(rs)
<1>1. n \in Nat /\ new[n + 1] = r /\ \A i \in 1..n : new[i] = rs[i]
  BY AppendAny
<1> HIDE DEF new, n
<1>2. 1 .. n + 1 = 1..n \union {n + 1} /\ n + 1 \notin 1..n
  BY <1>1
<1>3. /\ Modules(new, n + 1) = Modules(rs, n) \union
           (IF r.cmd.type = "module" /\ r.cmd.bin # Bad THEN {n + 1} ELSE {})
      /\ \A name : Namings(new, name, n + 1) = Namings(rs, name, n) \union
           (IF r.cmd.type = "module" /\ r.verdict = "PASS" /\ r.cmd.name = name THEN {n + 1} ELSE {})
      /\ \A space : Registrations(new, space, n + 1) = Registrations(rs, space, n) \union
           (IF r.cmd.type = "register" /\ r.verdict = "PASS" /\ r.cmd.as = space THEN {n + 1} ELSE {})
  BY <1>1, <1>2 DEF Modules, Namings, Registrations
<1>4. /\ Modules(rs, n) \subseteq 1..n
      /\ \A name : Namings(rs, name, n) \subseteq 1..n
      /\ \A space : Registrations(rs, space, n) \subseteq 1..n
  BY DEF Modules, Namings, Registrations
<1>5. \A T : T \subseteq 1..n => Max(T \union {n + 1}) = n + 1
  <2> TAKE T
  <2> HAVE T \subseteq 1..n
  <2>1. T \union {n + 1} \subseteq 1 .. n + 1
    BY <1>1, <1>2
  <2> QED
    BY <1>1, <2>1, MaxNew
<1>6. \A T : T \subseteq 1..n /\ T # {} => new[Max(T)] = rs[Max(T)]
  BY <1>1, MaxIn
<1>7. CurrentBy(new, n + 1) = IF r.cmd.type = "module" /\ r.cmd.bin # Bad
                              THEN IF r.verdict = "PASS" THEN r.made ELSE None
                              ELSE CurrentBy(rs, n)
  <2>1. CASE r.cmd.type = "module" /\ r.cmd.bin # Bad
    <3>1. Max(Modules(new, n + 1)) = n + 1 /\ Modules(new, n + 1) # {}
      BY <1>3, <1>4, <1>5, <2>1
    <3> QED
      BY <1>1, <2>1, <3>1 DEF CurrentBy
  <2>2. CASE ~ (r.cmd.type = "module" /\ r.cmd.bin # Bad)
    <3>1. Modules(new, n + 1) = Modules(rs, n)
      BY <1>3, <2>2
    <3> QED
      BY <1>4, <1>6, <2>2, <3>1 DEF CurrentBy
  <2> QED
    BY <2>1, <2>2
<1>8. ASSUME NEW name
      PROVE  NamedBy(new, name, n + 1) =
               IF r.cmd.type = "module" /\ r.verdict = "PASS" /\ r.cmd.name = name
               THEN r.made ELSE NamedBy(rs, name, n)
  <2>1. CASE r.cmd.type = "module" /\ r.verdict = "PASS" /\ r.cmd.name = name
    <3>1. Max(Namings(new, name, n + 1)) = n + 1 /\ Namings(new, name, n + 1) # {}
      BY <1>3, <1>4, <1>5, <2>1
    <3> QED
      BY <1>1, <2>1, <3>1 DEF NamedBy
  <2>2. CASE ~ (r.cmd.type = "module" /\ r.verdict = "PASS" /\ r.cmd.name = name)
    <3>1. Namings(new, name, n + 1) = Namings(rs, name, n)
      BY <1>3, <2>2
    <3> QED
      BY <1>4, <1>6, <2>2, <3>1 DEF NamedBy
  <2> QED
    BY <2>1, <2>2
<1>9. ASSUME NEW space
      PROVE  RegisteredBy(new, space, n + 1) =
               IF r.cmd.type = "register" /\ r.verdict = "PASS" /\ r.cmd.as = space
               THEN r.on ELSE RegisteredBy(rs, space, n)
  <2>1. CASE r.cmd.type = "register" /\ r.verdict = "PASS" /\ r.cmd.as = space
    <3>1. Max(Registrations(new, space, n + 1)) = n + 1 /\ Registrations(new, space, n + 1) # {}
      BY <1>3, <1>4, <1>5, <2>1
    <3> QED
      BY <1>1, <2>1, <3>1 DEF RegisteredBy
  <2>2. CASE ~ (r.cmd.type = "register" /\ r.verdict = "PASS" /\ r.cmd.as = space)
    <3>1. Registrations(new, space, n + 1) = Registrations(rs, space, n)
      BY <1>3, <2>2
    <3> QED
      BY <1>4, <1>6, <2>2, <3>1 DEF RegisteredBy
  <2> QED
    BY <2>1, <2>2
<1> QED
  BY <1>7, <1>8, <1>9 DEF ContextBy, ContextStep, new, n

-----------------------------------------------------------------------------
(* One command.                                                            *)

\* The store it had a file never loses.
Grows(is, it) == Len(is) <= Len(it) /\ \A i \in 1..Len(is) : it[i] = is[i]

\* Registered instances export what they did.
LEMMA ExportedKept ==
  ASSUME NEW S, NEW is \in Seq(S), NEW T, NEW it \in Seq(T), Grows(is, it),
         NEW c \in ContextType(Len(is))
  PROVE  \A imp : ExportedIn(it, c, imp) <=> ExportedIn(is, c, imp)
<1>1. /\ Len(is) \in Nat /\ \A i \in 1..Len(is) : it[i] = is[i]
      /\ c.registry \in [Spaces -> 0..Len(is)]
  BY LenProperties DEF Grows, ContextType
<1> TAKE imp
<1>2. CASE imp.module \in Spaces /\ c.registry[imp.module] # None
  <2>1. it[c.registry[imp.module]] = is[c.registry[imp.module]]
    BY <1>1, <1>2 DEF None
  <2> QED
    BY <2>1 DEF ExportedIn
<1>3. CASE ~ (imp.module \in Spaces /\ c.registry[imp.module] # None)
  BY <1>3 DEF ExportedIn
<1> QED
  BY <1>2, <1>3

\* A row fits as well when the store has grown.
LEMMA RowKept ==
  ASSUME NEW S, NEW is \in Seq(S), NEW T, NEW it \in Seq(T), Grows(is, it),
         NEW r, NEW c, RowFits(is, r, c)
  PROVE  RowFits(it, r, c)
<1>1. /\ Len(is) \in Nat /\ Len(it) \in Nat /\ Len(is) <= Len(it)
      /\ \A i \in 1..Len(is) : it[i] = is[i]
  BY LenProperties DEF Grows
<1>2. /\ r.made \in 0..Len(is) /\ r.on \in 0..Len(is)
      /\ c.current \in 0..Len(is) /\ c.named \in [Names -> 0..Len(is)]
      /\ c.registry \in [Spaces -> 0..Len(is)]
      /\ c = [current |-> c.current, named |-> c.named, registry |-> c.registry]
  BY DEF RowFits, RowTyped, ContextType
<1>3. RowTyped(it, r, c)
  <2>1. 0..Len(is) \subseteq 0..Len(it)
    BY <1>1
  <2>2. c.named \in [Names -> 0..Len(it)] /\ c.registry \in [Spaces -> 0..Len(it)]
    BY <1>2, <2>1
  <2>3. c \in ContextType(Len(it))
    BY <1>2, <2>1, <2>2 DEF ContextType
  <2> QED
    BY <2>1, <2>3 DEF RowFits, RowTyped
<1>4. RowLinked(it, r, c)
  <2>1. r.made # None => it[r.made] = is[r.made]
    <3>1. r.made # None => r.made \in 1..Len(is)
      BY <1>1, <1>2 DEF None
    <3> QED
      BY <1>1, <3>1
  <2> QED
    BY <2>1 DEF RowFits, RowLinked
<1>5. \A imp : ExportedIn(it, c, imp) <=> ExportedIn(is, c, imp)
  BY ExportedKept DEF RowFits, RowTyped
<1>6. \A b : LinkedIn(it, c, b) <=> LinkedIn(is, c, b)
  BY <1>5 DEF LinkedIn
<1>7. \A a : ReachedIn(it, a, r.on, c) <=> ReachedIn(is, a, r.on, c)
  <2> SUFFICES ASSUME r.on # None
               PROVE  it[r.on] = is[r.on]
    BY DEF ReachedIn
  <2>1. r.on \in 1..Len(is)
    BY <1>1, <1>2 DEF None
  <2> QED
    BY <1>1, <2>1
<1>8. EarnedIn(it, r, c) <=> EarnedIn(is, r, c)
  BY <1>5, <1>6, <1>7 DEF EarnedIn
<1>9. RowEarned(it, r, c)
  BY <1>8 DEF RowFits, RowEarned
<1> QED
  BY <1>3, <1>4, <1>9 DEF RowFits

\* A row that fits the context of the state and does to it what a row does
\* keeps the rows what they are.
LEMMA RowAdded ==
  ASSUME StoreInv, RowsInv, StoreInv', Grows(instances, instances'),
         NEW r, rows' = Append(rows, r), RowFits(instances', r, Now),
         Now' = ContextStep(Now, r), Now' \in ContextType(Len(instances'))
  PROVE  RowsInv'
<1>1. /\ rows' \in Seq(Range(rows')) /\ Len(rows) \in Nat /\ Len(rows') = Len(rows) + 1
      /\ \A i \in 1..Len(rows) : rows'[i] = rows[i]
      /\ rows'[Len(rows) + 1] = r
  BY AppendAny DEF RowsInv
<1>2. \A n \in 0..Len(rows) : ContextBy(rows', n) = ContextBy(rows, n)
  BY ContextKept DEF RowsInv
<1>3. ASSUME NEW i \in 1..Len(rows')
      PROVE  RowFits(instances', rows'[i], ContextBy(rows', i - 1))
  <2>1. CASE i \in 1..Len(rows)
    <3>1. i - 1 \in 0..Len(rows)
      BY <1>1, <2>1
    <3>2. RowFits(instances, rows[i], ContextBy(rows, i - 1))
      BY <2>1 DEF RowsInv
    <3>3. RowFits(instances', rows[i], ContextBy(rows, i - 1))
      BY <3>2, RowKept DEF StoreInv
    <3> QED
      BY <1>1, <1>2, <2>1, <3>1, <3>3
  <2>2. CASE i = Len(rows) + 1
    <3>1. i - 1 = Len(rows) /\ Len(rows) \in 0..Len(rows)
      BY <1>1, <2>2
    <3>2. ContextBy(rows', i - 1) = Now
      BY <1>2, <3>1 DEF RowsInv
    <3> QED
      BY <1>1, <2>2, <3>2
  <2> QED
    BY <1>1, <2>1, <2>2
<1>4. Now' = ContextBy(rows', Len(rows'))
  <2>1. ContextBy(rows', Len(rows) + 1) = ContextStep(Now, r)
    BY ContextNext DEF RowsInv
  <2> QED
    BY <1>1, <2>1
<1> QED
  BY <1>1, <1>3, <1>4 DEF RowsInv

\* Nothing in a context is what an earlier assertion built when all that
\* comes into it is a new instance or was in it before.
LEMMA ReachKept ==
  ASSUME StoreInv, RowsInv, ReachInv,
         NEW r, rows' = Append(rows, r),
         current' \in {current, None, Len(instances) + 1},
         \A name \in Names : named'[name] \in {named[name], Len(instances) + 1},
         \A space \in Spaces :
           \/ registry'[space] \in {registry[space], current}
           \/ \E name \in Names : registry'[space] = named[name],
         r.cmd.type = "assert_uninstantiable" /\ r.verdict = "PASS" =>
           r.made = Len(instances) + 1 /\ UNCHANGED <<registry, named, current>>
  PROVE  ReachInv'
<1>1. /\ Len(rows) \in Nat /\ Len(rows') = Len(rows) + 1
      /\ \A i \in 1..Len(rows) : rows'[i] = rows[i]
      /\ rows'[Len(rows) + 1] = r
  BY AppendAny DEF RowsInv
<1>2. /\ Len(instances) \in Nat
      /\ current \in 0..Len(instances)
      /\ \A name \in Names : named[name] \in 0..Len(instances)
      /\ \A space \in Spaces : registry[space] \in 0..Len(instances)
  BY LenProperties DEF StoreInv, RowsInv, Now, ContextType
<1> SUFFICES ASSUME NEW i \in 1..Len(rows'),
                    rows'[i].cmd.type = "assert_uninstantiable", rows'[i].verdict = "PASS"
             PROVE  /\ current' # rows'[i].made
                    /\ \A name \in Names : named'[name] # rows'[i].made
                    /\ \A space \in Spaces : registry'[space] # rows'[i].made
  BY DEF ReachInv
<1>3. CASE i \in 1..Len(rows)
  <2>1. /\ rows'[i] = rows[i]
        /\ rows[i].made \in 0..Len(instances) /\ rows[i].made # None
    BY <1>1, <1>3 DEF RowsInv, RowFits, RowTyped, RowEarned, EarnedIn
  <2>2. /\ current # rows[i].made
        /\ \A name \in Names : named[name] # rows[i].made
        /\ \A space \in Spaces : registry[space] # rows[i].made
    BY <1>3, <2>1 DEF ReachInv
  <2>3. rows[i].made # Len(instances) + 1
    BY <1>2, <2>1
  <2> QED
    BY <2>1, <2>2, <2>3
<1>4. CASE i = Len(rows) + 1
  BY <1>1, <1>2, <1>4
<1> QED
  BY <1>1, <1>3, <1>4

\* The counters stay numbers.
LEMMA CountsStay ==
  ASSUME counts \in [{"total", "pass", "fail", "unsupported"} -> Nat],
         NEW verdict, counts' = Counted(counts, verdict)
  PROVE  counts' \in [{"total", "pass", "fail", "unsupported"} -> Nat]
BY DEF Counted

\* Outcomes are told apart by their kind.
LEMMA OutcomesDiffer ==
  /\ \A s : Came(s).res = s
  /\ \A v : Returns(v).res = "values" /\ Returns(v).values = v
  /\ \A m : Traps(m).res = "trap" /\ Traps(m).msg = m
BY DEF Came, Returns, Traps

\* A command that only judges.
LEMMA OnlyJudged ==
  ASSUME ContextInv, NEW cmd \in Commands, NEW verdict \in Verdicts,
         NEW on \in 0..Len(instances), NEW got, Judge(cmd, verdict, None, on, got), UNCHANGED ctx,
         cmd.type # "register", cmd.type = "module" => cmd.bin = Bad /\ verdict # "PASS",
         cmd.type # "assert_uninstantiable" \/ verdict # "PASS",
         NEW r, r = [cmd |-> cmd, verdict |-> verdict, made |-> None, on |-> on, outcome |-> got],
         RowOn(r, Now), RowEarned(instances, r, Now)
  PROVE  ContextInv'
<1>1. r.cmd = cmd /\ r.verdict = verdict /\ r.made = None /\ r.on = on
  OBVIOUS
<1>2. rows' = Append(rows, r) /\ counts' = Counted(counts, verdict) /\ exit' = exit
  BY DEF Judge
<1>3. instances' = instances /\ current' = current /\ named' = named /\ registry' = registry
  BY DEF ctx
<1>4. RowOn(r, Now) /\ RowEarned(instances, r, Now)
  OBVIOUS
<1>5. StoreInv' /\ Grows(instances, instances')
  <2>1. Len(instances) \in Nat
    BY LenProperties DEF ContextInv, StoreInv
  <2> QED
    BY <1>3, <2>1 DEF ContextInv, StoreInv, Grows
<1>6. RowFits(instances', r, Now)
  <2>1. Len(instances) \in Nat
    BY LenProperties DEF ContextInv, StoreInv
  <2>2. RowTyped(instances, r, Now)
    BY <1>1, <2>1 DEF RowTyped, ContextInv, RowsInv, None
  <2>3. RowLinked(instances, r, Now)
    BY <1>1 DEF RowLinked
  <2> QED
    BY <1>3, <1>4, <2>2, <2>3 DEF RowFits
<1>7. Now' = Now /\ Now \in ContextType(Len(instances))
  BY <1>3 DEF Now, ContextInv, RowsInv
<1>8. ContextStep(Now, r) = Now
  <2>1. /\ Now.current = current /\ Now.named = named /\ Now.registry = registry
        /\ named \in [Names -> 0..Len(instances)] /\ registry \in [Spaces -> 0..Len(instances)]
    BY <1>7 DEF Now, ContextType
  <2>2. /\ ~ (r.cmd.type = "module" /\ r.cmd.bin # Bad)
        /\ ~ (r.cmd.type = "module" /\ r.verdict = "PASS")
        /\ r.cmd.type # "register"
    BY <1>1
  <2>3. named = [name \in Names |-> named[name]] /\ registry = [space \in Spaces |-> registry[space]]
    BY <2>1
  <2> QED
    BY <2>1, <2>2, <2>3 DEF ContextStep, Now
<1>9. RowsInv'
  BY <1>2, <1>3, <1>5, <1>6, <1>7, <1>8, RowAdded DEF ContextInv
<1>10. ReachInv'
  <2>1. r.cmd.type = "assert_uninstantiable" /\ r.verdict = "PASS" =>
          r.made = Len(instances) + 1 /\ UNCHANGED <<registry, named, current>>
    BY <1>1
  <2> QED
    BY <1>2, <1>3, <2>1, ReachKept DEF ContextInv
<1> QED
  BY <1>2, <1>5, <1>9, <1>10, CountsStay DEF ContextInv

\* A file that cannot be read.
LEMMA UnreadableSound == ContextInv /\ ModuleUnreadable => ContextInv'
<1> SUFFICES ASSUME ContextInv, NEW cmd \in Command({"module"}), cmd.bin = Bad,
                    Judge(cmd, "FAIL", None, None, Came("none")), UNCHANGED ctx
             PROVE  ContextInv'
  BY DEF ModuleUnreadable
<1>1. cmd \in Commands /\ cmd.type = "module"
  BY DEF Command
<1>2. None \in 0..Len(instances) /\ "FAIL" \in Verdicts
  <2>1. Len(instances) \in Nat
    BY LenProperties DEF ContextInv, StoreInv
  <2> QED
    BY <2>1 DEF None, Verdicts
<1> DEFINE r == [cmd |-> cmd, verdict |-> "FAIL", made |-> None, on |-> None,
                 outcome |-> Came("none")]
<1>3. r.cmd = cmd /\ r.verdict = "FAIL" /\ r.outcome = Came("none")
  OBVIOUS
<1>4. RowOn(r, Now) /\ RowEarned(instances, r, Now)
  <2> HIDE DEF r
  <2>1. RowOn(r, Now)
    BY <1>1, <1>3 DEF RowOn, ActionTypes
  <2>2. Came("none") # Came("ok")
    BY OutcomesDiffer
  <2>3. ~ EarnedIn(instances, r, Now)
    BY <1>1, <1>3, <2>2 DEF EarnedIn
  <2> QED
    BY <1>3, <2>1, <2>3 DEF RowEarned
<1> QED
  BY <1>1, <1>2, <1>4, OnlyJudged

\* What passes is what is so.
LEMMA PassIfSo ==
  \A b : PassIf(b) \in Verdicts /\ (PassIf(b) = "PASS" <=> b) /\ PassIf(b) # "UNSUPPORTED"
BY DEF PassIf, Verdicts

\* The instance an action reaches is the one it designates, and one it got
\* something from that it exports.
LEMMA ActsOnDesignated ==
  ASSUME StoreInv, RowsInv, NEW a
  PROVE  /\ ActsOn(a) \in 0..Len(instances)
         /\ ActsOn(a) \in {None, DesignatedIn(Now, a.module)}
         /\ a.type = "invoke" /\ a.args # "good" => ActsOn(a) = None
         /\ \A r \in Performed(a) :
              /\ r.res = "values" => r.values \in Results /\ r = Returns(r.values)
              /\ r.res = "trap" => r.msg \in Messages /\ a.type = "invoke"
              /\ r.res \in {"values", "trap"} => ReachedIn(instances, a, ActsOn(a), Now)
<1>1. /\ Len(instances) \in Nat
      /\ current \in 0..Len(instances)
      /\ \A name \in Names : named[name] \in 0..Len(instances)
  BY LenProperties DEF StoreInv, RowsInv, Now, ContextType
<1>2. \A field : Designated(field) = DesignatedIn(Now, field) /\ Designated(field) \in 0..Len(instances)
  BY <1>1 DEF Designated, DesignatedIn, Now, None
<1>3. ActsOn(a) \in {None, DesignatedIn(Now, a.module)} /\ ActsOn(a) \in 0..Len(instances)
  BY <1>1, <1>2 DEF ActsOn, None
<1>4. a.type = "invoke" /\ a.args # "good" => ActsOn(a) = None
  BY DEF ActsOn, WellShaped
<1> DEFINE has(kind) == ActsOn(a) # None /\ a.field \in DOMAIN instances[ActsOn(a)].exports
                                         /\ instances[ActsOn(a)].exports[a.field] = kind
<1>5. ASSUME NEW r \in Performed(a)
      PROVE  \/ r = Came("error")
             \/ /\ has(IF a.type = "invoke" THEN "func" ELSE "global")
                /\ \/ \E v \in Results : r = Returns(v)
                   \/ a.type = "invoke" /\ \E m \in Messages : r = Traps(m)
  <2>1. CASE a.type = "invoke" /\ has("func")
    BY <2>1 DEF Performed
  <2>2. CASE a.type = "get" /\ has("global")
    BY <2>2 DEF Performed
  <2>3. CASE ~ (a.type = "invoke" /\ has("func")) /\ ~ (a.type = "get" /\ has("global"))
    BY <2>3 DEF Performed
  <2> QED
    BY <2>1, <2>2, <2>3
<1>6. has(IF a.type = "invoke" THEN "func" ELSE "global") => ReachedIn(instances, a, ActsOn(a), Now)
  BY <1>3 DEF ReachedIn
<1> HIDE DEF has
<1>7. ASSUME NEW r \in Performed(a)
      PROVE  /\ r.res = "values" => r.values \in Results /\ r = Returns(r.values)
             /\ r.res = "trap" => r.msg \in Messages /\ a.type = "invoke"
             /\ r.res \in {"values", "trap"} => ReachedIn(instances, a, ActsOn(a), Now)
  <2>1. CASE r = Came("error")
    <3>1. r.res = "error"
      BY <2>1, OutcomesDiffer
    <3> QED
      BY <3>1
  <2>2. ASSUME NEW v \in Results, r = Returns(v),
               has(IF a.type = "invoke" THEN "func" ELSE "global")
        PROVE  /\ r.res = "values" /\ r.values \in Results /\ r = Returns(r.values)
               /\ ReachedIn(instances, a, ActsOn(a), Now)
    BY <1>6, <2>2, OutcomesDiffer
  <2>3. ASSUME NEW m \in Messages, r = Traps(m), a.type = "invoke",
               has(IF a.type = "invoke" THEN "func" ELSE "global")
        PROVE  /\ r.res = "trap" /\ r.msg \in Messages
               /\ ReachedIn(instances, a, ActsOn(a), Now)
    BY <1>6, <2>3, OutcomesDiffer
  <2> QED
    BY <1>5, <2>1, <2>2, <2>3
<1> QED
  BY <1>3, <1>4, <1>7

\* What an action command, assert_return, assert_trap or assert_exhaustion
\* judges.
LEMMA ActionJudged ==
  ASSUME ContextInv, NEW cmd \in Commands, cmd.type \in ActionTypes,
         NEW verdict \in Verdicts, NEW on, NEW got, Judge(cmd, verdict, None, on, got),
         UNCHANGED ctx, on \in {None, ActsOn(cmd.action)},
         NEW r, r = [cmd |-> cmd, verdict |-> verdict, made |-> None, on |-> on, outcome |-> got],
         RowEarned(instances, r, Now)
  PROVE  ContextInv'
<1>1. /\ ActsOn(cmd.action) \in 0..Len(instances)
      /\ ActsOn(cmd.action) \in {None, DesignatedIn(Now, cmd.action.module)}
      /\ cmd.action.type = "invoke" /\ cmd.action.args # "good" => ActsOn(cmd.action) = None
  BY ActsOnDesignated DEF ContextInv
<1>2. on \in 0..Len(instances)
  <2>1. Len(instances) \in Nat
    BY LenProperties DEF ContextInv, StoreInv
  <2> QED
    BY <1>1, <2>1 DEF None
<1>3. r.cmd = cmd /\ r.verdict = verdict /\ r.made = None /\ r.on = on
  OBVIOUS
<1>4. cmd.type \notin {"register", "module", "assert_uninstantiable"}
  BY DEF ActionTypes
<1>5. r.verdict = "PASS" => ReachedIn(instances, cmd.action, on, Now)
  BY <1>3 DEF RowEarned, EarnedIn, ActionTypes
<1>6. RowOn(r, Now)
  BY <1>1, <1>3, <1>5 DEF RowOn, ReachedIn
<1> QED
  BY <1>2, <1>4, <1>6, OnlyJudged

\* An action command that fails or succeeds leaves the context as it was.
LEMMA ActionSound == ContextInv /\ ActionCommand => ContextInv'
<1> SUFFICES ASSUME ContextInv, NEW cmd \in Command({"action"}), NEW got \in Performed(cmd.action),
                    NEW v, v = PassIf(got.res = "values"),
                    Judge(cmd, v, None, ActsOn(cmd.action), got), UNCHANGED ctx
             PROVE  ContextInv'
  BY DEF ActionCommand
<1>1. cmd \in Commands /\ cmd.type = "action"
  BY DEF Command
<1> DEFINE r == [cmd |-> cmd, verdict |-> v, made |-> None, on |-> ActsOn(cmd.action),
                 outcome |-> got]
<1>2. r.cmd = cmd /\ r.verdict = v /\ r.on = ActsOn(cmd.action) /\ r.outcome = got
  OBVIOUS
<1>3. v \in Verdicts /\ (v = "PASS" <=> got.res = "values")
  BY PassIfSo
<1>4. got.res = "values" => ReachedIn(instances, cmd.action, ActsOn(cmd.action), Now)
  BY ActsOnDesignated DEF ContextInv
<1>5. RowEarned(instances, r, Now)
  <2> HIDE DEF r
  <2>1. EarnedIn(instances, r, Now) <=> got.res = "values"
    BY <1>1, <1>2, <1>4 DEF EarnedIn
  <2> QED
    BY <1>2, <1>3, <2>1 DEF RowEarned
<1> QED
  BY <1>1, <1>3, <1>5, ActionJudged DEF ActionTypes

\* Results that match what is expected are what is expected.
LEMMA MatchingAreEqual ==
  ASSUME NEW s, NEW t, s \in Seq(Range(s)), t \in Seq(Range(t)), ReturnsMatch(s, t)
  PROVE  s = t
<1>1. Len(s) = Len(t) /\ \A i \in 1..Len(s) : s[i] = t[i]
  BY SeqRange DEF ReturnsMatch
<1>2. /\ DOMAIN s = 1..Len(s) /\ DOMAIN t = 1..Len(t)
      /\ s \in [1..Len(s) -> Range(s)] /\ t \in [1..Len(t) -> Range(t)]
  BY LenProperties
<1> QED
  BY <1>1, <1>2

\* What is expected matches itself: no value is a bad pattern.
LEMMA MatchesItself == \A v \in Results : ReturnsMatch(v, v)
<1> SUFFICES ASSUME NEW v \in Results, NEW i \in DOMAIN v
             PROVE  v[i] # Bad
  BY DEF ReturnsMatch
<1>1. v \in Seq(Range(v)) /\ Bad \notin Range(v)
  BY RunnerAssumption
<1>2. v[i] \in Range(v)
  BY <1>1, SeqRange DEF Range
<1> QED
  BY <1>1, <1>2

\* assert_return leaves the context as it was.
LEMMA AssertReturnSound == ContextInv /\ AssertReturn => ContextInv'
<1> SUFFICES ASSUME ContextInv, UNCHANGED ctx, NEW cmd \in Command({"assert_return"}),
                    \/ cmd.expected = Absent /\ Judge(cmd, "FAIL", None, None, Came("none"))
                    \/ /\ cmd.expected # Absent
                       /\ \E got \in Performed(cmd.action) :
                            Judge(cmd, PassIf(got.res = "values" /\ ReturnsMatch(got.values, cmd.expected)),
                                  None, ActsOn(cmd.action), got)
             PROVE  ContextInv'
  BY DEF AssertReturn
<1>1. cmd \in Commands /\ cmd.type = "assert_return"
  BY DEF Command
<1>2. CASE Judge(cmd, "FAIL", None, None, Came("none"))
  <2> DEFINE r == [cmd |-> cmd, verdict |-> "FAIL", made |-> None, on |-> None,
                   outcome |-> Came("none")]
  <2>1. r.cmd = cmd /\ r.verdict = "FAIL" /\ r.outcome = Came("none")
    OBVIOUS
  <2>2. RowEarned(instances, r, Now)
    <3> HIDE DEF r
    <3>1. Came("none") # Returns(cmd.expected)
      BY OutcomesDiffer
    <3>2. ~ EarnedIn(instances, r, Now)
      BY <1>1, <2>1, <3>1 DEF EarnedIn
    <3> QED
      BY <2>1, <3>2 DEF RowEarned
  <2> QED
    BY <1>1, <1>2, <2>2, ActionJudged DEF ActionTypes, Verdicts
<1>3. ASSUME cmd.expected # Absent, NEW got \in Performed(cmd.action), NEW v,
             v = PassIf(got.res = "values" /\ ReturnsMatch(got.values, cmd.expected)),
             Judge(cmd, v, None, ActsOn(cmd.action), got)
      PROVE  ContextInv'
  <2> DEFINE r == [cmd |-> cmd, verdict |-> v, made |-> None, on |-> ActsOn(cmd.action),
                   outcome |-> got]
  <2>1. r.cmd = cmd /\ r.verdict = v /\ r.on = ActsOn(cmd.action) /\ r.outcome = got
    OBVIOUS
  <2>2. /\ v \in Verdicts
        /\ v = "PASS" <=> got.res = "values" /\ ReturnsMatch(got.values, cmd.expected)
    BY <1>3, PassIfSo
  <2>3. got.res = "values" => /\ got.values \in Results /\ got = Returns(got.values)
                              /\ ReachedIn(instances, cmd.action, ActsOn(cmd.action), Now)
    BY <1>3, ActsOnDesignated DEF ContextInv
  <2>4. got.res = "values" /\ ReturnsMatch(got.values, cmd.expected) <=> got = Returns(cmd.expected)
    <3>1. ASSUME got.res = "values", ReturnsMatch(got.values, cmd.expected)
          PROVE  got = Returns(cmd.expected)
      <4>1. /\ got.values \in Seq(Range(got.values))
            /\ cmd.expected \in Seq(Range(cmd.expected))
        BY <1>1, <1>3, <2>3, <3>1, RunnerAssumption
      <4>2. got.values = cmd.expected
        BY <3>1, <4>1, MatchingAreEqual
      <4> QED
        BY <2>3, <3>1, <4>2
    <3>2. ASSUME got = Returns(cmd.expected)
          PROVE  got.res = "values" /\ ReturnsMatch(got.values, cmd.expected)
      <4>1. got.res = "values" /\ got.values = cmd.expected
        BY <3>2, OutcomesDiffer
      <4> QED
        BY <2>3, <4>1, MatchesItself
    <3> QED
      BY <3>1, <3>2
  <2>5. RowEarned(instances, r, Now)
    <3> HIDE DEF r
    <3>1. EarnedIn(instances, r, Now) <=> got = Returns(cmd.expected)
      BY <1>1, <2>1, <2>3, <2>4 DEF EarnedIn
    <3> QED
      BY <2>1, <2>2, <2>4, <3>1 DEF RowEarned
  <2> QED
    BY <1>1, <1>3, <2>2, <2>5, ActionJudged DEF ActionTypes
<1> QED
  BY <1>2, <1>3

\* One of two sequences is a prefix of the other when they agree where both
\* have an element.
LEMMA PrefixesAgree ==
  ASSUME NEW S, NEW s \in Seq(S), NEW T, NEW t \in Seq(T)
  PROVE  TrapMatches(s, t) <=> Agree(s, t)
<1>1. ASSUME NEW A, NEW a \in Seq(A), NEW B, NEW b \in Seq(B), Len(a) <= Len(b)
      PROVE  IsPrefix(a, b) <=> Agree(a, b)
  <2>1. /\ Len(a) \in Nat /\ Len(b) \in Nat
        /\ DOMAIN a = 1..Len(a) /\ DOMAIN b = 1..Len(b)
        /\ DOMAIN a \cap DOMAIN b = 1..Len(a)
    BY <1>1, LenProperties
  <2>2. /\ SubSeq(a, 1, Len(a)) = [i \in 1..Len(a) |-> a[i]]
        /\ SubSeq(b, 1, Len(a)) = [i \in 1..Len(a) |-> b[i]]
    BY <2>1
  <2>3. SubSeq(a, 1, Len(a)) = SubSeq(b, 1, Len(a)) <=> \A i \in 1..Len(a) : a[i] = b[i]
    BY <2>2
  <2> QED
    BY <1>1, <2>1, <2>3 DEF IsPrefix, Agree
<1>2. Len(s) \in Nat /\ Len(t) \in Nat
  BY LenProperties
<1>3. Agree(s, t) <=> Agree(t, s)
  BY DEF Agree
<1>4. CASE Len(s) <= Len(t)
  <2>1. IsPrefix(s, t) <=> Agree(s, t)
    BY <1>1, <1>4
  <2>2. IsPrefix(t, s) => Agree(s, t)
    <3>1. ASSUME IsPrefix(t, s)
          PROVE  Agree(t, s)
      <4>1. Len(t) <= Len(s)
        BY <3>1 DEF IsPrefix
      <4> QED
        BY <1>1, <3>1, <4>1
    <3> QED
      BY <1>3, <3>1
  <2> QED
    BY <2>1, <2>2 DEF TrapMatches
<1>5. CASE ~ (Len(s) <= Len(t))
  <2>1. Len(t) <= Len(s)
    BY <1>2, <1>5
  <2>2. IsPrefix(t, s) <=> Agree(t, s)
    BY <1>1, <2>1
  <2>3. ~ IsPrefix(s, t)
    BY <1>5 DEF IsPrefix
  <2> QED
    BY <1>3, <2>2, <2>3 DEF TrapMatches
<1> QED
  BY <1>4, <1>5

\* assert_trap and assert_exhaustion leave the context as it was.
LEMMA AssertTrapSound == ContextInv /\ AssertTrap => ContextInv'
<1> SUFFICES ASSUME ContextInv, UNCHANGED ctx,
                    NEW cmd \in Command({"assert_trap", "assert_exhaustion"}),
                    \/ cmd.text = Absent /\ Judge(cmd, "FAIL", None, None, Came("none"))
                    \/ /\ cmd.text # Absent
                       /\ \E got \in Performed(cmd.action) :
                            Judge(cmd, PassIf(got.res = "trap" /\ TrapMatches(got.msg, cmd.text)),
                                  None, ActsOn(cmd.action), got)
             PROVE  ContextInv'
  BY DEF AssertTrap
<1>1. cmd \in Commands /\ cmd.type \in {"assert_trap", "assert_exhaustion"}
  BY DEF Command
<1>2. CASE Judge(cmd, "FAIL", None, None, Came("none"))
  <2> DEFINE r == [cmd |-> cmd, verdict |-> "FAIL", made |-> None, on |-> None,
                   outcome |-> Came("none")]
  <2>1. r.cmd = cmd /\ r.verdict = "FAIL" /\ r.outcome.res = "none"
    BY OutcomesDiffer
  <2>2. RowEarned(instances, r, Now)
    <3> HIDE DEF r
    <3>1. ~ EarnedIn(instances, r, Now)
      BY <1>1, <2>1 DEF EarnedIn
    <3> QED
      BY <2>1, <3>1 DEF RowEarned
  <2> QED
    BY <1>1, <1>2, <2>2, ActionJudged DEF ActionTypes, Verdicts
<1>3. ASSUME cmd.text # Absent, NEW got \in Performed(cmd.action), NEW v,
             v = PassIf(got.res = "trap" /\ TrapMatches(got.msg, cmd.text)),
             Judge(cmd, v, None, ActsOn(cmd.action), got)
      PROVE  ContextInv'
  <2> DEFINE r == [cmd |-> cmd, verdict |-> v, made |-> None, on |-> ActsOn(cmd.action),
                   outcome |-> got]
  <2>1. r.cmd = cmd /\ r.verdict = v /\ r.on = ActsOn(cmd.action) /\ r.outcome = got
    OBVIOUS
  <2>2. v \in Verdicts /\ (v = "PASS" <=> got.res = "trap" /\ TrapMatches(got.msg, cmd.text))
    BY <1>3, PassIfSo
  <2>3. got.res = "trap" => /\ got.msg \in Messages /\ cmd.action.type = "invoke"
                            /\ ReachedIn(instances, cmd.action, ActsOn(cmd.action), Now)
    BY <1>3, ActsOnDesignated DEF ContextInv
  <2>4. got.res = "trap" => (TrapMatches(got.msg, cmd.text) <=> Agree(got.msg, cmd.text))
    <3> SUFFICES ASSUME got.res = "trap"
                 PROVE  TrapMatches(got.msg, cmd.text) <=> Agree(got.msg, cmd.text)
      OBVIOUS
    <3>1. /\ got.msg \in Seq(Range(got.msg))
          /\ cmd.text \in Seq(Range(cmd.text))
      BY <1>1, <1>3, <2>3, RunnerAssumption
    <3> QED
      BY <3>1, PrefixesAgree
  <2>5. RowEarned(instances, r, Now)
    <3> HIDE DEF r
    <3>1. EarnedIn(instances, r, Now) <=> got.res = "trap" /\ Agree(got.msg, cmd.text)
      BY <1>1, <2>1, <2>3 DEF EarnedIn
    <3> QED
      BY <2>1, <2>2, <2>4, <3>1 DEF RowEarned
  <2> QED
    BY <1>1, <1>3, <2>2, <2>5, ActionJudged DEF ActionTypes
<1> QED
  BY <1>2, <1>3

\* The verdict of an assertion that acts on no instance.
LEMMA NothingActedOn ==
  ASSUME ContextInv, NEW cmd \in Commands, NEW verdict \in Verdicts,
         Judge(cmd, verdict, None, None, Came("none")), UNCHANGED ctx,
         cmd.type \notin ActionTypes \union {"register", "module"},
         verdict = "PASS" <=>
           \/ /\ cmd.type = "assert_malformed" /\ cmd.module_type = "binary"
              /\ cmd.bin # Bad /\ ~ cmd.bin.decodes
           \/ cmd.type = "assert_invalid" /\ cmd.bin # Bad /\ cmd.bin.decodes /\ ~ cmd.bin.valid,
         cmd.type = "assert_unlinkable" => cmd.bin = Bad
  PROVE  ContextInv'
<1> DEFINE r == [cmd |-> cmd, verdict |-> verdict, made |-> None, on |-> None,
                 outcome |-> Came("none")]
<1>1. r.cmd = cmd /\ r.verdict = verdict /\ r.made = None
  OBVIOUS
<1>2. None \in 0..Len(instances)
  <2>1. Len(instances) \in Nat
    BY LenProperties DEF ContextInv, StoreInv
  <2> QED
    BY <2>1 DEF None
<1>3. RowOn(r, Now) /\ RowEarned(instances, r, Now)
  <2> HIDE DEF r
  <2>1. RowOn(r, Now)
    BY <1>1 DEF RowOn
  <2>2. EarnedIn(instances, r, Now) <=> verdict = "PASS"
    BY <1>1 DEF EarnedIn, ActionTypes
  <2> QED
    BY <1>1, <2>1, <2>2 DEF RowEarned
<1>4. cmd.type # "assert_uninstantiable" \/ verdict # "PASS"
  OBVIOUS
<1> QED
  BY <1>2, <1>3, <1>4, OnlyJudged

\* assert_malformed makes no instance.
LEMMA MalformedSound == ContextInv /\ AssertMalformed => ContextInv'
<1> SUFFICES ASSUME ContextInv, NEW cmd \in Command({"assert_malformed"}), NEW v,
                    v = IF cmd.module_type = "text" THEN "UNSUPPORTED"
                        ELSE PassIf(cmd.module_type = "binary" /\ cmd.bin # Bad /\ ~ cmd.bin.decodes),
                    Judge(cmd, v, None, None, Came("none")), UNCHANGED ctx
             PROVE  ContextInv'
  BY DEF AssertMalformed
<1>1. cmd \in Commands /\ cmd.type = "assert_malformed"
  BY DEF Command
<1>2. /\ v \in Verdicts
      /\ v = "PASS" <=> cmd.module_type = "binary" /\ cmd.bin # Bad /\ ~ cmd.bin.decodes
  <2>1. CASE cmd.module_type = "text"
    BY <2>1 DEF Verdicts
  <2>2. CASE cmd.module_type # "text"
    BY <2>2, PassIfSo
  <2> QED
    BY <2>1, <2>2
<1> QED
  BY <1>1, <1>2, NothingActedOn DEF ActionTypes

\* assert_invalid makes no instance.
LEMMA InvalidSound == ContextInv /\ AssertInvalid => ContextInv'
<1> SUFFICES ASSUME ContextInv, NEW cmd \in Command({"assert_invalid"}), NEW v,
                    v = PassIf(cmd.bin # Bad /\ cmd.bin.decodes /\ ~ cmd.bin.valid),
                    Judge(cmd, v, None, None, Came("none")), UNCHANGED ctx
             PROVE  ContextInv'
  BY DEF AssertInvalid
<1>1. cmd \in Commands /\ cmd.type = "assert_invalid"
  BY DEF Command
<1>2. v \in Verdicts /\ (v = "PASS" <=> cmd.bin # Bad /\ cmd.bin.decodes /\ ~ cmd.bin.valid)
  BY PassIfSo
<1> QED
  BY <1>1, <1>2, NothingActedOn DEF ActionTypes

\* A command of an unknown type makes no instance.
LEMMA UnknownSound == ContextInv /\ UnknownCommand => ContextInv'
<1> SUFFICES ASSUME ContextInv, NEW cmd \in Command({"unknown"}),
                    Judge(cmd, "FAIL", None, None, Came("none")), UNCHANGED ctx
             PROVE  ContextInv'
  BY DEF UnknownCommand
<1>1. cmd \in Commands /\ cmd.type = "unknown"
  BY DEF Command
<1> QED
  BY <1>1, NothingActedOn DEF ActionTypes, Verdicts

\* A namespace is given an instance the command designates.
LEMMA RegisterSound == ContextInv /\ Register => ContextInv'
<1> SUFFICES ASSUME ContextInv, NEW cmd \in Command({"register"}), NEW inst, NEW ok, NEW v,
                    inst = Designated(cmd.name), ok <=> (cmd.as \in Spaces /\ inst # None),
                    v = PassIf(ok),
                    registry' = IF ok THEN [registry EXCEPT ![cmd.as] = inst] ELSE registry,
                    Judge(cmd, v, None, inst, Came("none")),
                    UNCHANGED <<instances, named, current>>
             PROVE  ContextInv'
  BY DEF Register
<1> DEFINE r == [cmd |-> cmd, verdict |-> v, made |-> None, on |-> inst, outcome |-> Came("none")]
<1>1. r.cmd = cmd /\ r.verdict = v /\ r.made = None /\ r.on = inst
  OBVIOUS
<1>2. rows' = Append(rows, r) /\ counts' = Counted(counts, v) /\ exit' = exit
  BY DEF Judge
<1> HIDE DEF r
<1>3. cmd \in Commands /\ cmd.type = "register"
  BY DEF Command
<1>4. /\ Len(instances) \in Nat
      /\ current \in 0..Len(instances)
      /\ named \in [Names -> 0..Len(instances)]
      /\ registry \in [Spaces -> 0..Len(instances)]
      /\ Now \in ContextType(Len(instances))
  BY LenProperties DEF ContextInv, StoreInv, RowsInv, Now, ContextType
<1>5. v \in Verdicts /\ (v = "PASS" <=> ok)
  BY PassIfSo DEF PassIf
<1>6. /\ inst \in 0..Len(instances)
      /\ inst = None \/ inst = current \/ \E name \in Names : inst = named[name]
  BY <1>4 DEF Designated, None
<1>7. StoreInv' /\ Grows(instances, instances')
  BY <1>4 DEF ContextInv, StoreInv, Grows
<1>8. RowFits(instances', r, Now)
  <2>1. RowTyped(instances, r, Now)
    BY <1>1, <1>3, <1>4, <1>5, <1>6 DEF RowTyped, None
  <2>2. RowOn(r, Now) /\ RowLinked(instances, r, Now)
    BY <1>1, <1>3 DEF RowOn, RowLinked, ActionTypes
  <2>3. inst = DesignatedIn(Now, cmd.name)
    BY DEF Designated, DesignatedIn, Now
  <2>4. RowEarned(instances, r, Now)
    BY <1>1, <1>3, <1>5, <2>3 DEF RowEarned, EarnedIn
  <2> QED
    BY <1>7, <2>1, <2>2, <2>4 DEF RowFits
<1>9. registry' \in [Spaces -> 0..Len(instances)]
  BY <1>4, <1>6
<1>10. Now' \in ContextType(Len(instances'))
  BY <1>4, <1>9 DEF Now, ContextType
<1>11. Now' = ContextStep(Now, r)
  <2>1. ASSUME NEW space \in Spaces
        PROVE  registry'[space] =
                 IF r.cmd.type = "register" /\ r.verdict = "PASS" /\ r.cmd.as = space
                 THEN r.on ELSE registry[space]
    BY <1>1, <1>3, <1>4, <1>5
  <2>2. registry' = [space \in Spaces |->
                       IF r.cmd.type = "register" /\ r.verdict = "PASS" /\ r.cmd.as = space
                       THEN r.on ELSE registry[space]]
    BY <1>9, <2>1
  <2>3. named = [name \in Names |-> named[name]]
    BY <1>4
  <2>4. r.cmd.type # "module"
    BY <1>1, <1>3
  <2>5. Now.current = current /\ Now.named = named /\ Now.registry = registry
    BY DEF Now
  <2>6. /\ (IF r.cmd.type = "module" /\ r.cmd.bin # Bad
            THEN IF r.verdict = "PASS" THEN r.made ELSE None ELSE Now.current) = current
        /\ [name \in Names |-> IF r.cmd.type = "module" /\ r.verdict = "PASS" /\ r.cmd.name = name
                               THEN r.made ELSE Now.named[name]] = named
    BY <2>3, <2>4, <2>5
  <2> QED
    BY <2>2, <2>5, <2>6 DEF ContextStep, Now
<1>12. RowsInv'
  BY <1>2, <1>7, <1>8, <1>10, <1>11, RowAdded DEF ContextInv
<1>13. ReachInv'
  <2>1. ASSUME NEW space \in Spaces
        PROVE  \/ registry'[space] \in {registry[space], current}
               \/ \E name \in Names : registry'[space] = named[name]
    BY <1>4, <1>6
  <2>2. ~ (r.cmd.type = "assert_uninstantiable" /\ r.verdict = "PASS")
    BY <1>1, <1>3
  <2> QED
    BY <1>2, <2>1, <2>2, ReachKept DEF ContextInv
<1> QED
  BY <1>2, <1>7, <1>12, <1>13, CountsStay DEF ContextInv

-----------------------------------------------------------------------------
(* Building an instance.                                                   *)

\* A module links when everything it imports is exported.
LEMMA LinksExported == \A b : Links(b) <=> \A imp \in b.imports : ExportedIn(instances, Now, imp)
BY DEF Links, ExportedIn, Now

\* What each outcome says of the module.
LEMMA OutcomeSays ==
  ASSUME NEW b, NEW o \in Outcomes(b)
  PROVE  /\ o \in {"uninstantiable", "ok"} => b.decodes /\ b.valid /\ Links(b)
         /\ o = "unlinkable" <=> b.decodes /\ b.valid /\ ~ Links(b)
<1>1. \A traps : (IF traps THEN "uninstantiable" ELSE "ok") \in {"uninstantiable", "ok"}
  OBVIOUS
<1> QED
  BY <1>1 DEF Outcomes

\* What a build does to the store, and what the row that reports it says of
\* the instance it made.
LEMMA BuildGrows ==
  ASSUME StoreInv, RowsInv, NEW b, NEW o \in Outcomes(b), Built(b, o)
  PROVE  /\ StoreInv' /\ Grows(instances, instances')
         /\ Now \in ContextType(Len(instances'))
         /\ Len(instances) \in Nat /\ Len(instances') \in Nat
         /\ Made(o) \in 0..Len(instances')
         /\ Made(o) = IF o \in {"ok", "uninstantiable"} THEN Len(instances) + 1 ELSE None
         /\ \A r : r.made = Made(o) => RowLinked(instances', r, Now)
         /\ \A imp : ExportedIn(instances', Now, imp) <=> ExportedIn(instances, Now, imp)
<1> DEFINE new == [exports |-> b.exports,
                   links   |-> [imp \in b.imports |-> registry[imp.module]]]
<1>1. /\ Len(instances) \in Nat /\ Len(instances) > 0
      /\ Now \in ContextType(Len(instances)) /\ Now.registry = registry
      /\ registry \in [Spaces -> 0..Len(instances)]
  BY LenProperties DEF StoreInv, RowsInv, Now, ContextType
<1>2. instances' = IF o \in {"ok", "uninstantiable"} THEN Append(instances, new) ELSE instances
  BY DEF Built
<1>3. /\ Append(instances, new) \in Seq(Range(Append(instances, new)))
      /\ Len(Append(instances, new)) = Len(instances) + 1
      /\ \A i \in 1..Len(instances) : Append(instances, new)[i] = instances[i]
      /\ Append(instances, new)[Len(instances) + 1] = new
  BY AppendAny DEF StoreInv
<1>4. new.links = [imp \in b.imports |-> registry[imp.module]]
  OBVIOUS
<1> HIDE DEF new
<1>5. StoreInv' /\ Grows(instances, instances') /\ Len(instances') \in Nat
  <2>1. CASE instances' = Append(instances, new)
    <3>1. /\ instances' \in Seq(Range(instances')) /\ Len(instances') = Len(instances) + 1
          /\ \A i \in 1..Len(instances) : instances'[i] = instances[i]
      BY <1>3, <2>1
    <3> QED
      BY <1>1, <3>1 DEF StoreInv, Grows
  <2>2. CASE instances' = instances
    BY <1>1, <2>2 DEF StoreInv, Grows
  <2> QED
    BY <1>2, <2>1, <2>2
<1>6. Len(instances) <= Len(instances')
  BY <1>1, <1>2, <1>3
<1>7. Now \in ContextType(Len(instances'))
  <2>1. 0..Len(instances) \subseteq 0..Len(instances')
    BY <1>1, <1>5, <1>6
  <2> QED
    BY <1>1, <2>1 DEF ContextType, Now
<1>8. \A imp : ExportedIn(instances', Now, imp) <=> ExportedIn(instances, Now, imp)
  BY <1>1, <1>5, ExportedKept DEF StoreInv
<1>9. Made(o) = IF o \in {"ok", "uninstantiable"} THEN Len(instances) + 1 ELSE None
  BY DEF Made, NextId
<1>10. Made(o) \in 0..Len(instances')
  BY <1>1, <1>2, <1>3, <1>5, <1>9 DEF None
<1>11. ASSUME NEW r, r.made = Made(o)
       PROVE  RowLinked(instances', r, Now)
  <2> SUFFICES ASSUME o \in {"ok", "uninstantiable"}
               PROVE  \A imp \in DOMAIN instances'[r.made].links :
                        /\ imp.module \in Spaces
                        /\ instances'[r.made].links[imp] = Now.registry[imp.module]
                        /\ instances'[r.made].links[imp] \in 1 .. r.made - 1
    BY <1>9, <1>11 DEF RowLinked
  <2>1. r.made = Len(instances) + 1 /\ instances'[r.made] = new
    BY <1>2, <1>3, <1>9, <1>11
  <2>2. Links(b)
    BY OutcomeSays
  <2> SUFFICES ASSUME NEW imp \in b.imports
               PROVE  /\ imp.module \in Spaces
                      /\ registry[imp.module] \in 1 .. r.made - 1
    BY <1>1, <1>4, <2>1
  <2>3. imp.module \in Spaces /\ registry[imp.module] # None
    BY <2>2 DEF Links
  <2>4. registry[imp.module] \in 0..Len(instances) /\ r.made - 1 = Len(instances)
    BY <1>1, <2>1, <2>3
  <2> QED
    BY <2>3, <2>4, <1>1 DEF None
<1> QED
  BY <1>1, <1>5, <1>7, <1>8, <1>9, <1>10, <1>11

\* A module command.
LEMMA ModuleSound == ContextInv /\ ModuleCommand => ContextInv'
<1> SUFFICES ASSUME ContextInv, NEW cmd \in Command({"module"}), cmd.bin # Bad,
                    NEW o \in Outcomes(cmd.bin), Built(cmd.bin, o), NEW v,
                    current' = IF o = "ok" /\ cmd.name # Bad THEN NextId ELSE None,
                    named' = IF o = "ok" /\ cmd.name \in Names
                             THEN [named EXCEPT ![cmd.name] = NextId] ELSE named,
                    v = PassIf(o = "ok" /\ cmd.name # Bad),
                    Judge(cmd, v, Made(o), None, Came(o)),
                    UNCHANGED registry
             PROVE  ContextInv'
  BY DEF ModuleCommand
<1> DEFINE r == [cmd |-> cmd, verdict |-> v, made |-> Made(o), on |-> None, outcome |-> Came(o)]
<1>1. r.cmd = cmd /\ r.verdict = v /\ r.made = Made(o) /\ r.on = None /\ r.outcome = Came(o)
  OBVIOUS
<1>2. rows' = Append(rows, r) /\ counts' = Counted(counts, v) /\ exit' = exit
  BY DEF Judge
<1> HIDE DEF r
<1>3. cmd \in Commands /\ cmd.type = "module"
  BY DEF Command
<1>4. /\ StoreInv' /\ Grows(instances, instances')
      /\ Now \in ContextType(Len(instances'))
      /\ Len(instances) \in Nat /\ Len(instances') \in Nat
      /\ Made(o) \in 0..Len(instances')
      /\ Made(o) = IF o \in {"ok", "uninstantiable"} THEN Len(instances) + 1 ELSE None
      /\ RowLinked(instances', r, Now)
      /\ \A imp : ExportedIn(instances', Now, imp) <=> ExportedIn(instances, Now, imp)
  BY <1>1, BuildGrows DEF ContextInv
<1>5. v \in Verdicts /\ (v = "PASS" <=> o = "ok" /\ cmd.name # Bad)
  BY PassIfSo DEF PassIf
<1>6. /\ o = "ok" => Made(o) = NextId /\ NextId = Len(instances) + 1
      /\ o = "ok" => NextId \in 0..Len(instances')
  BY <1>4 DEF NextId
<1>7. None \in 0..Len(instances')
  BY <1>4 DEF None
<1>8. RowFits(instances', r, Now)
  <2>1. RowTyped(instances', r, Now)
    BY <1>1, <1>3, <1>4, <1>5, <1>7 DEF RowTyped
  <2>2. RowOn(r, Now)
    BY <1>1, <1>3 DEF RowOn, ActionTypes
  <2>3. o = "ok" => LinkedIn(instances', Now, cmd.bin)
    BY <1>4, OutcomeSays, LinksExported DEF LinkedIn
  <2>4. Came(o) = Came("ok") <=> o = "ok"
    BY OutcomesDiffer
  <2>5. RowEarned(instances', r, Now)
    BY <1>1, <1>3, <1>5, <2>3, <2>4 DEF RowEarned, EarnedIn
  <2> QED
    BY <1>4, <2>1, <2>2, <2>5 DEF RowFits
<1>9. /\ Now.current = current /\ Now.named = named /\ Now.registry = registry
      /\ named \in [Names -> 0..Len(instances')] /\ registry \in [Spaces -> 0..Len(instances')]
  BY <1>4 DEF Now, ContextType
<1>10. Bad \notin Names
  BY RunnerAssumption
<1>11. ASSUME NEW name \in Names
       PROVE  named'[name] = IF r.cmd.type = "module" /\ r.verdict = "PASS" /\ r.cmd.name = name
                             THEN r.made ELSE named[name]
  BY <1>1, <1>3, <1>5, <1>6, <1>9, <1>10
<1>12. named' \in [Names -> 0..Len(instances')] /\ current' \in 0..Len(instances')
  BY <1>6, <1>7, <1>9
<1>13. Now' \in ContextType(Len(instances'))
  BY <1>9, <1>12 DEF Now, ContextType
<1>14. Now' = ContextStep(Now, r)
  <2>1. named' = [name \in Names |->
                    IF r.cmd.type = "module" /\ r.verdict = "PASS" /\ r.cmd.name = name
                    THEN r.made ELSE named[name]]
    BY <1>11, <1>12
  <2>2. current' = IF r.cmd.type = "module" /\ r.cmd.bin # Bad
                   THEN IF r.verdict = "PASS" THEN r.made ELSE None ELSE current
    BY <1>1, <1>3, <1>5, <1>6
  <2>3. [space \in Spaces |-> IF r.cmd.type = "register" /\ r.verdict = "PASS" /\ r.cmd.as = space
                              THEN r.on ELSE registry[space]] = registry
    <3>1. r.cmd.type # "register"
      BY <1>1, <1>3
    <3> QED
      BY <1>9, <3>1
  <2> QED
    BY <1>9, <2>1, <2>2, <2>3 DEF ContextStep, Now
<1>15. RowsInv'
  BY <1>2, <1>4, <1>8, <1>13, <1>14, RowAdded DEF ContextInv
<1>16. ReachInv'
  <2>1. current' \in {current, None, Len(instances) + 1}
    BY <1>6
  <2>2. ASSUME NEW name \in Names
        PROVE  named'[name] \in {named[name], Len(instances) + 1}
    BY <1>6, <1>9
  <2>3. ~ (r.cmd.type = "assert_uninstantiable" /\ r.verdict = "PASS")
    BY <1>1, <1>3
  <2> QED
    BY <1>2, <2>1, <2>2, <2>3, ReachKept DEF ContextInv
<1> QED
  BY <1>2, <1>4, <1>15, <1>16, CountsStay DEF ContextInv

\* assert_unlinkable and assert_uninstantiable.
LEMMA BuildSound == ContextInv /\ AssertBuild => ContextInv'
<1> SUFFICES ASSUME ContextInv, UNCHANGED <<registry, named, current>>,
                    NEW cmd \in Command({"assert_unlinkable", "assert_uninstantiable"}),
                    \/ /\ cmd.bin = Bad /\ Judge(cmd, "FAIL", None, None, Came("none"))
                       /\ UNCHANGED instances
                    \/ /\ cmd.bin # Bad
                       /\ \E o \in Outcomes(cmd.bin) :
                            /\ Built(cmd.bin, o)
                            /\ Judge(cmd, PassIf(o = IF cmd.type = "assert_unlinkable"
                                                     THEN "unlinkable" ELSE "uninstantiable"),
                                     Made(o), None, Came(o))
             PROVE  ContextInv'
  BY DEF AssertBuild
<1>1. cmd \in Commands /\ cmd.type \in {"assert_unlinkable", "assert_uninstantiable"}
  BY DEF Command
<1>2. CASE cmd.bin = Bad /\ Judge(cmd, "FAIL", None, None, Came("none")) /\ UNCHANGED instances
  <2>1. UNCHANGED ctx
    BY <1>2 DEF ctx
  <2> QED
    BY <1>1, <1>2, <2>1, NothingActedOn DEF ActionTypes, Verdicts
<1>3. ASSUME cmd.bin # Bad, NEW o \in Outcomes(cmd.bin), Built(cmd.bin, o), NEW v,
             v = PassIf(o = IF cmd.type = "assert_unlinkable" THEN "unlinkable" ELSE "uninstantiable"),
             Judge(cmd, v, Made(o), None, Came(o))
      PROVE  ContextInv'
  <2> DEFINE r == [cmd |-> cmd, verdict |-> v, made |-> Made(o), on |-> None, outcome |-> Came(o)]
  <2>1. r.cmd = cmd /\ r.verdict = v /\ r.made = Made(o) /\ r.on = None /\ r.outcome = Came(o)
    OBVIOUS
  <2>2. rows' = Append(rows, r) /\ counts' = Counted(counts, v) /\ exit' = exit
    BY <1>3 DEF Judge
  <2> HIDE DEF r
  <2>3. /\ StoreInv' /\ Grows(instances, instances')
        /\ Now \in ContextType(Len(instances'))
        /\ Len(instances) \in Nat /\ Len(instances') \in Nat
        /\ Made(o) \in 0..Len(instances')
        /\ Made(o) = IF o \in {"ok", "uninstantiable"} THEN Len(instances) + 1 ELSE None
        /\ RowLinked(instances', r, Now)
        /\ \A imp : ExportedIn(instances', Now, imp) <=> ExportedIn(instances, Now, imp)
    BY <1>3, <2>1, BuildGrows DEF ContextInv
  <2>4. /\ v \in Verdicts
        /\ v = "PASS" <=> o = IF cmd.type = "assert_unlinkable" THEN "unlinkable" ELSE "uninstantiable"
    BY <1>3, PassIfSo
  <2>5. RowTyped(instances', r, Now)
    <3>1. None \in 0..Len(instances')
      BY <2>3 DEF None
    <3>2. r.cmd.type # "register"
      BY <1>1, <2>1
    <3> QED
      BY <1>1, <2>1, <2>3, <2>4, <3>1, <3>2 DEF RowTyped
  <2>6. RowOn(r, Now)
    BY <1>1, <2>1 DEF RowOn, ActionTypes
  <2>7. RowEarned(instances', r, Now)
    <3>1. Links(cmd.bin) <=> \A imp \in cmd.bin.imports : ExportedIn(instances', Now, imp)
      BY <2>3, LinksExported
    <3>2. CASE cmd.type = "assert_unlinkable"
      <4>1. o = "unlinkable" <=> cmd.bin.decodes /\ cmd.bin.valid /\ ~ Links(cmd.bin)
        BY <1>3, OutcomeSays
      <4>2. EarnedIn(instances', r, Now) <=> o = "unlinkable"
        BY <1>3, <2>1, <3>1, <3>2, <4>1 DEF EarnedIn
      <4> QED
        BY <2>1, <2>4, <3>2, <4>2 DEF RowEarned
    <3>3. CASE cmd.type = "assert_uninstantiable"
      <4>1. o = "uninstantiable" => LinkedIn(instances', Now, cmd.bin)
        BY <1>3, <3>1, OutcomeSays DEF LinkedIn
      <4>2. o = "uninstantiable" => Made(o) # None
        BY <2>3 DEF None
      <4>3. Came(o) = Came("uninstantiable") <=> o = "uninstantiable"
        BY OutcomesDiffer
      <4>4. EarnedIn(instances', r, Now) <=> o = "uninstantiable"
        BY <2>1, <3>3, <4>1, <4>2, <4>3 DEF EarnedIn
      <4> QED
        BY <2>1, <2>4, <3>3, <4>4 DEF RowEarned
    <3> QED
      BY <1>1, <3>2, <3>3
  <2>8. RowFits(instances', r, Now)
    BY <2>3, <2>5, <2>6, <2>7 DEF RowFits
  <2>9. Now' = Now /\ ContextStep(Now, r) = Now
    <3>1. /\ Now.current = current /\ Now.named = named /\ Now.registry = registry
          /\ named = [name \in Names |-> named[name]]
          /\ registry = [space \in Spaces |-> registry[space]]
      BY <2>3 DEF Now, ContextType
    <3>2. r.cmd.type # "module" /\ r.cmd.type # "register"
      BY <1>1, <2>1
    <3> QED
      BY <3>1, <3>2 DEF ContextStep, Now
  <2>10. RowsInv'
    BY <2>2, <2>3, <2>8, <2>9, RowAdded DEF ContextInv
  <2>11. ReachInv'
    <3>1. r.cmd.type = "assert_uninstantiable" /\ r.verdict = "PASS" =>
            r.made = Len(instances) + 1 /\ UNCHANGED <<registry, named, current>>
      BY <2>1, <2>3, <2>4
    <3> QED
      BY <2>2, <3>1, ReachKept DEF ContextInv
  <2> QED
    BY <2>2, <2>3, <2>10, <2>11, CountsStay DEF ContextInv
<1> QED
  BY <1>2, <1>3

-----------------------------------------------------------------------------
(* Files.                                                                  *)

\* A file starts with nothing but the spectest module.
LEMMA FreshSound ==
  FreshContext(instances, registry, named, current) /\ rows = <<>>
    => StoreInv /\ RowsInv /\ ReachInv
<1> SUFFICES ASSUME FreshContext(instances, registry, named, current), rows = <<>>
             PROVE  StoreInv /\ RowsInv /\ ReachInv
  OBVIOUS
<1>1. instances \in Seq(Range(instances)) /\ Len(instances) = 1
  <2>1. <<SpectestInstance>> \in Seq({SpectestInstance})
    OBVIOUS
  <2>2. Len(<<SpectestInstance>>) = 1
    OBVIOUS
  <2> QED
    BY <2>1, <2>2, SeqRange DEF FreshContext
<1>2. rows \in Seq(Range(rows)) /\ Len(rows) = 0
  BY EmptySeq
<1>3. /\ registry = [s \in Spaces |-> IF s = "spectest" THEN 1 ELSE None]
      /\ named = [n \in Names |-> None] /\ current = None
  BY DEF FreshContext
<1>4. Now = ContextBy(rows, 0)
  <2>1. /\ Modules(rows, 0) = {}
        /\ \A name : Namings(rows, name, 0) = {}
        /\ \A space : Registrations(rows, space, 0) = {}
    BY DEF Modules, Namings, Registrations
  <2> QED
    BY <1>3, <2>1 DEF Now, ContextBy, CurrentBy, NamedBy, RegisteredBy
<1>5. Now \in ContextType(1)
  BY <1>3 DEF Now, ContextType, None
<1> QED
  BY <1>1, <1>2, <1>4, <1>5 DEF StoreInv, RowsInv, ReachInv

\* The invariant holds at first.
LEMMA ContextInit == Init => ContextInv
<1> SUFFICES ASSUME Init
             PROVE  ContextInv
  OBVIOUS
<1>1. StoreInv /\ RowsInv /\ ReachInv
  BY FreshSound DEF Init
<1>2. counts \in [{"total", "pass", "fail", "unsupported"} -> Nat]
  BY DEF Init, NoCounts
<1> QED
  BY <1>1, <1>2 DEF Init, ContextInv

\* What is not a command starts a file or leaves the current one as it is.
LEMMA FilesSound ==
  ContextInv /\ (StartFile \/ EndFile \/ HarnessError \/ Report) => ContextInv'
<1> SUFFICES ASSUME ContextInv, StartFile \/ EndFile \/ HarnessError \/ Report
             PROVE  ContextInv'
  OBVIOUS
<1>1. CASE StartFile
  <2>1. FreshContext(instances', registry', named', current') /\ rows' = <<>>
    BY <1>1 DEF StartFile
  <2>2. (FreshContext(instances, registry, named, current) /\ rows = <<>>)'
    BY <2>1 DEF FreshContext
  <2>3. StoreInv' /\ RowsInv' /\ ReachInv'
    BY <2>2, FreshSound, PTL
  <2>4. counts' \in [{"total", "pass", "fail", "unsupported"} -> Nat]
    BY <1>1 DEF StartFile, NoCounts
  <2> QED
    BY <1>1, <2>3, <2>4 DEF StartFile, ContextInv
<1>2. CASE EndFile \/ HarnessError \/ Report
  <2>1. /\ UNCHANGED <<ctx, rows, counts>>
        /\ exit' \in {"files", "success", "failure", "error"}
    BY <1>2 DEF EndFile, HarnessError, Report
  <2> QED
    BY <2>1 DEF ContextInv, StoreInv, RowsInv, ReachInv, Now, ctx
<1> QED
  BY <1>1, <1>2

\* Every step keeps it.
LEMMA ContextNextInv == ContextInv /\ [Next]_vars => ContextInv'
<1> SUFFICES ASSUME ContextInv, [Next]_vars
             PROVE  ContextInv'
  OBVIOUS
<1>1. CASE RunCommand
  BY <1>1, UnreadableSound, ModuleSound, RegisterSound, ActionSound, AssertReturnSound,
     AssertTrapSound, MalformedSound, InvalidSound, BuildSound, UnknownSound DEF RunCommand
<1>2. CASE StartFile \/ EndFile \/ HarnessError \/ Report
  BY <1>2, FilesSound
<1>3. CASE UNCHANGED vars
  BY <1>3 DEF vars, ctx, ContextInv, StoreInv, RowsInv, ReachInv, Now
<1> QED
  BY <1>1, <1>2, <1>3 DEF Next

\* In every reachable state the rows of the file fit the context they were
\* judged in, and say what the context is (runfile.rs).
THEOREM ContextIsRows == Spec => []ContextInv
BY ContextInit, ContextNextInv, PTL DEF Spec

-----------------------------------------------------------------------------
(* The properties.                                                         *)

\* The properties read the same off the rows.
LEMMA AfterIsBy ==
  /\ \A n : CurrentAfter(n) = CurrentBy(rows, n)
  /\ \A name, n : NamedAfter(name, n) = NamedBy(rows, name, n)
  /\ \A space, n : RegisteredAfter(space, n) = RegisteredBy(rows, space, n)
<1>1. \A n : {i \in RowsOf("module", n) : Readable(i)} = Modules(rows, n)
  BY DEF RowsOf, Readable, Modules
<1>2. \A name, n : {i \in RowsOf("module", n) : Passed(i) /\ rows[i].cmd.name = name}
                     = Namings(rows, name, n)
  BY DEF RowsOf, Passed, Namings
<1>3. \A space, n : {i \in RowsOf("register", n) : Passed(i) /\ rows[i].cmd.as = space}
                     = Registrations(rows, space, n)
  BY DEF RowsOf, Passed, Registrations
<1>4. \A S : Latest(S, "made") = IF S = {} THEN None ELSE rows[Max(S)].made
  BY DEF Latest
<1>5. \A S : Latest(S, "on") = IF S = {} THEN None ELSE rows[Max(S)].on
  BY DEF Latest
<1>6. \A n : CurrentAfter(n) = CurrentBy(rows, n)
  BY <1>1, <1>4 DEF CurrentAfter, CurrentBy, Passed
<1>7. \A name, n : NamedAfter(name, n) = NamedBy(rows, name, n)
  BY <1>2, <1>4 DEF NamedAfter, NamedBy
<1>8. \A space, n : RegisteredAfter(space, n) = RegisteredBy(rows, space, n)
  BY <1>3, <1>5 DEF RegisteredAfter, RegisteredBy
<1> QED
  BY <1>6, <1>7, <1>8

\* The context is what the verdicts of the file say, whatever failed in
\* between (runfile.rs).
THEOREM ContextAlwaysFollows == Spec => []ContextFollowsVerdicts
<1>1. ContextInv => ContextFollowsVerdicts
  <2> SUFFICES ASSUME ContextInv
               PROVE  ContextFollowsVerdicts
    OBVIOUS
  <2>1. Now = ContextBy(rows, Len(rows))
    BY DEF ContextInv, RowsInv
  <2>2. /\ current = CurrentBy(rows, Len(rows))
        /\ \A name \in Names : named[name] = NamedBy(rows, name, Len(rows))
        /\ \A space \in Spaces : registry[space] = RegisteredBy(rows, space, Len(rows))
    BY <2>1 DEF Now, ContextBy
  <2> QED
    BY <2>2, AfterIsBy DEF ContextFollowsVerdicts
<1> QED
  BY <1>1, ContextIsRows, PTL

\* Verdicts are about the instance their command designates, and instances
\* are linked to what was registered when they were made (runfile.rs).
THEOREM DesignationsAlwaysHold == Spec => []DesignationsHold
<1>1. ContextInv => DesignationsHold
  <2> SUFFICES ASSUME ContextInv
               PROVE  DesignationsHold
    OBVIOUS
  <2>1. /\ DOMAIN rows = 1..Len(rows)
        /\ \A i \in 1..Len(rows) : RowFits(instances, rows[i], ContextBy(rows, i - 1))
    BY SeqRange DEF ContextInv, RowsInv
  <2>2. TypeOK
    <3>1. instances # <<>>
      BY EmptySeq DEF ContextInv, StoreInv
    <3>2. /\ registry \in [Spaces -> 0..Len(instances)]
          /\ named \in [Names -> 0..Len(instances)]
          /\ current \in 0..Len(instances)
      BY DEF ContextInv, RowsInv, Now, ContextType
    <3>3. \A i \in DOMAIN rows : rows[i].cmd \in Commands /\ rows[i].verdict \in Verdicts
      BY <2>1 DEF RowFits, RowTyped
    <3> QED
      BY <3>1, <3>2, <3>3 DEF TypeOK, ContextInv
  <2>3. ASSUME NEW i \in DOMAIN rows
        PROVE  /\ \A field : DesignatedAfter(field, i - 1) = DesignatedIn(ContextBy(rows, i - 1), field)
               /\ \A space \in Spaces :
                    ContextBy(rows, i - 1).registry[space] = RegisteredAfter(space, i - 1)
    BY AfterIsBy DEF DesignatedAfter, DesignatedIn, ContextBy
  <2>4. VerdictsOnDesignated
    <3>1. ASSUME NEW i \in DOMAIN rows, rows[i].cmd.type \in ActionTypes
          PROVE  /\ rows[i].on \in {None, DesignatedAfter(rows[i].cmd.action.module, i - 1)}
                 /\ Passed(i) => rows[i].on # None
                 /\ rows[i].cmd.action.type = "invoke" /\ rows[i].cmd.action.args # "good"
                      => rows[i].on = None
      <4>1. RowOn(rows[i], ContextBy(rows, i - 1))
        BY <2>1 DEF RowFits
      <4> QED
        BY <2>3, <3>1, <4>1 DEF RowOn, Passed
    <3> QED
      BY <3>1 DEF VerdictsOnDesignated, ActionTypes
  <2>5. LinkedToRegistered
    <3>1. ASSUME NEW i \in DOMAIN rows, rows[i].made # None,
                 NEW imp \in DOMAIN instances[rows[i].made].links
          PROVE  /\ instances[rows[i].made].links[imp] = RegisteredAfter(imp.module, i - 1)
                 /\ instances[rows[i].made].links[imp] \in 1 .. rows[i].made - 1
      <4>1. RowLinked(instances, rows[i], ContextBy(rows, i - 1))
        BY <2>1 DEF RowFits
      <4> QED
        BY <2>3, <3>1, <4>1 DEF RowLinked
    <3> QED
      BY <3>1 DEF LinkedToRegistered
  <2> QED
    BY <2>2, <2>4, <2>5 DEF DesignationsHold
<1> QED
  BY <1>1, ContextIsRows, PTL

\* A row passes exactly when the engine did what its command asks, at the
\* stage it asks for (runfile.rs).
THEOREM PassesAlwaysEarned == Spec => []PassesAreEarned
<1>1. ContextInv => PassesAreEarned
  <2> SUFFICES ASSUME ContextInv, NEW i \in DOMAIN rows
               PROVE  Passed(i) <=> Earned(i)
    BY DEF PassesAreEarned
  <2> DEFINE c == ContextBy(rows, i - 1)
  <2>1. /\ DOMAIN rows = 1..Len(rows) /\ Len(rows) \in Nat
        /\ RowEarned(instances, rows[i], c)
    BY SeqRange DEF ContextInv, RowsInv, RowFits
  <2>2. ASSUME NEW space, space \notin Spaces
        PROVE  RegisteredAfter(space, i - 1) = None
    <3>1. space # "spectest"
      BY <2>2, RunnerAssumption
    <3>2. \A j \in 1 .. i - 1 : ~ (rows[j].cmd.type = "register" /\ rows[j].verdict = "PASS"
                                   /\ rows[j].cmd.as = space)
      <4> TAKE j \in 1 .. i - 1
      <4>1. j \in 1..Len(rows)
        BY <2>1
      <4> QED
        BY <2>2, <4>1 DEF ContextInv, RowsInv, RowFits, RowTyped
    <3>3. Registrations(rows, space, i - 1) = {}
      BY <3>2 DEF Registrations
    <3> QED
      BY <3>1, <3>3, AfterIsBy DEF RegisteredBy
  <2>3. \A imp : Exported(imp, i) <=> ExportedIn(instances, ContextBy(rows, i - 1), imp)
    <3> TAKE imp
    <3>1. CASE imp.module \in Spaces
      <4>1. ContextBy(rows, i - 1).registry[imp.module] = RegisteredAfter(imp.module, i - 1)
        BY <3>1, AfterIsBy DEF ContextBy
      <4> QED
        BY <3>1, <4>1 DEF Exported, ExportedIn
    <3>2. CASE imp.module \notin Spaces
      BY <2>2, <3>2 DEF Exported, ExportedIn
    <3> QED
      BY <3>1, <3>2
  <2>4. rows[i].cmd.type = "assert_uninstantiable" /\ Passed(i) =>
          rows[i].made \notin {current} \union Range(named) \union Range(registry)
    <3> SUFFICES ASSUME rows[i].cmd.type = "assert_uninstantiable", Passed(i)
                 PROVE  rows[i].made \notin {current} \union Range(named) \union Range(registry)
      OBVIOUS
    <3>1. /\ current # rows[i].made
          /\ \A name \in Names : named[name] # rows[i].made
          /\ \A space \in Spaces : registry[space] # rows[i].made
      BY <2>1 DEF ContextInv, ReachInv, Passed
    <3>2. DOMAIN named = Names /\ DOMAIN registry = Spaces
      BY DEF ContextInv, RowsInv, Now, ContextType
    <3> QED
      BY <3>1, <3>2 DEF Range
  <2>5. \A field : DesignatedAfter(field, i - 1) = DesignatedIn(c, field)
    BY AfterIsBy DEF DesignatedAfter, DesignatedIn, ContextBy
  <2> HIDE DEF c
  <2>6. \A b : Linked(b, i) <=> LinkedIn(instances, c, b)
    BY <2>3 DEF Linked, LinkedIn, c
  <2>7. Reaches(i) <=> ReachedIn(instances, rows[i].cmd.action, rows[i].on, c)
    BY <2>5 DEF Reaches, ReachedIn
  <2>8. Passed(i) <=> EarnedIn(instances, rows[i], c)
    BY <2>1 DEF Passed, RowEarned
  <2>9. ASSUME NEW r, r = rows[i]
        PROVE  EarnedIn(instances, rows[i], c) <=> Earned(i)
    <3>1. CASE r.cmd.type = "assert_uninstantiable"
      BY <2>4, <2>6, <2>8, <2>9, <3>1 DEF Earned, EarnedIn
    <3>2. CASE r.cmd.type = "assert_unlinkable"
      BY <2>3, <2>9, <3>2 DEF Earned, EarnedIn, c
    <3>3. CASE r.cmd.type \in {"module", "register"}
      BY <2>5, <2>6, <2>9, <3>3 DEF Earned, EarnedIn
    <3>4. CASE r.cmd.type \in ActionTypes
      BY <2>7, <2>9, <3>4 DEF Earned, EarnedIn, ActionTypes
    <3>5. CASE r.cmd.type \notin ActionTypes \union {"module", "register", "assert_unlinkable", "assert_uninstantiable"}
      BY <2>9, <3>5 DEF Earned, EarnedIn, ActionTypes
    <3> QED
      BY <3>1, <3>2, <3>3, <3>4, <3>5
  <2> QED
    BY <2>8, <2>9
<1> QED
  BY <1>1, ContextIsRows, PTL

-----------------------------------------------------------------------------
(* The books.                                                              *)

TextRow(r)  == r.cmd.type = "assert_malformed" /\ r.cmd.module_type = "text"
TextOf(rs)  == {i \in 1..Len(rs) : TextRow(rs[i])}
CountsType  == [{"total", "pass", "fail", "unsupported"} -> Nat]

\* The counters c of the rows rs: UNSUPPORTED counts the text modules, a
\* failure shows, and every row is counted once.
CountsTrue(rs, c) ==
  /\ rs \in Seq(Range(rs)) /\ c \in CountsType
  /\ \A i \in 1..Len(rs) :
       /\ rs[i].verdict \in Verdicts /\ (rs[i].verdict = "UNSUPPORTED" <=> TextRow(rs[i]))
       /\ rs[i].cmd \in Commands
  /\ c["total"] = Len(rs)
  /\ c["fail"] = 0 <=> \A i \in 1..Len(rs) : rs[i].verdict # "FAIL"
  /\ c["unsupported"] = Cardinality(TextOf(rs))
  /\ c["pass"] + c["fail"] + c["unsupported"] = c["total"]

\* Sums over the files fs, and what the exit code is made of.
SumOf(fs, field) == FoldLeft(LAMBDA n, r : n + r.counts[field], 0, fs)
GreenOf(fs) ==
  /\ SumOf(fs, "fail") = 0
  /\ SumOf(fs, "pass") + SumOf(fs, "fail") + SumOf(fs, "unsupported") = SumOf(fs, "total")
  /\ ExpectTotal \in {Absent, SumOf(fs, "total")}
  /\ ExpectUnsupported \in {Absent, SumOf(fs, "unsupported")}

BooksInv ==
  /\ CountsTrue(rows, counts)
  /\ results \in Seq(Range(results))
  /\ \A f \in 1..Len(results) : CountsTrue(results[f].rows, results[f].counts)
  /\ exit \in {"success", "failure"} => (exit = "success" <=> GreenOf(results))

-----------------------------------------------------------------------------
(* Folds.                                                                  *)

\* What a fold over a sequence of n elements does with the sets of indices.
FoldStep(it, s, a) == IF s = {} THEN 0 ELSE it[s \ {Max(s)}] + a[Max(s)]
FoldOver(it, n, a) == it = [s \in SUBSET (1..n) |-> FoldStep(it, s, a)]

\* The sums t of the first elements of a sequence a of n numbers.
SumsTo(t, n, a) ==
  t \in [0..n -> Nat] /\ t[0] = 0 /\ \A i \in 1..n : t[i] = t[i - 1] + a[i]

\* Such a function exists,
LEMMA FoldExists ==
  ASSUME NEW N \in Nat, NEW a
  PROVE  \E it : FoldOver(it, N, a)
<1> DEFINE T == {n \in Nat : \E it : FoldOver(it, n, a)}
<1>1. 0 \in T
  <2> DEFINE it == [s \in SUBSET (1..0) |-> 0]
  <2>1. SUBSET (1..0) = {{}}
    OBVIOUS
  <2>2. it = [s \in SUBSET (1..0) |-> FoldStep(it, s, a)]
    BY <2>1 DEF FoldStep
  <2> HIDE DEF it
  <2> QED
    BY <2>2 DEF FoldOver
<1>2. ASSUME NEW n \in Nat, n \in T
      PROVE  n + 1 \in T
  <2> PICK f : FoldOver(f, n, a)
    BY <1>2
  <2> DEFINE g == [s \in SUBSET (1 .. n + 1) |->
                     IF n + 1 \in s THEN f[s \ {n + 1}] + a[n + 1] ELSE f[s]]
  <2>1. ASSUME NEW s \in SUBSET (1 .. n + 1)
        PROVE  g[s] = FoldStep(g, s, a)
    <3>1. CASE n + 1 \in s
      <4>1. Max(s) = n + 1 /\ s # {}
        BY <3>1, MaxNew
      <4>2. s \ {n + 1} \in SUBSET (1 .. n + 1) /\ n + 1 \notin s \ {n + 1}
        OBVIOUS
      <4>3. g[s] = f[s \ {n + 1}] + a[n + 1] /\ g[s \ {n + 1}] = f[s \ {n + 1}]
        BY <3>1, <4>2
      <4> HIDE DEF g
      <4> QED
        BY <4>1, <4>3 DEF FoldStep
    <3>2. CASE n + 1 \notin s
      <4>1. s \in SUBSET (1..n)
        BY <3>2
      <4>2. f[s] = FoldStep(f, s, a)
        <5>1. f = [u \in SUBSET (1..n) |-> FoldStep(f, u, a)]
          BY DEF FoldOver
        <5> QED
          BY <4>1, <5>1
      <4>3. s # {} => s \ {Max(s)} \in SUBSET (1 .. n + 1) /\ n + 1 \notin s \ {Max(s)}
        BY <3>2
      <4>4. g[s] = f[s] /\ (s # {} => g[s \ {Max(s)}] = f[s \ {Max(s)}])
        BY <3>2, <4>3
      <4> HIDE DEF g
      <4> QED
        BY <4>2, <4>4 DEF FoldStep
    <3> QED
      BY <3>1, <3>2
  <2>2. g = [s \in SUBSET (1 .. n + 1) |-> FoldStep(g, s, a)]
    BY <2>1
  <2> HIDE DEF g
  <2> QED
    BY <2>2 DEF FoldOver
<1>3. \A n \in Nat : n \in T
  <2> HIDE DEF T
  <2> QED
    BY <1>1, <1>2, InductionOn
<1> QED
  BY <1>3

\* and it adds one element after the other.
LEMMA FoldSums ==
  ASSUME NEW N \in Nat, NEW a \in [1..N -> Nat], NEW it, FoldOver(it, N, a)
  PROVE  \E t : SumsTo(t, N, a) /\ it[1..N] = t[N]
<1> DEFINE t == [n \in 0..N |-> it[1..n]]
           T == {n \in Nat : n <= N => t[n] \in Nat}
<1>1. it = [s \in SUBSET (1..N) |-> FoldStep(it, s, a)]
  BY DEF FoldOver
<1>2. t[0] = 0
  <2>1. 1..0 = {} /\ {} \in SUBSET (1..N)
    OBVIOUS
  <2>2. it[{}] = 0
    BY <1>1, <2>1 DEF FoldStep
  <2> QED
    BY <2>1, <2>2
<1>3. ASSUME NEW n \in 1..N
      PROVE  t[n] = t[n - 1] + a[n]
  <2>1. 1..n \in SUBSET (1..N) /\ 1..n # {} /\ n - 1 \in Nat /\ n \in 0..N /\ n - 1 \in 0..N
    OBVIOUS
  <2>2. Max(1..n) = n
    <3>1. (n - 1) + 1 = n
      OBVIOUS
    <3>2. 1..n \subseteq 1 .. (n - 1) + 1 /\ (n - 1) + 1 \in 1..n
      BY <3>1
    <3> QED
      BY <2>1, <3>1, <3>2, MaxNew
  <2>3. (1..n) \ {n} = 1 .. n - 1
    BY <2>1
  <2>4. it[1..n] = FoldStep(it, 1..n, a)
    BY <1>1, <2>1
  <2>5. it[1..n] = it[1 .. n - 1] + a[n]
    BY <2>1, <2>2, <2>3, <2>4 DEF FoldStep
  <2> QED
    BY <2>1, <2>5
<1>4. it[1..N] = t[N]
  OBVIOUS
<1> HIDE DEF t
<1>5. 0 \in T
  BY <1>2
<1>6. ASSUME NEW n \in Nat, n \in T
      PROVE  n + 1 \in T
  <2> SUFFICES ASSUME n + 1 <= N
               PROVE  t[n + 1] \in Nat
    OBVIOUS
  <2>1. n + 1 \in 1..N /\ (n + 1) - 1 = n /\ t[n] \in Nat
    BY <1>6
  <2>2. t[n + 1] = t[n] + a[n + 1] /\ a[n + 1] \in Nat
    BY <1>3, <2>1
  <2> QED
    BY <2>1, <2>2
<1>7. \A n \in Nat : n \in T
  <2> HIDE DEF T
  <2> QED
    BY <1>5, <1>6, InductionOn
<1>8. t \in [0..N -> Nat]
  <2>1. \A n \in 0..N : t[n] \in Nat
    BY <1>7
  <2>2. t = [n \in 0..N |-> t[n]]
    BY DEF t
  <2> QED
    BY <2>1, <2>2
<1> QED
  BY <1>2, <1>3, <1>4, <1>8 DEF SumsTo

\* The sum of a sequence adds one number after the other.
LEMMA TallyIs ==
  ASSUME NEW N \in Nat, NEW a \in [1..N -> Nat]
  PROVE  \E t : SumsTo(t, N, a) /\ Tally(a) = t[N]
<1> DEFINE it == CHOOSE x : FoldOver(x, N, a)
<1>1. Tally(a) = (CHOOSE x : x = [s \in SUBSET (1..N) |->
                    IF s = {} THEN 0 ELSE x[s \ {Max(s)}] + a[Max(s)]])[1..N]
  BY DEF Tally, FoldLeft, MapThenFoldSet
<1>2. Tally(a) = it[1..N]
  BY <1>1 DEF FoldOver, FoldStep
<1>3. FoldOver(it, N, a)
  BY FoldExists
<1> HIDE DEF it
<1>4. PICK t : SumsTo(t, N, a) /\ it[1..N] = t[N]
  BY <1>3, FoldSums
<1> QED
  BY <1>2, <1>4

\* A sum over files is the sum of their numbers.
LEMMA SumIsTally ==
  ASSUME NEW S, NEW fs \in Seq(S), NEW field
  PROVE  SumOf(fs, field) = Tally([f \in 1..Len(fs) |-> fs[f].counts[field]])
<1> DEFINE a == [f \in 1..Len(fs) |-> fs[f].counts[field]]
<1>1. Len(fs) \in Nat /\ DOMAIN fs = 1..Len(fs) /\ DOMAIN a = 1..Len(fs)
  BY LenProperties
<1>2. SumOf(fs, field) = (CHOOSE x : x = [s \in SUBSET (1..Len(fs)) |->
                             IF s = {} THEN 0 ELSE x[s \ {Max(s)}] + fs[Max(s)].counts[field]])[1..Len(fs)]
  BY <1>1 DEF SumOf, FoldLeft, MapThenFoldSet
<1>3. \A s \in SUBSET (1..Len(fs)) : s # {} => a[Max(s)] = fs[Max(s)].counts[field]
  BY <1>1, MaxIn
<1> HIDE DEF a
<1>4. Tally(a) = (CHOOSE x : x = [s \in SUBSET (1..Len(fs)) |->
                    IF s = {} THEN 0 ELSE x[s \ {Max(s)}] + a[Max(s)]])[1..Len(fs)]
  BY <1>1 DEF Tally, FoldLeft, MapThenFoldSet
<1> DEFINE it == CHOOSE x : FoldOver(x, Len(fs), a)
<1>5. Tally(a) = it[1..Len(fs)]
  BY <1>4 DEF FoldOver, FoldStep
<1>6. ASSUME NEW x
      PROVE  FoldOver(x, Len(fs), a) <=>
               x = [s \in SUBSET (1..Len(fs)) |->
                      IF s = {} THEN 0 ELSE x[s \ {Max(s)}] + fs[Max(s)].counts[field]]
  BY <1>3 DEF FoldOver, FoldStep
<1>7. it = CHOOSE x : x = [s \in SUBSET (1..Len(fs)) |->
             IF s = {} THEN 0 ELSE x[s \ {Max(s)}] + fs[Max(s)].counts[field]]
  BY <1>6
<1>8. SumOf(fs, field) = Tally(a)
  BY <1>2, <1>5, <1>7
<1> QED
  BY <1>8 DEF a

\* A sum over files adds one file after the other.
LEMMA SumIs ==
  ASSUME NEW S, NEW fs \in Seq(S), NEW field,
         \A f \in 1..Len(fs) : fs[f].counts[field] \in Nat
  PROVE  \E t : /\ SumsTo(t, Len(fs), [f \in 1..Len(fs) |-> fs[f].counts[field]])
               /\ SumOf(fs, field) = t[Len(fs)]
<1> DEFINE a == [f \in 1..Len(fs) |-> fs[f].counts[field]]
<1>1. Len(fs) \in Nat /\ a \in [1..Len(fs) -> Nat]
  BY LenProperties
<1>2. SumOf(fs, field) = Tally(a)
  BY SumIsTally
<1> HIDE DEF a
<1>3. \E t : SumsTo(t, Len(fs), a) /\ Tally(a) = t[Len(fs)]
  BY <1>1, TallyIs
<1> QED
  BY <1>2, <1>3 DEF a

\* There are n numbers up to n.
LEMMA IntervalCounted ==
  ASSUME NEW n \in Nat
  PROVE  IsFiniteSet(1..n) /\ Cardinality(1..n) = n
<1>1. 1 \in Int /\ n \in Int
  OBVIOUS
<1>2. /\ IsFiniteSet(1..n)
      /\ Cardinality(1..n) = IF 1 > n THEN 0 ELSE n - 1 + 1
  BY <1>1, FS_Interval
<1> QED
  BY <1>2

\* The sums of zeros are zero, and of nothing else.
LEMMA SumsZero ==
  ASSUME NEW N \in Nat, NEW a \in [1..N -> Nat], NEW t, SumsTo(t, N, a)
  PROVE  t[N] \in Nat /\ (t[N] = 0 <=> \A i \in 1..N : a[i] = 0)
<1> DEFINE T == {n \in Nat : n <= N => (t[n] = 0 <=> \A i \in 1..n : a[i] = 0)}
<1>0. /\ t \in [0..N -> Nat] /\ t[0] = 0
      /\ \A i \in 1..N : t[i] = t[i - 1] + a[i]
  BY DEF SumsTo
<1>1. 0 \in T
  BY <1>0
<1>2. ASSUME NEW n \in Nat, n \in T
      PROVE  n + 1 \in T
  <2> SUFFICES ASSUME n + 1 <= N
               PROVE  t[n + 1] = 0 <=> \A i \in 1 .. n + 1 : a[i] = 0
    OBVIOUS
  <2>1. /\ n + 1 \in 1..N /\ (n + 1) - 1 = n /\ n \in 0..N
        /\ 1 .. n + 1 = 1..n \union {n + 1}
    OBVIOUS
  <2>2. t[n + 1] = t[n] + a[n + 1] /\ t[n] \in Nat /\ a[n + 1] \in Nat
    BY <1>0, <2>1
  <2>3. t[n] = 0 <=> \A i \in 1..n : a[i] = 0
    BY <1>2, <2>1
  <2>4. t[n + 1] = 0 <=> t[n] = 0 /\ a[n + 1] = 0
    BY <2>2
  <2> QED
    BY <2>1, <2>3, <2>4
<1>3. \A n \in Nat : n \in T
  <2> HIDE DEF T
  <2> QED
    BY <1>1, <1>2, InductionOn
<1> QED
  BY <1>0, <1>3

\* The numbers d are those of a, b and c together.
AddUpAt(i, a, b, c, d) == a[i] + b[i] + c[i] = d[i]
AddUp(n, a, b, c, d)   == \A i \in 1..n : AddUpAt(i, a, b, c, d)

\* Sums add up as their summands do.
LEMMA SumsAdd ==
  ASSUME NEW N \in Nat,
         NEW a \in [1..N -> Nat], NEW b \in [1..N -> Nat],
         NEW c \in [1..N -> Nat], NEW d \in [1..N -> Nat],
         AddUp(N, a, b, c, d),
         NEW t, SumsTo(t, N, a), NEW u, SumsTo(u, N, b),
         NEW v, SumsTo(v, N, c), NEW w, SumsTo(w, N, d)
  PROVE  AddUpAt(N, t, u, v, w)
<1> DEFINE T == {n \in Nat : n <= N => t[n] + u[n] + v[n] = w[n]}
<1>0. /\ t \in [0..N -> Nat] /\ u \in [0..N -> Nat] /\ v \in [0..N -> Nat] /\ w \in [0..N -> Nat]
      /\ t[0] = 0 /\ u[0] = 0 /\ v[0] = 0 /\ w[0] = 0
      /\ \A i \in 1..N : t[i] = t[i - 1] + a[i] /\ u[i] = u[i - 1] + b[i]
      /\ \A i \in 1..N : v[i] = v[i - 1] + c[i] /\ w[i] = w[i - 1] + d[i]
  BY DEF SumsTo
<1>1. 0 \in T
  BY <1>0
<1>2. ASSUME NEW n \in Nat, n \in T
      PROVE  n + 1 \in T
  <2> SUFFICES ASSUME n + 1 <= N
               PROVE  t[n + 1] + u[n + 1] + v[n + 1] = w[n + 1]
    OBVIOUS
  <2>1. n + 1 \in 1..N /\ (n + 1) - 1 = n /\ n \in 0..N
    OBVIOUS
  <2>2. /\ t[n + 1] = t[n] + a[n + 1] /\ u[n + 1] = u[n] + b[n + 1]
        /\ v[n + 1] = v[n] + c[n + 1] /\ w[n + 1] = w[n] + d[n + 1]
    BY <1>0, <2>1
  <2>3. /\ t[n] \in Nat /\ u[n] \in Nat /\ v[n] \in Nat /\ w[n] \in Nat
        /\ a[n + 1] \in Nat /\ b[n + 1] \in Nat /\ c[n + 1] \in Nat /\ d[n + 1] \in Nat
    BY <1>0, <2>1
  <2>4. t[n] + u[n] + v[n] = w[n] /\ a[n + 1] + b[n + 1] + c[n + 1] = d[n + 1]
    BY <1>2, <2>1 DEF AddUp, AddUpAt
  <2> DEFINE t1 == t[n]  u1 == u[n]  v1 == v[n]  w1 == w[n]
             a1 == a[n + 1]  b1 == b[n + 1]  c1 == c[n + 1]  d1 == d[n + 1]
  <2>5. /\ t1 \in Nat /\ u1 \in Nat /\ v1 \in Nat /\ w1 \in Nat
        /\ a1 \in Nat /\ b1 \in Nat /\ c1 \in Nat /\ d1 \in Nat
        /\ t1 + u1 + v1 = w1 /\ a1 + b1 + c1 = d1
        /\ t[n + 1] = t1 + a1 /\ u[n + 1] = u1 + b1
        /\ v[n + 1] = v1 + c1 /\ w[n + 1] = w1 + d1
    BY <2>2, <2>3, <2>4
  <2> HIDE DEF t1, u1, v1, w1, a1, b1, c1, d1
  <2>6. (t1 + a1) + (u1 + b1) + (v1 + c1) = w1 + d1
    BY ONLY <2>5
  <2> QED
    BY <2>5, <2>6
<1>3. \A n \in Nat : n \in T
  <2> HIDE DEF T
  <2> QED
    BY <1>1, <1>2, InductionOn
<1> QED
  BY <1>3 DEF AddUpAt

\* Pairs of a file and one of its rows.
Pairs(X, n) == UNION {{<<f, i>> : i \in X[f]} : f \in 1..n}

\* There are as many as the rows of all files together.
LEMMA PairsCounted ==
  ASSUME NEW N \in Nat, NEW X, \A f \in 1..N : IsFiniteSet(X[f]),
         NEW t, SumsTo(t, N, [f \in 1..N |-> Cardinality(X[f])])
  PROVE  IsFiniteSet(Pairs(X, N)) /\ Cardinality(Pairs(X, N)) = t[N]
<1> DEFINE T == {n \in Nat : n <= N => IsFiniteSet(Pairs(X, n)) /\ Cardinality(Pairs(X, n)) = t[n]}
<1>0. /\ t \in [0..N -> Nat] /\ t[0] = 0
      /\ \A f \in 1..N : t[f] = t[f - 1] + Cardinality(X[f])
  BY DEF SumsTo
<1>1. 0 \in T
  <2>1. Pairs(X, 0) = {}
    BY DEF Pairs
  <2> QED
    BY <1>0, <2>1, FS_EmptySet
<1>2. ASSUME NEW n \in Nat, n \in T
      PROVE  n + 1 \in T
  <2> SUFFICES ASSUME n + 1 <= N
               PROVE  IsFiniteSet(Pairs(X, n + 1)) /\ Cardinality(Pairs(X, n + 1)) = t[n + 1]
    OBVIOUS
  <2> DEFINE S   == X[n + 1]
             new == {<<n + 1, i>> : i \in S}
             g   == [i \in S |-> <<n + 1, i>>]
  <2>1. /\ n + 1 \in 1..N /\ (n + 1) - 1 = n /\ n \in 0..N
        /\ 1 .. n + 1 = 1..n \union {n + 1} /\ n + 1 \notin 1..n
    OBVIOUS
  <2>2. IsFiniteSet(new) /\ Cardinality(new) = Cardinality(S)
    <3>1. g \in Injection(S, new)
      BY DEF Injection, IsInjective
    <3>2. g \in Surjection(S, new)
      BY DEF Surjection
    <3>3. ExistsBijection(S, new)
      BY <3>1, <3>2 DEF ExistsBijection, Bijection
    <3>4. IsFiniteSet(S)
      BY <2>1
    <3> QED
      BY <3>3, <3>4, FS_Bijection
  <2>3. Pairs(X, n + 1) = Pairs(X, n) \union new
    BY <2>1 DEF Pairs
  <2>4. Pairs(X, n) \cap new = {}
    BY <2>1 DEF Pairs
  <2>5. IsFiniteSet(Pairs(X, n)) /\ Cardinality(Pairs(X, n)) = t[n]
    BY <1>2, <2>1
  <2> HIDE DEF new
  <2>6. IsFiniteSet(Pairs(X, n + 1))
        /\ Cardinality(Pairs(X, n + 1)) = Cardinality(Pairs(X, n)) + Cardinality(new) - 0
    BY <2>2, <2>3, <2>4, <2>5, FS_Union, FS_EmptySet
  <2>7. /\ t[n + 1] = t[n] + Cardinality(S) /\ t[n] \in Nat
        /\ Cardinality(S) \in Nat
    BY <1>0, <2>1, FS_CardinalityType
  <2> QED
    BY <2>2, <2>5, <2>6, <2>7
<1>3. \A n \in Nat : n \in T
  <2> HIDE DEF T
  <2> QED
    BY <1>1, <1>2, InductionOn
<1> QED
  BY <1>3

-----------------------------------------------------------------------------
(* The counters.                                                           *)

\* A row more and its count.
LEMMA CountedTrue ==
  ASSUME NEW rs, NEW c, CountsTrue(rs, c), NEW r, r.verdict \in Verdicts, r.cmd \in Commands,
         r.verdict = "UNSUPPORTED" <=> TextRow(r)
  PROVE  CountsTrue(Append(rs, r), Counted(c, r.verdict))
<1> DEFINE new == Append(rs, r)
           d   == Counted(c, r.verdict)
<1>1. /\ new \in Seq(Range(new)) /\ Len(rs) \in Nat /\ Len(new) = Len(rs) + 1
      /\ \A i \in 1..Len(rs) : new[i] = rs[i]
      /\ new[Len(rs) + 1] = r
  BY AppendAny DEF CountsTrue
<1>2. /\ c["total"] \in Nat /\ c["pass"] \in Nat /\ c["fail"] \in Nat /\ c["unsupported"] \in Nat
      /\ c["total"] = Len(rs)
      /\ c["fail"] = 0 <=> \A i \in 1..Len(rs) : rs[i].verdict # "FAIL"
      /\ c["unsupported"] = Cardinality(TextOf(rs))
      /\ c["pass"] + c["fail"] + c["unsupported"] = c["total"]
      /\ \A i \in 1..Len(rs) :
           /\ rs[i].verdict \in Verdicts /\ (rs[i].verdict = "UNSUPPORTED" <=> TextRow(rs[i]))
           /\ rs[i].cmd \in Commands
  BY DEF CountsTrue, CountsType
<1>3. /\ d["total"] = c["total"] + 1
      /\ d["pass"] = IF r.verdict = "PASS" THEN c["pass"] + 1 ELSE c["pass"]
      /\ d["fail"] = IF r.verdict = "FAIL" THEN c["fail"] + 1 ELSE c["fail"]
      /\ d["unsupported"] = IF r.verdict = "UNSUPPORTED" THEN c["unsupported"] + 1 ELSE c["unsupported"]
  BY DEF Counted
<1>4. d \in CountsType
  BY <1>2 DEF Counted, CountsType
<1> HIDE DEF new, d
<1>5. 1..Len(new) = 1..Len(rs) \union {Len(rs) + 1} /\ Len(rs) + 1 \notin 1..Len(rs)
  BY <1>1
<1>6. d["pass"] + d["fail"] + d["unsupported"] = d["total"]
  <2> DEFINE p == c["pass"]  f == c["fail"]  u == c["unsupported"]  t == c["total"]
             p1 == d["pass"]  f1 == d["fail"]  u1 == d["unsupported"]  t1 == d["total"]
  <2>1. /\ p \in Nat /\ f \in Nat /\ u \in Nat /\ t \in Nat /\ p + f + u = t /\ t1 = t + 1
        /\ \/ p1 = p + 1 /\ f1 = f /\ u1 = u
           \/ p1 = p /\ f1 = f + 1 /\ u1 = u
           \/ p1 = p /\ f1 = f /\ u1 = u + 1
    <3>1. CASE r.verdict = "PASS"
      BY <1>2, <1>3, <3>1
    <3>2. CASE r.verdict = "FAIL"
      BY <1>2, <1>3, <3>2
    <3>3. CASE r.verdict = "UNSUPPORTED"
      BY <1>2, <1>3, <3>3
    <3> QED
      BY <3>1, <3>2, <3>3 DEF Verdicts
  <2> HIDE DEF p, f, u, t, p1, f1, u1, t1
  <2>2. p1 + f1 + u1 = t1
    BY ONLY <2>1
  <2> QED
    BY <2>2 DEF p1, f1, u1, t1
<1>7. d["fail"] = 0 <=> \A i \in 1..Len(new) : new[i].verdict # "FAIL"
  <2>1. (\A i \in 1..Len(new) : new[i].verdict # "FAIL")
          <=> (\A i \in 1..Len(rs) : rs[i].verdict # "FAIL") /\ r.verdict # "FAIL"
    BY <1>1, <1>5
  <2>2. d["fail"] = 0 <=> c["fail"] = 0 /\ r.verdict # "FAIL"
    BY <1>2, <1>3
  <2> QED
    BY <1>2, <2>1, <2>2
<1>8. d["unsupported"] = Cardinality(TextOf(new))
  <2>1. TextOf(new) = TextOf(rs) \union (IF TextRow(r) THEN {Len(rs) + 1} ELSE {})
    BY <1>1, <1>5 DEF TextOf
  <2>2. IsFiniteSet(TextOf(rs)) /\ Len(rs) + 1 \notin TextOf(rs)
    <3>1. IsFiniteSet(1..Len(rs))
      BY <1>1, FS_Interval
    <3>2. TextOf(rs) \in SUBSET (1..Len(rs))
      BY DEF TextOf
    <3> QED
      BY <1>5, <3>1, <3>2, FS_Subset
  <2>3. CASE TextRow(r)
    <3>1. Cardinality(TextOf(new)) = Cardinality(TextOf(rs)) + 1
      BY <2>1, <2>2, <2>3, FS_AddElement
    <3> QED
      BY <1>2, <1>3, <2>3, <3>1
  <2>4. CASE ~ TextRow(r)
    <3>1. TextOf(new) = TextOf(rs)
      BY <2>1, <2>4
    <3> QED
      BY <1>2, <1>3, <2>4, <3>1
  <2> QED
    BY <2>3, <2>4
<1>9. \A i \in 1..Len(new) :
        /\ new[i].verdict \in Verdicts /\ (new[i].verdict = "UNSUPPORTED" <=> TextRow(new[i]))
        /\ new[i].cmd \in Commands
  BY <1>1, <1>2, <1>5
<1>10. d["total"] = Len(new)
  BY <1>1, <1>2, <1>3
<1>11. CountsTrue(new, d)
  BY <1>1, <1>4, <1>6, <1>7, <1>8, <1>9, <1>10 DEF CountsTrue
<1> QED
  BY <1>11 DEF new, d

\* Every command gets one row, and only a text assert_malformed one that is
\* unsupported.
LEMMA CommandJudged ==
  RunCommand =>
    \E r : /\ exit = "file" /\ exit' = exit /\ results' = results
           /\ rows' = Append(rows, r) /\ counts' = Counted(counts, r.verdict)
           /\ r.verdict \in Verdicts /\ (r.verdict = "UNSUPPORTED" <=> TextRow(r))
           /\ r.cmd \in Commands
<1> DEFINE Judged(cmd, v) ==
      /\ exit = "file" /\ \E made, on, got : Judge(cmd, v, made, on, got)
      /\ v \in Verdicts /\ cmd \in Commands
      /\ v = "UNSUPPORTED" <=> cmd.type = "assert_malformed" /\ cmd.module_type = "text"
<1>1. ASSUME NEW cmd, NEW v, Judged(cmd, v)
      PROVE  \E r : /\ exit = "file" /\ exit' = exit /\ results' = results
                    /\ rows' = Append(rows, r) /\ counts' = Counted(counts, r.verdict)
                    /\ r.verdict \in Verdicts /\ (r.verdict = "UNSUPPORTED" <=> TextRow(r))
                    /\ r.cmd \in Commands
  <2> PICK made, on, got : Judge(cmd, v, made, on, got)
    BY <1>1
  <2> DEFINE r == [cmd |-> cmd, verdict |-> v, made |-> made, on |-> on, outcome |-> got]
  <2>1. r.cmd = cmd /\ r.verdict = v
    OBVIOUS
  <2>2. exit' = exit /\ results' = results /\ rows' = Append(rows, r) /\ counts' = Counted(counts, v)
    BY DEF Judge
  <2> HIDE DEF r
  <2> QED
    BY <1>1, <2>1, <2>2 DEF TextRow
<1>2. \A types : \A cmd \in Command(types) : exit = "file" /\ cmd.type \in types /\ cmd \in Commands
  BY DEF Command
<1>3. /\ \A b : PassIf(b) \in Verdicts /\ PassIf(b) # "UNSUPPORTED"
      /\ "FAIL" \in Verdicts /\ "UNSUPPORTED" \in Verdicts
  BY PassIfSo DEF Verdicts
<1>4. ASSUME NEW types, "assert_malformed" \notin types, NEW cmd \in Command(types),
             NEW v, v = "FAIL" \/ \E b : v = PassIf(b), NEW made, NEW on, NEW got,
             Judge(cmd, v, made, on, got)
      PROVE  Judged(cmd, v)
  <2>1. /\ cmd.type # "assert_malformed" /\ v # "UNSUPPORTED" /\ v \in Verdicts
        /\ exit = "file" /\ cmd \in Commands
    BY <1>2, <1>3, <1>4
  <2> QED
    BY <1>4, <2>1
<1>5. ASSUME NEW cmd \in Command({"assert_malformed"}), NEW v, NEW b,
             v = IF cmd.module_type = "text" THEN "UNSUPPORTED" ELSE PassIf(b),
             Judge(cmd, v, None, None, Came("none"))
      PROVE  Judged(cmd, v)
  BY <1>2, <1>3, <1>5
<1> HIDE DEF Judged
<1> SUFFICES ASSUME RunCommand
             PROVE  \E cmd, v : Judged(cmd, v)
  BY <1>1
<1>6. CASE ModuleUnreadable
  BY <1>4, <1>6 DEF ModuleUnreadable
<1>7. CASE ModuleCommand
  BY <1>4, <1>7 DEF ModuleCommand
<1>8. CASE Register
  BY <1>4, <1>8 DEF Register
<1>9. CASE ActionCommand
  BY <1>4, <1>9 DEF ActionCommand
<1>10. CASE AssertReturn
  BY <1>4, <1>10 DEF AssertReturn
<1>11. CASE AssertTrap
  BY <1>4, <1>11 DEF AssertTrap
<1>12. CASE AssertMalformed
  BY <1>5, <1>12 DEF AssertMalformed
<1>13. CASE AssertInvalid
  BY <1>4, <1>13 DEF AssertInvalid
<1>14. CASE AssertBuild
  BY <1>4, <1>14 DEF AssertBuild
<1>15. CASE UnknownCommand
  BY <1>4, <1>15 DEF UnknownCommand
<1> QED
  BY <1>6, <1>7, <1>8, <1>9, <1>10, <1>11, <1>12, <1>13, <1>14, <1>15 DEF RunCommand

\* The runner is green when the books are.
LEMMA GreenIs == (Sum("fail") = 0 /\ AccountingOk) <=> GreenOf(results)
BY DEF Sum, AccountingOk, GreenOf, SumOf

\* The counters start at zero.
LEMMA NoneCounted == CountsTrue(<<>>, NoCounts)
<1>1. <<>> \in Seq(Range(<<>>)) /\ Len(<<>>) = 0
  BY EmptySeq
<1>2. TextOf(<<>>) = {}
  BY <1>1 DEF TextOf
<1>3. NoCounts \in CountsType
  BY DEF NoCounts, CountsType
<1>4. NoCounts["total"] = 0 /\ NoCounts["pass"] = 0 /\ NoCounts["fail"] = 0 /\ NoCounts["unsupported"] = 0
  BY DEF NoCounts
<1> QED
  BY <1>1, <1>2, <1>3, <1>4, FS_EmptySet DEF CountsTrue

\* The books are right at first,
LEMMA BooksInit == Init => BooksInv
<1> SUFFICES ASSUME Init
             PROVE  BooksInv
  OBVIOUS
<1>1. results \in Seq(Range(results)) /\ Len(results) = 0
  BY EmptySeq DEF Init
<1>2. CountsTrue(rows, counts) /\ exit = "files"
  BY NoneCounted DEF Init
<1> QED
  BY <1>1, <1>2 DEF BooksInv

\* and after every step.
LEMMA BooksNext == BooksInv /\ [Next]_vars => BooksInv'
<1> SUFFICES ASSUME BooksInv, [Next]_vars
             PROVE  BooksInv'
  OBVIOUS
<1>1. CASE RunCommand
  <2> PICK r : /\ exit = "file" /\ exit' = exit /\ results' = results
               /\ rows' = Append(rows, r) /\ counts' = Counted(counts, r.verdict)
               /\ r.verdict \in Verdicts /\ (r.verdict = "UNSUPPORTED" <=> TextRow(r))
               /\ r.cmd \in Commands
    BY <1>1, CommandJudged
  <2>1. CountsTrue(rows', counts')
    BY CountedTrue DEF BooksInv
  <2> QED
    BY <2>1 DEF BooksInv
<1>2. CASE StartFile
  <2>1. CountsTrue(rows', counts') /\ results' = results /\ exit' = "file"
    BY <1>2, NoneCounted DEF StartFile
  <2> QED
    BY <2>1 DEF BooksInv
<1>3. CASE EndFile
  <2> DEFINE e == [rows |-> rows, counts |-> counts]
  <2>1. e.rows = rows /\ e.counts = counts
    OBVIOUS
  <2>2. results' = Append(results, e) /\ exit' = "files" /\ rows' = rows /\ counts' = counts
    BY <1>3 DEF EndFile
  <2> HIDE DEF e
  <2>3. /\ results' \in Seq(Range(results')) /\ Len(results) \in Nat
        /\ Len(results') = Len(results) + 1
        /\ \A f \in 1..Len(results) : results'[f] = results[f]
        /\ results'[Len(results) + 1] = e
    BY <2>2, AppendAny DEF BooksInv
  <2>4. ASSUME NEW f \in 1..Len(results')
        PROVE  CountsTrue(results'[f].rows, results'[f].counts)
    <3>1. CASE f \in 1..Len(results)
      BY <2>3, <3>1 DEF BooksInv
    <3>2. CASE f = Len(results) + 1
      BY <2>1, <2>3, <3>2 DEF BooksInv
    <3> QED
      BY <2>3, <3>1, <3>2
  <2> QED
    BY <2>2, <2>3, <2>4 DEF BooksInv
<1>4. CASE HarnessError
  <2>1. UNCHANGED <<rows, counts, results>> /\ exit' = "error"
    BY <1>4 DEF HarnessError
  <2> QED
    BY <2>1 DEF BooksInv
<1>5. CASE Report
  <2>1. /\ UNCHANGED <<rows, counts, results>>
        /\ exit' = IF Sum("fail") = 0 /\ AccountingOk THEN "success" ELSE "failure"
    BY <1>5 DEF Report
  <2>2. exit' = "success" <=> GreenOf(results)
    BY <2>1, GreenIs
  <2>3. GreenOf(results') <=> GreenOf(results)
    BY <2>1
  <2> QED
    BY <2>1, <2>2, <2>3 DEF BooksInv
<1>6. CASE UNCHANGED vars
  <2>1. UNCHANGED <<rows, counts, results, exit>>
    BY <1>6 DEF vars
  <2> QED
    BY <2>1 DEF BooksInv
<1> QED
  BY <1>1, <1>2, <1>3, <1>4, <1>5, <1>6 DEF Next

\* In every reachable state the counters count the rows, and the runner is
\* green exactly when the sums of the counters say so (main.rs, Counts and
\* main).
THEOREM BooksAreRight == Spec => []BooksInv
BY BooksInit, BooksNext, PTL DEF Spec

-----------------------------------------------------------------------------
(* The exit code.                                                          *)

\* What the sums over right counters are.
LEMMA SumsAreRows ==
  ASSUME NEW S, NEW fs \in Seq(S),
         \A f \in 1..Len(fs) : CountsTrue(fs[f].rows, fs[f].counts)
  PROVE  /\ SumOf(fs, "total") = Cardinality(Pairs([f \in 1..Len(fs) |-> 1..Len(fs[f].rows)], Len(fs)))
         /\ SumOf(fs, "unsupported") =
              Cardinality(Pairs([f \in 1..Len(fs) |-> TextOf(fs[f].rows)], Len(fs)))
         /\ SumOf(fs, "fail") = 0 <=>
              \A f \in 1..Len(fs) : \A i \in 1..Len(fs[f].rows) : fs[f].rows[i].verdict # "FAIL"
         /\ SumOf(fs, "pass") + SumOf(fs, "fail") + SumOf(fs, "unsupported") = SumOf(fs, "total")
<1> DEFINE N == Len(fs)
           a(field) == [f \in 1..N |-> fs[f].counts[field]]
           X == [f \in 1..N |-> 1..Len(fs[f].rows)]
           Y == [f \in 1..N |-> TextOf(fs[f].rows)]
<1>1. N \in Nat
  BY LenProperties
<1>2. ASSUME NEW f \in 1..N
      PROVE  /\ fs[f].counts["total"] \in Nat /\ fs[f].counts["pass"] \in Nat
             /\ fs[f].counts["fail"] \in Nat /\ fs[f].counts["unsupported"] \in Nat
             /\ fs[f].counts["pass"] + fs[f].counts["fail"] + fs[f].counts["unsupported"]
                  = fs[f].counts["total"]
             /\ fs[f].counts["fail"] = 0 <=>
                  \A i \in 1..Len(fs[f].rows) : fs[f].rows[i].verdict # "FAIL"
             /\ IsFiniteSet(X[f]) /\ fs[f].counts["total"] = Cardinality(X[f])
             /\ IsFiniteSet(Y[f]) /\ fs[f].counts["unsupported"] = Cardinality(Y[f])
  <2>1. CountsTrue(fs[f].rows, fs[f].counts)
    OBVIOUS
  <2> DEFINE rs == fs[f].rows
             c  == fs[f].counts
  <2>2. X[f] = 1..Len(rs) /\ Y[f] = TextOf(rs) /\ CountsTrue(rs, c)
    BY <2>1
  <2> HIDE DEF rs, c, X, Y
  <2>3. Len(rs) \in Nat
    BY <2>2, SeqRange DEF CountsTrue
  <2>4. IsFiniteSet(X[f]) /\ Cardinality(X[f]) = Len(rs)
    BY <2>2, <2>3, IntervalCounted
  <2>5. IsFiniteSet(Y[f])
    <3>1. Y[f] \in SUBSET X[f]
      BY <2>2 DEF TextOf
    <3> QED
      BY <2>4, <3>1, FS_Subset
  <2>6. /\ c["total"] \in Nat /\ c["pass"] \in Nat /\ c["fail"] \in Nat /\ c["unsupported"] \in Nat
        /\ c["pass"] + c["fail"] + c["unsupported"] = c["total"]
        /\ c["fail"] = 0 <=> \A i \in 1..Len(rs) : rs[i].verdict # "FAIL"
        /\ c["total"] = Len(rs) /\ c["unsupported"] = Cardinality(TextOf(rs))
    BY <2>2 DEF CountsTrue, CountsType
  <2> QED
    BY <2>2, <2>4, <2>5, <2>6 DEF rs, c
<1>3. PICK t : SumsTo(t, N, a("total")) /\ SumOf(fs, "total") = t[N]
  BY <1>2, SumIs
<1>4. PICK p : SumsTo(p, N, a("pass")) /\ SumOf(fs, "pass") = p[N]
  BY <1>2, SumIs
<1>5. PICK e : SumsTo(e, N, a("fail")) /\ SumOf(fs, "fail") = e[N]
  BY <1>2, SumIs
<1>6. PICK u : SumsTo(u, N, a("unsupported")) /\ SumOf(fs, "unsupported") = u[N]
  BY <1>2, SumIs
<1>7. /\ a("total") \in [1..N -> Nat] /\ a("pass") \in [1..N -> Nat]
      /\ a("fail") \in [1..N -> Nat] /\ a("unsupported") \in [1..N -> Nat]
  BY <1>2
<1>8. /\ a("total") = [f \in 1..N |-> Cardinality(X[f])]
      /\ a("unsupported") = [f \in 1..N |-> Cardinality(Y[f])]
  BY <1>2
<1>9. AddUp(N, a("pass"), a("fail"), a("unsupported"), a("total"))
  <2>1. \A f \in 1..N : a("pass")[f] + a("fail")[f] + a("unsupported")[f] = a("total")[f]
    BY <1>2
  <2> HIDE DEF a, N
  <2> QED
    BY <2>1 DEF AddUp, AddUpAt
<1>10. \A f \in 1..N : a("fail")[f] = 0 <=>
         \A i \in 1..Len(fs[f].rows) : fs[f].rows[i].verdict # "FAIL"
  BY <1>2
<1>11. (\A f \in 1..N : IsFiniteSet(X[f])) /\ (\A f \in 1..N : IsFiniteSet(Y[f]))
  BY <1>2
<1> HIDE DEF N, a, X, Y
<1>12. t[N] = Cardinality(Pairs(X, N))
  <2>1. SumsTo(t, N, [f \in 1..N |-> Cardinality(X[f])])
    BY <1>3, <1>8
  <2> QED
    BY ONLY <1>1, <1>11, <2>1, PairsCounted
<1>13. u[N] = Cardinality(Pairs(Y, N))
  <2>1. SumsTo(u, N, [f \in 1..N |-> Cardinality(Y[f])])
    BY <1>6, <1>8
  <2> QED
    BY ONLY <1>1, <1>11, <2>1, PairsCounted
<1>14. e[N] = 0 <=> \A f \in 1..N : a("fail")[f] = 0
  BY <1>1, <1>5, <1>7, SumsZero
<1>15. p[N] + e[N] + u[N] = t[N]
  <2>1. SumsTo(t, N, a("total")) /\ SumsTo(p, N, a("pass"))
        /\ SumsTo(e, N, a("fail")) /\ SumsTo(u, N, a("unsupported"))
    BY <1>3, <1>4, <1>5, <1>6
  <2>2. AddUpAt(N, p, e, u, t)
    BY ONLY <1>1, <1>7, <1>9, <2>1, SumsAdd
  <2> QED
    BY <2>2 DEF AddUpAt
<1> QED
  BY <1>3, <1>4, <1>5, <1>6, <1>10, <1>12, <1>13, <1>14, <1>15 DEF N, X, Y

\* The runner exits green exactly when every command of every file passed
\* or is a text module, and both are as many as expected (main.rs).
THEOREM ExitIsSound == Spec => []ExitSound
<1>1. BooksInv => ExitSound
  <2> SUFFICES ASSUME BooksInv, exit \in {"success", "failure"}
               PROVE  (exit = "success") =
                        /\ \A r \in AllRows : RowAt(r).verdict = "PASS" \/ r \in TextRows
                        /\ ExpectTotal \in {Absent, Cardinality(AllRows)}
                        /\ ExpectUnsupported \in {Absent, Cardinality(TextRows)}
    BY DEF ExitSound
  <2> DEFINE N == Len(results)
             X == [f \in 1..N |-> 1..Len(results[f].rows)]
             Y == [f \in 1..N |-> TextOf(results[f].rows)]
  <2>1. /\ N \in Nat /\ DOMAIN results = 1..N /\ results \in Seq(Range(results))
        /\ \A f \in 1..N : /\ CountsTrue(results[f].rows, results[f].counts)
                           /\ DOMAIN results[f].rows = 1..Len(results[f].rows)
    <3>1. N \in Nat /\ DOMAIN results = 1..N /\ results \in Seq(Range(results))
      BY SeqRange DEF BooksInv
    <3>2. \A f \in 1..N : CountsTrue(results[f].rows, results[f].counts)
      BY DEF BooksInv
    <3>3. \A f \in 1..N : DOMAIN results[f].rows = 1..Len(results[f].rows)
      BY <3>2, SeqRange DEF CountsTrue
    <3> QED
      BY <3>1, <3>2, <3>3
  <2>2. AllRows = Pairs(X, N)
    BY <2>1 DEF AllRows, Pairs
  <2>3. \A f \in 1..N : \A i \in 1..Len(results[f].rows) :
          /\ <<f, i>> \in AllRows
          /\ RowAt(<<f, i>>) = results[f].rows[i]
    BY <2>2 DEF Pairs, RowAt
  <2>4. \A r \in AllRows : \E f \in 1..N : \E i \in 1..Len(results[f].rows) : r = <<f, i>>
    BY <2>2 DEF Pairs
  <2>5. TextRows = Pairs(Y, N)
    <3>1. \A r \in AllRows : r \in TextRows <=> TextRow(RowAt(r))
      BY DEF TextRows, TextRow
    <3>2. \A f \in 1..N : \A i \in 1..Len(results[f].rows) :
            i \in Y[f] <=> TextRow(results[f].rows[i])
      BY DEF TextOf
    <3>3. \A f \in 1..N : Y[f] \subseteq 1..Len(results[f].rows)
      BY DEF TextOf
    <3>4. \A r : r \in Pairs(Y, N) <=> \E f \in 1..N : \E i \in Y[f] : r = <<f, i>>
      BY DEF Pairs
    <3>5. \A r : r \in TextRows => r \in AllRows
      BY DEF TextRows
    <3> HIDE DEF Y
    <3>6. ASSUME NEW r \in TextRows
          PROVE  r \in Pairs(Y, N)
      <4>1. PICK f \in 1..N : \E i \in 1..Len(results[f].rows) : r = <<f, i>>
        BY <2>4, <3>5
      <4>2. PICK i \in 1..Len(results[f].rows) : r = <<f, i>>
        BY <4>1
      <4>3. TextRow(results[f].rows[i])
        BY <2>3, <3>1, <3>5, <4>2
      <4> QED
        BY <3>2, <3>4, <4>2, <4>3
    <3>7. ASSUME NEW r \in Pairs(Y, N)
          PROVE  r \in TextRows
      <4>1. PICK f \in 1..N : \E i \in Y[f] : r = <<f, i>>
        BY <3>4
      <4>2. PICK i \in Y[f] : r = <<f, i>>
        BY <4>1
      <4>3. i \in 1..Len(results[f].rows) /\ TextRow(results[f].rows[i])
        BY <3>2, <3>3
      <4> QED
        BY <2>3, <3>1, <4>2, <4>3
    <3> QED
      BY <3>6, <3>7
  <2>6. /\ SumOf(results, "total") = Cardinality(AllRows)
        /\ SumOf(results, "unsupported") = Cardinality(TextRows)
        /\ SumOf(results, "fail") = 0 <=>
             \A f \in 1..N : \A i \in 1..Len(results[f].rows) : results[f].rows[i].verdict # "FAIL"
        /\ SumOf(results, "pass") + SumOf(results, "fail") + SumOf(results, "unsupported")
             = SumOf(results, "total")
    BY <2>1, <2>2, <2>5, SumsAreRows
  <2>7. (\A r \in AllRows : RowAt(r).verdict = "PASS" \/ r \in TextRows) <=>
          \A f \in 1..N : \A i \in 1..Len(results[f].rows) : results[f].rows[i].verdict # "FAIL"
    <3>1. \A f \in 1..N : \A i \in 1..Len(results[f].rows) :
            /\ results[f].rows[i].verdict \in Verdicts
            /\ results[f].rows[i].verdict = "UNSUPPORTED" <=> TextRow(results[f].rows[i])
      BY <2>1 DEF CountsTrue
    <3>2. \A r \in AllRows : r \in TextRows <=> TextRow(RowAt(r))
      BY DEF TextRows, TextRow
    <3>3. ASSUME NEW f \in 1..N, NEW i \in 1..Len(results[f].rows)
          PROVE  (RowAt(<<f, i>>).verdict = "PASS" \/ <<f, i>> \in TextRows)
                   <=> results[f].rows[i].verdict # "FAIL"
      BY <2>3, <3>1, <3>2 DEF Verdicts
    <3> DEFINE good(r)   == RowAt(r).verdict = "PASS" \/ r \in TextRows
               ok(f, i)  == results[f].rows[i].verdict # "FAIL"
    <3>4. \A f \in 1..N : \A i \in 1..Len(results[f].rows) :
            <<f, i>> \in AllRows /\ (good(<<f, i>>) <=> ok(f, i))
      BY <2>3, <3>3
    <3> HIDE DEF good, ok, N
    <3>5. (\A r \in AllRows : good(r)) <=>
            \A f \in 1..N : \A i \in 1..Len(results[f].rows) : ok(f, i)
      <4>1. ASSUME \A r \in AllRows : good(r), NEW f \in 1..N, NEW i \in 1..Len(results[f].rows)
            PROVE  ok(f, i)
        BY ONLY <3>4, <4>1
      <4>2. ASSUME \A f \in 1..N : \A i \in 1..Len(results[f].rows) : ok(f, i), NEW r \in AllRows
            PROVE  good(r)
        <5>1. PICK f \in 1..N : \E i \in 1..Len(results[f].rows) : r = <<f, i>>
          BY <2>4 DEF N
        <5>2. PICK i \in 1..Len(results[f].rows) : r = <<f, i>>
          BY <5>1
        <5> QED
          BY ONLY <3>4, <4>2, <5>2
      <4> QED
        BY <4>1, <4>2
    <3> QED
      BY <3>5 DEF good, ok
  <2>8. exit = "success" <=> GreenOf(results)
    BY DEF BooksInv
  <2> HIDE DEF N
  <2> QED
    BY <2>6, <2>7, <2>8 DEF GreenOf
<1> QED
  BY <1>1, BooksAreRight, PTL

-----------------------------------------------------------------------------
(* The ledger and its cross-check.                                         *)

\* A function on the first n numbers is a sequence of length n.
LEMMA LenOf ==
  ASSUME NEW n \in Nat, NEW s, s = [i \in 1..n |-> s[i]]
  PROVE  Len(s) = n
<1>1. s \in [1..n -> Range(s)]
  BY DEF Range
<1>2. s \in Seq(Range(s))
  BY <1>1, SeqDef
<1>3. Len(s) \in Nat /\ 1..Len(s) = 1..n
  BY <1>1, <1>2, LenProperties
<1> QED
  BY <1>3, IntervalCounted

\* The rows with text modules, as enum_corpus.py finds them.
TextsOf(rs) == {i \in 1..Len(rs) : IsText(rs[i].cmd)}

\* The files done, with right books.
FilesRight(N) ==
  /\ N \in Nat /\ N = Len(results) /\ DOMAIN results = 1..N /\ results \in Seq(Range(results))
  /\ \A f \in 1..N : /\ CountsTrue(results[f].rows, results[f].counts)
                     /\ DOMAIN results[f].rows = 1..Len(results[f].rows)
                     /\ Len(results[f].rows) \in Nat

LEMMA FilesAreRight == BooksInv => FilesRight(Len(results))
<1> SUFFICES ASSUME BooksInv
             PROVE  FilesRight(Len(results))
  OBVIOUS
<1>1. /\ Len(results) \in Nat /\ DOMAIN results = 1..Len(results)
      /\ results \in Seq(Range(results))
  BY SeqRange DEF BooksInv
<1>2. \A f \in 1..Len(results) : CountsTrue(results[f].rows, results[f].counts)
  BY DEF BooksInv
<1>3. \A f \in 1..Len(results) : /\ DOMAIN results[f].rows = 1..Len(results[f].rows)
                                 /\ Len(results[f].rows) \in Nat
  BY <1>2, SeqRange DEF CountsTrue
<1> QED
  BY <1>1, <1>2, <1>3 DEF FilesRight

\* When no file was left out, the corpus is the commands of the rows.
LEMMA CorpusIs ==
  ASSUME NEW N, FilesRight(N)
  PROVE  /\ DOMAIN Corpus(<<>>) = 1..N /\ Len(Corpus(<<>>)) = N
         /\ \A f \in 1..N :
              /\ Corpus(<<>>)[f] = [i \in 1..Len(results[f].rows) |-> results[f].rows[i].cmd]
              /\ Len(Corpus(<<>>)[f]) = Len(results[f].rows)
<1>1. N \in Nat /\ Len(<<>>) = 0 /\ Len(results) + 0 = N /\ Len(results) = N
  BY EmptySeq DEF FilesRight
<1> DEFINE C == Corpus(<<>>)
<1>2. C = [f \in 1..N |-> [i \in 1..Len(results[f].rows) |-> results[f].rows[i].cmd]]
  BY <1>1 DEF Corpus, FilesRight
<1> HIDE DEF C
<1>3. ASSUME NEW f \in 1..N
      PROVE  /\ C[f] = [i \in 1..Len(results[f].rows) |-> results[f].rows[i].cmd]
             /\ Len(C[f]) = Len(results[f].rows)
  <2> DEFINE n == Len(results[f].rows)
             c == C[f]
  <2>1. n \in Nat /\ c = [i \in 1..n |-> results[f].rows[i].cmd]
    BY <1>2 DEF FilesRight
  <2>2. c = [i \in 1..n |-> c[i]]
    BY <2>1
  <2> HIDE DEF n, c
  <2>3. Len(c) = n
    BY <2>1, <2>2, LenOf
  <2> QED
    BY <2>1, <2>3 DEF n, c
<1>4. DOMAIN C = 1..N /\ C = [f \in 1..N |-> C[f]]
  BY <1>2
<1>5. Len(C) = N
  BY <1>1, <1>4, LenOf
<1> QED
  BY <1>3, <1>4, <1>5 DEF C

\* What the ledger holds.
LEMMA LedgerIs ==
  ASSUME NEW N, FilesRight(N)
  PROVE  /\ TheLedger.totals.total = SumOf(results, "total")
         /\ TheLedger.totals.pass = SumOf(results, "pass")
         /\ TheLedger.totals.fail = SumOf(results, "fail")
         /\ TheLedger.totals.unsupported = SumOf(results, "unsupported")
         /\ DOMAIN TheLedger.files = 1..N /\ Len(TheLedger.files) = N
         /\ \A f \in 1..N :
              /\ TheLedger.files[f].file = f
              /\ TheLedger.files[f].counts = results[f].counts
              /\ Unsupported(TheLedger.files[f].rows) = TextOf(results[f].rows)
              /\ \A line \in TextOf(results[f].rows) :
                   TheLedger.files[f].rows[line].type = results[f].rows[line].cmd.type
<1>1. /\ TheLedger.totals.total = SumOf(results, "total")
      /\ TheLedger.totals.pass = SumOf(results, "pass")
      /\ TheLedger.totals.fail = SumOf(results, "fail")
      /\ TheLedger.totals.unsupported = SumOf(results, "unsupported")
  BY DEF TheLedger, NoCounts, Sum, SumOf
<1> DEFINE F == TheLedger.files
<1>2. F = [f \in 1..N |-> Entry(f)]
  BY DEF TheLedger, FilesRight
<1> HIDE DEF F
<1>3. DOMAIN F = 1..N /\ Len(F) = N
  <2>1. N \in Nat /\ F = [f \in 1..N |-> F[f]]
    BY <1>2 DEF FilesRight
  <2> QED
    BY <2>1, LenOf
<1>4. ASSUME NEW f \in 1..N
      PROVE  /\ F[f].file = f /\ F[f].counts = results[f].counts
             /\ Unsupported(F[f].rows) = TextOf(results[f].rows)
             /\ \A line \in TextOf(results[f].rows) :
                  F[f].rows[line].type = results[f].rows[line].cmd.type
  <2> DEFINE rs   == results[f].rows
             rows1 == F[f].rows
  <2>1. F[f] = Entry(f)
    BY <1>2
  <2>2. /\ F[f].file = f /\ F[f].counts = results[f].counts
        /\ rows1 = [line \in {i \in DOMAIN rs : rs[i].verdict # "PASS"} |-> Itemized(rs[line])]
    BY <2>1 DEF Entry
  <2>3. CountsTrue(rs, results[f].counts) /\ DOMAIN rs = 1..Len(rs)
    BY DEF FilesRight
  <2>4. \A i \in 1..Len(rs) : rs[i].verdict = "UNSUPPORTED" <=> TextRow(rs[i])
    BY <2>3 DEF CountsTrue
  <2> HIDE DEF rs, rows1
  <2>5. /\ DOMAIN rows1 = {i \in 1..Len(rs) : rs[i].verdict # "PASS"}
        /\ \A line \in DOMAIN rows1 : rows1[line].verdict = rs[line].verdict
                                      /\ rows1[line].type = rs[line].cmd.type
    BY <2>2, <2>3 DEF Itemized
  <2>6. Unsupported(rows1) = TextOf(rs)
    BY <2>4, <2>5 DEF Unsupported, TextOf
  <2>7. \A line \in TextOf(rs) : rows1[line].type = rs[line].cmd.type
    BY <2>5, <2>6 DEF Unsupported
  <2> QED
    BY <2>2, <2>6, <2>7 DEF rs, rows1
<1> QED
  BY <1>1, <1>3, <1>4 DEF F

\* The rows are itemized, whatever the corpus says.
LEMMA RowsDoAgree ==
  ASSUME NEW N, FilesRight(N)
  PROVE  RowsAgree(TheLedger)
<1> DEFINE F == TheLedger.files
           a == [f \in 1..N |-> results[f].counts["unsupported"]]
           b == [f \in DOMAIN F |-> Cardinality(Unsupported(F[f].rows))]
<1>1. ASSUME NEW f \in 1..N
      PROVE  results[f].counts["unsupported"] = Cardinality(TextOf(results[f].rows))
  BY DEF FilesRight, CountsTrue
<1>2. /\ DOMAIN F = 1..N
      /\ \A f \in 1..N : Unsupported(F[f].rows) = TextOf(results[f].rows)
      /\ \A f \in 1..N : \A line \in TextOf(results[f].rows) :
           F[f].rows[line].type = results[f].rows[line].cmd.type
      /\ TheLedger.totals.unsupported = SumOf(results, "unsupported")
  BY LedgerIs
<1>3. a = b
  BY <1>1, <1>2
<1>4. SumOf(results, "unsupported") = Tally(a)
  BY SumIsTally DEF FilesRight
<1>5. \A f \in DOMAIN F : \A line \in Unsupported(F[f].rows) :
        F[f].rows[line].type = "assert_malformed"
  BY <1>2 DEF TextOf, TextRow
<1>6. Tally(b) = TheLedger.totals.unsupported
  BY <1>2, <1>3, <1>4
<1> QED
  BY <1>5, <1>6 DEF RowsAgree

\* So are the files.
LEMMA FilesDoAgree ==
  ASSUME NEW N, FilesRight(N)
  PROVE  FilesAgree(TheLedger, Corpus(<<>>))
<1> DEFINE F == TheLedger.files
           C == Corpus(<<>>)
<1>1. DOMAIN F = 1..N /\ \A f \in 1..N : F[f].file = f /\ F[f].counts = results[f].counts
  BY LedgerIs
<1>2. DOMAIN C = 1..N /\ \A f \in 1..N : Len(C[f]) = Len(results[f].rows)
  BY CorpusIs
<1>3. \A f \in 1..N : results[f].counts.total = Len(results[f].rows)
  BY DEF FilesRight, CountsTrue
<1> HIDE DEF F, C
<1>4. {F[i].file : i \in DOMAIN F} = DOMAIN C
  BY <1>1, <1>2
<1>5. IsInjective([i \in DOMAIN F |-> F[i].file])
  BY <1>1 DEF IsInjective
<1>6. \A i \in DOMAIN F : F[i].file \in DOMAIN C => F[i].counts.total = Len(C[F[i].file])
  BY <1>1, <1>2, <1>3
<1> QED
  BY <1>4, <1>5, <1>6 DEF FilesAgree, F, C

\* Pairs tell the sets of rows apart.
LEMMA PairsSame ==
  ASSUME NEW N, NEW Y, NEW Z
  PROVE  Pairs(Y, N) = Pairs(Z, N) <=> \A f \in 1..N : Z[f] = Y[f]
<1>1. ASSUME Pairs(Y, N) = Pairs(Z, N), NEW f \in 1..N
      PROVE  Z[f] = Y[f]
  <2>1. ASSUME NEW W
        PROVE  \A i : <<f, i>> \in Pairs(W, N) <=> i \in W[f]
    BY DEF Pairs
  <2>2. \A i : i \in Z[f] <=> i \in Y[f]
    BY <1>1, <2>1
  <2> QED
    BY <2>2
<1>2. ASSUME \A f \in 1..N : Z[f] = Y[f]
      PROVE  Pairs(Y, N) = Pairs(Z, N)
  <2>1. \A f \in 1..N : {<<f, i>> : i \in Z[f]} = {<<f, i>> : i \in Y[f]}
    BY <1>2
  <2> QED
    BY <2>1 DEF Pairs
<1> QED
  BY <1>1, <1>2

\* The totals of the ledger are the corpus's own when the text modules are
\* those of the rows.
LEMMA TotalsAgreeIf ==
  ASSUME NEW N, FilesRight(N)
  PROVE  TotalsAgree(TheLedger, Corpus(<<>>)) <=>
           \A f \in 1..N : TextsOf(results[f].rows) = TextOf(results[f].rows)
<1> DEFINE L == TheLedger
           C == Corpus(<<>>)
           X == [f \in 1..N |-> 1..Len(results[f].rows)]
           Y == [f \in 1..N |-> TextOf(results[f].rows)]
           Z == [f \in 1..N |-> TextsOf(results[f].rows)]
           a == [f \in 1..N |-> results[f].counts["total"]]
           z == [f \in 1..N |-> Cardinality(Z[f])]
<1>1. /\ L.totals.total = SumOf(results, "total")
      /\ L.totals.pass = SumOf(results, "pass")
      /\ L.totals.fail = SumOf(results, "fail")
      /\ L.totals.unsupported = SumOf(results, "unsupported")
      /\ Len(L.files) = N
  BY LedgerIs
<1>2. /\ DOMAIN C = 1..N /\ Len(C) = N
      /\ \A f \in 1..N :
           /\ C[f] = [i \in 1..Len(results[f].rows) |-> results[f].rows[i].cmd]
           /\ Len(C[f]) = Len(results[f].rows)
  BY CorpusIs
<1>3. /\ N \in Nat /\ N = Len(results) /\ results \in Seq(Range(results))
      /\ \A f \in 1..Len(results) : CountsTrue(results[f].rows, results[f].counts)
  BY DEF FilesRight
<1>4. /\ SumOf(results, "unsupported") = Cardinality(Pairs(Y, N))
      /\ SumOf(results, "pass") + SumOf(results, "fail") + SumOf(results, "unsupported")
           = SumOf(results, "total")
  BY <1>3, SumsAreRows
<1>5. Total(C) = SumOf(results, "total")
  <2>1. \A f \in 1..N : Len(C[f]) = results[f].counts["total"]
    BY <1>2, <1>3 DEF CountsTrue
  <2>2. [f \in DOMAIN C |-> Len(C[f])] = a
    BY <1>2, <2>1
  <2>3. SumOf(results, "total") = Tally(a)
    BY <1>3, SumIsTally
  <2> QED
    BY <2>2, <2>3 DEF Total
<1>6. ASSUME NEW f \in 1..N
      PROVE  /\ {i \in DOMAIN C[f] : IsText(C[f][i])} = Z[f]
             /\ IsFiniteSet(Z[f]) /\ Y[f] \subseteq Z[f]
             /\ Z[f] \subseteq 1..Len(results[f].rows)
  <2> DEFINE rs == results[f].rows
  <2>1. Z[f] = TextsOf(rs) /\ Y[f] = TextOf(rs) /\ Len(rs) \in Nat
    BY DEF FilesRight
  <2>2. C[f] = [i \in 1..Len(rs) |-> rs[i].cmd]
    BY <1>2
  <2>3. \A i \in 1..Len(rs) : rs[i].cmd \in Commands
    BY <1>3 DEF CountsTrue
  <2> HIDE DEF rs, C, Z, Y
  <2>4. {i \in DOMAIN C[f] : IsText(C[f][i])} = Z[f]
    BY <2>1, <2>2 DEF TextsOf
  <2>5. Z[f] \in SUBSET (1..Len(rs)) /\ IsFiniteSet(1..Len(rs))
    BY <2>1, IntervalCounted DEF TextsOf
  <2>6. IsFiniteSet(Z[f])
    BY <2>5, FS_Subset
  <2>7. Y[f] \subseteq Z[f]
    BY <2>1, <2>3, LedgerAssumption DEF TextOf, TextsOf, TextRow, IsText
  <2> QED
    BY <2>4, <2>5, <2>6, <2>7 DEF rs
<1>7. TextModules(C) = Tally(z)
  <2>1. [f \in DOMAIN C |-> Cardinality({i \in DOMAIN C[f] : IsText(C[f][i])})] = z
    BY <1>2, <1>6
  <2> QED
    BY <2>1 DEF TextModules
<1> HIDE DEF C, L, X, Y, Z, a
<1>8. Tally(z) = Cardinality(Pairs(Z, N)) /\ IsFiniteSet(Pairs(Z, N))
  <2>1. z \in [1..N -> Nat]
    BY <1>6, FS_CardinalityType
  <2>2. PICK t : SumsTo(t, N, z) /\ Tally(z) = t[N]
    <3> HIDE DEF z
    <3> QED
      BY <1>3, <2>1, TallyIs
  <2>3. \A f \in 1..N : IsFiniteSet(Z[f])
    BY <1>6
  <2>4. IsFiniteSet(Pairs(Z, N)) /\ Cardinality(Pairs(Z, N)) = t[N]
    BY ONLY <1>3, <2>2, <2>3, PairsCounted
  <2> QED
    BY <2>2, <2>4
<1> HIDE DEF z
<1>9. Cardinality(Pairs(Y, N)) = Cardinality(Pairs(Z, N)) <=> Pairs(Y, N) = Pairs(Z, N)
  <2>1. Pairs(Y, N) \in SUBSET Pairs(Z, N)
    BY <1>6 DEF Pairs
  <2> QED
    BY <1>8, <2>1, FS_Subset
<1>10. Pairs(Y, N) = Pairs(Z, N) <=> \A f \in 1..N : Z[f] = Y[f]
  BY PairsSame
<1>11. TotalsAgree(L, C) <=> SumOf(results, "unsupported") = TextModules(C)
  BY <1>1, <1>2, <1>4, <1>5 DEF TotalsAgree
<1>12. \A f \in 1..N : Y[f] = TextOf(results[f].rows) /\ Z[f] = TextsOf(results[f].rows)
  BY DEF Y, Z
<1>13. TotalsAgree(L, C) <=> \A f \in 1..N : Z[f] = Y[f]
  BY <1>4, <1>7, <1>8, <1>9, <1>10, <1>11
<1> QED
  BY <1>12, <1>13 DEF L, C

\* A corpus with one file more is missed.
LEMMA OmissionIsSeen ==
  ASSUME NEW N, FilesRight(N), NEW f
  PROVE  ~ CrossCheck(TheLedger, Corpus(<<f>>))
<1> DEFINE C == Corpus(<<f>>)
<1>1. Len(<<f>>) = 1 /\ N \in Nat /\ Len(results) = N
  BY DEF FilesRight
<1>2. DOMAIN C = 1 .. N + 1 /\ C = [i \in 1 .. N + 1 |-> C[i]]
  BY <1>1 DEF Corpus
<1> HIDE DEF C
<1>3. Len(C) = N + 1
  BY <1>1, <1>2, LenOf
<1>4. Len(TheLedger.files) = N
  BY LedgerIs
<1>5. Len(TheLedger.files) # Len(C)
  BY <1>1, <1>3, <1>4
<1> QED
  BY <1>5 DEF CrossCheck, TotalsAgree, C

\* The commands of the corpus are those of the rows.
LEMMA TextsAreMalformed ==
  ASSUME NEW N, FilesRight(N)
  PROVE  (\A f \in 1..N : TextsOf(results[f].rows) = TextOf(results[f].rows)) <=>
           \A cmd \in Commanded(Corpus(<<>>)) : IsText(cmd) => cmd.type = "assert_malformed"
<1> DEFINE C == Corpus(<<>>)
<1>1. /\ DOMAIN C = 1..N
      /\ \A f \in 1..N : C[f] = [i \in 1..Len(results[f].rows) |-> results[f].rows[i].cmd]
  BY CorpusIs
<1> HIDE DEF C
<1>2. \A cmd : cmd \in Commanded(C) <=>
        \E f \in 1..N : \E i \in 1..Len(results[f].rows) : cmd = results[f].rows[i].cmd
  BY <1>1 DEF Commanded
<1>3. ASSUME NEW f \in 1..N
      PROVE  TextsOf(results[f].rows) = TextOf(results[f].rows) <=>
               \A i \in 1..Len(results[f].rows) :
                 IsText(results[f].rows[i].cmd) => results[f].rows[i].cmd.type = "assert_malformed"
  <2> DEFINE rs == results[f].rows
  <2>1. \A i \in 1..Len(rs) : rs[i].cmd \in Commands
    BY DEF FilesRight, CountsTrue
  <2> HIDE DEF rs
  <2>2. \A i \in 1..Len(rs) :
          TextRow(rs[i]) <=> IsText(rs[i].cmd) /\ rs[i].cmd.type = "assert_malformed"
    BY <2>1, LedgerAssumption DEF TextRow, IsText
  <2>3. TextsOf(rs) = TextOf(rs) <=>
          \A i \in 1..Len(rs) : IsText(rs[i].cmd) => rs[i].cmd.type = "assert_malformed"
    BY <2>2 DEF TextsOf, TextOf
  <2> QED
    BY <2>3 DEF rs
<1>4. (\A f \in 1..N : \A i \in 1..Len(results[f].rows) :
         IsText(results[f].rows[i].cmd) => results[f].rows[i].cmd.type = "assert_malformed")
        <=> \A cmd \in Commanded(C) : IsText(cmd) => cmd.type = "assert_malformed"
  BY <1>2
<1> QED
  BY <1>3, <1>4 DEF C

\* The cross-check passes exactly when no file was left out and every text
\* module is an assert_malformed.
LEMMA CrossCheckIs ==
  ASSUME NEW N, FilesRight(N), NEW omitted \in Omissions
  PROVE  CrossCheck(TheLedger, Corpus(omitted)) <=>
           /\ omitted = <<>>
           /\ \A cmd \in Commanded(Corpus(omitted)) : IsText(cmd) => cmd.type = "assert_malformed"
<1>1. CASE omitted = <<>>
  <2>1. CrossCheck(TheLedger, Corpus(<<>>)) <=> TotalsAgree(TheLedger, Corpus(<<>>))
    BY RowsDoAgree, FilesDoAgree DEF CrossCheck
  <2>2. TotalsAgree(TheLedger, Corpus(<<>>)) <=>
          \A cmd \in Commanded(Corpus(<<>>)) : IsText(cmd) => cmd.type = "assert_malformed"
    BY TotalsAgreeIf, TextsAreMalformed
  <2> QED
    BY <1>1, <2>1, <2>2
<1>2. CASE omitted # <<>>
  <2>1. PICK f \in LeftOut : omitted = <<f>>
    BY <1>2 DEF Omissions
  <2> QED
    BY <1>2, <2>1, OmissionIsSeen
<1> QED
  BY <1>1, <1>2

\* The runner's books and those of enum_corpus.py balance: they agree
\* exactly when no file was left out and no other command holds a text
\* module, and when both are green every command of the corpus has passed or
\* is a text assert_malformed (main.rs, enum_corpus.py).
THEOREM BooksAlwaysBalance == Spec => []BooksBalance
<1>1. BooksInv => BooksBalance
  <2> SUFFICES ASSUME BooksInv
               PROVE  BooksBalance
    OBVIOUS
  <2> DEFINE N == Len(results)
  <2>1. FilesRight(N)
    BY FilesAreRight
  <2> HIDE DEF N
  <2>2. DoubleEntry
    BY <2>1, CrossCheckIs DEF DoubleEntry
  <2>3. ASSUME exit = "success", NEW omitted \in Omissions,
               CrossCheck(TheLedger, Corpus(omitted))
        PROVE  omitted = <<>>
    BY <2>1, <2>3, CrossCheckIs
  <2>4. ASSUME exit = "success", NEW f \in DOMAIN results, NEW i \in DOMAIN results[f].rows
        PROVE  LET row == results[f].rows[i]
               IN row.verdict = "PASS" \/ (row.cmd.type = "assert_malformed" /\ IsText(row.cmd))
    <3> DEFINE row == results[f].rows[i]
    <3>1. f \in 1..N /\ i \in 1..Len(results[f].rows) /\ CountsTrue(results[f].rows, results[f].counts)
      BY <2>1 DEF FilesRight
    <3>2. row.verdict \in Verdicts /\ (row.verdict = "UNSUPPORTED" <=> TextRow(row)) /\ row.cmd \in Commands
      BY <3>1 DEF CountsTrue
    <3>3. SumOf(results, "fail") = 0
      BY <2>4 DEF BooksInv, GreenOf
    <3>4. /\ results \in Seq(Range(results)) /\ N = Len(results)
          /\ \A g \in 1..Len(results) : CountsTrue(results[g].rows, results[g].counts)
      BY <2>1 DEF FilesRight
    <3>5. \A g \in 1..Len(results) : \A j \in 1..Len(results[g].rows) : results[g].rows[j].verdict # "FAIL"
      BY <3>3, <3>4, SumsAreRows
    <3>6. row.verdict # "FAIL"
      BY <3>1, <3>4, <3>5
    <3> HIDE DEF row
    <3>7. row.verdict = "PASS" \/ (row.cmd.type = "assert_malformed" /\ IsText(row.cmd))
      BY <3>2, <3>6, LedgerAssumption DEF Verdicts, TextRow, IsText
    <3> QED
      BY <3>7 DEF row
  <2>5. GreenIsEverything
    BY <2>3, <2>4 DEF GreenIsEverything
  <2> QED
    BY <2>2, <2>5 DEF BooksBalance
<1> QED
  BY <1>1, BooksAreRight, PTL
=============================================================================
