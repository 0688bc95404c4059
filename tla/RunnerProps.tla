----------------------------- MODULE RunnerProps -----------------------------
(***************************************************************************)
(* The properties of the spec-runner.                                      *)
(***************************************************************************)
EXTENDS Runner, Functions

Verdicts == {"PASS", "FAIL", "UNSUPPORTED"}

\* The variables hold values of their types, and every instance the context
\* refers to is in the store: build_instance asks the store for the exports
\* of all the registered ones (Store::exports indexes its instances).
TypeOK ==
  /\ instances # <<>>
  /\ registry \in [Spaces -> 0..Len(instances)]
  /\ named \in [Names -> 0..Len(instances)]
  /\ current \in 0..Len(instances)
  /\ \A i \in DOMAIN rows : rows[i].cmd \in Commands /\ rows[i].verdict \in Verdicts
  /\ counts \in [{"total", "pass", "fail", "unsupported"} -> Nat]
  /\ exit \in {"files", "file", "success", "failure", "error"}

-----------------------------------------------------------------------------
(* What the rows of the file so far say the context is.                    *)

RowsOf(type, n) == {i \in 1..n : rows[i].cmd.type = type}

\* The instance the latest of these rows made or acted on.
Latest(is, field) == IF is = {} THEN None ELSE rows[Max(is)][field]

Readable(i) == rows[i].cmd.bin # Bad
Passed(i)   == rows[i].verdict = "PASS"

\* The current instance after n commands: that of the latest module that
\* could be read, if it passed.
CurrentAfter(n) ==
  LET ms == {i \in RowsOf("module", n) : Readable(i)} IN
  IF ms # {} /\ Passed(Max(ms)) THEN Latest(ms, "made") ELSE None

NamedAfter(name, n) ==
  Latest({i \in RowsOf("module", n) : Passed(i) /\ rows[i].cmd.name = name}, "made")

RegisteredAfter(space, n) ==
  LET rs == {i \in RowsOf("register", n) : Passed(i) /\ rows[i].cmd.as = space} IN
  IF rs = {} /\ space = "spectest" THEN 1 ELSE Latest(rs, "on")

DesignatedAfter(field, n) ==
  IF field = Absent THEN CurrentAfter(n) ELSE IF field \in Names THEN NamedAfter(field, n) ELSE None

-----------------------------------------------------------------------------
(* The context.                                                            *)

\* A failed module leaves no current instance (runfile.rs, "Judging
\* invariant: a failed module must invalidate the current instance so later
\* actions cannot silently hit the previous module").
FailedModuleInvalidates ==
  \A i \in RowsOf("module", Len(rows)) :
    (\A j \in RowsOf("module", Len(rows)) : j <= i) /\ ~ Passed(i) => current = None

\* The context is what the verdicts of the file say, whatever failed in
\* between: the current instance is that of the latest module that could be
\* read, a name is the latest module of that name that passed, a namespace
\* what its latest good register took; and nothing comes from another file.
ContextFollowsVerdicts ==
  exit = "file" =>
    /\ current = CurrentAfter(Len(rows))
    /\ \A name \in Names : named[name] = NamedAfter(name, Len(rows))
    /\ \A space \in Spaces : registry[space] = RegisteredAfter(space, Len(rows))

\* A verdict is about the instance its command designates at its place in
\* the file, and a command of a wrong shape reaches none (runfile.rs,
\* "Fail-closed ordering").
VerdictsOnDesignated ==
  \A i \in DOMAIN rows :
    LET c == rows[i].cmd IN
    c.type \in {"action", "assert_return", "assert_trap", "assert_exhaustion"} =>
      /\ rows[i].on \in {None, DesignatedAfter(c.action.module, i - 1)}
      /\ Passed(i) => rows[i].on # None
      /\ c.action.type = "invoke" /\ c.action.args # "good" => rows[i].on = None

\* An instance is linked to what its namespaces were when it was made, a
\* module that was to fail included; modules never import themselves or
\* what came after them.
LinkedToRegistered ==
  \A i \in DOMAIN rows : rows[i].made # None =>
    LET m == instances[rows[i].made] IN
    \A imp \in DOMAIN m.links :
      /\ m.links[imp] = RegisteredAfter(imp.module, i - 1)
      /\ m.links[imp] \in 1 .. rows[i].made - 1

\* Names and instances agree in both directions: what commands act on, what
\* new modules are linked to, and that all of it is in the store (runfile.rs,
\* build_instance and perform_action).
DesignationsHold == TypeOK /\ VerdictsOnDesignated /\ LinkedToRegistered

-----------------------------------------------------------------------------
(* The ledger.                                                             *)

\* The namespace, as registered before command i, exports what is imported.
Exported(imp, i) ==
  LET n == RegisteredAfter(imp.module, i - 1) IN
  n # None /\ LET exports == instances[n].exports IN
              imp.name \in DOMAIN exports /\ exports[imp.name] = imp.kind

\* What came back could only come back from the module's code or start
\* function: it got past decoding, validation and linking.
Linked(b, i) == b.decodes /\ b.valid /\ \A imp \in b.imports : Exported(imp, i)

\* The instance command i designates exports what its action asks for.
Reaches(i) ==
  LET a == rows[i].cmd.action
      n == DesignatedAfter(a.module, i - 1)
  IN
  /\ n # None /\ rows[i].on = n
  /\ a.field \in DOMAIN instances[n].exports
  /\ instances[n].exports[a.field] = IF a.type = "invoke" THEN "func" ELSE "global"

\* No two elements at one position differ.
Agree(s, t) == \A n \in DOMAIN s \cap DOMAIN t : s[n] = t[n]

\* The engine did what command i asks for, and at the stage it asks for.
Earned(i) ==
  LET c   == rows[i].cmd
      got == rows[i].outcome
  IN
  \/ c.type = "module" /\ got = Came("ok") /\ Linked(c.bin, i) /\ c.name # Bad
  \/ c.type = "register" /\ c.as \in Spaces /\ DesignatedAfter(c.name, i - 1) # None
  \/ c.type = "action" /\ got.res = "values" /\ Reaches(i)
  \/ c.type = "assert_return" /\ got = Returns(c.expected) /\ Reaches(i)
  \/ /\ c.type \in {"assert_trap", "assert_exhaustion"}
     /\ got.res = "trap" /\ Agree(got.msg, c.text) /\ Reaches(i) /\ c.action.type = "invoke"
  \/ c.type = "assert_malformed" /\ c.module_type = "binary" /\ c.bin # Bad /\ ~ c.bin.decodes
  \/ c.type = "assert_invalid" /\ c.bin # Bad /\ c.bin.decodes /\ ~ c.bin.valid
  \/ /\ c.type = "assert_unlinkable" /\ c.bin # Bad /\ c.bin.decodes /\ c.bin.valid
     /\ \E imp \in c.bin.imports : ~ Exported(imp, i)
  \/ /\ c.type = "assert_uninstantiable" /\ got = Came("uninstantiable") /\ Linked(c.bin, i)
     /\ rows[i].made \notin {None, current} \union Range(named) \union Range(registry)

\* A command passes exactly when it is earned: a call returned the values
\* expected, all of them; a trap came from a call, with a message that agrees
\* as far as both go; a module that must be rejected was, by the stage its
\* command names (an import nobody had registered at its place in the file,
\* or else its own segments and start function, and then no later command
\* reaches it); and nothing that was earned fails (runfile.rs, cmd_*).
PassesAreEarned == \A i \in DOMAIN rows : Passed(i) <=> Earned(i)

\* The rows of the files done.
AllRows ==
  UNION {{<<f, i>> : i \in DOMAIN results[f].rows} : f \in DOMAIN results}
RowAt(r) == results[r[1]].rows[r[2]]

\* Text modules, counted from the commands as enum_corpus.py does.
TextRows == {r \in AllRows : RowAt(r).cmd.type = "assert_malformed"
                             /\ RowAt(r).cmd.module_type = "text"}

\* "every command gets exactly one verdict", "UNSUPPORTED is allowed only for
\* text" (main.rs): the runner exits green exactly when every command of
\* every file passed or is a text module, and both are as many as expected.
ExitSound ==
  exit \in {"success", "failure"} =>
    (exit = "success") =
      /\ \A r \in AllRows : RowAt(r).verdict = "PASS" \/ r \in TextRows
      /\ ExpectTotal \in {Absent, Cardinality(AllRows)}
      /\ ExpectUnsupported \in {Absent, Cardinality(TextRows)}
=============================================================================
