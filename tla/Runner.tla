------------------------------- MODULE Runner -------------------------------
(***************************************************************************)
(* The spec-runner (crates/spec-runner): it runs the commands of each      *)
(* corpus file against a fresh store, judges every command to one verdict, *)
(* and turns the verdicts of all the files into an exit code.              *)
(*                                                                         *)
(* The store is what Store.tla shows of it: instances are only added, a    *)
(* failed link adds none, one whose start trapped stays.  What a call of   *)
(* an export returns is left open.  A row of the ledger also remembers its *)
(* command, the instance it made, the one it acted on, and what the engine *)
(* came back with.                                                         *)
(***************************************************************************)
EXTENDS Naturals, Sequences, FiniteSets, SequencesExt

CONSTANTS
  Absent, Bad,         \* a field that is missing, one of a wrong shape
  Commands,            \* what a file may hold
  Names, Spaces,       \* `$id`s of modules, import namespaces
  Spectest,            \* kinds of the exports of the spectest host module
  Results, Messages,   \* values calls return; trap messages, as sequences
  ExpectTotal, ExpectUnsupported,  \* --expect-... arguments, or Absent
  MaxFiles, MaxCommands            \* bounds: files, commands of all of them

\* Instances are numbered from 1.
None == 0

ASSUME RunnerAssumption ==
  /\ "spectest" \in Spaces /\ Absent \notin Names /\ Bad \notin Names
  /\ MaxFiles \in Nat /\ MaxCommands \in Nat
  /\ \A values \in Results : values \in Seq(Range(values)) /\ Bad \notin Range(values)
  /\ \A msg \in Messages : msg \in Seq(Range(msg))
  /\ \A cmd \in Commands : cmd.type = "assert_return" =>
       cmd.expected = Absent \/ cmd.expected \in Seq(Range(cmd.expected))
  /\ \A cmd \in Commands : cmd.type \in {"assert_trap", "assert_exhaustion"} =>
       cmd.text = Absent \/ cmd.text \in Seq(Range(cmd.text))

VARIABLES
  instances,   \* the store of the current file
  registry,    \* import namespace -> instance
  named,       \* module name -> instance
  current,     \* instance of the latest module
  rows,        \* verdicts of the current file
  counts,      \* its counters
  results,     \* files done
  exit         \* exit code of the runner, "file" or "files" before

ctx  == <<instances, registry, named, current>>
vars == <<ctx, rows, counts, results, exit>>

NoCounts == [total |-> 0, pass |-> 0, fail |-> 0, unsupported |-> 0]

SpectestInstance == [exports |-> Spectest, links |-> <<>>]

\* The context of a file: a store with the spectest module in it.
FreshContext(store, spaces, names, module) ==
  /\ store = <<SpectestInstance>>
  /\ spaces = [s \in Spaces |-> IF s = "spectest" THEN 1 ELSE None]
  /\ names = [n \in Names |-> None]
  /\ module = None

Init ==
  /\ FreshContext(instances, registry, named, current)
  /\ rows = <<>> /\ counts = NoCounts
  /\ results = <<>> /\ exit = "files"

-----------------------------------------------------------------------------
(* Verdicts.                                                               *)

Counted(c, verdict) ==
  [total       |-> c.total + 1,
   pass        |-> IF verdict = "PASS" THEN c.pass + 1 ELSE c.pass,
   fail        |-> IF verdict = "FAIL" THEN c.fail + 1 ELSE c.fail,
   unsupported |-> IF verdict = "UNSUPPORTED" THEN c.unsupported + 1 ELSE c.unsupported]

\* What the engine comes back with: "none" if it was not called.
Came(res)  == [res |-> res]
Returns(v) == [res |-> "values", values |-> v]
Traps(m)   == [res |-> "trap", msg |-> m]

\* The row of a command that made one instance, acted on another and got
\* this outcome.
Judge(cmd, verdict, made, on, outcome) ==
  /\ rows' = Append(rows, [cmd |-> cmd, verdict |-> verdict, made |-> made, on |-> on,
                           outcome |-> outcome])
  /\ counts' = Counted(counts, verdict)
  /\ UNCHANGED <<results, exit>>

PassIf(b) == IF b THEN "PASS" ELSE "FAIL"

RowsDone == FoldLeft(LAMBDA n, r : n + Len(r.rows), 0, results)

\* A command of one of these types comes next.
Command(types) ==
  IF exit = "file" /\ RowsDone + Len(rows) < MaxCommands
  THEN {cmd \in Commands : cmd.type \in types} ELSE {}

-----------------------------------------------------------------------------
(* Building an instance.                                                   *)

\* Mutant of Links: any namespace will do.
LinksAnywhere(b) ==
  \A imp \in b.imports : \E i \in DOMAIN instances :
    LET exports == instances[i].exports IN
    imp.name \in DOMAIN exports /\ exports[imp.name] = imp.kind

\* Every import is in the snapshot of the registered instances' exports.
Links(b) ==
  \A imp \in b.imports :
    /\ imp.module \in Spaces /\ registry[imp.module] # None
    /\ LET exports == instances[registry[imp.module]].exports IN
       imp.name \in DOMAIN exports /\ exports[imp.name] = imp.kind

\* What build_instance makes of a binary: segments and start function may trap.
Outcomes(b) ==
  IF ~ b.decodes THEN {"malformed"}
  ELSE IF ~ b.valid THEN {"invalid"}
  ELSE IF ~ Links(b) THEN {"unlinkable"}
  ELSE {IF traps THEN "uninstantiable" ELSE "ok" : traps \in b.traps}

\* The store after it: instantiate publishes before segments are applied.
Built(b, outcome) ==
  instances' = IF outcome \in {"ok", "uninstantiable"}
               THEN Append(instances, [exports |-> b.exports,
                                       links   |-> [imp \in b.imports |-> registry[imp.module]]])
               ELSE instances

NextId  == Len(instances) + 1
Made(o) == IF o \in {"ok", "uninstantiable"} THEN NextId ELSE None

\* A `module` command whose file cannot be read leaves everything as it is.
ModuleUnreadable ==
  \E cmd \in Command({"module"}) :
    /\ cmd.bin = Bad
    /\ Judge(cmd, "FAIL", None, None, Came("none"))
    /\ UNCHANGED ctx

\* A `module` command makes its instance the current one, and the one of its
\* name; if it fails there is no current instance.
ModuleCommand ==
  \E cmd \in Command({"module"}) :
    /\ cmd.bin # Bad
    /\ \E o \in Outcomes(cmd.bin) :
         /\ Built(cmd.bin, o)
         /\ current' = IF o = "ok" /\ cmd.name # Bad THEN NextId ELSE None
         /\ named' = IF o = "ok" /\ cmd.name \in Names
                     THEN [named EXCEPT ![cmd.name] = NextId] ELSE named
         /\ Judge(cmd, PassIf(o = "ok" /\ cmd.name # Bad), Made(o), None, Came(o))
    /\ UNCHANGED registry

\* The instance a `name` or `module` field stands for.
Designated(field) ==
  IF field = Absent THEN current ELSE IF field \in Names THEN named[field] ELSE None

Register ==
  \E cmd \in Command({"register"}) :
    LET inst == Designated(cmd.name)
        ok   == cmd.as \in Spaces /\ inst # None
    IN
    /\ registry' = IF ok THEN [registry EXCEPT ![cmd.as] = inst] ELSE registry
    /\ Judge(cmd, PassIf(ok), None, inst, Came("none"))
    /\ UNCHANGED <<instances, named, current>>

-----------------------------------------------------------------------------
(* Actions on an instance.                                                 *)

\* An action is looked at as a whole before any instance is.
WellShaped(a) ==
  /\ a.type \in {"invoke", "get"} /\ a.field # Absent
  /\ a.args = IF a.type = "invoke" THEN "good" ELSE Absent

\* The instance the action reaches.
ActsOn(a) == IF WellShaped(a) THEN Designated(a.module) ELSE None

\* What perform_action may come back with: values, a trap with its message,
\* or another error (an unknown export, arguments of other types).
Performed(a) ==
  LET i       == ActsOn(a)
      Has(kind) == i # None /\ a.field \in DOMAIN instances[i].exports
                            /\ instances[i].exports[a.field] = kind
  IN
  IF a.type = "invoke" /\ Has("func")
  THEN {Came("error")} \union {Returns(v) : v \in Results} \union {Traps(m) : m \in Messages}
  ELSE IF a.type = "get" /\ Has("global")
  THEN {Returns(v) : v \in {r \in Results : Len(r) = 1}}
  ELSE {Came("error")}

ActionCommand ==
  \E cmd \in Command({"action"}) : \E r \in Performed(cmd.action) :
    /\ Judge(cmd, PassIf(r.res = "values"), None, ActsOn(cmd.action), r)
    /\ UNCHANGED ctx

\* Mutant of ReturnsMatch: the values are not looked at.
ReturnsAsMany(values, expected) == Len(values) = Len(expected)

\* As many results as expected, each matching; a bad pattern matches none.
ReturnsMatch(values, expected) ==
  /\ Len(values) = Len(expected)
  /\ \A i \in DOMAIN values : expected[i] # Bad /\ expected[i] = values[i]

\* assert_return looks at the expected array before it acts.
AssertReturn ==
  \E cmd \in Command({"assert_return"}) :
    /\ \/ /\ cmd.expected = Absent
          /\ Judge(cmd, "FAIL", None, None, Came("none"))
       \/ /\ cmd.expected # Absent
          /\ \E r \in Performed(cmd.action) :
               Judge(cmd,
                     PassIf(r.res = "values" /\ ReturnsMatch(r.values, cmd.expected)),
                     None, ActsOn(cmd.action), r)
    /\ UNCHANGED ctx

\* Either message is a prefix of the other.
TrapMatches(actual, expected) == IsPrefix(actual, expected) \/ IsPrefix(expected, actual)

\* assert_trap and assert_exhaustion: only an error of a trap passes.
AssertTrap ==
  \E cmd \in Command({"assert_trap", "assert_exhaustion"}) :
    /\ \/ /\ cmd.text = Absent
          /\ Judge(cmd, "FAIL", None, None, Came("none"))
       \/ /\ cmd.text # Absent
          /\ \E r \in Performed(cmd.action) :
               Judge(cmd, PassIf(r.res = "trap" /\ TrapMatches(r.msg, cmd.text)),
                     None, ActsOn(cmd.action), r)
    /\ UNCHANGED ctx

-----------------------------------------------------------------------------
(* Modules that must be rejected.  What decode and validate say is in the  *)
(* binary: the outcome is kept only where the store was asked.             *)

\* The only command that may be unsupported.
AssertMalformed ==
  \E cmd \in Command({"assert_malformed"}) :
    /\ Judge(cmd,
             IF cmd.module_type = "text" THEN "UNSUPPORTED"
             ELSE PassIf(cmd.module_type = "binary" /\ cmd.bin # Bad /\ ~ cmd.bin.decodes),
             None, None, Came("none"))
    /\ UNCHANGED ctx

\* An invalid module must decode.
AssertInvalid ==
  \E cmd \in Command({"assert_invalid"}) :
    /\ Judge(cmd, PassIf(cmd.bin # Bad /\ cmd.bin.decodes /\ ~ cmd.bin.valid), None, None,
             Came("none"))
    /\ UNCHANGED ctx

\* assert_unlinkable and assert_uninstantiable build the module; whatever
\* comes of it, later commands do not see it.
AssertBuild ==
  \E cmd \in Command({"assert_unlinkable", "assert_uninstantiable"}) :
    /\ \/ cmd.bin = Bad /\ Judge(cmd, "FAIL", None, None, Came("none")) /\ UNCHANGED instances
       \/ /\ cmd.bin # Bad
          /\ \E o \in Outcomes(cmd.bin) :
               /\ Built(cmd.bin, o)
               /\ Judge(cmd, PassIf(o = IF cmd.type = "assert_unlinkable"
                                        THEN "unlinkable" ELSE "uninstantiable"),
                        Made(o), None, Came(o))
    /\ UNCHANGED <<registry, named, current>>

\* Mutant of UnknownCommand: it is skipped as unsupported.
UnknownCommandSkipped ==
  \E cmd \in Command({"unknown"}) : Judge(cmd, "UNSUPPORTED", None, None, Came("none")) /\ UNCHANGED ctx

UnknownCommand ==
  \E cmd \in Command({"unknown"}) : Judge(cmd, "FAIL", None, None, Came("none")) /\ UNCHANGED ctx

-----------------------------------------------------------------------------
(* Files (main.rs).                                                        *)

\* Mutant of StartFile: the context of the last file goes on.
StartFileStale ==
  /\ exit = "files" /\ Len(results) < MaxFiles
  /\ UNCHANGED ctx
  /\ rows' = <<>> /\ counts' = NoCounts /\ exit' = "file"
  /\ UNCHANGED results

StartFile ==
  /\ exit = "files" /\ Len(results) < MaxFiles
  /\ FreshContext(instances', registry', named', current')
  /\ rows' = <<>> /\ counts' = NoCounts /\ exit' = "file"
  /\ UNCHANGED results

EndFile ==
  /\ exit = "file"
  /\ results' = Append(results, [rows |-> rows, counts |-> counts])
  /\ exit' = "files"
  /\ UNCHANGED <<ctx, rows, counts>>

\* No corpus, or a file that cannot be read or parsed, is never a green sweep.
HarnessError ==
  /\ exit = "files"
  /\ exit' = "error"
  /\ UNCHANGED <<ctx, rows, counts, results>>

Sum(field) == FoldLeft(LAMBDA n, r : n + r.counts[field], 0, results)

AccountingOk ==
  /\ Sum("pass") + Sum("fail") + Sum("unsupported") = Sum("total")
  /\ ExpectTotal \in {Absent, Sum("total")}
  /\ ExpectUnsupported \in {Absent, Sum("unsupported")}

\* Mutant of Report: the accounting alone decides.
ReportAccounting ==
  /\ exit = "files" /\ results # <<>>
  /\ exit' = IF AccountingOk THEN "success" ELSE "failure"
  /\ UNCHANGED <<ctx, rows, counts, results>>

Report ==
  /\ exit = "files" /\ results # <<>>
  /\ exit' = IF Sum("fail") = 0 /\ AccountingOk THEN "success" ELSE "failure"
  /\ UNCHANGED <<ctx, rows, counts, results>>

RunCommand ==
  \/ ModuleUnreadable \/ ModuleCommand \/ Register
  \/ ActionCommand \/ AssertReturn \/ AssertTrap
  \/ AssertMalformed \/ AssertInvalid \/ AssertBuild \/ UnknownCommand

Next == RunCommand \/ StartFile \/ EndFile \/ HarnessError \/ Report

Spec == Init /\ [][Next]_vars
=============================================================================
