------------------------------- MODULE Ledger -------------------------------
(***************************************************************************)
(* The ledger the runner writes (main.rs, `build_ledger_json`) and the     *)
(* second entry of the books: scripts/enum_corpus.py counts the commands   *)
(* of the corpus on its own and compares.  It runs after the sweep, on     *)
(* what is on disk, and keeps nothing: its verdict is a predicate of the   *)
(* ledger and the corpus, that is the files the runner ran and those that  *)
(* --only left out (`omitted`); a file is its commands.                    *)
(***************************************************************************)
EXTENDS Runner

CONSTANT
  LeftOut   \* files --only may leave out, each a sequence of commands

\* A command that may be unsupported has the field that says so, or Absent.
ASSUME LedgerAssumption ==
  \A cmd \in Commands : cmd.type = "assert_malformed" => "module_type" \in DOMAIN cmd

-----------------------------------------------------------------------------
(* The ledger.                                                             *)

Itemized(row) == [type |-> row.cmd.type, verdict |-> row.verdict]

\* A file's entry: its counters and the rows that did not pass, by their line.
Entry(f) ==
  LET rs == results[f].rows IN
  [file   |-> f,
   counts |-> results[f].counts,
   rows   |-> [line \in {i \in DOMAIN rs : rs[i].verdict # "PASS"} |-> Itemized(rs[line])]]

TheLedger ==
  [totals |-> [field \in DOMAIN NoCounts |-> Sum(field)],
   files  |-> [f \in DOMAIN results |-> Entry(f)]]

-----------------------------------------------------------------------------
(* The cross-check.                                                        *)

\* The corpus, by file name.
Corpus(omitted) ==
  [f \in 1 .. Len(results) + Len(omitted) |->
     IF f <= Len(results) THEN [i \in DOMAIN results[f].rows |-> results[f].rows[i].cmd]
                          ELSE omitted[f - Len(results)]]

IsText(cmd) == "module_type" \in DOMAIN cmd /\ cmd.module_type = "text"

\* The sum of a sequence of numbers.
Tally(a) == FoldLeft(LAMBDA n, k : n + k, 0, a)

Total(corpus) == Tally([f \in DOMAIN corpus |-> Len(corpus[f])])

TextModules(corpus) ==
  Tally([f \in DOMAIN corpus |-> Cardinality({i \in DOMAIN corpus[f] : IsText(corpus[f][i])})])

TotalsAgree(ledger, corpus) ==
  /\ ledger.totals.total = Total(corpus)
  /\ ledger.totals.unsupported = TextModules(corpus)
  /\ Len(ledger.files) = Len(corpus)
  /\ ledger.totals.pass + ledger.totals.fail + ledger.totals.unsupported = Total(corpus)

\* No file is missing, twice there or of another length.
FilesAgree(ledger, corpus) ==
  /\ {ledger.files[i].file : i \in DOMAIN ledger.files} = DOMAIN corpus
  /\ IsInjective([i \in DOMAIN ledger.files |-> ledger.files[i].file])
  /\ \A i \in DOMAIN ledger.files :
       ledger.files[i].file \in DOMAIN corpus =>
         ledger.files[i].counts.total = Len(corpus[ledger.files[i].file])

Unsupported(rs) == {line \in DOMAIN rs : rs[line].verdict = "UNSUPPORTED"}

\* Every unsupported row is there, with the reason of cmd_assert_malformed.
RowsAgree(ledger) ==
  /\ Tally([f \in DOMAIN ledger.files |-> Cardinality(Unsupported(ledger.files[f].rows))])
       = ledger.totals.unsupported
  /\ \A f \in DOMAIN ledger.files : \A line \in Unsupported(ledger.files[f].rows) :
       ledger.files[f].rows[line].type = "assert_malformed"

CrossCheck(ledger, corpus) ==
  TotalsAgree(ledger, corpus) /\ FilesAgree(ledger, corpus) /\ RowsAgree(ledger)
=============================================================================
