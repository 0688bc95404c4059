----------------------------- MODULE LedgerProps -----------------------------
(***************************************************************************)
(* What the two entries of the books say together.                         *)
(***************************************************************************)
EXTENDS Ledger, RunnerProps

Swept == exit \in {"success", "failure"}

Omissions == {<<>>} \cup {<<f>> : f \in LeftOut}

Commanded(corpus) == UNION {{corpus[f][i] : i \in DOMAIN corpus[f]} : f \in DOMAIN corpus}

\* The runner and enum_corpus.py agree exactly when the sweep left no file
\* out and the only commands with a text module are assert_malformed: the
\* runner calls nothing else unsupported, the script counts every one.
DoubleEntry ==
  Swept => \A omitted \in Omissions :
    CrossCheck(TheLedger, Corpus(omitted)) <=>
      /\ omitted = <<>>
      /\ \A cmd \in Commanded(Corpus(omitted)) : IsText(cmd) => cmd.type = "assert_malformed"

\* A green sweep and a green cross-check ("so CI can gate on both sides
\* agreeing", enum_corpus.py) leave nothing out: every command of every file
\* of the corpus has a row, and passed or is a text assert_malformed.
GreenIsEverything ==
  exit = "success" => \A omitted \in Omissions :
    CrossCheck(TheLedger, Corpus(omitted)) =>
      /\ omitted = <<>>
      /\ \A f \in DOMAIN results : \A i \in DOMAIN results[f].rows :
           LET row == results[f].rows[i]
           IN row.verdict = "PASS" \/ (row.cmd.type = "assert_malformed" /\ IsText(row.cmd))

\* The two counts of one corpus, as a gate: they agree when they should, and
\* when both are green nothing was left out (main.rs, enum_corpus.py).
BooksBalance == DoubleEntry /\ GreenIsEverything
=============================================================================
