------------------------------ MODULE MCLedger ------------------------------
(***************************************************************************)
(* Sweeps of two files with commands of every kind, right and wrong, with  *)
(* and without a file left out (one of them empty, so that only its name   *)
(* is missed).                                                             *)
(***************************************************************************)
EXTENDS LedgerProps, MCRunner

Rubbish == [Good EXCEPT !.decodes = FALSE]

Expects(a, vs)    == [type |-> "assert_return", action |-> a, expected |-> vs]
ExpectsTrap(a, t) == [type |-> "assert_trap", action |-> a, text |-> t]
ExpectsExhaustion(a, t) == [ExpectsTrap(a, t) EXCEPT !.type = "assert_exhaustion"]
Malformed(t, b)   == [type |-> "assert_malformed", module_type |-> t, bin |-> b]
Invalid(t, b)     == [type |-> "assert_invalid", module_type |-> t, bin |-> b]

\* A text assert_invalid has a file that is no binary; a binary
\* assert_malformed of a good module fails.
LedgerCommands ==
  {Module(Good, Absent), Module(Trapper, Absent), Does(Invoke(Absent)),
   Expects(Get(Absent), <<"x">>), ExpectsExhaustion(Invoke(Absent), <<"m", "n">>),
   Expects(Invoke(Absent), <<"x">>), Expects(Invoke(Absent), <<"x", "y">>),
   Expects(Invoke(Absent), <<Bad>>), Expects(Invoke(Absent), Absent),
   ExpectsTrap(Invoke(Absent), <<"m", "n">>), ExpectsTrap(Invoke(Absent), Absent),
   Malformed("text", Rubbish), Malformed("binary", Rubbish), Malformed("binary", Bad),
   Malformed("binary", Good), Malformed(Bad, Rubbish),
   Invalid("binary", Wrong), Invalid("binary", Rubbish), Invalid("text", Rubbish),
   Registers("M", Absent),
   Rejects("assert_unlinkable", Importer), Rejects("assert_unlinkable", Trapper),
   Rejects("assert_unlinkable", Bad), Rejects("assert_uninstantiable", Trapper),
   [type |-> "unknown"]}
SomeResults  == {<<"x">>, <<"y">>, <<"y", "x">>}
SomeMessages == {<<"m">>, <<"n">>, <<"m", "n", "o">>}
LeftOutFiles == {<<>>, <<Malformed("text", Bad)>>, <<Module(Good, Absent)>>}
=============================================================================
