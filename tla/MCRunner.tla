------------------------------ MODULE MCRunner ------------------------------
(***************************************************************************)
(* Corpus files of a few commands.                                         *)
(***************************************************************************)
EXTENDS RunnerProps

Uses(space) == [module |-> space, name |-> "f", kind |-> "func"]

Binary(imports, traps) ==
  [decodes |-> TRUE, valid |-> TRUE, imports |-> imports, traps |-> traps,
   exports |-> ("f" :> "func")]

Good     == Binary({}, {FALSE})
Importer == Binary({Uses("M"), Uses("spectest")}, {FALSE})
Trapper  == [Binary({}, BOOLEAN) EXCEPT !.exports = ("f" :> "func") @@ ("g" :> "global")]
Wrong    == [Good EXCEPT !.valid = FALSE]

TheSpectest == ("f" :> "func") @@ ("g" :> "global")

Module(b, name)    == [type |-> "module", bin |-> b, name |-> name]
Registers(as, name) == [type |-> "register", as |-> as, name |-> name]
Invoke(m)  == [type |-> "invoke", field |-> "f", args |-> "good", module |-> m]
Get(m)     == [type |-> "get", field |-> "g", args |-> Absent, module |-> m]
Does(a)    == [type |-> "action", action |-> a]
Rejects(stage, b) == [type |-> stage, bin |-> b]

-----------------------------------------------------------------------------
(* Modules, names, namespaces, and who is acted upon.                      *)

ContextCommands ==
  {Module(Good, Absent), Module(Good, "a"), Module(Trapper, "a"), Module(Good, Bad),
   Module(Importer, "b"), Module(Wrong, "a"), Module(Bad, "a"),
   Registers("M", Absent), Registers("M", "a"), Registers("M", Bad),
   Registers(Bad, Absent), Registers("spectest", "b"),
   Does(Invoke(Absent)), Does(Invoke("a")), Does(Get("a")),
   Does([Invoke(Absent) EXCEPT !.args = Bad]),
   Rejects("assert_unlinkable", Importer), Rejects("assert_uninstantiable", Trapper)}
OneResult  == {<<>>}
OneMessage == {<<"m">>}

=============================================================================
