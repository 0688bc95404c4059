------------------------------ MODULE MCStore -------------------------------
(***************************************************************************)
(* Small modules and host descriptors for the store.                       *)
(***************************************************************************)
EXTENDS StoreProps

Fun(p, r) == [params |-> p, results |-> r]
Plain    == Fun(<<>>, <<>>)
Taker    == Fun(<<"funcref">>, <<>>)
Giver    == Fun(<<>>, <<"funcref">>)

Lim(a, b)    == [min |-> a, max |-> b]
Table(a, b)  == [elem |-> "funcref", limits |-> Lim(a, b)]
XTable(a, b) == [elem |-> "externref", limits |-> Lim(a, b)]
Mem(a, b)    == [limits |-> Lim(a, b)]
Glob(t, m)   == [val |-> t, mutable |-> m]

Const(n) == <<[op |-> "i32.const", val |-> n]>>
Null     == <<[op |-> "ref.null", ty |-> "funcref"]>>
Func(i)  == <<[op |-> "ref.func", idx |-> i]>>
Get(i)   == <<[op |-> "global.get", idx |-> i]>>

ImportOf(kind, ty) == [kind |-> kind, ty |-> ty]
FuncImport(idx) == [kind |-> "func", idx |-> idx]
Export(name, kind, idx) == [name |-> name, kind |-> kind, idx |-> idx]
Active(t, off, init) ==
  [ty |-> "funcref", init |-> init, mode |-> "active", table |-> t, offset |-> off]
Other(mode, init) ==
  [ty |-> "funcref", init |-> init, mode |-> mode, table |-> 0, offset |-> <<>>]
DataAt(off, n) == [len |-> n, mode |-> "active", mem |-> 1, offset |-> off]
DataPassive(n) == [len |-> n, mode |-> "passive", mem |-> 0, offset |-> <<>>]

EmptyModule ==
  [types |-> <<Plain, Taker, Giver>>, imports |-> <<>>, funcs |-> <<>>, tables |-> <<>>,
   mems |-> <<>>, globals |-> <<>>, elems |-> <<>>, datas |-> <<>>,
   exports |-> <<>>, start |-> 0, refs |-> {}]

\* Exports a growable table it fills itself, a mutable reference, a memory.
Lib ==
  [EmptyModule EXCEPT
     !.funcs = <<1>>, !.tables = <<Table(1, 2)>>, !.mems = <<Mem(1, 2)>>,
     !.globals = <<[ty |-> Glob("funcref", TRUE), init |-> Func(1)],
                   [ty |-> Glob("i32", FALSE), init |-> Const(0)]>>,
     !.elems = <<Active(1, Const(0), <<Func(1)>>)>>,
     !.exports = <<Export("f", "func", 1), Export("t", "table", 1),
                   Export("g", "global", 1), Export("m", "mem", 1)>>,
     !.refs = {1}]

\* Imports what Lib exports; its second segment traps unless the table grew.
App ==
  [EmptyModule EXCEPT
     !.imports = <<ImportOf("table", Table(1, 2)), ImportOf("global", Glob("funcref", TRUE))>>,
     !.funcs = <<2>>,
     !.elems = <<Active(1, Const(0), <<Func(1)>>), Active(1, Const(1), <<Func(1)>>)>>,
     !.exports = <<Export("take", "func", 1), Export("g", "global", 1)>>,
     !.refs = {1}]

\* Its global refers to its function, its table may fail to be allocated.
Late ==
  [EmptyModule EXCEPT
     !.imports = <<ImportOf("table", Table(2, NoMax))>>,
     !.funcs = <<1>>, !.tables = <<Table(0, NoMax), Table(4, NoMax)>>,
     !.globals = <<[ty |-> Glob("funcref", FALSE), init |-> Func(1)]>>]

\* Imports an immutable global as an offset and a memory; starts a function.
Starter ==
  [EmptyModule EXCEPT
     !.imports = <<ImportOf("global", Glob("i32", FALSE)), ImportOf("mem", Mem(1, 2)),
                   FuncImport(1)>>,
     !.funcs = <<1>>, !.tables = <<Table(1, 3), XTable(1, 1)>>,
     !.elems = <<Other("passive", <<Func(2), Null>>), Other("declarative", <<Func(2)>>)>>,
     !.datas = <<DataPassive(1), DataAt(Get(1), 1)>>,
     !.exports = <<Export("f", "func", 2)>>,
     !.start = 2, !.refs = {2}]

HFunc(name, ty)       == [name |-> name, ty |-> ty]
HGlobal(name, ty, v)  == [name |-> name, ty |-> ty, val |-> v]

Host ==
  [funcs |-> <<HFunc("give", Giver)>>,
   globals |-> <<HGlobal("n", Glob("i32", FALSE), I32(1))>>,
   tables |-> <<>>,
   mems |-> <<HFunc("m", Mem(1, NoMax))>>]

\* Fails at its forged reference, its oversized table or its memory.
BadHost(v, n, p) ==
  [funcs |-> <<HFunc("f", Plain)>>,
   globals |-> <<HGlobal("r", Glob("funcref", TRUE), v)>>,
   tables |-> <<HFunc("t", XTable(n, NoMax))>>,
   mems |-> <<HFunc("m", Mem(p, NoMax))>>]

-----------------------------------------------------------------------------
LinkModules == {Lib, App, Late, Starter}
LinkHosts   == {Host, BadHost(FuncRef(9), 1, 1), BadHost(FuncRef(1), 4, 1),
                BadHost(FuncRef(1), 1, 3), BadHost(I32(1), 1, 1)}

\* Modules valid and invalid: every combination of imports, one global, one
\* element segment, an export and a start function, right or off by one.
Imports ==
  LET G(m) == ImportOf("global", Glob("i32", m)) IN
  {<<>>, <<G(FALSE)>>, <<G(TRUE), G(FALSE)>>, <<FuncImport(1), FuncImport(2)>>}

Candidates ==
  {[EmptyModule EXCEPT
      !.imports = i, !.funcs = <<1>>, !.tables = <<Table(1, NoMax)>>,
      !.globals = <<[ty |-> Glob(t, FALSE), init |-> g]>>,
      !.elems = <<Active(n, off, init)>>,
      !.exports = <<Export("x", x, y)>>, !.start = s] :
     i \in Imports, t \in {"i32", "funcref"},
     g \in {Const(1), Get(1), Get(2), Func(1), Func(2)},
     n \in 1..2, off \in {Const(0), Get(1)}, init \in {<<Null>>, <<Func(3)>>, <<Get(1)>>},
     x \in Kind, y \in 1..2, s \in {0, 1, 2}}

CandidateHost ==
  [funcs |-> <<HFunc("f", Plain), HFunc("h", Taker)>>,
   globals |-> <<HGlobal("n", Glob("i32", FALSE), I32(1)),
                 HGlobal("v", Glob("i32", TRUE), I32(0))>>,
   tables |-> <<>>, mems |-> <<>>]
CandidateHosts == {CandidateHost}

SomeValues == {I32(1), FuncRef(1), FuncRef(9)}
=============================================================================
