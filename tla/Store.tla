------------------------------- MODULE Store --------------------------------
(***************************************************************************)
(* The store of wasm-core (store.rs) and the instructions that change it   *)
(* (exec.rs): host modules, instantiation with its import matching, its    *)
(* rollback and its partial effects, calls, and the run-time mutation of   *)
(* globals, tables, memories and segments.                                 *)
(*                                                                         *)
(* One call on the store is in progress at a time; `phase` says which part *)
(* of it comes next.  A step is one item of the loops in `instantiate` and *)
(* `add_host_module_inner`, or one instruction.  Where the code indexes a  *)
(* vector and would panic, the guard asks for an index in range; the runs  *)
(* show that no call ever waits for such a guard.                          *)
(***************************************************************************)
EXTENDS WasmModule

CONSTANTS
  Modules,         \* decoded modules the embedder may try to instantiate
  HostModules,     \* host descriptors the embedder may try to add
  EmbedderValues,  \* values arguments and host results are taken from
  MaxAddr,         \* bound on the addresses a resolver answers with
  MaxInstances,    \* bound on the instances of a behaviour
  MaxOps,          \* bound on the instructions of a behaviour
  Words,           \* i32 operands the instructions use
  MAX_CALL_DEPTH,  \* frames a machine may hold (2000 in the code)
  PAGE_SIZE        \* bytes of a page (65536 in the code)

ASSUME StoreAssumption ==
  /\ Modules \subseteq Module
  /\ HostModules \subseteq HostModule
  /\ EmbedderValues \subseteq Value
  /\ Words \subseteq Nat
  /\ MaxAddr \in Nat
  /\ MaxInstances \in Nat
  /\ MaxOps \in Nat
  /\ MAX_CALL_DEPTH \in Nat \ {0}
  /\ PAGE_SIZE \in Nat \ {0}

VARIABLES
  funcs,      \* [ty, inst]: the owning instance, 0 for a host function
  tables,     \* [ty, elems]
  mems,       \* [ty, pages]
  globals,    \* [ty, val]
  instances,  \* published instances
  code,       \* the module each instance runs (a host descriptor for a host)
  phase,      \* "idle" or the part of the call in progress
  mod,        \* the module or descriptor being added
  inst,       \* its instance, under construction until it is published
  base,       \* store lengths to roll back to
  k,          \* position of the current loop
  ret,        \* outcome of the last call
  frames,     \* the machine's frames, each the instance it runs in
  held,       \* references on the machine's value stack and in its locals
  ops         \* instructions executed so far

storeVars == <<funcs, tables, mems, globals, instances, code>>
callVars  == <<mod, inst, base, k>>
runVars   == <<frames, held, ops>>
vars      == <<storeVars, phase, callVars, ret, runVars>>

NoModule  == [types |-> <<>>]
NoExtern  == [kind |-> "none", addr |-> 0]
ExternVal == [kind : Kind, addr : Nat]
Zero      == [func |-> 0, table |-> 0, mem |-> 0, global |-> 0]

EmptyInstance ==
  [exports |-> <<>>,
   addrs   |-> [func |-> <<>>, table |-> <<>>, mem |-> <<>>, global |-> <<>>],
   elems   |-> <<>>,
   datas   |-> <<>>]

Size(kind) == CASE kind = "func"   -> Len(funcs)
                [] kind = "table"  -> Len(tables)
                [] kind = "mem"    -> Len(mems)
                [] kind = "global" -> Len(globals)
                [] OTHER           -> 0

Sizes == [func |-> Len(funcs), table |-> Len(tables),
          mem |-> Len(mems), global |-> Len(globals)]

\* inst with one more address of a kind.
WithAddr(in, kind, addr) ==
  [in EXCEPT !.addrs[kind] = Append(@, addr)]

\* inst with one more address, exported under a name (host modules).
WithExport(in, name, kind, addr) ==
  [WithAddr(in, kind, addr) EXCEPT
     !.exports = Append(@, [name |-> name, ev |-> [kind |-> kind, addr |-> addr]])]

Init ==
  /\ funcs = <<>> /\ tables = <<>> /\ mems = <<>> /\ globals = <<>>
  /\ instances = <<>> /\ code = <<>>
  /\ phase = "idle" /\ mod = NoModule /\ inst = EmptyInstance
  /\ base = Zero /\ k = 0 /\ ret = "none"
  /\ frames = <<>> /\ held = {} /\ ops = 0

-----------------------------------------------------------------------------
(* Ends of a call.                                                         *)

\* Mutant of Finish: the machine outlives the call.
FinishKeepsMachine(r) ==
  /\ phase' = "idle" /\ ret' = r
  /\ mod' = NoModule /\ inst' = EmptyInstance /\ base' = Zero /\ k' = 0
  /\ UNCHANGED <<frames, held>>

\* The call is over: its working state is gone, its outcome is r.
Finish(r) ==
  /\ phase' = "idle" /\ ret' = r
  /\ mod' = NoModule /\ inst' = EmptyInstance /\ base' = Zero /\ k' = 0
  /\ frames' = <<>> /\ held' = {}

\* Mutant of Truncate: one pool is forgotten.
TruncateNotGlobals ==
  /\ funcs'   = SubSeq(funcs, 1, base.func)
  /\ tables'  = SubSeq(tables, 1, base.table)
  /\ mems'    = SubSeq(mems, 1, base.mem)
  /\ UNCHANGED <<globals, instances, code>>

\* rollback: drop every entry this call pushed.
Truncate ==
  /\ funcs'   = SubSeq(funcs, 1, base.func)
  /\ tables'  = SubSeq(tables, 1, base.table)
  /\ mems'    = SubSeq(mems, 1, base.mem)
  /\ globals' = SubSeq(globals, 1, base.global)
  /\ UNCHANGED <<instances, code>>

Rollback == Truncate /\ Finish("link") /\ UNCHANGED ops

Publish(in) ==
  /\ instances' = Append(instances, in)
  /\ code' = Append(code, mod)

-----------------------------------------------------------------------------
(* add_host_module.                                                        *)

AddHostModule ==
  /\ phase = "idle" /\ Len(instances) < MaxInstances
  /\ \E h \in HostModules :
       /\ mod' = h
       /\ funcs' = funcs \o [i \in DOMAIN h.funcs |-> [ty |-> h.funcs[i].ty, inst |-> 0]]
       /\ inst' = [EmptyInstance EXCEPT
            !.addrs.func = [i \in DOMAIN h.funcs |-> Len(funcs) + i],
            !.exports = [i \in DOMAIN h.funcs |->
                           [name |-> h.funcs[i].name,
                            ev |-> [kind |-> "func", addr |-> Len(funcs) + i]]]]
  /\ base' = Sizes
  /\ phase' = "host" /\ k' = 1 /\ ret' = "none"
  /\ UNCHANGED <<tables, mems, globals, instances, code, runVars>>

\* Mutant of HostValueOk: a forged reference passes.
HostValueTypeOk(g) == g.val.ty = g.ty.val

HostValueOk(g) ==
  /\ g.val.ty = g.ty.val
  /\ g.val.ty = "funcref" => g.val.bits \in 0..Len(funcs)

HostGlobal ==
  /\ phase = "host" /\ k \in DOMAIN mod.globals
  /\ LET g == mod.globals[k] IN
     \/ /\ HostValueOk(g)
        /\ globals' = Append(globals, [ty |-> g.ty, val |-> g.val])
        /\ inst' = WithExport(inst, g.name, "global", Len(globals) + 1)
        /\ k' = k + 1
        /\ UNCHANGED <<funcs, tables, mems, instances, code, phase, mod, base, ret, runVars>>
     \/ ~ HostValueOk(g) /\ Rollback

\* A table of t.limits.min null elements; the allocation may fail.
NewTable(t) ==
  [ty |-> t, elems |-> [i \in 1..t.limits.min |-> NullOf(t.elem)]]

HostTable ==
  LET i == k - Len(mod.globals) IN
  /\ phase = "host" /\ i \in DOMAIN mod.tables
  /\ LET t == mod.tables[i].ty IN
     \/ /\ TableTypeOk(t) /\ t.limits.min <= TABLE_IMPL_LIMIT
        /\ tables' = Append(tables, NewTable(t))
        /\ inst' = WithExport(inst, mod.tables[i].name, "table", Len(tables) + 1)
        /\ k' = k + 1
        /\ UNCHANGED <<funcs, mems, globals, instances, code, phase, mod, base, ret, runVars>>
     \/ Rollback

HostMem ==
  LET i == k - Len(mod.globals) - Len(mod.tables) IN
  /\ phase = "host" /\ i \in DOMAIN mod.mems
  /\ LET t == mod.mems[i].ty IN
     \/ /\ LimitsOk(t.limits, MAX_PAGES)
        /\ mems' = Append(mems, [ty |-> t, pages |-> t.limits.min])
        /\ inst' = WithExport(inst, mod.mems[i].name, "mem", Len(mems) + 1)
        /\ k' = k + 1
        /\ UNCHANGED <<funcs, tables, globals, instances, code, phase, mod, base, ret, runVars>>
     \/ Rollback

PublishHost ==
  /\ phase = "host"
  /\ k = Len(mod.globals) + Len(mod.tables) + Len(mod.mems) + 1
  /\ Publish(inst)
  /\ Finish("ok")
  /\ UNCHANGED <<funcs, tables, mems, globals, ops>>

-----------------------------------------------------------------------------
(* instantiate, up to the publication of the instance.                     *)

\* The embedder validates a module before it instantiates it.
Instantiate ==
  /\ phase = "idle" /\ Len(instances) < MaxInstances
  /\ \E m \in Modules : ValidModule(m) /\ mod' = m
  /\ phase' = "import" /\ k' = 1 /\ ret' = "none"
  /\ UNCHANGED <<storeVars, inst, base, runVars>>

InBounds(ev) == ev.addr \in 1..Size(ev.kind)

\* The entity at ev has the type the import wants: functions and globals
\* exactly, tables and memories with their current size as the minimum.
ImportMatches(imp, ev) ==
  /\ imp.kind = ev.kind
  /\ \/ ev.kind = "func" /\ funcs[ev.addr].ty = mod.types[imp.idx]
     \/ /\ ev.kind = "table"
        /\ tables[ev.addr].ty.elem = imp.ty.elem
        /\ LimitsMatch([min |-> Len(tables[ev.addr].elems),
                        max |-> tables[ev.addr].ty.limits.max], imp.ty.limits)
     \/ /\ ev.kind = "mem"
        /\ LimitsMatch([min |-> mems[ev.addr].pages,
                        max |-> mems[ev.addr].ty.limits.max], imp.ty.limits)
     \/ ev.kind = "global" /\ globals[ev.addr].ty = imp.ty

\* The resolver is an untrusted callback: it answers anything.
ResolverAnswers == {NoExtern} \union [kind : Kind, addr : 1..MaxAddr]

ResolveImport ==
  /\ phase = "import" /\ k \in DOMAIN mod.imports
  /\ \E ev \in ResolverAnswers :
       LET accepted == InBounds(ev) /\ ImportMatches(mod.imports[k], ev) IN
       \/ /\ accepted
          /\ inst' = WithAddr(inst, ev.kind, ev.addr)
          /\ k' = k + 1
          /\ UNCHANGED <<phase, mod, base, ret, frames, held>>
       \/ ~ accepted /\ Finish("link")
  /\ UNCHANGED <<storeVars, ops>>

\* Mutant of AllocFuncs: the functions name the instance before theirs.
AllocFuncsOffByOne ==
  /\ phase = "import" /\ k = Len(mod.imports) + 1
  /\ \A i \in DOMAIN mod.funcs : mod.funcs[i] \in DOMAIN mod.types
  /\ base' = Sizes
  /\ funcs' = funcs \o [i \in DOMAIN mod.funcs |->
                [ty |-> mod.types[mod.funcs[i]], inst |-> Len(instances)]]
  /\ inst' = [inst EXCEPT !.addrs.func =
                @ \o [i \in DOMAIN mod.funcs |-> Len(funcs) + i]]
  /\ phase' = "alloc" /\ k' = 1
  /\ UNCHANGED <<tables, mems, globals, instances, code, mod, ret, runVars>>

\* The functions name the id this instance will be published under.
AllocFuncs ==
  /\ phase = "import" /\ k = Len(mod.imports) + 1
  /\ \A i \in DOMAIN mod.funcs : mod.funcs[i] \in DOMAIN mod.types
  /\ base' = Sizes
  /\ funcs' = funcs \o [i \in DOMAIN mod.funcs |->
                [ty |-> mod.types[mod.funcs[i]], inst |-> Len(instances) + 1]]
  /\ inst' = [inst EXCEPT !.addrs.func =
                @ \o [i \in DOMAIN mod.funcs |-> Len(funcs) + i]]
  /\ phase' = "alloc" /\ k' = 1
  /\ UNCHANGED <<tables, mems, globals, instances, code, mod, ret, runVars>>

\* eval_const pops a value and indexes the instance's address vectors.
Evaluable(in, e) ==
  LET c == e[1] IN
  /\ e # <<>>
  /\ c.op = "ref.func" => c.idx \in DOMAIN in.addrs.func
  /\ c.op = "global.get" => c.idx \in DOMAIN in.addrs.global

EvalConst(in, e) ==
  LET c == e[1] IN
  CASE c.op = "i32.const"  -> I32(c.val)
    [] c.op = "ref.null"   -> NullOf(c.ty)
    [] c.op = "ref.func"   -> FuncRef(in.addrs.func[c.idx])
    [] c.op = "global.get" -> globals[in.addrs.global[c.idx]].val

\* Mutant of AllocGlobal: the instance does not learn the address.
AllocGlobalForgets ==
  /\ phase = "alloc" /\ k \in DOMAIN mod.globals
  /\ LET g == mod.globals[k] IN
     /\ Evaluable(inst, g.init)
     /\ globals' = Append(globals, [ty |-> g.ty, val |-> EvalConst(inst, g.init)])
  /\ k' = k + 1
  /\ UNCHANGED <<funcs, tables, mems, instances, code, phase, mod, inst, base, ret, runVars>>

AllocGlobal ==
  /\ phase = "alloc" /\ k \in DOMAIN mod.globals
  /\ LET g == mod.globals[k] IN
     /\ Evaluable(inst, g.init)
     /\ globals' = Append(globals, [ty |-> g.ty, val |-> EvalConst(inst, g.init)])
     /\ inst' = WithAddr(inst, "global", Len(globals) + 1)
  /\ k' = k + 1
  /\ UNCHANGED <<funcs, tables, mems, instances, code, phase, mod, base, ret, runVars>>

AllocTable ==
  LET i == k - Len(mod.globals) IN
  /\ phase = "alloc" /\ i \in DOMAIN mod.tables
  /\ \/ /\ mod.tables[i].limits.min <= TABLE_IMPL_LIMIT
        /\ tables' = Append(tables, NewTable(mod.tables[i]))
        /\ inst' = WithAddr(inst, "table", Len(tables) + 1)
        /\ k' = k + 1
        /\ UNCHANGED <<funcs, mems, globals, instances, code, phase, mod, base, ret, runVars>>
     \/ Rollback

AllocMem ==
  LET i == k - Len(mod.globals) - Len(mod.tables) IN
  /\ phase = "alloc" /\ i \in DOMAIN mod.mems
  /\ \/ /\ mems' = Append(mems, [ty |-> mod.mems[i], pages |-> mod.mems[i].limits.min])
        /\ inst' = WithAddr(inst, "mem", Len(mems) + 1)
        /\ k' = k + 1
        /\ UNCHANGED <<funcs, tables, globals, instances, code, phase, mod, base, ret, runVars>>
     \/ Rollback

\* Segment instances and exports, then the instance becomes visible.
PublishInstance ==
  /\ phase = "alloc"
  /\ k = Len(mod.globals) + Len(mod.tables) + Len(mod.mems) + 1
  /\ \A i \in DOMAIN mod.elems : \A j \in DOMAIN mod.elems[i].init :
       Evaluable(inst, mod.elems[i].init[j])
  /\ \A i \in DOMAIN mod.exports :
       mod.exports[i].idx \in DOMAIN inst.addrs[mod.exports[i].kind]
  /\ Publish([
       exports |-> [i \in DOMAIN mod.exports |->
          LET x == mod.exports[i] IN
          [name |-> x.name,
           ev |-> [kind |-> x.kind, addr |-> inst.addrs[x.kind][x.idx]]]],
       addrs |-> inst.addrs,
       elems |-> [i \in DOMAIN mod.elems |->
                    [j \in DOMAIN mod.elems[i].init |->
                       EvalConst(inst, mod.elems[i].init[j])]],
       datas |-> [i \in DOMAIN mod.datas |-> mod.datas[i].len]])
  /\ phase' = "segments" /\ k' = 1
  /\ inst' = EmptyInstance /\ base' = Zero
  /\ UNCHANGED <<funcs, tables, mems, globals, mod, ret, runVars>>

-----------------------------------------------------------------------------
(* instantiate, after the publication: nothing is rolled back any more.    *)

\* Mutant of CopyInto: the first position is left out.
CopyIntoOffByOne(dst, d, src) ==
  [i \in DOMAIN dst |->
     IF i > d + 1 /\ i <= d + Len(src) THEN src[i - d] ELSE dst[i]]

\* dst with src written over it from (0-based) position d on.
CopyInto(dst, d, src) ==
  [i \in DOMAIN dst |->
     IF i > d /\ i <= d + Len(src) THEN src[i - d] ELSE dst[i]]

\* Mutant of Trapped: the element segment is dropped before it is checked.
TrappedDrops ==
  /\ Finish("trap")
  /\ instances' = IF phase = "segments" /\ k \in DOMAIN mod.elems
                  THEN [instances EXCEPT ![Len(instances)].elems[k] = <<>>] ELSE instances
  /\ UNCHANGED <<funcs, tables, mems, globals, code, ops>>

Trapped == Finish("trap") /\ UNCHANGED <<storeVars, ops>>

NextSegment ==
  k' = k + 1 /\ UNCHANGED <<phase, mod, inst, base, ret, runVars>>

ApplyElem ==
  /\ phase = "segments" /\ k \in DOMAIN mod.elems
  /\ LET id  == Len(instances)
         e   == mod.elems[k]
         seg == instances[id].elems[k]
         cleared == [instances EXCEPT ![id].elems[k] = <<>>]
     IN
     \/ /\ e.mode = "passive"
        /\ NextSegment /\ UNCHANGED storeVars
     \/ /\ e.mode = "declarative"
        /\ instances' = cleared
        /\ NextSegment /\ UNCHANGED <<funcs, tables, mems, globals, code>>
     \/ /\ e.mode = "active"
        /\ e.table \in DOMAIN instances[id].addrs.table
        /\ Evaluable(instances[id], e.offset)
        /\ LET a   == instances[id].addrs.table[e.table]
               off == EvalConst(instances[id], e.offset).bits
           IN
           \/ /\ off + Len(seg) <= Len(tables[a].elems)
              /\ tables' = [tables EXCEPT ![a].elems = CopyInto(@, off, seg)]
              /\ instances' = cleared
              /\ NextSegment /\ UNCHANGED <<funcs, mems, globals, code>>
           \/ off + Len(seg) > Len(tables[a].elems) /\ Trapped

ApplyData ==
  LET i == k - Len(mod.elems) IN
  /\ phase = "segments" /\ i \in DOMAIN mod.datas
  /\ LET id == Len(instances)
         d  == mod.datas[i]
     IN
     \/ /\ d.mode = "passive"
        /\ NextSegment /\ UNCHANGED storeVars
     \/ /\ d.mode = "active"
        /\ d.mem \in DOMAIN instances[id].addrs.mem
        /\ Evaluable(instances[id], d.offset)
        /\ LET a   == instances[id].addrs.mem[d.mem]
               off == EvalConst(instances[id], d.offset).bits
           IN
           \/ /\ off + d.len <= mems[a].pages * PAGE_SIZE
              /\ instances' = [instances EXCEPT ![id].datas[i] = 0]
              /\ NextSegment /\ UNCHANGED <<funcs, tables, mems, globals, code>>
           \/ off + d.len > mems[a].pages * PAGE_SIZE /\ Trapped

\* Host results are untrusted: arity, types, and no forged reference.
HostResultsOk(want, got) ==
  /\ Len(got) = Len(want)
  /\ \A i \in DOMAIN got :
       /\ got[i].ty = want[i]
       /\ got[i].ty = "funcref" => got[i].bits \in 0..Len(funcs)

\* Value vectors that cross the embedder's boundary.
EmbedderVectors == {<<>>} \union {<<v>> : v \in EmbedderValues}

RefsIn(vs) == {vs[i] : i \in {j \in DOMAIN vs : vs[j].ty \in RefType}}

\* exec::invoke at the top level: a host function runs to its end, a Wasm
\* function gets a machine of its own.
Enter(a, args) ==
  \/ /\ funcs[a].inst = 0
     /\ \/ /\ \E r \in EmbedderVectors : HostResultsOk(funcs[a].ty.results, r)
           /\ Finish("ok")
        \/ Finish("trap")
     /\ UNCHANGED <<storeVars, ops>>
  \/ /\ funcs[a].inst # 0
     /\ phase' = "run" /\ frames' = <<funcs[a].inst>> /\ held' = RefsIn(args)
     /\ ret' = "none" /\ mod' = NoModule /\ k' = 0
     /\ UNCHANGED <<storeVars, inst, base, ops>>

\* Mutant of RunStart: a module without a start function is never finished.
RunStartOnly ==
  /\ phase = "segments"
  /\ k = Len(mod.elems) + Len(mod.datas) + 1
  /\ \/ mod.start = 0 /\ UNCHANGED vars
     \/ /\ mod.start # 0
        /\ mod.start \in DOMAIN instances[Len(instances)].addrs.func
        /\ Enter(instances[Len(instances)].addrs.func[mod.start], <<>>)

RunStart ==
  /\ phase = "segments"
  /\ k = Len(mod.elems) + Len(mod.datas) + 1
  /\ \/ mod.start = 0 /\ Finish("ok") /\ UNCHANGED <<storeVars, ops>>
     \/ /\ mod.start # 0
        /\ mod.start \in DOMAIN instances[Len(instances)].addrs.func
        /\ Enter(instances[Len(instances)].addrs.func[mod.start], <<>>)

-----------------------------------------------------------------------------
(* invoke_export.                                                          *)

ArgsOk(ty, args) ==
  /\ Len(args) = Len(ty.params)
  /\ \A i \in DOMAIN args :
       /\ args[i].ty = ty.params[i]
       /\ args[i].ty = "funcref" => args[i].bits \in 0..Len(funcs)

InvokeExport ==
  /\ phase = "idle"
  /\ \E i \in DOMAIN instances : \E x \in DOMAIN instances[i].exports :
       LET ev == instances[i].exports[x].ev IN
       \E args \in EmbedderVectors :
         LET accepted == ev.kind = "func" /\ ArgsOk(funcs[ev.addr].ty, args) IN
         \/ accepted /\ Enter(ev.addr, args)
         \/ ~ accepted /\ Finish("refused") /\ UNCHANGED <<storeVars, ops>>

-----------------------------------------------------------------------------
(* The instructions that change the store, in the frame on top.  A failed  *)
(* bounds check, an exhausted call stack, a refused host result and        *)
(* `unreachable` all end the same way: Trap.                               *)

Top     == instances[frames[Len(frames)]]   \* the instance the code runs in
TopCode == code[frames[Len(frames)]]        \* the module it was validated in

Running  == phase = "run" /\ ops < MaxOps
Executed == ops' = ops + 1 /\ UNCHANGED <<phase, callVars, ret>>

\* What an instruction may find on the stack for an operand of type t.
Operand(t) ==
  {v \in {I32(n) : n \in Words} \union {NullOf(r) : r \in RefType} \union held : v.ty = t}

\* A value pushed on the stack.
Push(v) == held' = IF v.ty \in RefType THEN held \union {v} ELSE held

RefFunc ==
  /\ Running
  /\ \E i \in TopCode.refs \intersect DOMAIN Top.addrs.func :
       Push(FuncRef(Top.addrs.func[i]))
  /\ Executed /\ UNCHANGED <<storeVars, frames>>

GlobalGet ==
  /\ Running
  /\ \E i \in DOMAIN Top.addrs.global : Push(globals[Top.addrs.global[i]].val)
  /\ Executed /\ UNCHANGED <<storeVars, frames>>

\* Validation admits global.set of a mutable global only.
GlobalSet ==
  /\ Running
  /\ \E i \in DOMAIN Top.addrs.global :
       LET ty == GlobalSpace(TopCode)[i] IN
       /\ ty.mutable
       /\ \E v \in Operand(ty.val) :
            globals' = [globals EXCEPT ![Top.addrs.global[i]].val = v]
  /\ Executed /\ UNCHANGED <<funcs, tables, mems, instances, code, frames, held>>

TableGet ==
  /\ Running
  /\ \E t \in DOMAIN Top.addrs.table : \E n \in Words :
       LET elems == tables[Top.addrs.table[t]].elems IN
       n < Len(elems) /\ Push(elems[n + 1])
  /\ Executed /\ UNCHANGED <<storeVars, frames>>

SetElems(a, elems) == tables' = [tables EXCEPT ![a].elems = elems]

TableOp == Executed /\ UNCHANGED <<funcs, mems, globals, instances, code, frames, held>>

\* table.fill; table.set is a fill of one element.
TableFill ==
  /\ Running
  /\ \E t \in DOMAIN Top.addrs.table : \E i, n \in Words :
     \E v \in Operand(TableSpace(TopCode)[t].elem) :
       LET a == Top.addrs.table[t] IN
       /\ i + n <= Len(tables[a].elems)
       /\ SetElems(a, CopyInto(tables[a].elems, i, [j \in 1..n |-> v]))
  /\ TableOp

TableInit ==
  /\ Running
  /\ \E t \in DOMAIN Top.addrs.table : \E e \in DOMAIN Top.elems :
     \E d, s, n \in Words :
       LET a   == Top.addrs.table[t]
           seg == Top.elems[e]
       IN
       /\ TopCode.elems[e].ty = TableSpace(TopCode)[t].elem
       /\ s + n <= Len(seg) /\ d + n <= Len(tables[a].elems)
       /\ SetElems(a, CopyInto(tables[a].elems, d, SubSeq(seg, s + 1, s + n)))
  /\ TableOp

\* Mutant of TableCopy: the element types need not agree.
TableCopyUntyped ==
  /\ Running
  /\ \E td, ts \in DOMAIN Top.addrs.table : \E d, s, n \in Words :
       LET da == Top.addrs.table[td]
           sa == Top.addrs.table[ts]
       IN
       /\ s + n <= Len(tables[sa].elems) /\ d + n <= Len(tables[da].elems)
       /\ SetElems(da, CopyInto(tables[da].elems, d,
                                SubSeq(tables[sa].elems, s + 1, s + n)))
  /\ TableOp

TableCopy ==
  /\ Running
  /\ \E td, ts \in DOMAIN Top.addrs.table : \E d, s, n \in Words :
       LET da == Top.addrs.table[td]
           sa == Top.addrs.table[ts]
       IN
       /\ TableSpace(TopCode)[td].elem = TableSpace(TopCode)[ts].elem
       /\ s + n <= Len(tables[sa].elems) /\ d + n <= Len(tables[da].elems)
       /\ SetElems(da, CopyInto(tables[da].elems, d,
                                SubSeq(tables[sa].elems, s + 1, s + n)))
  /\ TableOp

\* Growth past the declared maximum or the implementation limit pushes -1
\* and changes nothing.
TableGrow ==
  /\ Running
  /\ \E t \in DOMAIN Top.addrs.table : \E n \in Words :
     \E v \in Operand(TableSpace(TopCode)[t].elem) :
       LET a   == Top.addrs.table[t]
           max == tables[a].ty.limits.max
           new == Len(tables[a].elems) + n
       IN
       /\ max # NoMax => new <= max
       /\ new <= TABLE_IMPL_LIMIT
       /\ SetElems(a, tables[a].elems \o [j \in 1..n |-> v])
  /\ TableOp

MemoryGrow ==
  /\ Running
  /\ \E m \in DOMAIN Top.addrs.mem : \E n \in Words :
       LET a   == Top.addrs.mem[m]
           max == mems[a].ty.limits.max
           new == mems[a].pages + n
       IN
       /\ new <= MAX_PAGES /\ (max # NoMax => new <= max)
       /\ mems' = [mems EXCEPT ![a].pages = new]
  /\ Executed /\ UNCHANGED <<funcs, tables, globals, instances, code, frames, held>>

\* elem.drop and data.drop.
DropSegment ==
  /\ Running
  /\ LET c == frames[Len(frames)] IN
     \/ \E e \in DOMAIN Top.elems :
          instances' = [instances EXCEPT ![c].elems[e] = <<>>]
     \/ \E d \in DOMAIN Top.datas :
          instances' = [instances EXCEPT ![c].datas[d] = 0]
  /\ Executed /\ UNCHANGED <<funcs, tables, mems, globals, code, frames, held>>

\* Machine::call: the frame of a Wasm function runs in the instance that
\* function belongs to; a host function leaves its results on the stack.
CallAddr(a) ==
  \/ /\ funcs[a].inst # 0 /\ Len(frames) < MAX_CALL_DEPTH
     /\ frames' = Append(frames, funcs[a].inst)
     /\ UNCHANGED held
  \/ /\ funcs[a].inst = 0
     /\ \E r \in EmbedderVectors :
          HostResultsOk(funcs[a].ty.results, r) /\ held' = held \union RefsIn(r)
     /\ UNCHANGED frames

Call ==
  /\ Running
  /\ \E i \in DOMAIN Top.addrs.func : CallAddr(Top.addrs.func[i])
  /\ Executed /\ UNCHANGED storeVars

CallIndirect ==
  /\ Running
  /\ \E t \in DOMAIN Top.addrs.table : \E i \in Words : \E ty \in DOMAIN TopCode.types :
       LET elems == tables[Top.addrs.table[t]].elems IN
       /\ TableSpace(TopCode)[t].elem = "funcref"
       /\ i < Len(elems)
       /\ elems[i + 1].ty = "funcref" /\ elems[i + 1].bits # 0
       /\ funcs[elems[i + 1].bits].ty = TopCode.types[ty]
       /\ CallAddr(elems[i + 1].bits)
  /\ Executed /\ UNCHANGED storeVars

Return ==
  /\ phase = "run"
  /\ \/ Len(frames) = 1 /\ Finish("ok")
     \/ /\ Len(frames) > 1
        /\ frames' = SubSeq(frames, 1, Len(frames) - 1)
        /\ UNCHANGED <<phase, callVars, ret, held>>
  /\ UNCHANGED <<storeVars, ops>>

Trap == phase = "run" /\ Trapped

-----------------------------------------------------------------------------
\* Every step of a call that is not an instruction of some function.
Advance ==
  \/ HostGlobal \/ HostTable \/ HostMem \/ PublishHost
  \/ ResolveImport \/ AllocFuncs \/ AllocGlobal \/ AllocTable \/ AllocMem
  \/ PublishInstance \/ ApplyElem \/ ApplyData \/ RunStart

Instruction ==
  \/ RefFunc \/ GlobalGet \/ GlobalSet
  \/ TableGet \/ TableFill \/ TableInit \/ TableCopy \/ TableGrow
  \/ MemoryGrow \/ DropSegment \/ Call \/ CallIndirect \/ Return \/ Trap

Next ==
  \/ AddHostModule \/ Instantiate \/ InvokeExport
  \/ Advance
  \/ Instruction

Spec     == Init /\ [][Next]_vars
FairSpec == Spec /\ WF_vars(Advance)
=============================================================================
