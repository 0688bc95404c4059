----------------------------- MODULE StoreProps -----------------------------
(***************************************************************************)
(* The properties of the store.                                            *)
(***************************************************************************)
EXTENDS Store, SequencesExt

IsHost(m) == "imports" \notin DOMAIN m

-----------------------------------------------------------------------------
InstanceType ==
  [exports : Seq([name : STRING, ev : ExternVal]),
   addrs   : [func : Seq(Nat), table : Seq(Nat), mem : Seq(Nat), global : Seq(Nat)],
   elems   : Seq(Seq(Value)),
   datas   : Seq(Nat)]

\* The variables hold values of their types, and there is a machine exactly
\* while code runs.
TypeOK ==
  /\ funcs \in Seq([ty : FuncType, inst : Nat])
  /\ tables \in Seq([ty : TableType, elems : Seq(Value)])
  /\ mems \in Seq([ty : MemType, pages : Nat])
  /\ globals \in Seq([ty : GlobalType, val : Value])
  /\ instances \in Seq(InstanceType)
  /\ inst \in InstanceType
  /\ Len(code) = Len(instances)
  /\ mod \in Modules \union HostModules \union {NoModule}
  /\ phase \in {"idle", "host", "import", "alloc", "segments", "run"}
  /\ ret \in {"none", "ok", "link", "trap", "refused"}
  /\ base \in [func : Nat, table : Nat, mem : Nat, global : Nat]
  /\ k \in Nat /\ ops \in Nat
  /\ frames \in Seq(Nat) /\ held \subseteq Value
  /\ (phase = "run") = (frames # <<>>)

\* v is no function reference, or null, or the address of a function.
Resolvable(v) == v.ty = "funcref" => v.bits \in 0..Len(funcs)

\* Every function reference the store or the machine holds, in whatever
\* phase, is null or addresses a function: what call_indirect indexes the
\* store with (exec.rs CallIndirect) is never out of range, though the
\* embedder forges references and failed links truncate `funcs`.
ReferencesResolve ==
  /\ \A a \in DOMAIN globals : Resolvable(globals[a].val)
  /\ \A a \in DOMAIN tables : \A n \in DOMAIN tables[a].elems :
       Resolvable(tables[a].elems[n])
  /\ \A i \in DOMAIN instances : \A e \in DOMAIN instances[i].elems :
       \A n \in DOMAIN instances[i].elems[e] : Resolvable(instances[i].elems[e][n])
  /\ \A v \in held : Resolvable(v)

\* A Wasm function names the instance it runs in by an id chosen before that
\* instance is published (store.rs: "this instance's future id").  The id
\* is the right one: only the functions of the instance being built lack a
\* published owner, every other function is in its owner's address vector,
\* and every frame runs in a published instance.
OwnersPublished ==
  /\ \A a \in DOMAIN funcs :
       LET i == funcs[a].inst IN
       \/ i = 0
       \/ /\ phase = "alloc" /\ i = Len(instances) + 1
          /\ a > base.func /\ a \in ToSet(inst.addrs.func)
       \/ i \in DOMAIN instances /\ a \in ToSet(instances[i].addrs.func)
  /\ \A n \in DOMAIN frames : frames[n] \in DOMAIN instances

\* Stored values have the type their place declares, so the typed pops of
\* validated code never meet a value of another type.
StoreTyped ==
  /\ \A a \in DOMAIN globals : globals[a].val.ty = globals[a].ty.val
  /\ \A a \in DOMAIN tables : \A n \in DOMAIN tables[a].elems :
       tables[a].elems[n].ty = tables[a].ty.elem

\* Between allocations, every entry of the store belongs to a published
\* instance: a failed add_host_module or instantiate leaks nothing, and an
\* instance whose initialization or start function trapped keeps its entries.
NoOrphans ==
  phase \notin {"host", "alloc"} =>
    \A kind \in Kind : \A a \in 1..Size(kind) :
      \E i \in DOMAIN instances : a \in ToSet(instances[i].addrs[kind])

\* Ownership both ways, through every failure: what add_host_module and
\* instantiate publish, roll back or leave behind after a trap (store.rs) has
\* exactly its entries, and each entry an owner whose code can find it.
Owned == OwnersPublished /\ NoOrphans

\* The address vectors of an instance have the shape of the index spaces its
\* code was validated with, so no instruction indexes them out of range.
IndexSpacesAgree ==
  \A i \in DOMAIN instances :
    IsHost(code[i]) \/
    \A kind \in Kind :
      /\ Len(instances[i].addrs[kind]) = SpaceSize(code[i], kind)
      /\ ToSet(instances[i].addrs[kind]) \subseteq 1..Size(kind)

\* While an instance is built its constant expressions and exports only use
\* addresses that are already there: eval_const and the export loop index
\* inst.func_addrs and inst.global_addrs without a check.
LinkIndicesInRange ==
  /\ phase = "alloc" /\ k \in DOMAIN mod.globals =>
       Evaluable(inst, mod.globals[k].init)
  /\ phase = "alloc" /\ k = Len(mod.globals) + Len(mod.tables) + Len(mod.mems) + 1 =>
       /\ \A i \in DOMAIN mod.elems : \A j \in DOMAIN mod.elems[i].init :
            Evaluable(inst, mod.elems[i].init[j])
       /\ \A i \in DOMAIN mod.exports :
            mod.exports[i].idx \in DOMAIN inst.addrs[mod.exports[i].kind]
  /\ phase = "segments" =>
       LET in == instances[Len(instances)] IN
       /\ \A i \in DOMAIN mod.elems : mod.elems[i].mode = "active" =>
            /\ mod.elems[i].table \in DOMAIN in.addrs.table
            /\ Evaluable(in, mod.elems[i].offset)
            /\ EvalConst(in, mod.elems[i].offset).ty = "i32"
       /\ \A i \in DOMAIN mod.datas : mod.datas[i].mode = "active" =>
            /\ mod.datas[i].mem \in DOMAIN in.addrs.mem
            /\ Evaluable(in, mod.datas[i].offset)
            /\ EvalConst(in, mod.datas[i].offset).ty = "i32"
       /\ mod.start # 0 => mod.start \in DOMAIN in.addrs.func

\* Code and constant expressions of a validated module index the vectors of
\* their instance, complete or under construction, without a check (store.rs
\* eval_const, exec.rs): every index is in range.
IndicesInRange == IndexSpacesAgree /\ LinkIndicesInRange

\* An entity of size n and maximum max is one an import of limits want accepts.
Satisfies(n, max, want) ==
  n >= want.min /\ (want.max # NoMax => max # NoMax /\ max <= want.max)

\* What an import was matched against stays true for ever: the entity still
\* has the imported type and a current size the import accepts, however much
\* other instances have grown it since; nothing outgrows its own maximum.
ImportsHold ==
  /\ \A a \in DOMAIN tables :
       LET n == Len(tables[a].elems) IN
       n <= TABLE_IMPL_LIMIT /\ (tables[a].ty.limits.max # NoMax => n <= tables[a].ty.limits.max)
  /\ \A a \in DOMAIN mems :
       LET n == mems[a].pages IN
       n <= MAX_PAGES /\ (mems[a].ty.limits.max # NoMax => n <= mems[a].ty.limits.max)
  /\ \A i \in DOMAIN instances : IsHost(code[i]) \/
       LET addrs == instances[i].addrs
           Wants(kind) == ImportsOf(code[i], kind)
       IN
       /\ \A n \in DOMAIN Wants("func") :
            funcs[addrs.func[n]].ty = code[i].types[Wants("func")[n].idx]
       /\ \A n \in DOMAIN Wants("global") :
            globals[addrs.global[n]].ty = Wants("global")[n].ty
       /\ \A n \in DOMAIN Wants("table") :
            LET t == tables[addrs.table[n]] IN
            /\ t.ty.elem = Wants("table")[n].ty.elem
            /\ Satisfies(Len(t.elems), t.ty.limits.max, Wants("table")[n].ty.limits)
       /\ \A n \in DOMAIN Wants("mem") :
            LET m == mems[addrs.mem[n]] IN
            Satisfies(m.pages, m.ty.limits.max, Wants("mem")[n].ty.limits)

\* Segment initialization runs in order: with k segments looked at, exactly
\* the active and declarative ones among them are dropped, and each element
\* an active one wrote is in its table unless a later one overwrote it.
AppliedInOrder ==
  phase = "segments" =>
    LET in == instances[Len(instances)]
        Active(i) == mod.elems[i].mode = "active"
        At(i, n) ==
          <<in.addrs.table[mod.elems[i].table], EvalConst(in, mod.elems[i].offset).bits + n>>
    IN
    /\ \A i \in DOMAIN mod.elems :
         Len(in.elems[i]) = IF i < k /\ mod.elems[i].mode # "passive"
                            THEN 0 ELSE Len(mod.elems[i].init)
    /\ \A i \in DOMAIN mod.datas :
         in.datas[i] = IF i + Len(mod.elems) < k /\ mod.datas[i].mode = "active"
                       THEN 0 ELSE mod.datas[i].len
    /\ \A i \in DOMAIN mod.elems : \A n \in DOMAIN mod.elems[i].init :
         \/ i >= k \/ ~ Active(i)
         \/ \E j \in i + 1 .. Len(mod.elems) :
              j < k /\ Active(j) /\ \E o \in DOMAIN mod.elems[j].init : At(j, o) = At(i, n)
         \/ tables[At(i, n)[1]].elems[At(i, n)[2]] = EvalConst(in, mod.elems[i].init[n])

\* A segment or a start function that traps ends linking and takes nothing
\* back (store.rs, "partial effects on earlier segments persist on trap"):
\* neither what the segments before it wrote, see AppliedInOrder, nor the
\* instance; and it writes and drops nothing itself, however much of it fits.
PartialEffectsPersist ==
  [][phase = "segments" /\ phase' = "idle" /\ ret' = "trap" => UNCHANGED storeVars]_vars

\* The segments of an instance are applied in order, and a failure in the
\* middle leaves just those before it applied (store.rs:376-424).
SegmentsInOrder == []AppliedInOrder /\ PartialEffectsPersist

-----------------------------------------------------------------------------
\* The entries below the rollback marks are the store the embedder knows.
Building == phase \in {"host", "alloc"}

Abs == INSTANCE StoreAbs WITH
  funcs   <- IF Building THEN SubSeq(funcs, 1, base.func) ELSE funcs,
  tables  <- IF Building THEN SubSeq(tables, 1, base.table) ELSE tables,
  mems    <- IF Building THEN SubSeq(mems, 1, base.mem) ELSE mems,
  globals <- IF Building THEN SubSeq(globals, 1, base.global) ELSE globals

\* The store keeps StoreAbs' promise: additions are atomic, what is added
\* stays, and running code only changes contents (store.rs comments on
\* add_host_module, "Atomic", and on rollback in instantiate).
KeepsPromise == Abs!Spec

\* A call that links modules ends, or reaches a function's code: no step of
\* it can get stuck on an index or repeat for ever.
LinkEnds == phase \notin {"idle", "run"} ~> phase \in {"idle", "run"}
=============================================================================
