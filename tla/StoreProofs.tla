---------------------------- MODULE StoreProofs -----------------------------
(***************************************************************************)
(* The store, for every set of modules and hosts and value of the bounds:  *)
(* its type correctness and the integrity of its references; then linking  *)
(* is sound for good: what validation and import matching found about a    *)
(* module holds of the store it runs in; and what the store promises those *)
(* who share it: additions are atomic, whatever fails leaves no trace.     *)
(***************************************************************************)
EXTENDS StoreProps, SequenceTheorems, WellFoundedInduction, TLAPS

-----------------------------------------------------------------------------
(* The inductive invariant.  Its types carry the sizes they depend on: a   *)
(* reference value is one that n functions resolve, an instance one whose  *)
(* addresses lie in pools of sizes z.                                      *)

RefValue(n)   == {v \in Value : v.ty = "funcref" => v.bits \in 0..n}
FuncInst(n)   == [ty : FuncType, inst : 0..n]
TableInst(n)  == [ty : TableType, elems : Seq(RefValue(n))]
GlobalInst(n) == [ty : GlobalType, val : RefValue(n)]
MemInst       == [ty : MemType, pages : Nat]

SizeType == [func : Nat, table : Nat, mem : Nat, global : Nat]

Leq(y, z) == /\ y.func <= z.func /\ y.table <= z.table
             /\ y.mem <= z.mem /\ y.global <= z.global

Extern(z) == {x \in ExternVal : x.addr \in 1..z[x.kind]}
Addrs(z)  == [func : Seq(1..z.func), table : Seq(1..z.table),
              mem : Seq(1..z.mem), global : Seq(1..z.global)]
Inst(z)   == [exports : Seq([name : STRING, ev : Extern(z)]), addrs : Addrs(z),
              elems : Seq(Seq(RefValue(z.func))), datas : Seq(Nat)]

\* The sizes published instances may rely on.
Known == IF Building THEN base ELSE Sizes

\* The ids functions may name: the instance being built has one already.
Owners == IF phase = "alloc" THEN Len(instances) + 1 ELSE Len(instances)

PoolsInv ==
  /\ funcs \in Seq(FuncInst(Owners))
  /\ tables \in Seq(TableInst(Len(funcs)))
  /\ mems \in Seq(MemInst)
  /\ globals \in Seq(GlobalInst(Len(funcs)))

\* What a rollback leaves refers to nothing the rollback drops.
MarksInv ==
  /\ base \in SizeType
  /\ Building =>
       /\ Leq(base, Sizes)
       /\ \A a \in 1..base.func   : funcs[a] \in FuncInst(Len(instances))
       /\ \A a \in 1..base.table  : tables[a] \in TableInst(base.func)
       /\ \A a \in 1..base.global : globals[a] \in GlobalInst(base.func)

InstancesInv ==
  /\ inst \in Inst(Sizes)
  /\ instances \in Seq(Inst(Known))
  /\ code \in Seq(Modules \union HostModules) /\ Len(code) = Len(instances)

MachineInv ==
  /\ held \subseteq RefValue(Len(funcs))
  /\ frames \in Seq(1..Len(instances))
  /\ phase # "run" => frames = <<>> /\ held = {}
  /\ phase = "run" => frames # <<>>

CallInv ==
  /\ phase \in {"idle", "host", "import", "alloc", "segments", "run"}
  /\ ret \in {"none", "ok", "link", "trap", "refused"}
  /\ phase \in {"idle", "run"} => mod = NoModule
  /\ phase = "host" => mod \in HostModules
  /\ phase \in {"import", "alloc", "segments"} => mod \in Modules
  /\ phase = "segments" =>
       /\ instances # <<>>
       /\ DOMAIN instances[Len(instances)].elems = DOMAIN mod.elems
       /\ DOMAIN instances[Len(instances)].datas = DOMAIN mod.datas
  /\ k \in Nat /\ ops \in Nat

IInv == PoolsInv /\ MarksInv /\ InstancesInv /\ MachineInv /\ CallInv

-----------------------------------------------------------------------------
(* Facts about the types and the operators on them.                        *)

\* Sequences over a smaller set are sequences over a larger one.
LEMMA SeqMono ==
  ASSUME NEW S, NEW T, S \subseteq T
  PROVE  Seq(S) \subseteq Seq(T)
BY SeqMonotonic

\* A function on 1..n is a sequence of length n.
LEMMA FunSeq ==
  ASSUME NEW S, NEW n \in Nat, NEW f \in [1..n -> S]
  PROVE  f \in Seq(S) /\ Len(f) = n /\ DOMAIN f = 1..n
<1>1. f \in Seq(S)
  BY SeqDef
<1>2. DOMAIN f = 1..n
  OBVIOUS
<1>3. DOMAIN f = 1..Len(f) /\ Len(f) \in Nat
  BY <1>1, LenProperties
<1> QED
  BY <1>1, <1>2, <1>3

\* More functions resolve more references.
LEMMA RefValueMono ==
  ASSUME NEW m \in Nat, NEW n \in Nat, m <= n
  PROVE  RefValue(m) \subseteq RefValue(n)
BY DEF RefValue

\* An instance stays well-formed when the pools grow.
LEMMA InstMono ==
  ASSUME NEW y \in SizeType, NEW z \in SizeType, Leq(y, z)
  PROVE  Inst(y) \subseteq Inst(z)
<1>1. /\ 1..y.func \subseteq 1..z.func /\ 1..y.table \subseteq 1..z.table
      /\ 1..y.mem \subseteq 1..z.mem /\ 1..y.global \subseteq 1..z.global
  BY DEF Leq, SizeType
<1>2. Addrs(y) \subseteq Addrs(z)
  <2>1. /\ Seq(1..y.func) \subseteq Seq(1..z.func)
        /\ Seq(1..y.table) \subseteq Seq(1..z.table)
        /\ Seq(1..y.mem) \subseteq Seq(1..z.mem)
        /\ Seq(1..y.global) \subseteq Seq(1..z.global)
    <3>1. Seq(1..y.func) \subseteq Seq(1..z.func) /\ Seq(1..y.table) \subseteq Seq(1..z.table)
      BY <1>1, SeqMono
    <3>2. Seq(1..y.mem) \subseteq Seq(1..z.mem) /\ Seq(1..y.global) \subseteq Seq(1..z.global)
      BY <1>1, SeqMono
    <3> QED
      BY <3>1, <3>2
  <2>2. ASSUME NEW a \in Addrs(y) PROVE a \in Addrs(z)
    <3>1. /\ a = [func |-> a.func, table |-> a.table, mem |-> a.mem, global |-> a.global]
          /\ a.func \in Seq(1..y.func) /\ a.table \in Seq(1..y.table)
          /\ a.mem \in Seq(1..y.mem) /\ a.global \in Seq(1..y.global)
      BY <2>2 DEF Addrs
    <3> QED
      BY <3>1, <2>1 DEF Addrs
  <2> QED
    BY <2>2
<1>3. Extern(y) \subseteq Extern(z)
  BY DEF Extern, ExternVal, Kind, Leq, SizeType
<1>4. [name : STRING, ev : Extern(y)] \subseteq [name : STRING, ev : Extern(z)]
  BY <1>3
<1>5. Seq([name : STRING, ev : Extern(y)]) \subseteq Seq([name : STRING, ev : Extern(z)])
  BY <1>4, SeqMono
<1>6. RefValue(y.func) \subseteq RefValue(z.func)
  BY RefValueMono DEF Leq, SizeType
<1>7. Seq(Seq(RefValue(y.func))) \subseteq Seq(Seq(RefValue(z.func)))
  BY <1>6, SeqMono
<1> QED
  BY <1>2, <1>5, <1>7 DEF Inst

\* An entity is external if its address is in range, and only then.
LEMMA ExternOk ==
  ASSUME NEW z \in SizeType, NEW kind \in Kind, NEW a \in 1..z[kind]
  PROVE  [kind |-> kind, addr |-> a] \in Extern(z)
<1>0. z[kind] \in Nat
  BY DEF SizeType, Kind
<1>1. [kind |-> kind, addr |-> a] \in ExternVal
  BY <1>0 DEF ExternVal
<1> QED
  BY <1>1 DEF Extern

\* An external value names an entry of its pool.
LEMMA ExternAddr ==
  ASSUME NEW z, NEW e \in Extern(z)
  PROVE  e.kind \in Kind /\ e.addr \in 1..z[e.kind]
BY DEF Extern, ExternVal

\* The empty instance needs no pool.
LEMMA EmptyInstanceOk == \A z \in SizeType : EmptyInstance \in Inst(z)
<1> SUFFICES ASSUME NEW z \in SizeType
             PROVE  EmptyInstance \in Inst(z)
  OBVIOUS
<1>1. \A S : <<>> \in Seq(S)
  BY EmptySeq
<1> QED
  BY <1>1 DEF EmptyInstance, Inst, Addrs

\* Recording an address that is in range.
LEMMA WithAddrOk ==
  ASSUME NEW z \in SizeType, NEW in \in Inst(z), NEW kind \in Kind, NEW a \in 1..z[kind]
  PROVE  WithAddr(in, kind, a) \in Inst(z)
<1>1. in.addrs[kind] \in Seq(1..z[kind])
  BY DEF Inst, Addrs, Kind
<1>2. Append(in.addrs[kind], a) \in Seq(1..z[kind])
  BY <1>1, AppendProperties
<1>3. [in.addrs EXCEPT ![kind] = Append(@, a)] \in Addrs(z)
  BY <1>2 DEF Inst, Addrs, Kind
<1> QED
  BY <1>3 DEF WithAddr, Inst

\* Recording an address and its export.
LEMMA WithExportOk ==
  ASSUME NEW z \in SizeType, NEW in \in Inst(z), NEW kind \in Kind,
         NEW a \in 1..z[kind], NEW name \in STRING
  PROVE  WithExport(in, name, kind, a) \in Inst(z)
<1> DEFINE in1 == WithAddr(in, kind, a)
           x   == [name |-> name, ev |-> [kind |-> kind, addr |-> a]]
<1>1. in1 \in Inst(z)
  BY WithAddrOk
<1>2. a \in Nat
  BY DEF SizeType, Kind
<1>3. x \in [name : STRING, ev : Extern(z)]
  BY <1>2 DEF Extern, ExternVal
<1>4. in1.exports \in Seq([name : STRING, ev : Extern(z)])
  BY <1>1 DEF Inst
<1> HIDE DEF in1, x
<1>5. Append(in1.exports, x) \in Seq([name : STRING, ev : Extern(z)])
  BY <1>3, <1>4, AppendProperties
<1>6. [in1 EXCEPT !.exports = Append(@, x)] \in Inst(z)
  BY <1>1, <1>5 DEF Inst
<1> QED
  BY <1>6 DEF WithExport, in1, x

\* Overwriting part of a sequence keeps its length and its element type.
LEMMA CopyIntoOk ==
  ASSUME NEW S, NEW dst \in Seq(S), NEW src \in Seq(S), NEW d \in Nat
  PROVE  CopyInto(dst, d, src) \in Seq(S) /\ Len(CopyInto(dst, d, src)) = Len(dst)
<1>1. Len(dst) \in Nat /\ DOMAIN dst = 1..Len(dst) /\ Len(src) \in Nat
  BY LenProperties
<1>2. \A i \in 1..Len(dst) : dst[i] \in S
  BY ElementOfSeq
<1>3. \A i \in 1..Len(dst) : i > d /\ i <= d + Len(src) => src[i - d] \in S
  BY <1>1, ElementOfSeq
<1>4. CopyInto(dst, d, src) \in [1..Len(dst) -> S]
  BY <1>1, <1>2, <1>3 DEF CopyInto
<1> QED
  BY <1>1, <1>4, FunSeq

\* The sizes of the pools are numbers, and what they count is known.
LEMMA SizesOk ==
  ASSUME PoolsInv
  PROVE  /\ Sizes \in SizeType
         /\ Len(funcs) \in Nat /\ Len(tables) \in Nat
         /\ Len(mems) \in Nat /\ Len(globals) \in Nat
BY LenProperties DEF PoolsInv, Sizes, SizeType

\* The same of the next state.
LEMMA SizesNextOk ==
  ASSUME PoolsInv'
  PROVE  /\ Sizes' \in SizeType
         /\ Len(funcs') \in Nat /\ Len(tables') \in Nat
         /\ Len(mems') \in Nat /\ Len(globals') \in Nat
BY LenProperties DEF PoolsInv, Sizes, SizeType

\* Published instances rely on sizes that are there.
LEMMA KnownOk ==
  ASSUME IInv
  PROVE  /\ Known \in SizeType /\ Leq(Known, Sizes)
         /\ Sizes \in SizeType /\ Len(instances) \in Nat
<1>1. Sizes \in SizeType
  BY SizesOk DEF IInv
<1>2. Known \in SizeType /\ Leq(Known, Sizes)
  BY <1>1 DEF Known, IInv, MarksInv, Leq, SizeType
<1>3. Len(instances) \in Nat
  BY LenProperties DEF IInv, InstancesInv
<1> QED
  BY <1>1, <1>2, <1>3

\* A constant expression yields a reference the functions so far resolve.
LEMMA EvalConstOk ==
  ASSUME PoolsInv, NEW in \in Inst(Sizes), NEW e \in ConstExpr, Evaluable(in, e)
  PROVE  EvalConst(in, e) \in RefValue(Len(funcs))
<1> DEFINE c == e[1]
<1>0. Len(funcs) \in Nat
  BY SizesOk
<1>1. c \in ConstInstr
  <2>1. Len(e) \in Nat \ {0}
    BY EmptySeq DEF Evaluable, ConstExpr
  <2> QED
    BY <2>1, ElementOfSeq DEF ConstExpr
<1>2. CASE c.op = "i32.const"
  <2>1. c.val \in Nat
    BY <1>1, <1>2 DEF ConstInstr
  <2> QED
    BY <2>1, <1>2 DEF EvalConst, I32, RefValue, Value, ValType
<1>3. CASE c.op = "ref.null"
  <2>1. c.ty \in RefType
    BY <1>1, <1>3 DEF ConstInstr
  <2> QED
    BY <2>1, <1>3, <1>0 DEF EvalConst, NullOf, RefValue, Value, ValType
<1>4. CASE c.op = "ref.func"
  <2>1. in.addrs.func \in Seq(1..Len(funcs))
    BY DEF Inst, Addrs, Sizes
  <2>2. in.addrs.func[c.idx] \in 1..Len(funcs)
    BY <2>1, <1>4, ElementOfSeq, LenProperties DEF Evaluable
  <2>3. EvalConst(in, e) = FuncRef(in.addrs.func[c.idx])
    BY <1>4 DEF EvalConst
  <2> QED
    BY <2>2, <2>3, <1>0 DEF FuncRef, RefValue, Value, ValType, RefType
<1>5. CASE c.op = "global.get"
  <2>1. in.addrs.global \in Seq(1..Len(globals))
    BY DEF Inst, Addrs, Sizes
  <2>2. in.addrs.global[c.idx] \in 1..Len(globals)
    BY <2>1, <1>5, ElementOfSeq, LenProperties DEF Evaluable
  <2>3. EvalConst(in, e) = globals[in.addrs.global[c.idx]].val
    BY <1>5 DEF EvalConst
  <2>4. globals[in.addrs.global[c.idx]] \in GlobalInst(Len(funcs))
    BY <2>2, ElementOfSeq DEF PoolsInv
  <2> QED
    BY <2>3, <2>4 DEF GlobalInst
<1> QED
  BY <1>1, <1>2, <1>3, <1>4, <1>5 DEF ConstInstr

-----------------------------------------------------------------------------
(* The ends of a call keep the invariant.                                  *)

\* Ending a call outside the allocation loops.
LEMMA FinishOk ==
  ASSUME IInv, ~ Building, NEW r \in {"ok", "link", "trap", "refused"},
         Finish(r), UNCHANGED <<storeVars, ops>>
  PROVE  IInv'
<1> USE DEF storeVars, Finish
<1>1. phase \notin {"host", "alloc"} /\ Owners' = Owners /\ Known' = Known /\ Sizes' = Sizes
  BY DEF Building, Owners, Known, Sizes
<1>2. PoolsInv'
  BY <1>1 DEF IInv, PoolsInv
<1>3. MarksInv'
  BY DEF MarksInv, Building, Zero, SizeType
<1>4. InstancesInv'
  <2>1. inst' \in Inst(Sizes')
    BY <1>1, SizesOk, EmptyInstanceOk DEF IInv
  <2> QED
    BY <2>1, <1>1 DEF IInv, InstancesInv
<1>5. MachineInv'
  BY EmptySeq DEF MachineInv
<1>6. CallInv'
  BY DEF IInv, CallInv
<1> QED
  BY <1>2, <1>3, <1>4, <1>5, <1>6 DEF IInv

\* Rolling back: the marks say what is left is well-formed.
LEMMA RollbackOk ==
  ASSUME IInv, Building, Rollback
  PROVE  IInv'
<1> USE DEF Rollback, Truncate, Finish
<1>0. /\ base \in SizeType /\ Sizes \in SizeType /\ Leq(base, Sizes)
      /\ Len(instances) \in Nat
  BY KnownOk DEF IInv, MarksInv
<1>1. /\ funcs' \in Seq(FuncInst(Len(instances))) /\ Len(funcs') = base.func
      /\ tables' \in Seq(TableInst(base.func)) /\ Len(tables') = base.table
      /\ mems' \in Seq(MemInst) /\ Len(mems') = base.mem
      /\ globals' \in Seq(GlobalInst(base.func)) /\ Len(globals') = base.global
  <2>1. funcs' \in Seq(FuncInst(Len(instances))) /\ Len(funcs') = base.func
    BY <1>0, SubSeqProperties DEF IInv, MarksInv, SizeType
  <2>2. tables' \in Seq(TableInst(base.func)) /\ Len(tables') = base.table
    BY <1>0, SubSeqProperties DEF IInv, MarksInv, SizeType
  <2>3. mems' \in Seq(MemInst) /\ Len(mems') = base.mem
    <3>1. \A a \in 1..base.mem : mems[a] \in MemInst
      BY <1>0, ElementOfSeq DEF IInv, PoolsInv, Leq, Sizes, SizeType
    <3> QED
      BY <3>1, <1>0, SubSeqProperties DEF SizeType
  <2>4. globals' \in Seq(GlobalInst(base.func)) /\ Len(globals') = base.global
    BY <1>0, SubSeqProperties DEF IInv, MarksInv, SizeType
  <2> QED
    BY <2>1, <2>2, <2>3, <2>4
<1>2. PoolsInv'
  BY <1>1 DEF PoolsInv, Owners
<1>3. MarksInv'
  BY DEF MarksInv, Building, Zero, SizeType
<1>4. Known' = base
  BY <1>0, <1>1 DEF Known, Building, Sizes, SizeType
<1>5. InstancesInv'
  <2>1. inst' \in Inst(Sizes')
    BY <1>2, SizesNextOk, EmptyInstanceOk
  <2> QED
    BY <2>1, <1>4 DEF IInv, InstancesInv, Known
<1>6. MachineInv'
  BY EmptySeq DEF MachineInv
<1>7. CallInv'
  BY DEF IInv, CallInv
<1> QED
  BY <1>2, <1>3, <1>5, <1>6, <1>7 DEF IInv

-----------------------------------------------------------------------------
(* add_host_module keeps the invariant.                                    *)

\* Types over more functions contain those over fewer.
LEMMA PoolTypesMono ==
  ASSUME NEW m \in Nat, NEW n \in Nat, m <= n
  PROVE  /\ FuncInst(m) \subseteq FuncInst(n)
         /\ TableInst(m) \subseteq TableInst(n)
         /\ GlobalInst(m) \subseteq GlobalInst(n)
         /\ Seq(FuncInst(m)) \subseteq Seq(FuncInst(n))
         /\ Seq(TableInst(m)) \subseteq Seq(TableInst(n))
         /\ Seq(GlobalInst(m)) \subseteq Seq(GlobalInst(n))
<1>1. RefValue(m) \subseteq RefValue(n)
  BY RefValueMono
<1>2. Seq(RefValue(m)) \subseteq Seq(RefValue(n))
  BY <1>1, SeqMono
<1>3. /\ FuncInst(m) \subseteq FuncInst(n)
      /\ TableInst(m) \subseteq TableInst(n)
      /\ GlobalInst(m) \subseteq GlobalInst(n)
  BY <1>1, <1>2 DEF FuncInst, TableInst, GlobalInst
<1> QED
  BY <1>3, SeqMono

\* Functions are appended: what was well-formed stays so, and marks taken
\* before the functions hold for what was there.
LEMMA GrowFuncs ==
  ASSUME IInv, ~ Building, NEW n \in {Len(instances), Len(instances) + 1},
         NEW new \in Seq(FuncInst(n)), funcs' = funcs \o new, base' = Sizes,
         UNCHANGED <<tables, mems, globals, instances>>
  PROVE  /\ funcs' \in Seq(FuncInst(n)) /\ Len(funcs') = Len(funcs) + Len(new)
         /\ Len(new) \in Nat
         /\ tables' \in Seq(TableInst(Len(funcs')))
         /\ globals' \in Seq(GlobalInst(Len(funcs')))
         /\ Leq(Sizes, Sizes') /\ Sizes' \in SizeType
         /\ base' \in SizeType
         /\ \A a \in 1..base'.func   : funcs'[a] \in FuncInst(Len(instances'))
         /\ \A a \in 1..base'.table  : tables'[a] \in TableInst(base'.func)
         /\ \A a \in 1..base'.global : globals'[a] \in GlobalInst(base'.func)
<1>0. /\ Sizes \in SizeType /\ Len(instances) \in Nat /\ Len(new) \in Nat
      /\ Len(funcs) \in Nat /\ Len(tables) \in Nat /\ Len(mems) \in Nat /\ Len(globals) \in Nat
  BY KnownOk, SizesOk, LenProperties DEF IInv
<1>1. /\ funcs \in Seq(FuncInst(Len(instances)))
      /\ tables \in Seq(TableInst(Len(funcs))) /\ globals \in Seq(GlobalInst(Len(funcs)))
  BY DEF IInv, PoolsInv, Owners, Building
<1>2. funcs \in Seq(FuncInst(n))
  BY <1>0, <1>1, PoolTypesMono
<1>3. /\ funcs' \in Seq(FuncInst(n)) /\ Len(funcs') = Len(funcs) + Len(new)
      /\ \A a \in 1..Len(funcs) : funcs'[a] = funcs[a]
  BY <1>0, <1>2, ConcatProperties
<1>4. /\ tables' \in Seq(TableInst(Len(funcs')))
      /\ globals' \in Seq(GlobalInst(Len(funcs')))
  BY <1>0, <1>1, <1>3, PoolTypesMono
<1>5. Leq(Sizes, Sizes') /\ Sizes' \in SizeType
  BY <1>0, <1>3 DEF Leq, Sizes, SizeType
<1>6. /\ base'.func = Len(funcs) /\ base'.table = Len(tables) /\ base'.global = Len(globals)
  BY DEF Sizes
<1>7. \A a \in 1..base'.func : funcs'[a] \in FuncInst(Len(instances'))
  BY <1>1, <1>3, <1>6, ElementOfSeq
<1>8. /\ \A a \in 1..base'.table  : tables'[a] \in TableInst(base'.func)
      /\ \A a \in 1..base'.global : globals'[a] \in GlobalInst(base'.func)
  BY <1>1, <1>6, ElementOfSeq
<1> QED
  BY <1>0, <1>3, <1>4, <1>5, <1>7, <1>8

\* A host module's functions enter the pool and its marks are taken.
LEMMA AddHostModuleOk == IInv /\ AddHostModule => IInv'
<1> SUFFICES ASSUME IInv, AddHostModule
             PROVE  IInv'
  OBVIOUS
<1> PICK h \in HostModules :
      /\ mod' = h
      /\ funcs' = funcs \o [i \in DOMAIN h.funcs |-> [ty |-> h.funcs[i].ty, inst |-> 0]]
      /\ inst' = [EmptyInstance EXCEPT
            !.addrs.func = [i \in DOMAIN h.funcs |-> Len(funcs) + i],
            !.exports = [i \in DOMAIN h.funcs |->
                           [name |-> h.funcs[i].name,
                            ev |-> [kind |-> "func", addr |-> Len(funcs) + i]]]]
  BY DEF AddHostModule
<1> DEFINE new  == [i \in DOMAIN h.funcs |-> [ty |-> h.funcs[i].ty, inst |-> 0]]
           adrs == [i \in DOMAIN h.funcs |-> Len(funcs) + i]
           exps == [i \in DOMAIN h.funcs |->
                      [name |-> h.funcs[i].name,
                       ev |-> [kind |-> "func", addr |-> Len(funcs) + i]]]
<1>0. /\ phase = "idle" /\ phase' = "host" /\ ~ Building /\ Building' /\ base' = Sizes
      /\ k' = 1 /\ ret' = "none"
      /\ UNCHANGED <<tables, mems, globals, instances, code, frames, held, ops>>
  BY DEF AddHostModule, Building, runVars
<1>1. /\ h.funcs \in Seq([name : STRING, ty : FuncType])
      /\ Len(h.funcs) \in Nat /\ DOMAIN h.funcs = 1..Len(h.funcs)
  BY StoreAssumption, LenProperties DEF HostModule
<1>2. /\ \A i \in DOMAIN h.funcs : h.funcs[i] \in [name : STRING, ty : FuncType]
      /\ Len(instances) \in Nat /\ Len(funcs) \in Nat
  BY <1>1, ElementOfSeq, KnownOk, SizesOk DEF IInv
<1>3. new \in Seq(FuncInst(Len(instances))) /\ Len(new) = Len(h.funcs)
  <2>1. new \in [1..Len(h.funcs) -> FuncInst(Len(instances))]
    BY <1>1, <1>2 DEF FuncInst
  <2> QED
    BY <2>1, <1>1, FunSeq
<1> HIDE DEF new
<1>4. /\ funcs' \in Seq(FuncInst(Len(instances))) /\ Len(funcs') = Len(funcs) + Len(h.funcs)
      /\ tables' \in Seq(TableInst(Len(funcs')))
      /\ globals' \in Seq(GlobalInst(Len(funcs')))
      /\ Leq(Sizes, Sizes') /\ Sizes' \in SizeType
      /\ base' \in SizeType
      /\ \A a \in 1..base'.func   : funcs'[a] \in FuncInst(Len(instances'))
      /\ \A a \in 1..base'.table  : tables'[a] \in TableInst(base'.func)
      /\ \A a \in 1..base'.global : globals'[a] \in GlobalInst(base'.func)
  BY <1>0, <1>3, GrowFuncs DEF new
<1>5. PoolsInv'
  BY <1>0, <1>4 DEF PoolsInv, Owners, IInv
<1>6. MarksInv'
  BY <1>0, <1>4 DEF MarksInv
<1>7. InstancesInv'
  <2>1. adrs \in Seq(1..Sizes'.func)
    <3>0. Sizes'.func = Len(funcs) + Len(h.funcs)
      BY <1>4 DEF Sizes
    <3>1. adrs \in [1..Len(h.funcs) -> 1..Sizes'.func]
      BY <1>1, <1>2, <3>0
    <3> QED
      BY <3>1, <1>1, FunSeq
  <2>2. exps \in Seq([name : STRING, ev : Extern(Sizes')])
    <3>1. \A i \in 1..Len(h.funcs) :
            [kind |-> "func", addr |-> Len(funcs) + i] \in Extern(Sizes')
      <4> SUFFICES ASSUME NEW i \in 1..Len(h.funcs)
                   PROVE  [kind |-> "func", addr |-> Len(funcs) + i] \in Extern(Sizes')
        OBVIOUS
      <4>1. Sizes'.func = Len(funcs) + Len(h.funcs)
        BY <1>4 DEF Sizes
      <4>2. Len(funcs) + i \in Nat /\ Len(funcs) + i \in 1..Sizes'["func"]
        BY <1>1, <1>2, <4>1
      <4>3. "func" \in Kind
        BY DEF Kind
      <4> QED
        BY <1>4, <4>2, <4>3, ExternOk
    <3>2. exps \in [1..Len(h.funcs) -> [name : STRING, ev : Extern(Sizes')]]
      BY <1>1, <1>2, <3>1
    <3> QED
      BY <3>2, <1>1, FunSeq
  <2>3. EmptyInstance \in Inst(Sizes')
    BY <1>4, EmptyInstanceOk
  <2>4. inst' \in Inst(Sizes')
    <3> HIDE DEF adrs, exps
    <3> DEFINE ad == [EmptyInstance.addrs EXCEPT !.func = adrs]
               el == EmptyInstance.elems
               da == EmptyInstance.datas
    <3>1. inst' = [exports |-> exps, addrs |-> ad, elems |-> el, datas |-> da]
      BY DEF adrs, exps, EmptyInstance
    <3>2. ad \in Addrs(Sizes')
      BY <2>1, <2>3 DEF Inst, Addrs
    <3>3. el \in Seq(Seq(RefValue(Sizes'.func))) /\ da \in Seq(Nat)
      BY <2>3 DEF Inst
    <3> HIDE DEF ad, el, da
    <3> QED
      BY <3>1, <3>2, <3>3, <2>2 DEF Inst
  <2>5. Known' = Known
    BY <1>0 DEF Known
  <2> QED
    BY <1>0, <2>4, <2>5 DEF InstancesInv, IInv
<1>8. MachineInv'
  BY <1>0 DEF IInv, MachineInv
<1>9. CallInv'
  BY <1>0 DEF IInv, CallInv
<1> QED
  BY <1>5, <1>6, <1>7, <1>8, <1>9 DEF IInv

\* A step of an allocation loop: one pool may have grown, the instance under
\* construction learnt its address, the entries below the marks are as before.
LEMMA BuildStep ==
  ASSUME IInv, Building, k' = k + 1,
         UNCHANGED <<funcs, instances, code, phase, mod, base, ret, runVars>>,
         tables' \in Seq(TableInst(Len(funcs))),
         mems' \in Seq(MemInst),
         globals' \in Seq(GlobalInst(Len(funcs))),
         Leq(Sizes, Sizes'),
         \A a \in 1..base.table  : tables'[a] = tables[a],
         \A a \in 1..base.global : globals'[a] = globals[a],
         inst' \in Inst(Sizes')
  PROVE  IInv'
<1> USE DEF runVars
<1>0. /\ base \in SizeType /\ Sizes \in SizeType /\ Leq(base, Sizes)
      /\ Building'
  BY KnownOk DEF IInv, MarksInv, Building
<1>1. PoolsInv'
  BY DEF IInv, PoolsInv, Owners
<1>2. Sizes' \in SizeType
  BY <1>1, SizesNextOk
<1>3. MarksInv'
  <2>1. Leq(base, Sizes')
    BY <1>0, <1>2 DEF Leq, SizeType
  <2> QED
    BY <1>0, <2>1 DEF IInv, MarksInv
<1>4. InstancesInv'
  BY <1>0 DEF IInv, InstancesInv, Known
<1>5. MachineInv'
  BY DEF IInv, MachineInv
<1>6. CallInv'
  BY DEF IInv, CallInv, Building
<1> QED
  BY <1>1, <1>3, <1>4, <1>5, <1>6 DEF IInv

\* A pool with one more entry, and the entries a mark covers.
LEMMA AppendPool ==
  ASSUME NEW S, NEW s \in Seq(S), NEW e \in S, NEW b \in Nat, b <= Len(s)
  PROVE  /\ Append(s, e) \in Seq(S) /\ Len(Append(s, e)) = Len(s) + 1 /\ Len(s) \in Nat
         /\ \A a \in 1..b : Append(s, e)[a] = s[a]
BY AppendProperties, LenProperties

\* The marks lie below the ends of the pools.
LEMMA MarksBelow ==
  ASSUME IInv, Building
  PROVE  /\ base.func \in Nat /\ base.table \in Nat /\ base.mem \in Nat /\ base.global \in Nat
         /\ base.func <= Len(funcs) /\ base.table <= Len(tables)
         /\ base.mem <= Len(mems) /\ base.global <= Len(globals)
BY DEF IInv, MarksInv, Leq, Sizes, SizeType

\* The loops append to one pool at a time.
LEMMA AppendStep ==
  ASSUME IInv, Building, k' = k + 1,
         UNCHANGED <<funcs, instances, code, phase, mod, base, ret, runVars>>,
         NEW kind \in {"table", "mem", "global"}, NEW e,
         \/ /\ kind = "table" /\ e \in TableInst(Len(funcs))
            /\ tables' = Append(tables, e) /\ UNCHANGED <<mems, globals>>
         \/ /\ kind = "mem" /\ e \in MemInst
            /\ mems' = Append(mems, e) /\ UNCHANGED <<tables, globals>>
         \/ /\ kind = "global" /\ e \in GlobalInst(Len(funcs))
            /\ globals' = Append(globals, e) /\ UNCHANGED <<tables, mems>>,
         \/ inst' = WithAddr(inst, kind, Sizes[kind] + 1)
         \/ \E name \in STRING : inst' = WithExport(inst, name, kind, Sizes[kind] + 1)
  PROVE  IInv'
<1>0. /\ tables \in Seq(TableInst(Len(funcs))) /\ mems \in Seq(MemInst)
      /\ globals \in Seq(GlobalInst(Len(funcs))) /\ inst \in Inst(Sizes)
      /\ Sizes \in SizeType
  BY SizesOk DEF IInv, PoolsInv, InstancesInv
<1>1. /\ tables' \in Seq(TableInst(Len(funcs))) /\ mems' \in Seq(MemInst)
      /\ globals' \in Seq(GlobalInst(Len(funcs)))
      /\ \A a \in 1..base.table  : tables'[a] = tables[a]
      /\ \A a \in 1..base.global : globals'[a] = globals[a]
      /\ \A q \in Kind : Sizes'[q] = IF q = kind THEN Sizes[q] + 1 ELSE Sizes[q]
  <2>1. CASE kind = "table"
    <3>1. e \in TableInst(Len(funcs)) /\ tables' = Append(tables, e) /\ UNCHANGED <<mems, globals>>
      BY <2>1
    <3>2. /\ tables' \in Seq(TableInst(Len(funcs))) /\ Len(tables') = Len(tables) + 1
          /\ \A a \in 1..base.table : tables'[a] = tables[a]
      BY <3>1, <1>0, AppendPool, MarksBelow
    <3>3. Sizes' = [func |-> Len(funcs), table |-> Len(tables) + 1,
                    mem |-> Len(mems), global |-> Len(globals)]
      BY <3>1, <3>2 DEF Sizes
    <3>4. \A q \in Kind : Sizes'[q] = IF q = kind THEN Sizes[q] + 1 ELSE Sizes[q]
      BY <2>1, <3>3 DEF Sizes, Kind
    <3>5. /\ \A a \in 1..base.table  : tables'[a] = tables[a]
          /\ \A a \in 1..base.global : globals'[a] = globals[a]
      BY <3>1, <3>2
    <3> QED
      BY <3>1, <3>2, <3>4, <3>5, <1>0
  <2>2. CASE kind = "mem"
    <3>1. e \in MemInst /\ mems' = Append(mems, e) /\ UNCHANGED <<tables, globals>>
      BY <2>2
    <3>2. /\ mems' \in Seq(MemInst) /\ Len(mems') = Len(mems) + 1
          /\ \A a \in 1..base.mem : mems'[a] = mems[a]
      BY <3>1, <1>0, AppendPool, MarksBelow
    <3>3. Sizes' = [func |-> Len(funcs), table |-> Len(tables),
                    mem |-> Len(mems) + 1, global |-> Len(globals)]
      BY <3>1, <3>2 DEF Sizes
    <3>4. \A q \in Kind : Sizes'[q] = IF q = kind THEN Sizes[q] + 1 ELSE Sizes[q]
      BY <2>2, <3>3 DEF Sizes, Kind
    <3>5. /\ \A a \in 1..base.table  : tables'[a] = tables[a]
          /\ \A a \in 1..base.global : globals'[a] = globals[a]
      BY <3>1, <3>2
    <3> QED
      BY <3>1, <3>2, <3>4, <3>5, <1>0
  <2>3. CASE kind = "global"
    <3>1. e \in GlobalInst(Len(funcs)) /\ globals' = Append(globals, e) /\ UNCHANGED <<tables, mems>>
      BY <2>3
    <3>2. /\ globals' \in Seq(GlobalInst(Len(funcs))) /\ Len(globals') = Len(globals) + 1
          /\ \A a \in 1..base.global : globals'[a] = globals[a]
      BY <3>1, <1>0, AppendPool, MarksBelow
    <3>3. Sizes' = [func |-> Len(funcs), table |-> Len(tables),
                    mem |-> Len(mems), global |-> Len(globals) + 1]
      BY <3>1, <3>2 DEF Sizes
    <3>4. \A q \in Kind : Sizes'[q] = IF q = kind THEN Sizes[q] + 1 ELSE Sizes[q]
      BY <2>3, <3>3 DEF Sizes, Kind
    <3>5. /\ \A a \in 1..base.table  : tables'[a] = tables[a]
          /\ \A a \in 1..base.global : globals'[a] = globals[a]
      BY <3>1, <3>2
    <3> QED
      BY <3>1, <3>2, <3>4, <3>5, <1>0
  <2> QED
    BY <2>1, <2>2, <2>3
<1>2. /\ Leq(Sizes, Sizes') /\ Sizes' \in SizeType
      /\ Sizes[kind] + 1 \in 1..Sizes'[kind]
  <2>1. PoolsInv'
    BY <1>1 DEF IInv, PoolsInv, Owners
  <2>2. Sizes' \in SizeType
    BY <2>1, SizesNextOk
  <2>3. Sizes \in SizeType
    BY <1>0
  <2>4. /\ Sizes[kind] \in Nat /\ Sizes'[kind] = Sizes[kind] + 1
        /\ \A q \in Kind : Sizes[q] \in Nat /\ Sizes[q] <= Sizes'[q]
    BY <1>1, <2>3 DEF SizeType, Kind
  <2> QED
    BY <2>2, <2>4 DEF Leq, Kind
<1>3. inst' \in Inst(Sizes')
  <2>1. inst \in Inst(Sizes')
    BY <1>0, <1>2, InstMono
  <2>2. CASE inst' = WithAddr(inst, kind, Sizes[kind] + 1)
    BY <2>1, <2>2, <1>2, WithAddrOk DEF Kind
  <2>3. CASE \E name \in STRING : inst' = WithExport(inst, name, kind, Sizes[kind] + 1)
    BY <2>1, <2>3, <1>2, WithExportOk DEF Kind
  <2> QED
    BY <2>2, <2>3
<1> QED
  BY <1>1, <1>2, <1>3, BuildStep

\* A host global is stored only when its value is resolvable.
LEMMA HostGlobalOk == IInv /\ HostGlobal => IInv'
<1> SUFFICES ASSUME IInv, HostGlobal
             PROVE  IInv'
  OBVIOUS
<1> DEFINE g == mod.globals[k]
           e == [ty |-> g.ty, val |-> g.val]
<1>0. phase = "host" /\ Building /\ mod \in HostModule /\ k \in DOMAIN mod.globals
  BY StoreAssumption DEF IInv, CallInv, HostGlobal, Building
<1>1. g \in [name : STRING, ty : GlobalType, val : Value]
  <2>1. mod.globals \in Seq([name : STRING, ty : GlobalType, val : Value])
    BY <1>0 DEF HostModule
  <2> QED
    BY <1>0, <2>1, ElementOfSeq, LenProperties
<1>2. CASE /\ HostValueOk(g)
           /\ globals' = Append(globals, e)
           /\ inst' = WithExport(inst, g.name, "global", Len(globals) + 1)
           /\ k' = k + 1
           /\ UNCHANGED <<funcs, tables, mems, instances, code, phase, mod, base, ret, runVars>>
  <2>1. e \in GlobalInst(Len(funcs))
    BY <1>1, <1>2 DEF HostValueOk, GlobalInst, RefValue
  <2>2. inst' = WithExport(inst, g.name, "global", Sizes["global"] + 1) /\ g.name \in STRING
    BY <1>1, <1>2 DEF Sizes
  <2> HIDE DEF e, g
  <2>3. \E name \in STRING : inst' = WithExport(inst, name, "global", Sizes["global"] + 1)
    BY <2>2
  <2> QED
    BY <1>0, <1>2, <2>1, <2>3, AppendStep
<1>3. CASE Rollback
  BY <1>0, <1>3, RollbackOk
<1> QED
  BY <1>2, <1>3 DEF HostGlobal

\* A new table is full of nulls.
LEMMA NewTableOk ==
  ASSUME NEW t \in TableType, NEW n \in Nat
  PROVE  NewTable(t) \in TableInst(n)
<1>1. t.limits.min \in Nat /\ t.elem \in RefType
  BY DEF TableType, Limits
<1>2. NullOf(t.elem) \in RefValue(n)
  BY <1>1 DEF NullOf, RefValue, Value, ValType
<1>3. [i \in 1..t.limits.min |-> NullOf(t.elem)] \in Seq(RefValue(n))
  BY <1>1, <1>2, FunSeq
<1> QED
  BY <1>3 DEF NewTable, TableInst

\* A host table starts with null references, or the call is rolled back.
LEMMA HostTableOk == IInv /\ HostTable => IInv'
<1> SUFFICES ASSUME IInv, HostTable
             PROVE  IInv'
  OBVIOUS
<1> DEFINE i == k - Len(mod.globals)
           t == mod.tables[i].ty
           e == NewTable(t)
<1>0. phase = "host" /\ Building /\ mod \in HostModule /\ i \in DOMAIN mod.tables
  BY StoreAssumption DEF IInv, CallInv, HostTable, Building
<1>1. mod.tables[i] \in [name : STRING, ty : TableType]
  <2>1. mod.tables \in Seq([name : STRING, ty : TableType])
    BY <1>0 DEF HostModule
  <2> QED
    BY <1>0, <2>1, ElementOfSeq, LenProperties
<1>2. CASE /\ tables' = Append(tables, e)
           /\ inst' = WithExport(inst, mod.tables[i].name, "table", Len(tables) + 1)
           /\ k' = k + 1
           /\ UNCHANGED <<funcs, mems, globals, instances, code, phase, mod, base, ret, runVars>>
  <2>1. e \in TableInst(Len(funcs))
    BY <1>1, NewTableOk, SizesOk DEF IInv
  <2>2. /\ inst' = WithExport(inst, mod.tables[i].name, "table", Sizes["table"] + 1)
        /\ mod.tables[i].name \in STRING
    BY <1>1, <1>2 DEF Sizes
  <2> HIDE DEF e, i
  <2>3. \E name \in STRING : inst' = WithExport(inst, name, "table", Sizes["table"] + 1)
    BY <2>2
  <2> QED
    BY <1>0, <1>2, <2>1, <2>3, AppendStep
<1>3. CASE Rollback
  BY <1>0, <1>3, RollbackOk
<1> QED
  BY <1>2, <1>3 DEF HostTable

\* A host memory is added, or the call is rolled back.
LEMMA HostMemOk == IInv /\ HostMem => IInv'
<1> SUFFICES ASSUME IInv, HostMem
             PROVE  IInv'
  OBVIOUS
<1> DEFINE i == k - Len(mod.globals) - Len(mod.tables)
           t == mod.mems[i].ty
           e == [ty |-> t, pages |-> t.limits.min]
<1>0. phase = "host" /\ Building /\ mod \in HostModule /\ i \in DOMAIN mod.mems
  BY StoreAssumption DEF IInv, CallInv, HostMem, Building
<1>1. mod.mems[i] \in [name : STRING, ty : MemType]
  <2>1. mod.mems \in Seq([name : STRING, ty : MemType])
    BY <1>0 DEF HostModule
  <2> QED
    BY <1>0, <2>1, ElementOfSeq, LenProperties
<1>2. CASE /\ mems' = Append(mems, e)
           /\ inst' = WithExport(inst, mod.mems[i].name, "mem", Len(mems) + 1)
           /\ k' = k + 1
           /\ UNCHANGED <<funcs, tables, globals, instances, code, phase, mod, base, ret, runVars>>
  <2>1. e \in MemInst
    BY <1>1 DEF MemInst, MemType, Limits
  <2>2. /\ inst' = WithExport(inst, mod.mems[i].name, "mem", Sizes["mem"] + 1)
        /\ mod.mems[i].name \in STRING
    BY <1>1, <1>2 DEF Sizes
  <2> HIDE DEF e, i
  <2>3. \E name \in STRING : inst' = WithExport(inst, name, "mem", Sizes["mem"] + 1)
    BY <2>2
  <2> QED
    BY <1>0, <1>2, <2>1, <2>3, AppendStep
<1>3. CASE Rollback
  BY <1>0, <1>3, RollbackOk
<1> QED
  BY <1>2, <1>3 DEF HostMem

\* Publication: the sizes the instance was built against become known.
LEMMA PublishStep ==
  ASSUME IInv, Building, NEW in \in Inst(Sizes), Publish(in),
         UNCHANGED <<funcs, tables, mems, globals>>,
         phase' \in {"idle", "segments"}, inst' = EmptyInstance, base' = Zero
  PROVE  /\ PoolsInv' /\ MarksInv' /\ InstancesInv'
         /\ Len(instances') = Len(instances) + 1 /\ Len(instances) \in Nat
         /\ instances'[Len(instances')] = in
<1>0. /\ Known \in SizeType /\ Leq(Known, Sizes) /\ Sizes \in SizeType
      /\ Len(instances) \in Nat /\ Sizes' = Sizes /\ ~ Building' /\ Known' = Sizes
  BY KnownOk DEF Sizes, Building, Known
<1>1. instances \in Seq(Inst(Sizes))
  <2>1. Inst(Known) \subseteq Inst(Sizes)
    BY <1>0, InstMono
  <2> QED
    BY <2>1, SeqMono DEF IInv, InstancesInv
<1>2. /\ instances' \in Seq(Inst(Sizes)) /\ Len(instances') = Len(instances) + 1
      /\ instances'[Len(instances')] = in
  BY <1>1, AppendProperties DEF Publish
<1>3. code' \in Seq(Modules \union HostModules) /\ Len(code') = Len(instances')
  <2>1. mod \in Modules \union HostModules
    BY DEF IInv, CallInv, Building
  <2> QED
    BY <2>1, <1>2, AppendProperties DEF Publish, IInv, InstancesInv
<1>4. PoolsInv'
  <2>1. Owners \in Nat /\ Owners' = Len(instances) + 1 /\ Owners <= Owners'
    BY <1>0, <1>2 DEF Owners
  <2>2. Owners' \in Nat
    BY <1>0, <2>1
  <2>3. Seq(FuncInst(Owners)) \subseteq Seq(FuncInst(Owners'))
    BY <2>1, <2>2, PoolTypesMono
  <2> QED
    BY <2>3 DEF IInv, PoolsInv
<1>5. MarksInv'
  BY <1>0 DEF MarksInv, Zero, SizeType
<1>6. InstancesInv'
  BY <1>0, <1>2, <1>3, EmptyInstanceOk DEF InstancesInv
<1> QED
  BY <1>0, <1>2, <1>4, <1>5, <1>6

\* A complete host instance is published.
LEMMA PublishHostOk == IInv /\ PublishHost => IInv'
<1> SUFFICES ASSUME IInv, PublishHost
             PROVE  IInv'
  OBVIOUS
<1>1. Building /\ inst \in Inst(Sizes)
  BY DEF PublishHost, Building, IInv, InstancesInv
<1>2. PoolsInv' /\ MarksInv' /\ InstancesInv'
  BY <1>1, PublishStep DEF PublishHost, Finish
<1>3. MachineInv'
  BY EmptySeq DEF MachineInv, PublishHost, Finish
<1>4. CallInv'
  BY DEF CallInv, IInv, PublishHost, Finish
<1> QED
  BY <1>2, <1>3, <1>4 DEF IInv

-----------------------------------------------------------------------------
(* instantiate keeps the invariant, up to the publication.                 *)

\* instantiate starts: nothing of the store is touched.
LEMMA InstantiateOk == IInv /\ Instantiate => IInv'
<1> SUFFICES ASSUME IInv, Instantiate
             PROVE  IInv'
  OBVIOUS
<1> USE DEF Instantiate, storeVars, runVars
<1>1. /\ ~ Building /\ ~ Building' /\ Owners' = Owners /\ Known' = Known /\ Sizes' = Sizes
      /\ mod' \in Modules
  BY DEF Building, Owners, Known, Sizes
<1>2. PoolsInv' /\ MarksInv' /\ InstancesInv'
  BY <1>1 DEF IInv, PoolsInv, MarksInv, InstancesInv
<1>3. MachineInv' /\ CallInv'
  BY <1>1 DEF IInv, MachineInv, CallInv
<1> QED
  BY <1>2, <1>3 DEF IInv

\* The address of a matched import is in range, whatever the resolver answers.
LEMMA ResolveImportOk == IInv /\ ResolveImport => IInv'
<1> SUFFICES ASSUME IInv, ResolveImport
             PROVE  IInv'
  OBVIOUS
<1> PICK ev \in ResolverAnswers :
      \/ /\ InBounds(ev) /\ ImportMatches(mod.imports[k], ev)
         /\ inst' = WithAddr(inst, ev.kind, ev.addr)
         /\ k' = k + 1
         /\ UNCHANGED <<phase, mod, base, ret, frames, held>>
      \/ Finish("link")
  BY DEF ResolveImport
<1>0. /\ phase = "import" /\ UNCHANGED <<storeVars, ops>> /\ ~ Building /\ Sizes' = Sizes
  BY DEF ResolveImport, Building, storeVars, Sizes
<1>1. CASE /\ InBounds(ev) /\ ImportMatches(mod.imports[k], ev)
           /\ inst' = WithAddr(inst, ev.kind, ev.addr)
           /\ k' = k + 1
           /\ UNCHANGED <<phase, mod, base, ret, frames, held>>
  <2> USE DEF storeVars
  <2>1. ev.kind \in Kind /\ ev.addr \in 1..Sizes[ev.kind]
    BY <1>1 DEF ImportMatches, InBounds, Size, Sizes, Kind
  <2>2. inst' \in Inst(Sizes')
    BY <1>0, <1>1, <2>1, WithAddrOk, SizesOk DEF IInv, InstancesInv
  <2>3. Owners' = Owners /\ Known' = Known /\ Building' = Building
    BY <1>0, <1>1 DEF Owners, Known, Building
  <2>4. PoolsInv' /\ MarksInv'
    BY <1>0, <1>1, <2>3 DEF IInv, PoolsInv, MarksInv
  <2>5. InstancesInv'
    BY <1>0, <1>1, <2>2, <2>3 DEF IInv, InstancesInv
  <2>6. MachineInv' /\ CallInv'
    BY <1>0, <1>1 DEF IInv, MachineInv, CallInv
  <2> QED
    BY <2>4, <2>5, <2>6 DEF IInv
<1>2. CASE Finish("link")
  BY <1>0, <1>2, FinishOk
<1> QED
  BY <1>1, <1>2

\* The module's functions get the id their instance will have.
LEMMA AllocFuncsOk == IInv /\ AllocFuncs => IInv'
<1> SUFFICES ASSUME IInv, AllocFuncs
             PROVE  IInv'
  OBVIOUS
<1> DEFINE new  == [i \in DOMAIN mod.funcs |->
                      [ty |-> mod.types[mod.funcs[i]], inst |-> Len(instances) + 1]]
           adrs == [i \in DOMAIN mod.funcs |-> Len(funcs) + i]
<1>0. /\ phase = "import" /\ phase' = "alloc" /\ ~ Building /\ Building' /\ base' = Sizes
      /\ k' = 1 /\ mod \in Module /\ funcs' = funcs \o new
      /\ inst' = [inst EXCEPT !.addrs.func = @ \o adrs]
      /\ \A i \in DOMAIN mod.funcs : mod.funcs[i] \in DOMAIN mod.types
      /\ UNCHANGED <<tables, mems, globals, instances, code, mod, ret, frames, held, ops>>
  BY StoreAssumption DEF AllocFuncs, Building, runVars, IInv, CallInv
<1>1. /\ Len(mod.funcs) \in Nat /\ DOMAIN mod.funcs = 1..Len(mod.funcs)
      /\ Len(instances) \in Nat /\ Len(funcs) \in Nat
      /\ \A i \in DOMAIN mod.types : mod.types[i] \in FuncType
  <2>1. mod.funcs \in Seq(Nat) /\ mod.types \in Seq(FuncType)
    BY <1>0 DEF Module
  <2> QED
    BY <2>1, LenProperties, ElementOfSeq, KnownOk, SizesOk DEF IInv
<1>2. new \in Seq(FuncInst(Len(instances) + 1)) /\ Len(new) = Len(mod.funcs)
  <2>1. new \in [1..Len(mod.funcs) -> FuncInst(Len(instances) + 1)]
    BY <1>0, <1>1 DEF FuncInst
  <2> QED
    BY <2>1, <1>1, FunSeq
<1> HIDE DEF new
<1>3. /\ funcs' \in Seq(FuncInst(Len(instances) + 1))
      /\ Len(funcs') = Len(funcs) + Len(mod.funcs)
      /\ tables' \in Seq(TableInst(Len(funcs')))
      /\ globals' \in Seq(GlobalInst(Len(funcs')))
      /\ Leq(Sizes, Sizes') /\ Sizes' \in SizeType
      /\ base' \in SizeType
      /\ \A a \in 1..base'.func   : funcs'[a] \in FuncInst(Len(instances'))
      /\ \A a \in 1..base'.table  : tables'[a] \in TableInst(base'.func)
      /\ \A a \in 1..base'.global : globals'[a] \in GlobalInst(base'.func)
  BY <1>0, <1>2, GrowFuncs
<1>4. PoolsInv' /\ MarksInv'
  BY <1>0, <1>3 DEF PoolsInv, Owners, IInv, MarksInv
<1>5. InstancesInv'
  <2>1. adrs \in Seq(1..Sizes'.func)
    <3>1. adrs \in [1..Len(mod.funcs) -> 1..Sizes'.func]
      BY <1>1, <1>3 DEF Sizes
    <3> QED
      BY <3>1, <1>1, FunSeq
  <2> HIDE DEF adrs
  <2>2. inst \in Inst(Sizes')
    BY <1>3, InstMono, SizesOk DEF IInv, InstancesInv
  <2>3. inst.addrs.func \o adrs \in Seq(1..Sizes'.func)
    BY <2>1, <2>2, ConcatProperties DEF Inst, Addrs
  <2>4. [inst.addrs EXCEPT !.func = @ \o adrs] \in Addrs(Sizes')
    BY <2>2, <2>3 DEF Inst, Addrs
  <2>5. inst' \in Inst(Sizes')
    BY <1>0, <2>2, <2>4 DEF Inst
  <2>6. Known' = Known
    BY <1>0 DEF Known
  <2> QED
    BY <1>0, <2>5, <2>6 DEF InstancesInv, IInv
<1>6. MachineInv' /\ CallInv'
  BY <1>0 DEF IInv, MachineInv, CallInv
<1> QED
  BY <1>4, <1>5, <1>6 DEF IInv

\* A global is initialized from what is already there.
LEMMA AllocGlobalOk == IInv /\ AllocGlobal => IInv'
<1> SUFFICES ASSUME IInv, AllocGlobal
             PROVE  IInv'
  OBVIOUS
<1> DEFINE g == mod.globals[k]
           e == [ty |-> g.ty, val |-> EvalConst(inst, g.init)]
<1>0. /\ phase = "alloc" /\ Building /\ mod \in Module /\ k \in DOMAIN mod.globals
      /\ Evaluable(inst, g.init) /\ globals' = Append(globals, e) /\ k' = k + 1
      /\ inst' = WithAddr(inst, "global", Len(globals) + 1)
      /\ UNCHANGED <<funcs, tables, mems, instances, code, phase, mod, base, ret, runVars>>
  BY StoreAssumption DEF IInv, CallInv, AllocGlobal, Building
<1>1. g \in [ty : GlobalType, init : ConstExpr]
  <2>1. mod.globals \in Seq([ty : GlobalType, init : ConstExpr])
    BY <1>0 DEF Module
  <2> QED
    BY <1>0, <2>1, ElementOfSeq, LenProperties
<1>2. e \in GlobalInst(Len(funcs))
  BY <1>0, <1>1, EvalConstOk DEF IInv, InstancesInv, GlobalInst
<1>3. inst' = WithAddr(inst, "global", Sizes["global"] + 1)
  BY <1>0 DEF Sizes
<1> HIDE DEF e
<1> QED
  BY <1>0, <1>2, <1>3, AppendStep

\* A table starts with null references, or the call is rolled back.
LEMMA AllocTableOk == IInv /\ AllocTable => IInv'
<1> SUFFICES ASSUME IInv, AllocTable
             PROVE  IInv'
  OBVIOUS
<1> DEFINE i == k - Len(mod.globals)
           e == NewTable(mod.tables[i])
<1>0. phase = "alloc" /\ Building /\ mod \in Module /\ i \in DOMAIN mod.tables
  BY StoreAssumption DEF IInv, CallInv, AllocTable, Building
<1>1. mod.tables[i] \in TableType
  <2>1. mod.tables \in Seq(TableType)
    BY <1>0 DEF Module
  <2> QED
    BY <1>0, <2>1, ElementOfSeq, LenProperties
<1>2. CASE /\ tables' = Append(tables, e)
           /\ inst' = WithAddr(inst, "table", Len(tables) + 1)
           /\ k' = k + 1
           /\ UNCHANGED <<funcs, mems, globals, instances, code, phase, mod, base, ret, runVars>>
  <2>1. e \in TableInst(Len(funcs))
    BY <1>1, NewTableOk, SizesOk DEF IInv
  <2>2. inst' = WithAddr(inst, "table", Sizes["table"] + 1)
    BY <1>2 DEF Sizes
  <2> HIDE DEF e
  <2> QED
    BY <1>0, <1>2, <2>1, <2>2, AppendStep
<1>3. CASE Rollback
  BY <1>0, <1>3, RollbackOk
<1> QED
  BY <1>2, <1>3 DEF AllocTable

\* A memory is added, or the call is rolled back.
LEMMA AllocMemOk == IInv /\ AllocMem => IInv'
<1> SUFFICES ASSUME IInv, AllocMem
             PROVE  IInv'
  OBVIOUS
<1> DEFINE i == k - Len(mod.globals) - Len(mod.tables)
           e == [ty |-> mod.mems[i], pages |-> mod.mems[i].limits.min]
<1>0. phase = "alloc" /\ Building /\ mod \in Module /\ i \in DOMAIN mod.mems
  BY StoreAssumption DEF IInv, CallInv, AllocMem, Building
<1>1. mod.mems[i] \in MemType
  <2>1. mod.mems \in Seq(MemType)
    BY <1>0 DEF Module
  <2> QED
    BY <1>0, <2>1, ElementOfSeq, LenProperties
<1>2. CASE /\ mems' = Append(mems, e)
           /\ inst' = WithAddr(inst, "mem", Len(mems) + 1)
           /\ k' = k + 1
           /\ UNCHANGED <<funcs, tables, globals, instances, code, phase, mod, base, ret, runVars>>
  <2>1. e \in MemInst
    BY <1>1 DEF MemInst, MemType, Limits
  <2>2. inst' = WithAddr(inst, "mem", Sizes["mem"] + 1)
    BY <1>2 DEF Sizes
  <2> HIDE DEF e
  <2> QED
    BY <1>0, <1>2, <2>1, <2>2, AppendStep
<1>3. CASE Rollback
  BY <1>0, <1>3, RollbackOk
<1> QED
  BY <1>2, <1>3 DEF AllocMem

\* The published instance refers to entries of the store only.
LEMMA PublishInstanceOk == IInv /\ PublishInstance => IInv'
<1> SUFFICES ASSUME IInv, PublishInstance
             PROVE  IInv'
  OBVIOUS
<1> DEFINE els == [i \in DOMAIN mod.elems |->
                     [j \in DOMAIN mod.elems[i].init |->
                        EvalConst(inst, mod.elems[i].init[j])]]
           das == [i \in DOMAIN mod.datas |-> mod.datas[i].len]
           exs == [i \in DOMAIN mod.exports |->
                     LET x == mod.exports[i] IN
                     [name |-> x.name,
                      ev |-> [kind |-> x.kind, addr |-> inst.addrs[x.kind][x.idx]]]]
           in  == [exports |-> exs, addrs |-> inst.addrs, elems |-> els, datas |-> das]
<1>0. /\ phase = "alloc" /\ Building /\ phase' = "segments" /\ mod \in Module
      /\ \A i \in DOMAIN mod.elems : \A j \in DOMAIN mod.elems[i].init :
           Evaluable(inst, mod.elems[i].init[j])
      /\ \A i \in DOMAIN mod.exports :
           mod.exports[i].idx \in DOMAIN inst.addrs[mod.exports[i].kind]
      /\ Publish(in) /\ k' = 1 /\ inst' = EmptyInstance /\ base' = Zero
      /\ UNCHANGED <<funcs, tables, mems, globals, mod, ret, frames, held, ops>>
  BY StoreAssumption DEF IInv, CallInv, PublishInstance, Building, runVars
<1>1. inst \in Inst(Sizes) /\ PoolsInv
  BY DEF IInv, InstancesInv
<1>2. els \in Seq(Seq(RefValue(Len(funcs)))) /\ DOMAIN els = DOMAIN mod.elems
  <2>0. mod.elems \in Seq(Elem)
    BY <1>0 DEF Module
  <2>1. /\ DOMAIN mod.elems = 1..Len(mod.elems) /\ Len(mod.elems) \in Nat
        /\ \A i \in DOMAIN mod.elems : mod.elems[i] \in Elem
    BY <2>0, LenProperties, ElementOfSeq
  <2>2. ASSUME NEW i \in DOMAIN mod.elems
        PROVE  els[i] \in Seq(RefValue(Len(funcs)))
    <3>1. mod.elems[i].init \in Seq(ConstExpr)
      BY <2>1 DEF Elem
    <3>2. /\ DOMAIN mod.elems[i].init = 1..Len(mod.elems[i].init)
          /\ Len(mod.elems[i].init) \in Nat
          /\ \A j \in DOMAIN mod.elems[i].init : mod.elems[i].init[j] \in ConstExpr
      BY <3>1, LenProperties, ElementOfSeq
    <3>3. \A j \in DOMAIN mod.elems[i].init :
            EvalConst(inst, mod.elems[i].init[j]) \in RefValue(Len(funcs))
      BY <1>0, <1>1, <3>2, EvalConstOk
    <3>4. els[i] \in [1..Len(mod.elems[i].init) -> RefValue(Len(funcs))]
      BY <3>2, <3>3
    <3> QED
      BY <3>2, <3>4, FunSeq
  <2>3. els \in [1..Len(mod.elems) -> Seq(RefValue(Len(funcs)))]
    BY <2>1, <2>2
  <2> QED
    BY <2>1, <2>3, FunSeq
<1>3. das \in Seq(Nat) /\ DOMAIN das = DOMAIN mod.datas
  <2>0. mod.datas \in Seq(Data)
    BY <1>0 DEF Module
  <2>1. /\ DOMAIN mod.datas = 1..Len(mod.datas) /\ Len(mod.datas) \in Nat
        /\ \A i \in DOMAIN mod.datas : mod.datas[i] \in Data
    BY <2>0, LenProperties, ElementOfSeq
  <2>2. das \in [1..Len(mod.datas) -> Nat]
    BY <2>1 DEF Data
  <2> QED
    BY <2>1, <2>2, FunSeq
<1>4. exs \in Seq([name : STRING, ev : Extern(Sizes)])
  <2>0. mod.exports \in Seq([name : STRING, kind : Kind, idx : Nat])
    BY <1>0 DEF Module
  <2>1. /\ DOMAIN mod.exports = 1..Len(mod.exports) /\ Len(mod.exports) \in Nat
        /\ \A i \in DOMAIN mod.exports :
             mod.exports[i] \in [name : STRING, kind : Kind, idx : Nat]
    BY <2>0, LenProperties, ElementOfSeq
  <2>2. ASSUME NEW i \in DOMAIN mod.exports
        PROVE  exs[i] \in [name : STRING, ev : Extern(Sizes)]
    <3> DEFINE x == mod.exports[i]
    <3>1. x.kind \in Kind /\ x.name \in STRING /\ x.idx \in DOMAIN inst.addrs[x.kind]
      BY <2>1, <1>0
    <3>2. inst.addrs[x.kind] \in Seq(1..Sizes[x.kind])
      BY <1>1, <3>1 DEF Inst, Addrs, Kind
    <3>3. inst.addrs[x.kind][x.idx] \in 1..Sizes[x.kind]
      BY <3>1, <3>2, LenProperties, ElementOfSeq
    <3>4. [kind |-> x.kind, addr |-> inst.addrs[x.kind][x.idx]] \in Extern(Sizes)
      BY <3>1, <3>3, SizesOk, <1>1, ExternOk DEF IInv
    <3> QED
      BY <3>1, <3>4
  <2>3. exs \in [1..Len(mod.exports) -> [name : STRING, ev : Extern(Sizes)]]
    BY <2>1, <2>2
  <2> QED
    BY <2>1, <2>3, FunSeq
<1> HIDE DEF els, das, exs
<1>5. in \in Inst(Sizes) /\ in.elems = els /\ in.datas = das
  <2>1. inst.addrs \in Addrs(Sizes) /\ Sizes.func = Len(funcs)
    BY <1>1 DEF Inst, Sizes
  <2> QED
    BY <1>2, <1>3, <1>4, <2>1 DEF Inst
<1> HIDE DEF in
<1>6. /\ PoolsInv' /\ MarksInv' /\ InstancesInv'
      /\ Len(instances') = Len(instances) + 1 /\ Len(instances) \in Nat
      /\ instances'[Len(instances')] = in
  BY <1>0, <1>5, PublishStep
<1>7. MachineInv'
  BY <1>0, <1>6, EmptySeq DEF MachineInv, IInv
<1>8. CallInv'
  <2>1. instances' # <<>>
    BY <1>6, EmptySeq
  <2> QED
    BY <1>0, <1>2, <1>3, <1>5, <1>6, <2>1 DEF CallInv, IInv
<1> QED
  BY <1>6, <1>7, <1>8 DEF IInv

-----------------------------------------------------------------------------
(* instantiate keeps the invariant, after the publication.                 *)

\* The contents of the store change, its sizes may only grow.
LEMMA ContentStep ==
  ASSUME IInv, ~ Building, ~ Building', base' \in SizeType,
         UNCHANGED <<funcs, code, inst>>,
         tables' \in Seq(TableInst(Len(funcs))), Len(tables') = Len(tables),
         mems' \in Seq(MemInst), Len(mems') = Len(mems),
         globals' \in Seq(GlobalInst(Len(funcs))), Len(globals') = Len(globals),
         instances' \in Seq(Inst(Sizes)), Len(instances') = Len(instances)
  PROVE  PoolsInv' /\ MarksInv' /\ InstancesInv' /\ Sizes' = Sizes
<1>1. /\ Sizes' = Sizes /\ Known' = Sizes
      /\ Owners = Len(instances) /\ Owners' = Len(instances)
  BY DEF Sizes, Known, Owners, Building
<1>2. PoolsInv'
  BY <1>1 DEF IInv, PoolsInv
<1>3. MarksInv'
  BY DEF MarksInv
<1>4. InstancesInv'
  BY <1>1 DEF IInv, InstancesInv
<1> QED
  BY <1>1, <1>2, <1>3, <1>4

\* Outside the allocation loops the published instances know all the store.
LEMMA Published ==
  ASSUME IInv, ~ Building
  PROVE  /\ instances \in Seq(Inst(Sizes)) /\ Len(instances) \in Nat
         /\ Sizes \in SizeType /\ base \in SizeType
         /\ DOMAIN instances = 1..Len(instances)
         /\ \A i \in DOMAIN instances : instances[i] \in Inst(Sizes)
         /\ tables \in Seq(TableInst(Len(funcs))) /\ DOMAIN tables = 1..Len(tables)
         /\ mems \in Seq(MemInst) /\ DOMAIN mems = 1..Len(mems)
         /\ globals \in Seq(GlobalInst(Len(funcs))) /\ DOMAIN globals = 1..Len(globals)
         /\ funcs \in Seq(FuncInst(Len(instances))) /\ DOMAIN funcs = 1..Len(funcs)
<1>1. instances \in Seq(Inst(Sizes))
  BY DEF IInv, InstancesInv, Known
<1>2. /\ Len(instances) \in Nat /\ DOMAIN instances = 1..Len(instances)
      /\ \A i \in DOMAIN instances : instances[i] \in Inst(Sizes)
  BY <1>1, LenProperties, ElementOfSeq
<1>3. /\ tables \in Seq(TableInst(Len(funcs)))
      /\ mems \in Seq(MemInst)
      /\ globals \in Seq(GlobalInst(Len(funcs)))
      /\ funcs \in Seq(FuncInst(Len(instances)))
  BY DEF IInv, PoolsInv, Owners, Building
<1>4. /\ DOMAIN tables = 1..Len(tables) /\ DOMAIN mems = 1..Len(mems)
      /\ DOMAIN globals = 1..Len(globals) /\ DOMAIN funcs = 1..Len(funcs)
  BY <1>3, LenProperties
<1> QED
  BY <1>1, <1>2, <1>3, <1>4, KnownOk DEF IInv, MarksInv

\* The address an instance holds at an index of one of its vectors.
LEMMA AddrOk ==
  ASSUME NEW z \in SizeType, NEW in \in Inst(z), NEW kind \in Kind,
         NEW i \in DOMAIN in.addrs[kind]
  PROVE  in.addrs[kind][i] \in 1..z[kind]
<1>1. in.addrs[kind] \in Seq(1..z[kind])
  BY DEF Inst, Addrs, Kind
<1> QED
  BY <1>1, LenProperties, ElementOfSeq

\* Replacing the elements of a table.
LEMMA SetElemsOk ==
  ASSUME IInv, ~ Building, NEW a \in 1..Len(tables),
         NEW new \in Seq(RefValue(Len(funcs))), SetElems(a, new)
  PROVE  tables' \in Seq(TableInst(Len(funcs))) /\ Len(tables') = Len(tables)
<1>1. tables \in Seq(TableInst(Len(funcs)))
  BY Published
<1>2. tables[a] \in TableInst(Len(funcs))
  BY <1>1, ElementOfSeq
<1> DEFINE t == [tables[a] EXCEPT !.elems = new]
<1>3. t \in TableInst(Len(funcs))
  BY <1>2 DEF TableInst
<1>4. tables' = [tables EXCEPT ![a] = t]
  BY DEF SetElems
<1> HIDE DEF t
<1> QED
  BY <1>1, <1>3, <1>4, ExceptSeq

\* Dropping an element segment of an instance.
LEMMA DropElemOk ==
  ASSUME IInv, ~ Building, NEW i \in DOMAIN instances,
         NEW e \in DOMAIN instances[i].elems,
         instances' = [instances EXCEPT ![i].elems[e] = <<>>]
  PROVE  /\ instances' \in Seq(Inst(Sizes)) /\ Len(instances') = Len(instances)
         /\ DOMAIN instances'[i].elems = DOMAIN instances[i].elems
         /\ instances'[i].datas = instances[i].datas
<1>1. instances[i] \in Inst(Sizes) /\ i \in 1..Len(instances)
  BY Published
<1>2. instances[i].elems \in Seq(Seq(RefValue(Sizes.func)))
  BY <1>1 DEF Inst
<1> DEFINE es == [instances[i].elems EXCEPT ![e] = <<>>]
           in == [instances[i] EXCEPT !.elems = es]
<1>3. es \in Seq(Seq(RefValue(Sizes.func))) /\ DOMAIN es = DOMAIN instances[i].elems
  <2>1. <<>> \in Seq(RefValue(Sizes.func)) /\ e \in 1..Len(instances[i].elems)
    BY <1>2, EmptySeq, LenProperties
  <2> QED
    BY <1>2, <2>1, ExceptSeq
<1> HIDE DEF es
<1>4. in \in Inst(Sizes) /\ in.elems = es /\ in.datas = instances[i].datas
  BY <1>1, <1>3 DEF Inst
<1>5. instances' = [instances EXCEPT ![i] = in]
  BY DEF es
<1> HIDE DEF in
<1>6. instances' \in Seq(Inst(Sizes)) /\ Len(instances') = Len(instances) /\ instances'[i] = in
  <2>1. instances \in Seq(Inst(Sizes))
    BY Published
  <2> QED
    BY <2>1, <1>1, <1>4, <1>5, ExceptSeq
<1> QED
  BY <1>3, <1>4, <1>6

\* Dropping a data segment of an instance.
LEMMA DropDataOk ==
  ASSUME IInv, ~ Building, NEW i \in DOMAIN instances,
         NEW d \in DOMAIN instances[i].datas,
         instances' = [instances EXCEPT ![i].datas[d] = 0]
  PROVE  /\ instances' \in Seq(Inst(Sizes)) /\ Len(instances') = Len(instances)
         /\ DOMAIN instances'[i].datas = DOMAIN instances[i].datas
         /\ instances'[i].elems = instances[i].elems
<1>1. instances[i] \in Inst(Sizes) /\ i \in 1..Len(instances)
  BY Published
<1>2. instances[i].datas \in Seq(Nat)
  BY <1>1 DEF Inst
<1> DEFINE ds == [instances[i].datas EXCEPT ![d] = 0]
           in == [instances[i] EXCEPT !.datas = ds]
<1>3. ds \in Seq(Nat) /\ DOMAIN ds = DOMAIN instances[i].datas
  <2>1. d \in 1..Len(instances[i].datas)
    BY <1>2, LenProperties
  <2> QED
    BY <1>2, <2>1, ExceptSeq
<1> HIDE DEF ds
<1>4. in \in Inst(Sizes) /\ in.datas = ds /\ in.elems = instances[i].elems
  BY <1>1, <1>3 DEF Inst
<1>5. instances' = [instances EXCEPT ![i] = in]
  BY DEF ds
<1> HIDE DEF in
<1>6. instances' \in Seq(Inst(Sizes)) /\ Len(instances') = Len(instances) /\ instances'[i] = in
  <2>1. instances \in Seq(Inst(Sizes))
    BY Published
  <2> QED
    BY <2>1, <1>1, <1>4, <1>5, ExceptSeq
<1> QED
  BY <1>3, <1>4, <1>6

\* The next segment: content changed, the call goes on.
LEMMA SegmentStep ==
  ASSUME IInv, phase = "segments", NextSegment,
         UNCHANGED <<funcs, globals, mems, code>>,
         tables' \in Seq(TableInst(Len(funcs))), Len(tables') = Len(tables),
         instances' \in Seq(Inst(Sizes)), Len(instances') = Len(instances),
         DOMAIN instances'[Len(instances)].elems = DOMAIN instances[Len(instances)].elems,
         DOMAIN instances'[Len(instances)].datas = DOMAIN instances[Len(instances)].datas
  PROVE  IInv'
<1> USE DEF NextSegment, runVars
<1>1. ~ Building /\ ~ Building'
  BY DEF Building
<1>2. /\ PoolsInv' /\ MarksInv' /\ InstancesInv'
  BY <1>1, Published, ContentStep
<1>3. MachineInv'
  BY DEF IInv, MachineInv
<1>4. CallInv'
  <2>1. instances' # <<>>
    BY <1>1, EmptySeq, Published DEF IInv, CallInv
  <2> QED
    BY <2>1 DEF IInv, CallInv
<1> QED
  BY <1>2, <1>3, <1>4 DEF IInv

\* An element segment writes resolvable references into a table.
LEMMA ApplyElemOk == IInv /\ ApplyElem => IInv'
<1> SUFFICES ASSUME IInv, ApplyElem
             PROVE  IInv'
  OBVIOUS
<1> DEFINE id  == Len(instances)
           e   == mod.elems[k]
           seg == instances[id].elems[k]
           a   == instances[id].addrs.table[e.table]
           off == EvalConst(instances[id], e.offset).bits
           cleared == [instances EXCEPT ![id].elems[k] = <<>>]
<1>0. /\ phase = "segments" /\ ~ Building /\ mod \in Module /\ k \in DOMAIN mod.elems
      /\ instances # <<>> /\ k \in DOMAIN instances[id].elems
  BY StoreAssumption DEF IInv, CallInv, ApplyElem, Building
<1>1. id \in DOMAIN instances /\ instances[id] \in Inst(Sizes)
  BY <1>0, Published, EmptySeq
<1>2. e \in Elem
  <2>1. mod.elems \in Seq(Elem)
    BY <1>0 DEF Module
  <2> QED
    BY <1>0, <2>1, ElementOfSeq, LenProperties
<1>3. CASE NextSegment /\ UNCHANGED storeVars
  BY <1>0, <1>3, Published, SegmentStep DEF storeVars
<1>4. CASE /\ instances' = cleared
           /\ NextSegment /\ UNCHANGED <<funcs, tables, mems, globals, code>>
  BY <1>0, <1>1, <1>4, Published, DropElemOk, SegmentStep
<1>5. CASE /\ e.table \in DOMAIN instances[id].addrs.table
           /\ Evaluable(instances[id], e.offset)
           /\ tables' = [tables EXCEPT ![a].elems = CopyInto(@, off, seg)]
           /\ instances' = cleared
           /\ NextSegment /\ UNCHANGED <<funcs, mems, globals, code>>
  <2>1. a \in 1..Len(tables)
    BY <1>1, <1>5, AddrOk, Published, <1>0 DEF Kind, Sizes
  <2>2. off \in Nat
    <3>1. EvalConst(instances[id], e.offset) \in RefValue(Len(funcs))
      BY <1>1, <1>2, <1>5, EvalConstOk DEF IInv, Elem
    <3> QED
      BY <3>1 DEF RefValue, Value
  <2>3. seg \in Seq(RefValue(Len(funcs)))
    <3>1. instances[id].elems \in Seq(Seq(RefValue(Len(funcs))))
      BY <1>1 DEF Inst, Sizes
    <3> QED
      BY <1>0, <3>1, ElementOfSeq, LenProperties
  <2>4. tables[a].elems \in Seq(RefValue(Len(funcs)))
    <3>1. tables \in Seq(TableInst(Len(funcs)))
      BY <1>0, Published
    <3>2. tables[a] \in TableInst(Len(funcs))
      BY <2>1, <3>1, ElementOfSeq
    <3> QED
      BY <3>2 DEF TableInst
  <2>5. SetElems(a, CopyInto(tables[a].elems, off, seg))
    BY <1>5 DEF SetElems
  <2> HIDE DEF off, seg, a
  <2>6. tables' \in Seq(TableInst(Len(funcs))) /\ Len(tables') = Len(tables)
    BY <1>0, <2>1, <2>2, <2>3, <2>4, <2>5, CopyIntoOk, SetElemsOk
  <2>7. /\ instances' \in Seq(Inst(Sizes)) /\ Len(instances') = Len(instances)
        /\ DOMAIN instances'[id].elems = DOMAIN instances[id].elems
        /\ instances'[id].datas = instances[id].datas
    BY <1>0, <1>1, <1>5, DropElemOk
  <2> QED
    BY <1>0, <1>5, <2>6, <2>7, SegmentStep
<1>6. CASE Trapped
  BY <1>0, <1>6, FinishOk DEF Trapped, storeVars
<1> QED
  BY <1>3, <1>4, <1>5, <1>6 DEF ApplyElem

\* A data segment drops itself or traps.
LEMMA ApplyDataOk == IInv /\ ApplyData => IInv'
<1> SUFFICES ASSUME IInv, ApplyData
             PROVE  IInv'
  OBVIOUS
<1> DEFINE i  == k - Len(mod.elems)
           id == Len(instances)
<1>0. /\ phase = "segments" /\ ~ Building /\ i \in DOMAIN mod.datas
      /\ instances # <<>> /\ i \in DOMAIN instances[id].datas
  BY DEF IInv, CallInv, ApplyData, Building
<1>1. id \in DOMAIN instances
  BY <1>0, Published, EmptySeq
<1>2. CASE NextSegment /\ UNCHANGED storeVars
  BY <1>0, <1>2, Published, SegmentStep DEF storeVars
<1>3. CASE /\ instances' = [instances EXCEPT ![id].datas[i] = 0]
           /\ NextSegment /\ UNCHANGED <<funcs, tables, mems, globals, code>>
  BY <1>0, <1>1, <1>3, Published, DropDataOk, SegmentStep
<1>4. CASE Trapped
  BY <1>0, <1>4, FinishOk DEF Trapped, storeVars
<1> QED
  BY <1>2, <1>3, <1>4 DEF ApplyData

-----------------------------------------------------------------------------
(* Calls keep the invariant.                                               *)

\* Checked values from the embedder carry references the store resolves.
LEMMA RefsInOk ==
  ASSUME NEW vs \in EmbedderVectors,
         \A i \in DOMAIN vs : vs[i].ty = "funcref" => vs[i].bits \in 0..Len(funcs)
  PROVE  RefsIn(vs) \subseteq RefValue(Len(funcs))
<1>1. \A i \in DOMAIN vs : vs[i] \in Value
  BY StoreAssumption DEF EmbedderVectors
<1> QED
  BY <1>1 DEF RefsIn, RefValue

\* A function is entered: a host one at once, a Wasm one in a new machine.
LEMMA EnterOk ==
  ASSUME IInv, phase \in {"idle", "segments"}, NEW a \in 1..Len(funcs), NEW args,
         RefsIn(args) \subseteq RefValue(Len(funcs)), Enter(a, args)
  PROVE  IInv'
<1>0. ~ Building
  BY DEF Building
<1>1. CASE /\ Finish("ok") \/ Finish("trap")
           /\ UNCHANGED <<storeVars, ops>>
  BY <1>0, <1>1, FinishOk
<1>2. CASE /\ funcs[a].inst # 0
           /\ phase' = "run" /\ frames' = <<funcs[a].inst>> /\ held' = RefsIn(args)
           /\ ret' = "none" /\ mod' = NoModule /\ k' = 0
           /\ UNCHANGED <<storeVars, inst, base, ops>>
  <2> USE DEF storeVars
  <2>1. /\ ~ Building' /\ Len(instances) \in Nat /\ base \in SizeType
        /\ funcs[a] \in FuncInst(Len(instances))
    BY <1>0, <1>2, Published, ElementOfSeq DEF Building
  <2>2. PoolsInv' /\ MarksInv' /\ InstancesInv'
    BY <1>0, <1>2, <2>1, Published, ContentStep
  <2>3. funcs[a].inst \in 1..Len(instances)
    BY <1>2, <2>1 DEF FuncInst
  <2>4. MachineInv'
    BY <1>2, <2>3 DEF MachineInv
  <2>5. CallInv'
    BY <1>2 DEF IInv, CallInv
  <2> QED
    BY <2>2, <2>4, <2>5 DEF IInv
<1> QED
  BY <1>1, <1>2 DEF Enter

\* instantiate ends, or enters the start function.
LEMMA RunStartOk == IInv /\ RunStart => IInv'
<1> SUFFICES ASSUME IInv, RunStart
             PROVE  IInv'
  OBVIOUS
<1> DEFINE in == instances[Len(instances)]
<1>0. phase = "segments" /\ ~ Building /\ instances # <<>>
  BY DEF IInv, CallInv, RunStart, Building
<1>1. in \in Inst(Sizes)
  BY <1>0, Published, EmptySeq
<1>2. CASE Finish("ok") /\ UNCHANGED <<storeVars, ops>>
  BY <1>0, <1>2, FinishOk
<1>3. CASE mod.start \in DOMAIN in.addrs.func /\ Enter(in.addrs.func[mod.start], <<>>)
  <2>1. in.addrs.func[mod.start] \in 1..Len(funcs)
    BY <1>0, <1>1, <1>3, AddrOk, Published DEF Kind, Sizes
  <2>2. RefsIn(<<>>) \subseteq RefValue(Len(funcs))
    BY DEF RefsIn
  <2> QED
    BY <1>0, <1>3, <2>1, <2>2, EnterOk
<1> QED
  BY <1>2, <1>3 DEF RunStart

\* An exported function is entered with checked arguments.
LEMMA InvokeExportOk == IInv /\ InvokeExport => IInv'
<1> SUFFICES ASSUME IInv, InvokeExport
             PROVE  IInv'
  OBVIOUS
<1>0. phase = "idle" /\ ~ Building
  BY DEF InvokeExport, Building
<1> PICK i \in DOMAIN instances : \E x \in DOMAIN instances[i].exports :
       LET ev == instances[i].exports[x].ev IN
       \E args \in EmbedderVectors :
         LET accepted == ev.kind = "func" /\ ArgsOk(funcs[ev.addr].ty, args) IN
         \/ accepted /\ Enter(ev.addr, args)
         \/ ~ accepted /\ Finish("refused") /\ UNCHANGED <<storeVars, ops>>
  BY DEF InvokeExport
<1> PICK x \in DOMAIN instances[i].exports :
       LET ev == instances[i].exports[x].ev IN
       \E args \in EmbedderVectors :
         LET accepted == ev.kind = "func" /\ ArgsOk(funcs[ev.addr].ty, args) IN
         \/ accepted /\ Enter(ev.addr, args)
         \/ ~ accepted /\ Finish("refused") /\ UNCHANGED <<storeVars, ops>>
  OBVIOUS
<1> DEFINE ev == instances[i].exports[x].ev
<1> PICK args \in EmbedderVectors :
         \/ ev.kind = "func" /\ ArgsOk(funcs[ev.addr].ty, args) /\ Enter(ev.addr, args)
         \/ Finish("refused") /\ UNCHANGED <<storeVars, ops>>
  OBVIOUS
<1>1. CASE ev.kind = "func" /\ ArgsOk(funcs[ev.addr].ty, args) /\ Enter(ev.addr, args)
  <2>1. instances[i].exports \in Seq([name : STRING, ev : Extern(Sizes)])
    BY <1>0, Published DEF Inst
  <2>2. ev \in Extern(Sizes)
    <3>1. x \in 1..Len(instances[i].exports)
      BY <2>1, LenProperties
    <3>2. instances[i].exports[x] \in [name : STRING, ev : Extern(Sizes)]
      BY <2>1, <3>1, ElementOfSeq
    <3> QED
      BY <3>2
  <2>3. ev.addr \in 1..Len(funcs)
    <3> HIDE DEF ev
    <3>1. ev.addr \in 1..Sizes["func"]
      BY <1>1, <2>2, ExternAddr
    <3> QED
      BY <3>1 DEF Sizes
  <2>4. RefsIn(args) \subseteq RefValue(Len(funcs))
    BY <1>1, RefsInOk DEF ArgsOk
  <2> HIDE DEF ev
  <2> QED
    BY <1>0, <1>1, <2>3, <2>4, EnterOk
<1>2. CASE Finish("refused") /\ UNCHANGED <<storeVars, ops>>
  BY <1>0, <1>2, FinishOk
<1> QED
  BY <1>1, <1>2

-----------------------------------------------------------------------------
(* Instructions keep the invariant.                                        *)

\* What every instruction has in common: the call goes on in the same phase,
\* the store changes its contents, the machine holds resolvable references.
LEMMA RunStep ==
  ASSUME IInv, phase = "run", UNCHANGED <<funcs, code, phase, callVars, ret>>, ops' \in Nat,
         tables' \in Seq(TableInst(Len(funcs))), Len(tables') = Len(tables),
         mems' \in Seq(MemInst), Len(mems') = Len(mems),
         globals' \in Seq(GlobalInst(Len(funcs))), Len(globals') = Len(globals),
         instances' \in Seq(Inst(Sizes)), Len(instances') = Len(instances),
         held' \subseteq RefValue(Len(funcs)),
         frames' \in Seq(1..Len(instances)), frames' # <<>>
  PROVE  IInv'
<1> USE DEF callVars
<1>1. ~ Building /\ ~ Building' /\ base' \in SizeType
  BY Published DEF Building
<1>2. PoolsInv' /\ MarksInv' /\ InstancesInv'
  BY <1>1, ContentStep
<1>3. MachineInv'
  BY DEF MachineInv
<1>4. CallInv'
  BY DEF IInv, CallInv
<1> QED
  BY <1>2, <1>3, <1>4 DEF IInv

\* An instruction that leaves the store alone.
LEMMA StackStep ==
  ASSUME IInv, phase = "run", UNCHANGED <<storeVars, phase, callVars, ret>>, ops' \in Nat,
         held' \subseteq RefValue(Len(funcs)),
         frames' \in Seq(1..Len(instances)), frames' # <<>>
  PROVE  IInv'
<1>1. ~ Building
  BY DEF Building
<1> QED
  BY <1>1, Published, RunStep DEF storeVars

\* The frame on top runs in a published instance.
LEMMA TopOk ==
  ASSUME IInv, phase = "run"
  PROVE  /\ ~ Building /\ ops \in Nat /\ ops + 1 \in Nat
         /\ frames \in Seq(1..Len(instances)) /\ frames # <<>> /\ Len(frames) \in Nat \ {0}
         /\ frames[Len(frames)] \in DOMAIN instances /\ Top \in Inst(Sizes)
         /\ held \subseteq RefValue(Len(funcs)) /\ Sizes \in SizeType
<1>1. ~ Building /\ ops \in Nat
  BY DEF Building, IInv, CallInv
<1>2. frames \in Seq(1..Len(instances)) /\ frames # <<>> /\ held \subseteq RefValue(Len(funcs))
  BY DEF IInv, MachineInv
<1>3. Len(frames) \in Nat \ {0}
  BY <1>2, EmptySeq, LenProperties
<1>4. frames[Len(frames)] \in 1..Len(instances)
  BY <1>2, <1>3, ElementOfSeq
<1> QED
  BY <1>1, <1>2, <1>3, <1>4, Published DEF Top

\* An operand is a value of its type that the functions resolve.
LEMMA OperandOk ==
  ASSUME IInv, phase = "run", NEW t, NEW v \in Operand(t)
  PROVE  v \in RefValue(Len(funcs))
<1>1. held \subseteq RefValue(Len(funcs)) /\ Len(funcs) \in Nat
  BY SizesOk DEF IInv, MachineInv
<1> QED
  BY <1>1, StoreAssumption
  DEF Operand, I32, NullOf, RefValue, Value, ValType, RefType

\* The elements of a table the frame on top can name.
LEMMA TableAtOk ==
  ASSUME IInv, phase = "run", NEW t \in DOMAIN Top.addrs.table
  PROVE  /\ Top.addrs.table[t] \in 1..Len(tables)
         /\ tables[Top.addrs.table[t]].elems \in Seq(RefValue(Len(funcs)))
<1>1. Top.addrs.table[t] \in 1..Len(tables)
  BY TopOk, AddrOk DEF Kind, Sizes
<1>2. tables[Top.addrs.table[t]] \in TableInst(Len(funcs))
  BY <1>1, ElementOfSeq DEF IInv, PoolsInv
<1> QED
  BY <1>1, <1>2 DEF TableInst

\* A slice of a sequence.
LEMMA SubSeqIn ==
  ASSUME NEW S, NEW seq \in Seq(S), NEW i \in Nat \ {0}, NEW j \in Nat, j <= Len(seq)
  PROVE  SubSeq(seq, i, j) \in Seq(S) /\ Len(SubSeq(seq, i, j)) = IF i <= j THEN j - i + 1 ELSE 0
<1>1. \A n \in i..j : seq[n] \in S
  BY ElementOfSeq, LenProperties
<1> QED
  BY <1>1, SubSeqProperties

\* Pushing a value the functions resolve.
LEMMA PushOk ==
  ASSUME IInv, phase = "run", NEW v \in RefValue(Len(funcs)), Push(v),
         Executed, UNCHANGED <<storeVars, frames>>
  PROVE  IInv'
<1>1. held' \subseteq RefValue(Len(funcs))
  BY TopOk DEF Push
<1> QED
  BY <1>1, TopOk, StackStep DEF Executed

\* ref.func pushes the address of a function.
LEMMA RefFuncOk == IInv /\ RefFunc => IInv'
<1> SUFFICES ASSUME IInv, RefFunc
             PROVE  IInv'
  OBVIOUS
<1>0. phase = "run" /\ Executed /\ UNCHANGED <<storeVars, frames>>
  BY DEF RefFunc, Running
<1> PICK i \in DOMAIN Top.addrs.func : Push(FuncRef(Top.addrs.func[i]))
  BY DEF RefFunc
<1>1. Top.addrs.func[i] \in 1..Len(funcs)
  BY <1>0, TopOk, AddrOk DEF Kind, Sizes
<1>2. FuncRef(Top.addrs.func[i]) \in RefValue(Len(funcs))
  BY <1>1, SizesOk DEF FuncRef, RefValue, Value, ValType, RefType, IInv
<1> QED
  BY <1>0, <1>2, PushOk

\* global.get pushes what a global holds.
LEMMA GlobalGetOk == IInv /\ GlobalGet => IInv'
<1> SUFFICES ASSUME IInv, GlobalGet
             PROVE  IInv'
  OBVIOUS
<1>0. phase = "run" /\ Executed /\ UNCHANGED <<storeVars, frames>>
  BY DEF GlobalGet, Running
<1> PICK i \in DOMAIN Top.addrs.global : Push(globals[Top.addrs.global[i]].val)
  BY DEF GlobalGet
<1>1. Top.addrs.global[i] \in 1..Len(globals)
  BY <1>0, TopOk, AddrOk DEF Kind, Sizes
<1>2. globals[Top.addrs.global[i]] \in GlobalInst(Len(funcs))
  BY <1>1, ElementOfSeq DEF IInv, PoolsInv
<1>3. globals[Top.addrs.global[i]].val \in RefValue(Len(funcs))
  BY <1>2 DEF GlobalInst
<1> QED
  BY <1>0, <1>3, PushOk

\* global.set stores an operand.
LEMMA GlobalSetOk == IInv /\ GlobalSet => IInv'
<1> SUFFICES ASSUME IInv, GlobalSet
             PROVE  IInv'
  OBVIOUS
<1>0. /\ phase = "run" /\ Executed
      /\ UNCHANGED <<funcs, tables, mems, instances, code, frames, held>>
  BY DEF GlobalSet, Running
<1> PICK i \in DOMAIN Top.addrs.global : \E v \in Operand(GlobalSpace(TopCode)[i].val) :
      globals' = [globals EXCEPT ![Top.addrs.global[i]].val = v]
  BY DEF GlobalSet
<1> PICK v \in Operand(GlobalSpace(TopCode)[i].val) :
      globals' = [globals EXCEPT ![Top.addrs.global[i]].val = v]
  OBVIOUS
<1> DEFINE a == Top.addrs.global[i]
           g == [globals[a] EXCEPT !.val = v]
<1>1. a \in 1..Len(globals)
  BY <1>0, TopOk, AddrOk DEF Kind, Sizes
<1>2. globals \in Seq(GlobalInst(Len(funcs))) /\ globals[a] \in GlobalInst(Len(funcs))
  BY <1>1, ElementOfSeq DEF IInv, PoolsInv
<1>3. g \in GlobalInst(Len(funcs)) /\ globals' = [globals EXCEPT ![a] = g]
  BY <1>0, <1>2, OperandOk DEF GlobalInst
<1> HIDE DEF a, g
<1>4. globals' \in Seq(GlobalInst(Len(funcs))) /\ Len(globals') = Len(globals)
  <2>1. globals \in Seq(GlobalInst(Len(funcs))) /\ g \in GlobalInst(Len(funcs))
    BY <1>2, <1>3
  <2>2. globals' = [globals EXCEPT ![a] = g]
    BY <1>3
  <2>3. /\ [globals EXCEPT ![a] = g] \in Seq(GlobalInst(Len(funcs)))
        /\ Len([globals EXCEPT ![a] = g]) = Len(globals)
    BY ONLY <1>1, <2>1, ExceptSeq
  <2> QED
    BY <2>2, <2>3
<1> QED
  BY <1>0, <1>4, TopOk, Published, RunStep DEF Executed

\* table.get pushes what a table holds.
LEMMA TableGetOk == IInv /\ TableGet => IInv'
<1> SUFFICES ASSUME IInv, TableGet
             PROVE  IInv'
  OBVIOUS
<1>0. phase = "run" /\ Executed /\ UNCHANGED <<storeVars, frames>>
  BY DEF TableGet, Running
<1> PICK t \in DOMAIN Top.addrs.table, n \in Words :
      LET elems == tables[Top.addrs.table[t]].elems IN
      n < Len(elems) /\ Push(elems[n + 1])
  BY DEF TableGet
<1> DEFINE elems == tables[Top.addrs.table[t]].elems
<1>1. elems \in Seq(RefValue(Len(funcs)))
  BY <1>0, TableAtOk
<1>2. elems[n + 1] \in RefValue(Len(funcs))
  BY <1>1, StoreAssumption, ElementOfSeq, LenProperties
<1> HIDE DEF elems
<1>3. Push(elems[n + 1])
  BY DEF elems
<1> QED
  BY <1>0, <1>2, <1>3, PushOk

\* An instruction that gives a table new elements.
LEMMA TableStepOk ==
  ASSUME IInv, phase = "run", TableOp, NEW a \in 1..Len(tables),
         NEW new \in Seq(RefValue(Len(funcs))), SetElems(a, new)
  PROVE  IInv'
<1>1. tables' \in Seq(TableInst(Len(funcs))) /\ Len(tables') = Len(tables)
  BY TopOk, SetElemsOk
<1> QED
  BY <1>1, TopOk, Published, RunStep DEF TableOp, Executed

\* table.fill and table.set store an operand.
LEMMA TableFillOk == IInv /\ TableFill => IInv'
<1> SUFFICES ASSUME IInv, TableFill
             PROVE  IInv'
  OBVIOUS
<1>0. phase = "run" /\ TableOp
  BY DEF TableFill, Running
<1> PICK t \in DOMAIN Top.addrs.table, i \in Words, n \in Words :
      \E v \in Operand(TableSpace(TopCode)[t].elem) :
        LET a == Top.addrs.table[t] IN
        SetElems(a, CopyInto(tables[a].elems, i, [j \in 1..n |-> v]))
  BY DEF TableFill
<1> PICK v \in Operand(TableSpace(TopCode)[t].elem) :
      LET a == Top.addrs.table[t] IN
      SetElems(a, CopyInto(tables[a].elems, i, [j \in 1..n |-> v]))
  OBVIOUS
<1> DEFINE a   == Top.addrs.table[t]
           src == [j \in 1..n |-> v]
<1>1. a \in 1..Len(tables) /\ tables[a].elems \in Seq(RefValue(Len(funcs)))
  BY <1>0, TableAtOk
<1>2. src \in Seq(RefValue(Len(funcs)))
  BY <1>0, OperandOk, StoreAssumption, FunSeq
<1> HIDE DEF a, src
<1>3. CopyInto(tables[a].elems, i, src) \in Seq(RefValue(Len(funcs)))
  BY <1>1, <1>2, StoreAssumption, CopyIntoOk
<1>4. SetElems(a, CopyInto(tables[a].elems, i, src))
  BY DEF a, src
<1> QED
  BY <1>0, <1>1, <1>3, <1>4, TableStepOk

\* table.init copies from a segment.
LEMMA TableInitOk == IInv /\ TableInit => IInv'
<1> SUFFICES ASSUME IInv, TableInit
             PROVE  IInv'
  OBVIOUS
<1>0. phase = "run" /\ TableOp
  BY DEF TableInit, Running
<1> PICK t \in DOMAIN Top.addrs.table, e \in DOMAIN Top.elems :
      \E d, s, n \in Words :
      LET a == Top.addrs.table[t] IN
      /\ s + n <= Len(Top.elems[e])
      /\ SetElems(a, CopyInto(tables[a].elems, d, SubSeq(Top.elems[e], s + 1, s + n)))
  BY DEF TableInit
<1> PICK d \in Words, s \in Words, n \in Words :
      LET a == Top.addrs.table[t] IN
      /\ s + n <= Len(Top.elems[e])
      /\ SetElems(a, CopyInto(tables[a].elems, d, SubSeq(Top.elems[e], s + 1, s + n)))
  OBVIOUS
<1> DEFINE a   == Top.addrs.table[t]
           seg == Top.elems[e]
           src == SubSeq(seg, s + 1, s + n)
<1>1. a \in 1..Len(tables) /\ tables[a].elems \in Seq(RefValue(Len(funcs)))
  BY <1>0, TableAtOk
<1>2. seg \in Seq(RefValue(Len(funcs)))
  <2>1. Top.elems \in Seq(Seq(RefValue(Len(funcs))))
    BY <1>0, TopOk DEF Inst, Sizes
  <2> QED
    BY <2>1, ElementOfSeq, LenProperties
<1>3. s + n <= Len(seg) /\ SetElems(a, CopyInto(tables[a].elems, d, src))
  OBVIOUS
<1> HIDE DEF a, seg
<1>4. src \in Seq(RefValue(Len(funcs)))
  BY <1>2, <1>3, StoreAssumption, SubSeqIn
<1> HIDE DEF src
<1>5. CopyInto(tables[a].elems, d, src) \in Seq(RefValue(Len(funcs)))
  BY <1>1, <1>4, StoreAssumption, CopyIntoOk
<1> QED
  BY <1>0, <1>1, <1>3, <1>5, TableStepOk

\* table.copy copies between tables.
LEMMA TableCopyOk == IInv /\ TableCopy => IInv'
<1> SUFFICES ASSUME IInv, TableCopy
             PROVE  IInv'
  OBVIOUS
<1>0. phase = "run" /\ TableOp
  BY DEF TableCopy, Running
<1> PICK td \in DOMAIN Top.addrs.table, ts \in DOMAIN Top.addrs.table,
         d \in Words, s \in Words, n \in Words :
      LET da == Top.addrs.table[td]
          sa == Top.addrs.table[ts]
      IN
      /\ s + n <= Len(tables[sa].elems)
      /\ SetElems(da, CopyInto(tables[da].elems, d,
                               SubSeq(tables[sa].elems, s + 1, s + n)))
  BY DEF TableCopy
<1> DEFINE da  == Top.addrs.table[td]
           seg == tables[Top.addrs.table[ts]].elems
           src == SubSeq(seg, s + 1, s + n)
<1>1. da \in 1..Len(tables) /\ tables[da].elems \in Seq(RefValue(Len(funcs)))
  BY <1>0, TableAtOk
<1>2. seg \in Seq(RefValue(Len(funcs)))
  BY <1>0, TableAtOk
<1>3. s + n <= Len(seg) /\ SetElems(da, CopyInto(tables[da].elems, d, src))
  OBVIOUS
<1> HIDE DEF da, seg
<1>4. src \in Seq(RefValue(Len(funcs)))
  BY <1>2, <1>3, StoreAssumption, SubSeqIn
<1> HIDE DEF src
<1>5. CopyInto(tables[da].elems, d, src) \in Seq(RefValue(Len(funcs)))
  BY <1>1, <1>4, StoreAssumption, CopyIntoOk
<1> QED
  BY <1>0, <1>1, <1>3, <1>5, TableStepOk

\* table.grow appends an operand.
LEMMA TableGrowOk == IInv /\ TableGrow => IInv'
<1> SUFFICES ASSUME IInv, TableGrow
             PROVE  IInv'
  OBVIOUS
<1>0. phase = "run" /\ TableOp
  BY DEF TableGrow, Running
<1> PICK t \in DOMAIN Top.addrs.table, n \in Words :
      \E v \in Operand(TableSpace(TopCode)[t].elem) :
        LET a == Top.addrs.table[t] IN
        SetElems(a, tables[a].elems \o [j \in 1..n |-> v])
  BY DEF TableGrow
<1> PICK v \in Operand(TableSpace(TopCode)[t].elem) :
      LET a == Top.addrs.table[t] IN
      SetElems(a, tables[a].elems \o [j \in 1..n |-> v])
  OBVIOUS
<1> DEFINE a   == Top.addrs.table[t]
           src == [j \in 1..n |-> v]
<1>1. a \in 1..Len(tables) /\ tables[a].elems \in Seq(RefValue(Len(funcs)))
  BY <1>0, TableAtOk
<1>2. src \in Seq(RefValue(Len(funcs)))
  BY <1>0, OperandOk, StoreAssumption, FunSeq
<1>3. SetElems(a, tables[a].elems \o src)
  OBVIOUS
<1> HIDE DEF a, src
<1>4. tables[a].elems \o src \in Seq(RefValue(Len(funcs)))
  BY <1>1, <1>2, ConcatProperties
<1> QED
  BY <1>0, <1>1, <1>3, <1>4, TableStepOk

\* memory.grow changes a number of pages.
LEMMA MemoryGrowOk == IInv /\ MemoryGrow => IInv'
<1> SUFFICES ASSUME IInv, MemoryGrow
             PROVE  IInv'
  OBVIOUS
<1>0. /\ phase = "run" /\ Executed
      /\ UNCHANGED <<funcs, tables, globals, instances, code, frames, held>>
  BY DEF MemoryGrow, Running
<1> PICK m \in DOMAIN Top.addrs.mem, n \in Words :
      LET a == Top.addrs.mem[m] IN
      mems' = [mems EXCEPT ![a].pages = mems[a].pages + n]
  BY DEF MemoryGrow
<1> DEFINE a   == Top.addrs.mem[m]
           new == [mems[a] EXCEPT !.pages = mems[a].pages + n]
<1>1. a \in 1..Len(mems)
  BY <1>0, TopOk, AddrOk DEF Kind, Sizes
<1>2. mems \in Seq(MemInst) /\ mems[a] \in MemInst
  BY <1>1, ElementOfSeq DEF IInv, PoolsInv
<1>3. mems' = [mems EXCEPT ![a] = new]
  OBVIOUS
<1>4. new \in MemInst
  <2>1. mems[a].pages + n \in Nat
    BY <1>2, StoreAssumption DEF MemInst
  <2> QED
    BY <1>2, <2>1 DEF MemInst
<1> HIDE DEF a, new
<1>5. mems' \in Seq(MemInst) /\ Len(mems') = Len(mems)
  <2>1. mems \in Seq(MemInst)
    BY <1>2
  <2>2. /\ [mems EXCEPT ![a] = new] \in Seq(MemInst)
        /\ Len([mems EXCEPT ![a] = new]) = Len(mems)
    BY ONLY <1>1, <1>4, <2>1, ExceptSeq
  <2> QED
    BY <1>3, <2>2
<1> QED
  BY <1>0, <1>5, TopOk, Published, RunStep DEF Executed

\* elem.drop and data.drop empty a segment.
LEMMA DropSegmentOk == IInv /\ DropSegment => IInv'
<1> SUFFICES ASSUME IInv, DropSegment
             PROVE  IInv'
  OBVIOUS
<1> DEFINE c == frames[Len(frames)]
<1>0. /\ phase = "run" /\ Executed
      /\ UNCHANGED <<funcs, tables, mems, globals, code, frames, held>>
  BY DEF DropSegment, Running
<1>1. c \in DOMAIN instances /\ ~ Building
  BY <1>0, TopOk
<1>2. instances' \in Seq(Inst(Sizes)) /\ Len(instances') = Len(instances)
  <2>1. CASE \E e \in DOMAIN Top.elems : instances' = [instances EXCEPT ![c].elems[e] = <<>>]
    BY <1>1, <2>1, DropElemOk DEF Top
  <2>2. CASE \E d \in DOMAIN Top.datas : instances' = [instances EXCEPT ![c].datas[d] = 0]
    BY <1>1, <2>2, DropDataOk DEF Top
  <2> QED
    BY <2>1, <2>2 DEF DropSegment
<1> QED
  BY <1>0, <1>2, TopOk, Published, RunStep DEF Executed

\* A call to a function of the store, direct or not.
LEMMA CallAddrOk ==
  ASSUME IInv, phase = "run", NEW a \in 1..Len(funcs), CallAddr(a),
         Executed, UNCHANGED storeVars
  PROVE  IInv'
<1>1. CASE /\ funcs[a].inst # 0 /\ frames' = Append(frames, funcs[a].inst)
           /\ UNCHANGED held
  <2>1. funcs[a] \in FuncInst(Len(instances))
    BY TopOk, Published, ElementOfSeq
  <2>2. funcs[a].inst \in 1..Len(instances)
    BY <1>1, <2>1, TopOk, Published DEF FuncInst
  <2>3. frames' \in Seq(1..Len(instances)) /\ frames' # <<>>
    BY <1>1, <2>2, TopOk, AppendProperties, EmptySeq
  <2> QED
    BY <1>1, <2>3, TopOk, StackStep DEF Executed
<1>2. CASE /\ \E r \in EmbedderVectors :
                HostResultsOk(funcs[a].ty.results, r) /\ held' = held \union RefsIn(r)
           /\ UNCHANGED frames
  <2> PICK r \in EmbedderVectors :
        HostResultsOk(funcs[a].ty.results, r) /\ held' = held \union RefsIn(r)
    BY <1>2
  <2>1. RefsIn(r) \subseteq RefValue(Len(funcs))
    BY RefsInOk DEF HostResultsOk
  <2> QED
    BY <1>2, <2>1, TopOk, StackStep DEF Executed
<1> QED
  BY <1>1, <1>2 DEF CallAddr

\* call uses an address of the running instance.
LEMMA CallOk == IInv /\ Call => IInv'
<1> SUFFICES ASSUME IInv, Call
             PROVE  IInv'
  OBVIOUS
<1>0. phase = "run" /\ Executed /\ UNCHANGED storeVars
  BY DEF Call, Running
<1> PICK i \in DOMAIN Top.addrs.func : CallAddr(Top.addrs.func[i])
  BY DEF Call
<1>1. Top.addrs.func[i] \in 1..Len(funcs)
  BY <1>0, TopOk, AddrOk DEF Kind, Sizes
<1> QED
  BY <1>0, <1>1, CallAddrOk

\* The element an indirect call finds is the address of a function, because
\* it is a function reference that is resolvable and not null.
LEMMA CallIndirectOk == IInv /\ CallIndirect => IInv'
<1> SUFFICES ASSUME IInv, CallIndirect
             PROVE  IInv'
  OBVIOUS
<1>0. phase = "run" /\ Executed /\ UNCHANGED storeVars
  BY DEF CallIndirect, Running
<1> PICK t \in DOMAIN Top.addrs.table, i \in Words :
      LET elems == tables[Top.addrs.table[t]].elems IN
      /\ i < Len(elems)
      /\ elems[i + 1].ty = "funcref" /\ elems[i + 1].bits # 0
      /\ CallAddr(elems[i + 1].bits)
  BY DEF CallIndirect
<1> DEFINE elems == tables[Top.addrs.table[t]].elems
<1>1. elems \in Seq(RefValue(Len(funcs)))
  BY <1>0, TableAtOk
<1>2. elems[i + 1] \in RefValue(Len(funcs))
  <2>1. i \in Nat /\ i < Len(elems)
    BY StoreAssumption
  <2> HIDE DEF elems
  <2>2. i + 1 \in 1..Len(elems)
    BY <1>1, <2>1, LenProperties
  <2> QED
    BY <1>1, <2>2, ElementOfSeq
<1>3. elems[i + 1].bits \in 1..Len(funcs)
  <2>1. elems[i + 1].ty = "funcref" /\ elems[i + 1].bits # 0
    OBVIOUS
  <2> HIDE DEF elems
  <2>2. Len(funcs) \in Nat
    BY SizesOk DEF IInv
  <2>3. elems[i + 1].bits \in 0..Len(funcs)
    BY <1>2, <2>1 DEF RefValue
  <2> QED
    BY <2>1, <2>2, <2>3
<1> QED
  BY <1>0, <1>3, CallAddrOk

\* A frame returns, the last one ends the call.
LEMMA ReturnOk == IInv /\ Return => IInv'
<1> SUFFICES ASSUME IInv, Return
             PROVE  IInv'
  OBVIOUS
<1>0. phase = "run" /\ UNCHANGED <<storeVars, ops>>
  BY DEF Return
<1>1. CASE Finish("ok")
  BY <1>0, <1>1, TopOk, FinishOk
<1>2. CASE /\ Len(frames) > 1
           /\ frames' = SubSeq(frames, 1, Len(frames) - 1)
           /\ UNCHANGED <<phase, callVars, ret, held>>
  <2>1. /\ frames' \in Seq(1..Len(instances)) /\ Len(frames') = Len(frames) - 1
    BY <1>0, <1>2, TopOk, SubSeqIn
  <2>2. frames' # <<>>
    <3>1. Len(frames') > 0
      BY <1>0, <1>2, <2>1, TopOk
    <3> QED
      BY <2>1, <3>1, EmptySeq
  <2> QED
    BY <1>0, <1>2, <2>1, <2>2, TopOk, StackStep
<1> QED
  BY <1>1, <1>2 DEF Return

\* A trap ends the call and its machine.
LEMMA TrapOk == IInv /\ Trap => IInv'
BY TopOk, FinishOk DEF Trap, Trapped

-----------------------------------------------------------------------------
(* The theorems.                                                           *)

\* The sized instances are instances.
LEMMA InstanceTypeOk == \A z \in SizeType : Inst(z) \subseteq InstanceType
<1> SUFFICES ASSUME NEW z \in SizeType
             PROVE  Inst(z) \subseteq InstanceType
  OBVIOUS
<1>1. /\ 1..z.func \subseteq Nat /\ 1..z.table \subseteq Nat
      /\ 1..z.mem \subseteq Nat /\ 1..z.global \subseteq Nat
  BY DEF SizeType
<1>2. /\ Seq(1..z.func) \subseteq Seq(Nat) /\ Seq(1..z.table) \subseteq Seq(Nat)
      /\ Seq(1..z.mem) \subseteq Seq(Nat) /\ Seq(1..z.global) \subseteq Seq(Nat)
  BY <1>1, SeqMono
<1>3. [name : STRING, ev : Extern(z)] \subseteq [name : STRING, ev : ExternVal]
  BY DEF Extern
<1>4. Seq([name : STRING, ev : Extern(z)]) \subseteq Seq([name : STRING, ev : ExternVal])
  <2> DEFINE S == [name : STRING, ev : Extern(z)]
             T == [name : STRING, ev : ExternVal]
  <2>1. S \subseteq T
    BY <1>3
  <2> HIDE DEF S, T
  <2>2. Seq(S) \subseteq Seq(T)
    BY <2>1, SeqMono
  <2> QED
    BY <2>2 DEF S, T
<1>5. RefValue(z.func) \subseteq Value
  BY DEF RefValue
<1>6. Seq(Seq(RefValue(z.func))) \subseteq Seq(Seq(Value))
  BY <1>5, SeqMono
<1>7. Addrs(z) \subseteq [func : Seq(Nat), table : Seq(Nat), mem : Seq(Nat), global : Seq(Nat)]
  BY <1>2 DEF Addrs
<1> QED
  BY <1>4, <1>6, <1>7 DEF Inst, InstanceType

\* The initial store satisfies the invariant.
LEMMA InitOk == Init => IInv
<1> SUFFICES ASSUME Init
             PROVE  IInv
  OBVIOUS
<1> USE DEF Init
<1>1. \A S : <<>> \in Seq(S)
  BY EmptySeq
<1>2. Len(funcs) = 0 /\ Len(tables) = 0 /\ Len(mems) = 0 /\ Len(globals) = 0
  OBVIOUS
<1>3. PoolsInv
  BY <1>1 DEF PoolsInv
<1>4. MarksInv
  BY DEF MarksInv, Building, Zero, SizeType
<1>5. InstancesInv
  BY <1>1, <1>3, SizesOk, EmptyInstanceOk DEF InstancesInv
<1>6. MachineInv
  BY <1>1 DEF MachineInv
<1>7. CallInv
  BY DEF CallInv
<1> QED
  BY <1>3, <1>4, <1>5, <1>6, <1>7 DEF IInv

\* Every step of the store keeps the invariant.
LEMMA NextOk == IInv /\ [Next]_vars => IInv'
<1> SUFFICES ASSUME IInv, [Next]_vars
             PROVE  IInv'
  OBVIOUS
<1>1. CASE AddHostModule \/ Instantiate \/ InvokeExport
  BY <1>1, AddHostModuleOk, InstantiateOk, InvokeExportOk
<1>2. CASE Advance
  BY <1>2, HostGlobalOk, HostTableOk, HostMemOk, PublishHostOk, ResolveImportOk,
     AllocFuncsOk, AllocGlobalOk, AllocTableOk, AllocMemOk, PublishInstanceOk,
     ApplyElemOk, ApplyDataOk, RunStartOk
  DEF Advance
<1>3. CASE Instruction
  BY <1>3, RefFuncOk, GlobalGetOk, GlobalSetOk, TableGetOk, TableFillOk, TableInitOk,
     TableCopyOk, TableGrowOk, MemoryGrowOk, DropSegmentOk, CallOk, CallIndirectOk,
     ReturnOk, TrapOk
  DEF Instruction
<1>4. CASE UNCHANGED vars
  BY <1>4 DEF vars, storeVars, callVars, runVars, IInv, PoolsInv, MarksInv, InstancesInv,
     MachineInv, CallInv, Owners, Known, Sizes, Building
<1> QED
  BY <1>1, <1>2, <1>3, <1>4 DEF Next

\* The invariant holds in every reachable state of the store, for any modules
\* (validated or not), any host descriptors and any resolver answers.
THEOREM StoreInv == Spec => []IInv
<1>1. Init => IInv
  BY InitOk
<1>2. IInv /\ [Next]_vars => IInv'
  BY NextOk
<1> QED
  BY <1>1, <1>2, PTL DEF Spec

\* Every function reference held by a global, a table, an element segment or
\* the machine is null or the address of a function: what CallIndirect in
\* exec.rs indexes the store with is in range, in every phase of every call,
\* though the embedder's values are unchecked input and links are rolled back.
THEOREM ReferencesAlwaysResolve == Spec => []ReferencesResolve
<1>1. IInv => ReferencesResolve
  <2> SUFFICES ASSUME IInv
               PROVE  ReferencesResolve
    OBVIOUS
  <2>1. ASSUME NEW v \in RefValue(Len(funcs))
        PROVE  Resolvable(v)
    BY DEF RefValue, Resolvable
  <2>2. \A a \in DOMAIN globals : Resolvable(globals[a].val)
    <3> TAKE a \in DOMAIN globals
    <3>1. globals[a] \in GlobalInst(Len(funcs))
      BY ElementOfSeq, LenProperties DEF IInv, PoolsInv
    <3> QED
      BY <2>1, <3>1 DEF GlobalInst
  <2>3. \A a \in DOMAIN tables : \A n \in DOMAIN tables[a].elems :
          Resolvable(tables[a].elems[n])
    <3> TAKE a \in DOMAIN tables
    <3>1. tables[a] \in TableInst(Len(funcs))
      BY ElementOfSeq, LenProperties DEF IInv, PoolsInv
    <3>2. tables[a].elems \in Seq(RefValue(Len(funcs)))
      BY <3>1 DEF TableInst
    <3> QED
      BY <2>1, <3>2, ElementOfSeq, LenProperties
  <2>4. \A i \in DOMAIN instances : \A e \in DOMAIN instances[i].elems :
          \A n \in DOMAIN instances[i].elems[e] : Resolvable(instances[i].elems[e][n])
    <3> TAKE i \in DOMAIN instances
    <3>1. instances[i] \in Inst(Known)
      BY ElementOfSeq, LenProperties DEF IInv, InstancesInv
    <3>2. instances[i] \in Inst(Sizes)
      BY <3>1, KnownOk, InstMono
    <3>3. instances[i].elems \in Seq(Seq(RefValue(Len(funcs))))
      BY <3>2 DEF Inst, Sizes
    <3> TAKE e \in DOMAIN instances[i].elems
    <3>4. instances[i].elems[e] \in Seq(RefValue(Len(funcs)))
      BY <3>3, ElementOfSeq, LenProperties
    <3> QED
      BY <2>1, <3>4, ElementOfSeq, LenProperties
  <2>5. \A v \in held : Resolvable(v)
    BY <2>1 DEF IInv, MachineInv
  <2> QED
    BY <2>2, <2>3, <2>4, <2>5 DEF ReferencesResolve
<1> QED
  BY <1>1, StoreInv, PTL

\* Every variable of the store model keeps its type.
THEOREM TypeCorrect == Spec => []TypeOK
<1>1. IInv => TypeOK
  <2> SUFFICES ASSUME IInv
               PROVE  TypeOK
    OBVIOUS
  <2>1. funcs \in Seq([ty : FuncType, inst : Nat])
    <3>1. FuncInst(Owners) \subseteq [ty : FuncType, inst : Nat]
      BY KnownOk DEF FuncInst, Owners
    <3> QED
      BY <3>1, SeqMono DEF IInv, PoolsInv
  <2>2. RefValue(Len(funcs)) \subseteq Value
    BY DEF RefValue
  <2>3. tables \in Seq([ty : TableType, elems : Seq(Value)])
    <3>1. TableInst(Len(funcs)) \subseteq [ty : TableType, elems : Seq(Value)]
      BY <2>2, SeqMono DEF TableInst
    <3> QED
      BY <3>1, SeqMono DEF IInv, PoolsInv
  <2>4. mems \in Seq([ty : MemType, pages : Nat])
    BY DEF IInv, PoolsInv, MemInst
  <2>5. globals \in Seq([ty : GlobalType, val : Value])
    <3>1. GlobalInst(Len(funcs)) \subseteq [ty : GlobalType, val : Value]
      BY <2>2 DEF GlobalInst
    <3> QED
      BY <3>1, SeqMono DEF IInv, PoolsInv
  <2>6. \A z \in SizeType : Inst(z) \subseteq InstanceType
    BY InstanceTypeOk
  <2>7. instances \in Seq(InstanceType) /\ inst \in InstanceType
    <3>1. Inst(Known) \subseteq InstanceType /\ Inst(Sizes) \subseteq InstanceType
      BY <2>6, KnownOk
    <3> QED
      BY <3>1, SeqMono DEF IInv, InstancesInv
  <2>8. frames \in Seq(Nat)
    <3>1. 1..Len(instances) \subseteq Nat
      BY KnownOk
    <3> QED
      BY <3>1, SeqMono DEF IInv, MachineInv
  <2>9. held \subseteq Value /\ (phase = "run") = (frames # <<>>)
    BY <2>2 DEF IInv, MachineInv
  <2>10. /\ mod \in Modules \union HostModules \union {NoModule}
         /\ phase \in {"idle", "host", "import", "alloc", "segments", "run"}
         /\ ret \in {"none", "ok", "link", "trap", "refused"}
         /\ k \in Nat /\ ops \in Nat
    BY DEF IInv, CallInv
  <2>11. /\ Len(code) = Len(instances)
         /\ base \in [func : Nat, table : Nat, mem : Nat, global : Nat]
    BY DEF IInv, InstancesInv, MarksInv, SizeType
  <2> QED
    BY <2>1, <2>3, <2>4, <2>5, <2>7, <2>8, <2>9, <2>10, <2>11 DEF TypeOK
<1> QED
  BY <1>1, StoreInv, PTL

-----------------------------------------------------------------------------
(* Linking: what was found about a module stays true of its store.         *)

-----------------------------------------------------------------------------
(* The inductive invariant, on top of IInv.  The operators take the pools  *)
(* as parameters: fs, ts, ms and gs are funcs, tables, mems and globals of *)
(* one state.                                                              *)

\* The addresses of one kind, as far as they go, have what the index space of
\* m says: the very types of functions and globals, tables and memories that
\* still satisfy the limits.
FitsFunc(m, f, fs) ==
  \A n \in DOMAIN f :
    n \in DOMAIN FuncSpace(m) /\ fs[f[n]].ty = m.types[FuncSpace(m)[n]]
FitsTable(m, f, ts) ==
  \A n \in DOMAIN f :
    LET t == ts[f[n]] IN
    /\ n \in DOMAIN TableSpace(m)
    /\ t.ty.elem = TableSpace(m)[n].elem
    /\ Satisfies(Len(t.elems), t.ty.limits.max, TableSpace(m)[n].limits)
FitsMem(m, f, ms) ==
  \A n \in DOMAIN f :
    LET t == ms[f[n]] IN
    /\ n \in DOMAIN MemSpace(m)
    /\ Satisfies(t.pages, t.ty.limits.max, MemSpace(m)[n].limits)
FitsGlobal(m, f, gs) ==
  \A n \in DOMAIN f :
    n \in DOMAIN GlobalSpace(m) /\ gs[f[n]].ty = GlobalSpace(m)[n]

\* The addresses ad fit the index spaces of m.
Fits(m, ad, fs, ts, ms, gs) ==
  /\ FitsFunc(m, ad.func, fs) /\ FitsTable(m, ad.table, ts)
  /\ FitsMem(m, ad.mem, ms) /\ FitsGlobal(m, ad.global, gs)

\* The addresses cover the index spaces.
Complete(m, ad) == \A kind \in Kind : Len(ad[kind]) = SpaceSize(m, kind)

\* The element segments of an instance of m hold values of their types.
SegmentsTyped(m, els) ==
  /\ DOMAIN els = DOMAIN m.elems
  /\ \A e \in DOMAIN els : \A n \in DOMAIN els[e] : els[e][n].ty = m.elems[e].ty

\* An instance that runs code m.
Runs(in, m, fs, ts, ms, gs) ==
  m \in Modules =>
    /\ ValidModule(m)
    /\ Fits(m, in.addrs, fs, ts, ms, gs) /\ Complete(m, in.addrs)
    /\ SegmentsTyped(m, in.elems)

\* Tables and memories are within their own limits.
TableWithin(t) ==
  /\ Len(t.elems) <= TABLE_IMPL_LIMIT
  /\ t.ty.limits.max # NoMax => Len(t.elems) <= t.ty.limits.max
MemWithin(t) ==
  t.pages <= MAX_PAGES /\ (t.ty.limits.max # NoMax => t.pages <= t.ty.limits.max)

ContentInv ==
  /\ StoreTyped
  /\ \A a \in DOMAIN tables : TableWithin(tables[a])
  /\ \A a \in DOMAIN mems : MemWithin(mems[a])

RunsInv ==
  \A i \in DOMAIN instances : Runs(instances[i], code[i], funcs, tables, mems, globals)

\* Only code has functions of its own, so only code has frames.
CodeInv ==
  /\ \A a \in DOMAIN funcs : funcs[a].inst \in DOMAIN instances => code[funcs[a].inst] \in Modules
  /\ \A n \in DOMAIN frames : code[frames[n]] \in Modules

\* The entries the allocation loops of instantiate have made of each kind
\* when they reach position n.
Made(m, n) ==
  LET G == Len(m.globals)
      T == Len(m.tables)
  IN
  [func   |-> Len(m.funcs),
   global |-> IF n <= G THEN n - 1 ELSE G,
   table  |-> IF n <= G THEN 0 ELSE IF n <= G + T THEN n - 1 - G ELSE T,
   mem    |-> IF n <= G + T THEN 0 ELSE n - 1 - G - T]

\* The instance under construction has the addresses of a prefix of each
\* index space, the longer the further the call is.
LinkInv ==
  /\ phase \in {"import", "alloc", "segments"} => ValidModule(mod)
  /\ phase \in {"import", "alloc"} => Fits(mod, inst.addrs, funcs, tables, mems, globals)
  /\ phase = "import" =>
       /\ k \in 1 .. Len(mod.imports) + 1
       /\ \A kind \in Kind : Len(inst.addrs[kind]) = Len(ImportsUpTo(mod, kind)[k - 1])
  /\ phase = "alloc" =>
       /\ k \in 1 .. Len(mod.globals) + Len(mod.tables) + Len(mod.mems) + 1
       /\ \A kind \in Kind :
            Len(inst.addrs[kind]) = Len(ImportsOf(mod, kind)) + Made(mod, k)[kind]
  /\ phase = "segments" => code[Len(instances)] = mod
  /\ phase \notin {"host", "import", "alloc"} => inst = EmptyInstance

SoundInv == ContentInv /\ RunsInv /\ CodeInv /\ LinkInv

-----------------------------------------------------------------------------
(* Induction on numbers, and what the recursive function of the imports    *)
(* computes.  The library's induction theorems are about operators; a set  *)
(* says the same to first-order provers.                                   *)

\* A set of numbers has a least one.
LEMMA LeastNumber ==
  ASSUME NEW T, T \subseteq Nat, T # {}
  PROVE  \E x \in T : \A y \in T : x <= y
<1> DEFINE R == OpToRel(<, Nat)
<1>1. IsWellFoundedOn(R, Nat)
  BY NatLessThanWellFounded
<1>2. \A x, y \in Nat : y < x => <<y, x>> \in R
  BY DEF OpToRel
<1> HIDE DEF R
<1>3. \E x \in T : \A y \in T : ~ (<<y, x>> \in R)
  BY <1>1, WFMin
<1> PICK x \in T : \A y \in T : ~ (<<y, x>> \in R)
  BY <1>3
<1>4. ASSUME NEW y \in T
      PROVE  x <= y
  <2>1. ~ (<<y, x>> \in R) /\ x \in Nat /\ y \in Nat
    OBVIOUS
  <2>2. ~ (y < x)
    BY <2>1, <1>2
  <2> QED
    BY <2>1, <2>2
<1> QED
  BY <1>4

\* A set that has 0 and every successor of a number it has, has every number.
LEMMA SetInduction ==
  ASSUME NEW T, 0 \in T, \A n \in Nat : n \in T => n + 1 \in T
  PROVE  \A n \in Nat : n \in T
<1> SUFFICES ASSUME Nat \ T # {}
             PROVE  FALSE
  OBVIOUS
<1>1. PICK x \in Nat \ T : \A y \in Nat \ T : x <= y
  BY LeastNumber
<1>2. x # 0 /\ x - 1 \in Nat
  OBVIOUS
<1>3. x - 1 \in T
  BY <1>1, <1>2
<1> QED
  BY <1>2, <1>3

\* The recursive definition of ImportsUpTo defines a function.
LEMMA ImportsUpToDef ==
  ASSUME NEW m, NEW kind, Len(m.imports) \in Nat
  PROVE  ImportsUpTo(m, kind) =
           [n \in 0..Len(m.imports) |->
              IF n = 0 THEN <<>>
              ELSE IF m.imports[n].kind = kind
                   THEN Append(ImportsUpTo(m, kind)[n - 1], m.imports[n])
              ELSE ImportsUpTo(m, kind)[n - 1]]
<1> DEFINE Step(f, n) == IF n = 0 THEN <<>>
                         ELSE IF m.imports[n].kind = kind THEN Append(f[n - 1], m.imports[n])
                         ELSE f[n - 1]
           T == {n \in Nat : \E f : f = [i \in 0..n |-> Step(f, i)]}
<1>1. 0 \in T
  <2> DEFINE f == [i \in 0..0 |-> <<>>]
  <2>1. f = [i \in 0..0 |-> Step(f, i)]
    OBVIOUS
  <2> HIDE DEF f, Step
  <2> QED
    BY <2>1
<1>2. ASSUME NEW n \in Nat, n \in T
      PROVE  n + 1 \in T
  <2> PICK f : f = [i \in 0..n |-> Step(f, i)]
    BY <1>2
  <2> DEFINE g == [i \in 0..(n + 1) |-> IF i = n + 1 THEN Step(f, i) ELSE f[i]]
  <2>1. ASSUME NEW i \in 0..(n + 1)
        PROVE  g[i] = Step(g, i)
    <3>1. i # 0 => i - 1 \in 0..n
      OBVIOUS
    <3>2. i # 0 => g[i - 1] = f[i - 1]
      BY <3>1
    <3>3. Step(g, i) = Step(f, i)
      <4> HIDE DEF g
      <4> QED
        BY <3>2
    <3>4. g[i] = Step(f, i)
      <4> HIDE DEF Step
      <4>1. CASE i = n + 1
        BY <4>1
      <4>2. CASE i # n + 1
        <5>1. i \in 0..n
          BY <4>2
        <5>2. f[i] = Step(f, i)
          BY <5>1
        <5> QED
          BY <4>2, <5>2
      <4> QED
        BY <4>1, <4>2
    <3> QED
      BY <3>3, <3>4
  <2>2. g = [i \in 0..(n + 1) |-> Step(g, i)]
    <3> HIDE DEF Step
    <3> QED
      BY <2>1
  <2> HIDE DEF g, Step
  <2> QED
    BY <2>2
<1> HIDE DEF Step
<1>3. PICK f : f = [n \in 0..Len(m.imports) |-> Step(f, n)]
  <2> HIDE DEF T
  <2>1. \A n \in Nat : n \in T
    BY <1>1, <1>2, SetInduction
  <2> QED
    BY <2>1 DEF T
<1>4. ImportsUpTo(m, kind) = CHOOSE g : g = [n \in 0..Len(m.imports) |-> Step(g, n)]
  BY DEF ImportsUpTo, Step
<1>5. ImportsUpTo(m, kind) = [n \in 0..Len(m.imports) |-> Step(ImportsUpTo(m, kind), n)]
  BY <1>3, <1>4
<1> QED
  BY <1>5 DEF Step

\* The imports of a kind are imports of that kind.
ImportKind(kind) == {i \in Import : i.kind = kind}

\* The imports of one kind among the first n are imports of that kind.
LEMMA ImportsUpToOk ==
  ASSUME NEW m \in Module, NEW kind
  PROVE  /\ Len(m.imports) \in Nat
         /\ \A n \in 0..Len(m.imports) : ImportsUpTo(m, kind)[n] \in Seq(ImportKind(kind))
<1> DEFINE up == ImportsUpTo(m, kind)
           S  == ImportKind(kind)
           T  == {n \in Nat : n <= Len(m.imports) => up[n] \in Seq(S)}
<1>0. /\ m.imports \in Seq(Import) /\ Len(m.imports) \in Nat
      /\ \A n \in 1..Len(m.imports) : m.imports[n] \in Import
  <2>1. m.imports \in Seq(Import)
    BY DEF Module
  <2> QED
    BY <2>1, LenProperties, ElementOfSeq
<1>1. up = [n \in 0..Len(m.imports) |->
              IF n = 0 THEN <<>>
              ELSE IF m.imports[n].kind = kind THEN Append(up[n - 1], m.imports[n])
              ELSE up[n - 1]]
  BY <1>0, ImportsUpToDef
<1> HIDE DEF up
<1>2. 0 \in T
  <2>1. up[0] = <<>>
    BY <1>0, <1>1
  <2> QED
    BY <2>1, EmptySeq
<1>3. ASSUME NEW n \in Nat, n \in T
      PROVE  n + 1 \in T
  <2> SUFFICES ASSUME n + 1 <= Len(m.imports)
               PROVE  up[n + 1] \in Seq(S)
    OBVIOUS
  <2>1. up[n] \in Seq(S) /\ n + 1 \in 1..Len(m.imports)
    BY <1>0, <1>3
  <2>2. up[n + 1] = IF m.imports[n + 1].kind = kind THEN Append(up[n], m.imports[n + 1])
                    ELSE up[n]
    <3>1. n + 1 \in 0..Len(m.imports) /\ n + 1 # 0 /\ (n + 1) - 1 = n
      BY <1>0, <2>1
    <3> QED
      BY <1>1, <3>1
  <2>3. m.imports[n + 1].kind = kind => m.imports[n + 1] \in S
    BY <1>0, <2>1 DEF ImportKind
  <2> HIDE DEF S
  <2> QED
    BY <2>1, <2>2, <2>3, AppendProperties
<1>4. \A n \in Nat : n \in T
  <2> HIDE DEF T
  <2> QED
    BY <1>2, <1>3, SetInduction
<1> QED
  BY <1>0, <1>4 DEF up

\* What one more import does to the imports of a kind.
LEMMA ImportsUpToNext ==
  ASSUME NEW m \in Module, NEW kind, NEW n \in 1..Len(m.imports)
  PROVE  ImportsUpTo(m, kind)[n] =
           IF m.imports[n].kind = kind THEN Append(ImportsUpTo(m, kind)[n - 1], m.imports[n])
           ELSE ImportsUpTo(m, kind)[n - 1]
<1> DEFINE up == ImportsUpTo(m, kind)
<1>1. Len(m.imports) \in Nat
  BY ImportsUpToOk
<1>2. n \in 0..Len(m.imports) /\ n # 0
  BY <1>1
<1>3. up = [i \in 0..Len(m.imports) |->
              IF i = 0 THEN <<>>
              ELSE IF m.imports[i].kind = kind THEN Append(up[i - 1], m.imports[i])
              ELSE up[i - 1]]
  BY <1>1, ImportsUpToDef
<1> HIDE DEF up
<1>4. up[n] = IF m.imports[n].kind = kind THEN Append(up[n - 1], m.imports[n]) ELSE up[n - 1]
  BY <1>2, <1>3
<1> QED
  BY <1>4 DEF up

\* Nothing is imported before the first import.
LEMMA ImportsUpToNone ==
  ASSUME NEW m \in Module, NEW kind
  PROVE  ImportsUpTo(m, kind)[0] = <<>>
BY ImportsUpToOk, ImportsUpToDef

\* The imports of a kind among the first n are a prefix of all of them.
LEMMA ImportsUpToPrefix ==
  ASSUME NEW m \in Module, NEW kind, NEW n \in 0..Len(m.imports)
  PROVE  /\ Len(ImportsUpTo(m, kind)[n]) \in Nat /\ Len(ImportsOf(m, kind)) \in Nat
         /\ Len(ImportsUpTo(m, kind)[n]) <= Len(ImportsOf(m, kind))
         /\ \A i \in 1..Len(ImportsUpTo(m, kind)[n]) :
              ImportsOf(m, kind)[i] = ImportsUpTo(m, kind)[n][i]
<1> DEFINE up == ImportsUpTo(m, kind)
           S  == ImportKind(kind)
           P(j) == /\ Len(up[n]) <= Len(up[j])
                   /\ \A i \in 1..Len(up[n]) : up[j][i] = up[n][i]
           T  == {d \in Nat : n + d <= Len(m.imports) => P(n + d)}
<1>1. /\ Len(m.imports) \in Nat
      /\ \A j \in 0..Len(m.imports) : up[j] \in Seq(S)
  BY ImportsUpToOk
<1>2. \A j \in 0..Len(m.imports) : Len(up[j]) \in Nat
  BY <1>1, LenProperties
<1>3. ASSUME NEW j \in 1..Len(m.imports)
      PROVE  /\ Len(up[j - 1]) <= Len(up[j])
             /\ \A i \in 1..Len(up[j - 1]) : up[j][i] = up[j - 1][i]
  <2>1. up[j] = IF m.imports[j].kind = kind THEN Append(up[j - 1], m.imports[j]) ELSE up[j - 1]
    BY ImportsUpToNext
  <2>2. j - 1 \in 0..Len(m.imports) /\ up[j - 1] \in Seq(S) /\ Len(up[j - 1]) \in Nat
    BY <1>1, <1>2
  <2>3. m.imports[j].kind = kind => m.imports[j] \in S
    <3>1. m.imports \in Seq(Import)
      BY DEF Module
    <3>2. m.imports[j] \in Import
      BY <3>1, ElementOfSeq
    <3> QED
      BY <3>2 DEF ImportKind
  <2> HIDE DEF up, S
  <2>4. CASE m.imports[j].kind = kind
    <3>1. /\ Len(Append(up[j - 1], m.imports[j])) = Len(up[j - 1]) + 1
          /\ \A i \in 1..Len(up[j - 1]) : Append(up[j - 1], m.imports[j])[i] = up[j - 1][i]
      BY <2>2, <2>3, <2>4, AppendProperties
    <3> QED
      BY <2>1, <2>2, <2>4, <3>1
  <2>5. CASE m.imports[j].kind # kind
    BY <2>1, <2>2, <2>5
  <2> QED
    BY <2>4, <2>5
<1> HIDE DEF up, S
<1>4. 0 \in T
  BY <1>2
<1>5. ASSUME NEW d \in Nat, d \in T
      PROVE  d + 1 \in T
  <2> SUFFICES ASSUME n + (d + 1) <= Len(m.imports)
               PROVE  P(n + (d + 1))
    OBVIOUS
  <2>1. P(n + d)
    BY <1>1, <1>5
  <2>2. n + (d + 1) \in 1..Len(m.imports) /\ (n + (d + 1)) - 1 = n + d /\ n + d \in 0..Len(m.imports)
    BY <1>1
  <2>3. /\ Len(up[n + d]) <= Len(up[n + (d + 1)])
        /\ \A i \in 1..Len(up[n + d]) : up[n + (d + 1)][i] = up[n + d][i]
    BY <1>3, <2>2
  <2>4. Len(up[n]) \in Nat /\ Len(up[n + d]) \in Nat /\ Len(up[n + (d + 1)]) \in Nat
    BY <1>1, <1>2, <2>2
  <2> QED
    BY <2>1, <2>3, <2>4
<1>6. \A d \in Nat : d \in T
  <2> HIDE DEF T
  <2> QED
    BY <1>4, <1>5, SetInduction
<1>7. P(Len(m.imports))
  <2>1. Len(m.imports) - n \in Nat /\ n + (Len(m.imports) - n) = Len(m.imports)
    BY <1>1
  <2>2. Len(m.imports) - n \in T
    BY <1>6, <2>1
  <2> QED
    BY <1>1, <2>1, <2>2
<1> QED
  BY <1>1, <1>2, <1>7 DEF up, ImportsOf

-----------------------------------------------------------------------------
(* The index spaces of a module.                                           *)

\* The imports of a kind.
LEMMA ImportsOfOk ==
  ASSUME NEW m \in Module, NEW kind
  PROVE  /\ Len(ImportsOf(m, kind)) \in Nat
         /\ DOMAIN ImportsOf(m, kind) = 1..Len(ImportsOf(m, kind))
         /\ \A n \in 1..Len(ImportsOf(m, kind)) :
              ImportsOf(m, kind)[n] \in Import /\ ImportsOf(m, kind)[n].kind = kind
<1> DEFINE I == ImportsOf(m, kind)
<1>1. I \in Seq(ImportKind(kind))
  BY ImportsUpToOk DEF ImportsOf
<1> HIDE DEF I
<1>2. /\ Len(I) \in Nat /\ DOMAIN I = 1..Len(I)
      /\ \A n \in 1..Len(I) : I[n] \in ImportKind(kind)
  BY <1>1, LenProperties, ElementOfSeq
<1>3. /\ Len(I) \in Nat /\ DOMAIN I = 1..Len(I)
      /\ \A n \in 1..Len(I) : I[n] \in Import /\ I[n].kind = kind
  BY <1>2 DEF ImportKind
<1> QED
  BY <1>3 DEF I

\* One sequence after another.
LEMMA ConcatOk ==
  ASSUME NEW S, NEW n \in Nat, NEW f \in [1..n -> S], NEW t \in Seq(S)
  PROVE  f \o t \in Seq(S) /\ Len(t) \in Nat /\ Len(f \o t) = n + Len(t)
<1>1. f \in Seq(S) /\ Len(f) = n /\ Len(t) \in Nat
  BY FunSeq, LenProperties
<1> QED
  BY <1>1, ConcatProperties

\* The first part of a concatenation ...
LEMMA ConcatFirst ==
  ASSUME NEW S, NEW n \in Nat, NEW f \in [1..n -> S], NEW t \in Seq(S), NEW i \in 1..n
  PROVE  (f \o t)[i] = f[i]
<1>1. f \in Seq(S) /\ Len(f) = n /\ Len(t) \in Nat
  BY FunSeq, LenProperties
<1>2. i \in 1..(Len(f) + Len(t)) /\ i <= Len(f)
  BY <1>1
<1> QED
  BY <1>1, <1>2, ConcatProperties

\* ... and the second one.
LEMMA ConcatSecond ==
  ASSUME NEW S, NEW n \in Nat, NEW f \in [1..n -> S], NEW t \in Seq(S), NEW i \in 1..Len(t)
  PROVE  (f \o t)[n + i] = t[i]
<1>1. f \in Seq(S) /\ Len(f) = n /\ Len(t) \in Nat
  BY FunSeq, LenProperties
<1>2. n + i \in 1..(Len(f) + Len(t)) /\ ~ (n + i <= Len(f)) /\ (n + i) - Len(f) = i
  BY <1>1
<1>3. (f \o t)[n + i] = IF n + i <= Len(f) THEN f[n + i] ELSE t[(n + i) - Len(f)]
  BY <1>1, <1>2, ConcatProperties
<1> QED
  BY <1>2, <1>3

\* A space s is n imports, f, and then the module's own, t.
Joined(s, S, n, f, t) ==
  /\ s \in Seq(S) /\ Len(t) \in Nat /\ Len(s) = n + Len(t)
  /\ DOMAIN s = 1..(n + Len(t))
  /\ \A i \in 1..n : s[i] = f[i]
  /\ \A i \in 1..Len(t) : s[n + i] = t[i]

\* A concatenation is its two parts, one after the other.
LEMMA JoinedOk ==
  ASSUME NEW S, NEW n \in Nat, NEW f \in [1..n -> S], NEW t \in Seq(S)
  PROVE  Joined(f \o t, S, n, f, t)
<1>1. f \o t \in Seq(S) /\ Len(t) \in Nat /\ Len(f \o t) = n + Len(t)
  BY ConcatOk
<1>2. DOMAIN (f \o t) = 1..Len(f \o t)
  BY <1>1, LenProperties
<1>3. \A i \in 1..n : (f \o t)[i] = f[i]
  BY ConcatFirst
<1>4. \A i \in 1..Len(t) : (f \o t)[n + i] = t[i]
  BY ConcatSecond
<1> QED
  BY <1>1, <1>2, <1>3, <1>4 DEF Joined

\* The function index space.
LEMMA FuncSpaceOk ==
  ASSUME NEW m \in Module
  PROVE  LET I == ImportsOf(m, "func") IN
         /\ FuncSpace(m) \in Seq(Nat)
         /\ Len(I) \in Nat /\ Len(m.funcs) \in Nat
         /\ DOMAIN FuncSpace(m) = 1..(Len(I) + Len(m.funcs))
         /\ SpaceSize(m, "func") = Len(I) + Len(m.funcs)
         /\ \A n \in 1..Len(I) : FuncSpace(m)[n] = I[n].idx
         /\ \A n \in 1..Len(m.funcs) : FuncSpace(m)[Len(I) + n] = m.funcs[n]
<1> DEFINE I == ImportsOf(m, "func")
           f == [i \in DOMAIN I |-> I[i].idx]
<1>1. /\ Len(I) \in Nat /\ DOMAIN I = 1..Len(I)
      /\ \A n \in 1..Len(I) : I[n] \in Import /\ I[n].kind = "func"
  BY ImportsOfOk
<1>2. m.funcs \in Seq(Nat) /\ FuncSpace(m) = f \o m.funcs
  BY DEF Module, FuncSpace
<1>3. SpaceSize(m, "func") = Len(FuncSpace(m))
  BY DEF SpaceSize
<1> HIDE DEF I
<1>4. f \in [1..Len(I) -> Nat] /\ \A n \in 1..Len(I) : f[n] = I[n].idx
  BY <1>1 DEF Import
<1> HIDE DEF f
<1>5. Joined(f \o m.funcs, Nat, Len(I), f, m.funcs)
  BY <1>1, <1>2, <1>4, JoinedOk
<1>6. \A n \in 1..Len(I) : FuncSpace(m)[n] = I[n].idx
  BY <1>2, <1>4, <1>5 DEF Joined
<1>7. SpaceSize(m, "func") = Len(I) + Len(m.funcs)
  BY <1>2, <1>3, <1>5 DEF Joined
<1> QED
  BY <1>1, <1>2, <1>5, <1>6, <1>7 DEF I, Joined

\* The table index space.
LEMMA TableSpaceOk ==
  ASSUME NEW m \in Module
  PROVE  LET I == ImportsOf(m, "table") IN
         /\ TableSpace(m) \in Seq(TableType)
         /\ Len(I) \in Nat /\ Len(m.tables) \in Nat
         /\ DOMAIN TableSpace(m) = 1..(Len(I) + Len(m.tables))
         /\ SpaceSize(m, "table") = Len(I) + Len(m.tables)
         /\ \A n \in 1..Len(I) : TableSpace(m)[n] = I[n].ty
         /\ \A n \in 1..Len(m.tables) : TableSpace(m)[Len(I) + n] = m.tables[n]
<1> DEFINE I == ImportsOf(m, "table")
           f == [i \in DOMAIN I |-> I[i].ty]
<1>1. /\ Len(I) \in Nat /\ DOMAIN I = 1..Len(I)
      /\ \A n \in 1..Len(I) : I[n] \in Import /\ I[n].kind = "table"
  BY ImportsOfOk
<1>2. m.tables \in Seq(TableType) /\ TableSpace(m) = f \o m.tables
  BY DEF Module, TableSpace
<1>3. SpaceSize(m, "table") = Len(TableSpace(m))
  BY DEF SpaceSize
<1> HIDE DEF I
<1>4. f \in [1..Len(I) -> TableType] /\ \A n \in 1..Len(I) : f[n] = I[n].ty
  BY <1>1 DEF Import
<1> HIDE DEF f
<1>5. Joined(f \o m.tables, TableType, Len(I), f, m.tables)
  BY <1>1, <1>2, <1>4, JoinedOk
<1>6. \A n \in 1..Len(I) : TableSpace(m)[n] = I[n].ty
  BY <1>2, <1>4, <1>5 DEF Joined
<1>7. SpaceSize(m, "table") = Len(I) + Len(m.tables)
  BY <1>2, <1>3, <1>5 DEF Joined
<1> QED
  BY <1>1, <1>2, <1>5, <1>6, <1>7 DEF I, Joined

\* The memory index space.
LEMMA MemSpaceOk ==
  ASSUME NEW m \in Module
  PROVE  LET I == ImportsOf(m, "mem") IN
         /\ MemSpace(m) \in Seq(MemType)
         /\ Len(I) \in Nat /\ Len(m.mems) \in Nat
         /\ DOMAIN MemSpace(m) = 1..(Len(I) + Len(m.mems))
         /\ SpaceSize(m, "mem") = Len(I) + Len(m.mems)
         /\ \A n \in 1..Len(I) : MemSpace(m)[n] = I[n].ty
         /\ \A n \in 1..Len(m.mems) : MemSpace(m)[Len(I) + n] = m.mems[n]
<1> DEFINE I == ImportsOf(m, "mem")
           f == [i \in DOMAIN I |-> I[i].ty]
<1>1. /\ Len(I) \in Nat /\ DOMAIN I = 1..Len(I)
      /\ \A n \in 1..Len(I) : I[n] \in Import /\ I[n].kind = "mem"
  BY ImportsOfOk
<1>2. m.mems \in Seq(MemType) /\ MemSpace(m) = f \o m.mems
  BY DEF Module, MemSpace
<1>3. SpaceSize(m, "mem") = Len(MemSpace(m))
  BY DEF SpaceSize
<1> HIDE DEF I
<1>4. f \in [1..Len(I) -> MemType] /\ \A n \in 1..Len(I) : f[n] = I[n].ty
  BY <1>1 DEF Import
<1> HIDE DEF f
<1>5. Joined(f \o m.mems, MemType, Len(I), f, m.mems)
  BY <1>1, <1>2, <1>4, JoinedOk
<1>6. \A n \in 1..Len(I) : MemSpace(m)[n] = I[n].ty
  BY <1>2, <1>4, <1>5 DEF Joined
<1>7. SpaceSize(m, "mem") = Len(I) + Len(m.mems)
  BY <1>2, <1>3, <1>5 DEF Joined
<1> QED
  BY <1>1, <1>2, <1>5, <1>6, <1>7 DEF I, Joined

\* The global index space.
LEMMA GlobalSpaceOk ==
  ASSUME NEW m \in Module
  PROVE  LET I == ImportsOf(m, "global") IN
         /\ GlobalSpace(m) \in Seq(GlobalType)
         /\ Len(I) \in Nat /\ Len(m.globals) \in Nat
         /\ DOMAIN GlobalSpace(m) = 1..(Len(I) + Len(m.globals))
         /\ SpaceSize(m, "global") = Len(I) + Len(m.globals)
         /\ \A n \in 1..Len(I) : GlobalSpace(m)[n] = I[n].ty
         /\ \A n \in 1..Len(m.globals) : GlobalSpace(m)[Len(I) + n] = m.globals[n].ty
<1> DEFINE I == ImportsOf(m, "global")
           f == [i \in DOMAIN I |-> I[i].ty]
           g == [i \in DOMAIN m.globals |-> m.globals[i].ty]
<1>1. /\ Len(I) \in Nat /\ DOMAIN I = 1..Len(I)
      /\ \A n \in 1..Len(I) : I[n] \in Import /\ I[n].kind = "global"
  BY ImportsOfOk
<1>2. GlobalSpace(m) = f \o g
  BY DEF GlobalSpace
<1>3. SpaceSize(m, "global") = Len(GlobalSpace(m))
  BY DEF SpaceSize
<1>4. /\ Len(m.globals) \in Nat /\ DOMAIN m.globals = 1..Len(m.globals)
      /\ \A n \in 1..Len(m.globals) : m.globals[n] \in [ty : GlobalType, init : ConstExpr]
  <2>1. m.globals \in Seq([ty : GlobalType, init : ConstExpr])
    BY DEF Module
  <2> QED
    BY <2>1, LenProperties, ElementOfSeq
<1>5. /\ g \in Seq(GlobalType) /\ Len(g) = Len(m.globals)
      /\ \A n \in 1..Len(m.globals) : g[n] = m.globals[n].ty
  <2>1. g \in [1..Len(m.globals) -> GlobalType]
    BY <1>4
  <2> QED
    BY <1>4, <2>1, FunSeq
<1> HIDE DEF I, g
<1>6. f \in [1..Len(I) -> GlobalType] /\ \A n \in 1..Len(I) : f[n] = I[n].ty
  BY <1>1 DEF Import
<1> HIDE DEF f
<1>7. Joined(f \o g, GlobalType, Len(I), f, g)
  BY <1>1, <1>5, <1>6, JoinedOk
<1>8. \A n \in 1..Len(I) : GlobalSpace(m)[n] = I[n].ty
  BY <1>2, <1>6, <1>7 DEF Joined
<1>9. \A n \in 1..Len(m.globals) : GlobalSpace(m)[Len(I) + n] = m.globals[n].ty
  BY <1>2, <1>5, <1>7 DEF Joined
<1>10. /\ SpaceSize(m, "global") = Len(I) + Len(m.globals)
       /\ GlobalSpace(m) \in Seq(GlobalType)
       /\ DOMAIN GlobalSpace(m) = 1..(Len(I) + Len(m.globals))
  BY <1>2, <1>3, <1>5, <1>7 DEF Joined
<1> QED
  BY <1>1, <1>4, <1>8, <1>9, <1>10 DEF I

-----------------------------------------------------------------------------
(* What fits goes on fitting: entries keep their type and never shrink.    *)

\* The first n entries keep their types.
KeptType(n, old, new) == \A a \in 1..n : new[a].ty = old[a].ty

\* The first n tables and memories do not shrink.
KeptTable(n, old, new) ==
  /\ KeptType(n, old, new)
  /\ \A a \in 1..n : /\ Len(old[a].elems) \in Nat /\ Len(new[a].elems) \in Nat
                     /\ Len(old[a].elems) <= Len(new[a].elems)
KeptMem(n, old, new) ==
  /\ KeptType(n, old, new)
  /\ \A a \in 1..n : /\ old[a].pages \in Nat /\ new[a].pages \in Nat
                     /\ old[a].pages <= new[a].pages

\* More entries satisfy the same limits.
LEMMA SatisfiesMore ==
  ASSUME NEW l \in Limits, NEW max, NEW n \in Nat, NEW n2 \in Nat, n <= n2,
         Satisfies(n, max, l)
  PROVE  Satisfies(n2, max, l)
BY DEF Satisfies, Limits

\* An address vector keeps fitting while the entries it names keep their types.
LEMMA FitsFuncKept ==
  ASSUME NEW m, NEW n, NEW f \in Seq(1..n), NEW old, NEW new, KeptType(n, old, new),
         FitsFunc(m, f, old)
  PROVE  FitsFunc(m, f, new)
<1>1. \A i \in DOMAIN f : f[i] \in 1..n
  BY ElementOfSeq, LenProperties
<1> QED
  BY <1>1 DEF FitsFunc, KeptType

\* The same of globals.
LEMMA FitsGlobalKept ==
  ASSUME NEW m, NEW n, NEW f \in Seq(1..n), NEW old, NEW new, KeptType(n, old, new),
         FitsGlobal(m, f, old)
  PROVE  FitsGlobal(m, f, new)
<1>1. \A i \in DOMAIN f : f[i] \in 1..n
  BY ElementOfSeq, LenProperties
<1> QED
  BY <1>1 DEF FitsGlobal, KeptType

\* A table that only grows still satisfies the import it was matched against.
LEMMA FitsTableKept ==
  ASSUME NEW m \in Module, NEW n, NEW f \in Seq(1..n), NEW old, NEW new,
         KeptTable(n, old, new), FitsTable(m, f, old)
  PROVE  FitsTable(m, f, new)
<1>1. \A i \in DOMAIN f : f[i] \in 1..n
  BY ElementOfSeq, LenProperties
<1>2. ASSUME NEW i \in DOMAIN TableSpace(m)
      PROVE  TableSpace(m)[i].limits \in Limits
  <2>1. TableSpace(m)[i] \in TableType
    BY TableSpaceOk, ElementOfSeq, LenProperties
  <2> QED
    BY <2>1 DEF TableType
<1> SUFFICES ASSUME NEW i \in DOMAIN f
             PROVE  /\ i \in DOMAIN TableSpace(m)
                    /\ new[f[i]].ty.elem = TableSpace(m)[i].elem
                    /\ Satisfies(Len(new[f[i]].elems), new[f[i]].ty.limits.max,
                                 TableSpace(m)[i].limits)
  BY DEF FitsTable
<1>3. /\ i \in DOMAIN TableSpace(m)
      /\ old[f[i]].ty.elem = TableSpace(m)[i].elem
      /\ Satisfies(Len(old[f[i]].elems), old[f[i]].ty.limits.max, TableSpace(m)[i].limits)
  BY DEF FitsTable
<1>4. /\ new[f[i]].ty = old[f[i]].ty
      /\ Len(old[f[i]].elems) \in Nat /\ Len(new[f[i]].elems) \in Nat
      /\ Len(old[f[i]].elems) <= Len(new[f[i]].elems)
  BY <1>1 DEF KeptTable, KeptType
<1>5. Satisfies(Len(new[f[i]].elems), old[f[i]].ty.limits.max, TableSpace(m)[i].limits)
  BY <1>2, <1>3, <1>4, SatisfiesMore
<1> QED
  BY <1>3, <1>4, <1>5

\* The same of memories.
LEMMA FitsMemKept ==
  ASSUME NEW m \in Module, NEW n, NEW f \in Seq(1..n), NEW old, NEW new,
         KeptMem(n, old, new), FitsMem(m, f, old)
  PROVE  FitsMem(m, f, new)
<1>1. \A i \in DOMAIN f : f[i] \in 1..n
  BY ElementOfSeq, LenProperties
<1>2. ASSUME NEW i \in DOMAIN MemSpace(m)
      PROVE  MemSpace(m)[i].limits \in Limits
  <2>1. MemSpace(m)[i] \in MemType
    BY MemSpaceOk, ElementOfSeq, LenProperties
  <2> QED
    BY <2>1 DEF MemType
<1> SUFFICES ASSUME NEW i \in DOMAIN f
             PROVE  /\ i \in DOMAIN MemSpace(m)
                    /\ Satisfies(new[f[i]].pages, new[f[i]].ty.limits.max,
                                 MemSpace(m)[i].limits)
  BY DEF FitsMem
<1>3. /\ i \in DOMAIN MemSpace(m)
      /\ Satisfies(old[f[i]].pages, old[f[i]].ty.limits.max, MemSpace(m)[i].limits)
  BY DEF FitsMem
<1>4. /\ new[f[i]].ty = old[f[i]].ty
      /\ old[f[i]].pages \in Nat /\ new[f[i]].pages \in Nat
      /\ old[f[i]].pages <= new[f[i]].pages
  BY <1>1 DEF KeptMem, KeptType
<1>5. Satisfies(new[f[i]].pages, old[f[i]].ty.limits.max, MemSpace(m)[i].limits)
  BY <1>2, <1>3, <1>4, SatisfiesMore
<1> QED
  BY <1>3, <1>4, <1>5

\* The pools between two states, up to the sizes z.
Kept(z, fs, ts, ms, gs, fs2, ts2, ms2, gs2) ==
  /\ KeptType(z.func, fs, fs2) /\ KeptTable(z.table, ts, ts2)
  /\ KeptMem(z.mem, ms, ms2) /\ KeptType(z.global, gs, gs2)

\* The same of the four vectors of an instance.
LEMMA FitsKept ==
  ASSUME NEW m \in Module, NEW z \in SizeType, NEW ad \in Addrs(z),
         NEW fs, NEW ts, NEW ms, NEW gs, NEW fs2, NEW ts2, NEW ms2, NEW gs2,
         Kept(z, fs, ts, ms, gs, fs2, ts2, ms2, gs2), Fits(m, ad, fs, ts, ms, gs)
  PROVE  Fits(m, ad, fs2, ts2, ms2, gs2)
<1>1. /\ ad.func \in Seq(1..z.func) /\ ad.table \in Seq(1..z.table)
      /\ ad.mem \in Seq(1..z.mem) /\ ad.global \in Seq(1..z.global)
  BY DEF Addrs
<1>2. FitsFunc(m, ad.func, fs2)
  BY <1>1, FitsFuncKept DEF Kept, Fits
<1>3. FitsTable(m, ad.table, ts2)
  BY <1>1, FitsTableKept DEF Kept, Fits
<1>4. FitsMem(m, ad.mem, ms2)
  BY <1>1, FitsMemKept DEF Kept, Fits
<1>5. FitsGlobal(m, ad.global, gs2)
  BY <1>1, FitsGlobalKept DEF Kept, Fits
<1> QED
  BY <1>2, <1>3, <1>4, <1>5 DEF Fits

\* An instance whose addresses stay and whose element segments are kept or
\* dropped goes on running its code.
LEMMA RunsKept ==
  ASSUME NEW z \in SizeType, NEW in \in Inst(z), NEW in2, NEW m,
         NEW fs, NEW ts, NEW ms, NEW gs, NEW fs2, NEW ts2, NEW ms2, NEW gs2,
         Kept(z, fs, ts, ms, gs, fs2, ts2, ms2, gs2),
         in2.addrs = in.addrs, DOMAIN in2.elems = DOMAIN in.elems,
         \A e \in DOMAIN in.elems : in2.elems[e] \in {in.elems[e], <<>>},
         Runs(in, m, fs, ts, ms, gs)
  PROVE  Runs(in2, m, fs2, ts2, ms2, gs2)
<1> SUFFICES ASSUME m \in Modules
             PROVE  /\ ValidModule(m)
                    /\ Fits(m, in2.addrs, fs2, ts2, ms2, gs2) /\ Complete(m, in2.addrs)
                    /\ SegmentsTyped(m, in2.elems)
  BY DEF Runs
<1>1. /\ ValidModule(m)
      /\ Fits(m, in.addrs, fs, ts, ms, gs) /\ Complete(m, in.addrs)
      /\ SegmentsTyped(m, in.elems)
  BY DEF Runs
<1>2. m \in Module /\ in.addrs \in Addrs(z)
  BY StoreAssumption DEF Inst
<1>3. Fits(m, in.addrs, fs2, ts2, ms2, gs2)
  BY <1>1, <1>2, FitsKept
<1>4. DOMAIN <<>> = {}
  OBVIOUS
<1>5. SegmentsTyped(m, in2.elems)
  BY <1>1, <1>4 DEF SegmentsTyped
<1> QED
  BY <1>1, <1>3, <1>5

-----------------------------------------------------------------------------
(* Constant expressions of a validated module evaluate, to the type wanted. *)

\* A position of a sequence of known length.
LEMMA SeqAt ==
  ASSUME NEW S, NEW s \in Seq(S), NEW i \in DOMAIN s
  PROVE  s[i] \in S /\ i \in 1..Len(s) /\ Len(s) \in Nat
BY ElementOfSeq, LenProperties

\* The addresses of an instance.
LEMMA AddrsOk ==
  ASSUME NEW z \in SizeType, NEW in \in Inst(z)
  PROVE  /\ in.addrs \in Addrs(z)
         /\ in.addrs.func \in Seq(1..z.func) /\ in.addrs.table \in Seq(1..z.table)
         /\ in.addrs.mem \in Seq(1..z.mem) /\ in.addrs.global \in Seq(1..z.global)
         /\ \A kind \in Kind : /\ Len(in.addrs[kind]) \in Nat
                               /\ DOMAIN in.addrs[kind] = 1..Len(in.addrs[kind])
<1>1. in.addrs \in Addrs(z)
  BY DEF Inst
<1>2. /\ in.addrs.func \in Seq(1..z.func) /\ in.addrs.table \in Seq(1..z.table)
      /\ in.addrs.mem \in Seq(1..z.mem) /\ in.addrs.global \in Seq(1..z.global)
  BY <1>1 DEF Addrs
<1>3. /\ Len(in.addrs.func) \in Nat /\ DOMAIN in.addrs.func = 1..Len(in.addrs.func)
      /\ Len(in.addrs.table) \in Nat /\ DOMAIN in.addrs.table = 1..Len(in.addrs.table)
      /\ Len(in.addrs.mem) \in Nat /\ DOMAIN in.addrs.mem = 1..Len(in.addrs.mem)
      /\ Len(in.addrs.global) \in Nat /\ DOMAIN in.addrs.global = 1..Len(in.addrs.global)
  BY <1>2, LenProperties
<1> QED
  BY <1>1, <1>2, <1>3 DEF Kind

\* An instance, complete or not, that has all functions and the imported
\* globals of m: what eval_const indexes is there and has the wanted type.
LEMMA EvalTyped ==
  ASSUME PoolsInv, StoreTyped, NEW in \in Inst(Sizes), NEW m \in Module,
         NEW e \in ConstExpr, NEW want, ConstExprOk(m, e, want),
         FitsGlobal(m, in.addrs.global, globals),
         Len(in.addrs.func) = SpaceSize(m, "func"),
         Len(in.addrs.global) >= Len(ImportsOf(m, "global"))
  PROVE  Evaluable(in, e) /\ EvalConst(in, e).ty = want
<1> DEFINE c == e[1]
<1>0. Sizes \in SizeType
  BY SizesOk
<1>1. /\ DOMAIN in.addrs.func = DOMAIN FuncSpace(m)
      /\ DOMAIN ImportsOf(m, "global") \subseteq DOMAIN in.addrs.global
      /\ in.addrs.global \in Seq(1..Len(globals))
  <2>1. DOMAIN in.addrs.func = 1..SpaceSize(m, "func")
    BY <1>0, AddrsOk DEF Kind
  <2>2. DOMAIN FuncSpace(m) = 1..SpaceSize(m, "func")
    BY FuncSpaceOk
  <2>3. /\ DOMAIN in.addrs.global = 1..Len(in.addrs.global) /\ Len(in.addrs.global) \in Nat
        /\ in.addrs.global \in Seq(1..Sizes.global)
    BY <1>0, AddrsOk DEF Kind
  <2>4. /\ DOMAIN ImportsOf(m, "global") = 1..Len(ImportsOf(m, "global"))
        /\ Len(ImportsOf(m, "global")) \in Nat
    BY ImportsOfOk
  <2> QED
    BY <2>1, <2>2, <2>3, <2>4 DEF Sizes
<1>2. e # <<>> /\ c \in ConstInstr
  <2>1. Len(e) = 1 /\ e # <<>>
    <3>1. e \in Seq(ConstInstr) /\ Len(e) = 1
      BY DEF ConstExpr, ConstExprOk
    <3> QED
      BY ONLY <3>1, EmptySeq
  <2>2. e[1] \in ConstInstr
    <3>1. e \in Seq(ConstInstr) /\ 1 \in 1..Len(e)
      BY <2>1 DEF ConstExpr
    <3> QED
      BY <3>1, ElementOfSeq
  <2> QED
    BY <2>1, <2>2
<1>3. CASE c.op = "i32.const" /\ want = "i32"
  BY <1>2, <1>3 DEF Evaluable, EvalConst, I32
<1>4. CASE c.op = "ref.null" /\ want = c.ty
  BY <1>2, <1>4 DEF Evaluable, EvalConst, NullOf
<1>5. CASE c.op = "ref.func" /\ want = "funcref" /\ c.idx \in DOMAIN FuncSpace(m)
  BY <1>1, <1>2, <1>5 DEF Evaluable, EvalConst, FuncRef
<1>6. CASE /\ c.op = "global.get" /\ c.idx \in DOMAIN ImportsOf(m, "global")
           /\ want = GlobalSpace(m)[c.idx].val
  <2>1. c.idx \in DOMAIN in.addrs.global
    BY <1>1, <1>6
  <2>2. Evaluable(in, e) /\ EvalConst(in, e) = globals[in.addrs.global[c.idx]].val
    BY <1>2, <1>6, <2>1 DEF Evaluable, EvalConst
  <2>3. in.addrs.global[c.idx] \in DOMAIN globals
    <3>1. in.addrs.global[c.idx] \in 1..Len(globals)
      BY <1>1, <2>1, SeqAt
    <3> QED
      BY <3>1, LenProperties DEF PoolsInv
  <2>4. globals[in.addrs.global[c.idx]].ty = GlobalSpace(m)[c.idx]
    BY <2>1 DEF FitsGlobal
  <2>5. globals[in.addrs.global[c.idx]].val.ty = globals[in.addrs.global[c.idx]].ty.val
    BY <2>3 DEF StoreTyped
  <2> QED
    BY <1>6, <2>2, <2>4, <2>5
<1> QED
  BY <1>3, <1>4, <1>5, <1>6 DEF ConstExprOk

-----------------------------------------------------------------------------
(* Steps that leave the store alone.                                       *)

\* A call that ends, wherever it is, when the store stays.
LEMMA EndSound ==
  ASSUME SoundInv, NEW r, Finish(r), UNCHANGED storeVars
  PROVE  SoundInv'
<1> USE DEF storeVars, Finish
<1>1. ContentInv'
  BY DEF SoundInv, ContentInv, StoreTyped
<1>2. RunsInv'
  BY DEF SoundInv, RunsInv
<1>3. CodeInv'
  BY DEF SoundInv, CodeInv
<1>4. LinkInv'
  BY DEF LinkInv
<1> QED
  BY <1>1, <1>2, <1>3, <1>4 DEF SoundInv

\* Code runs in instances that have code.
LEMMA MachineSound ==
  ASSUME SoundInv, phase' = "run", inst' = EmptyInstance, UNCHANGED storeVars,
         \A n \in DOMAIN frames' : code[frames'[n]] \in Modules
  PROVE  SoundInv'
<1> USE DEF storeVars
<1>1. ContentInv'
  BY DEF SoundInv, ContentInv, StoreTyped
<1>2. RunsInv'
  BY DEF SoundInv, RunsInv
<1>3. CodeInv'
  BY DEF SoundInv, CodeInv
<1>4. LinkInv'
  BY DEF LinkInv
<1> QED
  BY <1>1, <1>2, <1>3, <1>4 DEF SoundInv

\* A function of the store that is not a host's belongs to code.
LEMMA OwnerHasCode ==
  ASSUME IInv, SoundInv, ~ Building, NEW a \in 1..Len(funcs), funcs[a].inst # 0
  PROVE  funcs[a].inst \in DOMAIN instances /\ code[funcs[a].inst] \in Modules
<1>1. funcs[a] \in FuncInst(Len(instances)) /\ a \in DOMAIN funcs
  BY Published, ElementOfSeq
<1>2. funcs[a].inst \in 1..Len(instances)
  BY <1>1, Published DEF FuncInst
<1> QED
  BY <1>1, <1>2, Published DEF SoundInv, CodeInv

\* invoke: a host function answers, or the machine starts in the owner of the function.
LEMMA EnterSound ==
  ASSUME IInv, SoundInv, phase \in {"idle", "segments"}, NEW a \in 1..Len(funcs),
         NEW args, Enter(a, args)
  PROVE  SoundInv'
<1>1. CASE (Finish("ok") \/ Finish("trap")) /\ UNCHANGED storeVars
  BY <1>1, EndSound
<1>2. CASE /\ funcs[a].inst # 0
           /\ phase' = "run" /\ frames' = <<funcs[a].inst>> /\ UNCHANGED <<storeVars, inst>>
  <2>1. inst' = EmptyInstance
    BY <1>2 DEF SoundInv, LinkInv
  <2>2. code[funcs[a].inst] \in Modules
    BY <1>2, OwnerHasCode DEF Building
  <2>3. \A n \in DOMAIN frames' : frames'[n] = funcs[a].inst
    BY <1>2
  <2> QED
    BY <1>2, <2>1, <2>2, <2>3, MachineSound
<1> QED
  BY <1>1, <1>2 DEF Enter

\* The start function is one of the new instance.
LEMMA RunStartSound == IInv /\ SoundInv /\ RunStart => SoundInv'
<1> SUFFICES ASSUME IInv, SoundInv, RunStart
             PROVE  SoundInv'
  OBVIOUS
<1> DEFINE in == instances[Len(instances)]
<1>0. phase = "segments" /\ ~ Building /\ instances # <<>>
  BY DEF IInv, CallInv, RunStart, Building
<1>1. in \in Inst(Sizes)
  BY <1>0, Published, EmptySeq
<1>2. CASE Finish("ok") /\ UNCHANGED <<storeVars, ops>>
  BY <1>2, EndSound
<1>3. CASE mod.start \in DOMAIN in.addrs.func /\ Enter(in.addrs.func[mod.start], <<>>)
  <2>1. in.addrs.func[mod.start] \in 1..Len(funcs)
    BY <1>0, <1>1, <1>3, AddrOk, Published DEF Kind, Sizes
  <2> HIDE DEF in
  <2> QED
    BY <1>0, <1>3, <2>1, EnterSound
<1> QED
  BY <1>2, <1>3 DEF RunStart

\* An exported function is invoked.
LEMMA InvokeExportSound == IInv /\ SoundInv /\ InvokeExport => SoundInv'
<1> SUFFICES ASSUME IInv, SoundInv, InvokeExport
             PROVE  SoundInv'
  OBVIOUS
<1>0. phase = "idle" /\ ~ Building
  BY DEF InvokeExport, Building
<1> PICK i \in DOMAIN instances : \E x \in DOMAIN instances[i].exports :
       LET ev == instances[i].exports[x].ev IN
       \E args \in EmbedderVectors :
         \/ ev.kind = "func" /\ Enter(ev.addr, args)
         \/ Finish("refused") /\ UNCHANGED storeVars
  BY DEF InvokeExport
<1> PICK x \in DOMAIN instances[i].exports :
       LET ev == instances[i].exports[x].ev IN
       \E args \in EmbedderVectors :
         \/ ev.kind = "func" /\ Enter(ev.addr, args)
         \/ Finish("refused") /\ UNCHANGED storeVars
  OBVIOUS
<1> DEFINE ev == instances[i].exports[x].ev
<1> PICK args \in EmbedderVectors :
         \/ ev.kind = "func" /\ Enter(ev.addr, args)
         \/ Finish("refused") /\ UNCHANGED storeVars
  OBVIOUS
<1>1. CASE ev.kind = "func" /\ Enter(ev.addr, args)
  <2>1. instances[i].exports \in Seq([name : STRING, ev : Extern(Sizes)])
    BY <1>0, Published DEF Inst
  <2>2. ev \in Extern(Sizes)
    <3>1. x \in 1..Len(instances[i].exports)
      BY <2>1, LenProperties
    <3>2. instances[i].exports[x] \in [name : STRING, ev : Extern(Sizes)]
      BY <2>1, <3>1, ElementOfSeq
    <3> QED
      BY <3>2
  <2> HIDE DEF ev
  <2>3. ev.addr \in 1..Len(funcs)
    <3>1. ev.addr \in 1..Sizes["func"]
      BY <1>1, <2>2, ExternAddr
    <3> QED
      BY <3>1 DEF Sizes
  <2> QED
    BY <1>0, <1>1, <2>3, EnterSound
<1>2. CASE Finish("refused") /\ UNCHANGED storeVars
  BY <1>2, EndSound
<1> QED
  BY <1>1, <1>2

\* Instructions that only use the stack, or call within the instance.
LEMMA StackSound ==
  ASSUME SoundInv, phase = "run", UNCHANGED <<storeVars, frames>>, Executed
  PROVE  SoundInv'
<1>1. phase' = "run" /\ inst' = EmptyInstance
  BY DEF Executed, callVars, SoundInv, LinkInv
<1>2. \A n \in DOMAIN frames' : code[frames'[n]] \in Modules
  BY DEF SoundInv, CodeInv
<1> QED
  BY <1>1, <1>2, MachineSound

\* A call makes the owner of the function the running instance.
LEMMA CallAddrSound ==
  ASSUME IInv, SoundInv, phase = "run", NEW a \in 1..Len(funcs), CallAddr(a),
         Executed, UNCHANGED storeVars
  PROVE  SoundInv'
<1>1. CASE UNCHANGED frames
  BY <1>1, StackSound
<1>2. CASE funcs[a].inst # 0 /\ frames' = Append(frames, funcs[a].inst)
  <2>1. phase' = "run" /\ inst' = EmptyInstance
    BY DEF Executed, callVars, SoundInv, LinkInv
  <2>2. code[funcs[a].inst] \in Modules /\ funcs[a].inst \in DOMAIN instances
    BY <1>2, OwnerHasCode, TopOk
  <2>3. frames \in Seq(1..Len(instances)) /\ funcs[a].inst \in 1..Len(instances)
    BY <2>2, TopOk, Published
  <2>4. \A n \in DOMAIN frames' : \/ n \in DOMAIN frames /\ frames'[n] = frames[n]
                                 \/ frames'[n] = funcs[a].inst
    BY ONLY <1>2, <2>3, AppendProperties, LenProperties
  <2>5. \A n \in DOMAIN frames' : code[frames'[n]] \in Modules
    BY <2>2, <2>4 DEF SoundInv, CodeInv
  <2> QED
    BY <2>1, <2>5, MachineSound
<1> QED
  BY <1>1, <1>2 DEF CallAddr

\* call takes its address from the running instance.
LEMMA CallSound == IInv /\ SoundInv /\ Call => SoundInv'
<1> SUFFICES ASSUME IInv, SoundInv, Call
             PROVE  SoundInv'
  OBVIOUS
<1>0. phase = "run" /\ Executed /\ UNCHANGED storeVars
  BY DEF Call, Running
<1> PICK i \in DOMAIN Top.addrs.func : CallAddr(Top.addrs.func[i])
  BY DEF Call
<1>1. Top.addrs.func[i] \in 1..Len(funcs)
  BY <1>0, TopOk, AddrOk DEF Kind, Sizes
<1> QED
  BY <1>0, <1>1, CallAddrSound

\* call_indirect takes its address from a table.
LEMMA CallIndirectSound == IInv /\ SoundInv /\ CallIndirect => SoundInv'
<1> SUFFICES ASSUME IInv, SoundInv, CallIndirect
             PROVE  SoundInv'
  OBVIOUS
<1>0. phase = "run" /\ Executed /\ UNCHANGED storeVars
  BY DEF CallIndirect, Running
<1> PICK t \in DOMAIN Top.addrs.table, i \in Words :
      LET elems == tables[Top.addrs.table[t]].elems IN
      /\ i < Len(elems)
      /\ elems[i + 1].ty = "funcref" /\ elems[i + 1].bits # 0
      /\ CallAddr(elems[i + 1].bits)
  BY DEF CallIndirect
<1> DEFINE elems == tables[Top.addrs.table[t]].elems
<1>1. elems \in Seq(RefValue(Len(funcs))) /\ i < Len(elems)
  BY <1>0, TableAtOk
<1>2. elems[i + 1].ty = "funcref" /\ elems[i + 1].bits # 0 /\ CallAddr(elems[i + 1].bits)
  OBVIOUS
<1> HIDE DEF elems
<1>3. elems[i + 1] \in RefValue(Len(funcs))
  <2>1. i + 1 \in 1..Len(elems)
    BY <1>1, StoreAssumption, LenProperties
  <2> QED
    BY <1>1, <2>1, ElementOfSeq
<1>4. elems[i + 1].bits \in 1..Len(funcs)
  <2>1. Len(funcs) \in Nat
    BY SizesOk DEF IInv
  <2>2. elems[i + 1].bits \in 0..Len(funcs)
    BY <1>2, <1>3 DEF RefValue
  <2> QED
    BY <1>2, <2>1, <2>2
<1> QED
  BY <1>0, <1>2, <1>4, CallAddrSound

\* A return goes back to an instance that ran before.
LEMMA ReturnSound == IInv /\ SoundInv /\ Return => SoundInv'
<1> SUFFICES ASSUME IInv, SoundInv, Return
             PROVE  SoundInv'
  OBVIOUS
<1>0. phase = "run" /\ UNCHANGED storeVars
  BY DEF Return
<1>1. CASE Finish("ok")
  BY <1>0, <1>1, EndSound
<1>2. CASE /\ frames' = SubSeq(frames, 1, Len(frames) - 1) /\ Len(frames) > 1
           /\ UNCHANGED <<phase, callVars, ret, held>>
  <2>1. frames \in Seq(1..Len(instances)) /\ Len(frames) \in Nat
    BY <1>0, TopOk
  <2>2. \A n \in DOMAIN frames' : n \in DOMAIN frames /\ frames'[n] = frames[n]
    <3>1. /\ DOMAIN frames' = 1 .. Len(frames) - 1 /\ DOMAIN frames = 1..Len(frames)
          /\ \A n \in 1 .. Len(frames) - 1 : frames'[n] = frames[n]
      BY ONLY <1>2, <2>1, SubSeqProperties, LenProperties
    <3> QED
      BY ONLY <2>1, <3>1
  <2>3. \A n \in DOMAIN frames' : code[frames'[n]] \in Modules
    BY <2>2 DEF SoundInv, CodeInv
  <2>4. phase' = "run" /\ inst' = EmptyInstance
    BY <1>0, <1>2 DEF callVars, SoundInv, LinkInv
  <2> QED
    BY <1>0, <2>3, <2>4, MachineSound
<1> QED
  BY <1>1, <1>2 DEF Return

-----------------------------------------------------------------------------
(* Imports.                                                                *)

\* The positions of a sequence with one more element.
LEMMA AppendAt ==
  ASSUME NEW S, NEW f \in Seq(S), NEW a \in S
  PROVE  \A n \in DOMAIN Append(f, a) :
           \/ n \in DOMAIN f /\ Append(f, a)[n] = f[n]
           \/ n = Len(f) + 1 /\ Append(f, a)[n] = a
<1> DEFINE g == Append(f, a)
<1>1. /\ g \in Seq(S) /\ Len(g) = Len(f) + 1 /\ g[Len(f) + 1] = a
      /\ \A i \in 1..Len(f) : g[i] = f[i]
  BY AppendProperties
<1> HIDE DEF g
<1>2. DOMAIN g = 1..(Len(f) + 1) /\ DOMAIN f = 1..Len(f) /\ Len(f) \in Nat
  BY <1>1, LenProperties
<1>3. \A n \in DOMAIN g : \/ n \in DOMAIN f /\ g[n] = f[n]
                          \/ n = Len(f) + 1 /\ g[n] = a
  BY <1>1, <1>2
<1> QED
  BY <1>3 DEF g

\* One more address of a kind.
LEMMA FitsFuncAppend ==
  ASSUME NEW m, NEW S, NEW f \in Seq(S), NEW a \in S, NEW fs, FitsFunc(m, f, fs),
         Len(f) + 1 \in DOMAIN FuncSpace(m), fs[a].ty = m.types[FuncSpace(m)[Len(f) + 1]]
  PROVE  FitsFunc(m, Append(f, a), fs)
<1>1. \A n \in DOMAIN Append(f, a) :
        \/ n \in DOMAIN f /\ Append(f, a)[n] = f[n]
        \/ n = Len(f) + 1 /\ Append(f, a)[n] = a
  BY AppendAt
<1> QED
  BY <1>1 DEF FitsFunc

\* A resolved table that satisfies its import is appended to a vector that fits.
LEMMA FitsTableAppend ==
  ASSUME NEW m, NEW S, NEW f \in Seq(S), NEW a \in S, NEW ts, FitsTable(m, f, ts),
         Len(f) + 1 \in DOMAIN TableSpace(m),
         ts[a].ty.elem = TableSpace(m)[Len(f) + 1].elem,
         Satisfies(Len(ts[a].elems), ts[a].ty.limits.max, TableSpace(m)[Len(f) + 1].limits)
  PROVE  FitsTable(m, Append(f, a), ts)
<1>1. \A n \in DOMAIN Append(f, a) :
        \/ n \in DOMAIN f /\ Append(f, a)[n] = f[n]
        \/ n = Len(f) + 1 /\ Append(f, a)[n] = a
  BY AppendAt
<1> QED
  BY <1>1 DEF FitsTable

\* The same of a memory.
LEMMA FitsMemAppend ==
  ASSUME NEW m, NEW S, NEW f \in Seq(S), NEW a \in S, NEW ms, FitsMem(m, f, ms),
         Len(f) + 1 \in DOMAIN MemSpace(m),
         Satisfies(ms[a].pages, ms[a].ty.limits.max, MemSpace(m)[Len(f) + 1].limits)
  PROVE  FitsMem(m, Append(f, a), ms)
<1>1. \A n \in DOMAIN Append(f, a) :
        \/ n \in DOMAIN f /\ Append(f, a)[n] = f[n]
        \/ n = Len(f) + 1 /\ Append(f, a)[n] = a
  BY AppendAt
<1> QED
  BY <1>1 DEF FitsMem

\* The same of a global.
LEMMA FitsGlobalAppend ==
  ASSUME NEW m, NEW S, NEW f \in Seq(S), NEW a \in S, NEW gs, FitsGlobal(m, f, gs),
         Len(f) + 1 \in DOMAIN GlobalSpace(m), gs[a].ty = GlobalSpace(m)[Len(f) + 1]
  PROVE  FitsGlobal(m, Append(f, a), gs)
<1>1. \A n \in DOMAIN Append(f, a) :
        \/ n \in DOMAIN f /\ Append(f, a)[n] = f[n]
        \/ n = Len(f) + 1 /\ Append(f, a)[n] = a
  BY AppendAt
<1> QED
  BY <1>1 DEF FitsGlobal

\* The n-th import is the next one of its kind, the q-th, and of no other.
NextOfKind(m, n, kind, q) ==
  IF m.imports[n].kind = kind
  THEN /\ Len(ImportsUpTo(m, kind)[n]) = q
       /\ q \in 1..Len(ImportsOf(m, kind)) /\ ImportsOf(m, kind)[q] = m.imports[n]
  ELSE Len(ImportsUpTo(m, kind)[n]) = q - 1

\* The import resolved next is the next one of its kind.
LEMMA NextImport ==
  ASSUME NEW m \in Module, NEW n \in 1..Len(m.imports), NEW kind, NEW q,
         q = Len(ImportsUpTo(m, kind)[n - 1]) + 1
  PROVE  NextOfKind(m, n, kind, q)
<1> DEFINE old == ImportsUpTo(m, kind)[n - 1]
           new == ImportsUpTo(m, kind)[n]
<1>1. new = IF m.imports[n].kind = kind THEN Append(old, m.imports[n]) ELSE old
  BY ImportsUpToNext
<1>2. /\ n \in 0..Len(m.imports) /\ n - 1 \in 0..Len(m.imports)
      /\ old \in Seq(ImportKind(kind))
  BY ImportsUpToOk
<1>3. /\ Len(new) \in Nat /\ Len(ImportsOf(m, kind)) \in Nat
      /\ Len(new) <= Len(ImportsOf(m, kind))
      /\ \A i \in 1..Len(new) : ImportsOf(m, kind)[i] = new[i]
  BY <1>2, ImportsUpToPrefix
<1>4. m.imports[n].kind = kind => m.imports[n] \in ImportKind(kind)
  <2>1. m.imports \in Seq(Import)
    BY DEF Module
  <2>2. m.imports[n] \in Import
    BY <2>1, ElementOfSeq
  <2> QED
    BY <2>2 DEF ImportKind
<1>5. q = Len(old) + 1 /\ Len(old) \in Nat
  BY <1>2, LenProperties
<1> HIDE DEF old, new
<1>6. CASE m.imports[n].kind = kind
  <2>1. Len(new) = q /\ new[q] = m.imports[n]
    BY <1>1, <1>2, <1>4, <1>5, <1>6, AppendProperties
  <2> QED
    BY <1>3, <1>5, <1>6, <2>1 DEF new, NextOfKind
<1>7. CASE m.imports[n].kind # kind
  BY <1>1, <1>5, <1>7 DEF new, NextOfKind
<1> QED
  BY <1>6, <1>7

\* instantiate begins with the functions of the module, all owned by the new id.
LEMMA InstantiateSound == IInv /\ SoundInv /\ Instantiate => SoundInv'
<1> SUFFICES ASSUME IInv, SoundInv, Instantiate
             PROVE  SoundInv'
  OBVIOUS
<1> USE DEF Instantiate, storeVars, runVars
<1>1. mod' \in Modules /\ ValidModule(mod') /\ mod' \in Module
  BY StoreAssumption
<1>2. inst' = EmptyInstance
  BY DEF SoundInv, LinkInv
<1>3. ContentInv'
  BY DEF SoundInv, ContentInv, StoreTyped
<1>4. RunsInv'
  BY DEF SoundInv, RunsInv
<1>5. CodeInv'
  BY DEF SoundInv, CodeInv
<1>6. LinkInv'
  <2>1. DOMAIN <<>> = {} /\ Len(<<>>) = 0
    OBVIOUS
  <2>2. /\ EmptyInstance.addrs.func = <<>> /\ EmptyInstance.addrs.table = <<>>
        /\ EmptyInstance.addrs.mem = <<>> /\ EmptyInstance.addrs.global = <<>>
        /\ \A kind \in Kind : EmptyInstance.addrs[kind] = <<>>
    BY DEF EmptyInstance, Kind
  <2>3. Fits(mod', inst'.addrs, funcs', tables', mems', globals')
    BY <1>2, <2>1, <2>2 DEF Fits, FitsFunc, FitsTable, FitsMem, FitsGlobal
  <2>4. k' \in 1 .. Len((mod').imports) + 1 /\ k' - 1 = 0
    BY <1>1, ImportsUpToOk
  <2>5. \A kind \in Kind : Len((inst').addrs[kind]) = Len(ImportsUpTo(mod', kind)[k' - 1])
    BY <1>1, <1>2, <2>1, <2>2, <2>4, ImportsUpToNone
  <2> QED
    BY <1>1, <2>3, <2>4, <2>5 DEF LinkInv
<1> QED
  BY <1>3, <1>4, <1>5, <1>6 DEF SoundInv

\* What the resolver answered fits the import it was asked for.
LEMMA ImportFits ==
  ASSUME IInv, SoundInv, phase = "import", k \in DOMAIN mod.imports, NEW ev \in ExternVal,
         InBounds(ev), ImportMatches(mod.imports[k], ev)
  PROVE  /\ Fits(mod, WithAddr(inst, ev.kind, ev.addr).addrs, funcs, tables, mems, globals)
         /\ \A kind \in Kind :
              Len(WithAddr(inst, ev.kind, ev.addr).addrs[kind]) = Len(ImportsUpTo(mod, kind)[k])
<1> DEFINE imp == mod.imports[k]
           ad  == inst.addrs
           new == WithAddr(inst, ev.kind, ev.addr).addrs
           q   == Len(ad[ev.kind]) + 1
<1>0. mod \in Module /\ k \in 1..Len(mod.imports) /\ imp.kind = ev.kind /\ ev.kind \in Kind
  <2>1. mod \in Module
    BY StoreAssumption DEF IInv, CallInv
  <2>2. mod.imports \in Seq(Import)
    BY <2>1 DEF Module
  <2> QED
    BY <2>1, <2>2, LenProperties DEF ImportMatches, ExternVal
<1>1. inst \in Inst(Sizes) /\ Sizes \in SizeType
  BY KnownOk DEF IInv, InstancesInv
<1>2. /\ ad.func \in Seq(1..Len(funcs)) /\ ad.table \in Seq(1..Len(tables))
      /\ ad.mem \in Seq(1..Len(mems)) /\ ad.global \in Seq(1..Len(globals))
      /\ \A kind \in Kind : Len(ad[kind]) \in Nat
  BY <1>1, AddrsOk DEF Sizes
<1>3. /\ Fits(mod, ad, funcs, tables, mems, globals)
      /\ \A kind \in Kind : Len(ad[kind]) = Len(ImportsUpTo(mod, kind)[k - 1])
  BY DEF SoundInv, LinkInv
<1>4. new = [ad EXCEPT ![ev.kind] = Append(@, ev.addr)]
  BY <1>1 DEF WithAddr, Inst
<1>5. ad = [func |-> ad.func, table |-> ad.table, mem |-> ad.mem, global |-> ad.global]
  BY <1>1 DEF Inst, Addrs
<1> HIDE DEF ad, new, imp
<1>6. \A kind \in Kind : new[kind] = IF kind = ev.kind THEN Append(ad[kind], ev.addr) ELSE ad[kind]
  BY <1>0, <1>4, <1>5 DEF Kind
<1>7. \A kind \in Kind : Len(new[kind]) = Len(ImportsUpTo(mod, kind)[k])
  <2> TAKE kind \in Kind
  <2>1. Len(ad[kind]) \in Nat /\ Len(ad[kind]) = Len(ImportsUpTo(mod, kind)[k - 1])
    BY <1>2, <1>3
  <2>2. NextOfKind(mod, k, kind, Len(ad[kind]) + 1)
    BY <1>0, <2>1, NextImport
  <2>3. CASE kind = ev.kind
    <3>1. Len(ImportsUpTo(mod, kind)[k]) = Len(ad[kind]) + 1
      BY <1>0, <2>3, <2>2 DEF imp, NextOfKind
    <3>2. \E S : ad[kind] \in Seq(S) /\ ev.addr \in S
      <4>1. ev.addr \in 1..Size(ev.kind)
        BY DEF InBounds
      <4> QED
        BY <1>2, <2>3, <4>1 DEF Kind, Size
    <3>3. Len(Append(ad[kind], ev.addr)) = Len(ad[kind]) + 1
      BY <3>2, AppendProperties
    <3> QED
      BY <1>6, <2>3, <3>1, <3>3
  <2>4. CASE kind # ev.kind
    <3>1. Len(ImportsUpTo(mod, kind)[k]) = (Len(ad[kind]) + 1) - 1
      BY <1>0, <2>4, <2>2 DEF imp, NextOfKind
    <3> QED
      BY <1>6, <2>1, <2>4, <3>1
  <2> QED
    BY <2>3, <2>4
<1>8. /\ q \in 1..Len(ImportsOf(mod, ev.kind)) /\ ImportsOf(mod, ev.kind)[q] = imp
  <2>1. q = Len(ImportsUpTo(mod, ev.kind)[k - 1]) + 1
    BY <1>0, <1>3
  <2> HIDE DEF q
  <2>2. NextOfKind(mod, k, ev.kind, q)
    BY <1>0, <2>1, NextImport
  <2> QED
    BY <1>0, <2>2 DEF imp, NextOfKind
<1>9. ev.addr \in 1..Size(ev.kind) /\ ImportMatches(imp, ev)
  BY DEF InBounds, imp
<1>10. Fits(mod, new, funcs, tables, mems, globals)
  <2>1. CASE ev.kind = "func"
    <3>1. /\ new.func = Append(ad.func, ev.addr) /\ new.table = ad.table
          /\ new.mem = ad.mem /\ new.global = ad.global
      BY <1>6, <2>1 DEF Kind
    <3>2. q \in DOMAIN FuncSpace(mod) /\ FuncSpace(mod)[q] = imp.idx
      <4> DEFINE I == ImportsOf(mod, "func")
                 n == Len(mod.funcs)
      <4>1. /\ Len(I) \in Nat /\ n \in Nat /\ DOMAIN FuncSpace(mod) = 1..(Len(I) + n)
            /\ \A j \in 1..Len(I) : FuncSpace(mod)[j] = I[j].idx
        BY <1>0, FuncSpaceOk
      <4>2. q \in 1..Len(I) /\ I[q] = imp
        BY <1>8, <2>1
      <4> HIDE DEF q, I, n
      <4> QED
        BY <4>1, <4>2
    <3>3. ev.addr \in 1..Len(funcs) /\ funcs[ev.addr].ty = mod.types[imp.idx]
      BY <1>9, <2>1 DEF Size, ImportMatches
    <3>4. FitsFunc(mod, new.func, funcs)
      BY <1>2, <1>3, <2>1, <3>1, <3>2, <3>3, FitsFuncAppend DEF Fits
    <3> QED
      BY <1>3, <3>1, <3>4 DEF Fits
  <2>2. CASE ev.kind = "table"
    <3>1. /\ new.table = Append(ad.table, ev.addr) /\ new.func = ad.func
          /\ new.mem = ad.mem /\ new.global = ad.global
      BY <1>6, <2>2 DEF Kind
    <3>2. q \in DOMAIN TableSpace(mod) /\ TableSpace(mod)[q] = imp.ty
      <4> DEFINE I == ImportsOf(mod, "table")
                 n == Len(mod.tables)
      <4>1. /\ Len(I) \in Nat /\ n \in Nat /\ DOMAIN TableSpace(mod) = 1..(Len(I) + n)
            /\ \A j \in 1..Len(I) : TableSpace(mod)[j] = I[j].ty
        BY <1>0, TableSpaceOk
      <4>2. q \in 1..Len(I) /\ I[q] = imp
        BY <1>8, <2>2
      <4> HIDE DEF q, I, n
      <4> QED
        BY <4>1, <4>2
    <3>3. /\ ev.addr \in 1..Len(tables) /\ tables[ev.addr].ty.elem = imp.ty.elem
          /\ Satisfies(Len(tables[ev.addr].elems), tables[ev.addr].ty.limits.max, imp.ty.limits)
      BY <1>9, <2>2 DEF Size, ImportMatches, LimitsMatch, Satisfies
    <3>4. FitsTable(mod, new.table, tables)
      BY <1>2, <1>3, <2>2, <3>1, <3>2, <3>3, FitsTableAppend DEF Fits
    <3> QED
      BY <1>3, <3>1, <3>4 DEF Fits
  <2>3. CASE ev.kind = "mem"
    <3>1. /\ new.mem = Append(ad.mem, ev.addr) /\ new.func = ad.func
          /\ new.table = ad.table /\ new.global = ad.global
      BY <1>6, <2>3 DEF Kind
    <3>2. q \in DOMAIN MemSpace(mod) /\ MemSpace(mod)[q] = imp.ty
      <4> DEFINE I == ImportsOf(mod, "mem")
                 n == Len(mod.mems)
      <4>1. /\ Len(I) \in Nat /\ n \in Nat /\ DOMAIN MemSpace(mod) = 1..(Len(I) + n)
            /\ \A j \in 1..Len(I) : MemSpace(mod)[j] = I[j].ty
        BY <1>0, MemSpaceOk
      <4>2. q \in 1..Len(I) /\ I[q] = imp
        BY <1>8, <2>3
      <4> HIDE DEF q, I, n
      <4> QED
        BY <4>1, <4>2
    <3>3. /\ ev.addr \in 1..Len(mems)
          /\ Satisfies(mems[ev.addr].pages, mems[ev.addr].ty.limits.max, imp.ty.limits)
      BY <1>9, <2>3 DEF Size, ImportMatches, LimitsMatch, Satisfies
    <3>4. FitsMem(mod, new.mem, mems)
      BY <1>2, <1>3, <2>3, <3>1, <3>2, <3>3, FitsMemAppend DEF Fits
    <3> QED
      BY <1>3, <3>1, <3>4 DEF Fits
  <2>4. CASE ev.kind = "global"
    <3>1. /\ new.global = Append(ad.global, ev.addr) /\ new.func = ad.func
          /\ new.table = ad.table /\ new.mem = ad.mem
      BY <1>6, <2>4 DEF Kind
    <3>2. q \in DOMAIN GlobalSpace(mod) /\ GlobalSpace(mod)[q] = imp.ty
      <4> DEFINE I == ImportsOf(mod, "global")
                 n == Len(mod.globals)
      <4>1. /\ Len(I) \in Nat /\ n \in Nat /\ DOMAIN GlobalSpace(mod) = 1..(Len(I) + n)
            /\ \A j \in 1..Len(I) : GlobalSpace(mod)[j] = I[j].ty
        BY <1>0, GlobalSpaceOk
      <4>2. q \in 1..Len(I) /\ I[q] = imp
        BY <1>8, <2>4
      <4> HIDE DEF q, I, n
      <4> QED
        BY <4>1, <4>2
    <3>3. ev.addr \in 1..Len(globals) /\ globals[ev.addr].ty = imp.ty
      BY <1>9, <2>4 DEF Size, ImportMatches
    <3>4. FitsGlobal(mod, new.global, globals)
      BY <1>2, <1>3, <2>4, <3>1, <3>2, <3>3, FitsGlobalAppend DEF Fits
    <3> QED
      BY <1>3, <3>1, <3>4 DEF Fits
  <2> QED
    BY <1>0, <2>1, <2>2, <2>3, <2>4 DEF Kind
<1> QED
  BY <1>7, <1>10 DEF new

\* An import that passes the checks of resolve_import fits.
LEMMA ResolveImportSound == IInv /\ SoundInv /\ ResolveImport => SoundInv'
<1> SUFFICES ASSUME IInv, SoundInv, ResolveImport
             PROVE  SoundInv'
  OBVIOUS
<1>0. phase = "import" /\ k \in DOMAIN mod.imports /\ UNCHANGED storeVars
  BY DEF ResolveImport
<1>1. CASE Finish("link")
  BY <1>0, <1>1, EndSound
<1>2. ASSUME NEW ev \in ResolverAnswers, InBounds(ev), ImportMatches(mod.imports[k], ev),
             inst' = WithAddr(inst, ev.kind, ev.addr), k' = k + 1,
             UNCHANGED <<phase, mod, base, ret, frames, held>>
      PROVE  SoundInv'
  <2> USE <1>0 DEF storeVars
  <2>1. ev \in ExternVal
    <3>1. ev.addr \in 1..Size(ev.kind)
      BY <1>2 DEF InBounds
    <3> QED
      BY <3>1 DEF ResolverAnswers, NoExtern, ExternVal, Size, Kind
  <2>2. /\ Fits(mod, inst'.addrs, funcs, tables, mems, globals)
        /\ \A kind \in Kind : Len((inst').addrs[kind]) = Len(ImportsUpTo(mod, kind)[k])
    BY <1>2, <2>1, ImportFits
  <2>3. k \in Nat /\ k \in 1..Len(mod.imports) /\ Len(mod.imports) \in Nat
    <3>1. mod \in Module
      BY StoreAssumption DEF IInv, CallInv
    <3>2. mod.imports \in Seq(Import)
      BY <3>1 DEF Module
    <3> QED
      BY <3>2, LenProperties
  <2>4. k' \in 1 .. Len(mod.imports) + 1 /\ k' - 1 = k
    BY <1>2, <2>3
  <2>5. LinkInv'
    BY <1>2, <2>2, <2>4 DEF SoundInv, LinkInv
  <2>6. ContentInv'
    BY DEF SoundInv, ContentInv, StoreTyped
  <2>7. RunsInv'
    BY DEF SoundInv, RunsInv
  <2>8. CodeInv'
    BY <1>2 DEF SoundInv, CodeInv
  <2> QED
    BY <2>5, <2>6, <2>7, <2>8 DEF SoundInv
<1> QED
  BY <1>1, <1>2 DEF ResolveImport

-----------------------------------------------------------------------------
(* Steps that change contents.  Each is a step of StoreAbs, which says that *)
(* types and addresses stay and nothing shrinks.                           *)

Raw == INSTANCE StoreAbs

TablesStep ==
  /\ DOMAIN tables' = DOMAIN tables
  /\ \A a \in DOMAIN tables : Raw!TableStep(tables[a], tables'[a])
MemsStep ==
  /\ DOMAIN mems' = DOMAIN mems
  /\ \A a \in DOMAIN mems : Raw!MemStep(mems[a], mems'[a])
GlobalsStep ==
  /\ DOMAIN globals' = DOMAIN globals
  /\ \A a \in DOMAIN globals : Raw!GlobalStep(globals[a], globals'[a])
InstancesStep ==
  /\ DOMAIN instances' = DOMAIN instances
  /\ \A i \in DOMAIN instances : Raw!InstanceStep(instances[i], instances'[i])
Mutation ==
  funcs' = funcs /\ TablesStep /\ MemsStep /\ GlobalsStep /\ InstancesStep

\* What stays as it is makes a step of StoreAbs.
LEMMA SameSteps ==
  ASSUME IInv
  PROVE  /\ tables' = tables => TablesStep
         /\ mems' = mems => MemsStep
         /\ globals' = globals => GlobalsStep
         /\ instances' = instances => InstancesStep
<1>1. ASSUME NEW a \in DOMAIN tables
      PROVE  Len(tables[a].elems) \in Nat
  <2>1. tables[a] \in TableInst(Len(funcs))
    BY SeqAt DEF IInv, PoolsInv
  <2>2. tables[a].elems \in Seq(RefValue(Len(funcs)))
    BY <2>1 DEF TableInst
  <2> QED
    BY <2>2, LenProperties
<1>2. ASSUME NEW a \in DOMAIN mems
      PROVE  mems[a].pages \in Nat
  <2>1. mems[a] \in MemInst
    BY SeqAt DEF IInv, PoolsInv
  <2> QED
    BY <2>1 DEF MemInst
<1>3. tables' = tables => TablesStep
  BY <1>1 DEF TablesStep, Raw!TableStep
<1>4. mems' = mems => MemsStep
  BY <1>2 DEF MemsStep, Raw!MemStep
<1>5. globals' = globals => GlobalsStep
  BY DEF GlobalsStep, Raw!GlobalStep
<1>6. instances' = instances => InstancesStep
  BY DEF InstancesStep, Raw!InstanceStep
<1> QED
  BY <1>3, <1>4, <1>5, <1>6

\* The published instances go on running their code.
InstancesKept ==
  /\ DOMAIN instances' = DOMAIN instances
  /\ \A i \in DOMAIN instances :
       /\ instances'[i].addrs = instances[i].addrs
       /\ DOMAIN instances'[i].elems = DOMAIN instances[i].elems
       /\ \A e \in DOMAIN instances[i].elems :
            instances'[i].elems[e] \in {instances[i].elems[e], <<>>}

\* The pools keep their first entries.
PoolsKept(z) == Kept(z, funcs, tables, mems, globals, funcs', tables', mems', globals')

\* Instances still run their modules after a step that keeps the entries below z.
LEMMA RunsStep ==
  ASSUME RunsInv, NEW z \in SizeType, instances \in Seq(Inst(z)), PoolsKept(z),
         InstancesKept, code' = code
  PROVE  RunsInv'
<1> SUFFICES ASSUME NEW i \in DOMAIN instances
             PROVE  Runs(instances'[i], code[i], funcs', tables', mems', globals')
  BY DEF RunsInv, InstancesKept
<1>1. instances[i] \in Inst(z)
  BY SeqAt
<1>2. Runs(instances[i], code[i], funcs, tables, mems, globals)
  BY DEF RunsInv
<1>3. /\ instances'[i].addrs = instances[i].addrs
      /\ DOMAIN instances'[i].elems = DOMAIN instances[i].elems
      /\ \A e \in DOMAIN instances[i].elems :
           instances'[i].elems[e] \in {instances[i].elems[e], <<>>}
  BY DEF InstancesKept
<1> QED
  BY <1>1, <1>2, <1>3, RunsKept DEF PoolsKept

\* A step of contents keeps the pools, entry by entry.
LEMMA MutationKept ==
  ASSUME IInv, IInv', Mutation
  PROVE  PoolsKept(Sizes) /\ InstancesKept
<1>0. /\ tables \in Seq(TableInst(Len(funcs))) /\ tables' \in Seq(TableInst(Len(funcs')))
      /\ mems \in Seq(MemInst) /\ mems' \in Seq(MemInst) /\ globals \in Seq(GlobalInst(Len(funcs)))
  BY DEF IInv, PoolsInv
<1>1. /\ DOMAIN tables = 1..Len(tables) /\ DOMAIN tables' = DOMAIN tables
      /\ DOMAIN mems = 1..Len(mems) /\ DOMAIN mems' = DOMAIN mems
      /\ DOMAIN globals = 1..Len(globals)
  BY <1>0, LenProperties DEF Mutation, TablesStep, MemsStep
<1>2. KeptTable(Sizes.table, tables, tables')
  <2> SUFFICES ASSUME NEW a \in DOMAIN tables
               PROVE  /\ tables'[a].ty = tables[a].ty
                      /\ Len(tables[a].elems) \in Nat /\ Len(tables'[a].elems) \in Nat
                      /\ Len(tables[a].elems) <= Len(tables'[a].elems)
    BY <1>1 DEF KeptTable, KeptType, Sizes
  <2>1. tables[a] \in TableInst(Len(funcs)) /\ tables'[a] \in TableInst(Len(funcs'))
    BY <1>0, <1>1, SeqAt
  <2>2. Len(tables[a].elems) \in Nat /\ Len(tables'[a].elems) \in Nat
    BY <2>1, LenProperties DEF TableInst
  <2> QED
    BY <2>2 DEF Mutation, TablesStep, Raw!TableStep
<1>3. KeptMem(Sizes.mem, mems, mems')
  <2> SUFFICES ASSUME NEW a \in DOMAIN mems
               PROVE  /\ mems'[a].ty = mems[a].ty
                      /\ mems[a].pages \in Nat /\ mems'[a].pages \in Nat
                      /\ mems[a].pages <= mems'[a].pages
    BY <1>1 DEF KeptMem, KeptType, Sizes
  <2>1. mems[a] \in MemInst /\ mems'[a] \in MemInst
    BY <1>0, <1>1, SeqAt
  <2> QED
    BY <2>1 DEF MemInst, Mutation, MemsStep, Raw!MemStep
<1>4. KeptType(Sizes.func, funcs, funcs') /\ KeptType(Sizes.global, globals, globals')
  BY <1>1 DEF KeptType, Sizes, Mutation, GlobalsStep, Raw!GlobalStep
<1>5. InstancesKept
  BY DEF InstancesKept, Mutation, InstancesStep, Raw!InstanceStep
<1> QED
  BY <1>2, <1>3, <1>4, <1>5 DEF PoolsKept, Kept

\* Contents change while code runs or segments are applied.
LEMMA MutationSound ==
  ASSUME IInv, IInv', SoundInv, phase \in {"segments", "run"}, ContentInv', Mutation,
         code' = code, inst' = inst,
         frames' = frames \/ frames' = <<>>,
         phase' \in {"idle", "run"} \/ (phase' = "segments" /\ mod' = mod /\ phase = "segments")
  PROVE  SoundInv'
<1>1. RunsInv'
  <2>1. instances \in Seq(Inst(Sizes)) /\ Sizes \in SizeType
    BY Published DEF Building
  <2> QED
    BY <2>1, MutationKept, RunsStep DEF SoundInv
<1>2. DOMAIN instances' = DOMAIN instances /\ funcs' = funcs
  BY DEF Mutation, InstancesStep
<1>3. CodeInv'
  <2>1. \A n \in DOMAIN frames' : n \in DOMAIN frames /\ frames'[n] = frames[n]
    OBVIOUS
  <2> QED
    BY <1>2, <2>1 DEF SoundInv, CodeInv
<1>4. inst' = EmptyInstance
  BY DEF SoundInv, LinkInv
<1>5. Len(instances') = Len(instances)
  <2>1. instances \in Seq(Inst(Known)) /\ instances' \in Seq(Inst(Known'))
    BY DEF IInv, InstancesInv
  <2>2. /\ DOMAIN instances = 1..Len(instances) /\ DOMAIN instances' = 1..Len(instances')
        /\ Len(instances) \in Nat /\ Len(instances') \in Nat
    BY <2>1, LenProperties
  <2> QED
    BY ONLY <1>2, <2>2
<1>6. LinkInv'
  BY <1>4, <1>5 DEF SoundInv, LinkInv
<1> QED
  BY <1>1, <1>3, <1>6 DEF SoundInv

\* References of one type, and sequences of them.
RefOf(n, t) == {v \in RefValue(n) : v.ty = t}

\* References of one type are a vector of that type.
LEMMA TypedSeq ==
  ASSUME NEW n, NEW t, NEW s \in Seq(RefValue(n)), \A i \in DOMAIN s : s[i].ty = t
  PROVE  s \in Seq(RefOf(n, t))
<1>1. Len(s) \in Nat /\ DOMAIN s = 1..Len(s)
  BY LenProperties
<1>2. \A i \in 1..Len(s) : s[i] \in RefOf(n, t)
  BY <1>1, ElementOfSeq DEF RefOf
<1>3. s = [i \in 1..Len(s) |-> s[i]]
  BY <1>1
<1>4. s \in [1..Len(s) -> RefOf(n, t)]
  BY <1>2, <1>3
<1> QED
  BY <1>1, <1>4, FunSeq

\* The elements of a table have its type.
LEMMA TypedElems ==
  ASSUME IInv, StoreTyped, NEW a \in DOMAIN tables
  PROVE  /\ tables[a].elems \in Seq(RefOf(Len(funcs), tables[a].ty.elem))
         /\ tables[a].elems \in Seq(RefValue(Len(funcs)))
         /\ Len(tables[a].elems) \in Nat
<1>1. tables[a] \in TableInst(Len(funcs))
  BY SeqAt DEF IInv, PoolsInv
<1>2. tables[a].elems \in Seq(RefValue(Len(funcs)))
  BY <1>1 DEF TableInst
<1>3. \A i \in DOMAIN tables[a].elems : tables[a].elems[i].ty = tables[a].ty.elem
  BY DEF StoreTyped
<1>4. Len(tables[a].elems) \in Nat
  BY <1>2, LenProperties
<1> QED
  BY <1>2, <1>3, <1>4, TypedSeq

\* A table gets new elements: of its type, no fewer, no more than it may hold.
LEMMA TableStepSound ==
  ASSUME IInv, SoundInv, ~ Building, NEW a \in 1..Len(tables),
         NEW new \in Seq(RefOf(Len(funcs), tables[a].ty.elem)), SetElems(a, new),
         \/ Len(new) = Len(tables[a].elems)
         \/ /\ Len(tables[a].elems) <= Len(new) /\ Len(new) <= TABLE_IMPL_LIMIT
            /\ tables[a].ty.limits.max # NoMax => Len(new) <= tables[a].ty.limits.max,
         UNCHANGED <<mems, globals>>
  PROVE  ContentInv' /\ TablesStep
<1> DEFINE t == tables[a]
<1>1. a \in DOMAIN tables /\ tables \in Seq(TableInst(Len(funcs))) /\ t \in TableInst(Len(funcs))
  BY Published, ElementOfSeq
<1>2. /\ \A i \in DOMAIN new : new[i].ty = t.ty.elem
      /\ Len(new) \in Nat /\ Len(t.elems) \in Nat
  <2>1. \A i \in DOMAIN new : new[i] \in RefOf(Len(funcs), t.ty.elem)
    BY SeqAt
  <2> QED
    BY <1>1, <2>1, TypedElems, LenProperties DEF RefOf, SoundInv, ContentInv
<1>3. /\ DOMAIN tables' = DOMAIN tables
      /\ \A b \in DOMAIN tables : b # a => tables'[b] = tables[b]
      /\ tables'[a].ty = t.ty /\ tables'[a].elems = new
  <2>1. tables' = [tables EXCEPT ![a] = [tables[a] EXCEPT !.elems = new]]
    BY DEF SetElems
  <2>2. DOMAIN t = {"ty", "elems"}
    BY <1>1 DEF TableInst
  <2> QED
    BY <1>1, <2>1, <2>2
<1>4. TableWithin(t) /\ StoreTyped /\ \A b \in DOMAIN tables : TableWithin(tables[b])
  BY <1>1 DEF SoundInv, ContentInv
<1>5. TableWithin(tables'[a])
  BY <1>2, <1>3, <1>4 DEF TableWithin
<1>6. \A b \in DOMAIN tables' : TableWithin(tables'[b])
  BY <1>3, <1>4, <1>5
<1>7. \A b \in DOMAIN tables' : \A n \in DOMAIN tables'[b].elems :
        tables'[b].elems[n].ty = tables'[b].ty.elem
  BY <1>2, <1>3, <1>4 DEF StoreTyped
<1>8. ContentInv'
  BY <1>4, <1>6, <1>7 DEF SoundInv, ContentInv, StoreTyped
<1>9. TablesStep
  <2> SUFFICES ASSUME NEW b \in DOMAIN tables
               PROVE  Raw!TableStep(tables[b], tables'[b])
    BY <1>3 DEF TablesStep
  <2>1. Len(tables[b].elems) \in Nat
    BY <1>4, TypedElems
  <2>2. CASE b # a
    BY <1>3, <2>1, <2>2 DEF Raw!TableStep
  <2>3. CASE b = a
    BY <1>2, <1>3, <2>3 DEF Raw!TableStep, Raw!Within
  <2> QED
    BY <2>2, <2>3
<1> QED
  BY <1>8, <1>9

\* The code that runs was validated, and its instance is as it was told.
LEMMA TopRuns ==
  ASSUME IInv, SoundInv, phase = "run"
  PROVE  /\ TopCode \in Module /\ ValidModule(TopCode)
         /\ Fits(TopCode, Top.addrs, funcs, tables, mems, globals)
         /\ Complete(TopCode, Top.addrs) /\ SegmentsTyped(TopCode, Top.elems)
<1>1. frames[Len(frames)] \in DOMAIN instances /\ Len(frames) \in DOMAIN frames
  BY TopOk, LenProperties
<1>2. TopCode \in Modules
  BY <1>1 DEF SoundInv, CodeInv, TopCode
<1>3. Runs(Top, TopCode, funcs, tables, mems, globals)
  BY <1>1 DEF SoundInv, RunsInv, Top, TopCode
<1> QED
  BY <1>2, <1>3, StoreAssumption DEF Runs

\* A table the code names, and operands for it.
LEMMA TopTable ==
  ASSUME IInv, SoundInv, phase = "run", NEW t \in DOMAIN Top.addrs.table
  PROVE  LET a == Top.addrs.table[t] IN
         /\ a \in 1..Len(tables) /\ a \in DOMAIN tables
         /\ tables[a].ty.elem = TableSpace(TopCode)[t].elem
         /\ tables[a].elems \in Seq(RefOf(Len(funcs), tables[a].ty.elem))
         /\ Len(tables[a].elems) \in Nat
<1>1. Top.addrs.table[t] \in 1..Len(tables) /\ Top.addrs.table[t] \in DOMAIN tables
  BY TableAtOk, TopOk, Published
<1>2. tables[Top.addrs.table[t]].ty.elem = TableSpace(TopCode)[t].elem
  BY TopRuns DEF Fits, FitsTable
<1> QED
  BY <1>1, <1>2, TypedElems DEF SoundInv, ContentInv

\* An operand of a type is a reference of that type.
LEMMA TypedOperand ==
  ASSUME IInv, phase = "run", NEW t, NEW v \in Operand(t)
  PROVE  v \in RefOf(Len(funcs), t)
BY OperandOk DEF Operand, RefOf

\* What the instructions on tables have in common.
LEMMA TableOpSound ==
  ASSUME IInv, IInv', SoundInv, phase = "run", TableOp, NEW a \in 1..Len(tables),
         NEW new \in Seq(RefOf(Len(funcs), tables[a].ty.elem)), SetElems(a, new),
         \/ Len(new) = Len(tables[a].elems)
         \/ /\ Len(tables[a].elems) <= Len(new) /\ Len(new) <= TABLE_IMPL_LIMIT
            /\ tables[a].ty.limits.max # NoMax => Len(new) <= tables[a].ty.limits.max
  PROVE  SoundInv' /\ Mutation
<1>1. /\ UNCHANGED <<funcs, mems, globals, instances, code, frames>>
      /\ phase' = "run" /\ inst' = inst
  BY DEF TableOp, Executed, callVars
<1>2. ~ Building
  BY DEF Building
<1>3. ContentInv' /\ TablesStep
  BY <1>1, <1>2, TableStepSound
<1>4. Mutation
  BY <1>1, <1>3, SameSteps DEF Mutation
<1> QED
  BY <1>1, <1>3, <1>4, MutationSound

\* table.fill puts an operand of the type of the table.
LEMMA TableFillSound == IInv /\ IInv' /\ SoundInv /\ TableFill => SoundInv' /\ Mutation
<1> SUFFICES ASSUME IInv, IInv', SoundInv, TableFill
             PROVE  SoundInv' /\ Mutation
  OBVIOUS
<1>0. phase = "run" /\ TableOp
  BY DEF TableFill, Running
<1> PICK t \in DOMAIN Top.addrs.table, i \in Words, n \in Words :
      \E v \in Operand(TableSpace(TopCode)[t].elem) :
        LET a == Top.addrs.table[t] IN
        SetElems(a, CopyInto(tables[a].elems, i, [j \in 1..n |-> v]))
  BY DEF TableFill
<1> PICK v \in Operand(TableSpace(TopCode)[t].elem) :
      LET a == Top.addrs.table[t] IN
      SetElems(a, CopyInto(tables[a].elems, i, [j \in 1..n |-> v]))
  OBVIOUS
<1> DEFINE a   == Top.addrs.table[t]
           src == [j \in 1..n |-> v]
           S   == RefOf(Len(funcs), tables[a].ty.elem)
<1>1. a \in 1..Len(tables) /\ tables[a].elems \in Seq(S)
  BY <1>0, TopTable
<1>2. v \in S
  BY <1>0, TopTable, TypedOperand
<1>3. SetElems(a, CopyInto(tables[a].elems, i, src))
  OBVIOUS
<1> HIDE DEF a
<1>4. src \in Seq(S)
  <2> HIDE DEF S
  <2>1. n \in Nat /\ src \in [1..n -> S]
    BY <1>2, StoreAssumption
  <2> QED
    BY ONLY <2>1, FunSeq
<1> HIDE DEF src
<1>5. /\ CopyInto(tables[a].elems, i, src) \in Seq(S)
      /\ Len(CopyInto(tables[a].elems, i, src)) = Len(tables[a].elems)
  <2> HIDE DEF S
  <2> QED
    BY <1>1, <1>4, StoreAssumption, CopyIntoOk
<1> QED
  BY <1>0, <1>1, <1>3, <1>5, TableOpSound

\* table.init copies from a segment of the type of the table.
LEMMA TableInitSound == IInv /\ IInv' /\ SoundInv /\ TableInit => SoundInv' /\ Mutation
<1> SUFFICES ASSUME IInv, IInv', SoundInv, TableInit
             PROVE  SoundInv' /\ Mutation
  OBVIOUS
<1>0. phase = "run" /\ TableOp
  BY DEF TableInit, Running
<1> PICK t \in DOMAIN Top.addrs.table, e \in DOMAIN Top.elems :
      \E d, s, n \in Words :
      LET a == Top.addrs.table[t] IN
      /\ TopCode.elems[e].ty = TableSpace(TopCode)[t].elem
      /\ s + n <= Len(Top.elems[e])
      /\ SetElems(a, CopyInto(tables[a].elems, d, SubSeq(Top.elems[e], s + 1, s + n)))
  BY DEF TableInit
<1> PICK d \in Words, s \in Words, n \in Words :
      LET a == Top.addrs.table[t] IN
      /\ TopCode.elems[e].ty = TableSpace(TopCode)[t].elem
      /\ s + n <= Len(Top.elems[e])
      /\ SetElems(a, CopyInto(tables[a].elems, d, SubSeq(Top.elems[e], s + 1, s + n)))
  OBVIOUS
<1> DEFINE a   == Top.addrs.table[t]
           seg == Top.elems[e]
           src == SubSeq(seg, s + 1, s + n)
           S   == RefOf(Len(funcs), tables[a].ty.elem)
<1>1. a \in 1..Len(tables) /\ tables[a].elems \in Seq(S)
  BY <1>0, TopTable
<1>2. seg \in Seq(S)
  <2>1. seg \in Seq(RefValue(Len(funcs)))
    <3>1. Top.elems \in Seq(Seq(RefValue(Len(funcs))))
      BY <1>0, TopOk DEF Inst, Sizes
    <3> QED
      BY <3>1, SeqAt
  <2>2. \A i \in DOMAIN seg : seg[i].ty = tables[a].ty.elem
    BY <1>0, TopRuns, TopTable DEF SegmentsTyped
  <2> QED
    BY <2>1, <2>2, TypedSeq
<1>3. s + n <= Len(seg) /\ SetElems(a, CopyInto(tables[a].elems, d, src))
  OBVIOUS
<1> HIDE DEF a, seg, S
<1>4. src \in Seq(S)
  BY <1>2, <1>3, StoreAssumption, SubSeqIn
<1> HIDE DEF src
<1>5. /\ CopyInto(tables[a].elems, d, src) \in Seq(S)
      /\ Len(CopyInto(tables[a].elems, d, src)) = Len(tables[a].elems)
  BY <1>1, <1>4, StoreAssumption, CopyIntoOk
<1> QED
  BY <1>0, <1>1, <1>3, <1>5, TableOpSound DEF S

\* table.copy copies between tables of one type.
LEMMA TableCopySound == IInv /\ IInv' /\ SoundInv /\ TableCopy => SoundInv' /\ Mutation
<1> SUFFICES ASSUME IInv, IInv', SoundInv, TableCopy
             PROVE  SoundInv' /\ Mutation
  OBVIOUS
<1>0. phase = "run" /\ TableOp
  BY DEF TableCopy, Running
<1> PICK td \in DOMAIN Top.addrs.table, ts \in DOMAIN Top.addrs.table,
         d \in Words, s \in Words, n \in Words :
      LET da == Top.addrs.table[td]
          sa == Top.addrs.table[ts]
      IN
      /\ TableSpace(TopCode)[td].elem = TableSpace(TopCode)[ts].elem
      /\ s + n <= Len(tables[sa].elems)
      /\ SetElems(da, CopyInto(tables[da].elems, d,
                               SubSeq(tables[sa].elems, s + 1, s + n)))
  BY DEF TableCopy
<1> DEFINE da  == Top.addrs.table[td]
           seg == tables[Top.addrs.table[ts]].elems
           src == SubSeq(seg, s + 1, s + n)
           S   == RefOf(Len(funcs), tables[da].ty.elem)
<1>1. da \in 1..Len(tables) /\ tables[da].elems \in Seq(S)
  BY <1>0, TopTable
<1>2. seg \in Seq(S)
  <2>1. /\ seg \in Seq(RefOf(Len(funcs), tables[Top.addrs.table[ts]].ty.elem))
        /\ tables[Top.addrs.table[ts]].ty.elem = TableSpace(TopCode)[ts].elem
    BY <1>0, TopTable
  <2>2. tables[da].ty.elem = TableSpace(TopCode)[td].elem
    BY <1>0, TopTable
  <2> QED
    BY <2>1, <2>2
<1>3. s + n <= Len(seg) /\ SetElems(da, CopyInto(tables[da].elems, d, src))
  OBVIOUS
<1> HIDE DEF da, seg, S
<1>4. src \in Seq(S)
  BY <1>2, <1>3, StoreAssumption, SubSeqIn
<1> HIDE DEF src
<1>5. /\ CopyInto(tables[da].elems, d, src) \in Seq(S)
      /\ Len(CopyInto(tables[da].elems, d, src)) = Len(tables[da].elems)
  BY <1>1, <1>4, StoreAssumption, CopyIntoOk
<1> QED
  BY <1>0, <1>1, <1>3, <1>5, TableOpSound DEF S

\* table.grow stays within the declared and the implementation maximum.
LEMMA TableGrowSound == IInv /\ IInv' /\ SoundInv /\ TableGrow => SoundInv' /\ Mutation
<1> SUFFICES ASSUME IInv, IInv', SoundInv, TableGrow
             PROVE  SoundInv' /\ Mutation
  OBVIOUS
<1>0. phase = "run" /\ TableOp
  BY DEF TableGrow, Running
<1> PICK t \in DOMAIN Top.addrs.table, n \in Words :
      \E v \in Operand(TableSpace(TopCode)[t].elem) :
        LET a   == Top.addrs.table[t]
            max == tables[a].ty.limits.max
            new == Len(tables[a].elems) + n
        IN
        /\ max # NoMax => new <= max
        /\ new <= TABLE_IMPL_LIMIT
        /\ SetElems(a, tables[a].elems \o [j \in 1..n |-> v])
  BY DEF TableGrow
<1> PICK v \in Operand(TableSpace(TopCode)[t].elem) :
        LET a   == Top.addrs.table[t]
            max == tables[a].ty.limits.max
            new == Len(tables[a].elems) + n
        IN
        /\ max # NoMax => new <= max
        /\ new <= TABLE_IMPL_LIMIT
        /\ SetElems(a, tables[a].elems \o [j \in 1..n |-> v])
  OBVIOUS
<1> DEFINE a   == Top.addrs.table[t]
           src == [j \in 1..n |-> v]
           S   == RefOf(Len(funcs), tables[a].ty.elem)
<1>1. /\ a \in 1..Len(tables) /\ tables[a].elems \in Seq(S)
      /\ Len(tables[a].elems) \in Nat /\ n \in Nat
  BY <1>0, TopTable, StoreAssumption
<1>2. v \in S
  BY <1>0, TopTable, TypedOperand
<1>3. /\ SetElems(a, tables[a].elems \o src)
      /\ tables[a].ty.limits.max # NoMax => Len(tables[a].elems) + n <= tables[a].ty.limits.max
      /\ Len(tables[a].elems) + n <= TABLE_IMPL_LIMIT
  OBVIOUS
<1> HIDE DEF a, S
<1>4. src \in Seq(S) /\ Len(src) = n
  <2>1. n \in Nat /\ src \in [1..n -> S]
    BY <1>2, StoreAssumption
  <2> QED
    BY ONLY <2>1, FunSeq
<1> HIDE DEF src
<1>5. /\ tables[a].elems \o src \in Seq(S)
      /\ Len(tables[a].elems \o src) = Len(tables[a].elems) + n
  BY <1>1, <1>4, ConcatProperties
<1>6. /\ Len(tables[a].elems) <= Len(tables[a].elems \o src)
      /\ Len(tables[a].elems \o src) <= TABLE_IMPL_LIMIT
      /\ tables[a].ty.limits.max # NoMax =>
           Len(tables[a].elems \o src) <= tables[a].ty.limits.max
  BY <1>1, <1>3, <1>5
<1> QED
  BY <1>0, <1>1, <1>3, <1>5, <1>6, TableOpSound DEF S

\* global.set: validation made sure that the global is mutable and that the
\* operand has its type.
LEMMA GlobalSetSound == IInv /\ IInv' /\ SoundInv /\ GlobalSet => SoundInv' /\ Mutation
<1> SUFFICES ASSUME IInv, IInv', SoundInv, GlobalSet
             PROVE  SoundInv' /\ Mutation
  OBVIOUS
<1>0. /\ phase = "run" /\ phase' = "run" /\ inst' = inst /\ ~ Building
      /\ UNCHANGED <<funcs, tables, mems, instances, code, frames, held>>
  BY DEF GlobalSet, Running, Executed, callVars, Building
<1> PICK i \in DOMAIN Top.addrs.global :
      /\ GlobalSpace(TopCode)[i].mutable
      /\ \E v \in Operand(GlobalSpace(TopCode)[i].val) :
           globals' = [globals EXCEPT ![Top.addrs.global[i]].val = v]
  BY DEF GlobalSet
<1> PICK v \in Operand(GlobalSpace(TopCode)[i].val) :
      globals' = [globals EXCEPT ![Top.addrs.global[i]].val = v]
  OBVIOUS
<1> DEFINE a == Top.addrs.global[i]
           g == globals[a]
<1>1. a \in 1..Len(globals)
  BY <1>0, TopOk, AddrOk DEF Kind, Sizes
<1>2. a \in DOMAIN globals /\ g \in GlobalInst(Len(funcs))
  BY <1>0, <1>1, Published, ElementOfSeq
<1>3. g.ty = GlobalSpace(TopCode)[i]
  BY <1>0, TopRuns DEF Fits, FitsGlobal
<1>4. v.ty = g.ty.val /\ g.ty.mutable
  BY <1>3 DEF Operand
<1>5. /\ DOMAIN globals' = DOMAIN globals
      /\ \A b \in DOMAIN globals : b # a => globals'[b] = globals[b]
      /\ globals'[a].ty = g.ty /\ globals'[a].val = v
  <2>1. DOMAIN g = {"ty", "val"}
    BY <1>2 DEF GlobalInst
  <2>2. globals' = [globals EXCEPT ![a] = [g EXCEPT !.val = v]]
    OBVIOUS
  <2> HIDE DEF a
  <2> QED
    BY <1>2, <2>1, <2>2
<1> HIDE DEF a
<1>6. ContentInv'
  <2>1. \A b \in DOMAIN globals : globals[b].val.ty = globals[b].ty.val
    BY DEF SoundInv, ContentInv, StoreTyped
  <2>2. \A b \in DOMAIN globals' : globals'[b].val.ty = globals'[b].ty.val
    <3> TAKE b \in DOMAIN globals'
    <3>1. CASE b = a
      BY <1>4, <1>5, <3>1
    <3>2. CASE b # a
      BY <1>5, <2>1, <3>2
    <3> QED
      BY <3>1, <3>2
  <2>3. StoreTyped'
    BY <1>0, <2>2 DEF SoundInv, ContentInv, StoreTyped
  <2> QED
    BY <1>0, <2>3 DEF SoundInv, ContentInv
<1>7. GlobalsStep
  BY <1>4, <1>5 DEF GlobalsStep, Raw!GlobalStep
<1>8. Mutation
  BY <1>0, <1>7, SameSteps DEF Mutation
<1> QED
  BY <1>0, <1>6, <1>8, MutationSound

\* memory.grow stays within the declared and the implementation maximum.
LEMMA MemoryGrowSound == IInv /\ IInv' /\ SoundInv /\ MemoryGrow => SoundInv' /\ Mutation
<1> SUFFICES ASSUME IInv, IInv', SoundInv, MemoryGrow
             PROVE  SoundInv' /\ Mutation
  OBVIOUS
<1>0. /\ phase = "run" /\ phase' = "run" /\ inst' = inst /\ ~ Building
      /\ UNCHANGED <<funcs, tables, globals, instances, code, frames, held>>
  BY DEF MemoryGrow, Running, Executed, callVars, Building
<1> PICK m \in DOMAIN Top.addrs.mem, n \in Words :
      LET a   == Top.addrs.mem[m]
          max == mems[a].ty.limits.max
          new == mems[a].pages + n
      IN
      /\ new <= MAX_PAGES /\ (max # NoMax => new <= max)
      /\ mems' = [mems EXCEPT ![a].pages = new]
  BY DEF MemoryGrow
<1> DEFINE a   == Top.addrs.mem[m]
           g   == mems[a]
           new == g.pages + n
<1>1. a \in 1..Len(mems)
  BY <1>0, TopOk, AddrOk DEF Kind, Sizes
<1>2. a \in DOMAIN mems /\ g \in MemInst
  BY <1>0, <1>1, Published, ElementOfSeq
<1>3. g.pages \in Nat /\ new \in Nat /\ g.pages <= new
  <2>1. g.pages \in Nat /\ n \in Nat
    BY <1>2, StoreAssumption DEF MemInst
  <2> QED
    BY <2>1
<1>4. new <= MAX_PAGES /\ (g.ty.limits.max # NoMax => new <= g.ty.limits.max)
  OBVIOUS
<1>5. /\ DOMAIN mems' = DOMAIN mems
      /\ \A b \in DOMAIN mems : b # a => mems'[b] = mems[b]
      /\ mems'[a].ty = g.ty /\ mems'[a].pages = new
  <2>1. DOMAIN g = {"ty", "pages"}
    BY <1>2 DEF MemInst
  <2>2. mems' = [mems EXCEPT ![a] = [g EXCEPT !.pages = new]]
    OBVIOUS
  <2> HIDE DEF a, new
  <2> QED
    BY <1>2, <2>1, <2>2
<1> HIDE DEF a, new
<1>6. ContentInv'
  <2>1. MemWithin(mems'[a])
    BY <1>4, <1>5 DEF MemWithin
  <2>2. \A b \in DOMAIN mems' : MemWithin(mems'[b])
    BY <1>5, <2>1 DEF SoundInv, ContentInv
  <2> QED
    BY <1>0, <2>2 DEF SoundInv, ContentInv, StoreTyped
<1>7. MemsStep
  <2> SUFFICES ASSUME NEW b \in DOMAIN mems
               PROVE  Raw!MemStep(mems[b], mems'[b])
    BY <1>5 DEF MemsStep
  <2>1. mems[b] \in MemInst
    BY <1>0, Published, SeqAt
  <2>2. mems[b].pages \in Nat
    BY <2>1 DEF MemInst
  <2>3. CASE b # a
    <3>1. mems'[b] = mems[b]
      BY <1>5, <2>3
    <3> QED
      BY ONLY <2>2, <3>1 DEF Raw!MemStep
  <2>4. CASE b = a
    <3>1. mems'[b].ty = mems[b].ty /\ mems'[b].pages = new /\ mems[b] = g
      BY <1>5, <2>4
    <3> HIDE DEF g
    <3>2. g.pages <= new /\ Raw!Within(new, g.ty.limits)
      BY <1>3, <1>4 DEF Raw!Within
    <3> QED
      BY <3>1, <3>2 DEF Raw!MemStep
  <2> QED
    BY <2>3, <2>4
<1>8. Mutation
  BY <1>0, <1>7, SameSteps DEF Mutation
<1> QED
  BY <1>0, <1>6, <1>8, MutationSound

\* Dropping a segment is a step of contents.
LEMMA DropElemStep ==
  ASSUME IInv, ~ Building, NEW i \in DOMAIN instances, NEW e \in DOMAIN instances[i].elems,
         instances' = [instances EXCEPT ![i].elems[e] = <<>>]
  PROVE  InstancesStep
<1> DEFINE in == instances[i]
           es == [in.elems EXCEPT ![e] = <<>>]
<1>1. DOMAIN in = {"exports", "addrs", "elems", "datas"}
  BY Published DEF Inst
<1>2. instances' = [instances EXCEPT ![i] = [in EXCEPT !.elems = es]]
  OBVIOUS
<1>3. DOMAIN es = DOMAIN in.elems /\ \A j \in DOMAIN in.elems : es[j] \in {in.elems[j], <<>>}
  OBVIOUS
<1> HIDE DEF es
<1>4. /\ DOMAIN instances' = DOMAIN instances
      /\ \A j \in DOMAIN instances : j # i => instances'[j] = instances[j]
      /\ instances'[i] = [in EXCEPT !.elems = es]
  BY <1>2
<1>5. /\ instances'[i].exports = in.exports /\ instances'[i].addrs = in.addrs
      /\ instances'[i].elems = es /\ instances'[i].datas = in.datas
  BY <1>1, <1>4
<1> QED
  BY <1>3, <1>4, <1>5 DEF InstancesStep, Raw!InstanceStep

\* Emptying a data segment changes nothing else of the instances.
LEMMA DropDataStep ==
  ASSUME IInv, ~ Building, NEW i \in DOMAIN instances, NEW d \in DOMAIN instances[i].datas,
         instances' = [instances EXCEPT ![i].datas[d] = 0]
  PROVE  InstancesStep
<1> DEFINE in == instances[i]
           ds == [in.datas EXCEPT ![d] = 0]
<1>1. DOMAIN in = {"exports", "addrs", "elems", "datas"}
  BY Published DEF Inst
<1>2. instances' = [instances EXCEPT ![i] = [in EXCEPT !.datas = ds]]
  OBVIOUS
<1>3. DOMAIN ds = DOMAIN in.datas /\ \A j \in DOMAIN in.datas : ds[j] \in {in.datas[j], 0}
  OBVIOUS
<1> HIDE DEF ds
<1>4. /\ DOMAIN instances' = DOMAIN instances
      /\ \A j \in DOMAIN instances : j # i => instances'[j] = instances[j]
      /\ instances'[i] = [in EXCEPT !.datas = ds]
  BY <1>2
<1>5. /\ instances'[i].exports = in.exports /\ instances'[i].addrs = in.addrs
      /\ instances'[i].elems = in.elems /\ instances'[i].datas = ds
  BY <1>1, <1>4
<1> QED
  BY <1>3, <1>4, <1>5 DEF InstancesStep, Raw!InstanceStep

\* Contents do not depend on the instances.
LEMMA ContentSame ==
  ASSUME ContentInv, UNCHANGED <<tables, mems, globals>>
  PROVE  ContentInv'
BY DEF ContentInv, StoreTyped

\* elem.drop and data.drop empty a segment of the running instance.
LEMMA DropSegmentSound == IInv /\ IInv' /\ SoundInv /\ DropSegment => SoundInv' /\ Mutation
<1> SUFFICES ASSUME IInv, IInv', SoundInv, DropSegment
             PROVE  SoundInv' /\ Mutation
  OBVIOUS
<1> DEFINE c == frames[Len(frames)]
<1>0. /\ phase = "run" /\ phase' = "run" /\ inst' = inst /\ ~ Building
      /\ UNCHANGED <<funcs, tables, mems, globals, code, frames, held>>
  BY DEF DropSegment, Running, Executed, callVars, Building
<1>1. c \in DOMAIN instances
  BY <1>0, TopOk
<1>2. InstancesStep
  <2>1. CASE \E e \in DOMAIN Top.elems : instances' = [instances EXCEPT ![c].elems[e] = <<>>]
    BY <1>0, <1>1, <2>1, DropElemStep DEF Top
  <2>2. CASE \E d \in DOMAIN Top.datas : instances' = [instances EXCEPT ![c].datas[d] = 0]
    BY <1>0, <1>1, <2>2, DropDataStep DEF Top
  <2> QED
    BY <2>1, <2>2 DEF DropSegment
<1>3. Mutation
  BY <1>0, <1>2, SameSteps DEF Mutation
<1>4. ContentInv'
  BY <1>0, ContentSame DEF SoundInv
<1> QED
  BY <1>0, <1>3, <1>4, MutationSound

\* The instance whose segments are applied runs the module in hand.
LEMMA LastRuns ==
  ASSUME IInv, SoundInv, phase = "segments"
  PROVE  LET id == Len(instances)
             in == instances[id]
         IN
         /\ id \in DOMAIN instances /\ in \in Inst(Sizes) /\ Sizes \in SizeType
         /\ mod \in Module /\ ValidModule(mod) /\ code[id] = mod
         /\ Fits(mod, in.addrs, funcs, tables, mems, globals)
         /\ Complete(mod, in.addrs) /\ SegmentsTyped(mod, in.elems)
         /\ DOMAIN in.elems = DOMAIN mod.elems /\ DOMAIN in.datas = DOMAIN mod.datas
<1> DEFINE id == Len(instances)
<1>0. ~ Building /\ instances # <<>> /\ mod \in Modules /\ mod \in Module
      /\ DOMAIN instances[id].elems = DOMAIN mod.elems
      /\ DOMAIN instances[id].datas = DOMAIN mod.datas
  BY StoreAssumption DEF IInv, CallInv, Building
<1>1. id \in DOMAIN instances /\ instances[id] \in Inst(Sizes) /\ Sizes \in SizeType
  BY <1>0, Published, EmptySeq
<1>2. code[id] = mod
  BY DEF SoundInv, LinkInv
<1>3. Runs(instances[id], mod, funcs, tables, mems, globals)
  BY <1>1, <1>2 DEF SoundInv, RunsInv
<1> QED
  BY <1>0, <1>1, <1>2, <1>3 DEF Runs

\* An active element segment fills a table of its type, traps, or is dropped.
LEMMA ApplyElemSound ==
  IInv /\ IInv' /\ SoundInv /\ ApplyElem => SoundInv' /\ Mutation
<1> SUFFICES ASSUME IInv, IInv', SoundInv, ApplyElem
             PROVE  SoundInv' /\ Mutation
  OBVIOUS
<1> DEFINE id  == Len(instances)
           in  == instances[id]
           e   == mod.elems[k]
           seg == in.elems[k]
           a   == in.addrs.table[e.table]
           off == EvalConst(in, e.offset).bits
           cleared == [instances EXCEPT ![id].elems[k] = <<>>]
<1>0. phase = "segments" /\ ~ Building /\ k \in DOMAIN mod.elems
  BY DEF ApplyElem, Building
<1>1. /\ id \in DOMAIN instances /\ in \in Inst(Sizes) /\ Sizes \in SizeType
      /\ mod \in Module /\ ValidModule(mod)
      /\ Fits(mod, in.addrs, funcs, tables, mems, globals)
      /\ SegmentsTyped(mod, in.elems) /\ k \in DOMAIN in.elems
  BY <1>0, LastRuns
<1>2. e \in Elem /\ ElemOk(mod, e)
  <2>1. mod.elems \in Seq(Elem)
    BY <1>1 DEF Module
  <2> QED
    BY <1>0, <1>1, <2>1, SeqAt DEF ValidModule
<1>3. ASSUME NextSegment, UNCHANGED <<funcs, mems, globals, code>>, ContentInv', Mutation
      PROVE  SoundInv'
  <2>1. inst' = inst /\ frames' = frames /\ phase' = "segments" /\ mod' = mod
    BY <1>0, <1>3 DEF NextSegment, runVars
  <2> QED
    BY <1>0, <1>3, <2>1, MutationSound
<1>4. CASE NextSegment /\ UNCHANGED storeVars
  <2>1. ContentInv' /\ Mutation
    BY <1>4, ContentSame, SameSteps DEF storeVars, SoundInv, Mutation
  <2> QED
    BY <1>3, <1>4, <2>1 DEF storeVars
<1>5. CASE /\ instances' = cleared
           /\ NextSegment /\ UNCHANGED <<funcs, tables, mems, globals, code>>
  <2>1. InstancesStep
    BY <1>0, <1>1, <1>5, DropElemStep
  <2>2. ContentInv' /\ Mutation
    BY <1>5, <2>1, ContentSame, SameSteps DEF SoundInv, Mutation
  <2> QED
    BY <1>3, <1>5, <2>2
<1>6. CASE /\ e.table \in DOMAIN in.addrs.table /\ Evaluable(in, e.offset)
           /\ e.mode = "active"
           /\ tables' = [tables EXCEPT ![a].elems = CopyInto(@, off, seg)]
           /\ instances' = cleared
           /\ NextSegment /\ UNCHANGED <<funcs, mems, globals, code>>
  <2> DEFINE S == RefOf(Len(funcs), tables[a].ty.elem)
  <2>1. a \in 1..Len(tables) /\ a \in DOMAIN tables
    BY <1>0, <1>1, <1>6, AddrOk, Published DEF Kind, Sizes
  <2>2. off \in Nat
    <3>1. EvalConst(in, e.offset) \in RefValue(Len(funcs))
      BY <1>1, <1>2, <1>6, EvalConstOk DEF IInv, Elem
    <3> QED
      BY <3>1 DEF RefValue, Value
  <2>3. tables[a].ty.elem = e.ty
    <3>1. tables[a].ty.elem = TableSpace(mod)[e.table].elem
      BY <1>1, <1>6 DEF Fits, FitsTable
    <3> QED
      BY <1>2, <1>6, <3>1 DEF ElemOk
  <2>4. seg \in Seq(S)
    <3>1. in.elems \in Seq(Seq(RefValue(Len(funcs))))
      BY <1>1 DEF Inst, Sizes
    <3>2. seg \in Seq(RefValue(Len(funcs)))
      BY <1>1, <3>1, SeqAt
    <3>3. \A n \in DOMAIN seg : seg[n].ty = tables[a].ty.elem
      BY <1>1, <2>3 DEF SegmentsTyped
    <3> QED
      BY <3>2, <3>3, TypedSeq
  <2>5. tables[a].elems \in Seq(S)
    BY <2>1, TypedElems DEF SoundInv, ContentInv
  <2>6. SetElems(a, CopyInto(tables[a].elems, off, seg))
    BY <1>6 DEF SetElems
  <2>7. InstancesStep
    BY <1>0, <1>1, <1>6, DropElemStep
  <2> HIDE DEF off, seg, a, S
  <2>8. /\ CopyInto(tables[a].elems, off, seg) \in Seq(S)
        /\ Len(CopyInto(tables[a].elems, off, seg)) = Len(tables[a].elems)
    BY <2>2, <2>4, <2>5, CopyIntoOk
  <2>9. ContentInv' /\ TablesStep
    BY <1>0, <1>6, <2>1, <2>6, <2>8, TableStepSound DEF S
  <2>10. Mutation
    BY <1>6, <2>7, <2>9, SameSteps DEF Mutation
  <2> QED
    BY <1>3, <1>6, <2>9, <2>10
<1>7. CASE Trapped
  <2>1. ContentInv' /\ Mutation
    BY <1>7, ContentSame, SameSteps DEF Trapped, storeVars, SoundInv, Mutation
  <2> QED
    BY <1>7, <2>1, EndSound DEF Trapped
<1> QED
  BY <1>4, <1>5, <1>6, <1>7 DEF ApplyElem

\* An active data segment only leaves its mark on the instance.
LEMMA ApplyDataSound ==
  IInv /\ IInv' /\ SoundInv /\ ApplyData => SoundInv' /\ Mutation
<1> SUFFICES ASSUME IInv, IInv', SoundInv, ApplyData
             PROVE  SoundInv' /\ Mutation
  OBVIOUS
<1> DEFINE i  == k - Len(mod.elems)
           id == Len(instances)
<1>0. phase = "segments" /\ ~ Building /\ i \in DOMAIN mod.datas
  BY DEF ApplyData, Building
<1>1. id \in DOMAIN instances /\ i \in DOMAIN instances[id].datas
  BY <1>0, LastRuns
<1>2. ASSUME NextSegment, UNCHANGED <<funcs, tables, mems, globals, code>>, InstancesStep
      PROVE  SoundInv' /\ Mutation
  <2>1. inst' = inst /\ frames' = frames /\ phase' = "segments" /\ mod' = mod
    BY <1>0, <1>2 DEF NextSegment, runVars
  <2>2. ContentInv' /\ Mutation
    BY <1>2, ContentSame, SameSteps DEF SoundInv, Mutation
  <2> QED
    BY <1>0, <1>2, <2>1, <2>2, MutationSound
<1>3. CASE NextSegment /\ UNCHANGED storeVars
  BY <1>2, <1>3, SameSteps DEF storeVars
<1>4. CASE /\ instances' = [instances EXCEPT ![id].datas[i] = 0]
           /\ NextSegment /\ UNCHANGED <<funcs, tables, mems, globals, code>>
  BY <1>0, <1>1, <1>2, <1>4, DropDataStep
<1>5. CASE Trapped
  <2>1. ContentInv' /\ Mutation
    BY <1>5, ContentSame, SameSteps DEF Trapped, storeVars, SoundInv, Mutation
  <2> QED
    BY <1>5, <2>1, EndSound DEF Trapped
<1> QED
  BY <1>3, <1>4, <1>5 DEF ApplyData

-----------------------------------------------------------------------------
(* Steps that build an instance or take it back.                           *)

\* Entries up to the sizes z are the same in the next state.
SamePrefix(z) ==
  /\ \A a \in 1..z.func : funcs'[a] = funcs[a]
  /\ \A a \in 1..z.table : tables'[a] = tables[a]
  /\ \A a \in 1..z.mem : mems'[a] = mems[a]
  /\ \A a \in 1..z.global : globals'[a] = globals[a]

\* Cutting the pools at marks keeps the entries below them.
LEMMA PrefixKept ==
  ASSUME IInv, NEW z \in SizeType, Leq(z, Sizes), SamePrefix(z)
  PROVE  PoolsKept(z)
<1>1. /\ \A a \in 1..z.table : a \in 1..Len(tables) /\ tables[a] \in TableInst(Len(funcs))
      /\ \A a \in 1..z.mem : a \in 1..Len(mems) /\ mems[a] \in MemInst
  <2>1. Len(tables) \in Nat /\ Len(mems) \in Nat
    BY SizesOk DEF IInv
  <2>2. z.table \in Nat /\ z.table <= Len(tables) /\ z.mem \in Nat /\ z.mem <= Len(mems)
    BY DEF SizeType, Leq, Sizes
  <2>3. tables \in Seq(TableInst(Len(funcs))) /\ mems \in Seq(MemInst)
    BY DEF IInv, PoolsInv
  <2> QED
    BY <2>1, <2>2, <2>3, ElementOfSeq
<1>2. KeptTable(z.table, tables, tables')
  <2>1. \A a \in 1..z.table : Len(tables[a].elems) \in Nat
    BY <1>1, LenProperties DEF TableInst
  <2> QED
    BY <2>1 DEF KeptTable, KeptType, SamePrefix
<1>3. KeptMem(z.mem, mems, mems')
  <2>1. \A a \in 1..z.mem : mems[a].pages \in Nat
    BY <1>1 DEF MemInst
  <2> QED
    BY <2>1 DEF KeptMem, KeptType, SamePrefix
<1>4. KeptType(z.func, funcs, funcs') /\ KeptType(z.global, globals, globals')
  BY DEF KeptType, SamePrefix
<1> QED
  BY <1>2, <1>3, <1>4 DEF PoolsKept, Kept

\* Published instances do not notice what happens above the marks.
LEMMA RunsBelow ==
  ASSUME IInv, RunsInv, SamePrefix(Known), UNCHANGED <<instances, code>>
  PROVE  RunsInv'
<1>1. Known \in SizeType /\ Leq(Known, Sizes) /\ instances \in Seq(Inst(Known))
  BY KnownOk DEF IInv, InstancesInv
<1>2. InstancesKept
  BY DEF InstancesKept
<1> QED
  BY <1>1, <1>2, PrefixKept, RunsStep

\* Contents are as before or well made.
TableMade(t) == TableWithin(t) /\ \A n \in DOMAIN t.elems : t.elems[n].ty = t.ty.elem

\* New entries that are made right leave all entries right.
LEMMA ContentMade ==
  ASSUME ContentInv,
         \A a \in DOMAIN tables' :
           \/ a \in DOMAIN tables /\ tables'[a] = tables[a]
           \/ TableMade(tables'[a]),
         \A a \in DOMAIN mems' :
           \/ a \in DOMAIN mems /\ mems'[a] = mems[a]
           \/ MemWithin(mems'[a]),
         \A a \in DOMAIN globals' :
           \/ a \in DOMAIN globals /\ globals'[a] = globals[a]
           \/ globals'[a].val.ty = globals'[a].ty.val
  PROVE  ContentInv'
<1>1. \A a \in DOMAIN tables : TableMade(tables[a])
  BY DEF ContentInv, StoreTyped, TableMade
<1>2. \A a \in DOMAIN tables' : TableMade(tables'[a])
  BY <1>1
<1>3. \A a \in DOMAIN mems' : MemWithin(mems'[a])
  BY DEF ContentInv
<1>4. \A a \in DOMAIN globals' : globals'[a].val.ty = globals'[a].ty.val
  BY DEF ContentInv, StoreTyped
<1> QED
  BY <1>2, <1>3, <1>4 DEF ContentInv, StoreTyped, TableMade

\* A slice from the start.
LEMMA SliceAt ==
  ASSUME NEW S, NEW s \in Seq(S), NEW n \in Nat, n <= Len(s)
  PROVE  /\ DOMAIN SubSeq(s, 1, n) = 1..n
         /\ \A a \in 1..n : SubSeq(s, 1, n)[a] = s[a] /\ a \in DOMAIN s
<1>1. Len(s) \in Nat /\ DOMAIN s = 1..Len(s)
  BY LenProperties
<1>2. \A i \in 1..n : s[i] \in S
  BY <1>1, ElementOfSeq
<1>3. /\ SubSeq(s, 1, n) \in Seq(S) /\ Len(SubSeq(s, 1, n)) = n
      /\ \A i \in 1..n : SubSeq(s, 1, n)[i] = s[i]
  <2>1. SubSeq(s, 1, n) = [i \in 1..n |-> s[i]]
    BY DEF SubSeq
  <2>2. SubSeq(s, 1, n) \in [1..n -> S]
    BY <1>2, <2>1
  <2> QED
    BY <2>1, <2>2, FunSeq
<1>4. DOMAIN SubSeq(s, 1, n) = 1..n
  BY <1>3, LenProperties
<1> QED
  BY <1>1, <1>3, <1>4

\* A rollback cuts the pools at the marks, and all instances are below them.
LEMMA RollbackSound ==
  ASSUME IInv, SoundInv, Building, Rollback
  PROVE  SoundInv'
<1> USE DEF Rollback, Truncate, Finish
<1>0. /\ Known = base /\ base \in SizeType
      /\ base.func <= Len(funcs) /\ base.table <= Len(tables)
      /\ base.mem <= Len(mems) /\ base.global <= Len(globals)
      /\ base.func \in Nat /\ base.table \in Nat /\ base.mem \in Nat /\ base.global \in Nat
  BY MarksBelow DEF Known, IInv, MarksInv
<1>1. /\ DOMAIN funcs' = 1..base.func /\ DOMAIN tables' = 1..base.table
      /\ DOMAIN mems' = 1..base.mem /\ DOMAIN globals' = 1..base.global
      /\ \A a \in 1..base.func : funcs'[a] = funcs[a] /\ a \in DOMAIN funcs
      /\ \A a \in 1..base.table : tables'[a] = tables[a] /\ a \in DOMAIN tables
      /\ \A a \in 1..base.mem : mems'[a] = mems[a] /\ a \in DOMAIN mems
      /\ \A a \in 1..base.global : globals'[a] = globals[a] /\ a \in DOMAIN globals
  <2>1. /\ funcs \in Seq(FuncInst(Owners)) /\ tables \in Seq(TableInst(Len(funcs)))
        /\ mems \in Seq(MemInst) /\ globals \in Seq(GlobalInst(Len(funcs)))
    BY DEF IInv, PoolsInv
  <2>2. /\ DOMAIN funcs' = 1..base.func
        /\ \A a \in 1..base.func : funcs'[a] = funcs[a] /\ a \in DOMAIN funcs
    BY <1>0, <2>1, SliceAt
  <2>3. /\ DOMAIN tables' = 1..base.table
        /\ \A a \in 1..base.table : tables'[a] = tables[a] /\ a \in DOMAIN tables
    BY <1>0, <2>1, SliceAt
  <2>4. /\ DOMAIN mems' = 1..base.mem
        /\ \A a \in 1..base.mem : mems'[a] = mems[a] /\ a \in DOMAIN mems
    BY <1>0, <2>1, SliceAt
  <2>5. /\ DOMAIN globals' = 1..base.global
        /\ \A a \in 1..base.global : globals'[a] = globals[a] /\ a \in DOMAIN globals
    BY <1>0, <2>1, SliceAt
  <2> QED
    BY <2>2, <2>3, <2>4, <2>5
<1>2. ContentInv'
  BY <1>1, ContentMade DEF SoundInv
<1>3. RunsInv'
  <2>1. SamePrefix(Known)
    BY <1>0, <1>1 DEF SamePrefix
  <2> QED
    BY <2>1, RunsBelow DEF SoundInv
<1>4. CodeInv'
  <2>1. frames' = <<>> /\ instances' = instances /\ code' = code
    OBVIOUS
  <2>2. \A a \in DOMAIN funcs' : a \in DOMAIN funcs /\ funcs'[a] = funcs[a]
    BY <1>1
  <2> QED
    BY ONLY <2>1, <2>2, SoundInv DEF SoundInv, CodeInv
<1>5. LinkInv'
  BY DEF LinkInv
<1> QED
  BY <1>2, <1>3, <1>4, <1>5 DEF SoundInv

\* One pool grows by an entry that is well made.
LEMMA GrowContent ==
  ASSUME IInv, SoundInv,
         \/ /\ UNCHANGED <<mems, globals>>
            /\ \E e : tables' = Append(tables, e) /\ e \in TableInst(Len(funcs)) /\ TableMade(e)
         \/ /\ UNCHANGED <<tables, globals>>
            /\ \E e : mems' = Append(mems, e) /\ e \in MemInst /\ MemWithin(e)
         \/ /\ UNCHANGED <<tables, mems>>
            /\ \E e : /\ globals' = Append(globals, e) /\ e \in GlobalInst(Len(funcs))
                      /\ e.val.ty = e.ty.val
  PROVE  /\ ContentInv'
         /\ \A a \in 1..Len(tables) : tables'[a] = tables[a]
         /\ \A a \in 1..Len(mems) : mems'[a] = mems[a]
         /\ \A a \in 1..Len(globals) : globals'[a] = globals[a]
<1>0. /\ tables \in Seq(TableInst(Len(funcs))) /\ mems \in Seq(MemInst)
      /\ globals \in Seq(GlobalInst(Len(funcs)))
  BY DEF IInv, PoolsInv
<1>1. CASE /\ UNCHANGED <<mems, globals>>
           /\ \E e : tables' = Append(tables, e) /\ e \in TableInst(Len(funcs)) /\ TableMade(e)
  <2> PICK e : tables' = Append(tables, e) /\ e \in TableInst(Len(funcs)) /\ TableMade(e)
    BY <1>1
  <2>1. /\ \A a \in DOMAIN tables' : \/ a \in DOMAIN tables /\ tables'[a] = tables[a]
                                     \/ tables'[a] = e
        /\ \A a \in 1..Len(tables) : tables'[a] = tables[a]
    BY <1>0, AppendAt, AppendProperties
  <2>2. ContentInv'
    BY <1>1, <2>1, ContentMade DEF SoundInv
  <2> QED
    BY <1>1, <2>1, <2>2
<1>2. CASE /\ UNCHANGED <<tables, globals>>
           /\ \E e : mems' = Append(mems, e) /\ e \in MemInst /\ MemWithin(e)
  <2> PICK e : mems' = Append(mems, e) /\ e \in MemInst /\ MemWithin(e)
    BY <1>2
  <2>1. /\ \A a \in DOMAIN mems' : \/ a \in DOMAIN mems /\ mems'[a] = mems[a]
                                   \/ mems'[a] = e
        /\ \A a \in 1..Len(mems) : mems'[a] = mems[a]
    BY <1>0, AppendAt, AppendProperties
  <2>2. ContentInv'
    BY <1>2, <2>1, ContentMade DEF SoundInv
  <2> QED
    BY <1>2, <2>1, <2>2
<1>3. CASE /\ UNCHANGED <<tables, mems>>
           /\ \E e : /\ globals' = Append(globals, e) /\ e \in GlobalInst(Len(funcs))
                     /\ e.val.ty = e.ty.val
  <2> PICK e : /\ globals' = Append(globals, e) /\ e \in GlobalInst(Len(funcs))
               /\ e.val.ty = e.ty.val
    BY <1>3
  <2>1. /\ \A a \in DOMAIN globals' : \/ a \in DOMAIN globals /\ globals'[a] = globals[a]
                                      \/ globals'[a] = e
        /\ \A a \in 1..Len(globals) : globals'[a] = globals[a]
    BY <1>0, AppendAt, AppendProperties
  <2>2. ContentInv'
    BY <1>3, <2>1, ContentMade DEF SoundInv
  <2> QED
    BY <1>3, <2>1, <2>2
<1> QED
  BY <1>1, <1>2, <1>3

\* Pools that only grow keep all they have.
LEMMA GrowKept ==
  ASSUME IInv, funcs' = funcs,
         \A a \in 1..Len(tables) : tables'[a] = tables[a],
         \A a \in 1..Len(mems) : mems'[a] = mems[a],
         \A a \in 1..Len(globals) : globals'[a] = globals[a]
  PROVE  PoolsKept(Sizes)
<1>1. SamePrefix(Sizes)
  BY DEF SamePrefix, Sizes
<1>2. Sizes \in SizeType /\ Leq(Sizes, Sizes)
  BY SizesOk DEF IInv, Leq, SizeType
<1> QED
  BY <1>1, <1>2, PrefixKept

\* What the allocation loops have in common, but for the addresses.
LEMMA GrowSound ==
  ASSUME IInv, SoundInv, Building, ContentInv', LinkInv',
         UNCHANGED <<funcs, instances, code, frames>>,
         \A a \in 1..Len(tables) : tables'[a] = tables[a],
         \A a \in 1..Len(mems) : mems'[a] = mems[a],
         \A a \in 1..Len(globals) : globals'[a] = globals[a]
  PROVE  SoundInv'
<1>1. SamePrefix(Known)
  <2>1. /\ base.func \in Nat /\ base.table \in Nat /\ base.mem \in Nat /\ base.global \in Nat
        /\ base.func <= Len(funcs) /\ base.table <= Len(tables)
        /\ base.mem <= Len(mems) /\ base.global <= Len(globals)
    BY MarksBelow
  <2>2. Len(tables) \in Nat /\ Len(mems) \in Nat /\ Len(globals) \in Nat
    BY SizesOk DEF IInv
  <2> QED
    BY <2>1, <2>2 DEF SamePrefix, Known
<1>2. RunsInv'
  BY <1>1, RunsBelow DEF SoundInv
<1>3. CodeInv'
  BY DEF SoundInv, CodeInv
<1> QED
  BY <1>2, <1>3 DEF SoundInv

\* An allocation for a host: nothing is said of the instance yet.
LEMMA HostGrow ==
  ASSUME IInv, SoundInv, phase = "host", ContentInv',
         UNCHANGED <<funcs, instances, code, phase, runVars>>,
         \A a \in 1..Len(tables) : tables'[a] = tables[a],
         \A a \in 1..Len(mems) : mems'[a] = mems[a],
         \A a \in 1..Len(globals) : globals'[a] = globals[a]
  PROVE  SoundInv'
<1>1. LinkInv' /\ Building
  BY DEF LinkInv, Building
<1> QED
  BY <1>1, GrowSound DEF runVars

\* A new table is full of nulls of its type and within its limits.
LEMMA NewTableMade ==
  ASSUME NEW t \in TableType, TableTypeOk(t), t.limits.min <= TABLE_IMPL_LIMIT
  PROVE  /\ TableMade(NewTable(t)) /\ NewTable(t).ty = t
         /\ Len(NewTable(t).elems) = t.limits.min
<1> DEFINE els == [i \in 1..t.limits.min |-> NullOf(t.elem)]
<1>1. t.limits.min \in Nat
  BY DEF TableType, Limits
<1>2. Len(els) = t.limits.min /\ DOMAIN els = 1..t.limits.min
  <2>1. els \in [1..t.limits.min -> {NullOf(t.elem)}]
    OBVIOUS
  <2> HIDE DEF els
  <2> QED
    BY <1>1, <2>1, FunSeq
<1>3. \A i \in DOMAIN els : els[i].ty = t.elem
  BY DEF NullOf
<1>4. NewTable(t) = [ty |-> t, elems |-> els]
  BY DEF NewTable
<1> HIDE DEF els
<1> QED
  BY <1>2, <1>3, <1>4 DEF TableMade, TableWithin, TableTypeOk

\* Functions are added: what is published does not notice.
LEMMA FuncsGrow ==
  ASSUME IInv, SoundInv, ~ Building, NEW n \in {Len(instances), Len(instances) + 1},
         NEW new \in Seq(FuncInst(n)), funcs' = funcs \o new,
         \A i \in DOMAIN new : new[i].inst \notin DOMAIN instances,
         UNCHANGED <<tables, mems, globals, instances, code, frames>>
  PROVE  /\ ContentInv' /\ RunsInv' /\ CodeInv' /\ PoolsKept(Sizes)
         /\ \A i \in DOMAIN new : funcs'[Len(funcs) + i] = new[i]
<1>0. /\ Len(instances) \in Nat /\ Sizes \in SizeType /\ Known = Sizes /\ Leq(Sizes, Sizes)
      /\ n \in Nat /\ Len(instances) <= n /\ Owners = Len(instances)
  BY KnownOk DEF Known, Owners, Building, Leq, SizeType
<1>1. funcs \in Seq(FuncInst(n))
  <2>1. funcs \in Seq(FuncInst(Len(instances)))
    BY <1>0 DEF IInv, PoolsInv
  <2> QED
    BY <1>0, <2>1, PoolTypesMono
<1>2. /\ Len(funcs') = Len(funcs) + Len(new) /\ Len(funcs) \in Nat /\ Len(new) \in Nat
      /\ \A i \in 1..Len(funcs) : funcs'[i] = funcs[i]
      /\ DOMAIN funcs' = 1..Len(funcs') /\ DOMAIN funcs = 1..Len(funcs)
      /\ DOMAIN new = 1..Len(new)
  BY <1>1, ConcatProperties, LenProperties
<1>3. \A i \in DOMAIN new : funcs'[Len(funcs) + i] = new[i]
  <2> TAKE i \in DOMAIN new
  <2>1. /\ Len(funcs) + i \in 1..(Len(funcs) + Len(new)) /\ ~ (Len(funcs) + i <= Len(funcs))
        /\ (Len(funcs) + i) - Len(funcs) = i
    BY <1>2
  <2> QED
    BY <1>1, <2>1, ConcatProperties
<1>4. SamePrefix(Sizes)
  BY <1>2 DEF SamePrefix, Sizes
<1>5. PoolsKept(Sizes)
  BY <1>0, <1>4, PrefixKept
<1>6. RunsInv'
  BY <1>0, <1>4, RunsBelow DEF SoundInv
<1>7. ContentInv'
  BY DEF SoundInv, ContentInv, StoreTyped
<1>8. CodeInv'
  <2>1. ASSUME NEW a \in DOMAIN funcs', funcs'[a].inst \in DOMAIN instances
        PROVE  code[funcs'[a].inst] \in Modules
    <3>1. CASE a \in DOMAIN funcs
      BY <1>2, <2>1, <3>1 DEF SoundInv, CodeInv
    <3>2. CASE a \notin DOMAIN funcs
      <4>1. a - Len(funcs) \in DOMAIN new /\ a = Len(funcs) + (a - Len(funcs))
        BY <1>2, <3>2
      <4>2. funcs'[a] = new[a - Len(funcs)]
        BY <1>3, <4>1
      <4> QED
        BY <2>1, <4>1, <4>2
    <3> QED
      BY <3>1, <3>2
  <2> QED
    BY <2>1 DEF SoundInv, CodeInv
<1> QED
  BY <1>3, <1>5, <1>6, <1>7, <1>8

\* A host's functions belong to no instance.
LEMMA AddHostModuleSound == IInv /\ SoundInv /\ AddHostModule => SoundInv'
<1> SUFFICES ASSUME IInv, SoundInv, AddHostModule
             PROVE  SoundInv'
  OBVIOUS
<1> PICK h \in HostModules :
      funcs' = funcs \o [i \in DOMAIN h.funcs |-> [ty |-> h.funcs[i].ty, inst |-> 0]]
  BY DEF AddHostModule
<1> DEFINE new == [i \in DOMAIN h.funcs |-> [ty |-> h.funcs[i].ty, inst |-> 0]]
<1>0. /\ phase' = "host" /\ ~ Building
      /\ UNCHANGED <<tables, mems, globals, instances, code, frames>>
  BY DEF AddHostModule, Building, runVars
<1>1. /\ h.funcs \in Seq([name : STRING, ty : FuncType])
      /\ Len(h.funcs) \in Nat /\ DOMAIN h.funcs = 1..Len(h.funcs)
  BY StoreAssumption, LenProperties DEF HostModule
<1>2. /\ \A i \in DOMAIN h.funcs : h.funcs[i] \in [name : STRING, ty : FuncType]
      /\ Len(instances) \in Nat /\ 0 \notin DOMAIN instances
  <2>1. instances \in Seq(Inst(Known))
    BY DEF IInv, InstancesInv
  <2>2. Len(instances) \in Nat /\ DOMAIN instances = 1..Len(instances)
    BY <2>1, LenProperties
  <2>3. \A i \in DOMAIN h.funcs : h.funcs[i] \in [name : STRING, ty : FuncType]
    BY <1>1, SeqAt
  <2> QED
    BY <2>2, <2>3
<1>3. new \in Seq(FuncInst(Len(instances)))
  <2>1. new \in [1..Len(h.funcs) -> FuncInst(Len(instances))]
    BY <1>1, <1>2 DEF FuncInst
  <2> QED
    BY <2>1, <1>1, FunSeq
<1>4. \A i \in DOMAIN new : new[i].inst \notin DOMAIN instances
  BY <1>2
<1> HIDE DEF new
<1>5. ContentInv' /\ RunsInv' /\ CodeInv'
  BY <1>0, <1>3, <1>4, FuncsGrow DEF new
<1>6. LinkInv'
  BY <1>0 DEF LinkInv
<1> QED
  BY <1>5, <1>6 DEF SoundInv

\* A host global has a value of its type, or the call is rolled back.
LEMMA HostGlobalSound == IInv /\ SoundInv /\ HostGlobal => SoundInv'
<1> SUFFICES ASSUME IInv, SoundInv, HostGlobal
             PROVE  SoundInv'
  OBVIOUS
<1> DEFINE g == mod.globals[k]
           e == [ty |-> g.ty, val |-> g.val]
<1>0. phase = "host" /\ Building /\ mod \in HostModule /\ k \in DOMAIN mod.globals
  BY StoreAssumption DEF IInv, CallInv, HostGlobal, Building
<1>1. g \in [name : STRING, ty : GlobalType, val : Value]
  <2>1. mod.globals \in Seq([name : STRING, ty : GlobalType, val : Value])
    BY <1>0 DEF HostModule
  <2> QED
    BY <1>0, <2>1, SeqAt
<1>2. CASE /\ HostValueOk(g)
           /\ globals' = Append(globals, e)
           /\ UNCHANGED <<funcs, tables, mems, instances, code, phase, runVars>>
  <2>1. e \in GlobalInst(Len(funcs)) /\ e.val.ty = e.ty.val
    BY <1>1, <1>2 DEF HostValueOk, GlobalInst, RefValue
  <2> HIDE DEF e, g
  <2>2. \E x : /\ globals' = Append(globals, x) /\ x \in GlobalInst(Len(funcs))
               /\ x.val.ty = x.ty.val
    BY <1>2, <2>1
  <2>3. /\ ContentInv'
        /\ \A a \in 1..Len(tables) : tables'[a] = tables[a]
        /\ \A a \in 1..Len(mems) : mems'[a] = mems[a]
        /\ \A a \in 1..Len(globals) : globals'[a] = globals[a]
    BY <1>2, <2>2, GrowContent
  <2> QED
    BY <1>0, <1>2, <2>3, HostGrow
<1>3. CASE Rollback
  BY <1>0, <1>3, RollbackSound
<1> QED
  BY <1>2, <1>3 DEF HostGlobal

\* A host table is within its limits, or the call is rolled back.
LEMMA HostTableSound == IInv /\ SoundInv /\ HostTable => SoundInv'
<1> SUFFICES ASSUME IInv, SoundInv, HostTable
             PROVE  SoundInv'
  OBVIOUS
<1> DEFINE i == k - Len(mod.globals)
           t == mod.tables[i].ty
           e == NewTable(t)
<1>0. phase = "host" /\ Building /\ mod \in HostModule /\ i \in DOMAIN mod.tables
  BY StoreAssumption DEF IInv, CallInv, HostTable, Building
<1>1. mod.tables[i] \in [name : STRING, ty : TableType]
  <2>1. mod.tables \in Seq([name : STRING, ty : TableType])
    BY <1>0 DEF HostModule
  <2> QED
    BY <1>0, <2>1, SeqAt
<1>2. CASE /\ TableTypeOk(t) /\ t.limits.min <= TABLE_IMPL_LIMIT
           /\ tables' = Append(tables, e)
           /\ UNCHANGED <<funcs, mems, globals, instances, code, phase, runVars>>
  <2>1. e \in TableInst(Len(funcs)) /\ TableMade(e)
    BY <1>1, <1>2, NewTableOk, NewTableMade, SizesOk DEF IInv
  <2> HIDE DEF e, t, i
  <2>2. \E x : tables' = Append(tables, x) /\ x \in TableInst(Len(funcs)) /\ TableMade(x)
    BY <1>2, <2>1
  <2>3. /\ ContentInv'
        /\ \A a \in 1..Len(tables) : tables'[a] = tables[a]
        /\ \A a \in 1..Len(mems) : mems'[a] = mems[a]
        /\ \A a \in 1..Len(globals) : globals'[a] = globals[a]
    BY <1>2, <2>2, GrowContent
  <2> QED
    BY <1>0, <1>2, <2>3, HostGrow
<1>3. CASE Rollback
  BY <1>0, <1>3, RollbackSound
<1> QED
  BY <1>2, <1>3 DEF HostTable

\* A host memory is within its limits, or the call is rolled back.
LEMMA HostMemSound == IInv /\ SoundInv /\ HostMem => SoundInv'
<1> SUFFICES ASSUME IInv, SoundInv, HostMem
             PROVE  SoundInv'
  OBVIOUS
<1> DEFINE i == k - Len(mod.globals) - Len(mod.tables)
           t == mod.mems[i].ty
           e == [ty |-> t, pages |-> t.limits.min]
<1>0. phase = "host" /\ Building /\ mod \in HostModule /\ i \in DOMAIN mod.mems
  BY StoreAssumption DEF IInv, CallInv, HostMem, Building
<1>1. mod.mems[i] \in [name : STRING, ty : MemType]
  <2>1. mod.mems \in Seq([name : STRING, ty : MemType])
    BY <1>0 DEF HostModule
  <2> QED
    BY <1>0, <2>1, SeqAt
<1>2. CASE /\ LimitsOk(t.limits, MAX_PAGES)
           /\ mems' = Append(mems, e)
           /\ UNCHANGED <<funcs, tables, globals, instances, code, phase, runVars>>
  <2>1. e \in MemInst /\ MemWithin(e)
    BY <1>1, <1>2 DEF MemInst, MemType, Limits, LimitsOk, MemWithin
  <2> HIDE DEF e, t, i
  <2>2. \E x : mems' = Append(mems, x) /\ x \in MemInst /\ MemWithin(x)
    BY <1>2, <2>1
  <2>3. /\ ContentInv'
        /\ \A a \in 1..Len(tables) : tables'[a] = tables[a]
        /\ \A a \in 1..Len(mems) : mems'[a] = mems[a]
        /\ \A a \in 1..Len(globals) : globals'[a] = globals[a]
    BY <1>2, <2>2, GrowContent
  <2> QED
    BY <1>0, <1>2, <2>3, HostGrow
<1>3. CASE Rollback
  BY <1>0, <1>3, RollbackSound
<1> QED
  BY <1>2, <1>3 DEF HostMem

\* A descriptor of a host is no module.
LEMMA HostIsNoModule ==
  ASSUME NEW h \in HostModules
  PROVE  h \notin Modules /\ IsHost(h)
<1>1. h \in HostModule
  BY StoreAssumption
<1>2. "imports" \notin DOMAIN h
  BY <1>1 DEF HostModule
<1>3. \A m \in Modules : "imports" \in DOMAIN m
  BY StoreAssumption DEF Module
<1> QED
  BY <1>2, <1>3 DEF IsHost

\* What is published runs its code; nobody else notices.
LEMMA PublishSound ==
  ASSUME IInv, SoundInv, Building, NEW in, Publish(in), frames' = <<>>,
         UNCHANGED <<funcs, tables, mems, globals>>,
         Runs(in, mod, funcs, tables, mems, globals)
  PROVE  ContentInv' /\ RunsInv' /\ CodeInv' /\ code'[Len(instances')] = mod
<1>0. /\ instances \in Seq(Inst(Known)) /\ code \in Seq(Modules \union HostModules)
      /\ Len(code) = Len(instances) /\ Len(instances) \in Nat
      /\ DOMAIN instances = 1..Len(instances) /\ DOMAIN code = 1..Len(instances)
  BY LenProperties DEF IInv, InstancesInv
<1>1. \/ phase = "alloc" /\ mod \in Modules
      \/ phase = "host" /\ mod \in HostModules
  BY DEF Building, IInv, CallInv
<1>2. /\ Len(instances') = Len(instances) + 1 /\ DOMAIN instances' = 1..(Len(instances) + 1)
      /\ \A i \in 1..Len(instances) : instances'[i] = instances[i]
      /\ instances'[Len(instances) + 1] = in
  <2>1. instances \in Seq(Inst(Known) \union {in}) /\ in \in Inst(Known) \union {in}
    <3>1. Seq(Inst(Known)) \subseteq Seq(Inst(Known) \union {in})
      BY SeqMono
    <3> QED
      BY <1>0, <3>1
  <2>2. instances' = Append(instances, in)
    BY DEF Publish
  <2> QED
    BY <2>1, <2>2, AppendProperties, LenProperties
<1>3. /\ \A i \in 1..Len(instances) : code'[i] = code[i]
      /\ code'[Len(instances) + 1] = mod
  <2>1. mod \in Modules \union HostModules /\ code' = Append(code, mod)
    BY <1>1 DEF Publish
  <2> QED
    BY <1>0, <2>1, AppendProperties
<1>4. ContentInv'
  BY DEF SoundInv, ContentInv, StoreTyped
<1>5. RunsInv'
  <2> SUFFICES ASSUME NEW i \in DOMAIN instances'
               PROVE  Runs(instances'[i], code'[i], funcs, tables, mems, globals)
    BY DEF RunsInv
  <2>1. CASE i \in 1..Len(instances)
    BY <1>0, <1>2, <1>3, <2>1 DEF SoundInv, RunsInv
  <2>2. CASE i = Len(instances) + 1
    BY <1>2, <1>3, <2>2
  <2> QED
    BY <1>0, <1>2, <2>1, <2>2
<1>6. CodeInv'
  <2>1. ASSUME NEW a \in DOMAIN funcs, funcs[a].inst \in DOMAIN instances'
        PROVE  code'[funcs[a].inst] \in Modules
    <3>1. CASE funcs[a].inst \in 1..Len(instances)
      BY <1>0, <1>3, <3>1 DEF SoundInv, CodeInv
    <3>2. CASE funcs[a].inst = Len(instances) + 1
      <4>1. funcs \in Seq(FuncInst(Owners))
        BY DEF IInv, PoolsInv
      <4>2. funcs[a].inst \in 0..Owners
        <5>1. funcs[a] \in FuncInst(Owners)
          BY <4>1, SeqAt
        <5> QED
          BY <5>1 DEF FuncInst
      <4>3. phase = "alloc"
        BY <1>0, <1>1, <3>2, <4>2 DEF Owners
      <4> QED
        BY <1>1, <1>3, <3>2, <4>3
    <3> QED
      BY <1>0, <1>2, <2>1, <3>1, <3>2
  <2> QED
    BY <2>1 DEF CodeInv
<1> QED
  BY <1>2, <1>3, <1>4, <1>5, <1>6

\* A host instance has no code.
LEMMA PublishHostSound == IInv /\ SoundInv /\ PublishHost => SoundInv'
<1> SUFFICES ASSUME IInv, SoundInv, PublishHost
             PROVE  SoundInv'
  OBVIOUS
<1>1. phase = "host" /\ Building /\ mod \notin Modules
  BY HostIsNoModule DEF PublishHost, Building, IInv, CallInv
<1>2. Runs(inst, mod, funcs, tables, mems, globals)
  BY <1>1 DEF Runs
<1>3. /\ Publish(inst) /\ frames' = <<>> /\ UNCHANGED <<funcs, tables, mems, globals>>
      /\ phase' = "idle" /\ inst' = EmptyInstance
  BY DEF PublishHost, Finish
<1>4. ContentInv' /\ RunsInv' /\ CodeInv'
  BY <1>1, <1>2, <1>3, PublishSound
<1>5. LinkInv'
  BY <1>3 DEF LinkInv
<1> QED
  BY <1>4, <1>5 DEF SoundInv

-----------------------------------------------------------------------------
(* The allocation loops of instantiate.                                    *)

\* The address vectors with one more address.
LEMMA WithAddrAt ==
  ASSUME NEW z \in SizeType, NEW in \in Inst(z), NEW kind \in Kind, NEW a
  PROVE  /\ \A x \in Kind : WithAddr(in, kind, a).addrs[x] =
              IF x = kind THEN Append(in.addrs[kind], a) ELSE in.addrs[x]
<1> DEFINE ad == in.addrs
<1>1. WithAddr(in, kind, a).addrs = [ad EXCEPT ![kind] = Append(@, a)]
  BY DEF WithAddr, Inst
<1>2. ad = [func |-> ad.func, table |-> ad.table, mem |-> ad.mem, global |-> ad.global]
  BY DEF Inst, Addrs
<1> HIDE DEF ad
<1>3. \A x \in Kind : [ad EXCEPT ![kind] = Append(@, a)][x] =
                        IF x = kind THEN Append(ad[kind], a) ELSE ad[x]
  BY <1>2 DEF Kind
<1> QED
  BY <1>1, <1>3 DEF ad

\* The sizes of the module's own parts.
LEMMA PartsOk ==
  ASSUME NEW m \in Module
  PROVE  /\ Len(m.funcs) \in Nat /\ Len(m.globals) \in Nat
         /\ Len(m.tables) \in Nat /\ Len(m.mems) \in Nat
         /\ DOMAIN m.funcs = 1..Len(m.funcs) /\ DOMAIN m.globals = 1..Len(m.globals)
         /\ DOMAIN m.tables = 1..Len(m.tables) /\ DOMAIN m.mems = 1..Len(m.mems)
<1>1. m.funcs \in Seq(Nat) /\ m.globals \in Seq([ty : GlobalType, init : ConstExpr])
  BY DEF Module
<1>2. m.tables \in Seq(TableType) /\ m.mems \in Seq(MemType)
  BY DEF Module
<1> QED
  BY <1>1, <1>2, LenProperties

\* Position n of the loops is an entry of this kind, the p-th.
OwnEntry(m, n, kind, p) ==
  \/ kind = "global" /\ p = n /\ p \in DOMAIN m.globals
  \/ kind = "table" /\ p = n - Len(m.globals) /\ p \in DOMAIN m.tables
  \/ kind = "mem" /\ p = n - Len(m.globals) - Len(m.tables) /\ p \in DOMAIN m.mems

\* What one turn of the loops makes.
MadeTurn(m, n, kind, p) ==
  /\ n + 1 \in 1 .. Len(m.globals) + Len(m.tables) + Len(m.mems) + 1
  /\ Made(m, n)[kind] = p - 1 /\ Made(m, n + 1)[kind] = p
  /\ \A x \in Kind \ {kind} : Made(m, n + 1)[x] = Made(m, n)[x]

\* The entry allocated next is the next one of its kind.
LEMMA MadeNext ==
  ASSUME NEW m \in Module, NEW n \in Nat, NEW kind, NEW p, OwnEntry(m, n, kind, p)
  PROVE  MadeTurn(m, n, kind, p)
<1> DEFINE G == Len(m.globals)
           T == Len(m.tables)
           M == Len(m.mems)
<1>1. /\ G \in Nat /\ T \in Nat /\ M \in Nat /\ Len(m.funcs) \in Nat
      /\ DOMAIN m.globals = 1..G /\ DOMAIN m.tables = 1..T /\ DOMAIN m.mems = 1..M
  BY PartsOk
<1>2. \A j : /\ Made(m, j).func = Len(m.funcs)
             /\ Made(m, j).global = (IF j <= G THEN j - 1 ELSE G)
             /\ Made(m, j).table = (IF j <= G THEN 0 ELSE IF j <= G + T THEN j - 1 - G ELSE T)
             /\ Made(m, j).mem = (IF j <= G + T THEN 0 ELSE j - 1 - G - T)
  BY DEF Made
<1> HIDE DEF G, T, M
<1>3. CASE kind = "global" /\ p = n /\ p \in 1..G
  <2>1. /\ Made(m, n).global = p - 1 /\ Made(m, n + 1).global = p
        /\ Made(m, n + 1).func = Made(m, n).func
        /\ Made(m, n + 1).table = Made(m, n).table
        /\ Made(m, n + 1).mem = Made(m, n).mem
        /\ n + 1 \in 1 .. G + T + M + 1
    BY <1>1, <1>2, <1>3
  <2> QED
    BY <1>3, <2>1 DEF MadeTurn, Kind, G, T, M
<1>4. CASE kind = "table" /\ p = n - G /\ p \in 1..T
  <2>1. /\ Made(m, n).table = p - 1 /\ Made(m, n + 1).table = p
        /\ Made(m, n + 1).func = Made(m, n).func
        /\ Made(m, n + 1).global = Made(m, n).global
        /\ Made(m, n + 1).mem = Made(m, n).mem
        /\ n + 1 \in 1 .. G + T + M + 1
    <3>1. /\ ~ (n <= G) /\ ~ (n + 1 <= G) /\ n <= G + T /\ n + 1 \in 1 .. G + T + M + 1
          /\ p - 1 = n - 1 - G /\ p = (n + 1) - 1 - G /\ (~ (n + 1 <= G + T) => p = T)
          /\ (n + 1) - 1 - G - T \in Int /\ (~ (n + 1 <= G + T) => (n + 1) - 1 - G - T = 0)
      BY <1>1, <1>4
    <3>2. Made(m, n).table = p - 1 /\ Made(m, n + 1).table = p
      BY <1>2, <3>1
    <3>3. Made(m, n).mem = 0 /\ Made(m, n + 1).mem = 0
      BY <1>2, <3>1
    <3>4. Made(m, n).global = G /\ Made(m, n + 1).global = G /\ Made(m, n + 1).func = Made(m, n).func
      BY <1>2, <3>1
    <3> QED
      BY <3>1, <3>2, <3>3, <3>4
  <2> QED
    BY <1>4, <2>1 DEF MadeTurn, Kind, G, T, M
<1>5. CASE kind = "mem" /\ p = n - G - T /\ p \in 1..M
  <2>1. /\ Made(m, n).mem = p - 1 /\ Made(m, n + 1).mem = p
        /\ Made(m, n + 1).func = Made(m, n).func
        /\ Made(m, n + 1).global = Made(m, n).global
        /\ Made(m, n + 1).table = Made(m, n).table
        /\ n + 1 \in 1 .. G + T + M + 1
    BY <1>1, <1>2, <1>5
  <2> QED
    BY <1>5, <2>1 DEF MadeTurn, Kind, G, T, M
<1> QED
  BY <1>1, <1>3, <1>4, <1>5 DEF OwnEntry, G, T, M

\* Before the loops, and after them.
LEMMA MadeEnds ==
  ASSUME NEW m \in Module
  PROVE  /\ Made(m, 1).func = Len(m.funcs) /\ Made(m, 1).global = 0
         /\ Made(m, 1).table = 0 /\ Made(m, 1).mem = 0
         /\ LET last == Made(m, Len(m.globals) + Len(m.tables) + Len(m.mems) + 1) IN
            /\ last.func = Len(m.funcs) /\ last.global = Len(m.globals)
            /\ last.table = Len(m.tables) /\ last.mem = Len(m.mems)
<1> DEFINE G == Len(m.globals)
           T == Len(m.tables)
           M == Len(m.mems)
           z == G + T + M + 1
<1>1. G \in Nat /\ T \in Nat /\ M \in Nat
  BY PartsOk
<1>2. \A j : /\ Made(m, j).func = Len(m.funcs)
             /\ Made(m, j).global = (IF j <= G THEN j - 1 ELSE G)
             /\ Made(m, j).table = (IF j <= G THEN 0 ELSE IF j <= G + T THEN j - 1 - G ELSE T)
             /\ Made(m, j).mem = (IF j <= G + T THEN 0 ELSE j - 1 - G - T)
  BY DEF Made
<1> HIDE DEF G, T, M
<1>3. /\ Made(m, 1).func = Len(m.funcs) /\ Made(m, 1).global = 0
      /\ Made(m, 1).table = 0 /\ Made(m, 1).mem = 0
  BY <1>1, <1>2
<1>4. ~ (z <= G) /\ ~ (z <= G + T) /\ z - 1 - G - T = M
  BY <1>1
<1> HIDE DEF z
<1>5. /\ Made(m, z).func = Len(m.funcs) /\ Made(m, z).global = G
      /\ Made(m, z).table = T /\ Made(m, z).mem = M
  BY <1>2, <1>4
<1> QED
  BY <1>3, <1>5 DEF z, G, T, M

\* What the loops know of the instance under construction.
LEMMA AllocKnows ==
  ASSUME IInv, SoundInv, phase = "alloc"
  PROVE  /\ mod \in Module /\ ValidModule(mod) /\ inst \in Inst(Sizes) /\ Sizes \in SizeType
         /\ k \in Nat /\ Building
         /\ Fits(mod, inst.addrs, funcs, tables, mems, globals)
         /\ \A x \in Kind : /\ Len(inst.addrs[x]) = Len(ImportsOf(mod, x)) + Made(mod, k)[x]
                            /\ Len(inst.addrs[x]) \in Nat
         /\ Len(inst.addrs.func) = SpaceSize(mod, "func")
         /\ Len(inst.addrs.global) >= Len(ImportsOf(mod, "global"))
<1>1. /\ mod \in Module /\ inst \in Inst(Sizes) /\ Sizes \in SizeType /\ k \in Nat
  BY StoreAssumption, KnownOk DEF IInv, CallInv, InstancesInv
<1>2. /\ ValidModule(mod) /\ Fits(mod, inst.addrs, funcs, tables, mems, globals)
      /\ k \in 1 .. Len(mod.globals) + Len(mod.tables) + Len(mod.mems) + 1
      /\ \A x \in Kind : Len(inst.addrs[x]) = Len(ImportsOf(mod, x)) + Made(mod, k)[x]
  BY DEF SoundInv, LinkInv
<1>3. Len(inst.addrs.func) = SpaceSize(mod, "func")
  BY <1>1, <1>2, FuncSpaceOk DEF Made, Kind
<1>4. Len(inst.addrs.global) >= Len(ImportsOf(mod, "global"))
  <2>1. Len(inst.addrs.global) = Len(ImportsOf(mod, "global")) + Made(mod, k).global
    BY <1>2 DEF Kind
  <2>2. Made(mod, k).global >= 0 /\ Made(mod, k).global \in Int
    <3>1. Made(mod, k).global = (IF k <= Len(mod.globals) THEN k - 1 ELSE Len(mod.globals))
      BY DEF Made
    <3>2. Len(mod.globals) \in Nat /\ k >= 1
      BY <1>1, <1>2, PartsOk
    <3> QED
      BY <1>1, <3>1, <3>2
  <2>3. Len(ImportsOf(mod, "global")) \in Nat
    BY <1>1, ImportsOfOk
  <2> QED
    BY <2>1, <2>2, <2>3
<1>5. \A x \in Kind : Len(inst.addrs[x]) \in Nat
  BY <1>1, AddrsOk
<1> QED
  BY <1>1, <1>2, <1>3, <1>4, <1>5 DEF Building

\* One turn of the loops: the instance learns an address, and it is the one
\* of the next entry of the index space.
LEMMA AllocTurn ==
  ASSUME IInv, SoundInv, phase = "alloc", NEW kind, NEW p, OwnEntry(mod, k, kind, p),
         NEW a \in Nat, inst' = WithAddr(inst, kind, a), k' = k + 1,
         UNCHANGED <<funcs, phase, mod>>, PoolsKept(Sizes)
  PROVE  /\ k' \in 1 .. Len(mod.globals) + Len(mod.tables) + Len(mod.mems) + 1
         /\ \A x \in Kind : Len((inst').addrs[x]) = Len(ImportsOf(mod, x)) + Made(mod, k')[x]
         /\ Len(inst.addrs[kind]) + 1 = Len(ImportsOf(mod, kind)) + p
         /\ Fits(mod, inst.addrs, funcs', tables', mems', globals')
         /\ \A x \in Kind : /\ inst.addrs[x] \in Seq(Nat)
                            /\ (inst').addrs[x] = IF x = kind THEN Append(inst.addrs[x], a)
                                                  ELSE inst.addrs[x]
<1>0. kind \in Kind
  BY DEF OwnEntry, Kind
<1>1. /\ mod \in Module /\ inst \in Inst(Sizes) /\ Sizes \in SizeType /\ k \in Nat
      /\ Fits(mod, inst.addrs, funcs, tables, mems, globals)
      /\ \A x \in Kind : /\ Len(inst.addrs[x]) = Len(ImportsOf(mod, x)) + Made(mod, k)[x]
                         /\ Len(inst.addrs[x]) \in Nat
  BY AllocKnows
<1>2. MadeTurn(mod, k, kind, p)
  BY <1>1, MadeNext
<1>3. \A x \in Kind : (inst').addrs[x] = IF x = kind THEN Append(inst.addrs[x], a)
                                         ELSE inst.addrs[x]
  BY <1>0, <1>1, WithAddrAt
<1>4. \A x \in Kind : inst.addrs[x] \in Seq(Nat)
  <2>1. /\ inst.addrs.func \in Seq(1..Sizes.func) /\ inst.addrs.table \in Seq(1..Sizes.table)
        /\ inst.addrs.mem \in Seq(1..Sizes.mem) /\ inst.addrs.global \in Seq(1..Sizes.global)
    BY <1>1, AddrsOk
  <2>2. \A n : Seq(1..n) \subseteq Seq(Nat)
    <3>1. \A n : 1..n \subseteq Nat
      OBVIOUS
    <3> QED
      BY <3>1, SeqMono
  <2> QED
    BY <2>1, <2>2 DEF Kind
<1>5. p \in Int /\ Len(ImportsOf(mod, kind)) \in Nat
  <2>1. p \in Int
    <3>1. p \in DOMAIN mod.globals \/ p \in DOMAIN mod.tables \/ p \in DOMAIN mod.mems
      BY DEF OwnEntry
    <3> QED
      BY <1>1, <3>1, PartsOk
  <2> QED
    BY <1>1, <2>1, ImportsOfOk
<1>6. Len(inst.addrs[kind]) + 1 = Len(ImportsOf(mod, kind)) + p
  BY <1>0, <1>1, <1>2, <1>5 DEF MadeTurn
<1>7. \A x \in Kind : Len((inst').addrs[x]) = Len(ImportsOf(mod, x)) + Made(mod, k')[x]
  <2> TAKE x \in Kind
  <2>1. CASE x = kind
    <3>1. Len(Append(inst.addrs[kind], a)) = Len(inst.addrs[kind]) + 1
      BY <1>0, <1>4, AppendProperties
    <3>2. Made(mod, k')[kind] = p
      BY <1>2 DEF MadeTurn
    <3> QED
      BY <1>3, <1>6, <2>1, <3>1, <3>2
  <2>2. CASE x # kind
    BY <1>1, <1>2, <1>3, <2>2 DEF MadeTurn
  <2> QED
    BY <2>1, <2>2
<1>8. Fits(mod, inst.addrs, funcs', tables', mems', globals')
  <2>1. inst.addrs \in Addrs(Sizes)
    BY <1>1, AddrsOk
  <2> QED
    BY <1>1, <2>1, FitsKept DEF PoolsKept
<1> QED
  BY <1>2, <1>3, <1>4, <1>6, <1>7, <1>8 DEF MadeTurn

\* The module's functions come after the imported ones, as in its index space.
LEMMA AllocFuncsSound == IInv /\ SoundInv /\ AllocFuncs => SoundInv'
<1> SUFFICES ASSUME IInv, SoundInv, AllocFuncs
             PROVE  SoundInv'
  OBVIOUS
<1> DEFINE id   == Len(instances) + 1
           new  == [i \in DOMAIN mod.funcs |->
                      [ty |-> mod.types[mod.funcs[i]], inst |-> id]]
           adrs == [i \in DOMAIN mod.funcs |-> Len(funcs) + i]
           ad   == inst.addrs
           I    == ImportsOf(mod, "func")
<1>0. /\ phase = "import" /\ phase' = "alloc" /\ ~ Building
      /\ k = Len(mod.imports) + 1 /\ k' = 1 /\ mod \in Module /\ funcs' = funcs \o new
      /\ inst' = [inst EXCEPT !.addrs.func = @ \o adrs]
      /\ \A i \in DOMAIN mod.funcs : mod.funcs[i] \in DOMAIN mod.types
      /\ UNCHANGED <<tables, mems, globals, instances, code, mod, frames>>
  BY StoreAssumption DEF AllocFuncs, Building, runVars, IInv, CallInv
<1>1. /\ DOMAIN mod.funcs = 1..Len(mod.funcs) /\ Len(mod.funcs) \in Nat
      /\ Len(instances) \in Nat /\ Len(funcs) \in Nat
      /\ inst \in Inst(Sizes) /\ Sizes \in SizeType
  BY <1>0, PartsOk, KnownOk, SizesOk DEF IInv, InstancesInv
<1>2. \A i \in DOMAIN mod.types : mod.types[i] \in FuncType
  <2>1. mod.types \in Seq(FuncType)
    BY <1>0 DEF Module
  <2> QED
    BY <2>1, SeqAt
<1>3. new \in Seq(FuncInst(id)) /\ DOMAIN new = 1..Len(mod.funcs)
  <2>1. new \in [1..Len(mod.funcs) -> FuncInst(id)]
    BY <1>0, <1>1, <1>2 DEF FuncInst
  <2> HIDE DEF new, id
  <2> QED
    BY <1>1, <2>1, FunSeq
<1>4. /\ \A i \in DOMAIN new : new[i].inst \notin DOMAIN instances
      /\ \A i \in 1..Len(mod.funcs) : new[i].ty = mod.types[mod.funcs[i]]
  <2>1. id \notin DOMAIN instances
    <3>1. instances \in Seq(Inst(Known))
      BY DEF IInv, InstancesInv
    <3>2. DOMAIN instances = 1..Len(instances)
      BY <3>1, LenProperties
    <3> QED
      BY <1>1, <3>2
  <2> HIDE DEF id
  <2> QED
    BY <1>1, <2>1
<1> HIDE DEF new
<1>5. /\ ContentInv' /\ RunsInv' /\ CodeInv' /\ PoolsKept(Sizes)
      /\ \A i \in DOMAIN new : funcs'[Len(funcs) + i] = new[i]
  <2>1. id \in {Len(instances), Len(instances) + 1}
    OBVIOUS
  <2> HIDE DEF id
  <2> QED
    BY <1>0, <1>3, <1>4, <2>1, FuncsGrow
<1>6. /\ ValidModule(mod) /\ Fits(mod, ad, funcs, tables, mems, globals)
      /\ \A kind \in Kind : Len(ad[kind]) = Len(ImportsOf(mod, kind))
  <2>1. /\ ValidModule(mod) /\ Fits(mod, ad, funcs, tables, mems, globals)
        /\ \A kind \in Kind : Len(ad[kind]) = Len(ImportsUpTo(mod, kind)[k - 1])
    BY <1>0 DEF SoundInv, LinkInv
  <2>2. k - 1 = Len(mod.imports)
    <3>1. Len(mod.imports) \in Nat
      BY <1>0, ImportsUpToOk
    <3> QED
      BY <1>0, <3>1
  <2> QED
    BY <2>1, <2>2 DEF ImportsOf
<1>7. Fits(mod, ad, funcs', tables', mems', globals')
  <2>1. ad \in Addrs(Sizes)
    BY <1>1, AddrsOk
  <2> QED
    BY <1>0, <1>1, <1>5, <1>6, <2>1, FitsKept DEF PoolsKept
<1>8. /\ adrs \in Seq(Nat) /\ Len(adrs) = Len(mod.funcs) /\ ad.func \in Seq(Nat)
      /\ Len(ad.func) = Len(I) /\ Len(I) \in Nat
      /\ \A i \in 1..Len(mod.funcs) : adrs[i] = Len(funcs) + i
  <2>1. adrs \in [1..Len(mod.funcs) -> Nat]
    BY <1>1
  <2>2. adrs \in Seq(Nat) /\ Len(adrs) = Len(mod.funcs)
    BY <1>1, <2>1, FunSeq
  <2>3. ad.func \in Seq(Nat)
    <3>1. ad.func \in Seq(1..Sizes.func)
      BY <1>1, AddrsOk
    <3>2. Seq(1..Sizes.func) \subseteq Seq(Nat)
      <4>1. 1..Sizes.func \subseteq Nat
        OBVIOUS
      <4> QED
        BY <4>1, SeqMono
    <3> QED
      BY <3>1, <3>2
  <2>4. Len(ad.func) = Len(I) /\ Len(I) \in Nat
    BY <1>0, <1>6, ImportsOfOk DEF Kind
  <2> QED
    BY <1>1, <2>2, <2>3, <2>4
<1>9. /\ (inst').addrs.func = ad.func \o adrs /\ (inst').addrs.table = ad.table
      /\ (inst').addrs.mem = ad.mem /\ (inst').addrs.global = ad.global
  <2> HIDE DEF adrs
  <2>1. (inst').addrs = [ad EXCEPT !.func = @ \o adrs]
    BY <1>0, <1>1 DEF Inst
  <2>2. ad = [func |-> ad.func, table |-> ad.table, mem |-> ad.mem, global |-> ad.global]
    BY <1>1 DEF Inst, Addrs
  <2> HIDE DEF ad
  <2> QED
    BY <2>1, <2>2
<1> HIDE DEF adrs, I
<1> DEFINE f == ad.func
<1>10. /\ Len(ad.func \o adrs) = Len(I) + Len(mod.funcs)
       /\ DOMAIN (ad.func \o adrs) = 1..(Len(I) + Len(mod.funcs)) /\ DOMAIN ad.func = 1..Len(I)
       /\ \A i \in 1..(Len(I) + Len(mod.funcs)) :
            (ad.func \o adrs)[i] = IF i <= Len(I) THEN ad.func[i] ELSE adrs[i - Len(I)]
  <2>1. f \in Seq(Nat) /\ adrs \in Seq(Nat) /\ Len(f) = Len(I) /\ Len(adrs) = Len(mod.funcs)
    BY <1>8
  <2> HIDE DEF f
  <2>2. /\ Len(f \o adrs) = Len(I) + Len(mod.funcs) /\ f \o adrs \in Seq(Nat)
        /\ \A i \in 1..(Len(I) + Len(mod.funcs)) :
             (f \o adrs)[i] = IF i <= Len(I) THEN f[i] ELSE adrs[i - Len(I)]
    <3>1. /\ Len(f \o adrs) = Len(f) + Len(adrs) /\ f \o adrs \in Seq(Nat)
          /\ \A i \in 1..(Len(f) + Len(adrs)) :
               (f \o adrs)[i] = IF i <= Len(f) THEN f[i] ELSE adrs[i - Len(f)]
      BY ONLY <2>1, ConcatProperties
    <3> QED
      BY ONLY <2>1, <3>1
  <2>3. DOMAIN (f \o adrs) = 1..(Len(I) + Len(mod.funcs)) /\ DOMAIN f = 1..Len(I)
    BY <2>1, <2>2, LenProperties
  <2> QED
    BY <2>2, <2>3 DEF f
<1>11. FitsFunc(mod, (inst').addrs.func, funcs')
  <2> SUFFICES ASSUME NEW n \in 1..(Len(I) + Len(mod.funcs))
               PROVE  /\ n \in DOMAIN FuncSpace(mod)
                      /\ funcs'[(ad.func \o adrs)[n]].ty = mod.types[FuncSpace(mod)[n]]
    BY <1>9, <1>10 DEF FitsFunc
  <2>1. /\ DOMAIN FuncSpace(mod) = 1..(Len(I) + Len(mod.funcs))
        /\ \A i \in 1..Len(mod.funcs) : FuncSpace(mod)[Len(I) + i] = mod.funcs[i]
    BY <1>0, FuncSpaceOk DEF I
  <2>2. CASE n <= Len(I)
    <3>1. n \in DOMAIN ad.func
      BY <1>8, <1>10, <2>2
    <3> QED
      BY <1>7, <1>10, <2>1, <2>2, <3>1 DEF Fits, FitsFunc
  <2>3. CASE ~ (n <= Len(I))
    <3>1. n - Len(I) \in 1..Len(mod.funcs) /\ Len(I) + (n - Len(I)) = n
      BY <1>1, <1>8, <2>3
    <3>2. (ad.func \o adrs)[n] = Len(funcs) + (n - Len(I))
      BY <1>8, <1>10, <2>3, <3>1
    <3>3. funcs'[Len(funcs) + (n - Len(I))].ty = mod.types[mod.funcs[n - Len(I)]]
      BY <1>3, <1>4, <1>5, <3>1
    <3>4. FuncSpace(mod)[n] = mod.funcs[n - Len(I)]
      BY <2>1, <3>1
    <3> QED
      BY <2>1, <3>2, <3>3, <3>4
  <2> QED
    BY <2>2, <2>3
<1>12. Fits(mod, (inst').addrs, funcs', tables', mems', globals')
  BY <1>7, <1>9, <1>11 DEF Fits
<1>13. \A kind \in Kind : Len((inst').addrs[kind]) = Len(ImportsOf(mod, kind)) + Made(mod, 1)[kind]
  <2>1. /\ Made(mod, 1).func = Len(mod.funcs) /\ Made(mod, 1).global = 0
        /\ Made(mod, 1).table = 0 /\ Made(mod, 1).mem = 0
    BY <1>0, MadeEnds
  <2>2. \A kind \in Kind : Len(ImportsOf(mod, kind)) \in Nat
    BY <1>0, ImportsOfOk
  <2>3. Len((inst').addrs.func) = Len(ImportsOf(mod, "func")) + Made(mod, 1).func
    BY <1>9, <1>10, <2>1 DEF I
  <2>4. ASSUME NEW kind \in {"table", "mem", "global"}
        PROVE  Len((inst').addrs[kind]) = Len(ImportsOf(mod, kind)) + Made(mod, 1)[kind]
    <3>1. (inst').addrs[kind] = ad[kind] /\ Made(mod, 1)[kind] = 0 /\ kind \in Kind
      BY <1>9, <2>1 DEF Kind
    <3> QED
      BY <1>6, <2>2, <3>1
  <2> QED
    BY <2>3, <2>4 DEF Kind
<1>14. 1 \in 1 .. Len(mod.globals) + Len(mod.tables) + Len(mod.mems) + 1
  <2> DEFINE G == Len(mod.globals)
             T == Len(mod.tables)
             M == Len(mod.mems)
  <2>1. G \in Nat /\ T \in Nat /\ M \in Nat
    BY <1>0, PartsOk
  <2> HIDE DEF G, T, M
  <2>2. 1 <= G + T + M + 1 /\ G + T + M + 1 \in Int
    BY <2>1
  <2>3. 1 \in 1 .. G + T + M + 1
    BY <2>2
  <2> QED
    BY <2>3 DEF G, T, M
<1>15. LinkInv'
  <2>1. mod' = mod
    BY <1>0
  <2> QED
    BY <1>0, <1>6, <1>12, <1>13, <1>14, <2>1 DEF LinkInv
<1> QED
  BY <1>5, <1>15 DEF SoundInv

\* What a turn of the allocation loops leaves to show: the new entry is what
\* the index space says.
LEMMA AllocSound ==
  ASSUME IInv, SoundInv, phase = "alloc", NEW kind, NEW p, OwnEntry(mod, k, kind, p),
         NEW a \in Nat, inst' = WithAddr(inst, kind, a), k' = k + 1,
         UNCHANGED <<funcs, instances, code, phase, mod, frames>>, ContentInv',
         \A x \in 1..Len(tables) : tables'[x] = tables[x],
         \A x \in 1..Len(mems) : mems'[x] = mems[x],
         \A x \in 1..Len(globals) : globals'[x] = globals[x],
         \/ /\ kind = "global"
            /\ globals'[a].ty = mod.globals[p].ty
         \/ /\ kind = "table"
            /\ tables'[a].ty = mod.tables[p] /\ Len(tables'[a].elems) = mod.tables[p].limits.min
         \/ /\ kind = "mem"
            /\ mems'[a].ty = mod.mems[p] /\ mems'[a].pages = mod.mems[p].limits.min
  PROVE  SoundInv'
<1> DEFINE ad == inst.addrs
           q  == Len(ad[kind]) + 1
<1>0. PoolsKept(Sizes)
  BY GrowKept
<1>1. /\ k' \in 1 .. Len(mod.globals) + Len(mod.tables) + Len(mod.mems) + 1
      /\ \A x \in Kind : Len((inst').addrs[x]) = Len(ImportsOf(mod, x)) + Made(mod, k')[x]
      /\ q = Len(ImportsOf(mod, kind)) + p
      /\ Fits(mod, ad, funcs', tables', mems', globals')
      /\ \A x \in Kind : /\ ad[x] \in Seq(Nat)
                         /\ (inst').addrs[x] = IF x = kind THEN Append(ad[x], a) ELSE ad[x]
  BY <1>0, AllocTurn
<1>2. mod \in Module /\ ValidModule(mod) /\ Building
  BY AllocKnows
<1>3. Len(ImportsOf(mod, kind)) \in Nat
  BY <1>2, ImportsOfOk
<1>4. p \in 1..Len(mod.globals) \/ kind # "global"
  BY <1>2, PartsOk DEF OwnEntry
<1>5. p \in 1..Len(mod.tables) \/ kind # "table"
  BY <1>2, PartsOk DEF OwnEntry
<1>6. p \in 1..Len(mod.mems) \/ kind # "mem"
  BY <1>2, PartsOk DEF OwnEntry
<1>7. Fits(mod, (inst').addrs, funcs', tables', mems', globals')
  <2>1. CASE kind = "global" /\ globals'[a].ty = mod.globals[p].ty
    <3>1. /\ (inst').addrs.func = ad.func /\ (inst').addrs.table = ad.table
          /\ (inst').addrs.mem = ad.mem /\ (inst').addrs.global = Append(ad.global, a)
          /\ ad.global \in Seq(Nat)
      BY <1>1, <2>1 DEF Kind
    <3>2. q \in DOMAIN GlobalSpace(mod) /\ GlobalSpace(mod)[q] = mod.globals[p].ty
      <4>1. /\ DOMAIN GlobalSpace(mod) = 1..(Len(ImportsOf(mod, kind)) + Len(mod.globals))
            /\ \A n \in 1..Len(mod.globals) :
                 GlobalSpace(mod)[Len(ImportsOf(mod, kind)) + n] = mod.globals[n].ty
        BY <1>2, <2>1, GlobalSpaceOk
      <4>2. Len(mod.globals) \in Nat
        BY <1>2, PartsOk
      <4>3. p \in 1..Len(mod.globals) /\ q = Len(ImportsOf(mod, kind)) + p
        BY <1>1, <1>4, <2>1
      <4> HIDE DEF q
      <4>4. q \in 1..(Len(ImportsOf(mod, kind)) + Len(mod.globals))
        BY <1>3, <4>2, <4>3
      <4> QED
        BY <4>1, <4>3, <4>4
    <3>3. FitsGlobal(mod, Append(ad.global, a), globals')
      BY <1>1, <2>1, <3>1, <3>2, FitsGlobalAppend DEF Fits
    <3> QED
      BY <1>1, <3>1, <3>3 DEF Fits
  <2>2. CASE /\ kind = "table"
             /\ tables'[a].ty = mod.tables[p]
             /\ Len(tables'[a].elems) = mod.tables[p].limits.min
    <3>1. /\ (inst').addrs.func = ad.func /\ (inst').addrs.global = ad.global
          /\ (inst').addrs.mem = ad.mem /\ (inst').addrs.table = Append(ad.table, a)
          /\ ad.table \in Seq(Nat)
      BY <1>1, <2>2 DEF Kind
    <3>2. /\ q \in DOMAIN TableSpace(mod) /\ TableSpace(mod)[q] = mod.tables[p]
          /\ mod.tables[p] \in TableType
      <4>1. /\ DOMAIN TableSpace(mod) = 1..(Len(ImportsOf(mod, kind)) + Len(mod.tables))
            /\ \A n \in 1..Len(mod.tables) :
                 TableSpace(mod)[Len(ImportsOf(mod, kind)) + n] = mod.tables[n]
        BY <1>2, <2>2, TableSpaceOk
      <4>2. Len(mod.tables) \in Nat /\ mod.tables \in Seq(TableType)
        BY <1>2, PartsOk DEF Module
      <4>3. p \in 1..Len(mod.tables) /\ q = Len(ImportsOf(mod, kind)) + p
        BY <1>1, <1>5, <2>2
      <4> HIDE DEF q
      <4>4. q \in 1..(Len(ImportsOf(mod, kind)) + Len(mod.tables))
        BY <1>3, <4>2, <4>3
      <4>5. mod.tables[p] \in TableType
        BY <4>2, <4>3, ElementOfSeq
      <4> QED
        BY <4>1, <4>3, <4>4, <4>5
    <3>3. Satisfies(mod.tables[p].limits.min, mod.tables[p].limits.max, mod.tables[p].limits)
      BY <3>2 DEF Satisfies, TableType, Limits, NoMax
    <3>4. FitsTable(mod, Append(ad.table, a), tables')
      BY <1>1, <2>2, <3>1, <3>2, <3>3, FitsTableAppend DEF Fits
    <3> QED
      BY <1>1, <3>1, <3>4 DEF Fits
  <2>3. CASE /\ kind = "mem"
             /\ mems'[a].ty = mod.mems[p] /\ mems'[a].pages = mod.mems[p].limits.min
    <3>1. /\ (inst').addrs.func = ad.func /\ (inst').addrs.global = ad.global
          /\ (inst').addrs.table = ad.table /\ (inst').addrs.mem = Append(ad.mem, a)
          /\ ad.mem \in Seq(Nat)
      BY <1>1, <2>3 DEF Kind
    <3>2. /\ q \in DOMAIN MemSpace(mod) /\ MemSpace(mod)[q] = mod.mems[p]
          /\ mod.mems[p] \in MemType
      <4>1. /\ DOMAIN MemSpace(mod) = 1..(Len(ImportsOf(mod, kind)) + Len(mod.mems))
            /\ \A n \in 1..Len(mod.mems) :
                 MemSpace(mod)[Len(ImportsOf(mod, kind)) + n] = mod.mems[n]
        BY <1>2, <2>3, MemSpaceOk
      <4>2. Len(mod.mems) \in Nat /\ mod.mems \in Seq(MemType)
        BY <1>2, PartsOk DEF Module
      <4>3. p \in 1..Len(mod.mems) /\ q = Len(ImportsOf(mod, kind)) + p
        BY <1>1, <1>6, <2>3
      <4> HIDE DEF q
      <4>4. q \in 1..(Len(ImportsOf(mod, kind)) + Len(mod.mems))
        BY <1>3, <4>2, <4>3
      <4>5. mod.mems[p] \in MemType
        BY <4>2, <4>3, ElementOfSeq
      <4> QED
        BY <4>1, <4>3, <4>4, <4>5
    <3>3. Satisfies(mod.mems[p].limits.min, mod.mems[p].limits.max, mod.mems[p].limits)
      BY <3>2 DEF Satisfies, MemType, Limits, NoMax
    <3>4. FitsMem(mod, Append(ad.mem, a), mems')
      BY <1>1, <2>3, <3>1, <3>2, <3>3, FitsMemAppend DEF Fits
    <3> QED
      BY <1>1, <3>1, <3>4 DEF Fits
  <2> QED
    BY <2>1, <2>2, <2>3
<1>8. LinkInv'
  BY <1>1, <1>2, <1>7 DEF LinkInv
<1> QED
  BY <1>2, <1>8, GrowSound

\* A global's initializer has the global's type.
LEMMA AllocGlobalSound == IInv /\ SoundInv /\ AllocGlobal => SoundInv'
<1> SUFFICES ASSUME IInv, SoundInv, AllocGlobal
             PROVE  SoundInv'
  OBVIOUS
<1> DEFINE g == mod.globals[k]
           e == [ty |-> g.ty, val |-> EvalConst(inst, g.init)]
           a == Len(globals) + 1
<1>0. /\ phase = "alloc" /\ k \in DOMAIN mod.globals
      /\ Evaluable(inst, g.init) /\ globals' = Append(globals, e) /\ k' = k + 1
      /\ inst' = WithAddr(inst, "global", a)
      /\ UNCHANGED <<funcs, tables, mems, instances, code, phase, mod, frames>>
  BY DEF AllocGlobal, runVars
<1>1. /\ mod \in Module /\ ValidModule(mod) /\ inst \in Inst(Sizes) /\ Sizes \in SizeType
      /\ Fits(mod, inst.addrs, funcs, tables, mems, globals)
      /\ Len(inst.addrs.func) = SpaceSize(mod, "func")
      /\ Len(inst.addrs.global) >= Len(ImportsOf(mod, "global"))
  BY <1>0, AllocKnows
<1>2. g \in [ty : GlobalType, init : ConstExpr]
  <2>1. mod.globals \in Seq([ty : GlobalType, init : ConstExpr])
    BY <1>1 DEF Module
  <2> QED
    BY <1>0, <2>1, SeqAt
<1>3. /\ e \in GlobalInst(Len(funcs)) /\ e.ty = g.ty
      /\ e.val = EvalConst(inst, g.init)
  <2>1. EvalConst(inst, g.init) \in RefValue(Len(funcs))
    BY <1>0, <1>1, <1>2, EvalConstOk DEF IInv
  <2> QED
    BY <1>2, <2>1 DEF GlobalInst
<1>4. EvalConst(inst, g.init).ty = g.ty.val
  <2>1. ConstExprOk(mod, g.init, g.ty.val)
    BY <1>0, <1>1 DEF ValidModule
  <2>2. PoolsInv /\ StoreTyped /\ FitsGlobal(mod, inst.addrs.global, globals)
    BY <1>1 DEF IInv, SoundInv, ContentInv, Fits
  <2> QED
    BY <1>1, <1>2, <2>1, <2>2, EvalTyped
<1>5. a \in Nat /\ globals'[a] = e
  <2>1. globals \in Seq(GlobalInst(Len(funcs)))
    BY DEF IInv, PoolsInv
  <2> HIDE DEF e
  <2> QED
    BY <1>0, <1>3, <2>1, AppendProperties, LenProperties
<1>6. /\ ContentInv'
      /\ \A x \in 1..Len(tables) : tables'[x] = tables[x]
      /\ \A x \in 1..Len(mems) : mems'[x] = mems[x]
      /\ \A x \in 1..Len(globals) : globals'[x] = globals[x]
  <2>1. \E x : /\ globals' = Append(globals, x) /\ x \in GlobalInst(Len(funcs))
               /\ x.val.ty = x.ty.val
    <3>1. e.val.ty = e.ty.val
      BY <1>3, <1>4
    <3> HIDE DEF e
    <3> QED
      BY <1>0, <1>3, <3>1
  <2> QED
    BY <1>0, <2>1, GrowContent
<1>7. OwnEntry(mod, k, "global", k)
  BY <1>0 DEF OwnEntry
<1>8. globals'[a].ty = mod.globals[k].ty
  BY <1>3, <1>5
<1> HIDE DEF e, a
<1> QED
  BY <1>0, <1>5, <1>6, <1>7, <1>8, AllocSound

\* A table starts with its minimum, or the call is rolled back.
LEMMA AllocTableSound == IInv /\ SoundInv /\ AllocTable => SoundInv'
<1> SUFFICES ASSUME IInv, SoundInv, AllocTable
             PROVE  SoundInv'
  OBVIOUS
<1> DEFINE i == k - Len(mod.globals)
           t == mod.tables[i]
           e == NewTable(t)
           a == Len(tables) + 1
<1>0. phase = "alloc" /\ Building /\ i \in DOMAIN mod.tables
  BY DEF AllocTable, Building
<1>1. mod \in Module /\ ValidModule(mod)
  BY <1>0, AllocKnows
<1>2. t \in TableType /\ TableTypeOk(t)
  <2>1. mod.tables \in Seq(TableType)
    BY <1>1 DEF Module
  <2>2. /\ i \in 1..Len(mod.tables) /\ Len(mod.tables) \in Nat /\ t \in TableType
    BY <1>0, <2>1, SeqAt
  <2>3. /\ DOMAIN TableSpace(mod) = 1..(Len(ImportsOf(mod, "table")) + Len(mod.tables))
        /\ TableSpace(mod)[Len(ImportsOf(mod, "table")) + i] = t
        /\ Len(ImportsOf(mod, "table")) \in Nat
    BY <1>1, <2>2, TableSpaceOk
  <2> HIDE DEF i, t
  <2>4. Len(ImportsOf(mod, "table")) + i \in DOMAIN TableSpace(mod)
    BY <2>2, <2>3
  <2> QED
    BY <1>1, <2>2, <2>3, <2>4 DEF ValidModule, TypesOk
<1>3. CASE /\ t.limits.min <= TABLE_IMPL_LIMIT
           /\ tables' = Append(tables, e)
           /\ inst' = WithAddr(inst, "table", a)
           /\ k' = k + 1
           /\ UNCHANGED <<funcs, mems, globals, instances, code, phase, mod, frames>>
  <2>1. /\ e \in TableInst(Len(funcs)) /\ TableMade(e)
        /\ e.ty = t /\ Len(e.elems) = t.limits.min
    BY <1>2, <1>3, NewTableOk, NewTableMade, SizesOk DEF IInv
  <2> HIDE DEF e
  <2>2. a \in Nat /\ tables'[a] = e
    <3>1. tables \in Seq(TableInst(Len(funcs)))
      BY DEF IInv, PoolsInv
    <3> QED
      BY <1>3, <2>1, <3>1, AppendProperties, LenProperties
  <2>3. /\ ContentInv'
        /\ \A x \in 1..Len(tables) : tables'[x] = tables[x]
        /\ \A x \in 1..Len(mems) : mems'[x] = mems[x]
        /\ \A x \in 1..Len(globals) : globals'[x] = globals[x]
    <3>1. \E x : tables' = Append(tables, x) /\ x \in TableInst(Len(funcs)) /\ TableMade(x)
      BY <1>3, <2>1
    <3> QED
      BY <1>3, <3>1, GrowContent
  <2>4. OwnEntry(mod, k, "table", i)
    BY <1>0 DEF OwnEntry
  <2>5. tables'[a].ty = mod.tables[i] /\ Len(tables'[a].elems) = mod.tables[i].limits.min
    BY <2>1, <2>2
  <2> HIDE DEF a, i
  <2> QED
    BY <1>0, <1>3, <2>2, <2>3, <2>4, <2>5, AllocSound
<1>4. CASE Rollback
  BY <1>0, <1>4, RollbackSound
<1> QED
  BY <1>3, <1>4 DEF AllocTable, runVars

\* A memory starts with its minimum, or the call is rolled back.
LEMMA AllocMemSound == IInv /\ SoundInv /\ AllocMem => SoundInv'
<1> SUFFICES ASSUME IInv, SoundInv, AllocMem
             PROVE  SoundInv'
  OBVIOUS
<1> DEFINE i == k - Len(mod.globals) - Len(mod.tables)
           t == mod.mems[i]
           e == [ty |-> t, pages |-> t.limits.min]
           a == Len(mems) + 1
<1>0. phase = "alloc" /\ Building /\ i \in DOMAIN mod.mems
  BY DEF AllocMem, Building
<1>1. mod \in Module /\ ValidModule(mod)
  BY <1>0, AllocKnows
<1>2. t \in MemType /\ MemTypeOk(t)
  <2>1. mod.mems \in Seq(MemType)
    BY <1>1 DEF Module
  <2>2. /\ i \in 1..Len(mod.mems) /\ Len(mod.mems) \in Nat /\ t \in MemType
    BY <1>0, <2>1, SeqAt
  <2>3. /\ DOMAIN MemSpace(mod) = 1..(Len(ImportsOf(mod, "mem")) + Len(mod.mems))
        /\ MemSpace(mod)[Len(ImportsOf(mod, "mem")) + i] = t
        /\ Len(ImportsOf(mod, "mem")) \in Nat
    BY <1>1, <2>2, MemSpaceOk
  <2> HIDE DEF i, t
  <2>4. Len(ImportsOf(mod, "mem")) + i \in DOMAIN MemSpace(mod)
    BY <2>2, <2>3
  <2> QED
    BY <1>1, <2>2, <2>3, <2>4 DEF ValidModule, TypesOk
<1>3. CASE /\ mems' = Append(mems, e)
           /\ inst' = WithAddr(inst, "mem", a)
           /\ k' = k + 1
           /\ UNCHANGED <<funcs, tables, globals, instances, code, phase, mod, frames>>
  <2>1. e \in MemInst /\ MemWithin(e) /\ e.ty = t /\ e.pages = t.limits.min
    BY <1>2 DEF MemInst, MemType, Limits, LimitsOk, MemWithin, MemTypeOk
  <2> HIDE DEF e
  <2>2. a \in Nat /\ mems'[a] = e
    <3>1. mems \in Seq(MemInst)
      BY DEF IInv, PoolsInv
    <3> QED
      BY <1>3, <2>1, <3>1, AppendProperties, LenProperties
  <2>3. /\ ContentInv'
        /\ \A x \in 1..Len(tables) : tables'[x] = tables[x]
        /\ \A x \in 1..Len(mems) : mems'[x] = mems[x]
        /\ \A x \in 1..Len(globals) : globals'[x] = globals[x]
    <3>1. \E x : mems' = Append(mems, x) /\ x \in MemInst /\ MemWithin(x)
      BY <1>3, <2>1
    <3> QED
      BY <1>3, <3>1, GrowContent
  <2>4. OwnEntry(mod, k, "mem", i)
    BY <1>0 DEF OwnEntry
  <2>5. mems'[a].ty = mod.mems[i] /\ mems'[a].pages = mod.mems[i].limits.min
    BY <2>1, <2>2
  <2> HIDE DEF a, i
  <2> QED
    BY <1>0, <1>3, <2>2, <2>3, <2>4, <2>5, AllocSound
<1>4. CASE Rollback
  BY <1>0, <1>4, RollbackSound
<1> QED
  BY <1>3, <1>4 DEF AllocMem, runVars

\* After the loops the address vectors cover the index spaces.
LEMMA LoopsComplete ==
  ASSUME NEW ad, mod \in Module,
         k = Len(mod.globals) + Len(mod.tables) + Len(mod.mems) + 1,
         \A x \in Kind : Len(ad[x]) = Len(ImportsOf(mod, x)) + Made(mod, k)[x]
  PROVE  Complete(mod, ad)
<1>1. /\ Made(mod, k).func = Len(mod.funcs) /\ Made(mod, k).global = Len(mod.globals)
      /\ Made(mod, k).table = Len(mod.tables) /\ Made(mod, k).mem = Len(mod.mems)
  BY MadeEnds
<1>2. /\ SpaceSize(mod, "func") = Len(ImportsOf(mod, "func")) + Len(mod.funcs)
      /\ SpaceSize(mod, "table") = Len(ImportsOf(mod, "table")) + Len(mod.tables)
      /\ SpaceSize(mod, "mem") = Len(ImportsOf(mod, "mem")) + Len(mod.mems)
      /\ SpaceSize(mod, "global") = Len(ImportsOf(mod, "global")) + Len(mod.globals)
  BY FuncSpaceOk, TableSpaceOk, MemSpaceOk, GlobalSpaceOk
<1> QED
  BY <1>1, <1>2 DEF Complete, Kind

\* The published instance has all of its module's index spaces, and segments
\* of the types they declare.
LEMMA PublishInstanceSound == IInv /\ SoundInv /\ PublishInstance => SoundInv'
<1> SUFFICES ASSUME IInv, SoundInv, PublishInstance
             PROVE  SoundInv'
  OBVIOUS
<1> DEFINE els == [i \in DOMAIN mod.elems |->
                     [j \in DOMAIN mod.elems[i].init |->
                        EvalConst(inst, mod.elems[i].init[j])]]
           das == [i \in DOMAIN mod.datas |-> mod.datas[i].len]
           exs == [i \in DOMAIN mod.exports |->
                     LET x == mod.exports[i] IN
                     [name |-> x.name,
                      ev |-> [kind |-> x.kind, addr |-> inst.addrs[x.kind][x.idx]]]]
           in  == [exports |-> exs, addrs |-> inst.addrs, elems |-> els, datas |-> das]
<1>0. /\ phase = "alloc" /\ phase' = "segments"
      /\ k = Len(mod.globals) + Len(mod.tables) + Len(mod.mems) + 1
      /\ inst' = EmptyInstance /\ Publish(in)
      /\ UNCHANGED <<funcs, tables, mems, globals, mod, frames>>
  BY DEF PublishInstance, runVars
<1> HIDE DEF els, das, exs
<1>00. in.addrs = inst.addrs /\ in.elems = els
  OBVIOUS
<1> HIDE DEF in
<1>1. /\ mod \in Module /\ ValidModule(mod) /\ inst \in Inst(Sizes) /\ Building
      /\ Fits(mod, inst.addrs, funcs, tables, mems, globals)
      /\ \A x \in Kind : Len(inst.addrs[x]) = Len(ImportsOf(mod, x)) + Made(mod, k)[x]
      /\ Len(inst.addrs.func) = SpaceSize(mod, "func")
      /\ Len(inst.addrs.global) >= Len(ImportsOf(mod, "global"))
  BY <1>0, AllocKnows
<1>2. Complete(mod, inst.addrs)
  BY <1>0, <1>1, LoopsComplete
<1>3. SegmentsTyped(mod, els)
  <2>1. ASSUME NEW i \in DOMAIN mod.elems, NEW j \in DOMAIN mod.elems[i].init
        PROVE  EvalConst(inst, mod.elems[i].init[j]).ty = mod.elems[i].ty
    <3>1. mod.elems[i] \in Elem
      <4>1. mod.elems \in Seq(Elem)
        BY <1>1 DEF Module
      <4> QED
        BY <4>1, SeqAt
    <3>2. mod.elems[i].init[j] \in ConstExpr
      <4>1. mod.elems[i].init \in Seq(ConstExpr)
        BY <3>1 DEF Elem
      <4> QED
        BY <4>1, SeqAt
    <3>3. ConstExprOk(mod, mod.elems[i].init[j], mod.elems[i].ty)
      BY <1>1 DEF ValidModule, ElemOk
    <3>4. PoolsInv /\ StoreTyped /\ FitsGlobal(mod, inst.addrs.global, globals)
      BY <1>1 DEF IInv, SoundInv, ContentInv, Fits
    <3> QED
      BY <1>1, <3>2, <3>3, <3>4, EvalTyped
  <2> QED
    BY <2>1 DEF SegmentsTyped, els
<1>4. Runs(in, mod, funcs, tables, mems, globals)
  BY <1>00, <1>1, <1>2, <1>3 DEF Runs
<1>5. frames' = <<>>
  BY <1>0 DEF IInv, MachineInv
<1>6. ContentInv' /\ RunsInv' /\ CodeInv' /\ code'[Len(instances')] = mod
  BY <1>0, <1>1, <1>4, <1>5, PublishSound
<1>7. LinkInv'
  BY <1>0, <1>1, <1>6 DEF LinkInv
<1> QED
  BY <1>6, <1>7 DEF SoundInv

-----------------------------------------------------------------------------
(* What linking found goes on holding.                                     *)

\* The empty store is sound.
LEMMA InitSound == Init => SoundInv
<1> SUFFICES ASSUME Init
             PROVE  SoundInv
  OBVIOUS
<1>1. ContentInv
  BY DEF Init, ContentInv, StoreTyped
<1>2. RunsInv
  BY DEF Init, RunsInv
<1>3. CodeInv
  BY DEF Init, CodeInv
<1>4. LinkInv
  BY DEF Init, LinkInv
<1> QED
  BY <1>1, <1>2, <1>3, <1>4 DEF SoundInv

\* Every step keeps the store sound.
LEMMA NextSound == IInv /\ SoundInv /\ [Next]_vars => SoundInv'
<1> SUFFICES ASSUME IInv, SoundInv, [Next]_vars
             PROVE  SoundInv'
  OBVIOUS
<1>0. IInv'
  BY NextOk
<1>1. CASE AddHostModule \/ Instantiate \/ InvokeExport
  BY <1>1, AddHostModuleSound, InstantiateSound, InvokeExportSound
<1>2. CASE Advance
  BY <1>0, <1>2, HostGlobalSound, HostTableSound, HostMemSound, PublishHostSound,
     ResolveImportSound, AllocFuncsSound, AllocGlobalSound, AllocTableSound, AllocMemSound,
     PublishInstanceSound, ApplyElemSound, ApplyDataSound, RunStartSound
  DEF Advance
<1>3. CASE Instruction
  <2>1. CASE RefFunc \/ GlobalGet \/ TableGet
    <3>1. phase = "run" /\ UNCHANGED <<storeVars, frames>> /\ Executed
      BY <2>1 DEF RefFunc, GlobalGet, TableGet, Running
    <3> QED
      BY <3>1, StackSound
  <2>2. CASE Trap
    BY <2>2, EndSound DEF Trap, Trapped
  <2> QED
    BY <1>0, <1>3, <2>1, <2>2, GlobalSetSound, TableFillSound, TableInitSound,
       TableCopySound, TableGrowSound, MemoryGrowSound, DropSegmentSound,
       CallSound, CallIndirectSound, ReturnSound
    DEF Instruction
<1>4. CASE UNCHANGED vars
  <2>1. UNCHANGED storeVars /\ UNCHANGED <<phase, mod, inst, k, frames>>
    BY <1>4 DEF vars, callVars, runVars
  <2>2. UNCHANGED <<funcs, tables, mems, globals, instances, code>>
    BY <2>1 DEF storeVars
  <2>3. ContentInv'
    BY <2>2, ContentSame DEF SoundInv
  <2>4. RunsInv'
    BY <2>2 DEF SoundInv, RunsInv
  <2>5. CodeInv'
    BY <2>1, <2>2 DEF SoundInv, CodeInv
  <2>6. LinkInv'
    BY <2>1, <2>2 DEF SoundInv, LinkInv
  <2> QED
    BY <2>3, <2>4, <2>5, <2>6 DEF SoundInv
<1> QED
  BY <1>1, <1>2, <1>3, <1>4 DEF Next

\* What the properties of linking follow from: in every reachable state the
\* store is well-formed and every instance of a validated module (store.rs,
\* instantiate) has the index spaces it was validated with.
THEOREM StoreSoundInv == Spec => [](IInv /\ SoundInv)
<1>1. Init => IInv /\ SoundInv
  BY InitOk, InitSound
<1>2. IInv /\ SoundInv /\ [Next]_vars => (IInv /\ SoundInv)'
  BY NextOk, NextSound
<1> QED
  BY <1>1, <1>2, PTL DEF Spec

\* Every global and every table element has the type its place declares, so
\* the typed pops of validated code (exec.rs) never meet a value of another
\* type, whichever module wrote it.
THEOREM ContentsAreTyped == Spec => []StoreTyped
<1>1. SoundInv => StoreTyped
  BY DEF SoundInv, ContentInv
<1> QED
  BY <1>1, StoreSoundInv, PTL

\* A complete instance has an address for each index of its code.
LEMMA HasSpaces ==
  ASSUME NEW z \in SizeType, NEW in \in Inst(z), NEW m \in Module, Complete(m, in.addrs)
  PROVE  /\ DOMAIN in.addrs.func = DOMAIN FuncSpace(m)
         /\ DOMAIN in.addrs.table = DOMAIN TableSpace(m)
         /\ DOMAIN in.addrs.mem = DOMAIN MemSpace(m)
         /\ DOMAIN in.addrs.global = DOMAIN GlobalSpace(m)
         /\ \A x \in Kind : DOMAIN in.addrs[x] = 1..SpaceSize(m, x)
         /\ Len(in.addrs.func) = SpaceSize(m, "func")
         /\ Len(in.addrs.global) >= Len(ImportsOf(m, "global"))
<1>1. \A x \in Kind : DOMAIN in.addrs[x] = 1..SpaceSize(m, x) /\ Len(in.addrs[x]) = SpaceSize(m, x)
  BY AddrsOk DEF Complete
<1>2. /\ DOMAIN FuncSpace(m) = 1..SpaceSize(m, "func")
      /\ DOMAIN TableSpace(m) = 1..SpaceSize(m, "table")
      /\ DOMAIN MemSpace(m) = 1..SpaceSize(m, "mem")
      /\ DOMAIN GlobalSpace(m) = 1..SpaceSize(m, "global")
      /\ SpaceSize(m, "global") = Len(ImportsOf(m, "global")) + Len(m.globals)
      /\ Len(ImportsOf(m, "global")) \in Nat /\ Len(m.globals) \in Nat
  BY FuncSpaceOk, TableSpaceOk, MemSpaceOk, GlobalSpaceOk
<1>3. SpaceSize(m, "global") >= Len(ImportsOf(m, "global"))
  BY <1>2
<1> QED
  BY <1>1, <1>2, <1>3 DEF Kind

\* A published instance is a host's, or runs the code of a module.
LEMMA CodeOf ==
  ASSUME IInv, SoundInv, NEW i \in DOMAIN instances, ~ IsHost(code[i])
  PROVE  /\ code[i] \in Module /\ ValidModule(code[i])
         /\ instances[i] \in Inst(Known) /\ Known \in SizeType /\ Leq(Known, Sizes)
         /\ Fits(code[i], instances[i].addrs, funcs, tables, mems, globals)
         /\ Complete(code[i], instances[i].addrs)
<1>1. /\ instances \in Seq(Inst(Known)) /\ code \in Seq(Modules \union HostModules)
      /\ Len(code) = Len(instances) /\ Known \in SizeType /\ Leq(Known, Sizes)
  BY KnownOk DEF IInv, InstancesInv
<1>2. i \in DOMAIN code /\ instances[i] \in Inst(Known)
  BY <1>1, SeqAt, LenProperties
<1>3. code[i] \in Modules
  <2>1. code[i] \in Modules \union HostModules
    BY <1>1, <1>2, SeqAt
  <2> QED
    BY <2>1, HostIsNoModule
<1>4. Runs(instances[i], code[i], funcs, tables, mems, globals)
  BY DEF SoundInv, RunsInv
<1> QED
  BY <1>1, <1>2, <1>3, <1>4, StoreAssumption DEF Runs

\* What an import was matched against (store.rs, import matching in
\* instantiate) stays true for ever: whatever other instances grow or write,
\* the entity keeps the imported type and a size the import accepts, and no
\* table or memory outgrows its maximum or the implementation's limit.
THEOREM ImportsAlwaysHold == Spec => []ImportsHold
<1>1. IInv /\ SoundInv => ImportsHold
  <2> SUFFICES ASSUME IInv, SoundInv
               PROVE  ImportsHold
    OBVIOUS
  <2>1. \A a \in DOMAIN tables : TableWithin(tables[a])
    BY DEF SoundInv, ContentInv
  <2>2. \A a \in DOMAIN mems : MemWithin(mems[a])
    BY DEF SoundInv, ContentInv
  <2>3. ASSUME NEW i \in DOMAIN instances, ~ IsHost(code[i])
        PROVE  LET addrs == instances[i].addrs
                   Wants(kind) == ImportsOf(code[i], kind)
               IN
               /\ \A n \in DOMAIN Wants("func") :
                    funcs[addrs.func[n]].ty = code[i].types[Wants("func")[n].idx]
               /\ \A n \in DOMAIN Wants("global") :
                    globals[addrs.global[n]].ty = Wants("global")[n].ty
               /\ \A n \in DOMAIN Wants("table") :
                    LET t == tables[addrs.table[n]] IN
                    /\ t.ty.elem = Wants("table")[n].ty.elem
                    /\ Satisfies(Len(t.elems), t.ty.limits.max, Wants("table")[n].ty.limits)
               /\ \A n \in DOMAIN Wants("mem") :
                    LET m == mems[addrs.mem[n]] IN
                    Satisfies(m.pages, m.ty.limits.max, Wants("mem")[n].ty.limits)
    <3> DEFINE m  == code[i]
               ad == instances[i].addrs
    <3>1. /\ m \in Module /\ instances[i] \in Inst(Known) /\ Known \in SizeType
          /\ Fits(m, ad, funcs, tables, mems, globals) /\ Complete(m, ad)
      BY <2>3, CodeOf
    <3>2. /\ DOMAIN ad.func = DOMAIN FuncSpace(m) /\ DOMAIN ad.table = DOMAIN TableSpace(m)
          /\ DOMAIN ad.mem = DOMAIN MemSpace(m) /\ DOMAIN ad.global = DOMAIN GlobalSpace(m)
      BY <3>1, HasSpaces
    <3> HIDE DEF m, ad
    <3>3. \A kind : DOMAIN ImportsOf(m, kind) = 1..Len(ImportsOf(m, kind))
      BY <3>1, ImportsOfOk
    <3>4. ASSUME NEW n \in DOMAIN ImportsOf(m, "func")
          PROVE  funcs[ad.func[n]].ty = m.types[ImportsOf(m, "func")[n].idx]
      <4>1. n \in DOMAIN FuncSpace(m) /\ FuncSpace(m)[n] = ImportsOf(m, "func")[n].idx
        BY <3>1, <3>3, FuncSpaceOk
      <4> QED
        BY <3>1, <3>2, <4>1 DEF Fits, FitsFunc
    <3>5. ASSUME NEW n \in DOMAIN ImportsOf(m, "global")
          PROVE  globals[ad.global[n]].ty = ImportsOf(m, "global")[n].ty
      <4>1. n \in DOMAIN GlobalSpace(m) /\ GlobalSpace(m)[n] = ImportsOf(m, "global")[n].ty
        BY <3>1, <3>3, GlobalSpaceOk
      <4> QED
        BY <3>1, <3>2, <4>1 DEF Fits, FitsGlobal
    <3>6. ASSUME NEW n \in DOMAIN ImportsOf(m, "table")
          PROVE  LET t == tables[ad.table[n]]
                     w == ImportsOf(m, "table")[n].ty
                 IN  t.ty.elem = w.elem /\ Satisfies(Len(t.elems), t.ty.limits.max, w.limits)
      <4>1. n \in DOMAIN TableSpace(m) /\ TableSpace(m)[n] = ImportsOf(m, "table")[n].ty
        BY <3>1, <3>3, TableSpaceOk
      <4> QED
        BY <3>1, <3>2, <4>1 DEF Fits, FitsTable
    <3>7. ASSUME NEW n \in DOMAIN ImportsOf(m, "mem")
          PROVE  LET t == mems[ad.mem[n]] IN
                 Satisfies(t.pages, t.ty.limits.max, ImportsOf(m, "mem")[n].ty.limits)
      <4>1. n \in DOMAIN MemSpace(m) /\ MemSpace(m)[n] = ImportsOf(m, "mem")[n].ty
        BY <3>1, <3>3, MemSpaceOk
      <4> QED
        BY <3>1, <3>2, <4>1 DEF Fits, FitsMem
    <3> QED
      BY <3>4, <3>5, <3>6, <3>7 DEF m, ad
  <2> QED
    BY <2>1, <2>2, <2>3 DEF ImportsHold, TableWithin, MemWithin
<1> QED
  BY <1>1, StoreSoundInv, PTL

\* The address vectors have the shape of the index spaces, and addresses are
\* in range.
LEMMA SpacesAgree ==
  ASSUME IInv, SoundInv
  PROVE  IndexSpacesAgree
<1> SUFFICES ASSUME NEW i \in DOMAIN instances, ~ IsHost(code[i]), NEW kind \in Kind
             PROVE  /\ Len(instances[i].addrs[kind]) = SpaceSize(code[i], kind)
                    /\ ToSet(instances[i].addrs[kind]) \subseteq 1..Size(kind)
  BY DEF IndexSpacesAgree
<1>1. /\ instances[i] \in Inst(Known) /\ Known \in SizeType /\ Leq(Known, Sizes)
      /\ Complete(code[i], instances[i].addrs)
  BY CodeOf
<1>2. instances[i].addrs[kind] \in Seq(1..Known[kind])
  BY <1>1, AddrsOk DEF Kind
<1>3. Known[kind] \in Nat /\ Known[kind] <= Size(kind) /\ Size(kind) \in Nat
  <2>1. /\ Known.func \in Nat /\ Known.table \in Nat /\ Known.mem \in Nat /\ Known.global \in Nat
        /\ Known.func <= Len(funcs) /\ Known.table <= Len(tables)
        /\ Known.mem <= Len(mems) /\ Known.global <= Len(globals)
    BY <1>1 DEF SizeType, Leq, Sizes
  <2>2. /\ Len(funcs) \in Nat /\ Len(tables) \in Nat /\ Len(mems) \in Nat /\ Len(globals) \in Nat
    BY SizesOk DEF IInv
  <2> QED
    BY <2>1, <2>2 DEF Kind, Size
<1>4. \A n \in DOMAIN instances[i].addrs[kind] : instances[i].addrs[kind][n] \in 1..Size(kind)
  <2>1. \A n \in DOMAIN instances[i].addrs[kind] : instances[i].addrs[kind][n] \in 1..Known[kind]
    BY <1>2, SeqAt
  <2> QED
    BY <1>3, <2>1
<1> QED
  BY <1>1, <1>4 DEF Complete, ToSet

\* A constant expression a validated module has is evaluable in its instance.
LEMMA SegmentExprsOk ==
  ASSUME IInv, SoundInv, NEW in \in Inst(Sizes), NEW m \in Module, ValidModule(m),
         FitsGlobal(m, in.addrs.global, globals),
         Len(in.addrs.func) = SpaceSize(m, "func"),
         Len(in.addrs.global) >= Len(ImportsOf(m, "global"))
  PROVE  /\ \A i \in DOMAIN m.globals : Evaluable(in, m.globals[i].init)
         /\ \A i \in DOMAIN m.elems :
              /\ \A j \in DOMAIN m.elems[i].init : Evaluable(in, m.elems[i].init[j])
              /\ m.elems[i].mode = "active" =>
                   Evaluable(in, m.elems[i].offset) /\ EvalConst(in, m.elems[i].offset).ty = "i32"
         /\ \A i \in DOMAIN m.datas : m.datas[i].mode = "active" =>
              Evaluable(in, m.datas[i].offset) /\ EvalConst(in, m.datas[i].offset).ty = "i32"
<1>0. PoolsInv /\ StoreTyped
  BY DEF IInv, SoundInv, ContentInv
<1>1. ASSUME NEW e \in ConstExpr, NEW want, ConstExprOk(m, e, want)
      PROVE  Evaluable(in, e) /\ EvalConst(in, e).ty = want
  BY <1>0, <1>1, EvalTyped
<1>2. /\ m.globals \in Seq([ty : GlobalType, init : ConstExpr])
      /\ m.elems \in Seq(Elem) /\ m.datas \in Seq(Data)
  BY DEF Module
<1>3. ASSUME NEW i \in DOMAIN m.globals
      PROVE  Evaluable(in, m.globals[i].init)
  <2>1. m.globals[i].init \in ConstExpr
    <3>1. m.globals[i] \in [ty : GlobalType, init : ConstExpr]
      BY <1>2, SeqAt
    <3> QED
      BY <3>1
  <2>2. ConstExprOk(m, m.globals[i].init, m.globals[i].ty.val)
    BY DEF ValidModule
  <2> QED
    BY <1>1, <2>1, <2>2
<1>4. ASSUME NEW i \in DOMAIN m.elems
      PROVE  /\ \A j \in DOMAIN m.elems[i].init : Evaluable(in, m.elems[i].init[j])
             /\ m.elems[i].mode = "active" =>
                  Evaluable(in, m.elems[i].offset) /\ EvalConst(in, m.elems[i].offset).ty = "i32"
  <2>1. m.elems[i].init \in Seq(ConstExpr) /\ m.elems[i].offset \in ConstExpr
    <3>1. m.elems[i] \in Elem
      BY <1>2, SeqAt
    <3> QED
      BY <3>1 DEF Elem
  <2>2. ElemOk(m, m.elems[i])
    BY DEF ValidModule
  <2>3. ASSUME NEW j \in DOMAIN m.elems[i].init
        PROVE  Evaluable(in, m.elems[i].init[j])
    <3>1. m.elems[i].init[j] \in ConstExpr
      BY <2>1, SeqAt
    <3>2. ConstExprOk(m, m.elems[i].init[j], m.elems[i].ty)
      BY <2>2 DEF ElemOk
    <3> QED
      BY <1>1, <3>1, <3>2
  <2>4. m.elems[i].mode = "active" => ConstExprOk(m, m.elems[i].offset, "i32")
    BY <2>2 DEF ElemOk
  <2> QED
    BY <1>1, <2>1, <2>3, <2>4
<1>5. ASSUME NEW i \in DOMAIN m.datas, m.datas[i].mode = "active"
      PROVE  Evaluable(in, m.datas[i].offset) /\ EvalConst(in, m.datas[i].offset).ty = "i32"
  <2>1. m.datas[i].offset \in ConstExpr
    <3>1. m.datas[i] \in Data
      BY <1>2, SeqAt
    <3> QED
      BY <3>1 DEF Data
  <2>2. ConstExprOk(m, m.datas[i].offset, "i32")
    BY <1>5 DEF ValidModule, DataOk
  <2> QED
    BY <1>1, <2>1, <2>2
<1> QED
  BY <1>3, <1>4, <1>5

\* While a module is linked, every index its constant expressions, exports
\* and segments use is there.
LEMMA LinkIndicesOk ==
  ASSUME IInv, SoundInv
  PROVE  LinkIndicesInRange
<1>1. ASSUME phase = "alloc"
      PROVE  /\ k \in DOMAIN mod.globals => Evaluable(inst, mod.globals[k].init)
             /\ k = Len(mod.globals) + Len(mod.tables) + Len(mod.mems) + 1 =>
                  /\ \A i \in DOMAIN mod.elems : \A j \in DOMAIN mod.elems[i].init :
                       Evaluable(inst, mod.elems[i].init[j])
                  /\ \A i \in DOMAIN mod.exports :
                       mod.exports[i].idx \in DOMAIN inst.addrs[mod.exports[i].kind]
  <2>1. /\ mod \in Module /\ ValidModule(mod) /\ inst \in Inst(Sizes) /\ Sizes \in SizeType
        /\ Fits(mod, inst.addrs, funcs, tables, mems, globals)
        /\ \A x \in Kind : Len(inst.addrs[x]) = Len(ImportsOf(mod, x)) + Made(mod, k)[x]
        /\ Len(inst.addrs.func) = SpaceSize(mod, "func")
        /\ Len(inst.addrs.global) >= Len(ImportsOf(mod, "global"))
    BY <1>1, AllocKnows
  <2>2. /\ \A i \in DOMAIN mod.globals : Evaluable(inst, mod.globals[i].init)
        /\ \A i \in DOMAIN mod.elems : \A j \in DOMAIN mod.elems[i].init :
             Evaluable(inst, mod.elems[i].init[j])
    BY <2>1, SegmentExprsOk DEF Fits
  <2>3. ASSUME k = Len(mod.globals) + Len(mod.tables) + Len(mod.mems) + 1,
               NEW i \in DOMAIN mod.exports
        PROVE  mod.exports[i].idx \in DOMAIN inst.addrs[mod.exports[i].kind]
    <3>1. Complete(mod, inst.addrs)
      BY <2>1, <2>3, LoopsComplete
    <3>2. mod.exports[i].kind \in Kind
      <4>1. mod.exports \in Seq([name : STRING, kind : Kind, idx : Nat])
        BY <2>1 DEF Module
      <4>2. mod.exports[i] \in [name : STRING, kind : Kind, idx : Nat]
        BY <2>3, <4>1, SeqAt
      <4> QED
        BY <4>2
    <3>3. mod.exports[i].idx \in 1..SpaceSize(mod, mod.exports[i].kind)
      BY <2>1 DEF ValidModule, ExportsOk
    <3>4. DOMAIN inst.addrs[mod.exports[i].kind] = 1..SpaceSize(mod, mod.exports[i].kind)
      BY <2>1, <3>1, <3>2, HasSpaces
    <3> QED
      BY <3>3, <3>4
  <2> QED
    BY <2>2, <2>3
<1>2. ASSUME phase = "segments"
      PROVE  LET in == instances[Len(instances)] IN
             /\ \A i \in DOMAIN mod.elems : mod.elems[i].mode = "active" =>
                  /\ mod.elems[i].table \in DOMAIN in.addrs.table
                  /\ Evaluable(in, mod.elems[i].offset)
                  /\ EvalConst(in, mod.elems[i].offset).ty = "i32"
             /\ \A i \in DOMAIN mod.datas : mod.datas[i].mode = "active" =>
                  /\ mod.datas[i].mem \in DOMAIN in.addrs.mem
                  /\ Evaluable(in, mod.datas[i].offset)
                  /\ EvalConst(in, mod.datas[i].offset).ty = "i32"
             /\ mod.start # 0 => mod.start \in DOMAIN in.addrs.func
  <2> DEFINE in == instances[Len(instances)]
  <2>1. /\ in \in Inst(Sizes) /\ Sizes \in SizeType /\ mod \in Module /\ ValidModule(mod)
        /\ Fits(mod, in.addrs, funcs, tables, mems, globals) /\ Complete(mod, in.addrs)
    BY <1>2, LastRuns
  <2> HIDE DEF in
  <2>2. /\ DOMAIN in.addrs.func = DOMAIN FuncSpace(mod)
        /\ DOMAIN in.addrs.table = DOMAIN TableSpace(mod)
        /\ DOMAIN in.addrs.mem = DOMAIN MemSpace(mod)
        /\ Len(in.addrs.func) = SpaceSize(mod, "func")
        /\ Len(in.addrs.global) >= Len(ImportsOf(mod, "global"))
    BY <2>1, HasSpaces
  <2>3. /\ \A i \in DOMAIN mod.elems : mod.elems[i].mode = "active" =>
             Evaluable(in, mod.elems[i].offset) /\ EvalConst(in, mod.elems[i].offset).ty = "i32"
        /\ \A i \in DOMAIN mod.datas : mod.datas[i].mode = "active" =>
             Evaluable(in, mod.datas[i].offset) /\ EvalConst(in, mod.datas[i].offset).ty = "i32"
    BY <2>1, <2>2, SegmentExprsOk DEF Fits
  <2>4. \A i \in DOMAIN mod.elems : mod.elems[i].mode = "active" =>
          mod.elems[i].table \in DOMAIN TableSpace(mod)
    BY <2>1 DEF ValidModule, ElemOk
  <2>5. \A i \in DOMAIN mod.datas : mod.datas[i].mode = "active" =>
          mod.datas[i].mem \in DOMAIN MemSpace(mod)
    BY <2>1 DEF ValidModule, DataOk
  <2>6. mod.start # 0 => mod.start \in DOMAIN FuncSpace(mod)
    BY <2>1 DEF ValidModule, StartOk
  <2> QED
    BY <2>2, <2>3, <2>4, <2>5, <2>6 DEF in
<1> QED
  BY <1>1, <1>2 DEF LinkIndicesInRange

\* No code and no constant expression of a validated module indexes a vector
\* of its instance out of range (exec.rs and store.rs, eval_const, index
\* without a check), whatever was linked before, grown or rolled back.
THEOREM IndicesAlwaysInRange == Spec => []IndicesInRange
<1>1. IInv /\ SoundInv => IndicesInRange
  BY SpacesAgree, LinkIndicesOk DEF IndicesInRange
<1> QED
  BY <1>1, StoreSoundInv, PTL

-----------------------------------------------------------------------------
(* The shapes of a step.  Every step of a call on the store is one of five  *)
(* kinds, as far as the pools, the marks and the addresses are concerned.   *)

\* Nothing is built: contents change at most.
Quiet == ~ Building /\ ~ Building' /\ Mutation

\* A call sets the marks and adds its functions; they belong to no instance
\* or to the one it builds, which knows their addresses.
Begun ==
  /\ ~ Building /\ Building' /\ base' = Sizes
  /\ UNCHANGED <<tables, mems, globals, instances>>
  /\ Len(funcs) <= Len(funcs')
  /\ \A a \in 1..Len(funcs) : funcs'[a] = funcs[a]
  /\ \A a \in Len(funcs) + 1 .. Len(funcs') :
       /\ funcs'[a].inst = 0 \/ (phase' = "alloc" /\ funcs'[a].inst = Len(instances) + 1)
       /\ a \in ToSet((inst').addrs.func)

\* One pool grows by an entry, whose address the instance learns.
GrownBy(kind) ==
  /\ \A x \in Kind :
       /\ Sizes'[x] = IF x = kind THEN Sizes[x] + 1 ELSE Sizes[x]
       /\ (inst').addrs[x] = IF x = kind THEN Append(inst.addrs[x], Sizes[x] + 1)
                             ELSE inst.addrs[x]
Grown ==
  /\ Building /\ UNCHANGED <<phase, base, funcs, instances>>
  /\ SamePrefix(Sizes)
  /\ \E kind \in Kind \ {"func"} : GrownBy(kind)

\* The pools are cut back to the marks.
Dropped == Building /\ ~ Building' /\ Truncate

\* The instance under construction is published with all its addresses.
Added ==
  /\ Building /\ ~ Building' /\ UNCHANGED <<funcs, tables, mems, globals>>
  /\ \E in : in.addrs = inst.addrs /\ instances' = Append(instances, in)

Shape == Quiet \/ Begun \/ Grown \/ Dropped \/ Added

-----------------------------------------------------------------------------
(* Each action has its shape.                                              *)

\* A step that leaves the store alone outside a building phase is quiet.
LEMMA IdleShape ==
  ASSUME IInv, ~ Building, ~ Building', UNCHANGED <<funcs, tables, mems, globals, instances>>
  PROVE  Quiet
BY SameSteps DEF Quiet, Mutation

\* Functions added after the marks were set make a Begun step.
LEMMA BegunBy ==
  ASSUME IInv, ~ Building, Building', base' = Sizes,
         UNCHANGED <<tables, mems, globals, instances>>,
         NEW n \in {Len(instances), Len(instances) + 1},
         NEW new \in Seq(FuncInst(n)), funcs' = funcs \o new,
         \A i \in 1..Len(new) :
           /\ new[i].inst = 0 \/ (phase' = "alloc" /\ new[i].inst = Len(instances) + 1)
           /\ Len(funcs) + i \in ToSet((inst').addrs.func)
  PROVE  Begun
<1>1. /\ Len(instances) \in Nat /\ n \in Nat /\ Len(instances) <= n
      /\ Owners = Len(instances)
  BY KnownOk DEF Owners, Building
<1>2. funcs \in Seq(FuncInst(n))
  <2>1. funcs \in Seq(FuncInst(Len(instances)))
    BY <1>1 DEF IInv, PoolsInv
  <2> QED
    BY <1>1, <2>1, PoolTypesMono
<1>3. /\ Len(funcs') = Len(funcs) + Len(new) /\ Len(funcs) \in Nat /\ Len(new) \in Nat
      /\ \A i \in 1..Len(funcs) : funcs'[i] = funcs[i]
      /\ \A i \in 1..(Len(funcs) + Len(new)) : funcs'[i] = IF i <= Len(funcs) THEN funcs[i]
                                                           ELSE new[i - Len(funcs)]
  BY <1>2, ConcatProperties, LenProperties
<1>4. ASSUME NEW a \in Len(funcs) + 1 .. Len(funcs')
      PROVE  /\ funcs'[a].inst = 0 \/ (phase' = "alloc" /\ funcs'[a].inst = Len(instances) + 1)
             /\ a \in ToSet((inst').addrs.func)
  <2> DEFINE i == a - Len(funcs)
  <2>1. /\ i \in 1..Len(new) /\ a = Len(funcs) + i
        /\ a \in 1..(Len(funcs) + Len(new)) /\ ~ (a <= Len(funcs))
    BY <1>3
  <2>2. funcs'[a] = new[i]
    BY <1>3, <2>1
  <2> HIDE DEF i
  <2> QED
    BY <2>1, <2>2
<1>5. Len(funcs) <= Len(funcs')
  BY <1>3
<1> QED
  BY <1>3, <1>4, <1>5 DEF Begun

\* add_host_module starts by adding the functions.
LEMMA AddHostModuleShape == IInv /\ AddHostModule => Begun
<1> SUFFICES ASSUME IInv, AddHostModule
             PROVE  Begun
  OBVIOUS
<1> PICK h \in HostModules :
      /\ funcs' = funcs \o [i \in DOMAIN h.funcs |-> [ty |-> h.funcs[i].ty, inst |-> 0]]
      /\ inst' = [EmptyInstance EXCEPT
           !.addrs.func = [i \in DOMAIN h.funcs |-> Len(funcs) + i],
           !.exports = [i \in DOMAIN h.funcs |->
                          [name |-> h.funcs[i].name,
                           ev |-> [kind |-> "func", addr |-> Len(funcs) + i]]]]
  BY DEF AddHostModule
<1> DEFINE new  == [i \in DOMAIN h.funcs |-> [ty |-> h.funcs[i].ty, inst |-> 0]]
           adrs == [i \in DOMAIN h.funcs |-> Len(funcs) + i]
<1>0. /\ ~ Building /\ Building' /\ base' = Sizes
      /\ UNCHANGED <<tables, mems, globals, instances>>
  BY DEF AddHostModule, Building
<1>1. /\ h.funcs \in Seq([name : STRING, ty : FuncType])
      /\ Len(h.funcs) \in Nat /\ DOMAIN h.funcs = 1..Len(h.funcs)
  BY StoreAssumption, LenProperties DEF HostModule
<1>2. Len(instances) \in Nat
  BY KnownOk
<1>3. (inst').addrs.func = adrs
  BY DEF EmptyInstance
<1>4. \A i \in 1..Len(h.funcs) : new[i].inst = 0
  BY <1>1
<1>5. \A i \in 1..Len(h.funcs) : Len(funcs) + i \in ToSet(adrs)
  BY <1>1 DEF ToSet
<1>6. new \in Seq(FuncInst(Len(instances))) /\ Len(new) = Len(h.funcs)
  <2>1. \A i \in DOMAIN h.funcs : h.funcs[i].ty \in FuncType
    <3>1. \A i \in DOMAIN h.funcs : h.funcs[i] \in [name : STRING, ty : FuncType]
      BY <1>1, SeqAt
    <3> QED
      BY <3>1
  <2>2. new \in [1..Len(h.funcs) -> FuncInst(Len(instances))]
    BY <1>1, <1>2, <2>1 DEF FuncInst
  <2> HIDE DEF new
  <2> QED
    BY <1>1, <2>2, FunSeq
<1>7. funcs' = funcs \o new
  OBVIOUS
<1> HIDE DEF new, adrs
<1> QED
  BY <1>0, <1>3, <1>4, <1>5, <1>6, <1>7, BegunBy

\* instantiate, past the imports, adds the functions with its future id.
LEMMA AllocFuncsShape == IInv /\ AllocFuncs => Begun
<1> SUFFICES ASSUME IInv, AllocFuncs
             PROVE  Begun
  OBVIOUS
<1> DEFINE id   == Len(instances) + 1
           new  == [i \in DOMAIN mod.funcs |->
                      [ty |-> mod.types[mod.funcs[i]], inst |-> id]]
           adrs == [i \in DOMAIN mod.funcs |-> Len(funcs) + i]
<1>0. /\ ~ Building /\ Building' /\ base' = Sizes /\ phase' = "alloc" /\ mod \in Module
      /\ inst' = [inst EXCEPT !.addrs.func = @ \o adrs] /\ funcs' = funcs \o new
      /\ \A i \in DOMAIN mod.funcs : mod.funcs[i] \in DOMAIN mod.types
      /\ UNCHANGED <<tables, mems, globals, instances>>
  BY StoreAssumption DEF AllocFuncs, Building, IInv, CallInv
<1>1. /\ Len(mod.funcs) \in Nat /\ DOMAIN mod.funcs = 1..Len(mod.funcs)
      /\ Len(instances) \in Nat /\ Len(funcs) \in Nat /\ inst \in Inst(Sizes)
  BY <1>0, PartsOk, KnownOk, SizesOk DEF IInv, InstancesInv
<1>2. \A i \in 1..Len(mod.funcs) : new[i].inst = id
  BY <1>1
<1>3. new \in Seq(FuncInst(id)) /\ Len(new) = Len(mod.funcs)
  <2>1. \A i \in DOMAIN mod.types : mod.types[i] \in FuncType
    <3>1. mod.types \in Seq(FuncType)
      BY <1>0 DEF Module
    <3> QED
      BY <3>1, SeqAt
  <2>2. new \in [1..Len(mod.funcs) -> FuncInst(id)]
    BY <1>0, <1>1, <2>1 DEF FuncInst
  <2> HIDE DEF new, id
  <2> QED
    BY <1>1, <2>2, FunSeq
<1>4. (inst').addrs.func = inst.addrs.func \o adrs
  <2>1. inst.addrs = [func |-> inst.addrs.func, table |-> inst.addrs.table,
                      mem |-> inst.addrs.mem, global |-> inst.addrs.global]
    BY <1>1 DEF Inst, Addrs
  <2>2. (inst').addrs = [inst.addrs EXCEPT !.func = @ \o adrs]
    BY <1>0, <1>1 DEF Inst
  <2> HIDE DEF adrs
  <2> QED
    BY <2>1, <2>2
<1>5. \A i \in 1..Len(mod.funcs) : Len(funcs) + i \in ToSet(inst.addrs.func \o adrs)
  <2>1. adrs \in Seq(Nat) /\ Len(adrs) = Len(mod.funcs) /\ inst.addrs.func \in Seq(Nat)
    <3>1. adrs \in [1..Len(mod.funcs) -> Nat]
      BY <1>1
    <3>2. inst.addrs.func \in Seq(1..Sizes.func)
      BY <1>1 DEF Inst, Addrs
    <3>3. Seq(1..Sizes.func) \subseteq Seq(Nat)
      <4>1. 1..Sizes.func \subseteq Nat
        OBVIOUS
      <4> QED
        BY <4>1, SeqMono
    <3> HIDE DEF adrs
    <3> QED
      BY <1>1, <3>1, <3>2, <3>3, FunSeq
  <2>2. \A i \in 1..Len(mod.funcs) : adrs[i] = Len(funcs) + i
    BY <1>1
  <2> HIDE DEF adrs
  <2> TAKE i \in 1..Len(mod.funcs)
  <2>3. (inst.addrs.func \o adrs)[Len(inst.addrs.func) + i] = adrs[i]
    BY <2>1, ConcatSecond
  <2>4. Len(inst.addrs.func) + i \in DOMAIN (inst.addrs.func \o adrs)
    <3> DEFINE d == inst.addrs.func
               s == d \o adrs
    <3>1. /\ s \in Seq(Nat) /\ Len(s) = Len(d) + Len(adrs)
          /\ Len(d) \in Nat /\ Len(adrs) \in Nat
      BY <2>1, ConcatProperties, LenProperties
    <3>2. DOMAIN s = 1..Len(s)
      BY <3>1, LenProperties
    <3> HIDE DEF d, s
    <3>3. Len(d) + i \in DOMAIN s
      BY <2>1, <3>1, <3>2
    <3> QED
      BY <3>3 DEF d, s
  <2> QED
    BY <2>2, <2>3, <2>4 DEF ToSet
<1>6. id \in {Len(instances), Len(instances) + 1}
  OBVIOUS
<1>7. \A i \in 1..Len(new) :
        /\ phase' = "alloc" /\ new[i].inst = Len(instances) + 1
        /\ Len(funcs) + i \in ToSet((inst').addrs.func)
  <2> HIDE DEF new, adrs
  <2> QED
    BY <1>0, <1>2, <1>3, <1>4, <1>5
<1> HIDE DEF new, adrs, id
<1> QED
  BY <1>0, <1>3, <1>6, <1>7, BegunBy

\* One more element of any kind.
LEMMA AppendAny ==
  ASSUME NEW S, NEW s \in Seq(S), NEW e
  PROVE  /\ Len(s) \in Nat /\ Len(Append(s, e)) = Len(s) + 1
         /\ DOMAIN s = 1..Len(s) /\ DOMAIN Append(s, e) = 1 .. Len(s) + 1
         /\ \A a \in 1..Len(s) : Append(s, e)[a] = s[a]
         /\ Append(s, e)[Len(s) + 1] = e
<1> DEFINE T == S \union {e}
<1>1. s \in Seq(T) /\ e \in T
  <2>1. Seq(S) \subseteq Seq(T)
    BY SeqMono
  <2> QED
    BY <2>1
<1> HIDE DEF T
<1>2. Append(s, e) \in Seq(T) /\ Len(Append(s, e)) = Len(s) + 1 /\ Len(s) \in Nat
  BY <1>1, AppendProperties, LenProperties
<1>3. DOMAIN s = 1..Len(s) /\ DOMAIN Append(s, e) = 1 .. Len(s) + 1
  BY <1>1, <1>2, LenProperties
<1> QED
  BY <1>1, <1>2, <1>3, AppendProperties

\* One pool grows while an instance is built.
LEMMA GrownStep ==
  ASSUME IInv, Building, UNCHANGED <<funcs, instances, phase, base>>,
         NEW kind \in {"table", "mem", "global"}, NEW e,
         \/ kind = "table" /\ tables' = Append(tables, e) /\ UNCHANGED <<mems, globals>>
         \/ kind = "mem" /\ mems' = Append(mems, e) /\ UNCHANGED <<tables, globals>>
         \/ kind = "global" /\ globals' = Append(globals, e) /\ UNCHANGED <<tables, mems>>,
         \/ inst' = WithAddr(inst, kind, Sizes[kind] + 1)
         \/ \E name : inst' = WithExport(inst, name, kind, Sizes[kind] + 1)
  PROVE  Grown
<1>0. /\ tables \in Seq(TableInst(Len(funcs))) /\ mems \in Seq(MemInst)
      /\ globals \in Seq(GlobalInst(Len(funcs))) /\ inst \in Inst(Sizes)
      /\ Sizes \in SizeType
  BY SizesOk DEF IInv, PoolsInv, InstancesInv
<1>1. /\ \A x \in Kind : Sizes'[x] = IF x = kind THEN Sizes[x] + 1 ELSE Sizes[x]
      /\ SamePrefix(Sizes)
  <2>1. CASE kind = "table"
    <3>1. tables' = Append(tables, e) /\ UNCHANGED <<mems, globals>>
      BY <2>1
    <3>2. Len(tables') = Len(tables) + 1 /\ \A a \in 1..Len(tables) : tables'[a] = tables[a]
      BY <1>0, <3>1, AppendAny
    <3> QED
      BY <2>1, <3>1, <3>2 DEF Sizes, Kind, SamePrefix
  <2>2. CASE kind = "mem"
    <3>1. mems' = Append(mems, e) /\ UNCHANGED <<tables, globals>>
      BY <2>2
    <3>2. Len(mems') = Len(mems) + 1 /\ \A a \in 1..Len(mems) : mems'[a] = mems[a]
      BY <1>0, <3>1, AppendAny
    <3> QED
      BY <2>2, <3>1, <3>2 DEF Sizes, Kind, SamePrefix
  <2>3. CASE kind = "global"
    <3>1. globals' = Append(globals, e) /\ UNCHANGED <<tables, mems>>
      BY <2>3
    <3>2. Len(globals') = Len(globals) + 1 /\ \A a \in 1..Len(globals) : globals'[a] = globals[a]
      BY <1>0, <3>1, AppendAny
    <3> QED
      BY <2>3, <3>1, <3>2 DEF Sizes, Kind, SamePrefix
  <2> QED
    BY <2>1, <2>2, <2>3
<1>2. kind \in Kind \ {"func"}
  BY DEF Kind
<1>3. (inst').addrs = WithAddr(inst, kind, Sizes[kind] + 1).addrs
  <2>1. ASSUME NEW name, inst' = WithExport(inst, name, kind, Sizes[kind] + 1)
        PROVE  (inst').addrs = WithAddr(inst, kind, Sizes[kind] + 1).addrs
    BY <1>0, <2>1 DEF WithExport, WithAddr, Inst
  <2> QED
    BY <2>1
<1>4. \A x \in Kind : (inst').addrs[x] = IF x = kind THEN Append(inst.addrs[x], Sizes[x] + 1)
                                         ELSE inst.addrs[x]
  BY <1>0, <1>2, <1>3, WithAddrAt
<1>5. GrownBy(kind)
  BY <1>1, <1>4 DEF GrownBy
<1> QED
  BY <1>1, <1>2, <1>5 DEF Grown

\* The loops of add_host_module grow a pool or drop what they made.
LEMMA HostLoopShape ==
  IInv /\ (HostGlobal \/ HostTable \/ HostMem) => Grown \/ Dropped
<1> SUFFICES ASSUME IInv, HostGlobal \/ HostTable \/ HostMem
             PROVE  Grown \/ Dropped
  OBVIOUS
<1>0. Building /\ Len(tables) = Sizes["table"] /\ Len(mems) = Sizes["mem"]
      /\ Len(globals) = Sizes["global"]
  BY DEF HostGlobal, HostTable, HostMem, Building, Sizes
<1>1. CASE Rollback
  BY <1>0, <1>1 DEF Rollback, Finish, Dropped, Building
<1>2. CASE \E e, name :
             /\ globals' = Append(globals, e)
             /\ inst' = WithExport(inst, name, "global", Len(globals) + 1)
             /\ UNCHANGED <<funcs, tables, mems, instances, phase, base>>
  BY <1>0, <1>2, GrownStep
<1>3. CASE \E e, name :
             /\ tables' = Append(tables, e)
             /\ inst' = WithExport(inst, name, "table", Len(tables) + 1)
             /\ UNCHANGED <<funcs, mems, globals, instances, phase, base>>
  BY <1>0, <1>3, GrownStep
<1>4. CASE \E e, name :
             /\ mems' = Append(mems, e)
             /\ inst' = WithExport(inst, name, "mem", Len(mems) + 1)
             /\ UNCHANGED <<funcs, tables, globals, instances, phase, base>>
  BY <1>0, <1>4, GrownStep
<1>5. HostGlobal => Rollback \/ \E e, name :
             /\ globals' = Append(globals, e)
             /\ inst' = WithExport(inst, name, "global", Len(globals) + 1)
             /\ UNCHANGED <<funcs, tables, mems, instances, phase, base>>
  BY DEF HostGlobal
<1>6. HostTable => Rollback \/ \E e, name :
             /\ tables' = Append(tables, e)
             /\ inst' = WithExport(inst, name, "table", Len(tables) + 1)
             /\ UNCHANGED <<funcs, mems, globals, instances, phase, base>>
  BY DEF HostTable
<1>7. HostMem => Rollback \/ \E e, name :
             /\ mems' = Append(mems, e)
             /\ inst' = WithExport(inst, name, "mem", Len(mems) + 1)
             /\ UNCHANGED <<funcs, tables, globals, instances, phase, base>>
  BY DEF HostMem
<1> QED
  BY <1>1, <1>2, <1>3, <1>4, <1>5, <1>6, <1>7

\* So do the loops of instantiate.
LEMMA AllocLoopShape ==
  IInv /\ (AllocGlobal \/ AllocTable \/ AllocMem) => Grown \/ Dropped
<1> SUFFICES ASSUME IInv, AllocGlobal \/ AllocTable \/ AllocMem
             PROVE  Grown \/ Dropped
  OBVIOUS
<1>0. Building /\ Len(tables) = Sizes["table"] /\ Len(mems) = Sizes["mem"]
      /\ Len(globals) = Sizes["global"]
  BY DEF AllocGlobal, AllocTable, AllocMem, Building, Sizes
<1>1. CASE Rollback
  BY <1>0, <1>1 DEF Rollback, Finish, Dropped, Building
<1>2. CASE \E e :
             /\ globals' = Append(globals, e)
             /\ inst' = WithAddr(inst, "global", Len(globals) + 1)
             /\ UNCHANGED <<funcs, tables, mems, instances, phase, base>>
  BY <1>0, <1>2, GrownStep
<1>3. CASE \E e :
             /\ tables' = Append(tables, e)
             /\ inst' = WithAddr(inst, "table", Len(tables) + 1)
             /\ UNCHANGED <<funcs, mems, globals, instances, phase, base>>
  BY <1>0, <1>3, GrownStep
<1>4. CASE \E e :
             /\ mems' = Append(mems, e)
             /\ inst' = WithAddr(inst, "mem", Len(mems) + 1)
             /\ UNCHANGED <<funcs, tables, globals, instances, phase, base>>
  BY <1>0, <1>4, GrownStep
<1>5. AllocGlobal => \E e :
             /\ globals' = Append(globals, e)
             /\ inst' = WithAddr(inst, "global", Len(globals) + 1)
             /\ UNCHANGED <<funcs, tables, mems, instances, phase, base>>
  BY DEF AllocGlobal
<1>6. AllocTable => Rollback \/ \E e :
             /\ tables' = Append(tables, e)
             /\ inst' = WithAddr(inst, "table", Len(tables) + 1)
             /\ UNCHANGED <<funcs, mems, globals, instances, phase, base>>
  BY DEF AllocTable
<1>7. AllocMem => Rollback \/ \E e :
             /\ mems' = Append(mems, e)
             /\ inst' = WithAddr(inst, "mem", Len(mems) + 1)
             /\ UNCHANGED <<funcs, tables, globals, instances, phase, base>>
  BY DEF AllocMem
<1> QED
  BY <1>1, <1>2, <1>3, <1>4, <1>5, <1>6, <1>7

\* Publication adds the instance.
LEMMA PublishShape == PublishHost \/ PublishInstance => Added
<1>1. PublishHost => Added
  BY DEF PublishHost, Publish, Finish, Added, Building
<1>2. ASSUME PublishInstance
      PROVE  Added
  <2>1. \E in : in.addrs = inst.addrs /\ instances' = Append(instances, in)
    BY <1>2 DEF PublishInstance, Publish
  <2> QED
    BY <1>2, <2>1 DEF PublishInstance, Added, Building
<1> QED
  BY <1>1, <1>2

\* Calls that do not build, and code that does not write.
LEMMA CallShape ==
  IInv /\ (Instantiate \/ InvokeExport \/ ResolveImport \/ RunStart) => Quiet
<1> SUFFICES ASSUME IInv, Instantiate \/ InvokeExport \/ ResolveImport \/ RunStart
             PROVE  Quiet
  OBVIOUS
<1>1. ~ Building
  BY DEF Instantiate, InvokeExport, ResolveImport, RunStart, Building
<1>2. UNCHANGED storeVars /\ ~ Building'
  <2>1. ASSUME NEW a, NEW args, Enter(a, args)
        PROVE  UNCHANGED storeVars /\ phase' \in {"idle", "run"}
    BY <2>1 DEF Enter, Finish
  <2>2. CASE InvokeExport
    <3>1. \/ \E a, args : Enter(a, args)
          \/ Finish("refused") /\ UNCHANGED storeVars
      BY <2>2 DEF InvokeExport
    <3> QED
      BY <2>1, <3>1 DEF Finish, Building
  <2>3. CASE RunStart
    <3>1. \/ \E a, args : Enter(a, args)
          \/ Finish("ok") /\ UNCHANGED storeVars
      BY <2>3 DEF RunStart
    <3> QED
      BY <2>1, <3>1 DEF Finish, Building
  <2>4. CASE Instantiate
    BY <2>4 DEF Instantiate, Building
  <2>5. CASE ResolveImport
    BY <2>5 DEF ResolveImport, Finish, Building
  <2> QED
    BY <2>2, <2>3, <2>4, <2>5
<1> QED
  BY <1>1, <1>2, IdleShape DEF storeVars

\* Instructions change contents at most.
LEMMA InstructionShape == IInv /\ IInv' /\ SoundInv /\ Instruction => Quiet
<1> SUFFICES ASSUME IInv, IInv', SoundInv, Instruction
             PROVE  Quiet
  OBVIOUS
<1>1. ~ Building
  BY DEF Instruction, RefFunc, GlobalGet, GlobalSet, TableGet, TableFill, TableInit, TableCopy,
         TableGrow, MemoryGrow, DropSegment, Call, CallIndirect, Return, Trap, Running, Building
<1>2. ASSUME UNCHANGED storeVars, phase' \in {"idle", "run"}
      PROVE  Quiet
  BY <1>1, <1>2, IdleShape DEF storeVars, Building
<1>3. ASSUME Mutation, phase' = phase
      PROVE  Quiet
  BY <1>1, <1>3 DEF Quiet, Building
<1>4. CASE RefFunc \/ GlobalGet \/ TableGet \/ Call \/ CallIndirect
  <2>1. phase' = phase /\ phase = "run" /\ UNCHANGED storeVars
    BY <1>4 DEF RefFunc, GlobalGet, TableGet, Call, CallIndirect, Executed, Running
  <2> QED
    BY <1>2, <2>1
<1>5. CASE Return \/ Trap
  <2>1. phase' \in {"idle", "run"} /\ UNCHANGED storeVars
    BY <1>5 DEF Return, Trap, Trapped, Finish
  <2> QED
    BY <1>2, <2>1
<1>6. CASE GlobalSet \/ TableFill \/ TableInit \/ TableCopy \/ TableGrow \/ MemoryGrow
           \/ DropSegment
  <2>1. Mutation
    BY <1>6, GlobalSetSound, TableFillSound, TableInitSound, TableCopySound, TableGrowSound,
       MemoryGrowSound, DropSegmentSound
  <2>2. phase' = phase
    BY <1>6 DEF GlobalSet, TableFill, TableInit, TableCopy, TableGrow, MemoryGrow, DropSegment,
                TableOp, Executed
  <2> QED
    BY <1>3, <2>1, <2>2
<1> QED
  BY <1>4, <1>5, <1>6 DEF Instruction

\* So do the segments of a published instance.
LEMMA SegmentShape == IInv /\ IInv' /\ SoundInv /\ (ApplyElem \/ ApplyData) => Quiet
<1> SUFFICES ASSUME IInv, IInv', SoundInv, ApplyElem \/ ApplyData
             PROVE  Quiet
  OBVIOUS
<1>1. Mutation
  BY ApplyElemSound, ApplyDataSound
<1>2. ~ Building
  BY DEF ApplyElem, ApplyData, Building
<1>3. phase' = phase \/ phase' = "idle"
  BY DEF ApplyElem, ApplyData, NextSegment, Trapped, Finish
<1> QED
  BY <1>1, <1>2, <1>3 DEF Quiet, Building

\* Every step has one of the shapes.
LEMMA NextShape == IInv /\ IInv' /\ SoundInv /\ Next => Shape
<1> SUFFICES ASSUME IInv, IInv', SoundInv, Next
             PROVE  Shape
  OBVIOUS
<1>1. CASE AddHostModule \/ Instantiate \/ InvokeExport
  BY <1>1, AddHostModuleShape, CallShape DEF Shape
<1>2. CASE Advance
  BY <1>2, HostLoopShape, PublishShape, CallShape, AllocFuncsShape, AllocLoopShape, SegmentShape
  DEF Advance, Shape
<1>3. CASE Instruction
  BY <1>3, InstructionShape DEF Shape
<1> QED
  BY <1>1, <1>2, <1>3 DEF Next

-----------------------------------------------------------------------------
(* Ownership.  NoOrphans speaks of the moments between allocations; what is *)
(* inductive says of every moment that an entry is held by a published      *)
(* instance or, above the marks, by the one under construction.             *)

\* The entry at address a is held by a published instance.
Held(kind, a) == \E i \in DOMAIN instances : a \in ToSet(instances[i].addrs[kind])

CoverInv ==
  \A kind \in Kind : \A a \in 1..Size(kind) :
    \/ Held(kind, a)
    \/ Building /\ a > base[kind] /\ a \in ToSet(inst.addrs[kind])

OwnInv == OwnersPublished /\ CoverInv

\* The size of a pool, by its kind.
LEMMA SizeOf == \A kind \in Kind : Size(kind) = Sizes[kind]
BY DEF Size, Sizes, Kind

\* ... and of the next state.
LEMMA SizeOfNext == \A kind \in Kind : Size(kind)' = Sizes'[kind]
BY DEF Size, Sizes, Kind

\* A function of the store names its instance, or the one being built.
OwnerOk(a) ==
  LET i == funcs[a].inst IN
  \/ i = 0
  \/ phase = "alloc" /\ i = Len(instances) + 1 /\ a > base.func /\ a \in ToSet(inst.addrs.func)
  \/ i \in DOMAIN instances /\ a \in ToSet(instances[i].addrs.func)
OwnersOk == \A a \in DOMAIN funcs : OwnerOk(a)

\* The frames need nothing new.
LEMMA OwnersEnough == IInv /\ OwnersOk => OwnersPublished
<1> SUFFICES ASSUME IInv, OwnersOk
             PROVE  OwnersPublished
  OBVIOUS
<1>1. \A n \in DOMAIN frames : frames[n] \in DOMAIN instances
  <2>1. frames \in Seq(1..Len(instances)) /\ instances \in Seq(Inst(Known))
    BY DEF IInv, MachineInv, InstancesInv
  <2> QED
    BY <2>1, SeqAt, LenProperties
<1> QED
  BY <1>1 DEF OwnersPublished, OwnersOk, OwnerOk

\* What is held stays held.
LEMMA QuietOwn == ASSUME IInv, IInv', OwnInv, Quiet PROVE OwnInv'
<1>0. /\ InstancesKept /\ funcs' = funcs /\ ~ Building /\ ~ Building'
      /\ phase # "alloc"
  BY MutationKept DEF Quiet, Mutation, Building
<1>1. \A a \in DOMAIN funcs' : OwnerOk(a)'
  <2> SUFFICES ASSUME NEW a \in DOMAIN funcs
               PROVE  OwnerOk(a)'
    BY <1>0
  <2>1. OwnerOk(a)
    BY DEF OwnInv, OwnersPublished, OwnerOk
  <2> QED
    BY <1>0, <2>1 DEF OwnerOk, InstancesKept
<1>2. OwnersPublished'
  <2>1. OwnersOk'
    BY <1>1 DEF OwnersOk
  <2> QED
    BY <2>1, OwnersEnough, PTL
<1>3. \A kind \in Kind : Size(kind)' = Size(kind)
  <2>1. DOMAIN tables' = DOMAIN tables /\ DOMAIN mems' = DOMAIN mems
        /\ DOMAIN globals' = DOMAIN globals
    BY DEF Quiet, Mutation, TablesStep, MemsStep, GlobalsStep
  <2>2. Len(tables') = Len(tables) /\ Len(mems') = Len(mems) /\ Len(globals') = Len(globals)
    <3>1. /\ tables \in Seq(TableInst(Len(funcs))) /\ tables' \in Seq(TableInst(Len(funcs')))
          /\ mems \in Seq(MemInst) /\ mems' \in Seq(MemInst)
          /\ globals \in Seq(GlobalInst(Len(funcs))) /\ globals' \in Seq(GlobalInst(Len(funcs')))
      BY DEF IInv, PoolsInv
    <3> QED
      BY ONLY <2>1, <3>1, LenProperties
  <2> QED
    BY <1>0, <2>2 DEF Size, Kind
<1>4. \A kind \in Kind : \A a : Held(kind, a) => Held(kind, a)'
  BY <1>0 DEF Held, InstancesKept
<1>5. CoverInv'
  BY <1>0, <1>3, <1>4 DEF OwnInv, CoverInv
<1> QED
  BY <1>2, <1>5 DEF OwnInv

\* Functions are added above the marks, for the instance that knows them.
LEMMA BegunOwn == ASSUME IInv, IInv', OwnInv, Begun PROVE OwnInv'
<1>0. /\ ~ Building /\ Building' /\ base' = Sizes
      /\ UNCHANGED <<tables, mems, globals, instances>>
      /\ Len(funcs) <= Len(funcs') /\ phase # "alloc"
      /\ Len(funcs) \in Nat /\ Len(funcs') \in Nat
      /\ DOMAIN funcs = 1..Len(funcs) /\ DOMAIN funcs' = 1..Len(funcs')
  <2>1. funcs \in Seq(FuncInst(Owners)) /\ funcs' \in Seq(FuncInst(Owners'))
    BY DEF IInv, PoolsInv
  <2>2. /\ Len(funcs) \in Nat /\ Len(funcs') \in Nat
        /\ DOMAIN funcs = 1..Len(funcs) /\ DOMAIN funcs' = 1..Len(funcs')
    BY ONLY <2>1, LenProperties
  <2> QED
    BY <2>2 DEF Begun, Building
<1>1. ASSUME NEW a \in Len(funcs) + 1 .. Len(funcs')
      PROVE  /\ funcs'[a].inst = 0 \/ (phase' = "alloc" /\ funcs'[a].inst = Len(instances) + 1)
             /\ a \in ToSet((inst').addrs.func) /\ a > (base').func
  BY <1>0 DEF Begun, Sizes
<1>2. \A a \in DOMAIN funcs' : OwnerOk(a)'
  <2> TAKE a \in DOMAIN funcs'
  <2>1. CASE a \in 1..Len(funcs)
    <3>1. OwnerOk(a) /\ funcs'[a] = funcs[a]
      BY <1>0, <2>1 DEF OwnInv, OwnersPublished, OwnerOk, Begun
    <3> QED
      BY <1>0, <3>1 DEF OwnerOk
  <2>2. CASE a \in Len(funcs) + 1 .. Len(funcs')
    BY <1>0, <1>1, <2>2 DEF OwnerOk
  <2> QED
    BY <1>0, <2>1, <2>2
<1>3. OwnersPublished'
  <2>1. OwnersOk'
    BY <1>2 DEF OwnersOk
  <2> QED
    BY <2>1, OwnersEnough, PTL
<1>4. CoverInv'
  <2> SUFFICES ASSUME NEW kind \in Kind, NEW a \in 1..Size(kind)'
               PROVE  \/ Held(kind, a)
                      \/ a > (base')[kind] /\ a \in ToSet((inst').addrs[kind])
    BY <1>0 DEF CoverInv, Held
  <2>1. CASE a \in 1..Size(kind)
    BY <1>0, <2>1 DEF OwnInv, CoverInv
  <2>2. CASE kind = "func" /\ a \notin 1..Size(kind)
    <3>1. a \in Len(funcs) + 1 .. Len(funcs')
      BY <1>0, <2>2 DEF Size
    <3> QED
      BY <1>1, <2>2, <3>1
  <2>3. kind # "func" => Size(kind)' = Size(kind)
    BY <1>0 DEF Size
  <2> QED
    BY <2>1, <2>2, <2>3
<1> QED
  BY <1>3, <1>4 DEF OwnInv

\* A new entry is held by the instance under construction.
LEMMA GrownOwn == ASSUME IInv, IInv', OwnInv, Grown PROVE OwnInv'
<1> PICK g \in Kind \ {"func"} : GrownBy(g)
  BY DEF Grown
<1>0. /\ Building /\ Building' /\ UNCHANGED <<phase, base, funcs, instances>>
      /\ Sizes \in SizeType /\ inst \in Inst(Sizes) /\ base \in SizeType /\ Leq(base, Sizes)
  BY KnownOk DEF Grown, IInv, InstancesInv, MarksInv, Building
<1>1. (inst').addrs.func = inst.addrs.func
  BY DEF GrownBy, Kind
<1>2. \A a \in DOMAIN funcs' : OwnerOk(a)'
  <2> TAKE a \in DOMAIN funcs'
  <2>1. OwnerOk(a)
    BY <1>0 DEF OwnInv, OwnersPublished, OwnerOk
  <2> QED
    BY <1>0, <1>1, <2>1 DEF OwnerOk
<1>3. OwnersPublished'
  <2>1. OwnersOk'
    BY <1>2 DEF OwnersOk
  <2> QED
    BY <2>1, OwnersEnough, PTL
<1>4. CoverInv'
  <2> SUFFICES ASSUME NEW kind \in Kind, NEW a \in 1..Size(kind)'
               PROVE  \/ Held(kind, a)
                      \/ a > base[kind] /\ a \in ToSet((inst').addrs[kind])
    BY <1>0 DEF CoverInv, Held
  <2>1. /\ Size(kind)' = IF kind = g THEN Sizes[kind] + 1 ELSE Sizes[kind]
        /\ (inst').addrs[kind] = IF kind = g THEN Append(inst.addrs[kind], Sizes[kind] + 1)
                                 ELSE inst.addrs[kind]
    BY SizeOfNext DEF GrownBy
  <2>2. /\ inst.addrs[kind] \in Seq(1..Sizes[kind])
        /\ Sizes[kind] \in Nat /\ base[kind] \in Nat /\ base[kind] <= Sizes[kind]
    <3>1. inst.addrs \in Addrs(Sizes)
      BY <1>0 DEF Inst
    <3> QED
      BY <1>0, <3>1 DEF Addrs, Kind, SizeType, Leq
  <2>3. /\ \A n \in ToSet(inst.addrs[kind]) : n \in ToSet((inst').addrs[kind])
        /\ kind = g => Sizes[kind] + 1 \in ToSet((inst').addrs[kind])
    <3>1. CASE kind = g
      <4> DEFINE d == inst.addrs[kind]
                 e == Sizes[kind] + 1
      <4>1. /\ Len(d) \in Nat /\ DOMAIN d = 1..Len(d) /\ DOMAIN Append(d, e) = 1 .. Len(d) + 1
            /\ \A n \in 1..Len(d) : Append(d, e)[n] = d[n]
            /\ Append(d, e)[Len(d) + 1] = e
        BY <2>2, AppendAny
      <4>2. (inst').addrs[kind] = Append(d, e)
        BY <2>1, <3>1
      <4> HIDE DEF d, e
      <4>3. \A n \in DOMAIN d : n \in DOMAIN Append(d, e) /\ Append(d, e)[n] = d[n]
        BY <4>1
      <4>4. Len(d) + 1 \in DOMAIN Append(d, e)
        BY <4>1
      <4>5. \A n \in ToSet(d) : n \in ToSet(Append(d, e))
        BY <4>3 DEF ToSet
      <4>6. e \in ToSet(Append(d, e))
        BY <4>1, <4>4 DEF ToSet
      <4> QED
        BY <4>2, <4>5, <4>6 DEF d, e
    <3>2. CASE kind # g
      BY <2>1, <3>2
    <3> QED
      BY <3>1, <3>2
  <2>4. CASE a \in 1..Sizes[kind]
    <3>1. a \in 1..Size(kind)
      BY <2>4, SizeOf
    <3>2. Held(kind, a) \/ (a > base[kind] /\ a \in ToSet(inst.addrs[kind]))
      BY <3>1 DEF OwnInv, CoverInv
    <3> QED
      BY <2>3, <3>2
  <2>5. CASE kind = g /\ a = Sizes[kind] + 1
    BY <2>2, <2>3, <2>5
  <2>6. a \in 1..Sizes[kind] \/ (kind = g /\ a = Sizes[kind] + 1)
    <3> DEFINE z == Sizes[kind]
               y == Size(kind)'
    <3>1. /\ y = IF kind = g THEN z + 1 ELSE z
          /\ z \in Nat /\ a \in 1..y
      BY <2>1, <2>2
    <3> HIDE DEF z, y
    <3>2. a \in 1..z \/ (kind = g /\ a = z + 1)
      BY <3>1
    <3> QED
      BY <3>2 DEF z
  <2> QED
    BY <2>4, <2>5, <2>6, Zenon
<1> QED
  BY <1>3, <1>4 DEF OwnInv

\* What is dropped lies above the marks, and nobody published holds it.
LEMMA DroppedOwn == ASSUME IInv, IInv', OwnInv, Dropped PROVE OwnInv'
<1>0. /\ Building /\ ~ Building' /\ instances' = instances /\ base \in SizeType
      /\ Leq(base, Sizes) /\ Sizes \in SizeType
  BY KnownOk DEF Dropped, Truncate, IInv, MarksInv
<1>1. /\ DOMAIN funcs' = 1..base.func /\ base.func \in Nat
      /\ \A a \in 1..base.func : funcs'[a] = funcs[a] /\ a \in DOMAIN funcs
      /\ \A kind \in Kind : Sizes'[kind] = base[kind]
  <2>1. /\ base.func <= Len(funcs) /\ base.table <= Len(tables)
        /\ base.mem <= Len(mems) /\ base.global <= Len(globals)
        /\ base.func \in Nat /\ base.table \in Nat /\ base.mem \in Nat /\ base.global \in Nat
    BY <1>0, MarksBelow
  <2>2. /\ funcs \in Seq(FuncInst(Owners)) /\ tables \in Seq(TableInst(Len(funcs)))
        /\ mems \in Seq(MemInst) /\ globals \in Seq(GlobalInst(Len(funcs)))
    BY DEF IInv, PoolsInv
  <2>3. /\ DOMAIN funcs' = 1..base.func
        /\ \A a \in 1..base.func : funcs'[a] = funcs[a] /\ a \in DOMAIN funcs
    BY <2>1, <2>2, SliceAt DEF Dropped, Truncate
  <2>4. /\ DOMAIN tables' = 1..base.table /\ DOMAIN mems' = 1..base.mem
        /\ DOMAIN globals' = 1..base.global
    BY <2>1, <2>2, SliceAt DEF Dropped, Truncate
  <2>5. /\ funcs' \in Seq(FuncInst(Owners')) /\ tables' \in Seq(TableInst(Len(funcs')))
        /\ mems' \in Seq(MemInst) /\ globals' \in Seq(GlobalInst(Len(funcs')))
    BY DEF IInv, PoolsInv
  <2>6. /\ DOMAIN funcs' = 1..Len(funcs') /\ Len(funcs') \in Nat
        /\ DOMAIN tables' = 1..Len(tables') /\ Len(tables') \in Nat
        /\ DOMAIN mems' = 1..Len(mems') /\ Len(mems') \in Nat
        /\ DOMAIN globals' = 1..Len(globals') /\ Len(globals') \in Nat
    BY ONLY <2>5, LenProperties
  <2>7. /\ Len(funcs') = base.func /\ Len(tables') = base.table
        /\ Len(mems') = base.mem /\ Len(globals') = base.global
    BY ONLY <2>1, <2>3, <2>4, <2>6
  <2> QED
    BY <2>1, <2>3, <2>7 DEF Sizes, Kind
<1>2. OwnersPublished'
  <2>1. OwnersOk'
    <3> SUFFICES ASSUME NEW a \in DOMAIN funcs'
                 PROVE  OwnerOk(a)'
      BY DEF OwnersOk
    <3>1. OwnerOk(a) /\ funcs'[a] = funcs[a] /\ ~ (a > base.func)
      BY <1>1 DEF OwnInv, OwnersPublished, OwnerOk
    <3> QED
      BY <1>0, <3>1 DEF OwnerOk
  <2> QED
    BY <2>1, OwnersEnough, PTL
<1>3. CoverInv'
  <2> SUFFICES ASSUME NEW kind \in Kind, NEW a \in 1..Size(kind)'
               PROVE  Held(kind, a)
    BY <1>0 DEF CoverInv, Held
  <2>1. base[kind] \in Nat /\ Sizes[kind] \in Nat /\ base[kind] <= Sizes[kind]
    BY <1>0 DEF SizeType, Kind, Leq
  <2>2. Size(kind)' = base[kind] /\ Size(kind) = Sizes[kind]
    BY <1>1, SizeOf, SizeOfNext
  <2>3. a \in 1..Size(kind) /\ ~ (a > base[kind])
    BY <2>1, <2>2
  <2> QED
    BY <2>3 DEF OwnInv, CoverInv
<1> QED
  BY <1>2, <1>3 DEF OwnInv

\* Publication hands over everything the instance holds.
LEMMA AddedOwn == ASSUME IInv, IInv', OwnInv, Added PROVE OwnInv'
<1> PICK in : in.addrs = inst.addrs /\ instances' = Append(instances, in)
  BY DEF Added
<1>0. Building /\ ~ Building' /\ UNCHANGED <<funcs, tables, mems, globals>>
  BY DEF Added
<1>1. /\ Len(instances) \in Nat /\ DOMAIN instances = 1..Len(instances)
      /\ DOMAIN instances' = 1 .. Len(instances) + 1
      /\ \A i \in 1..Len(instances) : instances'[i] = instances[i]
      /\ instances'[Len(instances) + 1] = in
  <2>1. instances \in Seq(Inst(Known))
    BY DEF IInv, InstancesInv
  <2> QED
    BY <2>1, AppendAny
<1>2. Len(instances) + 1 \in DOMAIN instances' /\ DOMAIN instances \subseteq DOMAIN instances'
  BY <1>1
<1>3. OwnersPublished'
  <2>1. OwnersOk'
    <3> SUFFICES ASSUME NEW a \in DOMAIN funcs
                 PROVE  OwnerOk(a)'
      BY <1>0 DEF OwnersOk
    <3>1. OwnerOk(a)
      BY DEF OwnInv, OwnersPublished, OwnerOk
    <3>2. CASE funcs[a].inst = 0
      BY <1>0, <3>2 DEF OwnerOk
    <3>3. CASE funcs[a].inst = Len(instances) + 1 /\ a \in ToSet(inst.addrs.func)
      BY <1>0, <1>1, <1>2, <3>3 DEF OwnerOk
    <3>4. CASE funcs[a].inst \in DOMAIN instances /\ a \in ToSet(instances[funcs[a].inst].addrs.func)
      BY <1>0, <1>1, <1>2, <3>4 DEF OwnerOk
    <3> QED
      BY <3>1, <3>2, <3>3, <3>4 DEF OwnerOk
  <2> QED
    BY <2>1, OwnersEnough, PTL
<1>4. CoverInv'
  <2> SUFFICES ASSUME NEW kind \in Kind, NEW a \in 1..Size(kind)
               PROVE  Held(kind, a)'
    BY <1>0 DEF CoverInv, Size
  <2>1. CASE Held(kind, a)
    BY <1>1, <1>2, <2>1 DEF Held
  <2>2. CASE a \in ToSet(inst.addrs[kind])
    BY <1>1, <1>2, <2>2 DEF Held
  <2> QED
    BY <2>1, <2>2 DEF OwnInv, CoverInv
<1> QED
  BY <1>3, <1>4 DEF OwnInv

\* Every step keeps the books.
LEMMA NextOwn == IInv /\ SoundInv /\ OwnInv /\ [Next]_vars => OwnInv'
<1> SUFFICES ASSUME IInv, SoundInv, OwnInv, [Next]_vars
             PROVE  OwnInv'
  OBVIOUS
<1>1. IInv'
  BY NextOk
<1>2. CASE Next
  BY <1>1, <1>2, NextShape, QuietOwn, BegunOwn, GrownOwn, DroppedOwn, AddedOwn DEF Shape
<1>3. CASE UNCHANGED vars
  BY <1>3 DEF vars, storeVars, callVars, runVars, OwnInv, OwnersPublished, CoverInv, Held, Size,
              Building
<1> QED
  BY <1>2, <1>3

\* The empty store has no entries.
LEMMA InitOwn == Init => OwnInv
BY DEF Init, OwnInv, OwnersPublished, CoverInv, Size, Kind

\* In every reachable state, through every failure of add_host_module and
\* instantiate (store.rs): each function has the owner it names, each entry
\* an instance that holds it, nothing is leaked.
THEOREM EveryEntryIsOwned == Spec => []Owned
<1>1. Init => IInv /\ SoundInv /\ OwnInv
  BY InitOk, InitSound, InitOwn
<1>2. (IInv /\ SoundInv /\ OwnInv) /\ [Next]_vars => (IInv /\ SoundInv /\ OwnInv)'
  BY NextOk, NextSound, NextOwn
<1>3. OwnInv => Owned
  BY DEF OwnInv, CoverInv, Held, Owned, NoOrphans, Building
<1> QED
  BY <1>1, <1>2, <1>3, PTL DEF Spec

-----------------------------------------------------------------------------
(* The store keeps StoreAbs' promise.  While a call builds an instance the *)
(* abstract store is what lies below the marks, so building and taking     *)
(* back are invisible and publication adds everything in one step.         *)

\* A slice from the start, written out.
LEMMA SliceIs ==
  ASSUME NEW S, NEW s \in Seq(S), NEW n \in Nat, n <= Len(s)
  PROVE  SubSeq(s, 1, n) = [i \in 1..n |-> s[i]] /\ Len(SubSeq(s, 1, n)) = n
<1>1. SubSeq(s, 1, n) = [i \in 1..n |-> s[i]]
  BY DEF SubSeq
<1>2. \A i \in 1..n : s[i] \in S
  BY ElementOfSeq, LenProperties
<1>3. SubSeq(s, 1, n) \in [1..n -> S]
  BY <1>1, <1>2
<1> QED
  BY <1>1, <1>3, FunSeq

\* All of a sequence.
LEMMA SliceAll ==
  ASSUME NEW S, NEW s \in Seq(S)
  PROVE  SubSeq(s, 1, Len(s)) = s
<1>1. Len(s) \in Nat /\ s = [i \in 1..Len(s) |-> s[i]]
  BY LenProperties
<1> QED
  BY <1>1, SliceIs

\* Slices agree where the sequences do.
LEMMA SliceSame ==
  ASSUME NEW S, NEW s \in Seq(S), NEW T, NEW t \in Seq(T), NEW n \in Nat,
         n <= Len(s), n <= Len(t), \A i \in 1..n : t[i] = s[i]
  PROVE  SubSeq(t, 1, n) = SubSeq(s, 1, n)
<1>1. [i \in 1..n |-> t[i]] = [i \in 1..n |-> s[i]]
  OBVIOUS
<1> QED
  BY <1>1, SliceIs

\* The pools as the embedder knows them.
ViewF == IF Building THEN SubSeq(funcs, 1, base.func) ELSE funcs
ViewT == IF Building THEN SubSeq(tables, 1, base.table) ELSE tables
ViewM == IF Building THEN SubSeq(mems, 1, base.mem) ELSE mems
ViewG == IF Building THEN SubSeq(globals, 1, base.global) ELSE globals

ViewSame == UNCHANGED <<ViewF, ViewT, ViewM, ViewG, instances>>

\* The pools are sequences.
LEMMA PoolTypes ==
  IInv => \E F, T, M, G : /\ funcs \in Seq(F) /\ tables \in Seq(T)
                          /\ mems \in Seq(M) /\ globals \in Seq(G)
BY DEF IInv, PoolsInv

\* Setting the marks hides what comes after them.
LEMMA BegunView == ASSUME IInv, IInv', Begun PROVE ViewSame
<1>0. /\ ~ Building /\ Building' /\ base' = Sizes
      /\ UNCHANGED <<tables, mems, globals, instances>>
      /\ Len(funcs) <= Len(funcs') /\ \A a \in 1..Len(funcs) : funcs'[a] = funcs[a]
  BY DEF Begun
<1>1. /\ funcs \in Seq(FuncInst(Owners)) /\ funcs' \in Seq(FuncInst(Owners'))
      /\ tables \in Seq(TableInst(Len(funcs))) /\ mems \in Seq(MemInst)
      /\ globals \in Seq(GlobalInst(Len(funcs))) /\ Len(funcs) \in Nat
  BY SizesOk DEF IInv, PoolsInv
<1>2. SubSeq(funcs', 1, Len(funcs)) = funcs
  <2>1. Len(funcs) <= Len(funcs)
    BY <1>1
  <2>2. SubSeq(funcs', 1, Len(funcs)) = SubSeq(funcs, 1, Len(funcs))
    BY <1>0, <1>1, <2>1, SliceSame
  <2> QED
    BY <1>1, <2>2, SliceAll
<1>3. /\ SubSeq(tables, 1, Len(tables)) = tables /\ SubSeq(mems, 1, Len(mems)) = mems
      /\ SubSeq(globals, 1, Len(globals)) = globals
  BY <1>1, SliceAll
<1> QED
  BY <1>0, <1>2, <1>3 DEF ViewSame, ViewF, ViewT, ViewM, ViewG, Sizes

\* What grows above the marks is not seen.
LEMMA GrownView == ASSUME IInv, IInv', Grown PROVE ViewSame
<1>0. /\ Building /\ Building' /\ UNCHANGED <<base, funcs, instances>> /\ SamePrefix(Sizes)
  BY DEF Grown, Building
<1>1. /\ tables \in Seq(TableInst(Len(funcs))) /\ tables' \in Seq(TableInst(Len(funcs')))
      /\ mems \in Seq(MemInst) /\ mems' \in Seq(MemInst)
      /\ globals \in Seq(GlobalInst(Len(funcs))) /\ globals' \in Seq(GlobalInst(Len(funcs')))
  BY DEF IInv, PoolsInv
<1>2. /\ base.table \in Nat /\ base.mem \in Nat /\ base.global \in Nat
      /\ base.table <= Len(tables) /\ base.mem <= Len(mems) /\ base.global <= Len(globals)
  BY <1>0, MarksBelow
<1>3. /\ base.table <= Len(tables') /\ base.mem <= Len(mems') /\ base.global <= Len(globals')
  BY <1>0 DEF IInv, MarksInv, Leq, Sizes
<1>4. /\ \A a \in 1..base.table : tables'[a] = tables[a]
      /\ \A a \in 1..base.mem : mems'[a] = mems[a]
      /\ \A a \in 1..base.global : globals'[a] = globals[a]
  <2>1. Len(tables) \in Nat /\ Len(mems) \in Nat /\ Len(globals) \in Nat
    BY <1>1, LenProperties
  <2> QED
    BY <1>0, <1>2, <2>1 DEF SamePrefix, Sizes
<1>5. SubSeq(tables', 1, base.table) = SubSeq(tables, 1, base.table)
  BY <1>1, <1>2, <1>3, <1>4, SliceSame
<1>6. SubSeq(mems', 1, base.mem) = SubSeq(mems, 1, base.mem)
  BY <1>1, <1>2, <1>3, <1>4, SliceSame
<1>7. SubSeq(globals', 1, base.global) = SubSeq(globals, 1, base.global)
  BY <1>1, <1>2, <1>3, <1>4, SliceSame
<1> QED
  BY <1>0, <1>5, <1>6, <1>7 DEF ViewSame, ViewF, ViewT, ViewM, ViewG

\* What is dropped was not seen.
LEMMA DroppedView == Dropped => ViewSame
BY DEF Dropped, Truncate, ViewSame, ViewF, ViewT, ViewM, ViewG

\* What is published was not seen and is seen at once.
LEMMA AddedView == ASSUME IInv, IInv', Added PROVE Abs!AddInstance
<1> PICK in : in.addrs = inst.addrs /\ instances' = Append(instances, in)
  BY DEF Added
<1>0. Building /\ ~ Building' /\ UNCHANGED <<funcs, tables, mems, globals>>
  BY DEF Added
<1>1. /\ funcs \in Seq(FuncInst(Owners)) /\ tables \in Seq(TableInst(Len(funcs)))
      /\ mems \in Seq(MemInst) /\ globals \in Seq(GlobalInst(Len(funcs)))
      /\ instances \in Seq(Inst(Known)) /\ inst \in Inst(Sizes)
  BY DEF IInv, PoolsInv, InstancesInv
<1>2. /\ base.func \in Nat /\ base.table \in Nat /\ base.mem \in Nat /\ base.global \in Nat
      /\ base.func <= Len(funcs) /\ base.table <= Len(tables)
      /\ base.mem <= Len(mems) /\ base.global <= Len(globals)
  BY <1>0, MarksBelow
<1>3. /\ Len(SubSeq(funcs, 1, base.func)) = base.func
      /\ Len(SubSeq(tables, 1, base.table)) = base.table
      /\ Len(SubSeq(mems, 1, base.mem)) = base.mem
      /\ Len(SubSeq(globals, 1, base.global)) = base.global
  BY <1>1, <1>2, SliceIs
<1>4. /\ Len(instances) \in Nat /\ Len(instances') = Len(instances) + 1
      /\ SubSeq(instances', 1, Len(instances)) = instances
      /\ instances'[Len(instances) + 1] = in
  <2>1. /\ Len(instances) \in Nat /\ Len(instances') = Len(instances) + 1
        /\ \A i \in 1..Len(instances) : instances'[i] = instances[i]
        /\ instances'[Len(instances) + 1] = in
    BY <1>1, AppendAny
  <2>2. instances' \in Seq(Inst(Known'))
    BY DEF IInv, InstancesInv
  <2>3. Len(instances) <= Len(instances) /\ Len(instances) <= Len(instances')
    BY <2>1
  <2>4. SubSeq(instances', 1, Len(instances)) = SubSeq(instances, 1, Len(instances))
    BY <1>1, <2>1, <2>2, <2>3, SliceSame
  <2> QED
    BY <1>1, <2>1, <2>4, SliceAll
<1>5. /\ \A n \in DOMAIN inst.addrs.func : inst.addrs.func[n] \in DOMAIN funcs
      /\ \A n \in DOMAIN inst.addrs.table : inst.addrs.table[n] \in DOMAIN tables
      /\ \A n \in DOMAIN inst.addrs.mem : inst.addrs.mem[n] \in DOMAIN mems
      /\ \A n \in DOMAIN inst.addrs.global : inst.addrs.global[n] \in DOMAIN globals
  <2>1. /\ inst.addrs.func \in Seq(1..Len(funcs)) /\ inst.addrs.table \in Seq(1..Len(tables))
        /\ inst.addrs.mem \in Seq(1..Len(mems)) /\ inst.addrs.global \in Seq(1..Len(globals))
    BY <1>1 DEF Inst, Addrs, Sizes
  <2>2. /\ DOMAIN funcs = 1..Len(funcs) /\ DOMAIN tables = 1..Len(tables)
        /\ DOMAIN mems = 1..Len(mems) /\ DOMAIN globals = 1..Len(globals)
    BY <1>1, LenProperties
  <2> QED
    BY <2>1, <2>2, SeqAt
<1>6. instances'[Len(instances) + 1].addrs = inst.addrs
  BY <1>4
<1>7. Abs!Resolves(instances'[Len(instances) + 1])
  <2> DEFINE new == instances'[Len(instances) + 1]
  <2>1. new.addrs = inst.addrs
    BY <1>6
  <2> HIDE DEF new
  <2>2. Abs!Resolves(new)
    BY <1>0, <1>5, <2>1 DEF Abs!Resolves
  <2> QED
    BY <2>2 DEF new
<1>8. /\ Abs!Extends(ViewF', ViewF) /\ Abs!Extends(ViewT', ViewT)
      /\ Abs!Extends(ViewM', ViewM) /\ Abs!Extends(ViewG', ViewG)
  BY <1>0, <1>2, <1>3 DEF Abs!Extends, ViewF, ViewT, ViewM, ViewG
<1>9. Abs!Extends(instances', instances)
  BY <1>4 DEF Abs!Extends
<1> QED
  BY <1>4, <1>7, <1>8, <1>9 DEF Abs!AddInstance, ViewF, ViewT, ViewM, ViewG

\* What changes contents is a mutation of what is seen.
LEMMA QuietView == Quiet => Abs!Mutate
BY DEF Quiet, Mutation, TablesStep, MemsStep, GlobalsStep, InstancesStep, Abs!Mutate,
       Raw!TableStep, Raw!MemStep, Raw!GlobalStep, Raw!InstanceStep, Raw!Within,
       Abs!TableStep, Abs!MemStep, Abs!GlobalStep, Abs!InstanceStep, Abs!Within

\* Every step is a step of the abstract store or none.
LEMMA NextView == IInv /\ SoundInv /\ [Next]_vars => [Abs!Next]_(Abs!vars)
<1> SUFFICES ASSUME IInv, SoundInv, [Next]_vars
             PROVE  [Abs!Next]_(Abs!vars)
  OBVIOUS
<1>1. IInv'
  BY NextOk
<1>2. ViewSame => UNCHANGED Abs!vars
  BY DEF ViewSame, ViewF, ViewT, ViewM, ViewG, Abs!vars
<1>3. CASE Next
  BY <1>1, <1>2, <1>3, NextShape, QuietView, BegunView, GrownView, DroppedView, AddedView
  DEF Shape, Abs!Next
<1>4. CASE UNCHANGED vars
  <2>1. ViewSame
    BY <1>4 DEF vars, storeVars, callVars, runVars, ViewSame, ViewF, ViewT, ViewM, ViewG, Building
  <2> QED
    BY <1>2, <2>1
<1> QED
  BY <1>3, <1>4

\* The store keeps its promise: linking (add_host_module, instantiate) is
\* atomic, what is added stays, and running code only changes contents.
THEOREM StoreKeepsPromise == Spec => KeepsPromise
<1>1. Init => Abs!Init
  BY DEF Init, Abs!Init, Building
<1>2. IInv /\ SoundInv /\ [Next]_vars => [Abs!Next]_(Abs!vars)
  BY NextView
<1> QED
  BY <1>1, <1>2, StoreSoundInv, PTL DEF Spec, KeepsPromise, Abs!Spec

-----------------------------------------------------------------------------
(* Segments in order.  The operators take the module m, the position n the *)
(* initialization is at, and what it works on as parameters.               *)

\* A constant expression, with addresses ad and globals gs.
EvalAt(ad, gs, e) ==
  LET c == e[1] IN
  CASE c.op = "i32.const"  -> I32(c.val)
    [] c.op = "ref.null"   -> NullOf(c.ty)
    [] c.op = "ref.func"   -> FuncRef(ad.func[c.idx])
    [] c.op = "global.get" -> gs[ad.global[c.idx]].val

\* Segments behind n are dropped as their mode says, the others are whole.
SegmentsLeft(m, n, in, gs) ==
  /\ \A i \in DOMAIN m.elems :
       in.elems[i] = IF i < n /\ m.elems[i].mode # "passive" THEN <<>>
                     ELSE [j \in DOMAIN m.elems[i].init |->
                             EvalAt(in.addrs, gs, m.elems[i].init[j])]
  /\ \A i \in DOMAIN m.datas :
       in.datas[i] = IF i + Len(m.elems) < n /\ m.datas[i].mode = "active" THEN 0
                     ELSE m.datas[i].len

\* Where element segment i writes: the table, and the place of element j.
Target(m, i, ad)       == ad.table[m.elems[i].table]
Place(m, i, j, ad, gs) == EvalAt(ad, gs, m.elems[i].offset).bits + j

\* Active segments behind n.
Done(m, i, n) == i \in DOMAIN m.elems /\ i < n /\ m.elems[i].mode = "active"

\* A segment after i, behind n, writes over element j of segment i.
Overwritten(m, n, i, j, ad, gs) ==
  \E x \in DOMAIN m.elems : \E o \in DOMAIN m.elems[x].init :
    /\ x > i /\ Done(m, x, n)
    /\ Target(m, x, ad) = Target(m, i, ad) /\ Place(m, x, o, ad, gs) = Place(m, i, j, ad, gs)

\* Every element of an active segment behind n is where it belongs, inside
\* the table, unless it is overwritten.
SegmentsWritten(m, n, ad, gs, ts) ==
  \A i \in DOMAIN m.elems : \A j \in DOMAIN m.elems[i].init :
    Done(m, i, n) =>
      /\ Target(m, i, ad) \in DOMAIN ts
      /\ Place(m, i, j, ad, gs) \in DOMAIN ts[Target(m, i, ad)].elems
      /\ \/ Overwritten(m, n, i, j, ad, gs)
         \/ ts[Target(m, i, ad)].elems[Place(m, i, j, ad, gs)]
              = EvalAt(ad, gs, m.elems[i].init[j])

Newest == instances[Len(instances)]

SegInv ==
  phase = "segments" =>
    /\ SegmentsLeft(mod, k, Newest, globals)
    /\ SegmentsWritten(mod, k, Newest.addrs, globals, tables)

\* The code evaluates expressions with the addresses of the instance.
LEMMA EvalIsAt == \A in, e : EvalConst(in, e) = EvalAt(in.addrs, globals, e)
BY DEF EvalConst, EvalAt

\* Past an element segment.
LEMMA LeftElem ==
  ASSUME NEW m \in Module, NEW n \in DOMAIN m.elems, NEW x, NEW y, NEW gs,
         SegmentsLeft(m, n, x, gs), y.addrs = x.addrs, y.datas = x.datas,
         \A i \in DOMAIN m.elems : i # n => y.elems[i] = x.elems[i],
         y.elems[n] = IF m.elems[n].mode # "passive" THEN <<>> ELSE x.elems[n]
  PROVE  SegmentsLeft(m, n + 1, y, gs)
<1>0. /\ DOMAIN m.elems = 1..Len(m.elems) /\ Len(m.elems) \in Nat
      /\ DOMAIN m.datas = 1..Len(m.datas) /\ Len(m.datas) \in Nat
  <2>1. m.elems \in Seq(Elem) /\ m.datas \in Seq(Data)
    BY DEF Module
  <2> QED
    BY <2>1, LenProperties
<1>1. ASSUME NEW i \in DOMAIN m.elems
      PROVE  y.elems[i] = IF i < n + 1 /\ m.elems[i].mode # "passive" THEN <<>>
                          ELSE [j \in DOMAIN m.elems[i].init |->
                                  EvalAt(y.addrs, gs, m.elems[i].init[j])]
  <2>1. x.elems[i] = IF i < n /\ m.elems[i].mode # "passive" THEN <<>>
                     ELSE [j \in DOMAIN m.elems[i].init |->
                             EvalAt(x.addrs, gs, m.elems[i].init[j])]
    BY DEF SegmentsLeft
  <2>2. (i # n => (i < n + 1 <=> i < n)) /\ n < n + 1 /\ ~ (n < n)
    BY <1>0
  <2>3. CASE i = n
    BY <2>1, <2>2, <2>3
  <2>4. CASE i # n
    BY <2>1, <2>2, <2>4
  <2> QED
    BY <2>3, <2>4
<1>2. ASSUME NEW i \in DOMAIN m.datas
      PROVE  y.datas[i] = IF i + Len(m.elems) < n + 1 /\ m.datas[i].mode = "active" THEN 0
                          ELSE m.datas[i].len
  <2>1. ~ (i + Len(m.elems) < n + 1) /\ ~ (i + Len(m.elems) < n)
    BY <1>0
  <2> QED
    BY <2>1 DEF SegmentsLeft
<1> QED
  BY <1>1, <1>2 DEF SegmentsLeft

\* Past a data segment.
LEMMA LeftData ==
  ASSUME NEW m \in Module, NEW n \in Nat, n - Len(m.elems) \in DOMAIN m.datas,
         NEW x, NEW y, NEW gs,
         SegmentsLeft(m, n, x, gs), y.addrs = x.addrs, y.elems = x.elems,
         \A i \in DOMAIN m.datas : i # n - Len(m.elems) => y.datas[i] = x.datas[i],
         y.datas[n - Len(m.elems)] = IF m.datas[n - Len(m.elems)].mode = "active" THEN 0
                                     ELSE x.datas[n - Len(m.elems)]
  PROVE  SegmentsLeft(m, n + 1, y, gs)
<1> DEFINE d == n - Len(m.elems)
<1>0. /\ DOMAIN m.elems = 1..Len(m.elems) /\ Len(m.elems) \in Nat
      /\ DOMAIN m.datas = 1..Len(m.datas) /\ Len(m.datas) \in Nat
  <2>1. m.elems \in Seq(Elem) /\ m.datas \in Seq(Data)
    BY DEF Module
  <2> QED
    BY <2>1, LenProperties
<1>1. ASSUME NEW i \in DOMAIN m.elems
      PROVE  y.elems[i] = IF i < n + 1 /\ m.elems[i].mode # "passive" THEN <<>>
                          ELSE [j \in DOMAIN m.elems[i].init |->
                                  EvalAt(y.addrs, gs, m.elems[i].init[j])]
  <2>1. x.elems[i] = IF i < n /\ m.elems[i].mode # "passive" THEN <<>>
                     ELSE [j \in DOMAIN m.elems[i].init |->
                             EvalAt(x.addrs, gs, m.elems[i].init[j])]
    BY DEF SegmentsLeft
  <2>2. i < n + 1 /\ i < n
    BY <1>0
  <2> QED
    BY <2>1, <2>2
<1>2. ASSUME NEW i \in DOMAIN m.datas
      PROVE  y.datas[i] = IF i + Len(m.elems) < n + 1 /\ m.datas[i].mode = "active" THEN 0
                          ELSE m.datas[i].len
  <2>1. /\ i # d => (i + Len(m.elems) < n + 1 <=> i + Len(m.elems) < n)
        /\ d + Len(m.elems) < n + 1 /\ ~ (d + Len(m.elems) < n)
    BY <1>0
  <2>2. x.datas[i] = IF i + Len(m.elems) < n /\ m.datas[i].mode = "active" THEN 0
                     ELSE m.datas[i].len
    BY DEF SegmentsLeft
  <2>3. /\ i # d => y.datas[i] = x.datas[i]
        /\ y.datas[d] = IF m.datas[d].mode = "active" THEN 0 ELSE x.datas[d]
    OBVIOUS
  <2> HIDE DEF d
  <2>4. CASE i = d
    BY <2>1, <2>2, <2>3, <2>4
  <2>5. CASE i # d
    BY <2>1, <2>2, <2>3, <2>5
  <2> QED
    BY <2>4, <2>5
<1> QED
  BY <1>1, <1>2 DEF SegmentsLeft

\* Past a segment that writes nothing.
LEMMA WrittenSkip ==
  ASSUME NEW m \in Module, NEW n \in Nat, NEW ad, NEW gs, NEW ts,
         n \in DOMAIN m.elems => m.elems[n].mode # "active",
         SegmentsWritten(m, n, ad, gs, ts)
  PROVE  SegmentsWritten(m, n + 1, ad, gs, ts)
<1>0. DOMAIN m.elems = 1..Len(m.elems) /\ Len(m.elems) \in Nat
  <2>1. m.elems \in Seq(Elem)
    BY DEF Module
  <2> QED
    BY <2>1, LenProperties
<1>1. \A i : Done(m, i, n + 1) <=> Done(m, i, n)
  <2> SUFFICES ASSUME NEW i \in DOMAIN m.elems, m.elems[i].mode = "active"
               PROVE  i < n + 1 <=> i < n
    BY DEF Done
  <2>1. i # n
    OBVIOUS
  <2> QED
    BY <1>0, <2>1
<1>2. \A i, j : Overwritten(m, n, i, j, ad, gs) => Overwritten(m, n + 1, i, j, ad, gs)
  BY <1>1 DEF Overwritten
<1> QED
  BY <1>1, <1>2 DEF SegmentsWritten

\* What CopyInto puts where.
LEMMA CopyIntoAt ==
  ASSUME NEW S, NEW dst \in Seq(S), NEW src, Len(src) \in Nat, NEW d \in Nat,
         d + Len(src) <= Len(dst)
  PROVE  /\ DOMAIN CopyInto(dst, d, src) = DOMAIN dst
         /\ \A j \in 1..Len(src) : d + j \in DOMAIN dst /\ CopyInto(dst, d, src)[d + j] = src[j]
         /\ \A p \in DOMAIN dst : (\A j \in 1..Len(src) : p # d + j) =>
              CopyInto(dst, d, src)[p] = dst[p]
<1>0. Len(dst) \in Nat /\ DOMAIN dst = 1..Len(dst)
  BY LenProperties
<1>1. DOMAIN CopyInto(dst, d, src) = DOMAIN dst
  BY DEF CopyInto
<1>2. ASSUME NEW j \in 1..Len(src)
      PROVE  d + j \in DOMAIN dst /\ CopyInto(dst, d, src)[d + j] = src[j]
  <2>1. /\ d + j \in DOMAIN dst /\ d + j > d /\ d + j <= d + Len(src) /\ (d + j) - d = j
    BY <1>0
  <2>2. CopyInto(dst, d, src)[d + j] = src[(d + j) - d]
    BY <2>1 DEF CopyInto
  <2> QED
    BY <2>1, <2>2
<1>3. ASSUME NEW p \in DOMAIN dst, \A j \in 1..Len(src) : p # d + j
      PROVE  CopyInto(dst, d, src)[p] = dst[p]
  <2>1. ~ (p > d /\ p <= d + Len(src))
    <3> SUFFICES ASSUME p > d, p <= d + Len(src)
                 PROVE  FALSE
      OBVIOUS
    <3>1. p - d \in 1..Len(src) /\ p = d + (p - d)
      BY <1>0
    <3> QED
      BY <1>3, <3>1
  <2> QED
    BY <2>1 DEF CopyInto
<1> QED
  BY <1>1, <1>2, <1>3

\* Past an active segment: its elements are in place, and what it wrote over
\* was another's.
LEMMA WrittenElem ==
  ASSUME NEW m \in Module, NEW n \in DOMAIN m.elems, NEW ad, NEW gs, NEW ts, NEW us,
         m.elems[n].mode = "active", SegmentsWritten(m, n, ad, gs, ts),
         NEW S, NEW a, a = Target(m, n, ad), a \in DOMAIN ts, ts[a].elems \in Seq(S),
         NEW off \in Nat, off = EvalAt(ad, gs, m.elems[n].offset).bits,
         NEW seg, seg = [j \in DOMAIN m.elems[n].init |-> EvalAt(ad, gs, m.elems[n].init[j])],
         off + Len(seg) <= Len(ts[a].elems),
         DOMAIN us = DOMAIN ts, \A b \in DOMAIN ts : b # a => us[b] = ts[b],
         us[a].elems = CopyInto(ts[a].elems, off, seg)
  PROVE  SegmentsWritten(m, n + 1, ad, gs, us)
<1>0. /\ DOMAIN m.elems = 1..Len(m.elems) /\ Len(m.elems) \in Nat
      /\ DOMAIN m.elems[n].init = 1..Len(seg) /\ Len(seg) \in Nat
  <2>1. m.elems \in Seq(Elem)
    BY DEF Module
  <2>2. m.elems[n] \in Elem
    BY <2>1, SeqAt
  <2>3. m.elems[n].init \in Seq(ConstExpr)
    BY <2>2 DEF Elem
  <2> DEFINE l == Len(m.elems[n].init)
             T == {EvalAt(ad, gs, m.elems[n].init[j]) : j \in DOMAIN m.elems[n].init}
  <2>4. l \in Nat /\ DOMAIN m.elems[n].init = 1..l
    BY <2>3, LenProperties
  <2>5. seg \in [1..l -> T]
    BY <2>4
  <2> HIDE DEF l, T
  <2>6. Len(seg) = l
    BY <2>4, <2>5, FunSeq
  <2> QED
    BY <2>1, <2>4, <2>6, LenProperties
<1>1. /\ DOMAIN us[a].elems = DOMAIN ts[a].elems
      /\ \A j \in 1..Len(seg) : off + j \in DOMAIN us[a].elems /\ us[a].elems[off + j] = seg[j]
      /\ \A p \in DOMAIN ts[a].elems : (\A j \in 1..Len(seg) : p # off + j) =>
           us[a].elems[p] = ts[a].elems[p]
  <2> DEFINE dst == ts[a].elems
             c   == CopyInto(dst, off, seg)
  <2>1. us[a].elems = c /\ dst \in Seq(S) /\ off + Len(seg) <= Len(dst)
    OBVIOUS
  <2> HIDE DEF dst
  <2>2. /\ DOMAIN c = DOMAIN dst
        /\ \A j \in 1..Len(seg) : off + j \in DOMAIN dst /\ c[off + j] = seg[j]
        /\ \A p \in DOMAIN dst : (\A j \in 1..Len(seg) : p # off + j) => c[p] = dst[p]
    <3>1. Len(seg) \in Nat /\ off \in Nat
      BY <1>0
    <3> QED
      BY ONLY <2>1, <3>1, CopyIntoAt
  <2> HIDE DEF c
  <2>3. /\ DOMAIN us[a].elems = DOMAIN dst
        /\ \A j \in 1..Len(seg) : off + j \in DOMAIN us[a].elems /\ us[a].elems[off + j] = seg[j]
        /\ \A p \in DOMAIN dst : (\A j \in 1..Len(seg) : p # off + j) => us[a].elems[p] = dst[p]
    BY <2>1, <2>2
  <2> QED
    BY <2>3 DEF dst
<1>2. \A j : Place(m, n, j, ad, gs) = off + j
  BY DEF Place
<1>3. \A i : Done(m, i, n + 1) <=> Done(m, i, n) \/ i = n
  BY <1>0 DEF Done
<1>4. \A i, j : Overwritten(m, n, i, j, ad, gs) => Overwritten(m, n + 1, i, j, ad, gs)
  BY <1>3 DEF Overwritten
<1> SUFFICES ASSUME NEW i \in DOMAIN m.elems, NEW j \in DOMAIN m.elems[i].init, Done(m, i, n + 1)
             PROVE  /\ Target(m, i, ad) \in DOMAIN us
                    /\ Place(m, i, j, ad, gs) \in DOMAIN us[Target(m, i, ad)].elems
                    /\ \/ Overwritten(m, n + 1, i, j, ad, gs)
                       \/ us[Target(m, i, ad)].elems[Place(m, i, j, ad, gs)]
                            = EvalAt(ad, gs, m.elems[i].init[j])
  BY DEF SegmentsWritten
<1>5. CASE i = n
  <2>1. j \in 1..Len(seg) /\ seg[j] = EvalAt(ad, gs, m.elems[n].init[j])
    BY <1>0, <1>5
  <2>2. /\ Target(m, i, ad) = a /\ Place(m, i, j, ad, gs) = off + j
        /\ EvalAt(ad, gs, m.elems[i].init[j]) = seg[j] /\ a \in DOMAIN us
    BY <1>2, <1>5, <2>1
  <2>3. off + j \in DOMAIN us[a].elems /\ us[a].elems[off + j] = seg[j]
    BY <1>1, <2>1
  <2> QED
    BY <2>2, <2>3
<1>6. CASE i # n
  <2> DEFINE t == Target(m, i, ad)
             p == Place(m, i, j, ad, gs)
             v == EvalAt(ad, gs, m.elems[i].init[j])
  <2>1. Done(m, i, n) /\ i < n
    BY <1>3, <1>6 DEF Done
  <2>2. /\ t \in DOMAIN ts /\ p \in DOMAIN ts[t].elems
        /\ Overwritten(m, n, i, j, ad, gs) \/ ts[t].elems[p] = v
    BY <2>1 DEF SegmentsWritten
  <2>3. t \in DOMAIN us /\ DOMAIN us[t].elems = DOMAIN ts[t].elems
    BY <1>1, <2>2
  <2>4. CASE t = a /\ \E o \in 1..Len(seg) : p = off + o
    <3>1. Overwritten(m, n + 1, i, j, ad, gs)
      BY <1>0, <1>2, <1>3, <2>1, <2>4 DEF Overwritten
    <3> QED
      BY <2>2, <2>3, <3>1
  <2>5. CASE ~ (t = a /\ \E o \in 1..Len(seg) : p = off + o)
    <3>1. us[t].elems[p] = ts[t].elems[p]
      BY <1>1, <2>2, <2>5
    <3> QED
      BY <1>4, <2>2, <2>3, <3>1
  <2> QED
    BY <2>4, <2>5
<1> QED
  BY <1>5, <1>6

\* What clearing a segment of the newest instance leaves of it.
LEMMA ClearedElem ==
  ASSUME IInv, ~ Building, instances # <<>>, NEW e \in DOMAIN Newest.elems,
         instances' = [instances EXCEPT ![Len(instances)].elems[e] = <<>>]
  PROVE  /\ (Newest').addrs = Newest.addrs /\ (Newest').datas = Newest.datas
         /\ (Newest').elems[e] = <<>>
         /\ \A i \in DOMAIN Newest.elems : i # e => (Newest').elems[i] = Newest.elems[i]
<1> DEFINE n  == Len(instances)
           es == [Newest.elems EXCEPT ![e] = <<>>]
<1>1. n \in DOMAIN instances /\ Newest \in Inst(Sizes) /\ instances \in Seq(Inst(Sizes))
  BY Published, EmptySeq DEF Newest
<1>2. instances' = [instances EXCEPT ![n] = [Newest EXCEPT !.elems = es]]
  BY DEF Newest
<1>3. Len(instances') = n
  <2>1. instances \in Seq(Inst(Sizes) \union {[Newest EXCEPT !.elems = es]})
    <3>1. Seq(Inst(Sizes)) \subseteq Seq(Inst(Sizes) \union {[Newest EXCEPT !.elems = es]})
      BY SeqMono
    <3> QED
      BY <1>1, <3>1
  <2> QED
    BY <1>1, <1>2, <2>1, ExceptSeq
<1>4. es[e] = <<>> /\ \A i \in DOMAIN Newest.elems : i # e => es[i] = Newest.elems[i]
  OBVIOUS
<1>5. DOMAIN Newest = {"exports", "addrs", "elems", "datas"}
  BY <1>1 DEF Inst
<1> HIDE DEF es
<1>6. Newest' = [Newest EXCEPT !.elems = es]
  BY <1>1, <1>2, <1>3 DEF Newest
<1> QED
  BY <1>4, <1>5, <1>6

\* Emptying a data segment of the newest instance.
LEMMA ClearedData ==
  ASSUME IInv, ~ Building, instances # <<>>, NEW d \in DOMAIN Newest.datas,
         instances' = [instances EXCEPT ![Len(instances)].datas[d] = 0]
  PROVE  /\ (Newest').addrs = Newest.addrs /\ (Newest').elems = Newest.elems
         /\ (Newest').datas[d] = 0
         /\ \A i \in DOMAIN Newest.datas : i # d => (Newest').datas[i] = Newest.datas[i]
<1> DEFINE n  == Len(instances)
           ds == [Newest.datas EXCEPT ![d] = 0]
<1>1. n \in DOMAIN instances /\ Newest \in Inst(Sizes) /\ instances \in Seq(Inst(Sizes))
  BY Published, EmptySeq DEF Newest
<1>2. instances' = [instances EXCEPT ![n] = [Newest EXCEPT !.datas = ds]]
  BY DEF Newest
<1>3. Len(instances') = n
  <2>1. instances \in Seq(Inst(Sizes) \union {[Newest EXCEPT !.datas = ds]})
    <3>1. Seq(Inst(Sizes)) \subseteq Seq(Inst(Sizes) \union {[Newest EXCEPT !.datas = ds]})
      BY SeqMono
    <3> QED
      BY <1>1, <3>1
  <2> QED
    BY <1>1, <1>2, <2>1, ExceptSeq
<1>4. ds[d] = 0 /\ \A i \in DOMAIN Newest.datas : i # d => ds[i] = Newest.datas[i]
  OBVIOUS
<1>5. DOMAIN Newest = {"exports", "addrs", "elems", "datas"}
  BY <1>1 DEF Inst
<1> HIDE DEF ds
<1>6. Newest' = [Newest EXCEPT !.datas = ds]
  BY <1>1, <1>2, <1>3 DEF Newest
<1> QED
  BY <1>4, <1>5, <1>6

\* An element segment is applied, dropped or left alone.
LEMMA ApplyElemInOrder == IInv /\ SoundInv /\ SegInv /\ ApplyElem => SegInv'
<1> SUFFICES ASSUME IInv, SoundInv, SegInv, ApplyElem, phase' = "segments"
             PROVE  /\ SegmentsLeft(mod', k', Newest', globals')
                    /\ SegmentsWritten(mod', k', (Newest').addrs, globals', tables')
  BY DEF SegInv
<1> DEFINE e   == mod.elems[k]
           ad  == Newest.addrs
           seg == Newest.elems[k]
           a   == ad.table[e.table]
           off == EvalConst(Newest, e.offset).bits
           cleared == [instances EXCEPT ![Len(instances)].elems[k] = <<>>]
<1>0. /\ phase = "segments" /\ k \in DOMAIN mod.elems /\ ~ Building
      /\ SegmentsLeft(mod, k, Newest, globals) /\ SegmentsWritten(mod, k, ad, globals, tables)
  BY DEF ApplyElem, SegInv, Building
<1>1. /\ mod \in Module /\ ValidModule(mod) /\ Newest \in Inst(Sizes) /\ Sizes \in SizeType
      /\ k \in DOMAIN Newest.elems /\ k \in Nat /\ instances # <<>>
      /\ e \in Elem
  <2>1. /\ mod \in Module /\ ValidModule(mod) /\ Newest \in Inst(Sizes) /\ Sizes \in SizeType
        /\ DOMAIN Newest.elems = DOMAIN mod.elems
    BY <1>0, LastRuns DEF Newest
  <2>2. mod.elems \in Seq(Elem)
    BY <2>1 DEF Module
  <2> QED
    BY <1>0, <2>1, <2>2, SeqAt DEF IInv, CallInv
<1>2. mod' = mod /\ k' = k + 1 /\ globals' = globals
  BY DEF ApplyElem, Trapped, Finish, NextSegment, storeVars
<1>3. instances' = cleared =>
        /\ (Newest').addrs = Newest.addrs /\ (Newest').datas = Newest.datas
        /\ (Newest').elems[k] = <<>>
        /\ \A i \in DOMAIN Newest.elems : i # k => (Newest').elems[i] = Newest.elems[i]
  BY <1>0, <1>1, ClearedElem
<1>4. DOMAIN Newest.elems = DOMAIN mod.elems
  BY <1>0, LastRuns DEF Newest
<1>5. CASE e.mode = "passive" /\ UNCHANGED storeVars
  <2>1. Newest' = Newest /\ tables' = tables
    BY <1>5 DEF Newest, storeVars
  <2>2. SegmentsLeft(mod, k + 1, Newest, globals)
    BY <1>0, <1>1, <1>5, LeftElem
  <2>3. SegmentsWritten(mod, k + 1, ad, globals, tables)
    BY <1>0, <1>1, <1>5, WrittenSkip
  <2> QED
    BY <1>2, <2>1, <2>2, <2>3
<1>6. CASE e.mode = "declarative" /\ instances' = cleared /\ tables' = tables
  <2>1. SegmentsLeft(mod, k + 1, Newest', globals)
    BY <1>0, <1>1, <1>3, <1>4, <1>6, LeftElem
  <2>2. SegmentsWritten(mod, k + 1, ad, globals, tables)
    BY <1>0, <1>1, <1>6, WrittenSkip
  <2> QED
    BY <1>2, <1>3, <1>6, <2>1, <2>2
<1>7. CASE /\ e.mode = "active" /\ instances' = cleared
           /\ e.table \in DOMAIN ad.table /\ Evaluable(Newest, e.offset)
           /\ off + Len(seg) <= Len(tables[a].elems)
           /\ tables' = [tables EXCEPT ![a].elems = CopyInto(@, off, seg)]
  <2>1. SegmentsLeft(mod, k + 1, Newest', globals)
    BY <1>0, <1>1, <1>3, <1>4, <1>7, LeftElem
  <2>2. a \in DOMAIN tables /\ tables[a].elems \in Seq(RefValue(Len(funcs)))
    <3>1. a \in 1..Len(tables) /\ a \in DOMAIN tables
      BY <1>0, <1>1, <1>7, AddrOk, Published DEF Kind, Sizes
    <3> QED
      BY <3>1, TypedElems DEF SoundInv, ContentInv
  <2>3. off \in Nat /\ off = EvalAt(ad, globals, e.offset).bits
    <3>1. EvalConst(Newest, e.offset) \in RefValue(Len(funcs))
      BY <1>1, <1>7, EvalConstOk DEF IInv, Elem
    <3> QED
      BY <3>1, EvalIsAt DEF RefValue, Value
  <2>4. seg = [j \in DOMAIN mod.elems[k].init |-> EvalAt(ad, globals, mod.elems[k].init[j])]
    <3>1. ~ (k < k)
      BY <1>1
    <3> QED
      BY <1>0, <3>1 DEF SegmentsLeft
  <2>5. /\ DOMAIN tables' = DOMAIN tables /\ \A b \in DOMAIN tables : b # a => tables'[b] = tables[b]
        /\ tables'[a].elems = CopyInto(tables[a].elems, off, seg)
    <3> DEFINE c == CopyInto(tables[a].elems, off, seg)
    <3>1. DOMAIN tables[a] = {"ty", "elems"}
      <4>1. tables[a] \in TableInst(Len(funcs))
        BY <2>2, SeqAt DEF IInv, PoolsInv
      <4> QED
        BY <4>1 DEF TableInst
    <3>2. tables' = [tables EXCEPT ![a] = [tables[a] EXCEPT !.elems = c]]
      BY <1>7
    <3> HIDE DEF c, a
    <3>3. /\ DOMAIN tables' = DOMAIN tables
          /\ \A b \in DOMAIN tables : b # a => tables'[b] = tables[b]
          /\ tables'[a] = [tables[a] EXCEPT !.elems = c]
      BY <2>2, <3>2
    <3>4. tables'[a].elems = c
      BY <3>1, <3>3
    <3> QED
      BY <3>3, <3>4 DEF c
  <2>6. a = Target(mod, k, ad)
    BY DEF Target
  <2> HIDE DEF a, off, seg, ad
  <2>7. SegmentsWritten(mod, k + 1, ad, globals, tables')
    BY <1>0, <1>1, <1>7, <2>2, <2>3, <2>4, <2>5, <2>6, WrittenElem
  <2> QED
    BY <1>2, <1>3, <1>7, <2>1, <2>7 DEF ad
<1>8. CASE Trapped
  BY <1>8 DEF Trapped, Finish
<1> QED
  BY <1>5, <1>6, <1>7, <1>8 DEF ApplyElem, Newest

\* A data segment is applied or left alone; no table changes.
LEMMA ApplyDataInOrder == IInv /\ SoundInv /\ SegInv /\ ApplyData => SegInv'
<1> SUFFICES ASSUME IInv, SoundInv, SegInv, ApplyData, phase' = "segments"
             PROVE  /\ SegmentsLeft(mod', k', Newest', globals')
                    /\ SegmentsWritten(mod', k', (Newest').addrs, globals', tables')
  BY DEF SegInv
<1> DEFINE d == k - Len(mod.elems)
           cleared == [instances EXCEPT ![Len(instances)].datas[d] = 0]
<1>0. /\ phase = "segments" /\ d \in DOMAIN mod.datas /\ ~ Building
      /\ SegmentsLeft(mod, k, Newest, globals)
      /\ SegmentsWritten(mod, k, Newest.addrs, globals, tables)
  BY DEF ApplyData, SegInv, Building
<1>1. /\ mod \in Module /\ k \in Nat /\ instances # <<>>
      /\ d \in DOMAIN Newest.datas /\ DOMAIN Newest.datas = DOMAIN mod.datas
  BY <1>0, LastRuns DEF Newest, IInv, CallInv
<1>2. k \notin DOMAIN mod.elems
  <2>1. mod.elems \in Seq(Elem) /\ mod.datas \in Seq(Data)
    BY <1>1 DEF Module
  <2>2. DOMAIN mod.elems = 1..Len(mod.elems) /\ Len(mod.elems) \in Nat
        /\ DOMAIN mod.datas = 1..Len(mod.datas) /\ Len(mod.datas) \in Nat
    BY <2>1, LenProperties
  <2> QED
    BY <1>0, <1>1, <2>2
<1>3. mod' = mod /\ k' = k + 1 /\ globals' = globals /\ tables' = tables
  BY DEF ApplyData, Trapped, Finish, NextSegment, storeVars
<1>4. SegmentsWritten(mod, k + 1, Newest.addrs, globals, tables)
  BY <1>0, <1>1, <1>2, WrittenSkip
<1>5. CASE mod.datas[d].mode = "passive" /\ UNCHANGED storeVars
  <2>1. Newest' = Newest
    BY <1>5 DEF Newest, storeVars
  <2>2. SegmentsLeft(mod, k + 1, Newest, globals)
    BY <1>0, <1>1, <1>5, LeftData
  <2> QED
    BY <1>3, <1>4, <2>1, <2>2
<1>6. CASE mod.datas[d].mode = "active" /\ instances' = cleared
  <2>1. /\ (Newest').addrs = Newest.addrs /\ (Newest').elems = Newest.elems
        /\ (Newest').datas[d] = 0
        /\ \A i \in DOMAIN Newest.datas : i # d => (Newest').datas[i] = Newest.datas[i]
    BY <1>0, <1>1, <1>6, ClearedData
  <2>2. SegmentsLeft(mod, k + 1, Newest', globals)
    BY <1>0, <1>1, <1>6, <2>1, LeftData
  <2> QED
    BY <1>3, <1>4, <2>1, <2>2
<1>7. CASE Trapped
  BY <1>7 DEF Trapped, Finish
<1> QED
  BY <1>5, <1>6, <1>7 DEF ApplyData

\* Publication evaluates the segments.
LEMMA PublishInOrder == IInv /\ PublishInstance => SegInv'
<1> SUFFICES ASSUME IInv, PublishInstance
             PROVE  SegInv'
  OBVIOUS
<1> DEFINE in == Newest'
<1>0. /\ mod' = mod /\ k' = 1 /\ globals' = globals /\ mod \in Module
  BY StoreAssumption DEF PublishInstance, IInv, CallInv
<1>1. /\ in.addrs = inst.addrs
      /\ in.elems = [i \in DOMAIN mod.elems |->
                       [j \in DOMAIN mod.elems[i].init |->
                          EvalConst(inst, mod.elems[i].init[j])]]
      /\ in.datas = [i \in DOMAIN mod.datas |-> mod.datas[i].len]
  <2> DEFINE els == [i \in DOMAIN mod.elems |->
                       [j \in DOMAIN mod.elems[i].init |-> EvalConst(inst, mod.elems[i].init[j])]]
             das == [i \in DOMAIN mod.datas |-> mod.datas[i].len]
             exs == [i \in DOMAIN mod.exports |->
                       LET x == mod.exports[i] IN
                       [name |-> x.name,
                        ev |-> [kind |-> x.kind, addr |-> inst.addrs[x.kind][x.idx]]]]
             x   == [exports |-> exs, addrs |-> inst.addrs, elems |-> els, datas |-> das]
  <2>1. instances' = Append(instances, x)
    BY DEF PublishInstance, Publish
  <2>3. x.addrs = inst.addrs /\ x.elems = els /\ x.datas = das
    <3> HIDE DEF els, das, exs
    <3> QED
      OBVIOUS
  <2> HIDE DEF x
  <2>2. Newest' = x
    <3>1. instances \in Seq(Inst(Known))
      BY DEF IInv, InstancesInv
    <3> QED
      BY <2>1, <3>1, AppendAny DEF Newest
  <2> QED
    BY <2>2, <2>3
<1> HIDE DEF in
<1>2. /\ DOMAIN mod.elems = 1..Len(mod.elems) /\ Len(mod.elems) \in Nat
      /\ DOMAIN mod.datas = 1..Len(mod.datas) /\ Len(mod.datas) \in Nat
  <2>1. mod.elems \in Seq(Elem) /\ mod.datas \in Seq(Data)
    BY <1>0 DEF Module
  <2> QED
    BY <2>1, LenProperties
<1>3. SegmentsLeft(mod, 1, in, globals)
  <2>1. ASSUME NEW i \in DOMAIN mod.elems
        PROVE  in.elems[i] = IF i < 1 /\ mod.elems[i].mode # "passive" THEN <<>>
                             ELSE [j \in DOMAIN mod.elems[i].init |->
                                     EvalAt(in.addrs, globals, mod.elems[i].init[j])]
    <3>1. ~ (i < 1)
      BY <1>2
    <3>2. in.elems[i] = [j \in DOMAIN mod.elems[i].init |->
                           EvalConst(inst, mod.elems[i].init[j])]
      BY <1>1
    <3>3. \A e : EvalConst(inst, e) = EvalAt(in.addrs, globals, e)
      BY <1>1, EvalIsAt
    <3> QED
      BY <3>1, <3>2, <3>3
  <2>2. ASSUME NEW i \in DOMAIN mod.datas
        PROVE  in.datas[i] = IF i + Len(mod.elems) < 1 /\ mod.datas[i].mode = "active" THEN 0
                             ELSE mod.datas[i].len
    <3>1. ~ (i + Len(mod.elems) < 1)
      BY <1>2
    <3> QED
      BY <1>1, <3>1
  <2> QED
    BY <2>1, <2>2 DEF SegmentsLeft
<1>4. SegmentsWritten(mod, 1, in.addrs, globals, tables')
  <2>1. \A i \in DOMAIN mod.elems : ~ (i < 1)
    BY <1>2
  <2> QED
    BY <2>1 DEF SegmentsWritten, Done
<1> QED
  BY <1>0, <1>3, <1>4 DEF SegInv, in

\* No other step is in the phase of segments or gets there.
LEMMA NextInOrder == IInv /\ SoundInv /\ SegInv /\ [Next]_vars => SegInv'
<1> SUFFICES ASSUME IInv, SoundInv, SegInv, [Next]_vars
             PROVE  SegInv'
  OBVIOUS
<1>1. CASE ApplyElem \/ ApplyData \/ PublishInstance
  BY <1>1, ApplyElemInOrder, ApplyDataInOrder, PublishInOrder
<1>2. CASE UNCHANGED vars
  BY <1>2 DEF vars, storeVars, callVars, SegInv, Newest
<1>3. CASE AddHostModule \/ Instantiate \/ InvokeExport \/ RunStart
  <2>1. ASSUME NEW a, NEW args, Enter(a, args)
        PROVE  phase' \in {"idle", "run"}
    BY <2>1 DEF Enter, Finish
  <2>2. InvokeExport => Finish("refused") \/ \E a, args : Enter(a, args)
    BY DEF InvokeExport
  <2>3. RunStart => Finish("ok") \/ \E a, args : Enter(a, args)
    BY DEF RunStart
  <2>4. phase' # "segments"
    BY <1>3, <2>1, <2>2, <2>3 DEF AddHostModule, Instantiate, Finish
  <2> QED
    BY <2>4 DEF SegInv
<1>4. CASE HostGlobal \/ HostTable \/ HostMem \/ PublishHost \/ ResolveImport \/ AllocFuncs
           \/ AllocGlobal \/ AllocTable \/ AllocMem
  <2>1. phase' # "segments"
    BY <1>4 DEF HostGlobal, HostTable, HostMem, PublishHost, ResolveImport, AllocFuncs,
                AllocGlobal, AllocTable, AllocMem, Rollback, Finish
  <2> QED
    BY <2>1 DEF SegInv
<1>5. CASE Instruction
  <2>1. phase = "run" /\ (phase' = phase \/ phase' = "idle")
    BY <1>5 DEF Instruction, RefFunc, GlobalGet, GlobalSet, TableGet, TableFill, TableInit,
                TableCopy, TableGrow, MemoryGrow, DropSegment, Call, CallIndirect, Return, Trap,
                Trapped, Finish, Running, Executed, TableOp
  <2> QED
    BY <2>1 DEF SegInv
<1> QED
  BY <1>1, <1>2, <1>3, <1>4, <1>5 DEF Next, Advance

\* Segments are applied in order (store.rs, instantiate): at every moment
\* exactly those behind the current one are dropped that should be, and each
\* element an active one wrote is in its table unless a later one wrote there.
LEMMA AlwaysInOrder == Spec => []AppliedInOrder
<1>1. Init => SegInv
  BY DEF Init, SegInv
<1>2. IInv /\ SoundInv /\ SegInv => AppliedInOrder
  <2> SUFFICES ASSUME IInv, SoundInv, SegInv, phase = "segments"
               PROVE  AppliedInOrder
    BY DEF AppliedInOrder
  <2> DEFINE in == Newest
             ad == Newest.addrs
  <2>0. /\ SegmentsLeft(mod, k, in, globals) /\ SegmentsWritten(mod, k, ad, globals, tables)
        /\ mod \in Module
    BY LastRuns DEF SegInv
  <2>1. ASSUME NEW i \in DOMAIN mod.elems
        PROVE  Len(in.elems[i]) = IF i < k /\ mod.elems[i].mode # "passive"
                                  THEN 0 ELSE Len(mod.elems[i].init)
    <3> DEFINE init == mod.elems[i].init
               T    == {EvalAt(ad, globals, init[j]) : j \in DOMAIN init}
               seg  == [j \in DOMAIN init |-> EvalAt(ad, globals, init[j])]
    <3>1. Len(init) \in Nat /\ DOMAIN init = 1..Len(init)
      <4>1. mod.elems \in Seq(Elem)
        BY <2>0 DEF Module
      <4>2. mod.elems[i] \in Elem
        BY <4>1, SeqAt
      <4>3. init \in Seq(ConstExpr)
        BY <4>2 DEF Elem
      <4> QED
        BY <4>3, LenProperties
    <3>2. Len(seg) = Len(init)
      <4>1. seg \in [1..Len(init) -> T]
        BY <3>1
      <4> HIDE DEF seg, T, init
      <4> QED
        BY <3>1, <4>1, FunSeq
    <3>3. in.elems[i] = IF i < k /\ mod.elems[i].mode # "passive" THEN <<>> ELSE seg
      BY <2>0 DEF SegmentsLeft
    <3> HIDE DEF seg
    <3> QED
      BY <3>2, <3>3
  <2>2. \A i \in DOMAIN mod.datas :
          in.datas[i] = IF i + Len(mod.elems) < k /\ mod.datas[i].mode = "active"
                        THEN 0 ELSE mod.datas[i].len
    BY <2>0 DEF SegmentsLeft
  <2>3. ASSUME NEW i \in DOMAIN mod.elems, NEW n \in DOMAIN mod.elems[i].init,
               i < k, mod.elems[i].mode = "active"
        PROVE  \/ \E j \in i + 1 .. Len(mod.elems) :
                    /\ j < k /\ mod.elems[j].mode = "active"
                    /\ \E o \in DOMAIN mod.elems[j].init :
                         /\ Target(mod, j, ad) = Target(mod, i, ad)
                         /\ Place(mod, j, o, ad, globals) = Place(mod, i, n, ad, globals)
               \/ tables[Target(mod, i, ad)].elems[Place(mod, i, n, ad, globals)]
                    = EvalAt(ad, globals, mod.elems[i].init[n])
    <3>1. DOMAIN mod.elems = 1..Len(mod.elems) /\ Len(mod.elems) \in Nat
      <4>1. mod.elems \in Seq(Elem)
        BY <2>0 DEF Module
      <4> QED
        BY <4>1, LenProperties
    <3>2. \/ Overwritten(mod, k, i, n, ad, globals)
          \/ tables[Target(mod, i, ad)].elems[Place(mod, i, n, ad, globals)]
               = EvalAt(ad, globals, mod.elems[i].init[n])
      BY <2>0, <2>3 DEF SegmentsWritten, Done
    <3>3. \A x \in DOMAIN mod.elems : x > i => x \in i + 1 .. Len(mod.elems)
      BY <3>1
    <3> QED
      BY <3>2, <3>3 DEF Overwritten, Done
  <2> DEFINE in0      == instances[Len(instances)]
             at(i, n) == <<in0.addrs.table[mod.elems[i].table],
                           EvalConst(in0, mod.elems[i].offset).bits + n>>
  <2>4. /\ in = in0
        /\ \A e : EvalAt(ad, globals, e) = EvalConst(in0, e)
        /\ \A i, n : at(i, n) = <<Target(mod, i, ad), Place(mod, i, n, ad, globals)>>
    BY EvalIsAt DEF Newest, Target, Place
  <2> HIDE DEF in, in0, ad, at
  <2>5. \A i \in DOMAIN mod.elems :
          Len(in0.elems[i]) = IF i < k /\ mod.elems[i].mode # "passive"
                              THEN 0 ELSE Len(mod.elems[i].init)
    BY <2>1, <2>4
  <2>6. \A i \in DOMAIN mod.datas :
          in0.datas[i] = IF i + Len(mod.elems) < k /\ mod.datas[i].mode = "active"
                         THEN 0 ELSE mod.datas[i].len
    BY <2>2, <2>4
  <2>7. ASSUME NEW i \in DOMAIN mod.elems, NEW n \in DOMAIN mod.elems[i].init
        PROVE  \/ i >= k \/ ~ (mod.elems[i].mode = "active")
               \/ \E j \in i + 1 .. Len(mod.elems) :
                    j < k /\ mod.elems[j].mode = "active"
                    /\ \E o \in DOMAIN mod.elems[j].init : at(j, o) = at(i, n)
               \/ tables[at(i, n)[1]].elems[at(i, n)[2]] = EvalConst(in0, mod.elems[i].init[n])
    <3>1. i < k \/ i >= k
      <4>1. i \in Nat
        <5>1. mod.elems \in Seq(Elem)
          BY <2>0 DEF Module
        <5> QED
          BY <5>1, LenProperties
      <4>2. k \in Nat
        BY DEF IInv, CallInv
      <4> QED
        BY <4>1, <4>2
    <3>2. CASE i < k /\ mod.elems[i].mode = "active"
      <4>1. \/ \E j \in i + 1 .. Len(mod.elems) :
                  /\ j < k /\ mod.elems[j].mode = "active"
                  /\ \E o \in DOMAIN mod.elems[j].init :
                       /\ Target(mod, j, ad) = Target(mod, i, ad)
                       /\ Place(mod, j, o, ad, globals) = Place(mod, i, n, ad, globals)
            \/ tables[Target(mod, i, ad)].elems[Place(mod, i, n, ad, globals)]
                  = EvalAt(ad, globals, mod.elems[i].init[n])
        BY <2>3, <3>2
      <4>2. ASSUME NEW j, NEW o,
                   /\ Target(mod, j, ad) = Target(mod, i, ad)
                   /\ Place(mod, j, o, ad, globals) = Place(mod, i, n, ad, globals)
            PROVE  at(j, o) = at(i, n)
        BY <2>4, <4>2
      <4>3. /\ at(i, n)[1] = Target(mod, i, ad)
            /\ at(i, n)[2] = Place(mod, i, n, ad, globals)
        BY <2>4
      <4>4. EvalAt(ad, globals, mod.elems[i].init[n]) = EvalConst(in0, mod.elems[i].init[n])
        BY <2>4
      <4>5. CASE \E j \in i + 1 .. Len(mod.elems) :
                  /\ j < k /\ mod.elems[j].mode = "active"
                  /\ \E o \in DOMAIN mod.elems[j].init :
                       /\ Target(mod, j, ad) = Target(mod, i, ad)
                       /\ Place(mod, j, o, ad, globals) = Place(mod, i, n, ad, globals)
        BY <4>2, <4>5
      <4>6. CASE tables[Target(mod, i, ad)].elems[Place(mod, i, n, ad, globals)]
                   = EvalAt(ad, globals, mod.elems[i].init[n])
        BY <4>3, <4>4, <4>6
      <4> QED
        BY <4>1, <4>5, <4>6
    <3> QED
      BY <3>1, <3>2
  <2> QED
    BY <2>5, <2>6, <2>7 DEF AppliedInOrder, in0, at
<1> QED
  BY <1>1, <1>2, NextInOrder, StoreSoundInv, PTL DEF Spec

\* A segment or a start function that traps takes nothing back and writes
\* nothing itself (store.rs, instantiate).
LEMMA EffectsPersist == Spec => PartialEffectsPersist
<1> DEFINE Persists == phase = "segments" /\ phase' = "idle" /\ ret' = "trap" => UNCHANGED storeVars
<1>1. [Next]_vars => [Persists]_vars
  <2> SUFFICES ASSUME Next, phase = "segments", phase' = "idle"
               PROVE  UNCHANGED storeVars
    OBVIOUS
  <2>1. CASE AddHostModule \/ Instantiate \/ InvokeExport
    BY <2>1 DEF AddHostModule, Instantiate, InvokeExport
  <2>2. CASE Instruction
    BY <2>2 DEF Instruction, RefFunc, GlobalGet, GlobalSet, TableGet, TableFill, TableInit,
                TableCopy, TableGrow, MemoryGrow, DropSegment, Call, CallIndirect, Return, Trap,
                Running, TableOp
  <2>3. CASE \/ HostGlobal \/ HostTable \/ HostMem \/ PublishHost
             \/ ResolveImport \/ AllocFuncs \/ AllocGlobal \/ AllocTable \/ AllocMem
             \/ PublishInstance
    BY <2>3 DEF HostGlobal, HostTable, HostMem, PublishHost, ResolveImport, AllocFuncs,
                AllocGlobal, AllocTable, AllocMem, PublishInstance
  <2>4. NextSegment => FALSE
    BY DEF NextSegment
  <2>5. Trapped => UNCHANGED storeVars
    BY DEF Trapped
  <2>6. CASE ApplyElem
    BY <2>4, <2>5, <2>6 DEF ApplyElem
  <2>7. CASE ApplyData
    BY <2>4, <2>5, <2>7 DEF ApplyData
  <2>8. CASE RunStart
    BY <2>8 DEF RunStart, Enter
  <2> QED
    BY <2>1, <2>2, <2>3, <2>6, <2>7, <2>8 DEF Next, Advance
<1> QED
  BY <1>1, PTL DEF Spec, PartialEffectsPersist

\* Segments are applied in order, one after another, and a trap among them or in
\* the start function leaves just what came before it (store.rs, instantiate).
THEOREM SegmentsStayInOrder == Spec => SegmentsInOrder
BY AlwaysInOrder, EffectsPersist DEF SegmentsInOrder
=============================================================================
