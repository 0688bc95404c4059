------------------------------ MODULE StoreAbs ------------------------------
(***************************************************************************)
(* What a store promises the modules that share it.  Adding an instance is *)
(* one atomic extension of the store; whatever fails before it leaves no   *)
(* trace.  Everything else may only change contents: addresses, types and  *)
(* exports are for ever, immutable globals keep their value, tables and    *)
(* memories grow within their declared limits and never shrink, segments   *)
(* are kept or dropped whole.                                              *)
(***************************************************************************)
EXTENDS Integers, Sequences

CONSTANT NoMax   \* stands for the absence of a maximum

VARIABLES funcs, tables, mems, globals, instances

vars == <<funcs, tables, mems, globals, instances>>

Init ==
  funcs = <<>> /\ tables = <<>> /\ mems = <<>> /\ globals = <<>> /\ instances = <<>>

\* new is old with more entries after it.
Extends(new, old) ==
  Len(old) <= Len(new) /\ SubSeq(new, 1, Len(old)) = old

\* The addresses an instance holds lie in the extended store.
Resolves(i) ==
  /\ \A n \in DOMAIN i.addrs.func   : i.addrs.func[n] \in DOMAIN funcs'
  /\ \A n \in DOMAIN i.addrs.table  : i.addrs.table[n] \in DOMAIN tables'
  /\ \A n \in DOMAIN i.addrs.mem    : i.addrs.mem[n] \in DOMAIN mems'
  /\ \A n \in DOMAIN i.addrs.global : i.addrs.global[n] \in DOMAIN globals'

\* A link that succeeds: all the new entries appear with their instance.
AddInstance ==
  /\ Extends(funcs', funcs) /\ Extends(tables', tables)
  /\ Extends(mems', mems) /\ Extends(globals', globals)
  /\ Extends(instances', instances) /\ Len(instances') = Len(instances) + 1
  /\ Resolves(instances'[Len(instances) + 1])

Within(n, limits) == limits.max # NoMax => n <= limits.max

TableStep(old, new) ==
  /\ new.ty = old.ty
  /\ Len(old.elems) <= Len(new.elems)
  /\ Len(old.elems) < Len(new.elems) => Within(Len(new.elems), old.ty.limits)

MemStep(old, new) ==
  /\ new.ty = old.ty
  /\ old.pages <= new.pages
  /\ old.pages < new.pages => Within(new.pages, old.ty.limits)

GlobalStep(old, new) ==
  new.ty = old.ty /\ (old.ty.mutable \/ new.val = old.val)

InstanceStep(old, new) ==
  /\ new.exports = old.exports /\ new.addrs = old.addrs
  /\ DOMAIN new.elems = DOMAIN old.elems
  /\ \A i \in DOMAIN old.elems : new.elems[i] \in {old.elems[i], <<>>}
  /\ DOMAIN new.datas = DOMAIN old.datas
  /\ \A i \in DOMAIN old.datas : new.datas[i] \in {old.datas[i], 0}

\* Segment initialization and running code: contents only.
Mutate ==
  /\ funcs' = funcs
  /\ DOMAIN tables' = DOMAIN tables
  /\ \A a \in DOMAIN tables : TableStep(tables[a], tables'[a])
  /\ DOMAIN mems' = DOMAIN mems
  /\ \A a \in DOMAIN mems : MemStep(mems[a], mems'[a])
  /\ DOMAIN globals' = DOMAIN globals
  /\ \A a \in DOMAIN globals : GlobalStep(globals[a], globals'[a])
  /\ DOMAIN instances' = DOMAIN instances
  /\ \A i \in DOMAIN instances : InstanceStep(instances[i], instances'[i])

Next == AddInstance \/ Mutate

Spec == Init /\ [][Next]_vars
=============================================================================
