----------------------------- MODULE WasmModule -----------------------------
(***************************************************************************)
(* The data a store works on: values, types, limits, the descriptors of a  *)
(* decoded module and of a host module, and the module-level part of       *)
(* validation (validate.rs, `validate` without the code bodies).           *)
(*                                                                         *)
(* Every index and address is 1-based here: position i of a Rust vector is *)
(* i + 1, and a function reference holds 0 when it is null.                *)
(***************************************************************************)
EXTENDS Integers, Sequences, FiniteSets

CONSTANTS
  TABLE_IMPL_LIMIT,    \* elements a table may hold (1 << 27 in the code)
  MAX_PAGES            \* pages a memory may hold (65536 in the code)

ASSUME LimitsAssumption ==
  /\ TABLE_IMPL_LIMIT \in Nat
  /\ MAX_PAGES \in Nat

-----------------------------------------------------------------------------
(* Values and types.  i32 stands for every number type: the store treats   *)
(* them alike.                                                             *)

RefType == {"funcref", "externref"}
ValType == RefType \union {"i32"}
Kind    == {"func", "table", "mem", "global"}

Value == [ty : ValType, bits : Nat]

NullOf(t)  == [ty |-> t, bits |-> 0]
FuncRef(a) == [ty |-> "funcref", bits |-> a]
I32(n)     == [ty |-> "i32", bits |-> n]

NoMax      == -1
Limits     == [min : Nat, max : Nat \union {NoMax}]
FuncType   == [params : Seq(ValType), results : Seq(ValType)]
TableType  == [elem : RefType, limits : Limits]
MemType    == [limits : Limits]
GlobalType == [val : ValType, mutable : BOOLEAN]

\* Well-formed limits: min <= max when present, both within the ceiling.
LimitsOk(l, ceiling) ==
  /\ l.min <= ceiling
  /\ l.max # NoMax => l.max <= ceiling /\ l.min <= l.max

\* Mutant of LimitsMatch: an entity without a maximum passes for any.
LimitsMatchMax(have, want) ==
  /\ have.min >= want.min
  /\ want.max # NoMax /\ have.max # NoMax => have.max <= want.max

\* Import matching: {n1, m1} satisfies {n2, m2}.
LimitsMatch(have, want) ==
  /\ have.min >= want.min
  /\ want.max # NoMax => have.max # NoMax /\ have.max <= want.max

-----------------------------------------------------------------------------
(* Decoded modules (module.rs) and host descriptors.  A constant           *)
(* expression is the sequence of its operators without the final End; each *)
(* operator pushes exactly one value.                                      *)

ConstInstr == [op : {"i32.const"}, val : Nat]
              \union [op : {"ref.null"}, ty : RefType]
              \union [op : {"ref.func", "global.get"}, idx : Nat]
ConstExpr  == Seq(ConstInstr)

Import == [kind : {"func"}, idx : Nat]
          \union [kind : {"table"}, ty : TableType]
          \union [kind : {"mem"}, ty : MemType]
          \union [kind : {"global"}, ty : GlobalType]

Elem == [ty : RefType, init : Seq(ConstExpr), offset : ConstExpr,
         mode : {"active", "passive", "declarative"}, table : Nat]
Data == [len : Nat, mode : {"active", "passive"}, mem : Nat, offset : ConstExpr]

Module ==
  [types   : Seq(FuncType),
   imports : Seq(Import),
   funcs   : Seq(Nat),         \* type indices
   tables  : Seq(TableType),
   mems    : Seq(MemType),
   globals : Seq([ty : GlobalType, init : ConstExpr]),
   elems   : Seq(Elem),
   datas   : Seq(Data),
   exports : Seq([name : STRING, kind : Kind, idx : Nat]),
   start   : Nat,              \* 0, or a function index
   refs    : SUBSET Nat]       \* the functions its bodies name with ref.func

HostModule ==
  [funcs   : Seq([name : STRING, ty : FuncType]),
   globals : Seq([name : STRING, ty : GlobalType, val : Value]),
   tables  : Seq([name : STRING, ty : TableType]),
   mems    : Seq([name : STRING, ty : MemType])]

-----------------------------------------------------------------------------
(* Module-level validation.                                                *)

\* The imports of a kind among the first n, for every n.
ImportsUpTo(m, kind) ==
  LET upTo[n \in 0..Len(m.imports)] ==
        IF n = 0 THEN <<>>
        ELSE IF m.imports[n].kind = kind THEN Append(upTo[n - 1], m.imports[n])
        ELSE upTo[n - 1]
  IN  upTo

ImportsOf(m, kind) == ImportsUpTo(m, kind)[Len(m.imports)]

\* The index space of each kind: imports first, then the module's own.
FuncSpace(m)   == [i \in DOMAIN ImportsOf(m, "func") |->
                     ImportsOf(m, "func")[i].idx] \o m.funcs
TableSpace(m)  == [i \in DOMAIN ImportsOf(m, "table") |->
                     ImportsOf(m, "table")[i].ty] \o m.tables
MemSpace(m)    == [i \in DOMAIN ImportsOf(m, "mem") |->
                     ImportsOf(m, "mem")[i].ty] \o m.mems
GlobalSpace(m) == [i \in DOMAIN ImportsOf(m, "global") |->
                     ImportsOf(m, "global")[i].ty]
                  \o [i \in DOMAIN m.globals |-> m.globals[i].ty]

SpaceSize(m, kind) ==
  CASE kind = "func"   -> Len(FuncSpace(m))
    [] kind = "table"  -> Len(TableSpace(m))
    [] kind = "mem"    -> Len(MemSpace(m))
    [] kind = "global" -> Len(GlobalSpace(m))

TableTypeOk(t) == t.limits.max # NoMax => t.limits.min <= t.limits.max
MemTypeOk(t)   == LimitsOk(t.limits, MAX_PAGES)

\* check_const_expr: one constant operator of the wanted type; global.get
\* sees the imported immutable globals only.
ConstExprOk(m, e, want) ==
  /\ Len(e) = 1
  /\ LET c == e[1] IN
     \/ c.op = "i32.const" /\ want = "i32"
     \/ c.op = "ref.null" /\ want = c.ty
     \/ c.op = "ref.func" /\ want = "funcref" /\ c.idx \in DOMAIN FuncSpace(m)
     \/ /\ c.op = "global.get"
        /\ c.idx \in DOMAIN ImportsOf(m, "global")
        /\ ~ GlobalSpace(m)[c.idx].mutable
        /\ want = GlobalSpace(m)[c.idx].val

ElemOk(m, e) ==
  /\ \A j \in DOMAIN e.init : ConstExprOk(m, e.init[j], e.ty)
  /\ e.mode = "active" =>
       /\ e.table \in DOMAIN TableSpace(m)
       /\ TableSpace(m)[e.table].elem = e.ty
       /\ ConstExprOk(m, e.offset, "i32")

DataOk(m, d) ==
  d.mode = "active" =>
    d.mem \in DOMAIN MemSpace(m) /\ ConstExprOk(m, d.offset, "i32")

\* The functions ref.func may name in a body: those an element segment, a
\* global initializer or an export mentions.
DeclaredRefs(m) ==
  {i \in DOMAIN FuncSpace(m) :
     \/ \E g \in DOMAIN m.globals : \E c \in DOMAIN m.globals[g].init :
          m.globals[g].init[c] = [op |-> "ref.func", idx |-> i]
     \/ \E e \in DOMAIN m.elems : \E j \in DOMAIN m.elems[e].init :
          \E c \in DOMAIN m.elems[e].init[j] :
            m.elems[e].init[j][c] = [op |-> "ref.func", idx |-> i]
     \/ \E x \in DOMAIN m.exports :
          m.exports[x].kind = "func" /\ m.exports[x].idx = i}

TypesOk(m) ==
  /\ \A i \in DOMAIN FuncSpace(m)  : FuncSpace(m)[i] \in DOMAIN m.types
  /\ \A i \in DOMAIN TableSpace(m) : TableTypeOk(TableSpace(m)[i])
  /\ \A i \in DOMAIN MemSpace(m)   : MemTypeOk(MemSpace(m)[i])
  /\ Len(MemSpace(m)) <= 1

StartOk(m) ==
  m.start # 0 =>
    /\ m.start \in DOMAIN FuncSpace(m)
    /\ m.types[FuncSpace(m)[m.start]] = [params |-> <<>>, results |-> <<>>]

ExportsOk(m) ==
  /\ \A i, j \in DOMAIN m.exports :
       m.exports[i].name = m.exports[j].name => i = j
  /\ \A i \in DOMAIN m.exports :
       m.exports[i].idx \in 1..SpaceSize(m, m.exports[i].kind)

\* validate(m) = Ok(()), for everything but the instruction sequences.
ValidModule(m) ==
  /\ TypesOk(m)
  /\ \A i \in DOMAIN m.globals :
       ConstExprOk(m, m.globals[i].init, m.globals[i].ty.val)
  /\ \A i \in DOMAIN m.elems : ElemOk(m, m.elems[i])
  /\ \A i \in DOMAIN m.datas : DataOk(m, m.datas[i])
  /\ StartOk(m)
  /\ ExportsOk(m)
  /\ m.refs \subseteq DeclaredRefs(m)
=============================================================================
