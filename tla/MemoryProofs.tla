---------------------------- MODULE MemoryProofs ----------------------------
(***************************************************************************)
(* What memory instructions do, for bytes, pages, maxima and programs of   *)
(* any size.                                                               *)
(***************************************************************************)
EXTENDS MemoryProps, SequenceTheorems, WellFoundedInduction, TLAPS

-----------------------------------------------------------------------------
(* Lengths.                                                                *)

\* A sequence of whatever it holds.
Listed(s) == s \in Seq({s[i] : i \in 1 .. Len(s)})

\* A sequence given as a function has the length of its domain.
LEMMA GivenLength ==
  ASSUME NEW n \in Nat, NEW s, DOMAIN s = 1 .. n, s = [i \in 1 .. n |-> s[i]]
  PROVE  Len(s) = n /\ Listed(s)
<1> DEFINE S == {s[i] : i \in 1 .. n}
<1>1. s \in [1 .. n -> S]
    OBVIOUS
<1>2. s \in Seq(S) /\ Len(s) = n
    BY <1>1
<1> QED
    BY <1>2 DEF Listed

\* Writing into a sequence leaves its length (copy_from_slice never grows).
LEMMA WrittenLength ==
  ASSUME NEW s, Listed(s), NEW a, NEW bytes
  PROVE  Len(Written(s, a, bytes)) = Len(s) /\ Listed(Written(s, a, bytes))
<1> DEFINE t == Written(s, a, bytes)
<1>1. Len(s) \in Nat
    BY DEF Listed
<1>2. DOMAIN t = 1 .. Len(s) /\ t = [i \in 1 .. Len(s) |-> t[i]]
    BY DEF Written
<1> HIDE DEF t
<1> QED
    BY <1>1, <1>2, GivenLength DEF t

\* Zeros behind a sequence add to its length.
LEMMA ExtendedLength ==
  ASSUME NEW s, Listed(s), NEW n \in Nat
  PROVE  Len(s \o Zeros(n)) = Len(s) + n /\ Listed(s \o Zeros(n))
<1> DEFINE S == {s[i] : i \in 1 .. Len(s)} \cup {0}
           t == s \o Zeros(n)
<1>1. s \in Seq(S)
    <2>1. s \in [1 .. Len(s) -> S] /\ Len(s) \in Nat
        BY DEF Listed
    <2> QED
        BY <2>1
<1>2. Zeros(n) \in Seq(S) /\ Len(Zeros(n)) = n
    BY DEF Zeros
<1>3. t \in Seq(S) /\ Len(t) = Len(s) + n
    BY <1>1, <1>2
<1> HIDE DEF t
<1>4. Len(t) \in Nat /\ DOMAIN t = 1 .. Len(t) /\ t = [i \in 1 .. Len(t) |-> t[i]]
    BY <1>3
<1>5. Listed(t)
    BY <1>4, GivenLength
<1> QED
    BY <1>3, <1>5 DEF t

\* Whole pages divided by the size of a page.
LEMMA PagesOf ==
  ASSUME NEW p \in Nat, NEW z \in Nat \ {0}
  PROVE  (p * z) \div z = p
  BY Z3

\* Sums of whole pages.
LEMMA PagesAdd ==
  ASSUME NEW p \in Nat, NEW q \in Nat, NEW z \in Nat \ {0}
  PROVE  /\ q * z \in Nat /\ (p + q) * z = p * z + q * z
         /\ (p + q) * z - p * z = q * z
  BY Z3

\* Numbers and vectors are no traps.
LEMMA NoTrap ==
  /\ \A v \in Int \cup Seq(Int) : [val |-> v] # Trap
  /\ [val |-> <<>>] # Trap
<1>1. \A v \in Int \cup Seq(Int) : [val |-> v] # Trap
    BY MemoryAssumption
<1>2. <<>> \in Seq(Int)
    OBVIOUS
<1> QED
    BY <1>1, <1>2

\* What With takes apart.
LEMMA WithParts ==
  ASSUME NEW O, NEW A, NEW ins \in With(O, A)
  PROVE  ins.o \in O /\ ins.args \in A
  BY DEF With

\* The immediate of an access with an offset.
LEMMA AtOffset ==
  ASSUME NEW S, NEW U, NEW o \in [i : S, offset : U]
  PROVE  o.i \in S
  OBVIOUS

\* The immediate of an instruction on a segment.
LEMMA OfSegment ==
  ASSUME NEW S, NEW U, NEW o \in [i : S, seg : U]
  PROVE  o.i \in S
  OBVIOUS

\* The operand of memory.grow is a u32.
LEMMA GrowsByNatural ==
  ASSUME NEW ins \in Instructions, ins.o.i.op = "grow"
  PROVE  ins.args[1] \in U32
<1>1. CASE ins \in With([i : LoadOps, offset : U32], {<<b>> : b \in U32})
    <2>1. ins.o \in [i : LoadOps, offset : U32]
        BY <1>1, WithParts
    <2>2. ins.o.i \in LoadOps
        BY <2>1, AtOffset
    <2> QED
        BY <2>2 DEF LoadOps
<1>2. CASE ins \in With([i : StoreOps, offset : U32], {<<b, v>> : b \in U32, v \in Words})
    <2> DEFINE A == {<<b, v>> : b \in U32, v \in Words}
    <2>1. ins \in With([i : StoreOps, offset : U32], A)
        BY <1>2
    <2> HIDE DEF A
    <2>2. ins.o \in [i : StoreOps, offset : U32]
        BY <2>1, WithParts
    <2>3. ins.o.i \in StoreOps
        BY <2>2, AtOffset
    <2> QED
        BY <2>3 DEF StoreOps
<1>3. CASE ins \in With([i : VectorLoads, offset : U32], {<<b>> : b \in U32})
    <2>1. ins.o \in [i : VectorLoads, offset : U32]
        BY <1>3, WithParts
    <2>2. ins.o.i \in VectorLoads
        BY <2>1, AtOffset
    <2> QED
        BY <2>2 DEF VectorLoads
<1>4. CASE ins \in With([i : {[op |-> "vstore"]} \cup LaneOps("vload_lane") \cup LaneOps("vstore_lane"),
                          offset : U32], {<<b, Vec>> : b \in U32})
    <2> DEFINE S == {[op |-> "vstore"]} \cup LaneOps("vload_lane") \cup LaneOps("vstore_lane")
    <2>1. ins.o \in [i : S, offset : U32]
        BY <1>4, WithParts
    <2>2. ins.o.i \in S
        BY <2>1, AtOffset
    <2> QED
        BY <2>2 DEF LaneOps
<1>5. CASE ins \in With({[i |-> [op |-> "grow"]]}, {<<n>> : n \in U32})
    BY <1>5, WithParts
<1>6. CASE \/ ins \in With({[i |-> [op |-> "size"]]}, {<<>>})
           \/ ins \in With({[i |-> [op |-> "fill"]]}, U32 \X Words \X U32)
           \/ ins \in With({[i |-> [op |-> "copy"]]}, U32 \X U32 \X U32)
    <2>1. ins.o \in {[i |-> [op |-> o]] : o \in {"size", "fill", "copy"}}
        BY <1>6, WithParts
    <2> QED
        BY <2>1
<1>7. CASE \/ ins \in With([i : {[op |-> "init"]}, seg : 1 .. Len(Segments)], U32 \X U32 \X U32)
           \/ ins \in With([i : {[op |-> "drop"]}, seg : 1 .. Len(Segments)], {<<>>})
           \/ ins \in With([i : {[op |-> "active"]}, seg : 1 .. Len(Segments)], {<<a>> : a \in U32})
    <2>1. \E o \in {"init", "drop", "active"} :
            ins.o \in [i : {[op |-> o]}, seg : 1 .. Len(Segments)]
        BY <1>7, WithParts
    <2>2. \E o \in {"init", "drop", "active"} : ins.o.i \in {[op |-> o]}
        BY <2>1, OfSegment
    <2> QED
        BY <2>2
<1> QED
    BY <1>1, <1>2, <1>3, <1>4, <1>5, <1>6, <1>7 DEF Instructions

-----------------------------------------------------------------------------
(* The invariant.                                                          *)

\* WholePages with what it rests on: what the memory's maximum may be, and
\* that an instruction being executed was fetched as one.
PagesInv ==
  /\ Listed(data) /\ max \in DeclaredMax
  /\ todo # None => todo \in Instructions
  /\ WholePages

\* A new memory has its minimum of pages.
LEMMA PagesInit == Init => PagesInv
<1> SUFFICES ASSUME Init PROVE PagesInv
    OBVIOUS
<1> USE MemoryAssumption
<1>1. MinPages \in Nat /\ PageSize \in Nat /\ MinPages * PageSize \in Nat /\ max \in MinPages .. MaxPages
    BY DEF Init
<1>2. DOMAIN data = 1 .. MinPages * PageSize /\ data = [i \in 1 .. MinPages * PageSize |-> data[i]]
    BY DEF Init
<1>3. Len(data) = MinPages * PageSize /\ Listed(data)
    BY <1>1, <1>2, GivenLength
<1>4. WholePages
    BY <1>1, <1>3 DEF WholePages
<1> QED
    BY <1>3, <1>4 DEF Init, PagesInv

\* A memory of as many bytes has as many pages.
LEMMA SamePages ==
  ASSUME PagesInv, UNCHANGED max, Listed(data'), Len(data') = Len(data),
         todo' = None \/ todo' \in Instructions
  PROVE  PagesInv'
  BY DEF PagesInv, WholePages

\* The bytes have been written or not: as many as before.
Kept == Len(data') = Len(data) /\ Listed(data') /\ UNCHANGED max /\ todo' = None

\* A store keeps the length.
LEMMA StoringKeeps ==
  ASSUME PagesInv, NEW bytes, Storing(bytes)
  PROVE  Kept
<1>1. /\ data' = data \/ data' = Written(data, EA, bytes)
      /\ UNCHANGED max /\ todo' = None
    BY DEF Storing, Returns, Traps
<1> QED
    BY <1>1, WrittenLength DEF PagesInv, Kept

\* Loads, memory.size, data.drop and all that trap leave the bytes alone.
LEMMA ReadersKeep ==
  ASSUME PagesInv, Load \/ VectorLoad \/ Size \/ DataDrop
  PROVE  Kept
<1>1. UNCHANGED <<data, max>> /\ todo' = None
    BY Zenon DEF Load, VectorLoad, Loading, Size, DataDrop, Returns, Traps
<1> QED
    BY <1>1 DEF PagesInv, Kept

\* The accesses to lanes read or store.
LEMMA LanesKeep ==
  ASSUME PagesInv, LaneAccess
  PROVE  Kept
<1>1. CASE UNCHANGED <<data, max>> /\ todo' = None
    BY <1>1 DEF PagesInv, Kept
<1>2. CASE \E bytes : Storing(bytes)
    BY <1>2, StoringKeeps
<1> QED
    BY <1>1, <1>2, Zenon DEF LaneAccess, Loading, Returns, Traps

\* The bulk instructions write into the bytes there are.
LEMMA BulkKeeps ==
  ASSUME PagesInv, MemoryInit \/ ActiveSegment \/ MemoryCopy \/ MemoryFill
  PROVE  Kept
<1>1. /\ data' = data \/ \E a, bytes : data' = Written(data, a, bytes)
      /\ UNCHANGED max /\ todo' = None
    BY Zenon DEF MemoryInit, ActiveSegment, MemoryCopy, MemoryFill, Returns, Traps
<1> QED
    BY <1>1, WrittenLength DEF PagesInv, Kept

\* No instruction but memory.grow changes the length.
LEMMA OthersKeep ==
  ASSUME PagesInv, Execute, ~ Grow
  PROVE  Kept
  BY ReadersKeep, LanesKeep, BulkKeeps, StoringKeeps DEF Execute, Store

\* memory.grow is refused, or adds as many pages of zeros as it was asked for.
LEMMA GrowAdds ==
  ASSUME PagesInv, Grow
  PROVE  \E p \in Nat, n \in Nat :
           /\ Len(data) = p * PageSize /\ todo' = None /\ UNCHANGED max
           /\ p \in MinPages .. max /\ n = todo.args[1]
           /\ \/ data' = data /\ result' = [val |-> Refused]
              \/ /\ p + n <= max /\ p + n <= MaxPages /\ result' = [val |-> p]
                 /\ data' = data \o Zeros(n * PageSize)
<1> USE MemoryAssumption
<1>1. PICK p \in MinPages .. max : p <= MaxPages /\ Len(data) = p * PageSize
    BY DEF PagesInv, WholePages
<1>2. p \in Nat /\ PageSize \in Nat \ {0} /\ MinPages \in Nat /\ max \in Nat
    BY <1>1 DEF PagesInv
<1>3. Len(data) \div PageSize = p
    BY <1>1, <1>2, PagesOf
<1>4. Arg(1) \in U32 /\ todo' = None /\ UNCHANGED max
    BY GrowsByNatural DEF Grow, Is, Arg, PagesInv, Returns
<1> DEFINE n == Arg(1)
<1>5. n \in Nat
    BY <1>4 DEF U32
<1>6. \/ data' = data /\ result' = [val |-> Refused]
      \/ /\ p + n <= max /\ p + n <= MaxPages /\ result' = [val |-> p]
         /\ data' = data \o Zeros((p + n) * PageSize - Len(data))
    BY <1>3 DEF Grow, Returns
<1> HIDE DEF n
<1>7. (p + n) * PageSize - Len(data) = n * PageSize
    BY <1>1, <1>2, <1>5, PagesAdd
<1>8. n = todo.args[1]
    BY DEF n, Arg
<1> QED
    BY <1>1, <1>2, <1>4, <1>5, <1>6, <1>7, <1>8

\* memory.grow stays within the maximum.
LEMMA GrowKeeps ==
  ASSUME PagesInv, Grow
  PROVE  PagesInv'
<1> USE MemoryAssumption
<1>1. PICK p \in Nat, n \in Nat :
        /\ Len(data) = p * PageSize /\ todo' = None /\ UNCHANGED max
        /\ p \in MinPages .. max
        /\ \/ data' = data
           \/ /\ p + n <= max /\ p + n <= MaxPages
              /\ data' = data \o Zeros(n * PageSize)
    BY GrowAdds
<1>2. CASE data' = data
    BY <1>1, <1>2, SamePages DEF PagesInv
<1>3. CASE p + n <= max /\ p + n <= MaxPages /\ data' = data \o Zeros(n * PageSize)
    <2>1. n * PageSize \in Nat /\ p * PageSize + n * PageSize = (p + n) * PageSize
        BY PagesAdd
    <2>2. Len(data') = (p + n) * PageSize /\ Listed(data')
        BY <1>1, <1>3, <2>1, ExtendedLength DEF PagesInv
    <2>3. p + n \in MinPages .. max /\ max \in Nat
        BY <1>1, <1>3 DEF PagesInv
    <2>4. WholePages'
        BY <1>1, <1>3, <2>2, <2>3 DEF WholePages
    <2> QED
        BY <1>1, <2>2, <2>4 DEF PagesInv
<1> QED
    BY <1>1, <1>2, <1>3

\* PagesInv is inductive.
LEMMA PagesStep == PagesInv /\ [Next]_vars => PagesInv'
<1> SUFFICES ASSUME PagesInv, [Next]_vars PROVE PagesInv'
    OBVIOUS
<1>1. ASSUME NEW ins \in Instructions, Fetch(ins) PROVE PagesInv'
    BY <1>1, SamePages DEF Fetch, PagesInv
<1>2. CASE Deliver \/ UNCHANGED vars
    BY <1>2 DEF Deliver, vars, PagesInv, WholePages
<1>3. CASE Execute /\ ~ Grow
    BY <1>3, OthersKeep, SamePages DEF Kept
<1> QED
    BY <1>1, <1>2, <1>3, GrowKeeps DEF Next

\* A memory holds whole pages, no more than its maximum nor than there may
\* be, whatever runs: only memory.grow changes its size.
THEOREM AlwaysWholePages == Spec => []WholePages
<1>1. PagesInv => WholePages
    BY DEF PagesInv
<1> QED
    BY PagesInit, PagesStep, <1>1, PTL DEF Spec

-----------------------------------------------------------------------------
(* Growing.                                                                *)

\* An instruction is executed by the action that is written for it.
LEMMA GrowGrows ==
  ASSUME Execute, Doing({"grow"})
  PROVE  Grow
<1>1. todo.o.i.op = "grow"
    BY DEF Doing
<1> QED
    BY <1>1 DEF Execute, Load, Store, VectorLoad, LaneAccess, Size, Is, MemoryInit, DataDrop,
                ActiveSegment, MemoryCopy, MemoryFill

\* The action that executes a memory.size.
LEMMA SizeSizes ==
  ASSUME Execute, Doing({"size"})
  PROVE  Size
<1>1. todo.o.i.op = "size"
    BY DEF Doing
<1> QED
    BY <1>1 DEF Execute, Load, Store, VectorLoad, LaneAccess, Grow, Is, MemoryInit, DataDrop,
                ActiveSegment, MemoryCopy, MemoryFill

\* What zeros behind a sequence leave of it.
LEMMA ExtendedBytes ==
  ASSUME NEW s, Listed(s), NEW n \in Nat
  PROVE  \A i \in 1 .. Len(s \o Zeros(n)) :
           (s \o Zeros(n))[i] = IF i <= Len(s) THEN s[i] ELSE 0
<1> DEFINE S == {s[i] : i \in 1 .. Len(s)} \cup {0}
<1>1. s \in Seq(S)
    <2>1. s \in [1 .. Len(s) -> S] /\ Len(s) \in Nat
        BY DEF Listed
    <2> QED
        BY <2>1
<1>2. Zeros(n) \in Seq(S) /\ Len(Zeros(n)) = n /\ \A i \in 1 .. n : Zeros(n)[i] = 0
    BY DEF Zeros
<1> HIDE DEF S
<1> QED
    BY <1>1, <1>2

\* memory.size answers the number of pages.
LEMMA SizeIsPages ==
  ASSUME PagesInv, Size
  PROVE  result'.val * PageSize = Len(data)
<1> USE MemoryAssumption
<1>1. PICK p \in MinPages .. max : p <= MaxPages /\ Len(data) = p * PageSize
    BY DEF PagesInv, WholePages
<1>2. p \in Nat /\ PageSize \in Nat \ {0}
    BY <1>1 DEF PagesInv
<1>3. Len(data) \div PageSize = p
    BY <1>1, <1>2, PagesOf
<1> QED
    BY <1>1, <1>3 DEF Size, Returns

\* memory.grow answers the old size and adds zeros, or does nothing.
LEMMA GrowIsExact ==
  ASSUME PagesInv, Grow
  PROVE  \/ result'.val = Refused /\ UNCHANGED data
         \/ /\ result'.val * PageSize = Len(data)
            /\ Len(data') = Len(data) + todo.args[1] * PageSize
            /\ \A i \in 1 .. Len(data') : data'[i] = IF i <= Len(data) THEN data[i] ELSE 0
<1> USE MemoryAssumption
<1>1. PICK p \in Nat, n \in Nat :
        /\ Len(data) = p * PageSize /\ n = todo.args[1]
        /\ \/ data' = data /\ result' = [val |-> Refused]
           \/ result' = [val |-> p] /\ data' = data \o Zeros(n * PageSize)
    BY GrowAdds
<1>2. CASE data' = data /\ result' = [val |-> Refused]
    BY <1>2
<1>3. CASE result' = [val |-> p] /\ data' = data \o Zeros(n * PageSize)
    <2>1. n * PageSize \in Nat
        BY PagesAdd
    <2>2. Len(data') = Len(data) + n * PageSize
        BY <1>3, <2>1, ExtendedLength DEF PagesInv
    <2>3. \A i \in 1 .. Len(data') : data'[i] = IF i <= Len(data) THEN data[i] ELSE 0
        BY <1>3, <2>1, ExtendedBytes DEF PagesInv
    <2> QED
        BY <1>1, <1>3, <2>2, <2>3
<1> QED
    BY <1>1, <1>2, <1>3

\* What GrowthIsExact says of one step.
LEMMA StepGrown == PagesInv /\ [Next]_vars => [Grown]_vars
<1> SUFFICES ASSUME PagesInv, Next PROVE Grown
    BY DEF vars
<1>1. ASSUME NEW ins \in Instructions, Fetch(ins) PROVE Grown
    BY <1>1 DEF Fetch, Grown, Doing
<1>2. CASE Deliver
    BY <1>2 DEF Deliver, Grown, Doing
<1>3. CASE Execute
    <2>1. Doing({"grow"}) => Grow
        BY <1>3, GrowGrows
    <2>2. Doing({"size"}) => Size
        BY <1>3, SizeSizes
    <2>3. Len(data') # Len(data) => Grow
        BY <1>3, OthersKeep DEF Kept
    <2>4. Grow => Doing({"grow"})
        BY DEF Grow, Is, Doing, Returns
    <2> QED
        BY <2>1, <2>2, <2>3, <2>4, GrowIsExact, SizeIsPages DEF Grown
<1> QED
    BY <1>1, <1>2, <1>3 DEF Next

\* memory.grow adds exactly the pages it was asked for, all zeros, or none,
\* and nothing else changes the size of a memory.
THEOREM AlwaysGrowsExactly == Spec => GrowthIsExact
<1> QED
    BY PagesInit, PagesStep, StepGrown, PTL DEF Spec, GrowthIsExact

-----------------------------------------------------------------------------
(* Storing.                                                                *)

\* A store's address, offset and width are the numbers they are meant to be.
LEMMA StoresNaturals ==
  ASSUME NEW ins \in Instructions, ins.o.i.op = "store"
  PROVE  ins.args[1] \in U32 /\ ins.o.offset \in U32 /\ ins.o.i.w \in Nat \ {0}
<1>1. CASE ins \in With([i : LoadOps, offset : U32], {<<b>> : b \in U32})
    <2>1. ins.o \in [i : LoadOps, offset : U32]
        BY <1>1, WithParts
    <2>2. ins.o.i \in LoadOps
        BY <2>1, AtOffset
    <2> QED
        BY <2>2 DEF LoadOps
<1>2. CASE ins \in With([i : StoreOps, offset : U32], {<<b, v>> : b \in U32, v \in Words})
    <2> DEFINE A == {<<b, v>> : b \in U32, v \in Words}
    <2>1. \A a \in A : a[1] \in U32
        OBVIOUS
    <2>2. ins \in With([i : StoreOps, offset : U32], A)
        BY <1>2
    <2> HIDE DEF A
    <2>3. ins.o \in [i : StoreOps, offset : U32] /\ ins.args \in A
        BY <2>2, WithParts
    <2>4. ins.o.i \in StoreOps /\ ins.o.offset \in U32
        BY <2>3
    <2> QED
        BY <2>1, <2>3, <2>4, MemoryAssumption DEF StoreOps
<1>3. CASE ins \in With([i : VectorLoads, offset : U32], {<<b>> : b \in U32})
    <2>1. ins.o \in [i : VectorLoads, offset : U32]
        BY <1>3, WithParts
    <2>2. ins.o.i \in VectorLoads
        BY <2>1, AtOffset
    <2> QED
        BY <2>2 DEF VectorLoads
<1>4. CASE ins \in With([i : {[op |-> "vstore"]} \cup LaneOps("vload_lane") \cup LaneOps("vstore_lane"),
                          offset : U32], {<<b, Vec>> : b \in U32})
    <2> DEFINE S == {[op |-> "vstore"]} \cup LaneOps("vload_lane") \cup LaneOps("vstore_lane")
    <2>1. ins.o \in [i : S, offset : U32]
        BY <1>4, WithParts
    <2>2. ins.o.i \in S
        BY <2>1, AtOffset
    <2> QED
        BY <2>2 DEF LaneOps
<1>5. CASE \/ ins \in With({[i |-> [op |-> "size"]]}, {<<>>})
           \/ ins \in With({[i |-> [op |-> "grow"]]}, {<<n>> : n \in U32})
           \/ ins \in With({[i |-> [op |-> "fill"]]}, U32 \X Words \X U32)
           \/ ins \in With({[i |-> [op |-> "copy"]]}, U32 \X U32 \X U32)
    <2>1. ins.o \in {[i |-> [op |-> o]] : o \in {"size", "grow", "fill", "copy"}}
        BY <1>5, WithParts
    <2> QED
        BY <2>1
<1>6. CASE \/ ins \in With([i : {[op |-> "init"]}, seg : 1 .. Len(Segments)], U32 \X U32 \X U32)
           \/ ins \in With([i : {[op |-> "drop"]}, seg : 1 .. Len(Segments)], {<<>>})
           \/ ins \in With([i : {[op |-> "active"]}, seg : 1 .. Len(Segments)], {<<a>> : a \in U32})
    <2>1. \E o \in {"init", "drop", "active"} :
            ins.o \in [i : {[op |-> o]}, seg : 1 .. Len(Segments)]
        BY <1>6, WithParts
    <2>2. \E o \in {"init", "drop", "active"} : ins.o.i \in {[op |-> o]}
        BY <2>1, OfSegment
    <2> QED
        BY <2>2
<1> QED
    BY <1>1, <1>2, <1>3, <1>4, <1>5, <1>6 DEF Instructions

\* The action that executes a store.
LEMMA StoreStores ==
  ASSUME Execute, Doing({"store"})
  PROVE  Store
<1>1. todo.o.i.op = "store"
    BY DEF Doing
<1> QED
    BY <1>1 DEF Execute, Load, Grow, VectorLoad, LaneAccess, Size, Is, MemoryInit, DataDrop,
                ActiveSegment, MemoryCopy, MemoryFill

\* The check in one comparison is the check of every byte.
LEMMA FitsIsAccessed ==
  ASSUME NEW a \in Nat, NEW w \in Nat \ {0}, NEW len \in Nat
  PROVE  Fits(a, w, len) <=> {a + k : k \in 0 .. w - 1} \subseteq 0 .. len - 1
<1>1. ASSUME Fits(a, w, len) PROVE {a + k : k \in 0 .. w - 1} \subseteq 0 .. len - 1
    BY <1>1 DEF Fits
<1>2. ASSUME {a + k : k \in 0 .. w - 1} \subseteq 0 .. len - 1 PROVE Fits(a, w, len)
    <2>1. w - 1 \in 0 .. w - 1 /\ a + (w - 1) \in {a + k : k \in 0 .. w - 1}
        OBVIOUS
    <2>2. a + (w - 1) \in 0 .. len - 1
        BY <1>2, <2>1
    <2> QED
        BY <2>2 DEF Fits
<1> QED
    BY <1>1, <1>2

\* mem_store writes its bytes in bounds and traps elsewhere.
LEMMA StoringIs ==
  ASSUME PagesInv, NEW w \in Nat \ {0}, NEW bytes, Len(bytes) = w, NEW first \in Nat,
         EA = first, Base + todo.o.offset = first, Storing(bytes)
  PROVE  LET fits == Accessed(w) \subseteq Addresses
         IN /\ (result' = Trap) <=> ~fits
            /\ UNCHANGED <<max, segs>> /\ Len(data') = Len(data)
            /\ \A a \in Addresses :
                 /\ data'[a + 1] = IF fits /\ a \in Accessed(w) THEN bytes[(a - first) + 1] ELSE At(a)
                 /\ a \in Accessed(w) => a - first \in 0 .. w - 1
<1> DEFINE fits  == Accessed(w) \subseteq Addresses
<1>1. Len(data) \in Nat
    BY DEF PagesInv, Listed
<1>5. Accessed(w) = {first + k : k \in 0 .. w - 1} /\ Addresses = 0 .. Len(data) - 1
    BY DEF Accessed, Addresses
<1>6. fits <=> Fits(first, w, Len(data))
    BY <1>1, <1>5, FitsIsAccessed
<1>7. \A a \in Nat : a \in Accessed(w) <=> a \in first .. first + w - 1
    <2>1. ASSUME NEW a \in first .. first + w - 1 PROVE a \in Accessed(w)
        <3>1. a - first \in 0 .. w - 1 /\ a = first + (a - first)
            OBVIOUS
        <3> QED
            BY <1>5, <3>1
    <2> QED
        BY <1>5, <2>1
<1>8. ASSUME NEW a \in Addresses, a \in Accessed(w)
      PROVE  a - first \in 0 .. w - 1
    BY <1>1, <1>5, <1>7, <1>8
<1>9. CASE fits
    <2>1. data' = Written(data, first, bytes) /\ result' = [val |-> <<>>] /\ UNCHANGED <<max, segs>>
        BY <1>6, <1>9 DEF Storing, Returns
    <2>2. Len(data') = Len(data)
        BY <2>1, WrittenLength DEF PagesInv
    <2>3. result' # Trap
        BY <2>1, NoTrap
    <2>4. ASSUME NEW a \in Addresses
          PROVE  data'[a + 1] = IF a \in Accessed(w) THEN bytes[(a - first) + 1] ELSE At(a)
        <3>1. a + 1 \in 1 .. Len(data) /\ a \in Nat
            BY <1>1, <1>5
        <3>2. data'[a + 1] = IF a + 1 \in first + 1 .. first + w THEN bytes[(a + 1) - first]
                             ELSE data[a + 1]
            <4>1. \A i \in 1 .. Len(data) :
                    Written(data, first, bytes)[i] =
                      IF i \in first + 1 .. first + Len(bytes) THEN bytes[i - first] ELSE data[i]
                BY DEF Written
            <4> QED
                BY <2>1, <3>1, <4>1, Zenon
        <3>3. a + 1 \in first + 1 .. first + w <=> a \in Accessed(w)
            BY <1>1, <1>7, <3>1
        <3>4. (a + 1) - first = (a - first) + 1
            BY <3>1
        <3> QED
            BY <3>2, <3>3, <3>4 DEF At
    <2> QED
        BY <1>8, <1>9, <2>1, <2>2, <2>3, <2>4
<1>10. CASE ~ fits
    <2>1. result' = Trap /\ UNCHANGED <<data, max, segs>>
        BY <1>6, <1>10 DEF Storing, Traps
    <2> QED
        BY <1>8, <1>10, <2>1 DEF At
<1> QED
    BY <1>9, <1>10

\* A store writes its bytes in bounds and traps elsewhere.
LEMMA StoreIsExact ==
  ASSUME PagesInv, Store
  PROVE  Stored
<1> DEFINE first == Base + todo.o.offset
           w     == Op.w
           bytes == ToLE(Arg(2), w)
<1>1. first \in Nat /\ w \in Nat \ {0} /\ EA = first
    <2>1. todo \in Instructions /\ todo.o.i.op = "store"
        BY DEF Store, Is, PagesInv
    <2>2. todo.args[1] \in U32 /\ todo.o.offset \in U32 /\ todo.o.i.w \in Nat \ {0}
        BY <2>1, StoresNaturals
    <2> QED
        BY <2>2 DEF U32, Base, EA, Arg, Op
<1>2. Len(bytes) = w
    BY <1>1 DEF ToLE
<1>3. \A j \in 0 .. w - 1 : bytes[j + 1] = StoredByte(j)
    BY <1>1 DEF ToLE, StoredByte, Arg
<1>4. Storing(bytes) /\ Base + todo.o.offset = first
    BY DEF Store
<1> HIDE DEF first, w, bytes
<1>5. LET fits == Accessed(w) \subseteq Addresses
      IN /\ (result' = Trap) <=> ~fits
         /\ UNCHANGED <<max, segs>> /\ Len(data') = Len(data)
         /\ \A a \in Addresses :
              /\ data'[a + 1] = IF fits /\ a \in Accessed(w) THEN bytes[(a - first) + 1] ELSE At(a)
              /\ a \in Accessed(w) => a - first \in 0 .. w - 1
    BY <1>1, <1>2, <1>4, StoringIs
<1> QED
    BY <1>3, <1>5 DEF Stored, first, w

\* What StoresWriteTheirBytes says of one step.
LEMMA StepStored == PagesInv /\ [Next]_vars => [Stored]_vars
<1> SUFFICES ASSUME PagesInv, Next PROVE Stored
    BY DEF vars
<1>1. ASSUME NEW ins \in Instructions, Fetch(ins) PROVE Stored
    BY <1>1 DEF Fetch, Stored, Doing
<1>2. CASE Deliver
    BY <1>2 DEF Deliver, Stored, Doing
<1>3. CASE Execute
    BY <1>3, StoreStores, StoreIsExact DEF Stored
<1> QED
    BY <1>1, <1>2, <1>3 DEF Next

\* A store writes the low bytes of its operand, in little-endian order, at
\* its address and nowhere else; one that does not fit writes nothing.
THEOREM AlwaysStoresItsBytes == Spec => StoresWriteTheirBytes
<1> QED
    BY PagesInit, PagesStep, StepStored, PTL DEF Spec, StoresWriteTheirBytes

-----------------------------------------------------------------------------
(* Bulk instructions.                                                      *)

\* f with v at i.
Put(f, i, v) == [f EXCEPT ![i] = v]

\* s with the positions lo to hi as in t.
Patched(s, t, lo, hi) == [i \in 1 .. Len(s) |-> IF i \in lo .. hi THEN t[i] ELSE s[i]]

\* The memory after k of n bytes were written from d on, upwards or downwards.
UpTo(s, t, d, n)   == [k \in 0 .. n |-> Patched(s, t, d + 1, d + k)]
DownTo(s, t, d, n) == [k \in 0 .. n |-> Patched(s, t, d + n - k + 1, d + n)]

\* One more position at the upper end.
LEMMA PatchUp ==
  ASSUME NEW s, NEW t, Len(s) \in Nat, NEW lo \in Nat, NEW hi \in 1 .. Len(s), lo <= hi
  PROVE  Put(Patched(s, t, lo, hi - 1), hi, t[hi]) = Patched(s, t, lo, hi)
<1> DEFINE p == Patched(s, t, lo, hi - 1)
           r == Patched(s, t, lo, hi)
           D == 1 .. Len(s)
<1>1. p \in [D -> {p[i] : i \in D}] /\ \A i \in D : p[i] = IF i \in lo .. hi - 1 THEN t[i] ELSE s[i]
    BY DEF Patched
<1>2. r = [i \in D |-> r[i]] /\ \A i \in D : r[i] = IF i \in lo .. hi THEN t[i] ELSE s[i]
    BY DEF Patched
<1>3. hi \in D /\ \A i \in D : i # hi => (i \in lo .. hi - 1 <=> i \in lo .. hi)
    OBVIOUS
<1>4. hi \in lo .. hi
    OBVIOUS
<1> HIDE DEF p, r, D
<1>5. Put(p, hi, t[hi]) = [i \in D |-> IF i = hi THEN t[hi] ELSE p[i]]
    BY <1>1 DEF Put
<1>6. \A i \in D : (IF i = hi THEN t[hi] ELSE p[i]) = r[i]
    BY <1>1, <1>2, <1>3, <1>4
<1> QED
    BY <1>2, <1>5, <1>6 DEF p, r

\* One more position at the lower end.
LEMMA PatchDown ==
  ASSUME NEW s, NEW t, Len(s) \in Nat, NEW lo \in 1 .. Len(s), NEW hi \in Nat, lo <= hi
  PROVE  Put(Patched(s, t, lo + 1, hi), lo, t[lo]) = Patched(s, t, lo, hi)
<1> DEFINE p == Patched(s, t, lo + 1, hi)
           r == Patched(s, t, lo, hi)
           D == 1 .. Len(s)
<1>1. p \in [D -> {p[i] : i \in D}] /\ \A i \in D : p[i] = IF i \in lo + 1 .. hi THEN t[i] ELSE s[i]
    BY DEF Patched
<1>2. r = [i \in D |-> r[i]] /\ \A i \in D : r[i] = IF i \in lo .. hi THEN t[i] ELSE s[i]
    BY DEF Patched
<1>3. lo \in D /\ \A i \in D : i # lo => (i \in lo + 1 .. hi <=> i \in lo .. hi)
    OBVIOUS
<1>4. lo \in lo .. hi
    OBVIOUS
<1> HIDE DEF p, r, D
<1>5. Put(p, lo, t[lo]) = [i \in D |-> IF i = lo THEN t[lo] ELSE p[i]]
    BY <1>1 DEF Put
<1>6. \A i \in D : (IF i = lo THEN t[lo] ELSE p[i]) = r[i]
    BY <1>1, <1>2, <1>3, <1>4
<1> QED
    BY <1>2, <1>5, <1>6 DEF p, r

\* A sequence is its elements.
LEMMA ListedIs ==
  ASSUME NEW s, Listed(s)
  PROVE  Len(s) \in Nat /\ s = [i \in 1 .. Len(s) |-> s[i]]
  BY DEF Listed

\* No position patched.
LEMMA PatchNone ==
  ASSUME NEW s, Listed(s), NEW t, NEW lo \in Nat, NEW hi \in Nat, hi < lo
  PROVE  Patched(s, t, lo, hi) = s
<1>1. Len(s) \in Nat /\ s = [i \in 1 .. Len(s) |-> s[i]]
    BY ListedIs
<1>2. \A i \in lo .. hi : FALSE
    OBVIOUS
<1> QED
    BY <1>1, <1>2 DEF Patched

\* All the positions of what is written.
LEMMA PatchAll ==
  ASSUME NEW s, NEW d \in Nat, NEW b, NEW n \in Nat, Len(b) = n
  PROVE  Patched(s, Written(s, d, b), d + 1, d + n) = Written(s, d, b)
<1> DEFINE t == Written(s, d, b)
<1>1. \A i \in 1 .. Len(s) : t[i] = IF i \in d + 1 .. d + n THEN b[i - d] ELSE s[i]
    BY DEF Written
<1>2. t = [i \in 1 .. Len(s) |-> IF i \in d + 1 .. d + n THEN b[i - d] ELSE s[i]]
    BY DEF Written
<1> HIDE DEF t
<1> QED
    BY <1>1, <1>2 DEF Patched, t

\* A set of numbers has a least one.
LEMMA LeastOf ==
  ASSUME NEW T, T \subseteq Nat, T # {}
  PROVE  \E x \in T : \A y \in T : x <= y
<1> DEFINE R == OpToRel(<, Nat)
<1>1. IsWellFoundedOn(R, Nat)
    BY NatLessThanWellFounded
<1>2. \A x, y \in Nat : y < x => <<y, x>> \in R
    BY DEF OpToRel
<1> HIDE DEF R
<1>3. \E x \in T : \A y \in T : ~ (<<y, x>> \in R)
    BY <1>1, WFMin
<1> PICK x \in T : \A y \in T : ~ (<<y, x>> \in R)
    BY <1>3
<1>4. ASSUME NEW y \in T
            PROVE  x <= y
    <2>1. ~ (<<y, x>> \in R) /\ x \in Nat /\ y \in Nat
        OBVIOUS
    <2>2. ~ (y < x)
        BY <2>1, <1>2
    <2> QED
        BY <2>1, <2>2
<1> QED
    BY <1>4

\* A set that has 0 and every successor of a number it has, has every number.
LEMMA NumbersIn ==
  ASSUME NEW T, 0 \in T, \A n \in Nat : n \in T => n + 1 \in T
  PROVE  \A n \in Nat : n \in T
<1> SUFFICES ASSUME Nat \ T # {}
                          PROVE  FALSE
    OBVIOUS
<1>1. PICK x \in Nat \ T : \A y \in Nat \ T : x <= y
    BY LeastOf
<1>2. x # 0 /\ x - 1 \in Nat
    OBVIOUS
<1>3. x - 1 \in T
    BY <1>1, <1>2
<1> QED
    BY <1>2, <1>3

\* What two sequences of memories that take the same steps end with.
LEMMA SameSteps ==
  ASSUME NEW n \in Nat, NEW m, NEW w, m[0] = w[0],
         \A k \in 1 .. n : m[k - 1] = w[k - 1] => m[k] = w[k]
  PROVE  m[n] = w[n]
<1> DEFINE T == {k \in Nat : k <= n => m[k] = w[k]}
<1>1. 0 \in T
    OBVIOUS
<1>2. ASSUME NEW k \in Nat, k \in T
      PROVE  k + 1 \in T
    <2>1. k + 1 <= n => k + 1 \in 1 .. n /\ (k + 1) - 1 = k /\ k <= n
        OBVIOUS
    <2> QED
        BY <1>2, <2>1
<1> HIDE DEF T
<1>3. \A k \in Nat : k \in T
    BY <1>1, <1>2, NumbersIn
<1> QED
    BY <1>3 DEF T

\* What is at the positions that are written.
LEMMA WrittenAt ==
  ASSUME NEW s, Listed(s), NEW d \in Nat, NEW n \in Nat, d + n <= Len(s), NEW b, Len(b) = n
  PROVE  \A k \in 1 .. n : d + k \in 1 .. Len(s) /\ Written(s, d, b)[d + k] = b[k]
<1> SUFFICES ASSUME NEW k \in 1 .. n
             PROVE  d + k \in 1 .. Len(s) /\ Written(s, d, b)[d + k] = b[k]
    OBVIOUS
<1>1. Len(s) \in Nat
    BY ListedIs
<1>2. d + k \in 1 .. Len(s) /\ d + k \in d + 1 .. d + n /\ (d + k) - d = k
    BY <1>1
<1>3. \A i \in 1 .. Len(s) : Written(s, d, b)[i] = IF i \in d + 1 .. d + n THEN b[i - d] ELSE s[i]
    BY DEF Written
<1> QED
    BY <1>2, <1>3

\* The memories w write b into s from d on, upwards, one byte at a time.
Ups(s, d, n, b, w) ==
  /\ w = [k \in 0 .. n |-> w[k]] /\ w[0] = s /\ w[n] = Written(s, d, b)
  /\ \A k \in 1 .. n : w[k] = Put(w[k - 1], d + k, b[k])
  /\ \A k \in 1 .. n : \A i \in 1 .. Len(s) : i > d + k - 1 => w[k - 1][i] = s[i]

\* The same, downwards.
Downs(s, d, n, b, w) ==
  /\ w = [k \in 0 .. n |-> w[k]] /\ w[0] = s /\ w[n] = Written(s, d, b)
  /\ \A k \in 1 .. n : w[k] = Put(w[k - 1], d + n - k + 1, b[n - k + 1])
  /\ \A k \in 1 .. n : \A i \in 1 .. Len(s) : i < d + n - k + 2 => w[k - 1][i] = s[i]

\* Writing upwards, one byte at a time.
LEMMA UpIs ==
  ASSUME NEW s, Listed(s), NEW d \in Nat, NEW n \in Nat, d + n <= Len(s), NEW b, Len(b) = n
  PROVE  Ups(s, d, n, b, UpTo(s, Written(s, d, b), d, n))
<1> DEFINE t == Written(s, d, b)
           w == UpTo(s, t, d, n)
<1>1. Len(s) \in Nat
    BY ListedIs
<1>2. w = [k \in 0 .. n |-> w[k]] /\ \A k \in 0 .. n : w[k] = Patched(s, t, d + 1, d + k)
    BY DEF UpTo
<1>3. \A k \in 1 .. n : d + k \in 1 .. Len(s) /\ t[d + k] = b[k]
    BY WrittenAt
<1>4. w[n] = t
    <2>1. Patched(s, t, d + 1, d + n) = t
        BY PatchAll
    <2> QED
        BY <1>2, <2>1
<1> HIDE DEF t, w
<1>5. w[0] = s
    <2>1. Patched(s, t, d + 1, d + 0) = s
        BY PatchNone
    <2> QED
        BY <1>2, <2>1
<1>6. ASSUME NEW k \in 1 .. n
      PROVE  /\ w[k] = Put(w[k - 1], d + k, b[k])
             /\ \A i \in 1 .. Len(s) : i > d + k - 1 => w[k - 1][i] = s[i]
    <2> DEFINE lo == d + 1
               hi == d + k
    <2>1. lo \in Nat /\ hi \in 1 .. Len(s) /\ lo <= hi /\ d + (k - 1) = hi - 1 /\ k - 1 \in 0 .. n
        BY <1>1, <1>3
    <2>2. w[k - 1] = Patched(s, t, lo, hi - 1) /\ w[k] = Patched(s, t, lo, hi) /\ t[hi] = b[k]
        BY <1>2, <1>3, <2>1
    <2> HIDE DEF lo, hi
    <2>3. Put(Patched(s, t, lo, hi - 1), hi, t[hi]) = Patched(s, t, lo, hi)
        BY <1>1, <2>1, PatchUp
    <2>4. \A i \in 1 .. Len(s) : i > hi - 1 => Patched(s, t, lo, hi - 1)[i] = s[i]
        BY <2>1 DEF Patched
    <2>5. w[k] = Put(w[k - 1], hi, b[k])
        BY <2>2, <2>3
    <2>6. \A i \in 1 .. Len(s) : i > hi - 1 => w[k - 1][i] = s[i]
        BY <2>2, <2>4
    <2> QED
        BY <2>5, <2>6 DEF hi
<1>7. w[n] = Written(s, d, b)
    BY <1>4 DEF t
<1>8. Ups(s, d, n, b, w)
    BY <1>2, <1>5, <1>6, <1>7 DEF Ups
<1> QED
    BY <1>8 DEF t, w

\* Writing downwards.
LEMMA DownIs ==
  ASSUME NEW s, Listed(s), NEW d \in Nat, NEW n \in Nat, d + n <= Len(s), NEW b, Len(b) = n
  PROVE  Downs(s, d, n, b, DownTo(s, Written(s, d, b), d, n))
<1> DEFINE t == Written(s, d, b)
           w == DownTo(s, t, d, n)
<1>1. Len(s) \in Nat
    BY ListedIs
<1>2. w = [k \in 0 .. n |-> w[k]] /\ \A k \in 0 .. n : w[k] = Patched(s, t, d + n - k + 1, d + n)
    BY DEF DownTo
<1>3. \A k \in 1 .. n : d + k \in 1 .. Len(s) /\ t[d + k] = b[k]
    BY WrittenAt
<1>4. w[n] = t
    <2>1. Patched(s, t, d + 1, d + n) = t
        BY PatchAll
    <2>2. d + n - n + 1 = d + 1 /\ n \in 0 .. n
        OBVIOUS
    <2> HIDE DEF t, w
    <2>3. w[n] = Patched(s, t, d + n - n + 1, d + n)
        BY <1>2, <2>2
    <2> QED
        BY <2>1, <2>2, <2>3
<1> HIDE DEF t, w
<1>5. w[0] = s
    <2> DEFINE lo == d + n - 0 + 1
               hi == d + n
    <2>1. lo \in Nat /\ hi \in Nat /\ hi < lo
        OBVIOUS
    <2>2. w[0] = Patched(s, t, lo, hi)
        BY <1>2
    <2> HIDE DEF lo, hi
    <2>3. Patched(s, t, lo, hi) = s
        BY <2>1, PatchNone
    <2> QED
        BY <2>2, <2>3
<1>6. ASSUME NEW k \in 1 .. n
      PROVE  /\ w[k] = Put(w[k - 1], d + n - k + 1, b[n - k + 1])
             /\ \A i \in 1 .. Len(s) : i < d + n - k + 2 => w[k - 1][i] = s[i]
    <2> DEFINE lo == d + n - k + 1
               hi == d + n
               j  == n - k + 1
    <2>1. /\ j \in 1 .. n /\ d + j = lo /\ hi \in Nat /\ lo <= hi /\ k - 1 \in 0 .. n /\ k \in 0 .. n
          /\ d + n - (k - 1) + 1 = lo + 1 /\ lo + 1 = d + n - k + 2 /\ lo \in Nat
        OBVIOUS
    <2>2. w[k - 1] = Patched(s, t, lo + 1, hi)
        BY <1>2, <2>1
    <2>3. w[k] = Patched(s, t, lo, hi)
        BY <1>2, <2>1
    <2>4. lo \in 1 .. Len(s) /\ t[lo] = b[j]
        BY <1>3, <2>1
    <2> HIDE DEF lo, hi, j
    <2>5. Put(Patched(s, t, lo + 1, hi), lo, t[lo]) = Patched(s, t, lo, hi)
        BY <1>1, <2>1, <2>4, PatchDown
    <2>6. \A i \in 1 .. Len(s) : i < lo + 1 => Patched(s, t, lo + 1, hi)[i] = s[i]
        BY <2>1 DEF Patched
    <2>7. w[k] = Put(w[k - 1], lo, b[j])
        BY <2>2, <2>3, <2>4, <2>5
    <2>8. \A i \in 1 .. Len(s) : i < lo + 1 => w[k - 1][i] = s[i]
        BY <2>2, <2>6
    <2> QED
        BY <2>1, <2>7, <2>8 DEF lo, j
<1>7. w[n] = Written(s, d, b)
    BY <1>4 DEF t
<1>8. Downs(s, d, n, b, w)
    BY <1>2, <1>5, <1>6, <1>7 DEF Downs
<1> QED
    BY <1>8 DEF t, w

\* b is the n bytes of g from a on.
CutFrom(b, g, a, n) == Len(b) = n /\ \A k \in 1 .. n : b[k] = g[a + k]

\* The memory that a byte-wise loop over s leaves: upwards from d the bytes of
\* b, those of g from a on, or v; or a copy within s, upwards and downwards.
Streamed(s, d, n, b) ==
  LET m[k \in 0 .. n] == IF k = 0 THEN s ELSE [m[k - 1] EXCEPT ![d + k] = b[k]] IN m[n]

StreamedFrom(s, d, n, g, a) ==
  LET m[k \in 0 .. n] == IF k = 0 THEN s ELSE [m[k - 1] EXCEPT ![d + k] = g[a + k]] IN m[n]

Filled(s, d, n, v) ==
  LET m[k \in 0 .. n] == IF k = 0 THEN s ELSE [m[k - 1] EXCEPT ![d + k] = v] IN m[n]

CopiedUp(s, d, n, a) ==
  LET m[k \in 0 .. n] == IF k = 0 THEN s ELSE [m[k - 1] EXCEPT ![d + k] = m[k - 1][a + k]] IN m[n]

CopiedDown(s, d, n, a) ==
  LET m[k \in 0 .. n] == IF k = 0 THEN s
                         ELSE [m[k - 1] EXCEPT ![d + n - k + 1] = m[k - 1][a + n - k + 1]]
  IN m[n]

\* Bytes that do not depend on the memory, written upwards.
LEMMA Streams ==
  ASSUME NEW s, Listed(s), NEW d \in Nat, NEW n \in Nat, d + n <= Len(s), NEW b, Len(b) = n
  PROVE  Streamed(s, d, n, b) = Written(s, d, b)
<1> DEFINE t == Written(s, d, b)
           w == UpTo(s, t, d, n)
           P(m) == m = [k \in 0 .. n |-> IF k = 0 THEN s ELSE Put(m[k - 1], d + k, b[k])]
           c == CHOOSE m : P(m)
<1>0. Ups(s, d, n, b, w)
    BY UpIs
<1> HIDE DEF w
<1>1. w = [k \in 0 .. n |-> w[k]] /\ w[0] = s /\ w[n] = t
    BY <1>0 DEF Ups
<1>2. \A k \in 1 .. n : w[k] = Put(w[k - 1], d + k, b[k])
    BY <1>0 DEF Ups
<1> HIDE DEF t, w
<1>3. P(w)
    <2>1. ASSUME NEW k \in 0 .. n
          PROVE  w[k] = IF k = 0 THEN s ELSE Put(w[k - 1], d + k, b[k])
        <3>1. k # 0 => k \in 1 .. n
            OBVIOUS
        <3> QED
            BY <1>1, <1>2, <3>1
    <2> QED
        BY <1>1, <2>1
<1>4. P(c)
    <2> HIDE DEF P
    <2> QED
        BY <1>3, Zenon
<1> HIDE DEF c
<1>5. c[0] = s /\ \A k \in 1 .. n : c[k] = Put(c[k - 1], d + k, b[k])
    <2>1. \A k \in 0 .. n : c[k] = IF k = 0 THEN s ELSE Put(c[k - 1], d + k, b[k])
        BY <1>4
    <2>2. 0 \in 0 .. n /\ \A k \in 1 .. n : k \in 0 .. n /\ k # 0
        OBVIOUS
    <2> QED
        BY <2>1, <2>2
<1>6. \A k \in 1 .. n : c[k - 1] = w[k - 1] => c[k] = w[k]
    BY <1>2, <1>5
<1>7. c[n] = w[n]
    <2>1. c[0] = w[0]
        BY <1>1, <1>5
    <2> HIDE DEF P
    <2> QED
        BY <2>1, <1>6, SameSteps
<1> QED
    BY <1>1, <1>7 DEF c, t, Put, Streamed

\* A copy to a lower address, upwards: what it reads is not written yet.
LEMMA CopiesUp ==
  ASSUME NEW s, Listed(s), NEW d \in Nat, NEW a \in Nat, NEW n \in Nat, d + n <= Len(s),
         a + n <= Len(s), d <= a, NEW b, CutFrom(b, s, a, n)
  PROVE  CopiedUp(s, d, n, a) = Written(s, d, b)
<1> DEFINE t == Written(s, d, b)
           w == UpTo(s, t, d, n)
           P(m) == m = [k \in 0 .. n |-> IF k = 0 THEN s
                                         ELSE Put(m[k - 1], d + k, m[k - 1][a + k])]
           c == CHOOSE m : P(m)
<1>n. Len(b) = n /\ \A k \in 1 .. n : b[k] = s[a + k]
    BY DEF CutFrom
<1>0. Ups(s, d, n, b, w)
    BY UpIs, <1>n
<1> HIDE DEF w
<1>1. w = [k \in 0 .. n |-> w[k]] /\ w[0] = s /\ w[n] = t
    BY <1>0 DEF Ups
<1>a. \A k \in 1 .. n : w[k] = Put(w[k - 1], d + k, b[k])
    BY <1>0 DEF Ups
<1>b. \A k \in 1 .. n : \A i \in 1 .. Len(s) : i > d + k - 1 => w[k - 1][i] = s[i]
    BY <1>0 DEF Ups
<1>2. /\ \A k \in 1 .. n : w[k] = Put(w[k - 1], d + k, b[k])
      /\ \A k \in 1 .. n : \A i \in 1 .. Len(s) : i > d + k - 1 => w[k - 1][i] = s[i]
    BY <1>a, <1>b
<1> HIDE DEF t
<1>3. \A k \in 1 .. n : w[k - 1][a + k] = b[k]
    <2> SUFFICES ASSUME NEW k \in 1 .. n
                 PROVE  w[k - 1][a + k] = b[k]
        OBVIOUS
    <2>1. Len(s) \in Nat
        BY ListedIs
    <2>2. a + k \in 1 .. Len(s) /\ a + k > d + k - 1
        BY <2>1
    <2> QED
        BY <1>2, <1>n, <2>2
<1>4. \A k \in 1 .. n : w[k] = Put(w[k - 1], d + k, w[k - 1][a + k])
    BY <1>2, <1>3
<1>5. P(w)
    <2>1. ASSUME NEW k \in 0 .. n
          PROVE  w[k] = IF k = 0 THEN s ELSE Put(w[k - 1], d + k, w[k - 1][a + k])
        <3>1. k # 0 => k \in 1 .. n
            OBVIOUS
        <3> QED
            BY <1>1, <1>4, <3>1
    <2> QED
        BY <1>1, <2>1
<1>6. P(c)
    <2> HIDE DEF P
    <2> QED
        BY <1>5, Zenon
<1> HIDE DEF c
<1>7. c[0] = s /\ \A k \in 1 .. n : c[k] = Put(c[k - 1], d + k, c[k - 1][a + k])
    <2>1. \A k \in 0 .. n : c[k] = IF k = 0 THEN s ELSE Put(c[k - 1], d + k, c[k - 1][a + k])
        BY <1>6
    <2>2. 0 \in 0 .. n /\ \A k \in 1 .. n : k \in 0 .. n /\ k # 0
        OBVIOUS
    <2> QED
        BY <2>1, <2>2
<1>8. \A k \in 1 .. n : c[k - 1] = w[k - 1] => c[k] = w[k]
    BY <1>4, <1>7
<1>9. c[n] = w[n]
    <2>1. c[0] = w[0]
        BY <1>1, <1>7
    <2> HIDE DEF P
    <2> QED
        BY <2>1, <1>8, SameSteps
<1> QED
    BY <1>1, <1>9 DEF c, t, Put, CopiedUp

\* A copy to a higher address, downwards.
LEMMA CopiesDown ==
  ASSUME NEW s, Listed(s), NEW d \in Nat, NEW a \in Nat, NEW n \in Nat, d + n <= Len(s),
         a + n <= Len(s), a < d, NEW b, CutFrom(b, s, a, n)
  PROVE  CopiedDown(s, d, n, a) = Written(s, d, b)
<1> DEFINE t == Written(s, d, b)
           w == DownTo(s, t, d, n)
           P(m) == m = [k \in 0 .. n |-> IF k = 0 THEN s
                          ELSE Put(m[k - 1], d + n - k + 1, m[k - 1][a + n - k + 1])]
           c == CHOOSE m : P(m)
<1>n. Len(b) = n /\ \A k \in 1 .. n : b[k] = s[a + k]
    BY DEF CutFrom
<1>0. Downs(s, d, n, b, w)
    BY DownIs, <1>n
<1> HIDE DEF w
<1>1. w = [k \in 0 .. n |-> w[k]] /\ w[0] = s /\ w[n] = t
    BY <1>0 DEF Downs
<1>a. \A k \in 1 .. n : w[k] = Put(w[k - 1], d + n - k + 1, b[n - k + 1])
    BY <1>0 DEF Downs
<1>b. \A k \in 1 .. n : \A i \in 1 .. Len(s) : i < d + n - k + 2 => w[k - 1][i] = s[i]
    BY <1>0 DEF Downs
<1>2. /\ \A k \in 1 .. n : w[k] = Put(w[k - 1], d + n - k + 1, b[n - k + 1])
      /\ \A k \in 1 .. n : \A i \in 1 .. Len(s) : i < d + n - k + 2 => w[k - 1][i] = s[i]
    BY <1>a, <1>b
<1> HIDE DEF t
<1>3. \A k \in 1 .. n : w[k - 1][a + n - k + 1] = b[n - k + 1]
    <2> SUFFICES ASSUME NEW k \in 1 .. n
                 PROVE  w[k - 1][a + n - k + 1] = b[n - k + 1]
        OBVIOUS
    <2>1. Len(s) \in Nat
        BY ListedIs
    <2> DEFINE j == n - k + 1
               i == a + n - k + 1
    <2>2. j \in 1 .. n /\ i = a + j /\ i \in 1 .. Len(s) /\ i < d + n - k + 2
        BY <2>1
    <2> HIDE DEF i, j
    <2>3. w[k - 1][i] = s[i] /\ b[j] = s[a + j]
        BY <1>2, <1>n, <2>2
    <2> QED
        BY <2>2, <2>3 DEF i, j
<1>4. \A k \in 1 .. n : w[k] = Put(w[k - 1], d + n - k + 1, w[k - 1][a + n - k + 1])
    BY <1>2, <1>3
<1>5. P(w)
    <2>1. ASSUME NEW k \in 0 .. n
          PROVE  w[k] = IF k = 0 THEN s ELSE Put(w[k - 1], d + n - k + 1, w[k - 1][a + n - k + 1])
        <3>1. k # 0 => k \in 1 .. n
            OBVIOUS
        <3> QED
            BY <1>1, <1>4, <3>1
    <2> QED
        BY <1>1, <2>1
<1>6. P(c)
    <2> HIDE DEF P
    <2> QED
        BY <1>5, Zenon
<1> HIDE DEF c
<1>7. c[0] = s /\ \A k \in 1 .. n : c[k] = Put(c[k - 1], d + n - k + 1, c[k - 1][a + n - k + 1])
    <2>1. \A k \in 0 .. n : c[k] = IF k = 0 THEN s ELSE Put(c[k - 1], d + n - k + 1, c[k - 1][a + n - k + 1])
        BY <1>6
    <2>2. 0 \in 0 .. n /\ \A k \in 1 .. n : k \in 0 .. n /\ k # 0
        OBVIOUS
    <2> QED
        BY <2>1, <2>2
<1>8. \A k \in 1 .. n : c[k - 1] = w[k - 1] => c[k] = w[k]
    BY <1>4, <1>7
<1>9. c[n] = w[n]
    <2>1. c[0] = w[0]
        BY <1>1, <1>7
    <2> HIDE DEF P
    <2> QED
        BY <2>1, <1>8, SameSteps
<1> QED
    BY <1>1, <1>9 DEF c, t, Put, CopiedDown

\* The same for bytes taken from the position a of a data segment on.
LEMMA StreamsFrom ==
  ASSUME NEW s, Listed(s), NEW d \in Nat, NEW n \in Nat, d + n <= Len(s), NEW b,
         NEW g, NEW a \in Nat, CutFrom(b, g, a, n)
  PROVE  StreamedFrom(s, d, n, g, a) = Written(s, d, b)
<1> DEFINE t == Written(s, d, b)
           w == UpTo(s, t, d, n)
           P(m) == m = [k \in 0 .. n |-> IF k = 0 THEN s ELSE Put(m[k - 1], d + k, g[a + k])]
           c == CHOOSE m : P(m)
<1>n. Len(b) = n /\ \A k \in 1 .. n : b[k] = g[a + k]
    BY DEF CutFrom
<1>0. Ups(s, d, n, b, w)
    BY UpIs, <1>n
<1> HIDE DEF w
<1>1. w = [k \in 0 .. n |-> w[k]] /\ w[0] = s /\ w[n] = t
    BY <1>0 DEF Ups
<1>a. \A k \in 1 .. n : w[k] = Put(w[k - 1], d + k, b[k])
    BY <1>0 DEF Ups
<1>2. \A k \in 1 .. n : w[k] = Put(w[k - 1], d + k, g[a + k])
    BY <1>a, <1>n
<1> HIDE DEF t, w
<1>3. P(w)
    <2>1. ASSUME NEW k \in 0 .. n
          PROVE  w[k] = IF k = 0 THEN s ELSE Put(w[k - 1], d + k, g[a + k])
        <3>1. k # 0 => k \in 1 .. n
            OBVIOUS
        <3> QED
            BY <1>1, <1>2, <3>1
    <2> QED
        BY <1>1, <2>1
<1>4. P(c)
    <2> HIDE DEF P
    <2> QED
        BY <1>3, Zenon
<1> HIDE DEF c
<1>5. c[0] = s /\ \A k \in 1 .. n : c[k] = Put(c[k - 1], d + k, g[a + k])
    <2>1. \A k \in 0 .. n : c[k] = IF k = 0 THEN s ELSE Put(c[k - 1], d + k, g[a + k])
        BY <1>4
    <2>2. 0 \in 0 .. n /\ \A k \in 1 .. n : k \in 0 .. n /\ k # 0
        OBVIOUS
    <2> QED
        BY <2>1, <2>2
<1>6. \A k \in 1 .. n : c[k - 1] = w[k - 1] => c[k] = w[k]
    BY <1>2, <1>5
<1>7. c[n] = w[n]
    <2>1. c[0] = w[0]
        BY <1>1, <1>5
    <2> HIDE DEF P
    <2> QED
        BY <2>1, <1>6, SameSteps
<1> QED
    BY <1>1, <1>7 DEF c, t, Put, StreamedFrom

\* The same for one byte written everywhere.
LEMMA Fills ==
  ASSUME NEW s, Listed(s), NEW d \in Nat, NEW n \in Nat, d + n <= Len(s), NEW b, Len(b) = n,
         NEW v, \A k \in 1 .. n : b[k] = v
  PROVE  Filled(s, d, n, v) = Written(s, d, b)
<1> DEFINE t == Written(s, d, b)
           w == UpTo(s, t, d, n)
           P(m) == m = [k \in 0 .. n |-> IF k = 0 THEN s ELSE Put(m[k - 1], d + k, v)]
           c == CHOOSE m : P(m)
<1>0. Ups(s, d, n, b, w)
    BY UpIs
<1> HIDE DEF w
<1>1. w = [k \in 0 .. n |-> w[k]] /\ w[0] = s /\ w[n] = t
    BY <1>0 DEF Ups
<1>a. \A k \in 1 .. n : w[k] = Put(w[k - 1], d + k, b[k])
    BY <1>0 DEF Ups
<1>2. \A k \in 1 .. n : w[k] = Put(w[k - 1], d + k, v)
    BY <1>a
<1> HIDE DEF t, w
<1>3. P(w)
    <2>1. ASSUME NEW k \in 0 .. n
          PROVE  w[k] = IF k = 0 THEN s ELSE Put(w[k - 1], d + k, v)
        <3>1. k # 0 => k \in 1 .. n
            OBVIOUS
        <3> QED
            BY <1>1, <1>2, <3>1
    <2> QED
        BY <1>1, <2>1
<1>4. P(c)
    <2> HIDE DEF P
    <2> QED
        BY <1>3, Zenon
<1> HIDE DEF c
<1>5. c[0] = s /\ \A k \in 1 .. n : c[k] = Put(c[k - 1], d + k, v)
    <2>1. \A k \in 0 .. n : c[k] = IF k = 0 THEN s ELSE Put(c[k - 1], d + k, v)
        BY <1>4
    <2>2. 0 \in 0 .. n /\ \A k \in 1 .. n : k \in 0 .. n /\ k # 0
        OBVIOUS
    <2> QED
        BY <2>1, <2>2
<1>6. \A k \in 1 .. n : c[k - 1] = w[k - 1] => c[k] = w[k]
    BY <1>2, <1>5
<1>7. c[n] = w[n]
    <2>1. c[0] = w[0]
        BY <1>1, <1>5
    <2> HIDE DEF P
    <2> QED
        BY <2>1, <1>6, SameSteps
<1> QED
    BY <1>1, <1>7 DEF c, t, Put, Filled

\* The data segments that are left: as many as there were, and each a
\* sequence.
SegsInv ==
  /\ DOMAIN segs = 1 .. Len(Segments) /\ segs = [k \in 1 .. Len(Segments) |-> segs[k]]
  /\ \A k \in DOMAIN segs : Listed(segs[k])

\* They start as the module has them.
LEMMA SegsInit == Init => SegsInv
<1> SUFFICES ASSUME Init PROVE SegsInv
    OBVIOUS
<1> DEFINE B == 0 .. Pow2[ByteBits] - 1
<1>1. Segments \in Seq(Seq(B)) /\ segs = Segments
    BY MemoryAssumption DEF Init
<1> HIDE DEF B
<1>2. DOMAIN segs = 1 .. Len(Segments) /\ segs = [k \in 1 .. Len(Segments) |-> segs[k]]
    BY <1>1
<1>3. ASSUME NEW k \in DOMAIN segs PROVE Listed(segs[k])
    <2> DEFINE s == segs[k]
    <2>1. s \in Seq(B)
        BY <1>1, <1>2
    <2> HIDE DEF s
    <2>2. Len(s) \in Nat /\ DOMAIN s = 1 .. Len(s) /\ s = [i \in 1 .. Len(s) |-> s[i]]
        BY <2>1
    <2> QED
        BY <2>2, GivenLength DEF s
<1> QED
    BY <1>2, <1>3 DEF SegsInv

\* A segment is emptied, or none is.
LEMMA Empties ==
  ASSUME Next
  PROVE  \/ UNCHANGED segs
         \/ (DataDrop \/ ActiveSegment) /\ segs' = Put(segs, todo.o.seg, <<>>)
  BY Zenon DEF Next, Fetch, Deliver, Execute, Load, Store, VectorLoad, LaneAccess, Loading, Storing, Size,
     Grow, MemoryInit, DataDrop, ActiveSegment, MemoryCopy, MemoryFill, Traps, Put

\* SegsInv is inductive.
LEMMA SegsStep == SegsInv /\ [Next]_vars => SegsInv'
<1> SUFFICES ASSUME SegsInv, Next PROVE SegsInv'
    BY DEF SegsInv, vars
<1>1. Listed(<<>>)
    BY DEF Listed
<1>2. CASE UNCHANGED segs
    BY <1>2 DEF SegsInv
<1>3. CASE segs' = Put(segs, todo.o.seg, <<>>)
    BY <1>1, <1>3 DEF SegsInv, Put
<1> QED
    BY <1>2, <1>3, Empties

\* The bulk instructions and what their operands and segments are.
BulkArgs(ins) ==
  /\ ins.o.i.op \in {"fill", "copy", "init"} =>
       Len(ins.args) = 3 /\ ins.args[1] \in U32 /\ ins.args[3] \in U32
  /\ ins.o.i.op \in {"copy", "init"} => ins.args[2] \in U32
  /\ ins.o.i.op = "active" => ins.args[1] \in U32
  /\ ins.o.i.op \in {"init", "drop", "active"} => ins.o.seg \in 1 .. Len(Segments)

\* Operands are u32s, and a segment that is named exists.
LEMMA BulkOperands ==
  ASSUME NEW ins \in Instructions
  PROVE  BulkArgs(ins)
<1>1. CASE ins \in With([i : LoadOps, offset : U32], {<<b>> : b \in U32})
    <2>1. ins.o \in [i : LoadOps, offset : U32]
        BY <1>1, WithParts
    <2>2. ins.o.i \in LoadOps
        BY <2>1, AtOffset
    <2> QED
        BY <2>2 DEF LoadOps, BulkArgs
<1>2. CASE ins \in With([i : StoreOps, offset : U32], {<<b, v>> : b \in U32, v \in Words})
    <2> DEFINE A == {<<b, v>> : b \in U32, v \in Words}
    <2>1. ins \in With([i : StoreOps, offset : U32], A)
        BY <1>2
    <2> HIDE DEF A
    <2>2. ins.o \in [i : StoreOps, offset : U32]
        BY <2>1, WithParts
    <2>3. ins.o.i \in StoreOps
        BY <2>2, AtOffset
    <2> QED
        BY <2>3 DEF StoreOps, BulkArgs
<1>3. CASE ins \in With([i : VectorLoads, offset : U32], {<<b>> : b \in U32})
    <2>1. ins.o \in [i : VectorLoads, offset : U32]
        BY <1>3, WithParts
    <2>2. ins.o.i \in VectorLoads
        BY <2>1, AtOffset
    <2> QED
        BY <2>2 DEF VectorLoads, BulkArgs
<1>4. CASE ins \in With([i : {[op |-> "vstore"]} \cup LaneOps("vload_lane") \cup LaneOps("vstore_lane"),
                          offset : U32], {<<b, Vec>> : b \in U32})
    <2> DEFINE S == {[op |-> "vstore"]} \cup LaneOps("vload_lane") \cup LaneOps("vstore_lane")
    <2>1. ins.o \in [i : S, offset : U32]
        BY <1>4, WithParts
    <2>2. ins.o.i \in S
        BY <2>1, AtOffset
    <2> QED
        BY <2>2 DEF LaneOps, BulkArgs
<1>5. CASE \/ ins \in With({[i |-> [op |-> "size"]]}, {<<>>})
           \/ ins \in With({[i |-> [op |-> "grow"]]}, {<<n>> : n \in U32})
    <2>1. ins.o \in {[i |-> [op |-> o]] : o \in {"size", "grow"}}
        BY <1>5, WithParts
    <2> QED
        BY <2>1 DEF BulkArgs
<1>6. CASE ins \in With({[i |-> [op |-> "fill"]]}, U32 \X Words \X U32)
    <2>1. ins.o = [i |-> [op |-> "fill"]] /\ ins.args \in U32 \X Words \X U32
        BY <1>6, WithParts
    <2> QED
        BY <2>1 DEF BulkArgs
<1>7. CASE ins \in With({[i |-> [op |-> "copy"]]}, U32 \X U32 \X U32)
    <2>1. ins.o = [i |-> [op |-> "copy"]] /\ ins.args \in U32 \X U32 \X U32
        BY <1>7, WithParts
    <2> QED
        BY <2>1 DEF BulkArgs
<1>8. CASE ins \in With([i : {[op |-> "init"]}, seg : 1 .. Len(Segments)], U32 \X U32 \X U32)
    <2>1. ins.o \in [i : {[op |-> "init"]}, seg : 1 .. Len(Segments)] /\ ins.args \in U32 \X U32 \X U32
        BY <1>8, WithParts
    <2>2. ins.o.i = [op |-> "init"] /\ ins.o.seg \in 1 .. Len(Segments)
        BY <2>1
    <2> QED
        BY <2>1, <2>2 DEF BulkArgs
<1>9. CASE ins \in With([i : {[op |-> "drop"]}, seg : 1 .. Len(Segments)], {<<>>})
    <2>1. ins.o \in [i : {[op |-> "drop"]}, seg : 1 .. Len(Segments)]
        BY <1>9, WithParts
    <2>2. ins.o.i = [op |-> "drop"] /\ ins.o.seg \in 1 .. Len(Segments)
        BY <2>1
    <2> QED
        BY <2>2 DEF BulkArgs
<1>10. CASE ins \in With([i : {[op |-> "active"]}, seg : 1 .. Len(Segments)], {<<a>> : a \in U32})
    <2>1. ins.o \in [i : {[op |-> "active"]}, seg : 1 .. Len(Segments)] /\ ins.args \in {<<a>> : a \in U32}
        BY <1>10, WithParts
    <2>2. ins.o.i = [op |-> "active"] /\ ins.o.seg \in 1 .. Len(Segments)
        BY <2>1
    <2> QED
        BY <2>1, <2>2 DEF BulkArgs
<1> QED
    BY <1>1, <1>2, <1>3, <1>4, <1>5, <1>6, <1>7, <1>8, <1>9, <1>10 DEF Instructions

\* The actions that execute the bulk instructions.
LEMMA BulkExecutes ==
  ASSUME Execute
  PROVE  /\ Doing({"fill"}) => MemoryFill
         /\ Doing({"copy"}) => MemoryCopy
         /\ Doing({"init"}) => MemoryInit
         /\ Doing({"active"}) => ActiveSegment
         /\ Doing({"drop"}) => DataDrop
  BY DEF Doing, Execute, Load, Store, Grow, VectorLoad, LaneAccess, Size, Is, MemoryInit, DataDrop,
         ActiveSegment, MemoryCopy, MemoryFill

\* The check in one comparison is the check of every byte, and of the
\* address when there is none.
LEMMA RoomIsFits ==
  ASSUME NEW a \in Nat, NEW n \in Nat, NEW len \in Nat
  PROVE  Room(a, n, len) <=> Fits(a, n, len)
  BY DEF Room, Fits

\* A slice has the bytes it is cut from.
LEMMA SliceIs ==
  ASSUME NEW s, Listed(s), NEW a \in Nat, NEW n \in Nat, a + n <= Len(s)
  PROVE  Len(Slice(s, a, n)) = n /\ \A k \in 1 .. n : Slice(s, a, n)[k] = s[a + k]
<1> DEFINE S == {s[i] : i \in 1 .. Len(s)}
<1>1. s \in Seq(S) /\ Len(s) \in Nat
    BY DEF Listed
<1> HIDE DEF S
<1>2. a + 1 \in 1 .. Len(s) + 1 /\ a + n \in a + 1 - 1 .. Len(s) /\ (a + n) - (a + 1) + 1 = n
    BY <1>1
<1> DEFINE u == SubSeq(s, a + 1, a + n)
<1>3. Len(u) = n /\ \A k \in 1 .. n : u[k] = s[a + 1 + k - 1]
    BY <1>1, <1>2, SubSeqProperties
<1>4. \A k \in 1 .. n : a + 1 + k - 1 = a + k
    OBVIOUS
<1> QED
    BY <1>3, <1>4 DEF Slice

\* What BulkIsBytewise says of an instruction that moves bytes.
Moves ==
  /\ (result' = Trap) <=> ~BulkFits
  /\ data' = IF BulkFits THEN Bytewise ELSE data

\* memory.fill writes its byte everywhere.
LEMMA FillMoves ==
  ASSUME PagesInv, MemoryFill
  PROVE  Moves
<1> DEFINE d == todo.args[1]
           n == todo.args[3]
           v == todo.args[2] % Pow2[ByteBits]
           b == [i \in 1 .. n |-> v]
<1>1. todo \in Instructions /\ Op.op = "fill" /\ Listed(data)
    BY DEF MemoryFill, Is, Op, PagesInv
<1>2. Len(todo.args) = 3 /\ d \in Nat /\ n \in Nat /\ Len(data) \in Nat
    BY <1>1, BulkOperands, ListedIs DEF BulkArgs, Op, U32
<1>3. BulkFits <=> Room(d, n, Len(data))
    BY <1>1, <1>2 DEF BulkFits
<1>4. Bytewise = Filled(data, d, n, v)
    BY <1>1, <1>2 DEF Bytewise, Move, Filled
<1>5. \/ Fits(d, n, Len(data)) /\ data' = Written(data, d, b) /\ result' = [val |-> <<>>]
      \/ ~ Fits(d, n, Len(data)) /\ data' = data /\ result' = Trap
    BY DEF MemoryFill, Arg, Returns, Traps
<1>6. Len(b) = n /\ \A k \in 1 .. n : b[k] = v
    BY <1>2
<1> HIDE DEF d, n, v, b
<1>7. BulkFits <=> Fits(d, n, Len(data))
    BY <1>2, <1>3, RoomIsFits
<1>8. ASSUME Fits(d, n, Len(data)) PROVE Bytewise = Written(data, d, b)
    <2>1. d + n <= Len(data)
        BY <1>8 DEF Fits
    <2> QED
        BY <1>1, <1>2, <1>4, <1>6, <2>1, Fills
<1> QED
    BY <1>5, <1>7, <1>8, NoTrap DEF Moves

\* memory.copy reads every byte before it is overwritten, in the direction
\* that the addresses call for.
LEMMA CopyMoves ==
  ASSUME PagesInv, MemoryCopy
  PROVE  Moves
<1> DEFINE d == todo.args[1]
           a == todo.args[2]
           n == todo.args[3]
           b == Slice(data, a, n)
           fits == Fits(a, n, Len(data)) /\ Fits(d, n, Len(data))
<1>1. todo \in Instructions /\ Op.op = "copy" /\ Listed(data)
    BY DEF MemoryCopy, Is, Op, PagesInv
<1>2. Len(todo.args) = 3 /\ d \in Nat /\ a \in Nat /\ n \in Nat /\ Len(data) \in Nat
    BY <1>1, BulkOperands, ListedIs DEF BulkArgs, Op, U32
<1>3. BulkFits <=> Room(d, n, Len(data)) /\ Room(a, n, Len(data))
    BY <1>1, <1>2 DEF BulkFits
<1>4. d <= a =>
        Bytewise = CopiedUp(data, d, n, a)
    BY <1>1, <1>2 DEF Bytewise, Move, CopiedUp
<1>5. ~ (d <= a) =>
        Bytewise = CopiedDown(data, d, n, a)
    BY <1>1, <1>2 DEF Bytewise, MoveDown, CopiedDown
<1>6. \/ fits /\ data' = Written(data, d, b) /\ result' = [val |-> <<>>]
      \/ ~ fits /\ data' = data /\ result' = Trap
    BY DEF MemoryCopy, Arg, Returns, Traps
<1> HIDE DEF d, a, n, b
<1>7. BulkFits <=> fits
    BY <1>2, <1>3, RoomIsFits
<1>8. ASSUME fits PROVE Bytewise = Written(data, d, b)
    <2>1. d + n <= Len(data) /\ a + n <= Len(data)
        BY <1>8 DEF Fits
    <2>2. CutFrom(b, data, a, n)
        BY <1>1, <1>2, <2>1, SliceIs DEF b, CutFrom
    <2>3. CASE d <= a
        BY <1>1, <1>2, <1>4, <2>1, <2>2, <2>3, CopiesUp
    <2>4. CASE ~ (d <= a)
        <3>1. a < d
            BY <1>2, <2>4
        <3> QED
            BY <1>1, <1>2, <1>5, <2>1, <2>2, <2>4, <3>1, CopiesDown
    <2> QED
        BY <2>3, <2>4
<1> HIDE DEF fits
<1> QED
    BY <1>6, <1>7, <1>8, NoTrap DEF Moves

\* memory.init copies from a data segment.
LEMMA InitMoves ==
  ASSUME PagesInv, SegsInv, MemoryInit
  PROVE  Moves
<1> DEFINE d == todo.args[1]
           a == todo.args[2]
           n == todo.args[3]
           g == segs[todo.o.seg]
           b == Slice(g, a, n)
           fits == Fits(a, n, Len(g)) /\ Fits(d, n, Len(data))
<1>1. todo \in Instructions /\ Op.op = "init" /\ Listed(data)
    BY DEF MemoryInit, Is, Op, PagesInv
<1>2. Len(todo.args) = 3 /\ d \in Nat /\ a \in Nat /\ n \in Nat /\ Len(data) \in Nat
    BY <1>1, BulkOperands, ListedIs DEF BulkArgs, Op, U32
<1>9. Listed(g) /\ Len(g) \in Nat
    BY <1>1, BulkOperands, ListedIs DEF BulkArgs, Op, SegsInv
<1>3. BulkFits <=> Room(d, n, Len(data)) /\ Room(a, n, Len(g))
    BY <1>1, <1>2 DEF BulkFits, SegmentOf
<1>4. Bytewise = StreamedFrom(data, d, n, g, a)
    BY <1>1, <1>2 DEF Bytewise, Move, SegmentOf, StreamedFrom
<1>5. \/ fits /\ data' = Written(data, d, b) /\ result' = [val |-> <<>>]
      \/ ~ fits /\ data' = data /\ result' = Trap
    BY DEF MemoryInit, Arg, Returns, Traps
<1> HIDE DEF d, a, n, b, g
<1>7. BulkFits <=> fits
    BY <1>2, <1>3, <1>9, RoomIsFits
<1>8. ASSUME fits PROVE Bytewise = Written(data, d, b)
    <2>1. d + n <= Len(data) /\ a + n <= Len(g)
        BY <1>8 DEF Fits
    <2>2. CutFrom(b, g, a, n)
        BY <1>2, <1>9, <2>1, SliceIs DEF b, CutFrom
    <2> QED
        BY <1>1, <1>2, <1>4, <2>1, <2>2, StreamsFrom
<1> HIDE DEF fits
<1> QED
    BY <1>5, <1>7, <1>8, NoTrap DEF Moves

\* An active segment is copied whole.
LEMMA ActiveMoves ==
  ASSUME PagesInv, SegsInv, ActiveSegment
  PROVE  Moves
<1> DEFINE d == todo.args[1]
           g == segs[todo.o.seg]
           n == Len(g)
<1>1. todo \in Instructions /\ Op.op = "active" /\ Listed(data)
    BY DEF ActiveSegment, Is, Op, PagesInv
<1>2. d \in Nat /\ Len(data) \in Nat
    BY <1>1, BulkOperands, ListedIs DEF BulkArgs, Op, U32
<1>9. n \in Nat
    BY <1>1, BulkOperands, ListedIs DEF BulkArgs, Op, SegsInv
<1>3. BulkFits <=> Room(d, n, Len(data))
    BY <1>1 DEF BulkFits, SegmentOf
<1>4. Bytewise = Streamed(data, d, n, g)
    BY <1>1 DEF Bytewise, Move, SegmentOf, Streamed
<1>5. \/ Fits(d, n, Len(data)) /\ data' = Written(data, d, g) /\ result' = [val |-> <<>>]
      \/ ~ Fits(d, n, Len(data)) /\ data' = data /\ result' = Trap
    BY DEF ActiveSegment, Arg, Returns, Traps
<1>6. Len(g) = n
    OBVIOUS
<1> HIDE DEF d, n, g
<1>7. BulkFits <=> Fits(d, n, Len(data))
    BY <1>2, <1>3, <1>9, RoomIsFits
<1>8. ASSUME Fits(d, n, Len(data)) PROVE Bytewise = Written(data, d, g)
    <2>1. d + n <= Len(data)
        BY <1>8 DEF Fits
    <2> QED
        BY <1>1, <1>2, <1>4, <1>6, <1>9, <2>1, Streams
<1> QED
    BY <1>5, <1>7, <1>8, NoTrap DEF Moves

\* What BulkIsBytewise says of one step.
LEMMA StepBulk == PagesInv /\ SegsInv /\ [Next]_vars => [BulkDone]_vars
<1> SUFFICES ASSUME PagesInv, SegsInv, Next PROVE BulkDone
    BY DEF vars
<1>1. ASSUME NEW ins \in Instructions, Fetch(ins) PROVE BulkDone
    BY <1>1 DEF Fetch, BulkDone, Doing
<1>2. CASE Deliver
    BY <1>2 DEF Deliver, BulkDone, Doing
<1>3. CASE Execute
    <2>1. Doing({"fill", "copy", "init", "active"}) => Moves
        <3>1. \/ ~ Doing({"fill", "copy", "init", "active"})
              \/ Doing({"fill"}) \/ Doing({"copy"}) \/ Doing({"init"}) \/ Doing({"active"})
            BY DEF Doing
        <3> QED
            BY <1>3, <3>1, BulkExecutes, FillMoves, CopyMoves, InitMoves, ActiveMoves
    <2>2. segs' # segs => Doing({"drop", "active"}) /\ result' # Trap
        <3>1. DataDrop \/ ActiveSegment => Doing({"drop", "active"})
            BY DEF DataDrop, ActiveSegment, Is, Doing, Returns, Traps
        <3>2. DataDrop \/ ActiveSegment => UNCHANGED segs \/ result' = [val |-> <<>>]
            BY DEF DataDrop, ActiveSegment, Returns, Traps
        <3> QED
            BY <3>1, <3>2, Empties, NoTrap
    <2>3. ASSUME Doing({"drop", "active"}), result' # Trap
          PROVE  segs' = [k \in DOMAIN segs |-> IF k = todo.o.seg THEN <<>> ELSE segs[k]]
        <3>1. DataDrop \/ ActiveSegment
            <4>1. Doing({"drop"}) \/ Doing({"active"})
                BY <2>3 DEF Doing
            <4> QED
                BY <1>3, <4>1, BulkExecutes
        <3>2. segs' = [segs EXCEPT ![todo.o.seg] = <<>>]
            BY <2>3, <3>1 DEF DataDrop, ActiveSegment, Traps
        <3>3. segs = [k \in DOMAIN segs |-> segs[k]]
            BY DEF SegsInv
        <3> QED
            BY <3>2, <3>3
    <2> QED
        BY <2>1, <2>2, <2>3 DEF BulkDone, Moves
<1> QED
    BY <1>1, <1>2, <1>3 DEF Next

\* memory.fill, copy and init and active segments leave the memory that the
\* byte-wise definition leaves, overlapping ranges included, or trap and
\* change nothing; a segment is emptied by data.drop or by being applied, and
\* by nothing else.
THEOREM BulkAlwaysBytewise == Spec => BulkIsBytewise
<1>1. PagesInv /\ SegsInv /\ [Next]_vars => (PagesInv /\ SegsInv)'
    BY PagesStep, SegsStep
<1>2. Init => PagesInv /\ SegsInv
    BY PagesInit, SegsInit
<1> QED
    BY <1>1, <1>2, StepBulk, PTL DEF Spec, BulkIsBytewise

-----------------------------------------------------------------------------
(* Powers of two.                                                          *)

\* The powers up to n.
Powers(g, n) == g = [i \in 0..n |-> IF i = 0 THEN 1 ELSE 2 * g[i - 1]]

LEMMA PowersSame ==
  ASSUME NEW m \in Nat, NEW n \in Nat, NEW g, NEW h, Powers(g, m), Powers(h, n)
  PROVE  \A k \in Nat : k <= m /\ k <= n => g[k] = h[k]
<1> DEFINE T == {k \in Nat : k <= m /\ k <= n => g[k] = h[k]}
<1>0. /\ \A i \in 0..m : g[i] = IF i = 0 THEN 1 ELSE 2 * g[i - 1]
      /\ \A i \in 0..n : h[i] = IF i = 0 THEN 1 ELSE 2 * h[i - 1]
  BY DEF Powers
<1>1. 0 \in T
  BY <1>0
<1>2. ASSUME NEW k \in Nat, k \in T
      PROVE  k + 1 \in T
  <2>1. k + 1 \in Nat /\ k + 1 # 0 /\ (k + 1) - 1 = k
    OBVIOUS
  <2>2. k + 1 <= m /\ k + 1 <= n => g[k + 1] = h[k + 1]
    BY <1>0, <1>2, <2>1
  <2> QED
    BY <2>1, <2>2
<1>3. \A k \in Nat : k \in T
  <2> HIDE DEF T
  <2> QED
    BY <1>1, <1>2, NumbersIn
<1> QED
  BY <1>3

LEMMA PowersExist == \A n \in Nat : \E g : Powers(g, n)
<1> DEFINE T == {n \in Nat : \E g : Powers(g, n)}
<1>1. 0 \in T
  <2> DEFINE g == [i \in 0..0 |-> 1]
  <2>1. g = [i \in 0..0 |-> IF i = 0 THEN 1 ELSE 2 * g[i - 1]]
    OBVIOUS
  <2> HIDE DEF g
  <2> QED
    BY <2>1 DEF Powers
<1>2. ASSUME NEW n \in Nat, n \in T
      PROVE  n + 1 \in T
  <2> PICK g : Powers(g, n)
    BY <1>2
  <2> DEFINE h == [i \in 0 .. n + 1 |-> IF i = n + 1 THEN 2 * g[n] ELSE g[i]]
  <2>1. \A i \in 0..n : g[i] = IF i = 0 THEN 1 ELSE 2 * g[i - 1]
    BY DEF Powers
  <2>2. ASSUME NEW i \in 0 .. n + 1
        PROVE  h[i] = IF i = 0 THEN 1 ELSE 2 * h[i - 1]
    <3>1. CASE i = n + 1
      <4>1. i # 0 /\ i - 1 = n /\ n \in 0 .. n + 1 /\ n # n + 1
        BY <3>1
      <4> QED
        BY <3>1, <4>1
    <3>2. CASE i # n + 1
      <4>1. i \in 0..n /\ (i # 0 => i - 1 \in 0 .. n + 1 /\ i - 1 # n + 1)
        BY <3>2
      <4> QED
        BY <2>1, <3>2, <4>1
    <3> QED
      BY <3>1, <3>2
  <2>3. h = [i \in 0 .. n + 1 |-> h[i]]
    OBVIOUS
  <2> HIDE DEF h
  <2>4. h = [i \in 0 .. n + 1 |-> IF i = 0 THEN 1 ELSE 2 * h[i - 1]]
    BY <2>2, <2>3
  <2> QED
    BY <2>4 DEF Powers
<1>3. \A n \in Nat : n \in T
  <2> HIDE DEF T
  <2> QED
    BY <1>1, <1>2, NumbersIn
<1> QED
  BY <1>3

\* The recursion has a solution, so Pow2 is one.
LEMMA Pow2Is ==
  /\ Pow2[0] = 1
  /\ \A n \in Nat : Pow2[n + 1] = 2 * Pow2[n]
<1> DEFINE g(n) == CHOOSE g : Powers(g, n)
           f    == [n \in Nat |-> g(n)[n]]
           R(x) == x = [n \in Nat |-> IF n = 0 THEN 1 ELSE 2 * x[n - 1]]
<1>1. \A n \in Nat : Powers(g(n), n)
  BY PowersExist
<1> HIDE DEF g
<1>2. ASSUME NEW n \in Nat
      PROVE  f[n] = IF n = 0 THEN 1 ELSE 2 * f[n - 1]
  <2>1. n \in 0..n /\ f[n] = g(n)[n]
    OBVIOUS
  <2>2. g(n)[n] = IF n = 0 THEN 1 ELSE 2 * g(n)[n - 1]
    BY <1>1, <2>1 DEF Powers
  <2>3. ASSUME n # 0
        PROVE  g(n)[n - 1] = f[n - 1]
    <3>1. n - 1 \in Nat /\ n - 1 <= n /\ n - 1 <= n - 1
      BY <2>3
    <3>2. g(n)[n - 1] = g(n - 1)[n - 1]
      BY <1>1, <3>1, PowersSame
    <3> QED
      BY <3>1, <3>2
  <2> QED
    BY <2>1, <2>2, <2>3
<1>3. f = [n \in Nat |-> f[n]]
  OBVIOUS
<1> HIDE DEF f
<1>4. R(f)
  BY <1>2, <1>3
<1>5. Pow2 = CHOOSE x : R(x)
  BY DEF Pow2
<1>6. R(Pow2)
  <2> HIDE DEF R
  <2> QED
    BY <1>4, <1>5
<1>7. \A n \in Nat : Pow2[n] = IF n = 0 THEN 1 ELSE 2 * Pow2[n - 1]
  BY <1>6
<1>8. \A n \in Nat : n + 1 \in Nat /\ n + 1 # 0 /\ (n + 1) - 1 = n
  OBVIOUS
<1> QED
  BY <1>7, <1>8

LEMMA Pow2Positive == \A n \in Nat : Pow2[n] \in Nat /\ Pow2[n] > 0
<1> DEFINE T == {n \in Nat : Pow2[n] \in Nat /\ Pow2[n] > 0}
<1>1. 0 \in T
  BY Pow2Is
<1>2. ASSUME NEW n \in Nat, n \in T
      PROVE  n + 1 \in T
  <2>1. Pow2[n + 1] = 2 * Pow2[n] /\ Pow2[n] \in Nat /\ Pow2[n] > 0
    BY <1>2, Pow2Is
  <2> QED
    BY <2>1
<1>3. \A n \in Nat : n \in T
  <2> HIDE DEF T
  <2> QED
    BY <1>1, <1>2, NumbersIn
<1> QED
  BY <1>3

\* A product of powers is the power of the sum.
LEMMA Pow2Adds == \A m, n \in Nat : Pow2[m + n] = Pow2[m] * Pow2[n]
<1> TAKE m \in Nat
<1> DEFINE T == {n \in Nat : Pow2[m + n] = Pow2[m] * Pow2[n]}
<1>1. 0 \in T
  <2>1. m + 0 = m /\ Pow2[m] * 1 = Pow2[m]
    BY Pow2Positive
  <2> QED
    BY <2>1, Pow2Is
<1>2. ASSUME NEW n \in Nat, n \in T
      PROVE  n + 1 \in T
  <2> DEFINE p == Pow2[m]
             q == Pow2[n]
  <2>1. p \in Nat /\ q \in Nat /\ m + n \in Nat /\ m + (n + 1) = (m + n) + 1
    BY Pow2Positive
  <2>2. Pow2[m + (n + 1)] = 2 * (p * q) /\ Pow2[n + 1] = 2 * q
    BY <1>2, <2>1, Pow2Is
  <2> HIDE DEF p, q
  <2>3. 2 * (p * q) = p * (2 * q)
    BY <2>1
  <2> QED
    BY <2>2, <2>3 DEF p
<1>3. \A n \in Nat : n \in T
  <2> HIDE DEF T
  <2> QED
    BY <1>1, <1>2, NumbersIn
<1> QED
  BY <1>3

LEMMA Pow2Grows == \A m, n \in Nat : m <= n => Pow2[m] <= Pow2[n]
<1> SUFFICES ASSUME NEW m \in Nat, NEW n \in Nat, m <= n
             PROVE  Pow2[m] <= Pow2[n]
  OBVIOUS
<1> DEFINE p == Pow2[m]
           q == Pow2[n - m]
<1>1. n - m \in Nat /\ m + (n - m) = n
  OBVIOUS
<1>2. p \in Nat /\ q \in Nat /\ q > 0 /\ Pow2[n] = p * q
  BY <1>1, Pow2Positive, Pow2Adds
<1> HIDE DEF p, q
<1>3. p <= p * q
  BY <1>2
<1> QED
  BY <1>2, <1>3 DEF p

-----------------------------------------------------------------------------
(* Quotients and remainders.                                               *)

LEMMA DivMod ==
  ASSUME NEW n \in Nat, NEW d \in Nat, d > 0
  PROVE  /\ n \div d \in Nat /\ n % d \in Nat /\ n % d < d
         /\ n = (n \div d) * d + (n % d)
OBVIOUS

\* They are the only ones.
LEMMA DivIs ==
  ASSUME NEW q \in Nat, NEW d \in Nat, NEW r \in Nat, r < d
  PROVE  (q * d + r) \div d = q /\ (q * d + r) % d = r
<1> DEFINE n == q * d + r
           x == n \div d
           y == n % d
<1>1. n \in Nat /\ d > 0
  OBVIOUS
<1>2. x \in Nat /\ y \in Nat /\ y < d /\ n = x * d + y
  <2> HIDE DEF n
  <2> QED
    BY <1>1, DivMod
<1>3. q * d + r = x * d + y
  BY <1>2
<1> HIDE DEF n, x, y
<1>4. CASE x < q
  <2>1. x + 1 <= q /\ (x + 1) * d <= q * d
    BY <1>2, <1>4
  <2>2. (x + 1) * d = x * d + d /\ x * d \in Nat /\ q * d \in Nat
    BY <1>2
  <2> DEFINE xd == x * d
             qd == q * d
  <2>3. xd \in Nat /\ qd \in Nat /\ xd + d <= qd /\ qd + r = xd + y
    BY <1>3, <2>1, <2>2
  <2> HIDE DEF xd, qd
  <2> QED
    BY <1>2, <2>3
<1>5. CASE q < x
  <2>1. q + 1 <= x /\ (q + 1) * d <= x * d
    BY <1>2, <1>5
  <2>2. (q + 1) * d = q * d + d /\ x * d \in Nat /\ q * d \in Nat
    BY <1>2
  <2> DEFINE xd == x * d
             qd == q * d
  <2>3. xd \in Nat /\ qd \in Nat /\ qd + d <= xd /\ qd + r = xd + y
    BY <1>3, <2>1, <2>2
  <2> HIDE DEF xd, qd
  <2> QED
    BY <1>2, <2>3
<1>6. CASE x = q
  <2> DEFINE qd == q * d
  <2>1. qd \in Nat /\ qd + r = qd + y
    BY <1>3, <1>6
  <2> HIDE DEF qd
  <2>2. r = y
    BY <1>2, <2>1
  <2> QED
    BY <1>6, <2>2 DEF x, y, n
<1> QED
  BY <1>2, <1>4, <1>5, <1>6

\* A number below the modulus is its remainder.
LEMMA ModSmall ==
  ASSUME NEW n \in Nat, NEW d \in Nat, n < d
  PROVE  n % d = n
<1>1. 0 * d + n = n
  OBVIOUS
<1> QED
  BY <1>1, DivIs

-----------------------------------------------------------------------------
(* Numbers and their bytes.                                                *)

\* The sums of the first of the numbers a.
Sums(t, k, a) == t = [i \in 0..k |-> IF i = 0 THEN 0 ELSE t[i - 1] + a[i]]

LEMMA SumsExist ==
  ASSUME NEW a
  PROVE  \A k \in Nat : \E t : Sums(t, k, a)
<1> DEFINE T == {k \in Nat : \E t : Sums(t, k, a)}
<1>1. 0 \in T
  <2> DEFINE t == [i \in 0..0 |-> 0]
  <2>1. t = [i \in 0..0 |-> IF i = 0 THEN 0 ELSE t[i - 1] + a[i]]
    OBVIOUS
  <2> HIDE DEF t
  <2> QED
    BY <2>1 DEF Sums
<1>2. ASSUME NEW k \in Nat, k \in T
      PROVE  k + 1 \in T
  <2> PICK t : Sums(t, k, a)
    BY <1>2
  <2> DEFINE u == [i \in 0 .. k + 1 |-> IF i = k + 1 THEN t[k] + a[k + 1] ELSE t[i]]
  <2>1. \A i \in 0..k : t[i] = IF i = 0 THEN 0 ELSE t[i - 1] + a[i]
    BY DEF Sums
  <2>2. ASSUME NEW i \in 0 .. k + 1
        PROVE  u[i] = IF i = 0 THEN 0 ELSE u[i - 1] + a[i]
    <3>1. CASE i = k + 1
      <4>1. i # 0 /\ i - 1 = k /\ k \in 0 .. k + 1 /\ k # k + 1
        BY <3>1
      <4> QED
        BY <3>1, <4>1
    <3>2. CASE i # k + 1
      <4>1. i \in 0..k /\ (i # 0 => i - 1 \in 0 .. k + 1 /\ i - 1 # k + 1)
        BY <3>2
      <4> QED
        BY <2>1, <3>2, <4>1
    <3> QED
      BY <3>1, <3>2
  <2>3. u = [i \in 0 .. k + 1 |-> u[i]]
    OBVIOUS
  <2> HIDE DEF u
  <2>4. u = [i \in 0 .. k + 1 |-> IF i = 0 THEN 0 ELSE u[i - 1] + a[i]]
    BY <2>2, <2>3
  <2> QED
    BY <2>4 DEF Sums
<1>3. \A k \in Nat : k \in T
  <2> HIDE DEF T
  <2> QED
    BY <1>1, <1>2, NumbersIn
<1> QED
  BY <1>3

\* s is the sums of k digits d of w bits.
Digits(s, k, d, w) ==
  /\ s[0] = 0
  /\ \A i \in 1..k : d[i] \in Nat /\ d[i] < Pow2[w] /\ s[i] = s[i - 1] + d[i] * Pow2[w * (i - 1)]

\* The low digits fit below the next one,
LEMMA DigitsFit ==
  ASSUME NEW k \in Nat, NEW w \in Nat, NEW d, NEW s, Digits(s, k, d, w)
  PROVE  \A i \in 0..k : s[i] \in Nat /\ s[i] < Pow2[w * i]
<1> DEFINE T == {i \in Nat : i <= k => s[i] \in Nat /\ s[i] < Pow2[w * i]}
<1>1. 0 \in T
  <2>1. w * 0 = 0
    OBVIOUS
  <2> QED
    BY <2>1, Pow2Is DEF Digits
<1>2. ASSUME NEW i \in Nat, i \in T
      PROVE  i + 1 \in T
  <2> SUFFICES ASSUME i + 1 <= k
               PROVE  s[i + 1] \in Nat /\ s[i + 1] < Pow2[w * (i + 1)]
    OBVIOUS
  <2> DEFINE p == Pow2[w * i]
             b == Pow2[w]
             x == d[i + 1]
             y == s[i]
  <2>1. i + 1 \in 1..k /\ (i + 1) - 1 = i
    OBVIOUS
  <2>2. x \in Nat /\ x < b /\ s[i + 1] = y + x * p /\ y \in Nat /\ y < p
    BY <1>2, <2>1 DEF Digits
  <2>3. w * i \in Nat /\ w * (i + 1) = w * i + w
    OBVIOUS
  <2>4. p \in Nat /\ b \in Nat /\ Pow2[w * (i + 1)] = p * b
    BY <2>3, Pow2Adds, Pow2Positive
  <2> HIDE DEF p, b, x, y
  <2>5. y + x * p \in Nat /\ y + x * p < p * b
    <3>1. x + 1 <= b /\ (x + 1) * p <= b * p
      BY <2>2, <2>4
    <3>2. (x + 1) * p = x * p + p /\ b * p = p * b /\ x * p \in Nat /\ p * b \in Nat
      BY <2>2, <2>4
    <3> DEFINE xp == x * p
               pb == p * b
    <3>3. xp + p <= pb /\ xp \in Nat /\ pb \in Nat
      BY <3>1, <3>2
    <3> HIDE DEF xp, pb
    <3>4. y + xp \in Nat /\ y + xp < pb
      BY <2>2, <2>4, <3>3
    <3> QED
      BY <3>4 DEF xp, pb
  <2> QED
    BY <2>2, <2>4, <2>5
<1>3. \A i \in Nat : i \in T
  <2> HIDE DEF T
  <2> QED
    BY <1>1, <1>2, NumbersIn
<1> QED
  BY <1>3

\* the others are above,
LEMMA DigitsAbove ==
  ASSUME NEW k \in Nat, NEW w \in Nat, NEW d, NEW s, Digits(s, k, d, w), NEW i \in 0..k
  PROVE  \E r \in Nat : s[k] = s[i] + r * Pow2[w * i]
<1> DEFINE T == {m \in Nat : i + m <= k => \E r \in Nat : s[i + m] = s[i] + r * Pow2[w * i]}
           p == Pow2[w * i]
           y == s[i]
<1>0. p \in Nat /\ y \in Nat /\ w * i \in Nat
  <2>1. w * i \in Nat
    OBVIOUS
  <2> QED
    BY <2>1, Pow2Positive, DigitsFit
<1>1. 0 \in T
  <2>1. i + 0 = i /\ y = y + 0 * p
    BY <1>0
  <2>2. s[i + 0] = s[i] + 0 * Pow2[w * i]
    BY <2>1
  <2> QED
    BY <2>2
<1>2. ASSUME NEW m \in Nat, m \in T
      PROVE  m + 1 \in T
  <2> SUFFICES ASSUME i + (m + 1) <= k
               PROVE  \E r \in Nat : s[i + (m + 1)] = s[i] + r * Pow2[w * i]
    OBVIOUS
  <2>1. i + m <= k /\ i + (m + 1) \in 1..k /\ (i + (m + 1)) - 1 = i + m
    OBVIOUS
  <2> PICK r \in Nat : s[i + m] = s[i] + r * Pow2[w * i]
    BY <1>2, <2>1
  <2> DEFINE x == d[i + (m + 1)]
             q == Pow2[w * m]
  <2>2. x \in Nat /\ s[i + (m + 1)] = s[i + m] + x * Pow2[w * (i + m)]
    BY <2>1 DEF Digits
  <2>3. w * (i + m) = w * i + w * m /\ w * m \in Nat
    OBVIOUS
  <2>4. Pow2[w * (i + m)] = p * q /\ q \in Nat
    BY <1>0, <2>3, Pow2Adds, Pow2Positive
  <2>5. s[i + (m + 1)] = (y + r * p) + x * (p * q)
    BY <2>2, <2>4
  <2> HIDE DEF p, q, x, y
  <2>6. (y + r * p) + x * (p * q) = y + (r + x * q) * p /\ r + x * q \in Nat
    <3>1. x * (p * q) = (x * q) * p
      BY <1>0, <2>2, <2>4
    <3>2. x * q \in Nat
      BY <2>2, <2>4
    <3> DEFINE z == x * q
    <3> HIDE DEF z
    <3>3. (y + r * p) + z * p = y + (r + z) * p
      BY <1>0, <3>2 DEF z
    <3> QED
      BY <3>1, <3>2, <3>3 DEF z
  <2>7. s[i + (m + 1)] = y + (r + x * q) * p
    BY <2>5, <2>6
  <2> QED
    BY <2>6, <2>7 DEF y, p
<1>3. \A m \in Nat : m \in T
  <2> HIDE DEF T
  <2> QED
    BY <1>1, <1>2, NumbersIn
<1>4. k - i \in Nat /\ i + (k - i) = k /\ k <= k
  OBVIOUS
<1> QED
  BY <1>3, <1>4

\* and each can be read.
LEMMA DigitsRead ==
  ASSUME NEW k \in Nat, NEW w \in Nat, NEW d, NEW s, Digits(s, k, d, w), NEW i \in 1..k
  PROVE  (s[k] \div Pow2[w * (i - 1)]) % Pow2[w] = d[i]
<1> DEFINE p == Pow2[w * (i - 1)]
           b == Pow2[w]
           x == d[i]
           y == s[i - 1]
<1>1. i \in 0..k /\ i - 1 \in 0..k /\ w * (i - 1) \in Nat /\ w * i = w * (i - 1) + w
  <2>1. i - 1 \in Nat /\ (i - 1) + 1 = i
    OBVIOUS
  <2> DEFINE j == i - 1
  <2> HIDE DEF j
  <2>2. w * j \in Nat /\ w * (j + 1) = w * j + w
    BY <2>1 DEF j
  <2> QED
    BY <2>1, <2>2 DEF j
<1>2. p \in Nat /\ b \in Nat /\ Pow2[w * i] = p * b
  BY <1>1, Pow2Adds, Pow2Positive
<1>3. x \in Nat /\ x < b /\ s[i] = y + x * p
  BY DEF Digits
<1>4. y \in Nat /\ y < p
  BY <1>1, DigitsFit
<1> PICK r \in Nat : s[k] = s[i] + r * Pow2[w * i]
  BY <1>1, DigitsAbove
<1> DEFINE n == s[k]
<1>5. n = (y + x * p) + r * (p * b)
  BY <1>2, <1>3
<1> HIDE DEF p, b, x, y, n
<1>6. n = (r * b + x) * p + y /\ r * b + x \in Nat
  <2>1. r * (p * b) = (r * b) * p /\ r * b \in Nat
    BY <1>2
  <2> DEFINE z == r * b
  <2>2. n = (y + x * p) + z * p /\ z \in Nat
    BY <1>5, <2>1
  <2> HIDE DEF z
  <2>3. n = (z + x) * p + y /\ z + x \in Nat
    BY <1>2, <1>3, <1>4, <2>2
  <2> QED
    BY <2>3 DEF z
<1>7. n \div p = r * b + x
  BY <1>2, <1>4, <1>6, DivIs
<1>8. (r * b + x) % b = x
  BY <1>2, <1>3, DivIs
<1> QED
  BY <1>7, <1>8 DEF n, p, b, x


\* A byte and what it is made of.
LEMMA ByteIs ==
  /\ ByteBits \in Nat \ {0} /\ Pow2[ByteBits] \in Nat /\ Pow2[ByteBits] > 1
  /\ Pow2[ByteBits - 1] \in Nat /\ Pow2[ByteBits - 1] > 0 /\ Pow2[ByteBits] = 2 * Pow2[ByteBits - 1]
  /\ Byte = {b \in Nat : b < Pow2[ByteBits]}
<1>1. ByteBits \in Nat \ {0}
  BY MemoryAssumption
<1>2. ByteBits - 1 \in Nat /\ (ByteBits - 1) + 1 = ByteBits
  BY <1>1
<1> DEFINE h == Pow2[ByteBits - 1]
           p == Pow2[ByteBits]
<1>3. h \in Nat /\ h > 0 /\ p = 2 * h
  BY <1>2, Pow2Is, Pow2Positive
<1>4. Byte = 0 .. p - 1
  BY DEF Byte
<1> HIDE DEF h, p
<1>5. p \in Nat /\ p > 1 /\ 0 .. p - 1 = {b \in Nat : b < p}
  BY <1>3
<1> QED
  BY <1>1, <1>3, <1>4, <1>5 DEF h, p

\* s is n bytes.
BytesOf(s, n) == Len(s) = n /\ \A i \in 1 .. n : s[i] \in Byte

\* from_le_bytes sums up its bytes.
LEMMA FromLEIs ==
  ASSUME NEW k \in Nat, NEW s, BytesOf(s, k)
  PROVE  \E f : Digits(f, k, s, ByteBits) /\ FromLE(s) = f[k]
<1> DEFINE R(t) == t = [i \in 0 .. Len(s) |->
                          IF i = 0 THEN 0 ELSE t[i - 1] + s[i] * Pow2[ByteBits * (i - 1)]]
           f    == CHOOSE t : R(t)
           a    == [i \in 1 .. k |-> s[i] * Pow2[ByteBits * (i - 1)]]
<1>1. FromLE(s) = f[k]
  BY DEF FromLE, BytesOf
<1>2. ASSUME NEW t
      PROVE  Sums(t, k, a) <=> R(t)
  <2>1. \A i \in 0..k : i # 0 => a[i] = s[i] * Pow2[ByteBits * (i - 1)]
    OBVIOUS
  <2>2. Len(s) = k
    BY DEF BytesOf
  <2> HIDE DEF a
  <2> QED
    BY <2>1, <2>2 DEF Sums
<1>3. f = CHOOSE t : R(t)
  OBVIOUS
<1>4. f = CHOOSE t : Sums(t, k, a)
  <2> HIDE DEF R, f, a
  <2> QED
    BY <1>2, <1>3, Zenon
<1>5. Sums(f, k, a)
  <2> HIDE DEF f, a
  <2> QED
    BY <1>4, SumsExist
<1>6. Digits(f, k, s, ByteBits)
  <2>1. \A i \in 0..k : f[i] = IF i = 0 THEN 0 ELSE f[i - 1] + a[i]
    BY <1>5 DEF Sums
  <2>2. \A i \in 1..k : i \in 0..k /\ i # 0 /\ a[i] = s[i] * Pow2[ByteBits * (i - 1)]
    OBVIOUS
  <2>3. \A i \in 1..k : s[i] \in Nat /\ s[i] < Pow2[ByteBits]
    BY ByteIs DEF BytesOf
  <2>4. 0 \in 0..k
    OBVIOUS
  <2> HIDE DEF f, a
  <2> QED
    BY <2>1, <2>2, <2>3, <2>4 DEF Digits
<1> QED
  BY <1>1, <1>6

\* The bytes s with copies of their sign, or with zeros, above them.
Signed(s, sx) == sx = "s" /\ s[Len(s)] >= Pow2[ByteBits - 1]
Longer(s, sx, t) ==
  [i \in 1 .. t |-> IF i <= Len(s) THEN s[i] ELSE IF Signed(s, sx) THEN Pow2[ByteBits] - 1 ELSE 0]

\* They are bytes.
LEMMA LongerIs ==
  ASSUME NEW w \in Nat, NEW t \in Nat, NEW s, BytesOf(s, w), NEW sx
  PROVE  BytesOf(Longer(s, sx, t), t)
<1> DEFINE e == Longer(s, sx, t)
<1>1. DOMAIN e = 1 .. t /\ e = [i \in 1 .. t |-> e[i]]
  BY DEF Longer
<1>2. ASSUME NEW i \in 1 .. t PROVE e[i] \in Byte
  <2>1. e[i] = IF i <= w THEN s[i] ELSE IF Signed(s, sx) THEN Pow2[ByteBits] - 1 ELSE 0
    BY DEF Longer, BytesOf
  <2>2. i <= w => i \in 1 .. w
    OBVIOUS
  <2>3. Pow2[ByteBits] - 1 \in Byte /\ 0 \in Byte
    BY ByteIs
  <2> HIDE DEF e
  <2> QED
    BY <2>1, <2>2, <2>3 DEF BytesOf
<1> HIDE DEF e
<1>3. Len(e) = t
  BY <1>1, GivenLength
<1> QED
  BY <1>2, <1>3 DEF BytesOf, e

\* The extended number has them for its bytes.
LEMMA ExtendIs ==
  ASSUME NEW w \in Nat \ {0}, NEW t \in Nat, w <= t, NEW s, BytesOf(s, w), NEW sx
  PROVE  \E f : Digits(f, t, Longer(s, sx, t), ByteBits) /\ Extend(s, sx, t) = f[t]
<1> DEFINE e     == Longer(s, sx, t)
           B     == Pow2[ByteBits]
           P(i)  == Pow2[ByteBits * i]
           neg   == Signed(s, sx)
<1>1. PICK g : Digits(g, w, s, ByteBits) /\ FromLE(s) = g[w]
  BY FromLEIs
<1> DEFINE f == [i \in 0 .. t |-> IF i <= w THEN g[i] ELSE IF neg THEN g[w] + P(i) - P(w) ELSE g[w]]
<1>2. Len(s) = w
  BY DEF BytesOf
<1>3. ByteBits \in Nat /\ B \in Nat /\ B > 1
  BY ByteIs
<1>4. ASSUME NEW i \in Nat PROVE P(i) \in Nat /\ P(i) > 0 /\ P(i + 1) = P(i) * B
  <2>1. ByteBits * i \in Nat /\ ByteBits * (i + 1) = ByteBits * i + ByteBits
    BY <1>3
  <2> QED
    BY <1>3, <2>1, Pow2Positive, Pow2Adds
<1>5. \A i \in 0 .. w : g[i] \in Nat
  BY <1>1, <1>3, DigitsFit
<1>6. Extend(s, sx, t) = f[t]
  <2>1. Extend(s, sx, t) = IF neg THEN g[w] + P(t) - P(w) ELSE g[w]
    BY <1>1, <1>2 DEF Extend, SignExtend, Signed
  <2>2. f[t] = IF t <= w THEN g[t] ELSE IF neg THEN g[w] + P(t) - P(w) ELSE g[w]
    OBVIOUS
  <2>3. t <= w => t = w
    OBVIOUS
  <2>4. g[w] \in Nat /\ P(w) \in Nat
    BY <1>4, <1>5
  <2> HIDE DEF f, P, neg
  <2>5. g[w] + P(w) - P(w) = g[w]
    BY <2>4
  <2> QED
    BY <2>1, <2>2, <2>3, <2>5
<1>7. f[0] = 0
  <2>1. 0 \in 0 .. t /\ 0 <= w /\ g[0] = 0
    BY <1>1 DEF Digits
  <2> QED
    BY <2>1
<1>8. BytesOf(e, t)
  BY LongerIs
<1>9. ASSUME NEW i \in 1 .. t
      PROVE  e[i] \in Nat /\ e[i] < B /\ f[i] = f[i - 1] + e[i] * P(i - 1)
  <2>1. e[i] \in Nat /\ e[i] < B
    BY <1>8, ByteIs DEF BytesOf
  <2>2. e[i] = IF i <= w THEN s[i] ELSE IF neg THEN B - 1 ELSE 0
    BY <1>2 DEF Longer
  <2>3. /\ i \in 0 .. t /\ i - 1 \in 0 .. t /\ i - 1 \in Nat /\ (i - 1) + 1 = i
        /\ f[i] = IF i <= w THEN g[i] ELSE IF neg THEN g[w] + P(i) - P(w) ELSE g[w]
        /\ f[i - 1] = IF i - 1 <= w THEN g[i - 1] ELSE IF neg THEN g[w] + P(i - 1) - P(w) ELSE g[w]
    OBVIOUS
  <2>4. CASE i <= w
    <3>1. i \in 1 .. w /\ i - 1 <= w
      BY <2>4
    <3>2. g[i] = g[i - 1] + s[i] * P(i - 1)
      BY <1>1, <3>1 DEF Digits
    <3> HIDE DEF e, f, P, B, neg
    <3> QED
      BY <2>1, <2>2, <2>3, <2>4, <3>1, <3>2
  <2>5. CASE ~ (i <= w)
    <3>1. f[i - 1] = IF neg THEN g[w] + P(i - 1) - P(w) ELSE g[w]
      <4>1. i - 1 <= w => i - 1 = w
        BY <2>5
      <4>2. g[w] \in Nat /\ P(w) \in Nat
        BY <1>4, <1>5
      <4> HIDE DEF e, f, P, B, neg
      <4>3. g[w] + P(w) - P(w) = g[w]
        BY <4>2
      <4> QED
        BY <2>3, <4>1, <4>3
    <3>2. g[w] \in Nat /\ P(w) \in Nat /\ P(i - 1) \in Nat /\ P(i) = P(i - 1) * B
      BY <1>4, <1>5, <2>3
    <3> DEFINE p == P(i - 1)
               q == P(w)
               r == P(i)
    <3>3. f[i - 1] = (IF neg THEN g[w] + p - q ELSE g[w]) /\ p \in Nat /\ q \in Nat /\ r = p * B
      BY <3>1, <3>2
    <3>4. f[i] = IF neg THEN g[w] + r - q ELSE g[w]
      BY <2>3, <2>5
    <3>5. e[i] = IF neg THEN B - 1 ELSE 0
      BY <2>2, <2>5
    <3> HIDE DEF e, f, P, B, neg, p, q, r
    <3>6. CASE neg
      <4>1. (B - 1) * p = p * B - p /\ p * B \in Nat
        BY <1>3, <3>3
      <4> DEFINE z == (B - 1) * p
      <4>2. z = r - p /\ r \in Nat
        BY <3>3, <4>1
      <4> HIDE DEF z
      <4>3. g[w] + r - q = (g[w] + p - q) + z
        BY <3>2, <3>3, <4>2
      <4>4. f[i] = f[i - 1] + (B - 1) * p
        BY <3>3, <3>4, <3>6, <4>3 DEF z
      <4> QED
        BY <2>1, <3>5, <3>6, <4>4 DEF p
    <3>7. CASE ~ neg
      <4>1. g[w] = g[w] + 0 * p
        BY <3>2, <3>3
      <4> QED
        BY <2>1, <3>3, <3>4, <3>5, <3>7, <4>1 DEF p
    <3> QED
      BY <3>6, <3>7
  <2> QED
    BY <2>4, <2>5
<1>10. Digits(f, t, e, ByteBits)
  <2> HIDE DEF e, f
  <2> QED
    BY <1>7, <1>9 DEF Digits
<1> QED
  BY <1>6, <1>10

\* What is known of an extended number: how large it is, and its bytes.
LEMMA ExtendBytes ==
  ASSUME NEW w \in Nat \ {0}, NEW t \in Nat, w <= t, NEW s, BytesOf(s, w), NEW sx
  PROVE  LET n == Extend(s, sx, t)
         IN /\ n \in Nat /\ n < Pow2[ByteBits * t]
            /\ \A i \in 1 .. t :
                 (n \div Pow2[ByteBits * (i - 1)]) % Pow2[ByteBits] = Longer(s, sx, t)[i]
<1> DEFINE e == Longer(s, sx, t)
<1>1. PICK f : Digits(f, t, e, ByteBits) /\ Extend(s, sx, t) = f[t]
  BY ExtendIs
<1>2. ByteBits \in Nat /\ t \in 0..t
  BY ByteIs
<1> HIDE DEF e
<1>3. f[t] \in Nat /\ f[t] < Pow2[ByteBits * t]
  BY <1>1, <1>2, DigitsFit
<1>4. \A i \in 1 .. t : (f[t] \div Pow2[ByteBits * (i - 1)]) % Pow2[ByteBits] = e[i]
  BY <1>1, <1>2, DigitsRead
<1> QED
  BY <1>1, <1>3, <1>4 DEF e

-----------------------------------------------------------------------------
(* Bits.                                                                   *)

\* Dividing twice is dividing by the product.
LEMMA DivDiv ==
  ASSUME NEW n \in Nat, NEW a \in Nat, a > 0, NEW c \in Nat, c > 0
  PROVE  (n \div a) \div c = n \div (a * c)
<1> DEFINE m == n \div a
           y == n % a
           q == m \div c
           x == m % c
<1>1. m \in Nat /\ y \in Nat /\ y < a /\ n = m * a + y
  BY DivMod
<1>2. q \in Nat /\ x \in Nat /\ x < c /\ m = q * c + x
  <2> HIDE DEF m
  <2> QED
    BY <1>1, DivMod
<1> HIDE DEF m, y, q, x
<1> DEFINE r == x * a + y
           d == a * c
<1>3. d \in Nat /\ r \in Nat /\ r < d
  <2>1. (x + 1) * a <= c * a /\ (x + 1) * a = x * a + a
    BY <1>2
  <2>2. c * a = a * c /\ x * a \in Nat /\ a * c \in Nat
    BY <1>2
  <2> DEFINE xa == x * a
             ac == a * c
  <2>3. xa \in Nat /\ ac \in Nat /\ xa + a <= ac
    BY <2>1, <2>2
  <2> HIDE DEF xa, ac
  <2>4. ac \in Nat /\ xa + y \in Nat /\ xa + y < ac
    BY <1>1, <2>3
  <2> QED
    BY <2>4 DEF xa, ac
<1>4. n = q * d + r
  <2>1. (q * c + x) * a = (q * c) * a + x * a
    <3> DEFINE z == q * c
    <3>1. z \in Nat
      BY <1>2
    <3> HIDE DEF z
    <3>2. (z + x) * a = z * a + x * a
      BY <1>2, <3>1
    <3> QED
      BY <3>2 DEF z
  <2>2. (q * c) * a = q * (a * c)
    BY <1>2
  <2> DEFINE u == q * d
             v == x * a
  <2>3. n = (u + v) + y /\ u \in Nat /\ v \in Nat
    BY <1>1, <1>2, <1>3, <2>1, <2>2
  <2> HIDE DEF u, v
  <2>4. (u + v) + y = u + (v + y)
    BY <1>1, <2>3
  <2> QED
    BY <2>3, <2>4 DEF u, v
<1> HIDE DEF r, d
<1>5. n \div d = q
  BY <1>2, <1>3, <1>4, DivIs
<1> QED
  BY <1>5 DEF d, q, m

\* The bit c of a number is the bit of its remainder, when that has the bit.
LEMMA BitBelow ==
  ASSUME NEW m \in Nat, NEW c \in Nat, c > 0, NEW d \in Nat, d > 0
  PROVE  (m \div c) % 2 = ((m % ((2 * d) * c)) \div c) % 2
<1> DEFINE B  == (2 * d) * c
           q  == m \div B
           r  == m % B
           x  == r \div c
           y  == r % c
           x2 == x \div 2
           x0 == x % 2
<1>0. B \in Nat /\ B > 0
  OBVIOUS
<1>1. q \in Nat /\ r \in Nat /\ m = q * B + r
  <2> HIDE DEF B
  <2> QED
    BY <1>0, DivMod
<1>2. x \in Nat /\ y \in Nat /\ y < c /\ r = x * c + y
  <2> HIDE DEF r
  <2> QED
    BY <1>1, DivMod
<1>3. x2 \in Nat /\ x0 \in Nat /\ x0 < 2 /\ x = x2 * 2 + x0
  <2> HIDE DEF x
  <2> QED
    BY <1>2, DivMod
<1>4. q * B = (q * (2 * d)) * c
  <2> HIDE DEF q
  <2> QED
    BY <1>1
<1> HIDE DEF q, r, x, y, x2, x0
<1> DEFINE e == q * (2 * d)
<1>5. e \in Nat
  BY <1>1
<1>6. m = (e * c) + (x * c + y)
  BY <1>1, <1>2, <1>4
<1> HIDE DEF e
<1>7. m = (e + x) * c + y
  BY <1>2, <1>5, <1>6
<1>8. m \div c = e + x
  <2>1. e + x \in Nat
    BY <1>2, <1>5
  <2> QED
    BY <1>2, <1>7, <2>1, DivIs
<1>9. e + x = (q * d + x2) * 2 + x0
  <2>1. q * (2 * d) = (q * d) * 2 /\ q * d \in Nat
    BY <1>1
  <2> DEFINE z == q * d
  <2>2. e = z * 2 /\ z \in Nat
    BY <2>1 DEF e
  <2> HIDE DEF z
  <2>3. e + x = (z + x2) * 2 + x0
    BY <1>3, <2>2
  <2> QED
    BY <2>3 DEF z
<1>10. q * d + x2 \in Nat
  BY <1>1, <1>3
<1>11. (e + x) % 2 = x0
  <2> DEFINE z == q * d + x2
  <2>1. e + x = z * 2 + x0 /\ z \in Nat
    BY <1>9, <1>10
  <2> HIDE DEF z
  <2> QED
    BY <1>3, <2>1, DivIs
<1> QED
  BY <1>8, <1>11 DEF x0, x, r

\* A number's bits are its bytes' bits.
LEMMA BitsOfBytes ==
  ASSUME NEW n \in Nat, NEW i \in Nat, NEW j \in 0 .. ByteBits - 1
  PROVE  (n \div Pow2[ByteBits * i + j]) % 2
           = (((n \div Pow2[ByteBits * i]) % Pow2[ByteBits]) \div Pow2[j]) % 2
<1> DEFINE k == ByteBits - 1 - j
           a == Pow2[ByteBits * i]
           c == Pow2[j]
           d == Pow2[k]
           m == n \div a
<1>1. ByteBits \in Nat
  BY ByteIs
<1>2. k \in Nat /\ (k + 1) + j = ByteBits /\ j \in Nat /\ ByteBits * i \in Nat
  BY <1>1
<1> HIDE DEF k
<1>3. a \in Nat /\ a > 0 /\ c \in Nat /\ c > 0 /\ d \in Nat /\ d > 0
  BY <1>2, Pow2Positive
<1>4. Pow2[ByteBits * i + j] = a * c
  BY <1>2, Pow2Adds
<1>5. Pow2[ByteBits] = (2 * d) * c
  <2>1. k + 1 \in Nat
    BY <1>2
  <2>2. Pow2[k + 1] = 2 * d
    BY <1>2, Pow2Is
  <2>3. Pow2[(k + 1) + j] = Pow2[k + 1] * c
    BY <1>2, <2>1, Pow2Adds
  <2> QED
    BY <1>2, <2>2, <2>3
<1> HIDE DEF a, c, d
<1>6. m \in Nat
  BY <1>3, DivMod
<1>7. n \div (a * c) = m \div c
  BY <1>3, DivDiv
<1> HIDE DEF m
<1>8. (m \div c) % 2 = ((m % ((2 * d) * c)) \div c) % 2
  BY <1>3, <1>6, BitBelow
<1> QED
  BY <1>4, <1>5, <1>7, <1>8 DEF m, a, c

\* All the bits of the greatest byte are ones, all of 0 are zeros, and the
\* top bit of a byte tells whether it is in the upper half.
LEMMA ByteBitsAre ==
  /\ \A j \in 0 .. ByteBits - 1 : ((Pow2[ByteBits] - 1) \div Pow2[j]) % 2 = 1
  /\ \A j \in 0 .. ByteBits - 1 : (0 \div Pow2[j]) % 2 = 0
  /\ \A b \in Byte : (b \div Pow2[ByteBits - 1]) % 2 = IF b >= Pow2[ByteBits - 1] THEN 1 ELSE 0
<1>0. ByteBits \in Nat
  BY ByteIs
<1>1. ASSUME NEW j \in 0 .. ByteBits - 1
      PROVE  ((Pow2[ByteBits] - 1) \div Pow2[j]) % 2 = 1 /\ (0 \div Pow2[j]) % 2 = 0
  <2> DEFINE k == ByteBits - 1 - j
             c == Pow2[j]
             d == Pow2[k]
  <2>1. k \in Nat /\ (k + 1) + j = ByteBits /\ j \in Nat
    BY <1>0
  <2> HIDE DEF k
  <2>2. c \in Nat /\ c > 0 /\ d \in Nat /\ d > 0
    BY <2>1, Pow2Positive
  <2>3. Pow2[ByteBits] = (2 * d) * c
    <3>1. k + 1 \in Nat
      BY <2>1
    <3>2. Pow2[k + 1] = 2 * d
      BY <2>1, Pow2Is
    <3>3. Pow2[(k + 1) + j] = Pow2[k + 1] * c
      BY <2>1, <3>1, Pow2Adds
    <3> QED
      BY <2>1, <3>2, <3>3
  <2> HIDE DEF c, d
  <2>4. (0 \div c) % 2 = 0
    <3>1. 0 = 0 * c + 0
      BY <2>2
    <3>2. 0 \div c = 0
      BY <2>2, <3>1, DivIs
    <3> QED
      BY <3>2
  <2> DEFINE e == d - 1
             o == 2 * d - 1
  <2>5. e \in Nat /\ o \in Nat /\ o = e * 2 + 1 /\ o + 1 = 2 * d
    BY <2>2
  <2> HIDE DEF e, o
  <2>6. (2 * d) * c - 1 = o * c + (c - 1) /\ c - 1 \in Nat /\ c - 1 < c
    <3>1. (o + 1) * c = o * c + c /\ o * c \in Nat
      BY <2>2, <2>5
    <3> DEFINE z == o * c
               u == (2 * d) * c
    <3>2. u = z + c /\ z \in Nat
      BY <2>5, <3>1
    <3> HIDE DEF z, u
    <3>3. u - 1 = z + (c - 1)
      BY <2>2, <3>2
    <3> QED
      BY <2>2, <3>3 DEF z, u
  <2>7. (o * c + (c - 1)) \div c = o
    BY <2>2, <2>5, <2>6, DivIs
  <2>8. o % 2 = 1
    BY <2>5, DivIs
  <2> QED
    BY <2>3, <2>4, <2>6, <2>7, <2>8 DEF c
<1>2. ASSUME NEW b \in Byte
      PROVE  (b \div Pow2[ByteBits - 1]) % 2 = IF b >= Pow2[ByteBits - 1] THEN 1 ELSE 0
  <2> DEFINE h == Pow2[ByteBits - 1]
  <2>1. h \in Nat /\ h > 0 /\ b \in Nat /\ b < 2 * h
    BY ByteIs
  <2> HIDE DEF h
  <2>2. CASE b >= h
    <3> DEFINE r == b - h
    <3>1. r \in Nat /\ r < h /\ b = 1 * h + r
      BY <2>1, <2>2
    <3> HIDE DEF r
    <3>2. b \div h = 1
      BY <2>1, <3>1, DivIs
    <3> QED
      BY <2>2, <3>2 DEF h
  <2>3. CASE ~ (b >= h)
    <3>1. b < h /\ b = 0 * h + b
      BY <2>1, <2>3
    <3>2. b \div h = 0
      BY <2>1, <3>1, DivIs
    <3> QED
      BY <2>3, <3>2 DEF h
  <2> QED
    BY <2>2, <2>3
<1> QED
  BY <1>1, <1>2

\* The bits of an extended number: those of its bytes, and above them its
\* sign or zeros.
LEMMA ExtendBits ==
  ASSUME NEW w \in Nat \ {0}, NEW t \in Nat, w <= t, NEW s, BytesOf(s, w), NEW sx
  PROVE  \A k \in 0 .. t * ByteBits - 1 :
           /\ (Extend(s, sx, t) \div Pow2[k]) % 2 =
                IF k < w * ByteBits THEN (s[(k \div ByteBits) + 1] \div Pow2[k % ByteBits]) % 2
                ELSE IF sx = "s" THEN (s[w] \div Pow2[ByteBits - 1]) % 2 ELSE 0
           /\ k < w * ByteBits => k \div ByteBits \in 0 .. w - 1
<1> SUFFICES ASSUME NEW k \in 0 .. t * ByteBits - 1
             PROVE
           /\ (Extend(s, sx, t) \div Pow2[k]) % 2 =
                IF k < w * ByteBits THEN (s[(k \div ByteBits) + 1] \div Pow2[k % ByteBits]) % 2
                ELSE IF sx = "s" THEN (s[w] \div Pow2[ByteBits - 1]) % 2 ELSE 0
           /\ k < w * ByteBits => k \div ByteBits \in 0 .. w - 1
  OBVIOUS
<1> DEFINE n == Extend(s, sx, t)
           i == k \div ByteBits
           j == k % ByteBits
           e == Longer(s, sx, t)
<1>1. ByteBits \in Nat /\ ByteBits > 0 /\ t * ByteBits \in Nat /\ w * ByteBits \in Nat
  BY ByteIs
<1>2. k \in Nat
  BY <1>1
<1>3. i \in Nat /\ j \in Nat /\ j < ByteBits /\ k = i * ByteBits + j
  BY <1>1, <1>2, DivMod
<1>4. n \in Nat
  BY ExtendBytes
<1> HIDE DEF i, j, n
<1>5. k < t * ByteBits => i < t
  <2>1. ASSUME t <= i PROVE t * ByteBits <= i * ByteBits
    BY <1>1, <1>3, <2>1
  <2> DEFINE x == i * ByteBits
             y == t * ByteBits
  <2>2. x \in Nat /\ y \in Nat /\ k = x + j
    BY <1>1, <1>3
  <2> HIDE DEF x, y
  <2>3. y <= x => ~ (k < y)
    BY <1>3, <2>2
  <2> QED
    BY <1>3, <2>1, <2>3 DEF x, y
<1>6. k < w * ByteBits <=> i < w
  <2>1. ASSUME w <= i PROVE w * ByteBits <= i * ByteBits
    BY <1>1, <1>3, <2>1
  <2>2. ASSUME i < w PROVE i * ByteBits + ByteBits <= w * ByteBits
    <3>1. (i + 1) * ByteBits <= w * ByteBits /\ (i + 1) * ByteBits = i * ByteBits + ByteBits
      BY <1>1, <1>3, <2>2
    <3> QED
      BY <3>1
  <2> DEFINE x == i * ByteBits
             y == w * ByteBits
  <2>3. x \in Nat /\ y \in Nat /\ k = x + j
    BY <1>1, <1>3
  <2> HIDE DEF x, y
  <2>4. (y <= x => ~ (k < y)) /\ (x + ByteBits <= y => k < y)
    BY <1>1, <1>3, <2>3
  <2> QED
    BY <1>3, <2>1, <2>2, <2>4 DEF x, y
<1>7. k < t * ByteBits
  <2> DEFINE y == t * ByteBits
  <2>1. y \in Nat /\ k \in 0 .. y - 1
    BY <1>1
  <2> HIDE DEF y
  <2>2. k < y
    BY <2>1
  <2> QED
    BY <2>2 DEF y
<1>8. i + 1 \in 1 .. t /\ (i + 1) - 1 = i /\ j \in 0 .. ByteBits - 1
  BY <1>1, <1>3, <1>5, <1>7
<1>9. (n \div Pow2[ByteBits * i]) % Pow2[ByteBits] = e[i + 1]
  <2>1. (n \div Pow2[ByteBits * ((i + 1) - 1)]) % Pow2[ByteBits] = e[i + 1]
    BY <1>8, ExtendBytes DEF n
  <2> QED
    BY <1>8, <2>1
<1>10. k = ByteBits * i + j
  BY <1>1, <1>3
<1>11. (n \div Pow2[k]) % 2 = (e[i + 1] \div Pow2[j]) % 2
  BY <1>3, <1>4, <1>8, <1>9, <1>10, BitsOfBytes
<1>12. e[i + 1] = IF i + 1 <= w THEN s[i + 1] ELSE IF Signed(s, sx) THEN Pow2[ByteBits] - 1 ELSE 0
  BY <1>8 DEF Longer, BytesOf
<1>13. i + 1 <= w <=> k < w * ByteBits
  BY <1>3, <1>6
<1>14. CASE k < w * ByteBits
  BY <1>3, <1>6, <1>11, <1>12, <1>13, <1>14 DEF i, j, n
<1>15. CASE ~ (k < w * ByteBits)
  <2>1. s[w] \in Byte /\ Len(s) = w
    BY DEF BytesOf
  <2>2. (s[w] \div Pow2[ByteBits - 1]) % 2 = IF s[w] >= Pow2[ByteBits - 1] THEN 1 ELSE 0
    BY <2>1, ByteBitsAre
  <2>3. (e[i + 1] \div Pow2[j]) % 2 = IF Signed(s, sx) THEN 1 ELSE 0
    BY <1>8, <1>12, <1>13, <1>15, ByteBitsAre
  <2> QED
    BY <1>11, <1>15, <2>1, <2>2, <2>3 DEF Signed, n
<1> QED
  BY <1>14, <1>15

-----------------------------------------------------------------------------
(* The operands of an access.                                              *)

Accesses    == {"load", "store", "vload", "vextend", "vsplat", "vzero", "vload_lane",
                "vstore_lane", "vstore"}
LaneOpNames == {"vload_lane", "vstore_lane"}

\* The immediates of an access,
LoadImm(i) ==
  i.op = "load" => i.w \in Nat \ {0} /\ i.t \in Nat \ {0} /\ i.w <= i.t
LaneImm(i) ==
  /\ i.op = "vextend" => i.w \in LaneBytes /\ 2 * i.w \in LaneBytes
  /\ i.op \in {"vsplat", "vzero"} \cup LaneOpNames => i.w \in LaneBytes
  /\ i.op \in LaneOpNames => i.lane \in 0 .. VecBytes \div i.w - 1

\* and its operands.
AccessArgs(ins) ==
  /\ ins.o.i.op \in Accesses => ins.args[1] \in U32 /\ ins.o.offset \in U32
  /\ ins.o.i.op \in {"store", "fill"} => ins.args[2] \in Words
  /\ ins.o.i.op \in LaneOpNames \cup {"vstore"} => ins.args[2] = Vec
  /\ LoadImm(ins.o.i) /\ LaneImm(ins.o.i)

LEMMA OffsetOf ==
  ASSUME NEW S, NEW U, NEW o \in [i : S, offset : U]
  PROVE  o.offset \in U
  OBVIOUS

LEMMA LoadOpsAre ==
  ASSUME NEW i \in LoadOps
  PROVE  i.op = "load" /\ LoadImm(i)
<1>1. i \in [op : {"load"}, w : IntBytes \cup LaneBytes, sx : {"s", "u"}, t : IntBytes] /\ i.w <= i.t
  BY DEF LoadOps
<1>2. i.op = "load" /\ i.w \in IntBytes \cup LaneBytes /\ i.t \in IntBytes
  BY <1>1
<1>3. IntBytes \cup LaneBytes \subseteq Nat \ {0}
  BY MemoryAssumption
<1> QED
  BY <1>1, <1>2, <1>3 DEF LoadImm

LEMMA VectorLoadsAre ==
  ASSUME NEW i \in VectorLoads
  PROVE  i.op \in {"vload", "vextend", "vsplat", "vzero"} /\ LaneImm(i)
<1>1. CASE i \in {[op |-> "vload"]}
  BY <1>1 DEF LaneImm, LaneOpNames
<1>2. CASE i \in {[op |-> "vextend", w |-> w, sx |-> sx] :
                    w \in {l \in LaneBytes : 2 * l \in LaneBytes}, sx \in {"s", "u"}}
  <2>1. i.op = "vextend" /\ i.w \in {l \in LaneBytes : 2 * l \in LaneBytes}
    BY <1>2
  <2> QED
    BY <2>1 DEF LaneImm, LaneOpNames
<1>3. CASE i \in {[op |-> o, w |-> w] : o \in {"vsplat", "vzero"}, w \in LaneBytes}
  <2>1. i.op \in {"vsplat", "vzero"} /\ i.w \in LaneBytes
    BY <1>3
  <2> QED
    BY <2>1 DEF LaneImm, LaneOpNames
<1> QED
  BY <1>1, <1>2, <1>3 DEF VectorLoads

LEMMA LaneOpsAre ==
  ASSUME NEW o \in LaneOpNames, NEW i \in LaneOps(o)
  PROVE  i.op = o /\ LaneImm(i)
<1>1. PICK w \in LaneBytes :
        i \in {[op |-> o, w |-> w, lane |-> l] : l \in 0 .. VecBytes \div w - 1}
  BY DEF LaneOps
<1>2. i.op = o /\ i.w = w /\ i.lane \in 0 .. VecBytes \div w - 1
  BY <1>1
<1> QED
  BY <1>2 DEF LaneImm, LaneOpNames

\* Addresses, offsets, widths and lanes are in their ranges.
LEMMA AccessOperands ==
  ASSUME NEW ins \in Instructions
  PROVE  AccessArgs(ins)
<1>1. CASE ins \in With([i : LoadOps, offset : U32], {<<b>> : b \in U32})
  <2>1. ins.o \in [i : LoadOps, offset : U32] /\ ins.args \in {<<b>> : b \in U32}
    BY <1>1, WithParts
  <2>2. ins.o.i \in LoadOps /\ ins.o.offset \in U32
    BY <2>1, AtOffset, OffsetOf
  <2>3. ins.o.i.op = "load" /\ LoadImm(ins.o.i)
    BY <2>2, LoadOpsAre
  <2>4. ins.args[1] \in U32
    BY <2>1
  <2> QED
    BY <2>2, <2>3, <2>4 DEF AccessArgs, LaneImm, LaneOpNames
<1>2. CASE ins \in With([i : StoreOps, offset : U32], {<<b, v>> : b \in U32, v \in Words})
  <2> DEFINE A == {<<b, v>> : b \in U32, v \in Words}
  <2>1. \A a \in A : a[1] \in U32 /\ a[2] \in Words
    OBVIOUS
  <2>2. ins \in With([i : StoreOps, offset : U32], A)
    BY <1>2
  <2> HIDE DEF A
  <2>3. ins.o \in [i : StoreOps, offset : U32] /\ ins.args \in A
    BY <2>2, WithParts
  <2>4. ins.o.i \in StoreOps /\ ins.o.offset \in U32
    BY <2>3, AtOffset, OffsetOf
  <2>5. ins.o.i.op = "store"
    BY <2>4 DEF StoreOps
  <2> QED
    BY <2>1, <2>3, <2>4, <2>5 DEF AccessArgs, LoadImm, LaneImm, LaneOpNames
<1>3. CASE ins \in With([i : VectorLoads, offset : U32], {<<b>> : b \in U32})
  <2>1. ins.o \in [i : VectorLoads, offset : U32] /\ ins.args \in {<<b>> : b \in U32}
    BY <1>3, WithParts
  <2>2. ins.o.i \in VectorLoads /\ ins.o.offset \in U32
    BY <2>1, AtOffset, OffsetOf
  <2>3. ins.o.i.op \in {"vload", "vextend", "vsplat", "vzero"} /\ LaneImm(ins.o.i)
    BY <2>2, VectorLoadsAre
  <2>4. ins.args[1] \in U32
    BY <2>1
  <2> QED
    BY <2>2, <2>3, <2>4 DEF AccessArgs, LoadImm, LaneOpNames
<1>4. CASE ins \in With([i : {[op |-> "vstore"]} \cup LaneOps("vload_lane") \cup LaneOps("vstore_lane"),
                        offset : U32], {<<b, Vec>> : b \in U32})
  <2> DEFINE S == {[op |-> "vstore"]} \cup LaneOps("vload_lane") \cup LaneOps("vstore_lane")
             A == {<<b, Vec>> : b \in U32}
  <2>1. ins \in With([i : S, offset : U32], A)
    BY <1>4
  <2>2. \A a \in A : a[1] \in U32 /\ a[2] = Vec
    OBVIOUS
  <2>3. \A i \in S : i.op \in LaneOpNames \cup {"vstore"} /\ LaneImm(i)
    <3>1. LaneImm([op |-> "vstore"])
      BY DEF LaneImm, LaneOpNames
    <3>2. "vload_lane" \in LaneOpNames /\ "vstore_lane" \in LaneOpNames
      BY DEF LaneOpNames
    <3> QED
      BY <3>1, <3>2, LaneOpsAre
  <2> HIDE DEF S, A
  <2>4. ins.o \in [i : S, offset : U32] /\ ins.args \in A
    BY <2>1, WithParts
  <2>5. ins.o.i \in S /\ ins.o.offset \in U32
    BY <2>4, AtOffset, OffsetOf
  <2> QED
    BY <2>2, <2>3, <2>4, <2>5 DEF AccessArgs, LoadImm, LaneOpNames
<1>5. CASE \/ ins \in With({[i |-> [op |-> "size"]]}, {<<>>})
           \/ ins \in With({[i |-> [op |-> "grow"]]}, {<<n>> : n \in U32})
           \/ ins \in With({[i |-> [op |-> "copy"]]}, U32 \X U32 \X U32)
  <2>1. ins.o \in {[i |-> [op |-> o]] : o \in {"size", "grow", "copy"}}
    BY <1>5, WithParts
  <2> QED
    BY <2>1 DEF AccessArgs, LoadImm, LaneImm, LaneOpNames, Accesses
<1>6. CASE ins \in With({[i |-> [op |-> "fill"]]}, U32 \X Words \X U32)
  <2>1. ins.o = [i |-> [op |-> "fill"]] /\ ins.args \in U32 \X Words \X U32
    BY <1>6, WithParts
  <2> QED
    BY <2>1 DEF AccessArgs, LoadImm, LaneImm, LaneOpNames, Accesses
<1>7. CASE \/ ins \in With([i : {[op |-> "init"]}, seg : 1 .. Len(Segments)], U32 \X U32 \X U32)
           \/ ins \in With([i : {[op |-> "drop"]}, seg : 1 .. Len(Segments)], {<<>>})
           \/ ins \in With([i : {[op |-> "active"]}, seg : 1 .. Len(Segments)], {<<a>> : a \in U32})
  <2>1. \E o \in {"init", "drop", "active"} :
          ins.o \in [i : {[op |-> o]}, seg : 1 .. Len(Segments)]
    BY <1>7, WithParts
  <2>2. \E o \in {"init", "drop", "active"} : ins.o.i \in {[op |-> o]}
    BY <2>1, OfSegment
  <2> QED
    BY <2>2 DEF AccessArgs, LoadImm, LaneImm, LaneOpNames, Accesses
<1> QED
  BY <1>1, <1>2, <1>3, <1>4, <1>5, <1>6, <1>7 DEF Instructions

\* The lanes fill a vector.
LEMMA LanesFill ==
  ASSUME NEW w \in LaneBytes
  PROVE  /\ w \in Nat \ {0} /\ VecBytes \in Nat \ {0} /\ VecBytes \div w \in Nat
         /\ (VecBytes \div w) * w = VecBytes /\ w <= VecBytes
<1> DEFINE n == VecBytes \div w
<1>1. w \in Nat \ {0} /\ VecBytes \in Nat \ {0} /\ VecBytes % w = 0
  BY MemoryAssumption
<1>2. n \in Nat /\ VecBytes = n * w + 0
  BY <1>1, DivMod
<1> HIDE DEF n
<1>3. n # 0
  BY <1>1, <1>2
<1>4. w <= n * w /\ n * w = VecBytes
  <2>1. 1 * w <= n * w
    BY <1>1, <1>2, <1>3
  <2> QED
    BY <1>1, <1>2, <2>1
<1> QED
  BY <1>1, <1>2, <1>4 DEF n

\* A lane is inside its vector, and a byte is in one lane.
LEMMA LaneInside ==
  ASSUME NEW w \in LaneBytes, NEW l \in 0 .. VecBytes \div w - 1
  PROVE  w * l \in Nat /\ w * l + w <= VecBytes
<1> DEFINE n == VecBytes \div w
<1>1. w \in Nat /\ n \in Nat /\ n * w = VecBytes /\ VecBytes \in Nat
  BY LanesFill
<1>2. l \in Nat /\ l + 1 <= n
  <2> HIDE DEF n
  <2>1. l \in 0 .. n - 1
    BY DEF n
  <2> QED
    BY <1>1, <2>1
<1> HIDE DEF n
<1>3. (l + 1) * w <= n * w /\ (l + 1) * w = w * l + w /\ w * l \in Nat
  BY <1>1, <1>2
<1> QED
  BY <1>1, <1>3

-----------------------------------------------------------------------------
(* Types.                                                                  *)

\* TypeOK, with PagesInv and SegsInv for the rest: memory holds bytes, a
\* segment is the module's or empty, and an instruction has no result before
\* it is executed.
ValuesInv ==
  /\ BytesOf(data, Len(data))
  /\ \A k \in DOMAIN segs : segs[k] \in {<<>>, Segments[k]}
  /\ todo # None => result = None

\* Bytes cut out of bytes,
LEMMA SliceBytes ==
  ASSUME NEW s, Listed(s), BytesOf(s, Len(s)), NEW a \in Nat, NEW n \in Nat, a + n <= Len(s)
  PROVE  BytesOf(Slice(s, a, n), n)
<1> DEFINE u == Slice(s, a, n)
<1>1. Len(u) = n /\ \A k \in 1 .. n : u[k] = s[a + k]
  BY SliceIs
<1>2. Len(s) \in Nat
  BY ListedIs
<1>3. \A k \in 1 .. n : a + k \in 1 .. Len(s)
  BY <1>2
<1>4. \A i \in 1 .. Len(s) : s[i] \in Byte
  BY DEF BytesOf
<1> HIDE DEF u
<1> QED
  BY <1>1, <1>3, <1>4 DEF BytesOf, u

\* written among bytes,
LEMMA WrittenBytes ==
  ASSUME NEW s, Listed(s), BytesOf(s, Len(s)), NEW a \in Nat, NEW n \in Nat, NEW b, BytesOf(b, n)
  PROVE  BytesOf(Written(s, a, b), Len(Written(s, a, b)))
<1> DEFINE t == Written(s, a, b)
<1>1. Len(t) = Len(s) /\ Len(s) \in Nat
  BY WrittenLength, ListedIs
<1>2. \A i \in 1 .. Len(s) : t[i] = IF i \in a + 1 .. a + n THEN b[i - a] ELSE s[i]
  BY DEF Written, BytesOf
<1>3. \A i \in a + 1 .. a + n : i - a \in 1 .. n
  OBVIOUS
<1>4. /\ \A i \in 1 .. Len(s) : s[i] \in Byte
      /\ \A i \in 1 .. n : b[i] \in Byte
  BY DEF BytesOf
<1> HIDE DEF t
<1>5. ASSUME NEW i \in 1 .. Len(s) PROVE t[i] \in Byte
  BY <1>2, <1>3, <1>4
<1> QED
  BY <1>1, <1>5 DEF BytesOf, t

\* and with zeros behind them.
LEMMA ExtendedAreBytes ==
  ASSUME NEW s, Listed(s), BytesOf(s, Len(s)), NEW n \in Nat
  PROVE  BytesOf(s \o Zeros(n), Len(s \o Zeros(n)))
<1> DEFINE t == s \o Zeros(n)
<1>1. \A i \in 1 .. Len(t) : t[i] = IF i <= Len(s) THEN s[i] ELSE 0
  BY ExtendedBytes
<1>2. Len(t) = Len(s) + n /\ Len(s) \in Nat
  BY ExtendedLength, ListedIs
<1>3. 0 \in Byte
  BY ByteIs
<1>4. \A i \in 1 .. Len(s) : s[i] \in Byte
  BY DEF BytesOf
<1> HIDE DEF t
<1>5. ASSUME NEW i \in 1 .. Len(t) PROVE t[i] \in Byte
  <2>1. i <= Len(s) => i \in 1 .. Len(s)
    BY <1>2
  <2> QED
    BY <1>1, <1>3, <1>4, <2>1
<1> QED
  BY <1>5 DEF BytesOf, t

\* to_le_bytes makes bytes.
LEMMA ToLEBytes ==
  ASSUME NEW v \in Nat, NEW w \in Nat
  PROVE  /\ BytesOf(ToLE(v, w), w)
         /\ \A i \in 1 .. w : ToLE(v, w)[i] = (v \div Pow2[ByteBits * (i - 1)]) % Pow2[ByteBits]
<1> DEFINE e == ToLE(v, w)
<1>1. DOMAIN e = 1 .. w /\ e = [i \in 1 .. w |-> e[i]]
  BY DEF ToLE
<1>2. \A i \in 1 .. w : e[i] = (v \div Pow2[ByteBits * (i - 1)]) % Pow2[ByteBits]
  BY DEF ToLE
<1> HIDE DEF e
<1>3. Len(e) = w
  BY <1>1, GivenLength
<1>4. ASSUME NEW i \in 1 .. w PROVE e[i] \in Byte
  <2> DEFINE p == Pow2[ByteBits * (i - 1)]
             B == Pow2[ByteBits]
  <2>1. i - 1 \in Nat /\ ByteBits \in Nat
    BY ByteIs
  <2>2. ByteBits * (i - 1) \in Nat
    <3> DEFINE j == i - 1
    <3> HIDE DEF j
    <3>1. ByteBits * j \in Nat
      BY <2>1 DEF j
    <3> QED
      BY <3>1 DEF j
  <2>3. p \in Nat /\ p > 0 /\ B \in Nat /\ B > 0 /\ Byte = {b \in Nat : b < B}
    BY <2>2, Pow2Positive, ByteIs
  <2>4. e[i] = (v \div p) % B
    BY <1>2
  <2> HIDE DEF p, B
  <2>5. v \div p \in Nat
    BY <2>3, DivMod
  <2>6. (v \div p) % B \in Nat /\ (v \div p) % B < B
    BY <2>3, <2>5, DivMod
  <2> QED
    BY <2>3, <2>4, <2>6
<1> QED
  BY <1>2, <1>3, <1>4 DEF BytesOf, e

\* The vector on the stack is bytes.
LEMMA VecIs == Listed(Vec) /\ Len(Vec) = VecBytes /\ BytesOf(Vec, VecBytes)
<1>1. VecBytes \in Nat
  BY MemoryAssumption
<1>2. DOMAIN Vec = 1 .. VecBytes /\ Vec = [i \in 1 .. VecBytes |-> Vec[i]]
  BY DEF Vec
<1>3. Len(Vec) = VecBytes /\ Listed(Vec)
  <2> DEFINE v == Vec
  <2>1. DOMAIN v = 1 .. VecBytes /\ v = [i \in 1 .. VecBytes |-> v[i]]
    BY <1>2
  <2> HIDE DEF v
  <2>2. Len(v) = VecBytes /\ Listed(v)
    BY <1>1, <2>1, GivenLength
  <2> QED
    BY <2>2 DEF v
<1>4. ASSUME NEW i \in 1 .. VecBytes PROVE Vec[i] \in Byte
  <2>1. Vec[i] = i % Pow2[ByteBits] /\ i \in Nat
    BY DEF Vec
  <2>2. Pow2[ByteBits] \in Nat /\ Pow2[ByteBits] > 0 /\ Byte = {b \in Nat : b < Pow2[ByteBits]}
    BY ByteIs
  <2>3. i % Pow2[ByteBits] \in Nat /\ i % Pow2[ByteBits] < Pow2[ByteBits]
    BY <2>1, <2>2, DivMod
  <2> QED
    BY <2>1, <2>2, <2>3
<1> QED
  BY <1>3, <1>4 DEF BytesOf

\* What is left of a segment is bytes.
LEMMA SegmentBytes ==
  ASSUME SegsInv, ValuesInv, NEW k \in DOMAIN segs
  PROVE  Listed(segs[k]) /\ BytesOf(segs[k], Len(segs[k]))
<1> DEFINE B == 0 .. Pow2[ByteBits] - 1
<1>1. Segments \in Seq(Seq(B)) /\ k \in 1 .. Len(Segments)
  BY MemoryAssumption DEF SegsInv
<1>2. B = Byte
  BY DEF Byte
<1> HIDE DEF B
<1>3. Segments[k] \in Seq(Byte) /\ <<>> \in Seq(Byte)
  BY <1>1, <1>2
<1> DEFINE s == segs[k]
<1>4. s \in Seq(Byte)
  BY <1>3 DEF ValuesInv
<1>5. Listed(s)
  BY DEF SegsInv
<1> HIDE DEF s
<1>6. \A i \in 1 .. Len(s) : s[i] \in Byte
  BY <1>4
<1> QED
  BY <1>5, <1>6 DEF BytesOf, s

\* ValuesInv holds at first.
LEMMA ValuesInit == Init => ValuesInv
<1> SUFFICES ASSUME Init PROVE ValuesInv
  OBVIOUS
<1>1. MinPages * PageSize \in Nat
  <2>1. MinPages \in Nat /\ PageSize \in Nat
    BY MemoryAssumption
  <2> QED
    BY <2>1
<1> DEFINE n == MinPages * PageSize
<1>2. DOMAIN data = 1 .. n /\ data = [i \in 1 .. n |-> data[i]] /\ \A i \in 1 .. n : data[i] = 0
  BY DEF Init
<1> HIDE DEF n
<1>3. Len(data) = n
  BY <1>1, <1>2, GivenLength DEF n
<1>4. 0 \in Byte
  BY ByteIs
<1>5. BytesOf(data, Len(data))
  BY <1>2, <1>3, <1>4 DEF BytesOf
<1> QED
  BY <1>5 DEF Init, ValuesInv

\* A store leaves bytes.
LEMMA StoringBytes ==
  ASSUME PagesInv, ValuesInv, NEW n \in Nat, NEW bytes, BytesOf(bytes, n), EA \in Nat, Storing(bytes)
  PROVE  BytesOf(data', Len(data'))
<1>1. data' = data \/ data' = Written(data, EA, bytes)
  BY DEF Storing, Traps
<1>2. Listed(data) /\ BytesOf(data, Len(data))
  BY DEF PagesInv, ValuesInv
<1>3. BytesOf(Written(data, EA, bytes), Len(Written(data, EA, bytes)))
  BY <1>2, WrittenBytes
<1> QED
  BY <1>1, <1>2, <1>3

\* The effective address is a number.
LEMMA AddressIs ==
  ASSUME PagesInv, todo # None, Op.op \in Accesses
  PROVE  EA \in Nat /\ EA = Base + todo.o.offset /\ AccessArgs(todo)
<1>1. todo \in Instructions
  BY DEF PagesInv
<1>2. AccessArgs(todo)
  BY <1>1, AccessOperands
<1>3. todo.args[1] \in U32 /\ todo.o.offset \in U32
  BY <1>2 DEF AccessArgs, Op
<1> QED
  BY <1>2, <1>3 DEF EA, Arg, Base, U32

\* What each instruction writes is bytes.
LEMMA ExecuteBytes ==
  ASSUME PagesInv, SegsInv, ValuesInv, Execute
  PROVE  BytesOf(data', Len(data'))
<1>0. Listed(data) /\ BytesOf(data, Len(data)) /\ (todo # None => todo \in Instructions)
      /\ Len(data) \in Nat
  BY ListedIs DEF PagesInv, ValuesInv
<1>1. CASE data' = data
  BY <1>0, <1>1
<1>2. CASE Store
  <2>1. todo # None /\ Op.op = "store"
    BY <1>2 DEF Store, Is, Op
  <2>2. EA \in Nat /\ AccessArgs(todo)
    BY <2>1, AddressIs DEF Accesses
  <2>3. Arg(2) \in Nat
    BY <2>1, <2>2, MemoryAssumption DEF AccessArgs, Op, Arg
  <2>4. Op.w \in Nat
    BY <1>0, <2>1, StoresNaturals DEF Op
  <2> QED
    BY <1>2, <2>2, <2>3, <2>4, ToLEBytes, StoringBytes DEF Store
<1>3. CASE LaneAccess
  <2>2. CASE Is("vstore_lane") /\ Storing(Lane(Arg(2), Op.w, Op.lane))
    <3>1. todo # None /\ Op.op = "vstore_lane"
      BY <2>2 DEF Is, Op
    <3>2. EA \in Nat /\ AccessArgs(todo)
      BY <3>1, AddressIs DEF Accesses
    <3>3. Arg(2) = Vec /\ Op.w \in LaneBytes /\ Op.lane \in 0 .. VecBytes \div Op.w - 1
      BY <3>1, <3>2 DEF AccessArgs, LaneImm, Op, Arg, LaneOpNames
    <3>4. Op.w \in Nat /\ Op.w * Op.lane \in Nat /\ Op.w * Op.lane + Op.w <= VecBytes
      BY <3>3, LanesFill, LaneInside
    <3>5. BytesOf(Lane(Vec, Op.w, Op.lane), Op.w)
      BY <3>4, VecIs, SliceBytes DEF Lane
    <3> QED
      BY <2>2, <3>2, <3>3, <3>4, <3>5, StoringBytes
  <2>3. CASE Is("vstore") /\ Storing(Arg(2))
    <3>1. todo # None /\ Op.op = "vstore"
      BY <2>3 DEF Is, Op
    <3>2. EA \in Nat /\ AccessArgs(todo)
      BY <3>1, AddressIs DEF Accesses
    <3>3. Arg(2) = Vec /\ VecBytes \in Nat
      BY <3>1, <3>2, MemoryAssumption DEF AccessArgs, Op, Arg
    <3> QED
      BY <2>3, <3>2, <3>3, VecIs, StoringBytes
  <2>4. Is("vload_lane") => data' = data
    BY <1>3 DEF LaneAccess, Loading, Traps, Is
  <2> QED
    BY <1>1, <1>3, <2>2, <2>3, <2>4 DEF LaneAccess
<1>4. CASE Grow
  <2>1. PICK n \in Nat : data' = data \/ data' = data \o Zeros(n)
    <3>1. PICK p \in Nat, n \in Nat : data' = data \/ data' = data \o Zeros(n * PageSize)
      BY <1>4, GrowAdds
    <3>2. n * PageSize \in Nat
      BY MemoryAssumption, PagesAdd
    <3> QED
      BY <3>1, <3>2
  <2> QED
    BY <1>0, <2>1, ExtendedAreBytes
<1>5. CASE MemoryInit
  <2> DEFINE d == Arg(1)
             s == Arg(2)
             n == Arg(3)
             g == segs[todo.o.seg]
  <2>1. todo \in Instructions /\ todo.o.i.op = "init"
    BY <1>0, <1>5 DEF MemoryInit, Is
  <2>2. d \in Nat /\ s \in Nat /\ n \in Nat /\ todo.o.seg \in DOMAIN segs
    BY <2>1, BulkOperands DEF BulkArgs, U32, Arg, SegsInv
  <2>3. Listed(g) /\ BytesOf(g, Len(g))
    BY <2>2, SegmentBytes
  <2>4. data' = data \/ (Fits(s, n, Len(g)) /\ data' = Written(data, d, Slice(g, s, n)))
    BY <1>5 DEF MemoryInit, Traps
  <2> HIDE DEF d, s, n, g
  <2>5. Fits(s, n, Len(g)) => BytesOf(Slice(g, s, n), n)
    BY <2>2, <2>3, SliceBytes DEF Fits
  <2> QED
    BY <1>0, <2>2, <2>4, <2>5, WrittenBytes
<1>6. CASE ActiveSegment
  <2> DEFINE d == Arg(1)
             g == segs[todo.o.seg]
  <2>1. todo \in Instructions /\ todo.o.i.op = "active"
    BY <1>0, <1>6 DEF ActiveSegment, Is
  <2>2. d \in Nat /\ todo.o.seg \in DOMAIN segs
    BY <2>1, BulkOperands DEF BulkArgs, U32, Arg, SegsInv
  <2>3. Listed(g) /\ BytesOf(g, Len(g))
    BY <2>2, SegmentBytes
  <2>4. data' = data \/ data' = Written(data, d, g)
    BY <1>6 DEF ActiveSegment, Traps
  <2> HIDE DEF d, g
  <2>5. Len(g) \in Nat
    BY <2>3, ListedIs
  <2> QED
    BY <1>0, <2>2, <2>3, <2>4, <2>5, WrittenBytes
<1>7. CASE MemoryCopy
  <2> DEFINE d == Arg(1)
             s == Arg(2)
             n == Arg(3)
  <2>1. todo \in Instructions /\ todo.o.i.op = "copy"
    BY <1>0, <1>7 DEF MemoryCopy, Is
  <2>2. d \in Nat /\ s \in Nat /\ n \in Nat
    BY <2>1, BulkOperands DEF BulkArgs, U32, Arg
  <2>4. data' = data \/ (Fits(s, n, Len(data)) /\ data' = Written(data, d, Slice(data, s, n)))
    BY <1>7 DEF MemoryCopy, Traps
  <2> HIDE DEF d, s, n
  <2>5. Fits(s, n, Len(data)) => BytesOf(Slice(data, s, n), n)
    BY <1>0, <2>2, SliceBytes DEF Fits
  <2> QED
    BY <1>0, <2>2, <2>4, <2>5, WrittenBytes
<1>8. CASE MemoryFill
  <2> DEFINE d == Arg(1)
             v == Arg(2)
             n == Arg(3)
             b == [i \in 1 .. n |-> v % Pow2[ByteBits]]
  <2>1. todo \in Instructions /\ todo.o.i.op = "fill"
    BY <1>0, <1>8 DEF MemoryFill, Is
  <2>2. d \in Nat /\ n \in Nat
    BY <2>1, BulkOperands DEF BulkArgs, U32, Arg
  <2>3. v \in Nat
    BY <2>1, AccessOperands, MemoryAssumption DEF AccessArgs, Arg
  <2>4. data' = data \/ data' = Written(data, d, b)
    BY <1>8 DEF MemoryFill, Traps
  <2>5. DOMAIN b = 1 .. n /\ b = [i \in 1 .. n |-> b[i]] /\ \A i \in 1 .. n : b[i] = v % Pow2[ByteBits]
    OBVIOUS
  <2> HIDE DEF d, v, n, b
  <2>6. Len(b) = n
    BY <2>2, <2>5, GivenLength
  <2>7. v % Pow2[ByteBits] \in Byte
    <3>1. Pow2[ByteBits] \in Nat /\ Pow2[ByteBits] > 0 /\ Byte = {x \in Nat : x < Pow2[ByteBits]}
      BY ByteIs
    <3>2. v % Pow2[ByteBits] \in Nat /\ v % Pow2[ByteBits] < Pow2[ByteBits]
      BY <2>3, <3>1, DivMod
    <3> QED
      BY <3>1, <3>2
  <2>8. BytesOf(b, n)
    BY <2>5, <2>6, <2>7 DEF BytesOf
  <2> QED
    BY <1>0, <2>2, <2>4, <2>8, WrittenBytes
<1>9. Load \/ VectorLoad \/ Size \/ DataDrop => data' = data
  BY Zenon DEF Load, VectorLoad, Loading, Size, DataDrop, Traps
<1> QED
  BY <1>1, <1>2, <1>3, <1>4, <1>5, <1>6, <1>7, <1>8, <1>9 DEF Execute

\* ValuesInv is kept by every step.
LEMMA ValuesStep == PagesInv /\ SegsInv /\ ValuesInv /\ [Next]_vars => ValuesInv'
<1> SUFFICES ASSUME PagesInv, SegsInv, ValuesInv, Next PROVE ValuesInv'
  BY DEF ValuesInv, vars
<1>1. ASSUME NEW ins \in Instructions, Fetch(ins) PROVE ValuesInv'
  BY <1>1 DEF Fetch, ValuesInv
<1>2. CASE Deliver
  BY <1>2 DEF Deliver, ValuesInv
<1>3. CASE Execute
  <2>1. BytesOf(data, Len(data))'
    BY <1>3, ExecuteBytes
  <2>2. \A k \in DOMAIN segs' : segs'[k] \in {<<>>, Segments[k]}
    <3>1. CASE UNCHANGED segs
      BY <3>1 DEF ValuesInv
    <3>2. CASE segs' = Put(segs, todo.o.seg, <<>>)
      BY <3>2 DEF ValuesInv, SegsInv, Put
    <3> QED
      BY <3>1, <3>2, Empties
  <2>3. todo' = None
    BY <1>3, OthersKeep, GrowAdds DEF Kept
  <2> QED
    BY <2>1, <2>2, <2>3 DEF ValuesInv
<1> QED
  BY <1>1, <1>2, <1>3 DEF Next

\* The types, from the invariants.
LEMMA TypesHold == PagesInv /\ SegsInv /\ ValuesInv => TypeOK
<1> SUFFICES ASSUME PagesInv, SegsInv, ValuesInv PROVE TypeOK
  OBVIOUS
<1>1. PICK p \in MinPages .. max : p <= MaxPages /\ Len(data) = p * PageSize
  BY DEF PagesInv, WholePages
<1>2. /\ p \in Nat /\ MaxPages \in Nat /\ PageSize \in Nat /\ Pow2[AddrBits] \in Nat
      /\ MaxPages * PageSize <= Pow2[AddrBits]
  BY <1>1, MemoryAssumption, Pow2Positive
<1>3. p * PageSize <= MaxPages * PageSize /\ p * PageSize \in Nat /\ MaxPages * PageSize \in Nat
  BY <1>1, <1>2
<1>4. Len(data) \in 0 .. Pow2[AddrBits]
  <2> DEFINE x == p * PageSize
             y == MaxPages * PageSize
             z == Pow2[AddrBits]
  <2>1. x \in Nat /\ y \in Nat /\ z \in Nat /\ x <= y /\ y <= z /\ Len(data) = x
    BY <1>1, <1>2, <1>3
  <2> HIDE DEF x, y, z
  <2>2. x \in 0 .. z
    BY <2>1
  <2> QED
    BY <2>1, <2>2 DEF z
<1>5. data \in [1 .. Len(data) -> Byte]
  <2>1. data = [i \in 1 .. Len(data) |-> data[i]] /\ \A i \in 1 .. Len(data) : data[i] \in Byte
    BY ListedIs DEF PagesInv, ValuesInv, BytesOf
  <2> QED
    BY <2>1
<1>6. data \in Bytes
  BY <1>4, <1>5 DEF Bytes
<1> QED
  BY <1>6 DEF TypeOK, PagesInv, ValuesInv

-----------------------------------------------------------------------------
(* Loading.                                                                *)

\* A slice, byte by byte.
LEMMA SliceAs ==
  ASSUME NEW s, Listed(s), BytesOf(s, Len(s)), NEW a \in Nat, NEW n \in Nat, a + n <= Len(s)
  PROVE  /\ Slice(s, a, n) \in Seq(Int) /\ Listed(Slice(s, a, n)) /\ BytesOf(Slice(s, a, n), n)
         /\ \A k \in 1 .. n : Slice(s, a, n)[k] = s[a + k]
<1> DEFINE u == SubSeq(s, a + 1, a + n)
<1>1. Len(s) \in Nat
  BY ListedIs
<1>2. s \in Seq(Int)
  <2>1. \A i \in 1 .. Len(s) : s[i] \in Int
    BY ByteIs DEF BytesOf
  <2>2. s = [i \in 1 .. Len(s) |-> s[i]]
    BY ListedIs
  <2>3. s \in [1 .. Len(s) -> Int]
    BY <2>1, <2>2
  <2> QED
    BY <1>1, <2>3
<1>4. u \in Seq(Int)
  <2>1. a + 1 \in 1 .. Len(s) + 1 /\ a + n \in a + 1 - 1 .. Len(s)
    BY <1>1
  <2> QED
    BY <1>2, <2>1, SubSeqProperties
<1>5. BytesOf(u, n) /\ \A k \in 1 .. n : u[k] = s[a + k]
  BY SliceBytes, SliceIs DEF Slice
<1> HIDE DEF u
<1>6. Len(u) \in Nat /\ DOMAIN u = 1 .. Len(u) /\ u = [i \in 1 .. Len(u) |-> u[i]]
  BY <1>4
<1>7. Listed(u)
  BY <1>6, GivenLength
<1> QED
  BY <1>4, <1>5, <1>7 DEF u, Slice

\* A sequence given byte by byte is one of numbers.
LEMMA GivenInts ==
  ASSUME NEW n \in Nat, NEW v, DOMAIN v = 1 .. n, v = [i \in 1 .. n |-> v[i]],
         \A i \in 1 .. n : v[i] \in Byte
  PROVE  v \in Seq(Int)
<1>1. \A i \in 1 .. n : v[i] \in Int
  BY ByteIs
<1>2. v \in [1 .. n -> Int]
  BY <1>1
<1> QED
  BY <1>2

\* The bytes that are loaded: they exist exactly when the access fits, and
\* they are those at the address.
LEMMA LoadedBytes ==
  ASSUME PagesInv, ValuesInv, NEW w \in Nat \ {0}, NEW first \in Nat, Base + todo.o.offset = first
  PROVE  /\ Fits(first, w, Len(data)) <=> Accessed(w) \subseteq Addresses
         /\ Fits(first, w, Len(data)) =>
              /\ Slice(data, first, w) \in Seq(Int) /\ Listed(Slice(data, first, w))
              /\ BytesOf(Slice(data, first, w), w)
              /\ \A k \in 0 .. w - 1 : Slice(data, first, w)[k + 1] = At(first + k)
<1>1. Listed(data) /\ BytesOf(data, Len(data)) /\ Len(data) \in Nat
  BY ListedIs DEF PagesInv, ValuesInv
<1>2. Fits(first, w, Len(data)) <=> Accessed(w) \subseteq Addresses
  BY <1>1, FitsIsAccessed DEF Accessed, Addresses
<1>3. ASSUME Fits(first, w, Len(data))
      PROVE  /\ Slice(data, first, w) \in Seq(Int) /\ Listed(Slice(data, first, w))
             /\ BytesOf(Slice(data, first, w), w)
             /\ \A k \in 0 .. w - 1 : Slice(data, first, w)[k + 1] = At(first + k)
  <2>1. first + w <= Len(data)
    BY <1>3 DEF Fits
  <2> DEFINE u == Slice(data, first, w)
  <2>2. u \in Seq(Int) /\ Listed(u) /\ BytesOf(u, w) /\ \A k \in 1 .. w : u[k] = data[first + k]
    BY <1>1, <2>1, SliceAs
  <2> HIDE DEF u
  <2>3. ASSUME NEW k \in 0 .. w - 1 PROVE u[k + 1] = At(first + k)
    <3>1. k + 1 \in 1 .. w /\ first + (k + 1) = first + k + 1
      OBVIOUS
    <3> QED
      BY <2>2, <3>1 DEF At
  <2> QED
    BY <2>2, <2>3 DEF u
<1> QED
  BY <1>2, <1>3

\* The action that executes a load.
LEMMA LoadLoads ==
  ASSUME Execute, Doing({"load"})
  PROVE  Load
<1>1. todo.o.i.op = "load"
  BY DEF Doing
<1> QED
  BY <1>1 DEF Execute, Store, Grow, VectorLoad, LaneAccess, Size, Is, MemoryInit, DataDrop,
              ActiveSegment, MemoryCopy, MemoryFill

\* A load returns its bytes with their sign or zeros above, or traps.
LEMMA LoadIsExact ==
  ASSUME PagesInv, ValuesInv, Load
  PROVE  Loaded
<1> DEFINE first == Base + todo.o.offset
           w == Op.w
           t == Op.t
           s == Slice(data, first, w)
           n == Extend(s, Op.sx, t)
<1>1. todo # None /\ Op.op = "load"
  BY DEF Load, Is, Op
<1>2. EA = first /\ first \in Nat /\ AccessArgs(todo)
  BY <1>1, AddressIs DEF Accesses
<1>3. w \in Nat \ {0} /\ t \in Nat \ {0} /\ w <= t
  BY <1>1, <1>2 DEF AccessArgs, LoadImm, Op
<1>4. \/ Fits(first, w, Len(data)) /\ result' = [val |-> n] /\ UNCHANGED <<data, max, segs>>
      \/ ~ Fits(first, w, Len(data)) /\ result' = Trap /\ UNCHANGED <<data, max, segs>>
  BY <1>2 DEF Load, Loading, Returns, Traps
<1>5. Base + todo.o.offset = first
  OBVIOUS
<1> HIDE DEF first, w, t
<1>6. Fits(first, w, Len(data)) <=> Accessed(w) \subseteq Addresses
  BY <1>2, <1>3, <1>5, LoadedBytes
<1>7. ASSUME Fits(first, w, Len(data))
      PROVE  n \in Nat /\ n < Pow2[ByteBits * t] /\ LoadedNumber(n, w, Op.sx, t)
  <2>1. BytesOf(s, w) /\ \A k \in 0 .. w - 1 : s[k + 1] = At(first + k)
    BY <1>2, <1>3, <1>5, <1>7, LoadedBytes
  <2> HIDE DEF s
  <2>2. n \in Nat /\ n < Pow2[ByteBits * t]
    BY <1>3, <2>1, ExtendBytes
  <2>3. \A k \in 0 .. t * ByteBits - 1 :
           /\ (n \div Pow2[k]) % 2 =
                IF k < w * ByteBits THEN (s[(k \div ByteBits) + 1] \div Pow2[k % ByteBits]) % 2
                ELSE IF Op.sx = "s" THEN (s[w] \div Pow2[ByteBits - 1]) % 2 ELSE 0
           /\ k < w * ByteBits => k \div ByteBits \in 0 .. w - 1
    BY <1>3, <2>1, ExtendBits
  <2> HIDE DEF n
  <2>4. s[w] = At(first + w - 1)
    <3>1. w - 1 \in 0 .. w - 1 /\ (w - 1) + 1 = w /\ first + (w - 1) = first + w - 1
      BY <1>2, <1>3
    <3> QED
      BY <2>1, <3>1
  <2>5. ASSUME NEW k \in 0 .. t * ByteBits - 1
        PROVE  (n \div Pow2[k]) % 2 =
                 IF k < w * ByteBits
                 THEN (At(first + (k \div ByteBits)) \div Pow2[k % ByteBits]) % 2
                 ELSE IF Op.sx = "s" THEN (At(first + w - 1) \div Pow2[ByteBits - 1]) % 2 ELSE 0
    <3> DEFINE i == k \div ByteBits
    <3>1. k < w * ByteBits => s[i + 1] = At(first + i)
      BY <2>1, <2>3
    <3> HIDE DEF i
    <3>2. /\ (n \div Pow2[k]) % 2 =
               IF k < w * ByteBits THEN (s[i + 1] \div Pow2[k % ByteBits]) % 2
               ELSE IF Op.sx = "s" THEN (s[w] \div Pow2[ByteBits - 1]) % 2 ELSE 0
      BY <2>3 DEF i
    <3>3. (n \div Pow2[k]) % 2 =
            IF k < w * ByteBits THEN (At(first + i) \div Pow2[k % ByteBits]) % 2
            ELSE IF Op.sx = "s" THEN (At(first + w - 1) \div Pow2[ByteBits - 1]) % 2 ELSE 0
      BY <2>4, <3>1, <3>2, Zenon
    <3> QED
      BY <3>3 DEF i
  <2>6. LoadedNumber(n, w, Op.sx, t)
    BY <2>5, Zenon DEF LoadedNumber, first
  <2> QED
    BY <2>2, <2>6 DEF n
<1> HIDE DEF s, n
<1>8. CASE Fits(first, w, Len(data))
  <2>1. [val |-> n] # Trap
    BY <1>7, <1>8, NoTrap
  <2>2. n \in 0 .. Pow2[ByteBits * t] - 1
    <3>1. ByteBits * t \in Nat
      BY <1>3, ByteIs
    <3> DEFINE p == Pow2[ByteBits * t]
    <3>2. p \in Nat /\ n \in Nat /\ n < p
      BY <1>7, <1>8, <3>1, Pow2Positive
    <3> HIDE DEF p
    <3>3. n \in 0 .. p - 1
      BY <3>2
    <3> QED
      BY <3>3 DEF p
  <2>3. result' = [val |-> n] /\ UNCHANGED <<data, max, segs>>
    BY <1>4, <1>8
  <2> QED
    BY <1>6, <1>7, <1>8, <2>1, <2>2, <2>3 DEF Loaded, w, t
<1>9. CASE ~ Fits(first, w, Len(data))
  BY <1>4, <1>6, <1>9 DEF Loaded, w, t
<1> QED
  BY <1>8, <1>9

\* What LoadsReadMemory says of one step.
LEMMA StepLoaded == PagesInv /\ ValuesInv /\ [Next]_vars => [Loaded]_vars
<1> SUFFICES ASSUME PagesInv, ValuesInv, Next PROVE Loaded
  BY DEF vars
<1>1. ASSUME NEW ins \in Instructions, Fetch(ins) PROVE Loaded
  BY <1>1 DEF Fetch, Loaded, Doing
<1>2. CASE Deliver
  BY <1>2 DEF Deliver, Loaded, Doing
<1>3. CASE Execute
  BY <1>3, LoadLoads, LoadIsExact DEF Loaded
<1> QED
  BY <1>1, <1>2, <1>3 DEF Next

-----------------------------------------------------------------------------
(* Vectors.                                                                *)

VectorOps == {"vload", "vextend", "vsplat", "vzero", "vload_lane", "vstore", "vstore_lane"}

\* What a load of w bytes at first that makes the vector v of them does.
Reads(first, w, v) ==
  /\ first \in Nat /\ Base + todo.o.offset = first /\ w \in Nat \ {0} /\ Touched = w
  /\ \/ Fits(first, w, Len(data)) /\ result' = [val |-> v] /\ data' = data
     \/ ~ Fits(first, w, Len(data)) /\ result' = Trap /\ data' = data
  /\ ~ (Op.op \in {"vstore", "vstore_lane"})

\* When the bytes are the ones they should be, the access is.
LEMMA ReadsAccess ==
  ASSUME PagesInv, ValuesInv, NEW first, NEW w, NEW v, Reads(first, w, v),
         Fits(first, w, Len(data)) =>
           v \in Seq(Int) /\ \A b \in 0 .. VecBytes - 1 : v[b + 1] = VectorByte(b)
  PROVE  VectorAccessed
<1>1. Fits(first, w, Len(data)) <=> Accessed(w) \subseteq Addresses
  BY LoadedBytes DEF Reads
<1>2. CASE Fits(first, w, Len(data))
  <2>1. result' = [val |-> v] /\ data' = data /\ ~ (Op.op \in {"vstore", "vstore_lane"}) /\ Touched = w
    BY <1>2 DEF Reads
  <2>2. result' # Trap
    BY <1>2, <2>1, NoTrap
  <2>3. result'.val = v
    BY <2>1
  <2> QED
    BY <1>1, <1>2, <2>1, <2>2, <2>3 DEF VectorAccessed, At
<1>3. CASE ~ Fits(first, w, Len(data))
  <2>1. result' = Trap /\ data' = data /\ ~ (Op.op \in {"vstore", "vstore_lane"}) /\ Touched = w
    BY <1>3 DEF Reads
  <2> QED
    BY <1>1, <1>3, <2>1 DEF VectorAccessed, At
<1> QED
  BY <1>2, <1>3

\* v128.load.
LEMMA LoadsVector ==
  ASSUME PagesInv, ValuesInv, VectorLoad, Op.op = "vload"
  PROVE  VectorAccessed
<1> DEFINE first == Base + todo.o.offset
           s == Slice(data, first, VecBytes)
<1>1. todo # None
  BY DEF VectorLoad, Is
<1>2. EA = first /\ first \in Nat
  BY <1>1, AddressIs DEF Accesses
<1>3. VecBytes \in Nat \ {0} /\ Touched = VecBytes
  BY MemoryAssumption DEF Touched
<1>4. \/ Fits(first, VecBytes, Len(data)) /\ result' = [val |-> s] /\ data' = data
      \/ ~ Fits(first, VecBytes, Len(data)) /\ result' = Trap /\ data' = data
  BY <1>2 DEF VectorLoad, Loading, Is, Op, Returns, Traps
<1>5. \A b \in Nat : VectorByte(b) = At(first + b)
  BY DEF VectorByte
<1>6. Base + todo.o.offset = first
  OBVIOUS
<1> HIDE DEF first
<1>7. Fits(first, VecBytes, Len(data)) =>
        s \in Seq(Int) /\ \A k \in 0 .. VecBytes - 1 : s[k + 1] = At(first + k)
  BY <1>2, <1>3, <1>6, LoadedBytes
<1> HIDE DEF s
<1>8. Fits(first, VecBytes, Len(data)) =>
        s \in Seq(Int) /\ \A b \in 0 .. VecBytes - 1 : s[b + 1] = VectorByte(b)
  BY <1>3, <1>5, <1>7
<1>9. Reads(first, VecBytes, s)
  BY <1>2, <1>3, <1>4, <1>6 DEF Reads
<1> QED
  BY <1>8, <1>9, ReadsAccess

\* v128.load8_splat and so on.
LEMMA LoadsSplat ==
  ASSUME PagesInv, ValuesInv, VectorLoad, Op.op = "vsplat"
  PROVE  VectorAccessed
<1> DEFINE first == Base + todo.o.offset
           w == Op.w
           s == Slice(data, first, w)
           v == [i \in 1 .. VecBytes |-> s[1 + ((i - 1) % w)]]
<1>1. todo # None
  BY DEF VectorLoad, Is
<1>2. EA = first /\ first \in Nat /\ AccessArgs(todo)
  BY <1>1, AddressIs DEF Accesses
<1>3. w \in Nat \ {0} /\ Touched = w /\ VecBytes \in Nat
  <2>1. w \in LaneBytes
    BY <1>2 DEF AccessArgs, LaneImm, Op
  <2> QED
    BY <2>1, LanesFill DEF Touched
<1>4. \/ Fits(first, w, Len(data)) /\ result' = [val |-> v] /\ data' = data
      \/ ~ Fits(first, w, Len(data)) /\ result' = Trap /\ data' = data
  BY <1>2 DEF VectorLoad, Loading, Is, Op, Returns, Traps
<1>5. \A b \in Nat : VectorByte(b) = At(first + (b % w))
  BY DEF VectorByte
<1>6. Base + todo.o.offset = first
  OBVIOUS
<1> HIDE DEF first, w
<1>7. Fits(first, w, Len(data)) =>
        BytesOf(s, w) /\ \A k \in 0 .. w - 1 : s[k + 1] = At(first + k)
  BY <1>2, <1>3, <1>6, LoadedBytes
<1> HIDE DEF s
<1>8. ASSUME Fits(first, w, Len(data))
      PROVE  v \in Seq(Int) /\ \A b \in 0 .. VecBytes - 1 : v[b + 1] = VectorByte(b)
  <2>1. DOMAIN v = 1 .. VecBytes /\ v = [i \in 1 .. VecBytes |-> v[i]]
    OBVIOUS
  <2>2. \A i \in 1 .. VecBytes : v[i] = s[1 + ((i - 1) % w)]
    OBVIOUS
  <2> HIDE DEF v
  <2>3. \A b \in Nat : b % w \in 0 .. w - 1 /\ 1 + (b % w) \in 1 .. w /\ 1 + (b % w) = (b % w) + 1
    <3> TAKE b \in Nat
    <3> DEFINE r == b % w
    <3>1. r \in Nat /\ r < w
      BY <1>3, DivMod
    <3> HIDE DEF r
    <3>2. r \in 0 .. w - 1 /\ 1 + r \in 1 .. w /\ 1 + r = r + 1
      BY <1>3, <3>1
    <3> QED
      BY <3>2 DEF r
  <2>4. \A i \in 1 .. VecBytes : v[i] \in Byte
    <3> TAKE i \in 1 .. VecBytes
    <3>1. i - 1 \in Nat
      OBVIOUS
    <3>2. 1 + ((i - 1) % w) \in 1 .. w
      BY <2>3, <3>1
    <3> QED
      BY <1>7, <1>8, <2>2, <3>2 DEF BytesOf
  <2>5. v \in Seq(Int)
    BY <1>3, <2>1, <2>4, GivenInts
  <2>6. \A b \in 0 .. VecBytes - 1 : v[b + 1] = VectorByte(b)
    <3> TAKE b \in 0 .. VecBytes - 1
    <3>1. b \in Nat /\ b + 1 \in 1 .. VecBytes /\ (b + 1) - 1 = b
      BY <1>3
    <3>2. v[b + 1] = s[1 + (b % w)]
      BY <2>2, <3>1
    <3>3. s[(b % w) + 1] = At(first + (b % w))
      BY <1>7, <1>8, <2>3, <3>1
    <3> QED
      BY <1>5, <2>3, <3>1, <3>2, <3>3
  <2> QED
    BY <2>5, <2>6
<1> HIDE DEF v
<1>9. Reads(first, w, v)
  BY <1>2, <1>3, <1>4, <1>6 DEF Reads
<1> QED
  BY <1>8, <1>9, ReadsAccess

\* v128.load32_zero and so on.
LEMMA LoadsZero ==
  ASSUME PagesInv, ValuesInv, VectorLoad, Op.op = "vzero"
  PROVE  VectorAccessed
<1> DEFINE first == Base + todo.o.offset
           w == Op.w
           s == Slice(data, first, w)
           n == VecBytes - w
           v == s \o Zeros(n)
<1>1. todo # None
  BY DEF VectorLoad, Is
<1>2. EA = first /\ first \in Nat /\ AccessArgs(todo)
  BY <1>1, AddressIs DEF Accesses
<1>3. w \in Nat \ {0} /\ Touched = w /\ VecBytes \in Nat /\ n \in Nat /\ w + n = VecBytes
  <2>1. w \in LaneBytes
    BY <1>2 DEF AccessArgs, LaneImm, Op
  <2>2. w \in Nat \ {0} /\ VecBytes \in Nat /\ w <= VecBytes /\ Touched = w
    BY <2>1, LanesFill DEF Touched
  <2> HIDE DEF w
  <2> QED
    BY <2>2
<1>4. \/ Fits(first, w, Len(data)) /\ result' = [val |-> v] /\ data' = data
      \/ ~ Fits(first, w, Len(data)) /\ result' = Trap /\ data' = data
  BY <1>2 DEF VectorLoad, Loading, Is, Op, Returns, Traps
<1>5. \A b \in Nat : VectorByte(b) = IF b < w THEN At(first + b) ELSE 0
  BY DEF VectorByte
<1>6. Base + todo.o.offset = first
  OBVIOUS
<1> HIDE DEF first, w, n
<1>7. Fits(first, w, Len(data)) =>
        /\ s \in Seq(Int) /\ Listed(s) /\ BytesOf(s, w)
        /\ \A k \in 0 .. w - 1 : s[k + 1] = At(first + k)
  BY <1>2, <1>3, <1>6, LoadedBytes
<1> HIDE DEF s
<1>8. ASSUME Fits(first, w, Len(data))
      PROVE  v \in Seq(Int) /\ \A b \in 0 .. VecBytes - 1 : v[b + 1] = VectorByte(b)
  <2>1. Listed(s) /\ Len(s) = w /\ s \in Seq(Int)
    BY <1>7, <1>8 DEF BytesOf
  <2>2. Zeros(n) \in Seq(Int)
    BY <1>3 DEF Zeros
  <2>3. Len(v) = VecBytes /\ \A i \in 1 .. Len(v) : v[i] = IF i <= w THEN s[i] ELSE 0
    BY <1>3, <2>1, ExtendedLength, ExtendedBytes
  <2>4. v \in Seq(Int)
    BY <2>1, <2>2
  <2> HIDE DEF v
  <2>5. \A b \in 0 .. VecBytes - 1 : v[b + 1] = VectorByte(b)
    <3> TAKE b \in 0 .. VecBytes - 1
    <3>1. b \in Nat /\ b + 1 \in 1 .. VecBytes /\ (b < w <=> b + 1 <= w) /\ (b < w => b \in 0 .. w - 1)
      BY <1>3
    <3>2. v[b + 1] = IF b < w THEN s[b + 1] ELSE 0
      BY <2>3, <3>1
    <3>3. b < w => s[b + 1] = At(first + b)
      BY <1>7, <1>8, <3>1
    <3> QED
      BY <1>5, <3>1, <3>2, <3>3
  <2> QED
    BY <2>4, <2>5
<1> HIDE DEF v
<1>9. Reads(first, w, v)
  BY <1>2, <1>3, <1>4, <1>6 DEF Reads
<1> QED
  BY <1>8, <1>9, ReadsAccess

\* Half a vector holds as many lanes of w bytes as a whole one of twice as many.
LEMMA HalfLanes ==
  ASSUME NEW w \in LaneBytes, 2 * w \in LaneBytes
  PROVE  /\ VecBytes \div 2 \in Nat \ {0}
         /\ \A b \in 0 .. VecBytes - 1 :
              /\ b \div (2 * w) \in Nat /\ b % (2 * w) \in 0 .. 2 * w - 1
              /\ w * (b \div (2 * w)) \in Nat
              /\ w * (b \div (2 * w)) + w <= VecBytes \div 2
<1> DEFINE n == VecBytes \div (2 * w)
           h == VecBytes \div 2
<1>1. w \in Nat \ {0} /\ VecBytes \in Nat \ {0}
  BY LanesFill
<1>2. n \in Nat /\ n * (2 * w) = VecBytes
  BY LanesFill
<1> HIDE DEF n
<1>3. n * w \in Nat /\ VecBytes = (n * w) * 2 + 0
  BY <1>1, <1>2
<1>4. h = n * w
  <2> DEFINE z == n * w
  <2>1. z \in Nat /\ VecBytes = z * 2 + 0
    BY <1>3
  <2> HIDE DEF z
  <2>2. VecBytes \div 2 = z
    BY <2>1, DivIs
  <2> QED
    BY <2>2 DEF z
<1>5. h \in Nat \ {0}
  <2> DEFINE z == n * w
  <2>1. z \in Nat /\ VecBytes = z * 2
    BY <1>3
  <2> HIDE DEF z
  <2>2. z # 0
    BY <1>1, <2>1
  <2> QED
    BY <1>4, <2>1, <2>2 DEF z
<1>6. ASSUME NEW b \in 0 .. VecBytes - 1
      PROVE  /\ b \div (2 * w) \in Nat /\ b % (2 * w) \in 0 .. 2 * w - 1
             /\ w * (b \div (2 * w)) \in Nat
             /\ w * (b \div (2 * w)) + w <= h
  <2> DEFINE d == 2 * w
             l == b \div d
             r == b % d
  <2>1. d \in Nat /\ d > 0 /\ b \in Nat /\ b < VecBytes
    BY <1>1
  <2>2. l \in Nat /\ r \in Nat /\ r < d /\ b = l * d + r
    <3> HIDE DEF d
    <3> QED
      BY <2>1, DivMod
  <2>3. n * d = VecBytes
    BY <1>2
  <2> HIDE DEF l, r
  <2>4. l < n
    <3>1. ASSUME n <= l PROVE n * d <= l * d
      <4> HIDE DEF d
      <4> QED
        BY <1>2, <2>1, <2>2, <3>1
    <3> DEFINE x == l * d
    <3>2. x \in Nat /\ b = x + r
      BY <2>1, <2>2
    <3> HIDE DEF x
    <3>3. ~ (VecBytes <= x)
      BY <1>1, <2>1, <2>2, <3>2
    <3> QED
      BY <1>2, <2>2, <2>3, <3>1, <3>3 DEF x
  <2>5. (l + 1) * w <= n * w /\ (l + 1) * w = w * l + w /\ w * l \in Nat
    BY <1>1, <1>2, <2>2, <2>4
  <2>6. r \in 0 .. d - 1
    BY <2>1, <2>2
  <2> HIDE DEF h
  <2>7. w * l + w <= h
    BY <1>4, <2>5
  <2> QED
    BY <2>2, <2>5, <2>6, <2>7 DEF l, r, d
<1> QED
  BY <1>5, <1>6

\* v128.load8x8_s and so on.
LEMMA LoadsExtended ==
  ASSUME PagesInv, ValuesInv, VectorLoad, Op.op = "vextend"
  PROVE  VectorAccessed
<1> DEFINE first == Base + todo.o.offset
           w == Op.w
           h == VecBytes \div 2
           s == Slice(data, first, h)
           v == Widened(s, w, Op.sx)
<1>1. todo # None
  BY DEF VectorLoad, Is
<1>2. EA = first /\ first \in Nat /\ AccessArgs(todo)
  BY <1>1, AddressIs DEF Accesses
<1>3. w \in LaneBytes /\ 2 * w \in LaneBytes /\ Touched = h
  BY <1>2 DEF AccessArgs, LaneImm, Op, Touched
<1>4. \/ Fits(first, h, Len(data)) /\ result' = [val |-> v] /\ data' = data
      \/ ~ Fits(first, h, Len(data)) /\ result' = Trap /\ data' = data
  BY <1>2 DEF VectorLoad, Loading, Is, Op, Returns, Traps
<1>5. \A b \in Nat :
        VectorByte(b) =
          LET lane == b \div (2 * w)
              top  == At(first + (lane + 1) * w - 1)
          IN IF b % (2 * w) < w THEN At(first + lane * w + (b % (2 * w)))
             ELSE IF Op.sx = "s" /\ top >= Pow2[ByteBits - 1] THEN Pow2[ByteBits] - 1 ELSE 0
  BY DEF VectorByte
<1>6. Base + todo.o.offset = first
  OBVIOUS
<1> HIDE DEF first, w
<1>7. h \in Nat \ {0} /\ w \in Nat \ {0} /\ VecBytes \in Nat
  BY <1>3, HalfLanes, LanesFill
<1>8. \A b \in 0 .. VecBytes - 1 :
              /\ b \div (2 * w) \in Nat /\ b % (2 * w) \in 0 .. 2 * w - 1
              /\ w * (b \div (2 * w)) \in Nat
              /\ w * (b \div (2 * w)) + w <= h
  BY <1>3, HalfLanes
<1> HIDE DEF h
<1>9. Fits(first, h, Len(data)) =>
        /\ Listed(s) /\ BytesOf(s, h)
        /\ \A k \in 0 .. h - 1 : s[k + 1] = At(first + k)
  BY <1>2, <1>6, <1>7, LoadedBytes
<1> HIDE DEF s
<1>10. ASSUME Fits(first, h, Len(data)), NEW b \in 0 .. VecBytes - 1
       PROVE  v[b + 1] = VectorByte(b) /\ v[b + 1] \in Byte
  <2> DEFINE l == b \div (2 * w)
             c == b % (2 * w)
             a == w * l
             u == Lane(s, w, l)
             t == 2 * w
             e == Longer(u, Op.sx, t)
             n == Extend(u, Op.sx, t)
  <2>1. b \in Nat /\ b + 1 \in 1 .. VecBytes /\ (b + 1) - 1 = b
    BY <1>7
  <2>2. v[b + 1] = ToLE(n, t)[1 + c]
    BY <2>1 DEF Widened
  <2>3. l \in Nat /\ c \in 0 .. t - 1 /\ a \in Nat /\ a + w <= h /\ t \in Nat /\ w <= t
    <3>1. l \in Nat /\ c \in 0 .. t - 1 /\ a \in Nat /\ a + w <= h
      BY <1>8
    <3>2. t \in Nat /\ w <= t
      BY <1>7
    <3> QED
      BY <3>1, <3>2
  <2>4. u = Slice(s, a, w)
    BY DEF Lane
  <2>5. VectorByte(b) =
          IF c < w THEN At(first + l * w + c)
          ELSE IF Op.sx = "s" /\ At(first + (l + 1) * w - 1) >= Pow2[ByteBits - 1]
               THEN Pow2[ByteBits] - 1 ELSE 0
    BY <1>5, <2>1
  <2>6. l * w = a /\ (l + 1) * w = a + w
    <3> HIDE DEF l
    <3> QED
      BY <1>7, <2>3
  <2>7. 1 + c \in 1 .. t /\ (1 + c) - 1 = c
    <3> HIDE DEF c, t
    <3> QED
      BY <2>3
  <2> HIDE DEF l, c, a, u, t, e, n, v
  <2>8. BytesOf(u, w) /\ \A k \in 1 .. w : u[k] = s[a + k]
    <3>1. Len(s) = h /\ Listed(s) /\ BytesOf(s, Len(s))
      BY <1>9, <1>10 DEF BytesOf
    <3> QED
      BY <1>7, <2>3, <2>4, <3>1, SliceAs
  <2>9. \A k \in 1 .. w : u[k] = At(first + a + k - 1)
    <3> TAKE k \in 1 .. w
    <3> DEFINE m == a + k - 1
    <3>1. m \in 0 .. h - 1 /\ m + 1 = a + k /\ first + m = first + a + k - 1
      BY <1>2, <1>7, <2>3
    <3> HIDE DEF m
    <3>2. s[m + 1] = At(first + m)
      BY <1>9, <1>10, <3>1
    <3> QED
      BY <2>8, <3>1, <3>2
  <2>10. n \in Nat /\ BytesOf(e, t)
         /\ \A i \in 1 .. t : (n \div Pow2[ByteBits * (i - 1)]) % Pow2[ByteBits] = e[i]
    BY <1>7, <2>3, <2>8, ExtendBytes, LongerIs DEF n, e
  <2>11. v[b + 1] = e[1 + c]
    BY <2>2, <2>3, <2>7, <2>10, ToLEBytes
  <2>12. e[1 + c] \in Byte
    BY <2>7, <2>10 DEF BytesOf
  <2>13. e[1 + c] = IF 1 + c <= w THEN u[1 + c] ELSE IF Signed(u, Op.sx) THEN Pow2[ByteBits] - 1 ELSE 0
    BY <2>7, <2>8 DEF e, Longer, BytesOf
  <2>14. CASE c < w
    <3>1. 1 + c <= w /\ 1 + c \in 1 .. w /\ first + a + (1 + c) - 1 = first + a + c
      BY <1>2, <1>7, <2>3, <2>14
    <3>2. u[1 + c] = At(first + a + c)
      BY <2>9, <3>1
    <3> QED
      BY <2>5, <2>6, <2>11, <2>12, <2>13, <2>14, <3>1, <3>2
  <2>15. CASE ~ (c < w)
    <3>1. ~ (1 + c <= w) /\ w \in 1 .. w /\ first + a + w - 1 = first + (a + w) - 1
      BY <1>2, <1>7, <2>3, <2>15
    <3>2. u[w] = At(first + (a + w) - 1) /\ Len(u) = w
      BY <2>8, <2>9, <3>1 DEF BytesOf
    <3> QED
      BY <2>5, <2>6, <2>11, <2>12, <2>13, <2>15, <3>1, <3>2 DEF Signed
  <2> QED
    BY <2>14, <2>15
<1>11. ASSUME Fits(first, h, Len(data))
       PROVE  v \in Seq(Int) /\ \A b \in 0 .. VecBytes - 1 : v[b + 1] = VectorByte(b)
  <2>1. DOMAIN v = 1 .. VecBytes /\ v = [i \in 1 .. VecBytes |-> v[i]]
    BY DEF Widened
  <2> HIDE DEF v
  <2>2. ASSUME NEW i \in 1 .. VecBytes PROVE v[i] \in Byte
    <3>1. i - 1 \in 0 .. VecBytes - 1 /\ (i - 1) + 1 = i
      BY <1>7
    <3>2. v[(i - 1) + 1] \in Byte
      BY <1>10, <1>11, <3>1
    <3> QED
      BY <3>1, <3>2
  <2>3. v \in Seq(Int)
    BY <1>7, <2>1, <2>2, GivenInts
  <2> QED
    BY <1>10, <1>11, <2>3
<1> HIDE DEF v
<1>12. Reads(first, h, v)
  BY <1>2, <1>3, <1>4, <1>6, <1>7 DEF Reads
<1> QED
  BY <1>11, <1>12, ReadsAccess

\* A byte is in the lane that its number says.
LEMMA InLane ==
  ASSUME NEW w \in Nat \ {0}, NEW l \in Nat, NEW b \in Nat
  PROVE  /\ b \div w = l <=> b + 1 \in w * l + 1 .. w * l + w
         /\ b \div w = l => b = w * l + (b % w)
         /\ b % w \in 0 .. w - 1
<1> DEFINE q == b \div w
           r == b % w
           a == w * l
<1>1. q \in Nat /\ r \in Nat /\ r < w /\ b = q * w + r
  BY DivMod
<1>2. a \in Nat /\ a = l * w
  OBVIOUS
<1>3. r \in 0 .. w - 1
  <2> HIDE DEF r
  <2> QED
    BY <1>1
<1>4. ASSUME q = l PROVE b = a + r
  <2> HIDE DEF q, r
  <2> QED
    BY <1>1, <1>4, <1>2
<1>5. ASSUME b + 1 \in a + 1 .. a + w PROVE q = l
  <2> DEFINE x == b - a
  <2>1. x \in Nat /\ x < w /\ b = l * w + x
    <3> HIDE DEF a
    <3> DEFINE z == l * w
    <3>1. z \in Nat /\ a = z
      BY <1>2
    <3> HIDE DEF z
    <3>2. x \in Nat /\ x < w /\ b = z + x
      BY <1>5, <3>1
    <3> QED
      BY <3>2 DEF z
  <2> HIDE DEF x
  <2> QED
    BY <2>1, DivIs
<1>6. ASSUME q = l PROVE b + 1 \in a + 1 .. a + w
  <2> HIDE DEF q, r, a
  <2> QED
    BY <1>1, <1>2, <1>4, <1>6
<1> QED
  BY <1>3, <1>4, <1>5, <1>6

\* v128.load8_lane and so on.
LEMMA LoadsLane ==
  ASSUME PagesInv, ValuesInv, LaneAccess, Op.op = "vload_lane"
  PROVE  VectorAccessed
<1> DEFINE first == Base + todo.o.offset
           w == Op.w
           s == Slice(data, first, w)
           a == w * Op.lane
           v == Written(Vec, a, s)
<1>1. todo # None
  BY DEF LaneAccess, Is
<1>2. EA = first /\ first \in Nat /\ AccessArgs(todo)
  BY <1>1, AddressIs DEF Accesses
<1>3. w \in LaneBytes /\ Op.lane \in 0 .. VecBytes \div w - 1 /\ Touched = w
      /\ todo.args[2] = Vec
  BY <1>2 DEF AccessArgs, LaneImm, Op, Touched, LaneOpNames
<1>4. \/ Fits(first, w, Len(data)) /\ result' = [val |-> v] /\ data' = data
      \/ ~ Fits(first, w, Len(data)) /\ result' = Trap /\ data' = data
  BY <1>2, <1>3 DEF LaneAccess, Loading, Is, Op, Returns, Traps, Arg
<1>5. \A b \in Nat : VectorByte(b) =
        IF b \div w = Op.lane THEN At(first + (b % w)) ELSE Vec[b + 1]
  BY <1>3 DEF VectorByte
<1>6. Base + todo.o.offset = first
  OBVIOUS
<1> HIDE DEF first, w
<1>7. w \in Nat \ {0} /\ VecBytes \in Nat /\ a \in Nat /\ Op.lane \in Nat
  BY <1>3, LanesFill, LaneInside
<1>8. Fits(first, w, Len(data)) =>
        BytesOf(s, w) /\ \A k \in 0 .. w - 1 : s[k + 1] = At(first + k)
  BY <1>2, <1>6, <1>7, LoadedBytes
<1> HIDE DEF s
<1>9. ASSUME Fits(first, w, Len(data))
      PROVE  v \in Seq(Int) /\ \A b \in 0 .. VecBytes - 1 : v[b + 1] = VectorByte(b)
  <2>1. Len(s) = w /\ Len(Vec) = VecBytes
    BY <1>8, <1>9, VecIs DEF BytesOf
  <2>2. DOMAIN v = 1 .. VecBytes /\ v = [i \in 1 .. VecBytes |-> v[i]]
    BY <2>1 DEF Written
  <2>3. \A i \in 1 .. VecBytes : v[i] = IF i \in a + 1 .. a + w THEN s[i - a] ELSE Vec[i]
    BY <2>1 DEF Written
  <2>4. BytesOf(v, VecBytes)
    <3>1. BytesOf(Vec, Len(Vec)) /\ Listed(Vec)
      BY <2>1, VecIs
    <3>2. BytesOf(v, Len(v)) /\ Len(v) = Len(Vec)
      BY <1>7, <1>8, <1>9, <3>1, WrittenBytes, WrittenLength
    <3> QED
      BY <2>1, <3>2
  <2>5. v \in Seq(Int)
    <3> HIDE DEF v
    <3> QED
      BY <1>7, <2>2, <2>4, GivenInts DEF BytesOf
  <2> HIDE DEF v
  <2>6. ASSUME NEW b \in 0 .. VecBytes - 1 PROVE v[b + 1] = VectorByte(b)
    <3> DEFINE r == b % w
               q == b \div w
    <3>1. b \in Nat /\ b + 1 \in 1 .. VecBytes
      BY <1>7
    <3>2. /\ q = Op.lane <=> b + 1 \in a + 1 .. a + w
          /\ q = Op.lane => b = a + r
          /\ r \in 0 .. w - 1
      BY <1>7, <3>1, InLane
    <3>3. VectorByte(b) = IF q = Op.lane THEN At(first + r) ELSE Vec[b + 1]
      BY <1>5, <3>1
    <3> HIDE DEF r, q
    <3>4. q = Op.lane => (b + 1) - a = r + 1
      <4> HIDE DEF a
      <4> QED
        BY <1>7, <3>1, <3>2
    <3>5. s[r + 1] = At(first + r)
      BY <1>8, <1>9, <3>2
    <3>6. v[b + 1] = IF b + 1 \in a + 1 .. a + w THEN s[(b + 1) - a] ELSE Vec[b + 1]
      BY <2>3, <3>1
    <3> HIDE DEF a
    <3> QED
      BY <3>2, <3>3, <3>4, <3>5, <3>6
  <2> QED
    BY <2>5, <2>6
<1> HIDE DEF v, a
<1>10. Reads(first, w, v)
  BY <1>2, <1>3, <1>4, <1>6, <1>7 DEF Reads
<1> QED
  BY <1>9, <1>10, ReadsAccess

\* What a store of the n bytes behind k of the vector on the stack does.
Writes(w, k, bytes) ==
  /\ Touched = w /\ w \in Nat \ {0} /\ k \in Nat /\ Len(bytes) = w
  /\ todo # None /\ Op.op \in {"vstore", "vstore_lane"}
  /\ k = IF Op.op = "vstore_lane" THEN Op.lane * Op.w ELSE 0
  /\ \A j \in 1 .. w : bytes[j] = todo.args[2][k + j]
  /\ Storing(bytes)

\* It is the access that it should be.
LEMMA WritesAccess ==
  ASSUME PagesInv, NEW w, NEW k, NEW bytes, Writes(w, k, bytes)
  PROVE  VectorAccessed
<1> DEFINE first == Base + todo.o.offset
<1>1. EA = first /\ first \in Nat
  BY AddressIs DEF Accesses, Writes
<1>2. Base + todo.o.offset = first
  OBVIOUS
<1> HIDE DEF first
<1>3. LET fits == Accessed(w) \subseteq Addresses
      IN /\ (result' = Trap) <=> ~fits
         /\ UNCHANGED <<max, segs>> /\ Len(data') = Len(data)
         /\ \A a \in Addresses :
              /\ data'[a + 1] = IF fits /\ a \in Accessed(w) THEN bytes[(a - first) + 1] ELSE At(a)
              /\ a \in Accessed(w) => a - first \in 0 .. w - 1
  BY <1>1, <1>2, StoringIs DEF Writes
<1>4. ASSUME NEW j \in 0 .. w - 1
      PROVE  bytes[j + 1] = todo.args[2][j + k + 1]
  <2>1. j + 1 \in 1 .. w /\ k + (j + 1) = j + k + 1
    BY DEF Writes
  <2> QED
    BY <2>1 DEF Writes
<1>5. ASSUME NEW a \in Addresses
      PROVE  data'[a + 1] = IF Accessed(w) \subseteq Addresses /\ a \in Accessed(w)
                            THEN todo.args[2][a - first + k + 1] ELSE At(a)
  <2>1. a \in Accessed(w) => bytes[(a - first) + 1] = todo.args[2][a - first + k + 1]
    BY <1>3, <1>4
  <2> QED
    BY <1>3, <2>1
<1>6. Touched = w /\ Op.op \in {"vstore", "vstore_lane"}
      /\ k = IF Op.op = "vstore_lane" THEN Op.lane * Op.w ELSE 0
  BY DEF Writes
<1> QED
  BY <1>3, <1>5, <1>6 DEF VectorAccessed, first

\* v128.store.
LEMMA StoresVector ==
  ASSUME PagesInv, LaneAccess, Op.op = "vstore"
  PROVE  VectorAccessed
<1>1. todo # None
  BY DEF LaneAccess, Is
<1>2. Arg(2) = Vec /\ Arg(2) = todo.args[2]
  BY <1>1, AddressIs DEF Accesses, AccessArgs, Op, Arg
<1>3. Storing(Vec)
  BY <1>2 DEF LaneAccess, Is, Op
<1>4. VecBytes \in Nat \ {0} /\ Len(Vec) = VecBytes /\ Touched = VecBytes
  BY VecIs, MemoryAssumption DEF Touched
<1>5. \A j \in 1 .. VecBytes : Vec[j] = todo.args[2][0 + j]
  BY <1>2
<1>6. Writes(VecBytes, 0, Vec)
  BY <1>1, <1>3, <1>4, <1>5 DEF Writes
<1> QED
  BY <1>6, WritesAccess

\* v128.store8_lane and so on.
LEMMA StoresLane ==
  ASSUME PagesInv, LaneAccess, Op.op = "vstore_lane"
  PROVE  VectorAccessed
<1> DEFINE w == Op.w
           l == Op.lane
           a == w * l
           u == Lane(Vec, w, l)
<1>1. todo # None
  BY DEF LaneAccess, Is
<1>2. Arg(2) = Vec /\ Arg(2) = todo.args[2]
      /\ w \in LaneBytes /\ l \in 0 .. VecBytes \div w - 1
  BY <1>1, AddressIs DEF Accesses, AccessArgs, LaneImm, LaneOpNames, Op, Arg
<1>3. Storing(u) /\ Touched = w
  BY <1>2 DEF LaneAccess, Is, Op, Touched
<1>4. w \in Nat \ {0} /\ a \in Nat /\ a + w <= VecBytes /\ l \in Nat
  <2> HIDE DEF w, l
  <2> QED
    BY <1>2, LanesFill, LaneInside
<1>5. u = Slice(Vec, a, w)
  BY DEF Lane
<1>6. a = Op.lane * Op.w
  BY <1>4
<1> HIDE DEF w, l, a, u
<1>7. BytesOf(u, w) /\ \A j \in 1 .. w : u[j] = Vec[a + j]
  BY <1>4, <1>5, VecIs, SliceAs
<1>8. Writes(w, a, u)
  BY <1>1, <1>2, <1>3, <1>4, <1>6, <1>7 DEF Writes, BytesOf
<1> QED
  BY <1>8, WritesAccess

\* The actions that execute the vector accesses.
LEMMA VectorExecutes ==
  ASSUME Execute, Doing(VectorOps)
  PROVE  /\ Op.op \in VectorOps
         /\ Op.op \in {"vload", "vextend", "vsplat", "vzero"} => VectorLoad
         /\ Op.op \in {"vload_lane", "vstore", "vstore_lane"} => LaneAccess
<1>1. Op.op \in VectorOps /\ todo.o.i.op = Op.op
  BY DEF Doing, Op
<1> QED
  BY <1>1, Zenon DEF VectorOps, Execute, Load, Store, Grow, VectorLoad, LaneAccess, Size, Is,
              MemoryInit, DataDrop, ActiveSegment, MemoryCopy, MemoryFill

\* What VectorAccessIsByLane says of one step.
LEMMA StepVector == PagesInv /\ ValuesInv /\ [Next]_vars => [VectorAccessed]_vars
<1> SUFFICES ASSUME PagesInv, ValuesInv, Next PROVE VectorAccessed
  BY DEF vars
<1>1. ASSUME NEW ins \in Instructions, Fetch(ins) PROVE VectorAccessed
  BY <1>1 DEF Fetch, VectorAccessed, Doing
<1>2. CASE Deliver
  BY <1>2 DEF Deliver, VectorAccessed, Doing
<1>3. CASE Execute
  <2>1. CASE Doing(VectorOps)
    <3>1. /\ Op.op \in VectorOps
          /\ Op.op \in {"vload", "vextend", "vsplat", "vzero"} => VectorLoad
          /\ Op.op \in {"vload_lane", "vstore", "vstore_lane"} => LaneAccess
      BY <1>3, <2>1, VectorExecutes
    <3> QED
      BY <3>1, LoadsVector, LoadsExtended, LoadsSplat, LoadsZero, LoadsLane, StoresVector, StoresLane
         DEF VectorOps
  <2>2. CASE ~ Doing(VectorOps)
    BY <2>2 DEF VectorAccessed, VectorOps
  <2> QED
    BY <2>1, <2>2
<1> QED
  BY <1>1, <1>2, <1>3 DEF Next

\* What loads and vector accesses read is what memory holds, for bytes,
\* addresses, lanes and vectors of every width: loads extend the bytes at
\* their address by sign or by zeros, vector loads put each byte where their
\* lanes say, lane stores write one lane, and an access that does not fit
\* traps and changes nothing.
THEOREM AccessesAlwaysReadMemory == Spec => AccessesReadMemory
<1> DEFINE Inv == PagesInv /\ SegsInv /\ ValuesInv
<1>1. Init => Inv
  BY PagesInit, SegsInit, ValuesInit
<1>2. Inv /\ [Next]_vars => Inv'
  BY PagesStep, SegsStep, ValuesStep
<1>3. Inv => TypeOK
  BY TypesHold
<1>4. Inv /\ [Next]_vars => [Loaded]_vars /\ [VectorAccessed]_vars
  BY StepLoaded, StepVector
<1> QED
  BY <1>1, <1>2, <1>3, <1>4, PTL DEF Spec, AccessesReadMemory, LoadsReadMemory, VectorAccessIsByLane
=============================================================================
