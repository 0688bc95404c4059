------------------------------ MODULE Memory ------------------------------
(***************************************************************************)
(* The bytes of a linear memory: loads, stores, memory.size/grow, the bulk *)
(* instructions and the vector accesses of exec.rs and simd.rs.  An        *)
(* instruction is fetched with its operands, executed in one step, and its *)
(* result is delivered: pushed on the stack, or returned as a trap.        *)
(*                                                                         *)
(* Widths are parameters.  A byte has ByteBits bits (8 in the code), an    *)
(* address AddrBits (32), a page PageSize bytes (65536); lengths are in    *)
(* bytes.  Sums are integers: the code widens to u64 before it adds.       *)
(***************************************************************************)
EXTENDS Integers, Sequences

CONSTANTS
  ByteBits, AddrBits, PageSize,
  MaxPages,     \* MAX_PAGES
  IntBytes,     \* the lengths of the integer types: 4 and 8
  VecBytes,     \* the length of a vector: 16
  LaneBytes,    \* the lengths of its lanes
  Words,        \* the numbers that programs store
  DeclaredMax,  \* the maxima a memory may declare
  MinPages,     \* its first size
  Segments,     \* what the data segments hold
  None, Trap    \* no result; a trap

\* 2^n, by its recursion.
Pow2[n \in Nat] == IF n = 0 THEN 1 ELSE 2 * Pow2[n - 1]

\* As many pages as there may be are no more than the addresses (65536 of
\* 65536 bytes), and a vector is cut into lanes without a rest.
ASSUME MemoryAssumption ==
  /\ {ByteBits, AddrBits, PageSize, VecBytes} \subseteq Nat \ {0}
  /\ MaxPages \in Nat /\ MinPages \in 0 .. MaxPages
  /\ IntBytes \cup LaneBytes \subseteq Nat \ {0}
  /\ Words \subseteq Nat
  /\ DeclaredMax \subseteq MinPages .. MaxPages
  /\ Segments \in Seq(Seq(0 .. Pow2[ByteBits] - 1))
  /\ MaxPages * PageSize <= Pow2[AddrBits]
  /\ \A w \in LaneBytes : VecBytes % w = 0
  /\ Trap \notin [val : Int \cup Seq(Int)]

VARIABLES
  data,     \* MemInst.data: the byte at address a is data[a + 1]
  max,      \* the declared maximum; limits without one are MaxPages
  segs,     \* the instance's data segments
  todo,     \* the instruction that was fetched, or None
  result    \* what it returned, or None

vars == <<data, max, segs, todo, result>>

Byte == 0 .. Pow2[ByteBits] - 1
U32  == 0 .. Pow2[AddrBits] - 1

Init ==
  /\ max \in DeclaredMax
  /\ data = [i \in 1 .. MinPages * PageSize |-> 0]
  /\ segs = Segments
  /\ todo = None /\ result = None

-----------------------------------------------------------------------------
(* Numbers and bytes.                                                      *)

\* to_le_bytes, of a number cut to w bytes
ToLE(v, w) == [i \in 1 .. w |-> (v \div Pow2[ByteBits * (i - 1)]) % Pow2[ByteBits]]

\* from_le_bytes
FromLE(s) ==
  LET f[i \in 0 .. Len(s)] ==
        IF i = 0 THEN 0 ELSE f[i - 1] + s[i] * Pow2[ByteBits * (i - 1)]
  IN f[Len(s)]

\* "as i8 as i32 as u32" and the like: the sign of w bytes repeated up to t
SignExtend(s, t) ==
  LET w == Len(s)
      n == FromLE(s)
  IN IF s[w] >= Pow2[ByteBits - 1]
     THEN n + Pow2[ByteBits * t] - Pow2[ByteBits * w] ELSE n

Extend(s, sx, t) == IF sx = "s" THEN SignExtend(s, t) ELSE FromLE(s)

-----------------------------------------------------------------------------
(* Addresses.                                                              *)

\* n bytes from a are inside len
Fits(a, n, len) == a + n <= len

Slice(s, a, n) == SubSeq(s, a + 1, a + n)

\* copy_from_slice at a
Written(s, a, bytes) ==
  [i \in 1 .. Len(s) |-> IF i \in a + 1 .. a + Len(bytes) THEN bytes[i - a] ELSE s[i]]

-----------------------------------------------------------------------------
(* Instructions: an operation, its immediates, and its operands with the   *)
(* top of the stack last.                                                  *)

\* LoadOp: w bytes extended to an integer of t; whole floats are bits
LoadOps == {l \in [op : {"load"}, w : IntBytes \cup LaneBytes, sx : {"s", "u"}, t : IntBytes] :
              l.w <= l.t}
StoreOps == {[op |-> "store", w |-> w] : w \in IntBytes \cup LaneBytes}

\* SimdMemOp
VectorLoads ==
  {[op |-> "vload"]} \cup
  {[op |-> "vextend", w |-> w, sx |-> sx] :
     w \in {l \in LaneBytes : 2 * l \in LaneBytes}, sx \in {"s", "u"}} \cup
  {[op |-> o, w |-> w] : o \in {"vsplat", "vzero"}, w \in LaneBytes}
LaneOps(o) == UNION {{[op |-> o, w |-> w, lane |-> l] :
                        l \in 0 .. VecBytes \div w - 1} : w \in LaneBytes}

With(ops, args) == {[o |-> o, args |-> a] : o \in ops, a \in args}

\* A vector on the stack.  What it holds is told by its lanes' numbers.
Vec == [i \in 1 .. VecBytes |-> i % Pow2[ByteBits]]

Instructions ==
  With([i : LoadOps, offset : U32], {<<b>> : b \in U32}) \cup
  With([i : StoreOps, offset : U32], {<<b, v>> : b \in U32, v \in Words}) \cup
  With([i : VectorLoads, offset : U32], {<<b>> : b \in U32}) \cup
  With([i : {[op |-> "vstore"]} \cup LaneOps("vload_lane") \cup LaneOps("vstore_lane"),
        offset : U32], {<<b, Vec>> : b \in U32}) \cup
  With({[i |-> [op |-> "size"]]}, {<<>>}) \cup
  With({[i |-> [op |-> "grow"]]}, {<<n>> : n \in U32}) \cup
  With({[i |-> [op |-> "fill"]]}, U32 \X Words \X U32) \cup
  With({[i |-> [op |-> "copy"]]}, U32 \X U32 \X U32) \cup
  With([i : {[op |-> "init"]}, seg : 1 .. Len(Segments)], U32 \X U32 \X U32) \cup
  With([i : {[op |-> "drop"]}, seg : 1 .. Len(Segments)], {<<>>}) \cup
  With([i : {[op |-> "active"]}, seg : 1 .. Len(Segments)], {<<a>> : a \in U32})

Fetch(ins) ==
  /\ todo = None /\ result = None
  /\ todo' = ins
  /\ UNCHANGED <<data, max, segs, result>>

\* push(v), or Err(trap) up to the embedder
Deliver ==
  /\ result # None
  /\ result' = None
  /\ UNCHANGED <<data, max, segs, todo>>

-----------------------------------------------------------------------------
(* Execution.                                                              *)

Is(o) == todo # None /\ todo.o.i.op = o
Op == todo.o.i
Arg(k) == todo.args[k]

Returns(r) == todo' = None /\ result' = [val |-> r]
Traps == todo' = None /\ result' = Trap /\ UNCHANGED <<data, max, segs>>

\* base, then the value above it; the offset is an immediate
EA == Arg(1) + todo.o.offset

\* mem_load, with what its caller makes of the bytes
Loading(w, Make(_)) ==
  \/ Fits(EA, w, Len(data)) /\ Returns(Make(Slice(data, EA, w))) /\ UNCHANGED <<data, max, segs>>
  \/ ~Fits(EA, w, Len(data)) /\ Traps

\* Mutant of Storing: what fits is written before the check.
StoringPartly(bytes) ==
  /\ data' = Written(data, EA, bytes)
  /\ UNCHANGED <<max, segs>>
  /\ todo' = None
  /\ result' = IF Fits(EA, Len(bytes), Len(data)) THEN [val |-> <<>>] ELSE Trap

\* mem_store
Storing(bytes) ==
  \/ /\ Fits(EA, Len(bytes), Len(data))
     /\ data' = Written(data, EA, bytes)
     /\ Returns(<<>>) /\ UNCHANGED <<max, segs>>
  \/ ~Fits(EA, Len(bytes), Len(data)) /\ Traps

Load  == Is("load")  /\ Loading(Op.w, LAMBDA s : Extend(s, Op.sx, Op.t))

Store == Is("store") /\ Storing(ToLE(Arg(2), Op.w))

\* The lane of v that starts at byte w * l
Lane(v, w, l) == Slice(v, w * l, w)
Zeros(n) == [i \in 1 .. n |-> 0]

\* Load8x8S and so on: half a vector, each lane twice as long
Widened(s, w, sx) ==
  [i \in 1 .. VecBytes |->
     ToLE(Extend(Lane(s, w, (i - 1) \div (2 * w)), sx, 2 * w), 2 * w)[1 + ((i - 1) % (2 * w))]]

VectorLoad ==
  \/ Is("vload")   /\ Loading(VecBytes, LAMBDA s : s)
  \/ Is("vextend") /\ Loading(VecBytes \div 2, LAMBDA s : Widened(s, Op.w, Op.sx))
  \/ Is("vsplat")  /\ Loading(Op.w, LAMBDA s : [i \in 1 .. VecBytes |-> s[1 + ((i - 1) % Op.w)]])
  \/ Is("vzero")   /\ Loading(Op.w, LAMBDA s : s \o Zeros(VecBytes - Op.w))

\* Mutant of LaneAccess: the lane number counts bytes.
LaneAccessBytes ==
  \/ Is("vload_lane")  /\ Loading(Op.w, LAMBDA s :
        [i \in 1 .. VecBytes |-> IF i - Op.lane \in 1 .. Op.w THEN s[i - Op.lane] ELSE Arg(2)[i]])
  \/ Is("vstore_lane") /\ Storing(Lane(Arg(2), Op.w, Op.lane))
  \/ Is("vstore")      /\ Storing(Arg(2))

LaneAccess ==
  \/ Is("vload_lane")  /\ Loading(Op.w, LAMBDA s : Written(Arg(2), Op.w * Op.lane, s))
  \/ Is("vstore_lane") /\ Storing(Lane(Arg(2), Op.w, Op.lane))
  \/ Is("vstore")      /\ Storing(Arg(2))

Size ==
  /\ Is("size")
  /\ Returns(Len(data) \div PageSize)
  /\ UNCHANGED <<data, max, segs>>

\* u32::MAX
Refused == Pow2[AddrBits] - 1

\* Mutant of Grow: the new size is an address-sized number.
GrowWrapping ==
  LET old == Len(data) \div PageSize
      new == (old + Arg(1)) % Pow2[AddrBits]
  IN /\ Is("grow")
     /\ IF new <= max /\ new <= MaxPages
        THEN data' = SubSeq(data, 1, new * PageSize) \o Zeros(new * PageSize - Len(data)) /\ Returns(old)
        ELSE data' = data /\ Returns(Refused)
     /\ UNCHANGED <<max, segs>>

\* Mutant of Grow: the new size is returned.
GrowReturnsNew ==
  LET new == Len(data) \div PageSize + Arg(1)
  IN /\ Is("grow")
     /\ \/ /\ new <= max /\ new <= MaxPages
           /\ data' = data \o Zeros(new * PageSize - Len(data))
           /\ Returns(new)
        \/ data' = data /\ Returns(Refused)
     /\ UNCHANGED <<max, segs>>

\* The old size, with zeros behind it; or refused, also when the allocator
\* says no.
Grow ==
  LET old == Len(data) \div PageSize
      new == old + Arg(1)
  IN /\ Is("grow")
     /\ \/ /\ new <= max /\ new <= MaxPages
           /\ data' = data \o Zeros(new * PageSize - Len(data))
           /\ Returns(old)
        \/ data' = data /\ Returns(Refused)
     /\ UNCHANGED <<max, segs>>

\* memory.init d s n
MemoryInit ==
  LET d == Arg(1)
      s == Arg(2)
      n == Arg(3)
      seg == segs[todo.o.seg]
  IN /\ Is("init")
     /\ \/ /\ Fits(s, n, Len(seg)) /\ Fits(d, n, Len(data))
           /\ data' = Written(data, d, Slice(seg, s, n))
           /\ Returns(<<>>) /\ UNCHANGED <<max, segs>>
        \/ ~(Fits(s, n, Len(seg)) /\ Fits(d, n, Len(data))) /\ Traps

DataDrop ==
  /\ Is("drop")
  /\ segs' = [segs EXCEPT ![todo.o.seg] = <<>>]
  /\ Returns(<<>>) /\ UNCHANGED <<data, max>>

\* An active segment of instantiate: copied to its offset and dropped.
\* A segment that was dropped already stands for an empty one.
ActiveSegment ==
  LET seg == segs[todo.o.seg]
  IN /\ Is("active")
     /\ \/ /\ Fits(Arg(1), Len(seg), Len(data))
           /\ data' = Written(data, Arg(1), seg)
           /\ segs' = [segs EXCEPT ![todo.o.seg] = <<>>]
           /\ Returns(<<>>) /\ UNCHANGED max
        \/ ~Fits(Arg(1), Len(seg), Len(data)) /\ Traps

\* Mutant of MemoryCopy: byte by byte upwards, also when the target is above.
MemoryCopyUpwards ==
  LET d == Arg(1)
      s == Arg(2)
      n == Arg(3)
      m[k \in 0 .. n] == IF k = 0 THEN data ELSE [m[k - 1] EXCEPT ![d + k] = m[k - 1][s + k]]
  IN /\ Is("copy")
     /\ \/ /\ Fits(s, n, Len(data)) /\ Fits(d, n, Len(data))
           /\ data' = m[n]
           /\ Returns(<<>>) /\ UNCHANGED <<max, segs>>
        \/ ~(Fits(s, n, Len(data)) /\ Fits(d, n, Len(data))) /\ Traps

\* copy_within reads the whole source before it writes
MemoryCopy ==
  LET d == Arg(1)
      s == Arg(2)
      n == Arg(3)
  IN /\ Is("copy")
     /\ \/ /\ Fits(s, n, Len(data)) /\ Fits(d, n, Len(data))
           /\ data' = Written(data, d, Slice(data, s, n))
           /\ Returns(<<>>) /\ UNCHANGED <<max, segs>>
        \/ ~(Fits(s, n, Len(data)) /\ Fits(d, n, Len(data))) /\ Traps

\* memory.fill d v n
MemoryFill ==
  LET d == Arg(1)
      n == Arg(3)
  IN /\ Is("fill")
     /\ \/ /\ Fits(d, n, Len(data))
           /\ data' = Written(data, d, [i \in 1 .. n |-> Arg(2) % Pow2[ByteBits]])
           /\ Returns(<<>>) /\ UNCHANGED <<max, segs>>
        \/ ~Fits(d, n, Len(data)) /\ Traps

Execute ==
  \/ Load \/ Store \/ VectorLoad \/ LaneAccess \/ Size \/ Grow
  \/ MemoryInit \/ DataDrop \/ ActiveSegment \/ MemoryCopy \/ MemoryFill

Next == (\E ins \in Instructions : Fetch(ins)) \/ Execute \/ Deliver

Spec == Init /\ [][Next]_vars
=============================================================================
