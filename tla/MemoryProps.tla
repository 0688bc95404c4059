---------------------------- MODULE MemoryProps ----------------------------
(***************************************************************************)
(* What the memory instructions promise, in the terms of the WebAssembly   *)
(* specification: byte by byte, and independent of how exec.rs does it.    *)
(***************************************************************************)
EXTENDS Memory

\* The byte at an address, and which addresses there are
At(a) == data[a + 1]
Addresses == 0 .. Len(data) - 1
Doing(os) == todo # None /\ todo.o.i.op \in os /\ todo' = None

Bytes == UNION {[1 .. n -> Byte] : n \in 0 .. Pow2[AddrBits]}

\* The variables keep their types; between two instructions nothing is left
\* of the last one.
TypeOK ==
  /\ data \in Bytes /\ max \in DeclaredMax
  /\ \A k \in DOMAIN segs : segs[k] \in {<<>>, Segments[k]}
  /\ todo # None => todo \in Instructions /\ result = None

\* A memory always holds a whole number of pages, never more than it
\* declared nor than the address space (MemoryGrow keeps it so).
WholePages ==
  \E p \in MinPages .. max : p <= MaxPages /\ Len(data) = p * PageSize

-----------------------------------------------------------------------------
(* One instruction.                                                        *)

\* The effective address: base and offset do not wrap.  The bytes accessed
\* are the width many from there; all must exist, or the access traps.
Base == todo.args[1]
Accessed(w) == {Base + todo.o.offset + k : k \in 0 .. w - 1}

\* The number a load returns is its bytes in little-endian order and, above
\* them, copies of its sign or zeros; it traps exactly when one byte of it is
\* missing, and changes nothing (mem_load and Instr::Load).
LoadedNumber(n, w, sx, t) ==
  \A k \in 0 .. t * ByteBits - 1 :
    LET bit(a, j) == (At(a) \div Pow2[j]) % 2
        first     == Base + todo.o.offset
        top       == bit(first + w - 1, ByteBits - 1)
    IN (n \div Pow2[k]) % 2 =
         IF k < w * ByteBits THEN bit(first + (k \div ByteBits), k % ByteBits)
         ELSE IF sx = "s" THEN top ELSE 0

Loaded ==
  Doing({"load"}) =>
    /\ UNCHANGED <<data, max, segs>>
    /\ (result' = Trap) <=> ~(Accessed(Op.w) \subseteq Addresses)
    /\ result' # Trap => LoadedNumber(result'.val, Op.w, Op.sx, Op.t)
                         /\ result'.val \in 0 .. Pow2[ByteBits * Op.t] - 1

LoadsReadMemory == [][Loaded]_vars

\* A store changes the bytes it addresses, to the low bytes of its operand,
\* and no other; when one of them does not exist it traps and changes none
\* (mem_store: the check is before the first byte).
StoredByte(k) == (todo.args[2] \div Pow2[ByteBits * k]) % Pow2[ByteBits]

Stored ==
  Doing({"store"}) =>
    LET first == Base + todo.o.offset
        fits  == Accessed(Op.w) \subseteq Addresses
    IN /\ (result' = Trap) <=> ~fits
       /\ UNCHANGED <<max, segs>> /\ Len(data') = Len(data)
       /\ \A a \in Addresses :
            data'[a + 1] = IF fits /\ a \in Accessed(Op.w) THEN StoredByte(a - first) ELSE At(a)

StoresWriteTheirBytes == [][Stored]_vars

\* memory.grow returns the old size and adds zeros, or returns -1 and does
\* nothing; it never adds pages beyond the maximum, and memory.size tells
\* the size.  Nothing else changes the length of a memory.
Grown ==
  /\ Doing({"grow"}) =>
       \/ result'.val = Refused /\ UNCHANGED data
       \/ /\ result'.val * PageSize = Len(data)
          /\ Len(data') = Len(data) + todo.args[1] * PageSize
          /\ \A i \in 1 .. Len(data') : data'[i] = IF i <= Len(data) THEN data[i] ELSE 0
  /\ Doing({"size"}) => result'.val * PageSize = Len(data)
  /\ Len(data') # Len(data) => Doing({"grow"})

GrowthIsExact == [][Grown]_vars

-----------------------------------------------------------------------------
(* Bulk instructions are defined by the specification as loads and stores  *)
(* of one byte after the other, upwards, or downwards when the target of a *)
(* copy is above its source.                                               *)

Move(d, n, Byte0(_, _)) ==      \* upwards
  LET m[k \in 0 .. n] == IF k = 0 THEN data
                         ELSE [m[k - 1] EXCEPT ![d + k] = Byte0(m[k - 1], k)]
  IN m[n]

MoveDown(d, s, n) ==
  LET m[k \in 0 .. n] == IF k = 0 THEN data
                         ELSE [m[k - 1] EXCEPT ![d + n - k + 1] = m[k - 1][s + n - k + 1]]
  IN m[n]

\* Where it reads and writes
Room(a, n, len) == IF n = 0 THEN a <= len ELSE a + n - 1 < len

SegmentOf == segs[todo.o.seg]

Bytewise ==
  LET d == todo.args[1]
      n == todo.args[Len(todo.args)]
      s == todo.args[2]
  IN CASE Op.op = "fill" -> Move(d, n, LAMBDA m, k : s % Pow2[ByteBits])
       [] Op.op = "copy" -> IF d <= s THEN Move(d, n, LAMBDA m, k : m[s + k])
                                      ELSE MoveDown(d, s, n)
       [] Op.op = "init" -> Move(d, n, LAMBDA m, k : SegmentOf[s + k])
       [] Op.op = "active" -> Move(d, Len(SegmentOf), LAMBDA m, k : SegmentOf[k])

BulkFits ==
  LET d == todo.args[1]
      n == todo.args[Len(todo.args)]
      s == todo.args[2]
  IN CASE Op.op = "fill" -> Room(d, n, Len(data))
       [] Op.op = "copy" -> Room(d, n, Len(data)) /\ Room(s, n, Len(data))
       [] Op.op = "init" -> Room(d, n, Len(data)) /\ Room(s, n, Len(SegmentOf))
       [] Op.op = "active" -> Room(d, Len(SegmentOf), Len(data))

\* A bulk instruction does what the byte-wise definition does, overlapping
\* ranges included, or traps and does nothing; a segment is empty once it
\* was dropped or applied (MemoryInit/Copy/Fill, DataDrop, data segments of
\* instantiate).
BulkDone ==
  /\ Doing({"fill", "copy", "init", "active"}) =>
       /\ (result' = Trap) <=> ~BulkFits
       /\ data' = IF BulkFits THEN Bytewise ELSE data
  /\ segs' # segs => Doing({"drop", "active"}) /\ result' # Trap
  /\ Doing({"drop", "active"}) /\ result' # Trap =>
       segs' = [k \in DOMAIN segs |-> IF k = todo.o.seg THEN <<>> ELSE segs[k]]

BulkIsBytewise == [][BulkDone]_vars

-----------------------------------------------------------------------------
(* Vectors.                                                                *)

\* How many bytes of memory a vector access touches
Touched ==
  CASE Op.op \in {"vload", "vstore"} -> VecBytes
    [] Op.op = "vextend" -> VecBytes \div 2
    [] OTHER -> Op.w

\* Byte b of the vector that a vector load leaves, taken from memory
VectorByte(b) ==
  LET first == Base + todo.o.offset
  IN CASE Op.op = "vload"  -> At(first + b)
       [] Op.op = "vsplat" -> At(first + (b % Op.w))
       [] Op.op = "vzero"  -> IF b < Op.w THEN At(first + b) ELSE 0
       [] Op.op = "vload_lane" ->
            IF b \div Op.w = Op.lane THEN At(first + (b % Op.w)) ELSE todo.args[2][b + 1]
       [] Op.op = "vextend" ->
            LET lane == b \div (2 * Op.w)
                top  == At(first + (lane + 1) * Op.w - 1)
            IN IF b % (2 * Op.w) < Op.w THEN At(first + lane * Op.w + (b % (2 * Op.w)))
               ELSE IF Op.sx = "s" /\ top >= Pow2[ByteBits - 1] THEN Pow2[ByteBits] - 1 ELSE 0

\* Vector loads place each byte of memory in its lane, extend, repeat or pad
\* it; lane stores write the lane alone; both trap like scalar accesses and
\* change nothing else (simd_mem).
VectorAccessed ==
  Doing({"vload", "vextend", "vsplat", "vzero", "vload_lane", "vstore", "vstore_lane"}) =>
    LET fits  == Accessed(Touched) \subseteq Addresses
        store == Op.op \in {"vstore", "vstore_lane"}
        from  == IF Op.op = "vstore_lane" THEN Op.lane * Op.w ELSE 0
        first == Base + todo.o.offset
    IN /\ (result' = Trap) <=> ~fits
       /\ fits /\ ~store => \A b \in 0 .. VecBytes - 1 : result'.val[b + 1] = VectorByte(b)
       /\ Len(data') = Len(data)
       /\ \A a \in Addresses :
            data'[a + 1] = IF store /\ fits /\ a \in Accessed(Touched)
                           THEN todo.args[2][a - first + from + 1] ELSE At(a)

VectorAccessIsByLane == [][VectorAccessed]_vars

\* Loads and stores of every kind, over variables that keep their types: what
\* is read is what memory holds, byte by byte (mem_load, simd_mem).
AccessesReadMemory == []TypeOK /\ LoadsReadMemory /\ VectorAccessIsByLane
=============================================================================
