----------------------------- MODULE MCMemory -----------------------------
(***************************************************************************)
(* Bytes of two bits, addresses of two bits: a memory of two pages of two  *)
(* bytes is the whole address space, as 65536 pages are in the code.       *)
(* Integers have 2 and 4 bytes, a vector 4 bytes in lanes of 1 or 2.       *)
(***************************************************************************)
EXTENDS MemoryProps

SomeWords    == {27, 228}
SomeSegments == <<<<1, 2, 3>>>>
=============================================================================
