----------------------------- MODULE MCByteSlice -----------------------------
(* ByteSlice with a few slices; objects, addresses and byte values are       *)
(* interchangeable.                                                          *)
EXTENDS ByteSlice, TLC

Interchangeable ==
  Permutations(Slice) \cup Permutations(Block) \cup Permutations(Cell)
    \cup Permutations(Byte)
=============================================================================
