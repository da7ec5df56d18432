----------------------------- MODULE MCVgpuMemory -----------------------------
(* The allocator with a bitmap of one byte: every position of a hint in its   *)
(* byte, every fragmentation, a request of zero and one larger than the block. *)
EXTENDS VgpuMemory, TLC

Sym == Permutations(Owners)
=============================================================================
