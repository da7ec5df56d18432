----------------------------- MODULE MCVirglFence -----------------------------
(* Instances of the resource protocol: two handler threads, one or two          *)
(* completion DPCs, one or two resources.                                       *)
EXTENDS VirglFence, TLC

Sym == Permutations(Blocks)
=============================================================================
