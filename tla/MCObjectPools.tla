---------------------------- MODULE MCObjectPools ----------------------------
(* ObjectPools for TLC: blocks of memory are interchangeable. *)
EXTENDS ObjectPools, TLC

Symmetric == Permutations(Block)

=============================================================================
