------------------------------ MODULE MCPubSub ------------------------------
(* PubSub for TLC: listeners are interchangeable.                          *)
EXTENDS PubSub, TLC

ListenerSymmetry == Permutations(Fns)
=============================================================================
