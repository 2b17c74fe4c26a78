---------------------------- MODULE MCRpcThreads ----------------------------
(* RpcThreads for TLC: the two threads of the program for PCs. *)
EXTENDS RpcThreads

CONSTANTS timer

CallsOfBoth == [t \in Thread |-> IF t = timer THEN 2 ELSE 1]

=============================================================================
