------------------------------ MODULE ByteFifo ------------------------------
(***************************************************************************)
(* What a byte buffer is to its users: a queue of at most Cap bytes, with  *)
(* a place the reader can mark and come back to as long as it has only     *)
(* read since.                                                             *)
(***************************************************************************)
EXTENDS Naturals, Sequences

CONSTANTS Cap, Byte

VARIABLES
  queue,    \* the bytes written and not read, oldest first
  marked    \* what the queue was at the mark, in a set; {} when no mark holds

vars == <<queue, marked>>

Init == queue = <<>> /\ marked = {}

Put(x) ==
  /\ Len(queue) < Cap
  /\ queue' = Append(queue, x)
  /\ marked' = {}

Get ==
  /\ queue # <<>>
  /\ queue' = Tail(queue)
  /\ UNCHANGED marked

Skip(n) ==
  /\ n <= Len(queue)
  /\ queue' = SubSeq(queue, n + 1, Len(queue))
  /\ UNCHANGED marked

Discard == queue' = <<>> /\ marked' = {}

Mark == marked' = {queue} /\ UNCHANGED queue

Rewind ==
  /\ marked # {}
  /\ queue' \in marked
  /\ marked' = {}

Next ==
  \/ \E x \in Byte : Put(x)
  \/ Get
  \/ \E n \in 1..Cap : Skip(n)
  \/ Discard
  \/ Mark
  \/ Rewind

Spec == Init /\ [][Next]_vars
=============================================================================
