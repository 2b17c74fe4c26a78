------------------------------ MODULE MCHashMap ------------------------------
(* HashMap for TLC: four keys in three buckets, one shared by three of them. *)
EXTENDS HashMap

KeyFour == 1 .. 4
HashFour == <<0, 3, 6, 10>>

=============================================================================
