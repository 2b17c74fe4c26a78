------------------------------- MODULE MCCtrl -------------------------------
(* Ctrl for TLC: three names, two of them in one bucket.       *)
EXTENDS Ctrl

NameThree == {"f", "g", "h"}
HashShared == [n \in NameThree |-> IF n = "h" THEN 1 ELSE 0]

=============================================================================
