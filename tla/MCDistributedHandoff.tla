------------------------ MODULE MCDistributedHandoff ------------------------
(* Small instances of DistributedHandoff for TLC. *)
EXTENDS DistributedHandoff

OneEach  == [m \in Members |-> 1]
TwoFirst == [m \in Members |-> IF m = 0 THEN 2 ELSE 1]
=============================================================================
