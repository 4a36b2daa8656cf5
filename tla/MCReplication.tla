---------------------------- MODULE MCReplication ----------------------------
(* Small instances of Replication for TLC. *)
EXTENDS Replication

CONSTANTS k1, k2

TwoKeys == {k1, k2}
=============================================================================
