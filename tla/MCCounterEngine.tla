--------------------------- MODULE MCCounterEngine ---------------------------
(* Small instances of CounterEngine for TLC. *)
EXTENDS CounterEngine, TLC

CONSTANTS c1, c2

TwoClients == {c1, c2}

(* Clients are interchangeable; used only in runs without liveness *)
ClientSymmetry == Permutations(Clients)
=============================================================================
