--------------------------- MODULE MCHotKeyDetector ---------------------------
(* A small instance of HotKeyDetector for TLC. *)
EXTENDS HotKeyDetector

CONSTANT w1

TwoRecorders == 0..1
TwoCounters  == 0..1
OneWorker    == {w1}
=============================================================================
