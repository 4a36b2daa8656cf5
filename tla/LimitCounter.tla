---------------------------- MODULE LimitCounter ----------------------------
(***************************************************************************)
(* What the INCRNCHK service promises a client: one counter that grows by  *)
(* the delta of every accepted request and never passes the limit, and a   *)
(* definitive "exhausted" state that is entered only at the limit and is   *)
(* never left.  CounterEngine implements this specification with several   *)
(* routing modes, sharded escrow and a racing control plane.               *)
(***************************************************************************)
EXTENDS Integers

CONSTANTS Limit,    \* strict_.limit()
          Deltas    \* the deltas clients send

VARIABLES total,      \* the sum of the accepted deltas
          exhausted   \* LimitReachedCache: the definitive exhausted state

Init == total = 0 /\ exhausted = FALSE

Accept(d) == /\ total + d <= Limit
             /\ total' = total + d
             /\ UNCHANGED exhausted

Exhaust == /\ total = Limit
           /\ exhausted' = TRUE
           /\ UNCHANGED total

Next == Exhaust \/ \E d \in Deltas : Accept(d)

Spec == Init /\ [][Next]_<<total, exhausted>>
=============================================================================
