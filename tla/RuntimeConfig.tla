---------------------------- MODULE RuntimeConfig ----------------------------
(***************************************************************************)
(* From launch options to a runtime configuration: make_runtime_config of  *)
(* cpp/src/runtime_config.cpp and the ReservationPlan it checks            *)
(* (cpp/src/reservation_plan.cpp).  An error of either is one outcome,     *)
(* "refused".  Amounts are words of MaxAmount + 1 values.                  *)
(***************************************************************************)
EXTENDS Integers, Sequences, Sums

CONSTANTS MaxAmount,     \* numeric_limits<Amount>::max()
          MaxComponent,  \* the largest component id of the wire format
          LaunchOptions  \* the RuntimeLaunchOptions a process may be given

ASSUME WidthAssumption == MaxAmount \in Nat /\ MaxComponent \in Nat
(* The parser of the options has read amounts as words *)
ASSUME OptionsAssumption ==
    \A o \in LaunchOptions :
        /\ o.limit \in 0..MaxAmount /\ o.peak_reservation \in 0..MaxAmount
        /\ o.cluster_reservations \in Seq([component_id : Nat, capacity : 0..MaxAmount])

-----------------------------------------------------------------------------
(* ReservationPlan.  The constructor sorts the components; whether it       *)
(* throws does not depend on their order.                                   *)

Duplicate(plan) ==
    \E i, j \in DOMAIN plan : i # j /\ plan[i].component_id = plan[j].component_id

(* allocated_total_ after n components, as a word *)
AllocatedTotal(plan, n) ==
    SumTo([i \in 0..(n - 1) |-> plan[i + 1].capacity], n) % (MaxAmount + 1)

(* The sum would not fit in a word; a mutated form does not ask *)
OverflowIgnored(plan) == FALSE
Overflow(plan) ==
    \E n \in DOMAIN plan : plan[n].capacity > MaxAmount - AllocatedTotal(plan, n - 1)

PlanAccepted(limit, plan) ==
    /\ ~Duplicate(plan) /\ ~Overflow(plan)
    /\ AllocatedTotal(plan, Len(plan)) <= limit

HasComponent(plan, id) == \E i \in DOMAIN plan : plan[i].component_id = id
CapacityFor(plan, id) ==
    IF HasComponent(plan, id)
    THEN plan[CHOOSE i \in DOMAIN plan : plan[i].component_id = id].capacity
    ELSE 0

-----------------------------------------------------------------------------
(* make_runtime_config                                                     *)

(* The part of the limit this process may grant on its own; 0 if the        *)
(* options name none.                                                       *)
LocalReservation(o) ==
    IF o.cluster_reservations = <<>> THEN o.peak_reservation
    ELSE CapacityFor(o.cluster_reservations, o.component_id)

ClusterAccepted(o) ==
    o.cluster_reservations # <<>> =>
        /\ PlanAccepted(o.limit, o.cluster_reservations)
        /\ HasComponent(o.cluster_reservations, o.component_id)
        /\ LocalReservation(o) # 0
        /\ o.peak_reservation \in {0, LocalReservation(o)}
        /\ o.start_peak

(* handoff: "none", "options" (some, but no port), "bare" (a port without   *)
(* key file or journal), "full", "no_key" (an unreadable or short key file) *)
HandoffAccepted(o) ==
    \/ o.handoff = "none"
    \/ o.handoff = "full" /\ o.cluster_reservations # <<>>

ConfigAccepted(o) ==
    /\ o.shards # 0 /\ o.hot_threshold_tps # 0 /\ o.component_id <= MaxComponent
    /\ o.peak_reservation <= o.limit
    /\ ClusterAccepted(o)
    /\ LocalReservation(o) \in {0, o.limit} \/ o.start_peak
    /\ HandoffAccepted(o)

(* With the engine's reading of a reservation of 0 as the whole limit *)
ConfigOf(o) ==
    [limit |-> o.limit,
     reservation |-> IF LocalReservation(o) = 0 THEN o.limit ELSE LocalReservation(o),
     start_peak |-> o.start_peak, replication |-> o.replication,
     handoff |-> o.handoff = "full"]
=============================================================================
