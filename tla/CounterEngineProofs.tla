------------------------- MODULE CounterEngineProofs -------------------------
(***************************************************************************)
(* Proofs about CounterEngine for every number of clients and shards and   *)
(* every limit: type correctness (with the bounds of the shards and of the *)
(* strict word) on any machine, and the quiescent point of close_and_drain *)
(* on a machine that orders close() before the loads that follow it.       *)
(***************************************************************************)
EXTENDS CounterEngine, FiniteSetTheorems, TLAPS

(* The gate's count is exact; needed for its type already, since leave()   *)
(* subtracts from it.                                                      *)
CountOK == in_flight = Cardinality(InFlightClients)

TypeInv == TypeOK /\ IndexOK /\ CountOK

(* A shard's reservation, as ReservedCounter's constructor splits it, is a *)
(* natural number.                                                         *)
LEMMA ReserveType == ASSUME NEW i \in ShardIds PROVE Reserve(i) \in Nat
  <1>1. LocalPeakReservation \in Nat /\ Shards \in Nat /\ Shards > 0
    BY AmountsAssumption, ShardsAssumption
  <1>2. LocalPeakReservation \div Shards \in Nat
    BY <1>1
  <1> QED
    BY <1>2 DEF Reserve

(* ReservedCounter::exhausted_shards() returns a natural number. *)
LEMMA ExhaustedShardsType == ExhaustedShards \in Nat
  <1>1. IsFiniteSet(ShardIds)
    BY FS_Interval, ShardsAssumption DEF ShardIds
  <1>2. IsFiniteSet({i \in ShardIds : used[i] = Reserve(i)})
    BY <1>1, FS_Subset
  <1> QED
    BY <1>2, FS_CardinalityType DEF ExhaustedShards

(* The requests inside the gate are finitely many. *)
LEMMA InFlightFinite == IsFiniteSet(InFlightClients)
  BY FS_Subset, ClientsAssumption DEF InFlightClients

(* A step that leaves every client on its side of the gate keeps the count *)
(* exact.                                                                  *)
LEMMA CountUnchanged ==
  ASSUME CountOK, in_flight' = in_flight,
         \A c \in Clients : pc'[c] \in {"idle", "enter", "count"}
                              <=> pc[c] \in {"idle", "enter", "count"}
  PROVE  CountOK'
  <1>1. InFlightClients' = InFlightClients
    BY DEF InFlightClients
  <1> QED
    BY <1>1 DEF CountOK

(* try_enter()'s fetch_add counts one request more. *)
LEMMA CountEntered ==
  ASSUME TypeInv, NEW c \in Clients, Count(c)
  PROVE  CountOK'
  <1>1. InFlightClients' = InFlightClients \cup {c} /\ c \notin InFlightClients
    BY DEF TypeInv, TypeOK, ClientTypes, Count, At, GoTo, InFlightClients
  <1>2. Cardinality(InFlightClients') = Cardinality(InFlightClients) + 1
    BY <1>1, InFlightFinite, FS_AddElement
  <1> QED
    BY <1>2 DEF CountOK, TypeInv, Count

(* leave() takes exactly one request back, and the count stays natural. *)
LEMMA CountLeft ==
  ASSUME TypeInv, NEW c \in Clients, Leave(c)
  PROVE  CountOK' /\ in_flight' \in Nat
  <1>1. InFlightClients' = InFlightClients \ {c} /\ c \in InFlightClients
    BY DEF TypeInv, TypeOK, ClientTypes, Leave, Return, At, GoTo, InFlightClients
  <1>2. IsFiniteSet(InFlightClients')
    BY <1>1, InFlightFinite, FS_RemoveElement
  <1>3. Cardinality(InFlightClients') = Cardinality(InFlightClients) - 1
    BY <1>1, InFlightFinite, FS_RemoveElement
  <1>4. CountOK'
    BY <1>3 DEF CountOK, TypeInv, Leave
  <1> QED
    BY <1>2, <1>4, FS_CardinalityType DEF CountOK

-----------------------------------------------------------------------------
(* Every initial state is well typed. *)
LEMMA TypeInit == Init => TypeInv
  <1> SUFFICES ASSUME Init PROVE TypeInv
    OBVIOUS
  <1> USE AmountsAssumption, ShardsAssumption, ModesAssumption DEF Init
  <1>1. GateTypes
    BY DEF GateTypes
  <1>2. CounterTypes
    BY ReserveType DEF CounterTypes, Modes
  <1>3. TallyTypes
    BY ExhaustedShardsType DEF TallyTypes
  <1>4. ClientTypes
    BY DEF ClientTypes, ClientPCs, Modes, ShardIds
  <1>5. MoverTypes
    BY DEF MoverTypes, MoverPCs, Movers
  <1>6. ObserverTypes
    BY DEF ObserverTypes, Modes
  <1>7. IndexOK
    BY DEF IndexOK, Movers
  <1>8. CountOK
    <2>1. InFlightClients = {}
      BY DEF InFlightClients
    <2> QED
      BY <2>1, FS_EmptySet DEF CountOK
  <1> QED
    BY <1>1, <1>2, <1>3, <1>4, <1>5, <1>6, <1>7, <1>8 DEF TypeInv, TypeOK

(* apply(): every step of a client preserves the types, and the check on   *)
(* the value read together with the compare-exchange keeps each counter    *)
(* within its bound.                                                       *)
LEMMA TypeClient ==
  ASSUME TypeInv, NEW c \in Clients, ClientStep(c)
  PROVE  TypeInv'
  <1> USE DEF TypeInv, TypeOK, At, GoTo
  <1>1. CASE TryEnter(c)
    <2>1. CountOK'
      BY <1>1, CountUnchanged DEF TryEnter, Return, gate, ClientTypes
    <2>2. ClientTypes'
      BY <1>1, ShardsAssumption DEF TryEnter, Return, ClientTypes, ClientPCs, locals, Modes, ShardIds
    <2> QED
      BY <1>1, <2>1, <2>2 DEF TryEnter, gate, counters, tallies, requests, movers,
         observer, history, GateTypes, CounterTypes, TallyTypes, MoverTypes,
         ObserverTypes, IndexOK
  <1>2. CASE Count(c)
    <2>1. ClientTypes' /\ GateTypes'
      BY <1>2 DEF Count, ClientTypes, ClientPCs, locals, GateTypes
    <2>2. CountOK'
      BY <1>2, CountEntered DEF Count
    <2>3. CounterTypes' /\ TallyTypes'
      BY <1>2 DEF Count, counters, tallies, requests, history, CounterTypes, TallyTypes
    <2>4. MoverTypes' /\ ObserverTypes' /\ IndexOK'
      BY <1>2 DEF Count, counters, movers, observer, history, MoverTypes, ObserverTypes, IndexOK
    <2> QED
      BY <2>1, <2>2, <2>3, <2>4
  <1>3. CASE Recheck(c)
    <2>1. CountOK'
      BY <1>3, CountUnchanged DEF Recheck, gate, ClientTypes
    <2>2. ClientTypes'
      BY <1>3 DEF Recheck, ClientTypes, ClientPCs, locals
    <2> QED
      BY <1>3, <2>1, <2>2 DEF Recheck, gate, counters, tallies, requests, movers,
         observer, history, GateTypes, CounterTypes, TallyTypes, MoverTypes,
         ObserverTypes, IndexOK
  <1>4. CASE Leave(c)
    <2>1. ClientTypes'
      BY <1>4, ShardsAssumption DEF Leave, Return, ClientTypes, ClientPCs, Modes, ShardIds
    <2>2. GateTypes'
      BY <1>4, CountLeft DEF Leave, GateTypes
    <2> QED
      BY <1>4, <2>1, <2>2, CountLeft DEF Leave, counters, tallies, requests,
         movers, observer, history, CounterTypes, TallyTypes, MoverTypes,
         ObserverTypes, IndexOK
  <1>5. CASE LoadMode(c)
    <2>1. CountOK'
      BY <1>5, CountUnchanged DEF LoadMode, gate, ClientTypes
    <2>2. ClientTypes'
      BY <1>5 DEF LoadMode, ClientTypes, ClientPCs, CounterTypes
    <2> QED
      BY <1>5, <2>1, <2>2 DEF LoadMode, gate, counters, tallies, requests, movers,
         observer, history, GateTypes, CounterTypes, TallyTypes, MoverTypes,
         ObserverTypes, IndexOK
  <1>6. CASE LoadCell(c)
    <2>1. CountOK'
      BY <1>6, CountUnchanged DEF LoadCell, gate, ClientTypes
    <2>2. Cell(c) \in Nat
      BY DEF Cell, ClientTypes, CounterTypes
    <2>3. ClientTypes'
      BY <1>6, <2>2 DEF LoadCell, ClientTypes, ClientPCs
    <2> QED
      BY <1>6, <2>1, <2>3 DEF LoadCell, gate, counters, tallies, requests, movers,
         observer, history, GateTypes, CounterTypes, TallyTypes, MoverTypes,
         ObserverTypes, IndexOK
  <1>7. CASE CompareExchange(c)
    <2>1. CountOK'
      BY <1>7, CountUnchanged DEF CompareExchange, gate, ClientTypes
    <2>2. shard[c] \in ShardIds /\ Reserve(shard[c]) \in Nat /\ Limit \in Nat
      BY ReserveType, AmountsAssumption DEF ClientTypes
    <2>3. Cell(c) \in Nat /\ delta[c] \in Nat /\ current[c] \in Nat
      BY DEF Cell, ClientTypes, CounterTypes
    <2>4. ClientTypes'
      BY <1>7, <2>3 DEF CompareExchange, ClientTypes, ClientPCs
    <2>5. FitsIn(c) => current[c] + delta[c] <= Capacity(c)
      BY <2>2, <2>3 DEF FitsIn, Capacity
    <2>6. CounterTypes'
      <3>1. CASE UNCHANGED <<used, strict_value>>
        BY <1>7, <3>1 DEF CompareExchange, CounterTypes
      <3>2. CASE ~UNCHANGED <<used, strict_value>>
        <4>1. FitsIn(c) /\ (IF seen[c] = "ReservedPeak"
                THEN used' = [used EXCEPT ![shard[c]] = current[c] + delta[c]]
                     /\ strict_value' = strict_value
                ELSE strict_value' = current[c] + delta[c] /\ used' = used)
          BY <1>7, <3>2 DEF CompareExchange
        <4>2. CASE seen[c] = "ReservedPeak"
          <5>1. current[c] + delta[c] \in Nat /\ current[c] + delta[c] <= Reserve(shard[c])
            BY <4>1, <4>2, <2>3, <2>5 DEF Capacity
          <5>2. used' \in [ShardIds -> Nat] /\ \A i \in ShardIds : used'[i] <= Reserve(i)
            BY <4>1, <4>2, <5>1, <2>2 DEF CounterTypes
          <5>3. mode' = mode /\ exhaustion_announced' = exhaustion_announced
            BY <1>7 DEF CompareExchange
          <5> QED
            BY <4>1, <4>2, <5>2, <5>3 DEF CounterTypes
        <4>3. CASE seen[c] # "ReservedPeak"
          <5>1. current[c] + delta[c] \in Nat /\ current[c] + delta[c] <= Limit
            BY <4>1, <4>3, <2>3, <2>5 DEF Capacity
          <5>2. mode' = mode /\ exhaustion_announced' = exhaustion_announced
            BY <1>7 DEF CompareExchange
          <5> QED
            BY <4>1, <4>3, <5>1, <5>2 DEF CounterTypes
        <4> QED
          BY <4>2, <4>3
      <3> QED
        BY <3>1, <3>2
    <2>7. ObserverTypes'
      BY <1>7, <2>3 DEF CompareExchange, ObserverTypes, observer
    <2> QED
      BY <1>7, <2>1, <2>4, <2>6, <2>7 DEF CompareExchange, gate, tallies, requests,
         movers, GateTypes, TallyTypes, MoverTypes, IndexOK
  <1>8. CASE Remember(c)
    <2>1. CountOK'
      BY <1>8, CountUnchanged DEF Remember, gate, ClientTypes
    <2>2. ClientTypes' /\ TallyTypes'
      BY <1>8 DEF Remember, ClientTypes, ClientPCs, locals, TallyTypes, requests
    <2> QED
      BY <1>8, <2>1, <2>2 DEF Remember, gate, counters, movers, observer, history,
         GateTypes, CounterTypes, MoverTypes, ObserverTypes, IndexOK
  <1>9. CASE ShardFull(c)
    <2>1. CountOK'
      BY <1>9, CountUnchanged DEF ShardFull, gate, ClientTypes
    <2>2. ClientTypes'
      BY <1>9 DEF ShardFull, ClientTypes, ClientPCs, locals
    <2> QED
      BY <1>9, <2>1, <2>2 DEF ShardFull, gate, counters, tallies, requests, movers,
         observer, history, GateTypes, CounterTypes, TallyTypes, MoverTypes,
         ObserverTypes, IndexOK
  <1>10. CASE Announce(c)
    <2>1. CountOK'
      BY <1>10, CountUnchanged DEF Announce, gate, ClientTypes
    <2>2. ClientTypes' /\ CounterTypes'
      BY <1>10 DEF Announce, ClientTypes, ClientPCs, locals, CounterTypes
    <2> QED
      BY <1>10, <2>1, <2>2 DEF Announce, gate, tallies, requests, movers,
         observer, history, GateTypes, TallyTypes, MoverTypes, ObserverTypes, IndexOK
  <1>11. CASE Tally(c)
    <2>1. CountOK'
      BY <1>11, CountUnchanged DEF Tally, gate, ClientTypes
    <2>2. ClientTypes' /\ TallyTypes'
      BY <1>11 DEF Tally, ClientTypes, ClientPCs, locals, TallyTypes, requests
    <2> QED
      BY <1>11, <2>1, <2>2 DEF Tally, gate, counters, movers, observer, history,
         GateTypes, CounterTypes, MoverTypes, ObserverTypes, IndexOK
  <1>12. CASE PublishLimit(c)
    <2>1. CountOK'
      BY <1>12, CountUnchanged DEF PublishLimit, gate, ClientTypes
    <2>2. ClientTypes' /\ TallyTypes'
      BY <1>12 DEF PublishLimit, ClientTypes, ClientPCs, locals, TallyTypes, requests
    <2> QED
      BY <1>12, <2>1, <2>2 DEF PublishLimit, gate, counters, movers, observer,
         history, GateTypes, CounterTypes, MoverTypes, ObserverTypes, IndexOK
  <1> QED
    BY <1>1, <1>2, <1>3, <1>4, <1>5, <1>6, <1>7, <1>8, <1>9, <1>10, <1>11, <1>12
    DEF ClientStep

(* A new request enters with a delta and a shard of the right type. *)
LEMMA TypeApply ==
  ASSUME TypeInv, NEW c \in Clients, NEW d \in Deltas, NEW s \in ShardIds, Apply(c, d, s)
  PROVE  TypeInv'
  <1> USE DEF TypeInv, TypeOK, At, GoTo
  <1>1. CountOK'
    BY CountUnchanged DEF Apply, gate, ClientTypes
  <1>2. ClientTypes'
    BY AmountsAssumption DEF Apply, ClientTypes, ClientPCs
  <1> QED
    BY <1>1, <1>2 DEF Apply, gate, counters, tallies, requests, movers,
       observer, history, GateTypes, CounterTypes, TallyTypes, MoverTypes,
       ObserverTypes, IndexOK

(* The steps that the two movers share preserve the types: the scans stay  *)
(* within the shards, and a seed never exceeds a reserve or the limit.     *)
LEMMA TypeMover ==
  ASSUME TypeInv, NEW t \in Movers, MoverStep(t)
  PROVE  TypeInv'
  <1> USE DEF TypeInv, TypeOK, MoverAt, MoveTo
  <1>0. Movers = {"control", "handoff"} /\ Shards \in Nat /\ Shards > 0
        /\ Limit \in Nat
    BY ShardsAssumption, AmountsAssumption DEF Movers
  <1>1. CASE Close(t)
    <2>1. GateTypes' /\ MoverTypes' /\ IndexOK'
      BY <1>1, <1>0 DEF Close, GateTypes, MoverTypes, MoverPCs, IndexOK
    <2>2. CountOK'
      BY <1>1, CountUnchanged DEF Close
    <2> QED
      BY <1>1, <2>1, <2>2 DEF Close, counters, CounterTypes, tallies, requests,
         TallyTypes, locals, ClientTypes, observer, history, ObserverTypes
  <1>2. CASE Drained(t)
    <2>1. MoverTypes' /\ IndexOK'
      BY <1>2, <1>0 DEF Drained, MoverTypes, MoverPCs, IndexOK, CounterTypes
    <2> QED
      BY <1>2, <2>1, CountUnchanged DEF Drained, gate, GateTypes, counters,
         CounterTypes, tallies, requests, TallyTypes, locals, ClientTypes,
         observer, history, ObserverTypes
  <1>3. CASE ReadShard(t)
    <2>1. idx[t] \in ShardIds
      BY <1>3, <1>0 DEF ReadShard, IndexOK, ShardIds, MoverTypes
    <2>2. used[idx[t]] \in Nat
      BY <2>1 DEF CounterTypes
    <2>3. MoverTypes'
      BY <1>3, <2>2 DEF ReadShard, MoverTypes, MoverPCs
    <2>4. IndexOK'
      BY <1>3, <1>0 DEF ReadShard, MoverTypes, IndexOK
    <2> QED
      BY <1>3, <2>3, <2>4, CountUnchanged DEF ReadShard, gate, GateTypes, counters,
         CounterTypes, tallies, requests, TallyTypes, locals, ClientTypes,
         observer, history, ObserverTypes
  <1>4. CASE SeedShard(t)
    <2> DEFINE i == idx[t]
               assigned == IF acc[t] < Reserve(i) THEN acc[t] ELSE Reserve(i)
    <2>1. i \in ShardIds /\ acc[t] \in Nat
      BY <1>4, <1>0 DEF SeedShard, IndexOK, ShardIds, MoverTypes
    <2>2. Reserve(i) \in Nat
      BY <2>1, ReserveType
    <2>3. assigned \in Nat /\ assigned <= Reserve(i) /\ assigned <= acc[t]
      BY <2>1, <2>2
    <2>4. /\ used' = [used EXCEPT ![i] = assigned]
          /\ exhaustion_announced' =
               [exhaustion_announced EXCEPT ![i] = (assigned = Reserve(i))]
          /\ acc' = [acc EXCEPT ![t] = @ - assigned]
          /\ idx' = [idx EXCEPT ![t] = i + 1]
          /\ IF i + 1 < Shards THEN tpc' = tpc
             ELSE tpc' = [tpc EXCEPT ![t] = IF acc[t] = assigned THEN "publish" ELSE "open"]
      BY <1>4 DEF SeedShard
    <2>5. UNCHANGED <<mode, strict_value>>
      BY <1>4 DEF SeedShard
    <2> HIDE DEF i, assigned
    <2>6. CounterTypes'
      BY <2>1, <2>3, <2>4, <2>5 DEF CounterTypes
    <2>7. acc[t] - assigned \in Nat /\ i + 1 \in Nat
      BY <2>1, <2>3 DEF ShardIds
    <2>8. MoverTypes'
      BY <2>4, <2>7 DEF MoverTypes, MoverPCs
    <2>9. tpc[t] = "seed_shards"
      BY <1>4 DEF SeedShard
    <2>10. ASSUME NEW u \in Movers
           PROVE  /\ tpc'[u] \in {"observe", "collect", "seed_shards"} => idx'[u] < Shards
                  /\ tpc'[u] = "top" => idx'[u] = 0
      <3>1. CASE u = t
        BY <3>1, <2>4, <2>7, <2>9 DEF MoverTypes
      <3>2. CASE u # t
        BY <3>2, <2>4 DEF MoverTypes, IndexOK
      <3> QED
        BY <3>1, <3>2
    <2>11. IndexOK'
      BY <2>10 DEF IndexOK
    <2> QED
      BY <1>4, <2>6, <2>8, <2>11, CountUnchanged DEF SeedShard, gate, GateTypes,
         tallies, requests, TallyTypes, locals, ClientTypes, observer, history,
         ObserverTypes
  <1>5. CASE SeedStrict(t)
    <2>1. CounterTypes' /\ MoverTypes' /\ IndexOK'
      BY <1>5, <1>0 DEF SeedStrict, CounterTypes, MoverTypes, MoverPCs, IndexOK
    <2> QED
      BY <1>5, <2>1, CountUnchanged DEF SeedStrict, gate, GateTypes, tallies,
         requests, TallyTypes, locals, ClientTypes, observer, history, ObserverTypes
  <1>6. CASE PublishMode(t)
    <2>1. CounterTypes' /\ MoverTypes' /\ IndexOK'
      BY <1>6 DEF PublishMode, CounterTypes, Modes, MoverTypes, MoverPCs, IndexOK
    <2> QED
      BY <1>6, <2>1, CountUnchanged DEF PublishMode, gate, GateTypes, tallies,
         requests, TallyTypes, locals, ClientTypes, observer, history, ObserverTypes
  <1>7. CASE ResetTally(t)
    <2>1. TallyTypes' /\ MoverTypes' /\ IndexOK'
      BY <1>7, ExhaustedShardsType DEF ResetTally, FreshTally, TallyTypes, requests,
         MoverTypes, MoverPCs, IndexOK
    <2> QED
      BY <1>7, <2>1, CountUnchanged DEF ResetTally, gate, GateTypes, counters,
         CounterTypes, locals, ClientTypes, observer, history, ObserverTypes
  <1>8. CASE BumpEpoch(t)
    <2>1. replication_epoch' \in Nat
      BY <1>8 DEF BumpEpoch, NextEpoch, TallyTypes
    <2>2. TallyTypes'
      BY <1>8, <2>1, Zenon DEF BumpEpoch, TallyTypes
    <2>3. MoverTypes' /\ IndexOK'
      BY <1>8 DEF BumpEpoch, MoverTypes, MoverPCs, IndexOK
    <2> QED
      BY <1>8, <2>2, <2>3, CountUnchanged DEF BumpEpoch, gate, GateTypes, counters,
         CounterTypes, locals, ClientTypes, observer, history, ObserverTypes
  <1>9. CASE Open(t)
    <2>1. GateTypes' /\ MoverTypes' /\ IndexOK'
      BY <1>9, <1>0 DEF Open, MoverDone, GateTypes, MoverTypes, MoverPCs, IndexOK
    <2> QED
      BY <1>9, <2>1, CountUnchanged DEF Open, counters, CounterTypes, tallies,
         requests, TallyTypes, locals, ClientTypes, observer, history, ObserverTypes
  <1> QED
    BY <1>1, <1>2, <1>3, <1>4, <1>5, <1>6, <1>7, <1>8, <1>9 DEF MoverStep

(* control_loop(), the detector callback and the handoff thread's own      *)
(* steps preserve the types.                                               *)
LEMMA TypeControl ==
  ASSUME TypeInv,
         \/ ControlTop \/ ObserveStrict \/ RequestDanger \/ LoadEpoch
         \/ PublishSnapshot \/ Decide \/ OnHot
  PROVE  TypeInv'
  <1> USE DEF TypeInv, TypeOK, MoverAt, MoveTo
  <1>0. Movers = {"control", "handoff"} /\ Shards \in Nat /\ Shards > 0
    BY ShardsAssumption DEF Movers
  <1>1. CountOK' /\ GateTypes' /\ CounterTypes' /\ ClientTypes'
    BY CountUnchanged DEF ControlTop, ObserveStrict, RequestDanger, LoadEpoch,
       PublishSnapshot, Decide, OnHot, gate, GateTypes, counters, CounterTypes,
       locals, ClientTypes
  <1>2. MoverTypes'
    BY <1>0 DEF ControlTop, ObserveStrict, RequestDanger, LoadEpoch,
       PublishSnapshot, Decide, OnHot, MoverDone, movers, MoverTypes, MoverPCs,
       CounterTypes
  <1>3. IndexOK'
    BY <1>0 DEF ControlTop, ObserveStrict, RequestDanger, LoadEpoch,
       PublishSnapshot, Decide, OnHot, MoverDone, movers, MoverTypes, IndexOK
  <1>4. TallyTypes'
    BY DEF ControlTop, ObserveStrict, RequestDanger, LoadEpoch, PublishSnapshot,
       Decide, OnHot, tallies, requests, TallyTypes
  <1>5. ObserverTypes'
    BY <1>0 DEF ControlTop, ObserveStrict, RequestDanger, LoadEpoch, PublishSnapshot,
       Decide, OnHot, observer, history, ObserverTypes, CounterTypes, TallyTypes,
       MoverTypes
  <1> QED
    BY <1>1, <1>2, <1>3, <1>4, <1>5

LEMMA TypeHandoff ==
  ASSUME TypeInv,
         \/ BeginHandoff \/ AbortHandoff \/ ExhaustOnCommit
         \/ \E g \in 0..Limit : CommitHandoff(g)
         \/ DrainStoreBuffer
  PROVE  TypeInv'
  <1> USE DEF TypeInv, TypeOK, MoverAt, MoveTo
  <1>0. Movers = {"control", "handoff"} /\ Shards \in Nat /\ Shards > 0 /\ Limit \in Nat
    BY ShardsAssumption, AmountsAssumption DEF Movers
  <1>1. CountOK' /\ GateTypes' /\ CounterTypes' /\ ClientTypes'
    BY CountUnchanged DEF BeginHandoff, AbortHandoff, ExhaustOnCommit, CommitHandoff,
       DrainStoreBuffer, gate, GateTypes, counters, CounterTypes, locals, ClientTypes
  <1>2. MoverTypes' /\ IndexOK'
    BY <1>0 DEF BeginHandoff, AbortHandoff, ExhaustOnCommit, CommitHandoff,
       DrainStoreBuffer, MoverDone, movers, MoverTypes, MoverPCs, IndexOK
  <1>3. TallyTypes'
    BY DEF BeginHandoff, AbortHandoff, ExhaustOnCommit, CommitHandoff,
       DrainStoreBuffer, tallies, requests, TallyTypes
  <1>4. foreign' \in Nat
    BY <1>0 DEF BeginHandoff, AbortHandoff, ExhaustOnCommit, CommitHandoff,
       DrainStoreBuffer, history, ObserverTypes, MoverTypes
  <1>5. ObserverTypes'
    BY <1>4 DEF BeginHandoff, AbortHandoff, ExhaustOnCommit, CommitHandoff,
       DrainStoreBuffer, observer, history, ObserverTypes
  <1> QED
    BY <1>1, <1>2, <1>3, <1>5

(* Every step of every thread preserves the typing invariant. *)
LEMMA TypeStep == TypeInv /\ [Next]_vars => TypeInv'
  <1> SUFFICES ASSUME TypeInv, [Next]_vars PROVE TypeInv'
    OBVIOUS
  <1>1. CASE UNCHANGED vars
    BY <1>1, CountUnchanged DEF vars, gate, counters, tallies, requests, locals,
       movers, observer, history, TypeInv, TypeOK, GateTypes, CounterTypes,
       TallyTypes, ClientTypes, MoverTypes, ObserverTypes, IndexOK
  <1>2. CASE Next
    <2>1. ASSUME NEW c \in Clients, ClientStep(c) PROVE TypeInv'
      BY <2>1, TypeClient
    <2>2. ASSUME NEW c \in Clients, NEW d \in Deltas, NEW s \in ShardIds, Apply(c, d, s)
          PROVE  TypeInv'
      BY <2>2, TypeApply
    <2>3. ASSUME ControlStep PROVE TypeInv'
      BY <2>3, TypeControl, TypeMover DEF ControlStep, Movers
    <2>4. ASSUME HandoffStep PROVE TypeInv'
      BY <2>4, TypeHandoff, TypeMover DEF HandoffStep, Movers
    <2> QED
      BY <1>2, <2>1, <2>2, <2>3, <2>4, TypeControl, TypeHandoff DEF Next
  <1> QED
    BY <1>1, <1>2

(* Type correctness of the engine on any machine: in particular no shard   *)
(* passes its reserve and the strict word never passes the limit, for any  *)
(* number of racing clients.                                               *)
THEOREM TypeCorrect == Spec => []TypeOK
  <1>1. TypeInv => TypeOK
    BY DEF TypeInv
  <1> QED
    BY TypeInit, TypeStep, <1>1, PTL DEF Spec

-----------------------------------------------------------------------------
(* The quiescent point.  GateInvariant is the inductive strengthening: the *)
(* gate's count is exact, so a drained() that returns TRUE means that no   *)
(* request is inside; from then on a request that still runs through       *)
(* try_enter() sees the closed gate when it checks again, because only the *)
(* thread that closed the gate can open it.                                *)

(* The parts of GateInvariant apart from the count *)
Ownership ==
    /\ ~close_buffered
    /\ Claimed
    /\ Distributed => mode # "Strict" /\ tpc["control"] \notin Moving
    /\ ~Distributed => tpc["handoff"] = "top"
    /\ \A t \in Movers : tpc[t] \in Holding => ~open
    /\ Quiescent

(* The initial states of both kinds of engine have an open, unowned gate. *)
LEMMA OwnershipInit == Init => Ownership
  BY ModesAssumption DEF ValidModes, Init, Ownership, Claimed, Quiescent, Movers, Moving,
     Holding, Exclusive

(* A call of abort or commit that gets past the flag finds the node         *)
(* prepared.                                                                *)
LEMMA OnlyPrepared ==
  ASSUME Ownership, AbortHandoff \/ \E g \in 0..Limit : CommitHandoff(g)
  PROVE  tpc["handoff"] = "prepared"
  BY DEF Ownership, Claimed, AbortHandoff, CommitHandoff, HandoffInProgress

(* No step of a request opens the gate or moves a mover, and a request is  *)
(* admitted only through a recheck that sees the gate open.                *)
LEMMA OwnershipClient ==
  ASSUME TypeInv, Ownership, NEW c \in Clients,
         ClientStep(c) \/ \E d \in Deltas, s \in ShardIds : Apply(c, d, s)
  PROVE  Ownership'
  <1>1. UNCHANGED <<open, close_buffered, mode, tpc, acc, distributed_handoff_active>>
    BY DEF ClientStep, Apply, TryEnter, Count, Recheck, Leave, LoadMode, LoadCell,
       CompareExchange, Remember, ShardFull, Announce, Tally, PublishLimit,
       gate, counters, requests, movers
  <1>2. pc'[c] \in Admitted => pc[c] \in Admitted \/ open
    BY DEF TypeInv, TypeOK, ClientTypes, ClientStep, Apply, TryEnter, Count, Recheck,
       Leave, Return, LoadMode, LoadCell, CompareExchange, Remember, ShardFull,
       Announce, Tally, PublishLimit, At, GoTo, Admitted
  <1>3. \A b \in Clients \ {c} : pc'[b] = pc[b]
    BY DEF TypeInv, TypeOK, ClientTypes, ClientStep, Apply, TryEnter, Count, Recheck,
       Leave, Return, LoadMode, LoadCell, CompareExchange, Remember, ShardFull,
       Announce, Tally, PublishLimit, At, GoTo
  <1>4. Quiescent'
    BY <1>1, <1>2, <1>3 DEF Ownership, Quiescent, Holding
  <1>5. Claimed'
    BY <1>1 DEF Ownership, Claimed
  <1> QED
    BY <1>1, <1>4, <1>5 DEF Ownership

(* A drained gate is empty: this is what the exact count is for. *)
LEMMA DrainedIsEmpty ==
  ASSUME TypeInv, NoneInFlight
  PROVE  \A c \in Clients : pc[c] \notin Admitted
  <1>1. InFlightClients = {}
    BY InFlightFinite, FS_EmptySet DEF TypeInv, CountOK, NoneInFlight
  <1> QED
    BY <1>1 DEF InFlightClients, Admitted

(* How a shared step moves a mover and the gate: along close, drain, the   *)
(* exclusive section and open, or within control_loop's own scan.          *)
LEMMA MoverMoves ==
  ASSUME ~CloseIsBuffered, TypeInv, NEW t \in Movers, MoverStep(t)
  PROVE  /\ \A u \in Movers \ {t} : tpc'[u] = tpc[u]
         /\ \/ tpc[t] = "close" /\ tpc'[t] = "drain" /\ ~open'
            \/ /\ tpc[t] = "drain" /\ NoneInFlight /\ open' = open
               /\ tpc'[t] \in {"collect", "seed_shards", "open"}
            \/ /\ tpc[t] \in Exclusive /\ open' = open
               /\ tpc'[t] \in Exclusive \cup {"open"}
            \/ /\ tpc[t] = "observe" /\ open' = open
               /\ tpc'[t] \in {"observe", "danger"}
            \/ tpc[t] = "open" /\ tpc'[t] = "top"
  <1> USE DEF MoverAt, MoveTo
  <1>0. tpc \in [Movers -> MoverPCs]
    BY DEF TypeInv, TypeOK, MoverTypes
  <1>1. CASE Close(t)
    BY <1>0, <1>1 DEF Close
  <1>2. CASE Drained(t)
    BY <1>0, <1>2 DEF Drained, gate
  <1>3. CASE ReadShard(t)
    <2>1. open' = open
      BY <1>3 DEF ReadShard, gate
    <2>2. \/ tpc' = tpc
          \/ tpc[t] = "observe" /\ tpc' = [tpc EXCEPT ![t] = "danger"]
          \/ tpc[t] # "observe" /\ tpc' = [tpc EXCEPT ![t] = "seed_strict"]
          \/ tpc[t] # "observe" /\ tpc' = [tpc EXCEPT ![t] = "prepared"]
      <3>1. CASE tpc[t] = "observe"
        BY <1>3, <3>1 DEF ReadShard
      <3>2. CASE tpc[t] # "observe" /\ t = "control"
        BY <1>3, <3>2 DEF ReadShard
      <3>3. CASE tpc[t] # "observe" /\ t # "control"
        BY <1>3, <3>3 DEF ReadShard
      <3> QED
        BY <3>1, <3>2, <3>3
    <2>3. tpc[t] \in {"observe", "collect"}
      BY <1>3 DEF ReadShard
    <2> QED
      BY <1>0, <2>1, <2>2, <2>3 DEF Exclusive
  <1>4. CASE SeedShard(t)
    <2>1. open' = open /\ tpc[t] = "seed_shards"
      BY <1>4 DEF SeedShard, gate
    <2>2. tpc' = tpc \/ tpc' = [tpc EXCEPT ![t] = "publish"]
          \/ tpc' = [tpc EXCEPT ![t] = "open"]
      BY <1>4 DEF SeedShard
    <2> QED
      BY <1>0, <2>1, <2>2 DEF Exclusive
  <1>5. CASE SeedStrict(t)
    BY <1>0, <1>5 DEF SeedStrict, gate, Exclusive
  <1>6. CASE PublishMode(t) \/ ResetTally(t)
    BY <1>0, <1>6 DEF PublishMode, ResetTally, gate, Exclusive
  <1>7. CASE BumpEpoch(t)
    BY <1>0, <1>7 DEF BumpEpoch, gate, Exclusive
  <1>8. CASE Open(t)
    BY <1>0, <1>8 DEF Open, MoverDone
  <1> QED
    BY <1>1, <1>2, <1>3, <1>4, <1>5, <1>6, <1>7, <1>8 DEF MoverStep

(* The handoff thread leaves its call with the flag down: the commit's own  *)
(* check of the total means that the seed is never refused.                 *)
LEMMA ClaimedMover ==
  ASSUME TypeInv, Claimed, NEW t \in Movers, MoverStep(t)
  PROVE  Claimed'
  <1> USE DEF MoverAt, MoveTo
  <1>0. /\ Movers = {"control", "handoff"} /\ Limit \in Nat
        /\ tpc \in [Movers -> MoverPCs] /\ acc \in [Movers -> Nat]
    BY AmountsAssumption DEF Movers, TypeInv, TypeOK, MoverTypes
  <1>1. CASE t = "control"
    <2>1. tpc'["handoff"] = tpc["handoff"] /\ acc'["handoff"] = acc["handoff"]
      BY <1>0, <1>1 DEF MoverStep, Close, Drained, ReadShard, SeedShard, SeedStrict,
         PublishMode, ResetTally, BumpEpoch, Open, MoverDone
    <2>2. distributed_handoff_active' = distributed_handoff_active
      BY <1>1 DEF MoverStep, Close, Drained, ReadShard, SeedShard, SeedStrict,
         PublishMode, ResetTally, BumpEpoch, Open, requests
    <2> QED
      BY <2>1, <2>2 DEF Claimed
  <1>2. CASE t = "handoff"
    <2>1. CASE Close(t) \/ PublishMode(t) \/ ResetTally(t)
      BY <1>0, <1>2, <2>1 DEF Close, PublishMode, ResetTally, Claimed
    <2>2. CASE Drained(t)
      BY <1>0, <1>2, <2>2 DEF Drained, ToReserved, Claimed
    <2>3. CASE ReadShard(t)
      <3>1. tpc'[t] \in {"observe", "collect", "danger", "prepared"}
        BY <1>0, <1>2, <2>3 DEF ReadShard
      <3> QED
        BY <1>2, <3>1 DEF Claimed
    <2>4. CASE SeedShard(t)
      BY <1>2, <2>4 DEF SeedShard, Claimed
    <2>5. CASE SeedStrict(t)
      BY <1>0, <1>2, <2>5 DEF SeedStrict, Claimed
    <2>6. CASE BumpEpoch(t)
      <3>1. ~distributed_handoff_active' /\ tpc'[t] \in {"exhaust", "open"}
        BY <1>0, <1>2, <2>6 DEF BumpEpoch
      <3> QED
        BY <1>2, <3>1 DEF Claimed
    <2>7. CASE Open(t)
      <3>1. tpc[t] = "open" /\ tpc'[t] = "top"
            /\ distributed_handoff_active' = distributed_handoff_active
        BY <1>0, <2>7 DEF Open, MoverDone, requests
      <3> QED
        BY <1>2, <3>1 DEF Claimed
    <2> QED
      BY <2>1, <2>2, <2>3, <2>4, <2>5, <2>6, <2>7 DEF MoverStep
  <1> QED
    BY <1>0, <1>1, <1>2

(* A mover that is past close() and not yet past open() keeps the gate     *)
(* shut, and the other mover never owns the gate at the same time.         *)
LEMMA OwnershipMover ==
  ASSUME ~CloseIsBuffered, TypeInv, Ownership, NEW t \in Movers, MoverStep(t)
  PROVE  Ownership'
  <1>0. Movers = {"control", "handoff"}
    BY DEF Movers
  <1>1. close_buffered' = close_buffered /\ pc' = pc
    BY DEF MoverStep, Close, Drained, ReadShard, SeedShard, SeedStrict, PublishMode,
       ResetTally, BumpEpoch, Open, gate
  <1>2. Distributed => mode' # "Strict"
    BY DEF Ownership, MoverStep, Close, Drained, ReadShard, SeedShard, SeedStrict,
       PublishMode, ResetTally, BumpEpoch, Open, counters
  <1>3. /\ Distributed => tpc'["control"] \notin Moving
        /\ ~Distributed => tpc'["handoff"] = "top"
    BY <1>0, MoverMoves DEF Ownership, Moving, Holding, Exclusive
  <1>4. tpc'[t] \in Holding => ~open'
    BY MoverMoves DEF Ownership, Holding, Exclusive
  <1>5. tpc'[t] \in Exclusive => \A c \in Clients : pc'[c] \notin Admitted
    <2>1. CASE NoneInFlight
      BY <1>1, <2>1, DrainedIsEmpty
    <2>2. CASE ~NoneInFlight
      <3>1. tpc'[t] \in Exclusive => tpc[t] \in Exclusive
        BY <2>2, MoverMoves DEF Exclusive
      <3> QED
        BY <1>1, <3>1 DEF Ownership, Quiescent
    <2> QED
      BY <2>1, <2>2
  <1>6. ASSUME NEW u \in Movers \ {t}
        PROVE  /\ tpc'[u] \in Holding => ~open'
               /\ tpc'[u] \in Exclusive => \A c \in Clients : pc'[c] \notin Admitted
    <2>1. tpc'[u] = tpc[u]
      BY MoverMoves
    <2>2. tpc[u] \in Holding => tpc[t] \notin Moving
      BY <1>0 DEF Ownership, Moving, Holding, Exclusive
    <2>3. tpc[u] \in Holding => open' = open
      BY <2>2, MoverMoves DEF Moving, Holding, Exclusive
    <2> QED
      BY <1>1, <2>1, <2>3 DEF Ownership, Quiescent
  <1>7. Quiescent'
    BY <1>5, <1>6 DEF Quiescent
  <1>8. Claimed'
    BY ClaimedMover DEF Ownership
  <1> QED
    BY <1>1, <1>2, <1>3, <1>4, <1>6, <1>7, <1>8 DEF Ownership

(* The control loop takes the gate only in a standalone engine, and the    *)
(* handoff thread only in a cluster node.                                  *)
LEMMA OwnershipRest ==
  ASSUME ~CloseIsBuffered, TypeInv, Ownership,
         \/ ControlTop \/ ObserveStrict \/ RequestDanger \/ LoadEpoch
         \/ PublishSnapshot \/ Decide \/ OnHot
         \/ BeginHandoff \/ AbortHandoff \/ ExhaustOnCommit
         \/ \E g \in 0..Limit : CommitHandoff(g)
         \/ DrainStoreBuffer
  PROVE  Ownership'
  <1> USE DEF MoverAt, MoveTo
  <1>0. Movers = {"control", "handoff"} /\ tpc \in [Movers -> MoverPCs]
        /\ acc \in [Movers -> Nat]
    BY DEF Movers, TypeInv, TypeOK, MoverTypes
  <1>1. UNCHANGED <<close_buffered, open, mode, pc>>
    BY DEF Ownership, ControlTop, ObserveStrict, RequestDanger, LoadEpoch,
       PublishSnapshot, Decide, OnHot, BeginHandoff, AbortHandoff, ExhaustOnCommit,
       CommitHandoff, DrainStoreBuffer, gate, counters
  <1>2. /\ Distributed => tpc'["control"] \notin Moving
        /\ ~Distributed => tpc'["handoff"] = "top"
    BY <1>0, OnlyPrepared DEF Ownership, ControlTop, ObserveStrict, RequestDanger, LoadEpoch,
       PublishSnapshot, Decide, WantsReserved, WantsDanger, MoverDone, OnHot,
       BeginHandoff, AbortHandoff, ExhaustOnCommit, CommitHandoff, DrainStoreBuffer,
       movers, Moving, Holding, Exclusive
  <1>3. \A t \in Movers :
            /\ tpc'[t] \in Holding => tpc[t] \in Holding
            /\ tpc'[t] \in Exclusive => tpc[t] \in Exclusive
    BY <1>0, OnlyPrepared DEF ControlTop, ObserveStrict, RequestDanger, LoadEpoch,
       PublishSnapshot, Decide, MoverDone, OnHot, BeginHandoff, AbortHandoff,
       ExhaustOnCommit, CommitHandoff, DrainStoreBuffer, movers, Holding, Exclusive
  <1>4. Claimed'
    <2>1. CASE \/ ControlTop \/ ObserveStrict \/ RequestDanger \/ LoadEpoch
               \/ PublishSnapshot \/ Decide \/ OnHot \/ DrainStoreBuffer
      <3>1. /\ tpc'["handoff"] = tpc["handoff"] /\ acc'["handoff"] = acc["handoff"]
            /\ distributed_handoff_active' = distributed_handoff_active
        BY <1>0, <2>1 DEF ControlTop, ObserveStrict, RequestDanger, LoadEpoch,
           PublishSnapshot, Decide, MoverDone, OnHot, DrainStoreBuffer, requests, movers
      <3> QED
        BY <3>1 DEF Ownership, Claimed
    <2>2. CASE BeginHandoff
      BY <1>0, <2>2 DEF BeginHandoff, Claimed
    <2>3. CASE AbortHandoff
      <3>1. ~distributed_handoff_active' /\ tpc'["handoff"] \in {"open", "top"}
        BY <1>0, <2>3 DEF AbortHandoff, MoverDone
      <3> QED
        BY <3>1 DEF Claimed
    <2>4. CASE ExhaustOnCommit
      <3>1. tpc["handoff"] = "exhaust" /\ tpc'["handoff"] = "open"
            /\ distributed_handoff_active' = distributed_handoff_active
        BY <1>0, <2>4 DEF ExhaustOnCommit, requests
      <3> QED
        BY <3>1 DEF Ownership, Claimed
    <2>5. CASE \E g \in 0..Limit : CommitHandoff(g)
      <3>1. tpc'["handoff"] = "seed_strict" /\ acc'["handoff"] \in 0..Limit
        BY <1>0, <2>5 DEF CommitHandoff, TypeInv, TypeOK, MoverTypes
      <3> QED
        BY <3>1, AmountsAssumption DEF Claimed
    <2> QED
      BY <2>1, <2>2, <2>3, <2>4, <2>5
  <1> QED
    BY <1>1, <1>2, <1>3, <1>4 DEF Ownership, Quiescent

(* Every step of every thread preserves the ownership of the gate. *)
LEMMA OwnershipStep ==
  ASSUME ~CloseIsBuffered
  PROVE  TypeInv /\ Ownership /\ [Next]_vars => Ownership'
  <1> SUFFICES ASSUME TypeInv, Ownership, [Next]_vars PROVE Ownership'
    OBVIOUS
  <1>1. CASE UNCHANGED vars
    BY <1>1 DEF vars, gate, counters, requests, movers, Ownership, Claimed, Quiescent
  <1>2. CASE Next
    <2>1. ASSUME NEW c \in Clients,
                 ClientStep(c) \/ \E d \in Deltas, s \in ShardIds : Apply(c, d, s)
          PROVE  Ownership'
      BY <2>1, OwnershipClient
    <2>2. ASSUME NEW t \in Movers, MoverStep(t) PROVE Ownership'
      BY <2>2, OwnershipMover
    <2>3. ASSUME ControlStep \/ OnHot \/ HandoffStep \/ DrainStoreBuffer PROVE Ownership'
      BY <2>2, <2>3, OwnershipRest DEF ControlStep, HandoffStep, Movers
    <2> QED
      BY <1>2, <2>1, <2>3 DEF Next
  <1> QED
    BY <1>1, <1>2

(* The inductive invariant that the model checker evaluates as well. *)
THEOREM GateInvariantHolds ==
  ASSUME ~CloseIsBuffered
  PROVE  Spec => []GateInvariant
  <1>1. TypeInv /\ Ownership => GateInvariant
    BY DEF TypeInv, CountOK, Ownership, GateInvariant
  <1> QED
    BY TypeInit, TypeStep, OwnershipInit, OwnershipStep, <1>1, PTL DEF Spec

(* close_and_drain() reaches a quiescent point, for any number of clients, *)
(* wherever close() is ordered before the loads of drained().              *)
THEOREM QuiescentPoint ==
  ASSUME ~CloseIsBuffered
  PROVE  Spec => []Quiescent
  <1>1. GateInvariant => Quiescent
    BY DEF GateInvariant
  <1> QED
    BY GateInvariantHolds, <1>1, PTL
=============================================================================
