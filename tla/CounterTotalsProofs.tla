------------------------ MODULE CounterTotalsProofs ------------------------
(***************************************************************************)
(* No accepted delta is lost or counted twice by a mode transition, for    *)
(* any number of clients and shards and any limit, on a machine that       *)
(* orders close() before the loads of drained().                           *)
(***************************************************************************)
EXTENDS CounterEngineProofs, SumsProofs

(* A request that has loaded the mode works on the counter of that mode:   *)
(* the mode is published only while no request is inside.                  *)
RoutedPCs == {"load", "cas", "remember", "full", "announce", "tally", "publish"}
Routed == \A c \in Clients :
              pc[c] \in RoutedPCs => seen[c] = mode /\ mode # "RemoteStrict"

(* The transition a mover is in, as seen from its place in the code *)
BeforePublish == {"close", "drain", "collect", "seed_shards", "seed_strict",
                  "prepared", "publish"}
MoverModes ==
    /\ tpc["handoff"] \in BeforePublish => mode = "ReservedPeak"
    /\ tpc["control"] \in BeforePublish =>
           mode = ctl_mode /\ ctl_mode \in {"Strict", "ReservedPeak"}
    /\ tpc["control"] \in {"collect", "seed_strict"} => ctl_mode = "ReservedPeak"
    /\ tpc["control"] = "seed_shards" => ctl_mode = "Strict"
    /\ tpc["control"] \notin {"prepared", "exhaust"}
    /\ tpc["handoff"] \notin {"seed_shards", "observe"}
    /\ ~Distributed => foreign = 0

(* What a mover has in hand: the partial sum of the shards it has read, or *)
(* what is left of the strict value to spread over the shards.             *)
InHand ==
    /\ \A t \in Movers : tpc[t] = "collect" => acc[t] = SumTo(used, idx[t])
    /\ tpc["control"] = "seed_shards" =>
           acc["control"] + SumTo(used, idx["control"]) = strict_value
    /\ tpc["control"] = "seed_strict" => acc["control"] = PeakTotal
    /\ tpc["handoff"] = "prepared" => acc["handoff"] = PeakTotal
    /\ tpc["handoff"] = "seed_strict" => acc["handoff"] = PeakTotal + foreign
    /\ \A t \in Movers : tpc[t] = "publish" =>
           IF ToReserved(t) THEN PeakTotal = accepted
           ELSE strict_value = accepted + foreign

Totals == Routed /\ MoverModes /\ InHand /\ ConservesAccepts

(* What the steps below may use *)
Base == TypeInv /\ Ownership

(* The sum over the shards, and every partial sum, is a natural number *)
LEMMA ShardSumType ==
  ASSUME TypeInv, NEW n \in 0..Shards
  PROVE  SumTo(used, n) \in Nat
  <1>1. \A i \in 0..(n - 1) : used[i] \in Nat
    BY ShardsAssumption DEF TypeInv, TypeOK, CounterTypes, ShardIds
  <1> QED
    BY <1>1, ShardsAssumption, SumToNat

(* The initial counters are empty. *)
LEMMA TotalsInit == Init => Totals
  <1> SUFFICES ASSUME Init PROVE Totals
    OBVIOUS
  <1>1. Routed
    BY DEF Init, Routed, RoutedPCs
  <1>2. MoverModes
    BY DEF Init, MoverModes, BeforePublish, Movers
  <1>3. InHand
    BY DEF Init, InHand, Movers
  <1>4. PeakTotal = 0
    BY ShardsAssumption, SumToZeros DEF Init, PeakTotal, ShardIds
  <1>5. ConservesAccepts
    BY <1>4 DEF Init, ConservesAccepts
  <1> QED
    BY <1>1, <1>2, <1>3, <1>5 DEF Totals

(* A step that touches neither the counters nor the movers keeps the parts *)
(* of Totals that do not speak of clients.                                 *)
LEMMA TotalsFrame ==
  ASSUME MoverModes, InHand, ConservesAccepts,
         UNCHANGED <<mode, strict_value, used, accepted, foreign, ctl_mode,
                     tpc, idx, acc>>
  PROVE  MoverModes' /\ InHand' /\ ConservesAccepts'
  BY DEF MoverModes, InHand, ConservesAccepts, PeakTotal, ToReserved

(* While a request is inside the counter code no mover is between its      *)
(* drain and its open(), so InHand says nothing then.                      *)
LEMMA InHandIdle ==
  ASSUME \A t \in Movers : tpc[t] \notin Exclusive
  PROVE  InHand
  BY DEF InHand, Exclusive, Movers

(* The compare-exchange adds the delta to the counter of the current mode. *)
LEMMA TotalsExchange ==
  ASSUME Base, Totals, NEW c \in Clients, CompareExchange(c)
  PROVE  MoverModes' /\ InHand' /\ ConservesAccepts'
  <1> USE DEF Base, TypeInv, TypeOK
  <1>1. pc[c] = "cas"
    BY DEF CompareExchange, At
  <1>2. seen[c] = mode /\ mode # "RemoteStrict"
    BY <1>1 DEF Totals, Routed, RoutedPCs
  <1>3. \A t \in Movers : tpc[t] \notin Exclusive
    BY <1>1 DEF Ownership, Quiescent, Admitted
  <1>4. UNCHANGED <<mode, tpc, idx, acc, ctl_mode, foreign>>
    BY DEF CompareExchange, movers, observer
  <1>5. InHand'
    BY <1>3, <1>4, InHandIdle DEF InHand, Exclusive, Movers
  <1>6. MoverModes'
    BY <1>4 DEF Totals, MoverModes
  <1>7. ConservesAccepts'
    <2>1. CASE UNCHANGED <<used, strict_value, accepted>>
      BY <1>4, <2>1 DEF Totals, ConservesAccepts, PeakTotal
    <2>2. CASE ~UNCHANGED <<used, strict_value, accepted>>
      <3>1. /\ CellUnchanged(c) /\ accepted' = accepted + delta[c]
            /\ IF seen[c] = "ReservedPeak"
               THEN used' = [used EXCEPT ![shard[c]] = current[c] + delta[c]]
               ELSE strict_value' = current[c] + delta[c]
        BY <2>2 DEF CompareExchange
      <3>2. /\ delta[c] \in Nat /\ current[c] \in Nat /\ shard[c] \in ShardIds
            /\ accepted \in Nat /\ foreign \in Nat /\ strict_value \in Nat
            /\ used \in [ShardIds -> Nat]
        BY DEF ClientTypes, ObserverTypes, CounterTypes
      <3>3. CASE mode = "ReservedPeak"
        <4>1. /\ used[shard[c]] = current[c]
              /\ used' = [used EXCEPT ![shard[c]] = current[c] + delta[c]]
          BY <1>2, <3>1, <3>3 DEF CellUnchanged, Cell
        <4>2. used'[shard[c]] = current[c] + delta[c]
          BY <3>2, <4>1
        <4>3. \A i \in 0..(Shards - 1) :
                 used[i] \in Int /\ (i # shard[c] => used'[i] = used[i])
          BY <3>2, <4>1 DEF ShardIds
        <4>4. shard[c] \in 0..(Shards - 1) /\ used'[shard[c]] \in Int /\ Shards \in Nat
          BY <3>2, <4>2, ShardsAssumption DEF ShardIds
        <4>5. SumTo(used', Shards) = SumTo(used, Shards) + (used'[shard[c]] - used[shard[c]])
          BY <4>3, <4>4, SumToChange
        <4>6. PeakTotal' = PeakTotal + delta[c]
          <5>1. SumTo(used, Shards) \in Nat
            BY ShardSumType, ShardsAssumption
          <5> QED
            BY <3>2, <4>1, <4>2, <4>5, <5>1 DEF PeakTotal
        <4> QED
          BY <1>4, <3>1, <3>3, <4>6 DEF Totals, ConservesAccepts
      <3>4. CASE mode # "ReservedPeak"
        <4>1. strict_value = current[c] /\ strict_value' = current[c] + delta[c]
          BY <1>2, <3>1, <3>4 DEF CellUnchanged, Cell
        <4> QED
          BY <1>4, <3>1, <3>2, <3>4, <4>1 DEF Totals, ConservesAccepts
      <3> QED
        BY <3>3, <3>4
    <2> QED
      BY <2>1, <2>2
  <1> QED
    BY <1>5, <1>6, <1>7

(* No step of a request changes the mode, and one that loads it goes on    *)
(* with the current mode.                                                  *)
LEMMA RoutedClient ==
  ASSUME Base, Totals, NEW c \in Clients,
         ClientStep(c) \/ \E d \in Deltas, s \in ShardIds : Apply(c, d, s)
  PROVE  Routed'
  <1>1. UNCHANGED mode
    BY DEF ClientStep, Apply, TryEnter, Count, Recheck, Leave, LoadMode, LoadCell,
       CompareExchange, Remember, ShardFull, Announce, Tally, PublishLimit, counters
  <1>2. \A b \in Clients \ {c} : pc'[b] = pc[b] /\ seen'[b] = seen[b]
    BY DEF Base, TypeInv, TypeOK, ClientTypes, ClientStep, Apply, TryEnter, Count,
       Recheck, Leave, Return, LoadMode, LoadCell, CompareExchange, Remember,
       ShardFull, Announce, Tally, PublishLimit, At, GoTo, locals
  <1>3. pc'[c] \in RoutedPCs => seen'[c] = mode /\ mode # "RemoteStrict"
    <2> USE DEF Base, TypeInv, TypeOK, ClientTypes, Totals, Routed, RoutedPCs, At,
            GoTo, locals
    <2>1. CASE LoadMode(c)
      BY <2>1 DEF LoadMode
    <2>2. CASE TryEnter(c) \/ Count(c) \/ Recheck(c) \/ Leave(c)
      BY <2>2 DEF TryEnter, Count, Recheck, Leave, Return
    <2>3. CASE LoadCell(c) \/ CompareExchange(c) \/ Remember(c)
      BY <2>3 DEF LoadCell, CompareExchange, Remember
    <2>4. CASE ShardFull(c) \/ Announce(c) \/ Tally(c) \/ PublishLimit(c)
      BY <2>4 DEF ShardFull, Announce, Tally, PublishLimit
    <2>5. CASE \E d \in Deltas, s \in ShardIds : Apply(c, d, s)
      BY <2>5 DEF Apply
    <2> QED
      BY <2>1, <2>2, <2>3, <2>4, <2>5 DEF ClientStep
  <1> QED
    BY <1>1, <1>2, <1>3 DEF Totals, Routed

(* Every step of a request preserves the totals. *)
LEMMA TotalsClient ==
  ASSUME Base, Totals, NEW c \in Clients,
         ClientStep(c) \/ \E d \in Deltas, s \in ShardIds : Apply(c, d, s)
  PROVE  Totals'
  <1>1. CASE CompareExchange(c)
    BY <1>1, TotalsExchange, RoutedClient DEF Totals
  <1>2. CASE ~CompareExchange(c)
    <2>1. UNCHANGED <<mode, strict_value, used, accepted, foreign, ctl_mode,
                      tpc, idx, acc>>
      BY <1>2 DEF ClientStep, Apply, TryEnter, Count, Recheck, Leave, LoadMode,
         LoadCell, Remember, ShardFull, Announce, Tally, PublishLimit, counters,
         movers, observer, history
    <2> QED
      BY <2>1, TotalsFrame, RoutedClient DEF Totals
  <1> QED
    BY <1>1, <1>2

(* In an exclusive section nobody is between loading the mode and leaving. *)
LEMMA NobodyRouted ==
  ASSUME Base, NEW t \in Movers, tpc[t] \in Exclusive
  PROVE  \A c \in Clients : pc[c] \notin RoutedPCs
  BY DEF Base, Ownership, Quiescent, Admitted, RoutedPCs

(* ReservedCounter::total() after a drain: one more shard in the sum. *)
LEMMA TotalsRead ==
  ASSUME Base, Totals, NEW t \in Movers, ReadShard(t)
  PROVE  Totals'
  <1> USE DEF Base, TypeInv, TypeOK, MoverAt, MoveTo
  <1>0. Movers = {"control", "handoff"} /\ Shards \in Nat \ {0}
        /\ tpc \in [Movers -> MoverPCs] /\ idx \in [Movers -> Nat]
        /\ acc \in [Movers -> Nat]
    BY ShardsAssumption DEF Movers, MoverTypes
  <1>1. UNCHANGED <<pc, seen, mode, strict_value, used, accepted, foreign, ctl_mode>>
    BY DEF ReadShard, counters, locals, observer, history
  <1>2. Routed' /\ ConservesAccepts'
    BY <1>1 DEF Totals, Routed, ConservesAccepts, PeakTotal
  <1>3. \A u \in Movers \ {t} : tpc'[u] = tpc[u] /\ acc'[u] = acc[u] /\ idx'[u] = idx[u]
    BY <1>0 DEF ReadShard
  <1>4. /\ tpc[t] \in {"observe", "collect"}
        /\ idx[t] < Shards
        /\ acc'[t] = acc[t] + used[idx[t]] /\ idx'[t] = idx[t] + 1
    BY <1>0 DEF ReadShard, IndexOK
  <1>5. \/ tpc'[t] = tpc[t] /\ idx[t] + 1 < Shards
        \/ tpc[t] = "observe" /\ tpc'[t] = "danger"
        \/ /\ tpc[t] = "collect" /\ idx[t] + 1 = Shards
           /\ \/ t = "control" /\ tpc'[t] = "seed_strict"
              \/ t = "handoff" /\ tpc'[t] = "prepared"
    <2>1. CASE idx[t] + 1 < Shards
      BY <2>1 DEF ReadShard
    <2>2. CASE ~(idx[t] + 1 < Shards) /\ tpc[t] = "observe"
      BY <1>0, <2>2 DEF ReadShard
    <2>3. CASE ~(idx[t] + 1 < Shards) /\ tpc[t] = "collect" /\ t = "control"
      BY <1>0, <1>4, <2>3 DEF ReadShard
    <2>4. CASE ~(idx[t] + 1 < Shards) /\ tpc[t] = "collect" /\ t = "handoff"
      BY <1>0, <1>4, <2>4 DEF ReadShard
    <2> QED
      BY <1>0, <1>4, <2>1, <2>2, <2>3, <2>4
  <1>6. MoverModes'
    BY <1>0, <1>1, <1>3, <1>5 DEF Totals, MoverModes, BeforePublish
  <1>7. SumTo(used, idx[t] + 1) = SumTo(used, idx[t]) + used[idx[t]]
    BY <1>0, SumToNext
  <1>8. tpc[t] = "collect" => acc'[t] = SumTo(used, idx'[t])
    BY <1>4, <1>7 DEF Totals, InHand
  <1>9. InHand'
    BY <1>0, <1>1, <1>3, <1>4, <1>5, <1>8 DEF Totals, InHand, PeakTotal, ToReserved
  <1> QED
    BY <1>2, <1>6, <1>9 DEF Totals

(* seed_total_after_quiescence(): what one shard takes is taken off the    *)
(* rest, and a seed that ends with nothing left has placed everything.     *)
LEMMA TotalsSeedShard ==
  ASSUME Base, Totals, NEW t \in Movers, SeedShard(t)
  PROVE  Totals'
  <1> USE DEF Base, TypeInv, TypeOK, MoverAt, MoveTo
  <1>0. Movers = {"control", "handoff"} /\ Shards \in Nat \ {0}
        /\ tpc \in [Movers -> MoverPCs] /\ idx \in [Movers -> Nat]
        /\ acc \in [Movers -> Nat]
    BY ShardsAssumption DEF Movers, MoverTypes
  <1>1. UNCHANGED <<pc, seen, mode, strict_value, accepted, foreign, ctl_mode>>
    BY DEF SeedShard, locals, observer, history
  <1>2. tpc[t] = "seed_shards"
    BY DEF SeedShard
  <1>3. t = "control" /\ mode = "Strict" /\ ctl_mode = "Strict" /\ foreign = 0
        /\ tpc["handoff"] = "top"
    BY <1>0, <1>2 DEF Totals, MoverModes, BeforePublish, Ownership, Moving, Holding, Exclusive
  <1>4. Routed' /\ ConservesAccepts'
    BY <1>1, <1>3 DEF Totals, Routed, ConservesAccepts
  <1> DEFINE i == idx[t]
             assigned == IF acc[t] < Reserve(i) THEN acc[t] ELSE Reserve(i)
  <1>5. /\ used' = [used EXCEPT ![i] = assigned]
        /\ acc' = [acc EXCEPT ![t] = @ - assigned]
        /\ idx' = [idx EXCEPT ![t] = i + 1]
        /\ IF i + 1 < Shards THEN tpc' = tpc
           ELSE tpc' = [tpc EXCEPT ![t] = IF acc[t] = assigned THEN "publish" ELSE "open"]
    BY DEF SeedShard
  <1>6. i \in ShardIds /\ i \in Nat /\ i < Shards
    BY <1>0, <1>2 DEF IndexOK, ShardIds
  <1>7. assigned \in Nat /\ assigned <= acc[t] /\ acc[t] \in Nat
    BY <1>0, <1>6, ReserveType
  <1> HIDE DEF i, assigned
  <1>8. used'[i] = assigned /\ \A j \in 0..(i - 1) : used'[j] = used[j]
    BY <1>5, <1>6 DEF CounterTypes, ShardIds
  <1>9. SumTo(used', i + 1) = SumTo(used, i) + assigned
    <2>1. SumTo(used', i) = SumTo(used, i)
      BY <1>6, <1>8, SumToEqual
    <2>2. SumTo(used', i + 1) = SumTo(used', i) + used'[i]
      BY <1>6, SumToNext
    <2> QED
      BY <1>8, <2>1, <2>2
  <1>10. SumTo(used, i) \in Nat
    BY <1>0, <1>6, ShardSumType
  <1>11. acc[t] + SumTo(used, i) = strict_value
    BY <1>2, <1>3 DEF Totals, InHand, i
  <1>12. acc'[t] + SumTo(used', idx'[t]) = strict_value /\ acc'[t] = acc[t] - assigned
    BY <1>0, <1>5, <1>7, <1>9, <1>10, <1>11
  <1>13. MoverModes'
    BY <1>0, <1>1, <1>3, <1>5 DEF Totals, MoverModes, BeforePublish
  <1>14. tpc'[t] = "publish" => PeakTotal' = accepted
    <2>1. SUFFICES ASSUME tpc'[t] = "publish" PROVE PeakTotal' = accepted
      OBVIOUS
    <2>2. idx'[t] = Shards /\ acc[t] = assigned
      BY <1>0, <1>2, <1>5, <1>6, <2>1
    <2>3. strict_value = accepted
      BY <1>3 DEF Totals, ConservesAccepts, ObserverTypes
    <2> QED
      BY <1>7, <1>9, <1>10, <1>11, <2>2, <2>3, <1>0, <1>5 DEF PeakTotal
  <1>15. tpc'["handoff"] = "top" /\ tpc'["control"] \in {"seed_shards", "publish", "open"}
    BY <1>0, <1>2, <1>3, <1>5
  <1>16. InHand'
    BY <1>0, <1>1, <1>3, <1>12, <1>14, <1>15 DEF InHand, ToReserved
  <1> QED
    BY <1>4, <1>13, <1>16 DEF Totals

(* routing_.publish(): the counter of the new mode holds the total. *)
LEMMA TotalsPublish ==
  ASSUME Base, Totals, NEW t \in Movers, PublishMode(t)
  PROVE  Totals'
  <1> USE DEF Base, TypeInv, TypeOK, MoverAt, MoveTo
  <1>0. Movers = {"control", "handoff"} /\ tpc \in [Movers -> MoverPCs]
    BY DEF Movers, MoverTypes
  <1>1. /\ UNCHANGED <<pc, seen, strict_value, used, accepted, foreign, ctl_mode, idx, acc>>
        /\ tpc[t] = "publish" /\ tpc' = [tpc EXCEPT ![t] = "reset"]
        /\ mode' = IF ToReserved(t) THEN "ReservedPeak"
                   ELSE IF strict_owner THEN "DangerStrict" ELSE "RemoteStrict"
    BY DEF PublishMode, counters, locals, observer, history
  <1>2. \A u \in Movers \ {t} : tpc[u] \notin Moving
    BY <1>0, <1>1 DEF Ownership, Moving, Holding, Exclusive
  <1>3. Routed'
    BY <1>1, NobodyRouted DEF Routed, Exclusive
  <1>4. MoverModes'
    BY <1>0, <1>1, <1>2 DEF Totals, MoverModes, BeforePublish, Moving, Holding, Exclusive
  <1>5. InHand'
    BY <1>0, <1>1, <1>2 DEF InHand, Moving, Holding, Exclusive
  <1>6. ConservesAccepts'
    BY <1>1 DEF Totals, InHand, ConservesAccepts, PeakTotal
  <1> QED
    BY <1>3, <1>4, <1>5, <1>6 DEF Totals

(* The other shared steps of the movers. *)
LEMMA TotalsMover ==
  ASSUME ~CloseIsBuffered, Base, Totals, NEW t \in Movers, MoverStep(t)
  PROVE  Totals'
  <1> USE DEF Base, TypeInv, TypeOK, MoverAt, MoveTo
  <1>0. Movers = {"control", "handoff"} /\ tpc \in [Movers -> MoverPCs]
        /\ idx \in [Movers -> Nat] /\ acc \in [Movers -> Nat] /\ Shards \in Nat \ {0}
    BY ShardsAssumption DEF Movers, MoverTypes
  <1>1. CASE Close(t)
    <2>1. UNCHANGED <<pc, seen, mode, strict_value, used, accepted, foreign, ctl_mode, idx, acc>>
      BY <1>1 DEF Close, counters, locals, observer, history
    <2>2. MoverModes' /\ InHand'
      BY <1>0, <1>1, <2>1 DEF Close, Totals, MoverModes, BeforePublish, InHand,
         PeakTotal, ToReserved
    <2> QED
      BY <2>1, <2>2 DEF Totals, Routed, ConservesAccepts, PeakTotal
  <1>2. CASE Drained(t)
    <2>1. UNCHANGED <<pc, seen, mode, strict_value, used, accepted, foreign, ctl_mode>>
      BY <1>2 DEF Drained, counters, locals, observer, history
    <2>2. MoverModes'
      BY <1>0, <1>2, <2>1 DEF Drained, Totals, MoverModes, BeforePublish, ToReserved
    <2>3. /\ \A u \in Movers \ {t} : tpc'[u] = tpc[u] /\ acc'[u] = acc[u] /\ idx'[u] = idx[u]
          /\ tpc'[t] = "collect" => idx'[t] = 0 /\ acc'[t] = 0
          /\ tpc'[t] = "seed_shards" => t = "control" /\ idx'[t] = 0 /\ acc'[t] = strict_value
          /\ tpc'[t] \in {"collect", "seed_shards", "open"}
      BY <1>0, <1>2 DEF Drained, ToReserved
    <2>4. SumTo(used, 0) = 0
      BY SumToZero
    <2>5. InHand'
      BY <1>0, <2>1, <2>3, <2>4 DEF Totals, InHand, PeakTotal, ToReserved, CounterTypes
    <2> QED
      BY <2>1, <2>2, <2>5 DEF Totals, Routed, ConservesAccepts, PeakTotal
  <1>3. CASE SeedStrict(t)
    <2>1. UNCHANGED <<pc, seen, mode, used, accepted, foreign, ctl_mode, idx, acc>>
          /\ tpc[t] = "seed_strict"
      BY <1>3 DEF SeedStrict, locals, observer, history
    <2>2. mode = "ReservedPeak" /\ ~ToReserved(t)
      BY <1>0, <2>1 DEF Totals, MoverModes, BeforePublish, ToReserved
    <2>3. acc[t] = accepted + foreign
      BY <1>0, <2>1, <2>2 DEF Totals, MoverModes, InHand, ConservesAccepts, Ownership,
         Moving, Holding, Exclusive, ObserverTypes
    <2>4. \/ tpc' = [tpc EXCEPT ![t] = "open"]
          \/ tpc' = [tpc EXCEPT ![t] = "publish"] /\ strict_value' = acc[t]
      BY <1>3 DEF SeedStrict
    <2>5. \A u \in Movers \ {t} : tpc[u] \notin Moving
      BY <1>0, <2>1 DEF Ownership, Moving, Holding, Exclusive
    <2>6. MoverModes'
      BY <1>0, <2>1, <2>4 DEF Totals, MoverModes, BeforePublish
    <2>7. InHand'
      BY <1>0, <2>1, <2>2, <2>3, <2>4, <2>5 DEF InHand, ToReserved, Moving, Holding, Exclusive
    <2> QED
      BY <2>1, <2>2, <2>6, <2>7 DEF Totals, Routed, ConservesAccepts, PeakTotal
  <1>4. CASE ResetTally(t) \/ BumpEpoch(t) \/ Open(t)
    <2>1. UNCHANGED <<pc, seen, mode, strict_value, used, accepted, foreign, ctl_mode>>
      BY <1>4 DEF ResetTally, BumpEpoch, Open, counters, locals, observer, history
    <2>2. /\ \A u \in Movers \ {t} : tpc'[u] = tpc[u] /\ acc'[u] = acc[u] /\ idx'[u] = idx[u]
          /\ tpc'[t] \in {"epoch_bump", "exhaust", "open", "top"}
          /\ tpc'[t] = "exhaust" => t = "handoff"
      BY <1>0, <1>4 DEF ResetTally, BumpEpoch, Open, MoverDone
    <2>3. MoverModes'
      BY <1>0, <2>1, <2>2 DEF Totals, MoverModes, BeforePublish
    <2>4. InHand'
      BY <1>0, <2>1, <2>2 DEF Totals, InHand, PeakTotal, ToReserved
    <2> QED
      BY <2>1, <2>3, <2>4 DEF Totals, Routed, ConservesAccepts, PeakTotal
  <1> QED
    BY <1>1, <1>2, <1>3, <1>4, TotalsRead, TotalsSeedShard, TotalsPublish DEF MoverStep

(* control_loop's own steps take the gate only for the mode they read, and *)
(* commit_distributed_handoff() splits the global total into this node's   *)
(* exact share and the others'.                                            *)
LEMMA TotalsRest ==
  ASSUME Base, Totals,
         \/ ControlTop \/ ObserveStrict \/ RequestDanger \/ LoadEpoch
         \/ PublishSnapshot \/ Decide \/ OnHot
         \/ BeginHandoff \/ AbortHandoff \/ ExhaustOnCommit
         \/ \E g \in 0..Limit : CommitHandoff(g)
         \/ DrainStoreBuffer
  PROVE  Totals'
  <1> USE DEF Base, TypeInv, TypeOK, MoverAt, MoveTo
  <1>0. Movers = {"control", "handoff"} /\ tpc \in [Movers -> MoverPCs]
        /\ idx \in [Movers -> Nat] /\ acc \in [Movers -> Nat]
    BY DEF Movers, MoverTypes
  <1>1. UNCHANGED <<pc, seen, mode, strict_value, used, accepted>>
    BY DEF ControlTop, ObserveStrict, RequestDanger, LoadEpoch, PublishSnapshot,
       Decide, OnHot, BeginHandoff, AbortHandoff, ExhaustOnCommit, CommitHandoff,
       DrainStoreBuffer, counters, locals, history
  <1>2. Routed'
    BY <1>1 DEF Totals, Routed
  <1>3. CASE \/ ControlTop \/ ObserveStrict \/ RequestDanger \/ LoadEpoch
             \/ PublishSnapshot \/ Decide
    <2>1. /\ foreign' = foreign
          /\ tpc'["handoff"] = tpc["handoff"] /\ acc'["handoff"] = acc["handoff"]
          /\ idx'["handoff"] = idx["handoff"]
          /\ tpc'["control"] \in {"observe", "value", "danger", "epoch", "snapshot",
                                  "decide", "close", "top"}
          /\ tpc'["control"] = "close" =>
                 ctl_mode' = mode /\ mode \in {"Strict", "ReservedPeak"}
      BY <1>0, <1>3 DEF ControlTop, ObserveStrict, RequestDanger, LoadEpoch,
         PublishSnapshot, Decide, WantsReserved, WantsDanger, MoverDone, history, observer
    <2>2. MoverModes'
      BY <1>1, <2>1 DEF Totals, MoverModes, BeforePublish
    <2>3. InHand'
      BY <1>0, <1>1, <2>1 DEF Totals, InHand, PeakTotal, ToReserved
    <2> QED
      BY <1>1, <1>2, <2>1, <2>2, <2>3 DEF Totals, ConservesAccepts, PeakTotal
  <1>4. CASE OnHot \/ DrainStoreBuffer
    <2>1. UNCHANGED <<foreign, ctl_mode, tpc, idx, acc>>
      BY <1>4 DEF OnHot, DrainStoreBuffer, movers, observer, history
    <2> QED
      BY <1>1, <1>2, <2>1, TotalsFrame DEF Totals
  <1>5. CASE BeginHandoff \/ AbortHandoff \/ ExhaustOnCommit
    <2>1. /\ UNCHANGED <<foreign, ctl_mode>>
          /\ tpc'["control"] = tpc["control"] /\ acc'["control"] = acc["control"]
          /\ idx'["control"] = idx["control"]
          /\ tpc'["handoff"] \in {"close", "open", "top"}
          /\ tpc'["handoff"] = "close" => mode = "ReservedPeak"
      BY <1>0, <1>5 DEF BeginHandoff, AbortHandoff, ExhaustOnCommit, MoverDone,
         history, observer
    <2>2. MoverModes'
      BY <1>1, <2>1 DEF Totals, MoverModes, BeforePublish
    <2>3. InHand'
      BY <1>0, <1>1, <2>1 DEF Totals, InHand, PeakTotal, ToReserved
    <2> QED
      BY <1>1, <1>2, <2>1, <2>2, <2>3 DEF Totals, ConservesAccepts, PeakTotal
  <1>6. ASSUME NEW g \in 0..Limit, CommitHandoff(g) PROVE Totals'
    <2>1. /\ tpc[ "handoff"] = "prepared" /\ mode = "ReservedPeak"
          /\ g \in acc["handoff"]..Limit /\ foreign' = g - acc["handoff"]
          /\ acc' = [acc EXCEPT !["handoff"] = g]
          /\ tpc' = [tpc EXCEPT !["handoff"] = "seed_strict"]
          /\ UNCHANGED <<idx, ctl_mode>>
      BY <1>6, OnlyPrepared DEF CommitHandoff, observer
    <2>2. Distributed /\ tpc["control"] \notin Moving
      BY <1>0, <2>1 DEF Ownership
    <2>3. MoverModes'
      BY <1>0, <1>1, <2>1, <2>2 DEF Totals, MoverModes, BeforePublish
    <2>4. acc["handoff"] = PeakTotal /\ acc["handoff"] \in Nat /\ g \in Nat
      BY <1>0, <2>1, AmountsAssumption DEF Totals, InHand
    <2>5. g = PeakTotal + foreign'
      BY <2>1, <2>4
    <2>6. InHand'
      BY <1>0, <1>1, <2>1, <2>2, <2>5 DEF InHand, PeakTotal, ToReserved, Moving,
         Holding, Exclusive
    <2> QED
      BY <1>1, <1>2, <2>1, <2>3, <2>6 DEF Totals, ConservesAccepts, PeakTotal
  <1> QED
    BY <1>3, <1>4, <1>5, <1>6

(* Every step of every thread preserves the totals. *)
LEMMA TotalsStep ==
  ASSUME ~CloseIsBuffered
  PROVE  Base /\ Totals /\ [Next]_vars => Totals'
  <1> SUFFICES ASSUME Base, Totals, [Next]_vars PROVE Totals'
    OBVIOUS
  <1>1. CASE UNCHANGED vars
    BY <1>1, TotalsFrame DEF vars, counters, locals, movers, observer, history,
       Totals, Routed
  <1>2. CASE Next
    <2>1. ASSUME NEW c \in Clients,
                 ClientStep(c) \/ \E d \in Deltas, s \in ShardIds : Apply(c, d, s)
          PROVE  Totals'
      BY <2>1, TotalsClient
    <2>2. ASSUME NEW t \in Movers, MoverStep(t) PROVE Totals'
      BY <2>2, TotalsMover
    <2>3. ASSUME ControlStep \/ OnHot \/ HandoffStep \/ DrainStoreBuffer PROVE Totals'
      BY <2>2, <2>3, TotalsRest DEF ControlStep, HandoffStep, Movers
    <2> QED
      BY <1>2, <2>1, <2>3 DEF Next
  <1> QED
    BY <1>1, <1>2

(* The invariant all of this module's theorems rest on *)
LEMMA TotalsInvariant ==
  ASSUME ~CloseIsBuffered
  PROVE  Spec => [](Base /\ Totals)
  <1>1. Init => Base /\ Totals
    BY TypeInit, OwnershipInit, TotalsInit DEF Base
  <1>2. Base /\ Totals /\ [Next]_vars => (Base /\ Totals)'
    BY TypeStep, OwnershipStep, TotalsStep DEF Base
  <1> QED
    BY <1>1, <1>2, PTL DEF Spec

(* No accepted delta is lost or counted twice by a mode transition: in peak *)
(* mode the shards hold exactly what was accepted, in every other mode the  *)
(* strict word does, with what the other components handed over.            *)
THEOREM AcceptsConserved ==
  ASSUME ~CloseIsBuffered
  PROVE  Spec => []ConservesAccepts
  <1>1. Totals => ConservesAccepts
    BY DEF Totals
  <1> QED
    BY TotalsInvariant, <1>1, PTL

(* begin_distributed_handoff() returns an exact component total, for as     *)
(* long as the node stays prepared.                                         *)
THEOREM PreparedTotalExact ==
  ASSUME ~CloseIsBuffered
  PROVE  Spec => []DrainedTotalExact
  <1>1. Totals => DrainedTotalExact
    BY DEF Totals, MoverModes, BeforePublish, InHand, ConservesAccepts,
       DrainedTotalExact, MoverAt
  <1> QED
    BY TotalsInvariant, <1>1, PTL

-----------------------------------------------------------------------------
(* Snapshots.  The control thread reads the shards one by one while         *)
(* requests go on, and publishes the sum later, perhaps after the handoff   *)
(* thread has changed the mode; still no snapshot is below an earlier one.  *)

(* The value of the counter in the current mode *)
Counted == IF mode = "ReservedPeak" THEN PeakTotal ELSE strict_value

(* The sum of the shards that ReservedCounter::total() has yet to read *)
Unread == PeakTotal - SumTo(used, idx["control"])

(* What the control thread has read is between the last snapshot and the    *)
(* value of the counter; where it has not read all, the shards it still     *)
(* has to read make up for it.                                              *)
Snapshots ==
    /\ published.value <= Counted
    /\ Distributed \/ tpc["control"] = "observe" => PeakTotal <= Counted
    /\ tpc["control"] = "top" => acc["control"] = 0
    /\ tpc["control"] = "value" => mode # "ReservedPeak"
    /\ tpc["control"] = "observe" =>
          /\ acc["control"] <= SumTo(used, idx["control"])
          /\ published.value <= acc["control"] + Unread
    /\ \/ tpc["control"] \in {"danger", "snapshot"}
       \/ tpc["control"] = "epoch" /\ ctl_mode # "RemoteStrict"
       => published.value <= acc["control"] /\ acc["control"] <= Counted

(* The counter of the current mode holds what was accepted, and after a     *)
(* commit also what the other components handed over                        *)
Foreign == IF mode = "ReservedPeak" THEN 0 ELSE foreign
CountedOK ==
    /\ Counted = accepted + Foreign
    /\ Counted \in Nat /\ PeakTotal \in Nat /\ accepted \in Nat /\ foreign \in Nat
    /\ ~Distributed => foreign = 0

LEMMA CountedIsAccepted == Base /\ Totals => CountedOK
  <1> SUFFICES ASSUME Base, Totals PROVE CountedOK
    OBVIOUS
  <1>1. accepted \in Nat /\ foreign \in Nat /\ strict_value \in Nat
    BY DEF Base, TypeInv, TypeOK, ObserverTypes, CounterTypes
  <1>2. PeakTotal \in Nat
    BY ShardSumType, ShardsAssumption DEF Base, PeakTotal
  <1> QED
    BY <1>1, <1>2 DEF Totals, ConservesAccepts, MoverModes, Counted, Foreign, CountedOK

(* Which steps move the shards and the mode: a granted request, the seed of *)
(* the shards, and the publication of a mode                                *)
LEMMA WhoMovesCounters ==
  ASSUME Base, Totals, Next
  PROVE  /\ accepted' = accepted \/ \E c \in Clients : accepted' = accepted + delta[c]
         /\ \/ used' = used
            \/ tpc["control"] = "seed_shards"
            \/ /\ mode = "ReservedPeak" /\ mode' = "ReservedPeak"
               /\ \A i \in 0..(Shards - 1) : used[i] <= used'[i]
         /\ \/ mode' = mode /\ (foreign' = foreign \/ mode = "ReservedPeak")
            \/ mode = "ReservedPeak" /\ mode' # "ReservedPeak" /\ foreign' = foreign
            \/ /\ ~Distributed /\ tpc["control"] = "publish" /\ foreign' = foreign
  <1> USE DEF Base, TypeInv, TypeOK, MoverAt, MoveTo
  <1>0. Movers = {"control", "handoff"} /\ tpc \in [Movers -> MoverPCs]
    BY DEF Movers, MoverTypes
  <1>1. ASSUME NEW c \in Clients, CompareExchange(c)
        PROVE  /\ accepted' = accepted \/ accepted' = accepted + delta[c]
               /\ \/ used' = used
                  \/ mode = "ReservedPeak" /\ \A i \in 0..(Shards - 1) : used[i] <= used'[i]
               /\ UNCHANGED <<mode, foreign>>
    <2>1. UNCHANGED <<mode, foreign>> /\ pc[c] = "cas"
      BY <1>1 DEF CompareExchange, At
    <2>2. accepted' = accepted \/ accepted' = accepted + delta[c]
      BY <1>1 DEF CompareExchange
    <2>3. seen[c] = mode
      BY <2>1 DEF Totals, Routed, RoutedPCs
    <2>4. ASSUME used' # used
          PROVE  mode = "ReservedPeak" /\ \A i \in 0..(Shards - 1) : used[i] <= used'[i]
      <3>1. /\ seen[c] = "ReservedPeak" /\ CellUnchanged(c)
            /\ used' = [used EXCEPT ![shard[c]] = current[c] + delta[c]]
        BY <1>1, <2>4 DEF CompareExchange
      <3>2. used[shard[c]] = current[c]
        BY <3>1 DEF CellUnchanged, Cell
      <3>3. /\ delta[c] \in Nat /\ current[c] \in Nat /\ shard[c] \in ShardIds
            /\ used \in [ShardIds -> Nat]
        BY DEF ClientTypes, CounterTypes
      <3> QED
        BY <2>3, <3>1, <3>2, <3>3 DEF ShardIds
    <2> QED
      BY <2>1, <2>2, <2>4
  <1>2. ASSUME NEW c \in Clients, ~CompareExchange(c),
               ClientStep(c) \/ \E d \in Deltas, s \in ShardIds : Apply(c, d, s)
        PROVE  UNCHANGED <<accepted, used, mode, foreign>>
    BY <1>2 DEF ClientStep, Apply, TryEnter, Count, Recheck, Leave, LoadMode, LoadCell,
       Remember, ShardFull, Announce, Tally, PublishLimit, counters, history
  <1>3. ASSUME NEW t \in Movers, MoverStep(t)
        PROVE  /\ accepted' = accepted /\ foreign' = foreign
               /\ used' = used \/ tpc["control"] = "seed_shards"
               /\ \/ mode' = mode
                  \/ mode = "ReservedPeak" /\ mode' # "ReservedPeak"
                  \/ ~Distributed /\ tpc["control"] = "publish"
    <2>1. CASE SeedShard(t)
      BY <1>0, <2>1 DEF SeedShard, history, Totals, MoverModes
    <2>2. CASE PublishMode(t)
      <3>1. UNCHANGED <<accepted, foreign, used>> /\ tpc[t] = "publish"
        BY <2>2 DEF PublishMode, history
      <3>2. CASE t = "control"
        BY <1>0, <3>1, <3>2 DEF Ownership, Moving, Holding, Exclusive
      <3>3. CASE t = "handoff"
        BY <2>2, <3>1, <3>3 DEF PublishMode, ToReserved, Totals, MoverModes, BeforePublish
      <3> QED
        BY <1>0, <3>1, <3>2, <3>3
    <2>3. CASE ~SeedShard(t) /\ ~PublishMode(t)
      BY <1>3, <2>3 DEF MoverStep, Close, Drained, ReadShard, SeedStrict, ResetTally,
         BumpEpoch, Open, counters, history
    <2> QED
      BY <2>1, <2>2, <2>3
  <1>4. ASSUME \/ ControlTop \/ ObserveStrict \/ RequestDanger \/ LoadEpoch
               \/ PublishSnapshot \/ Decide \/ OnHot
               \/ BeginHandoff \/ AbortHandoff \/ ExhaustOnCommit \/ DrainStoreBuffer
        PROVE  UNCHANGED <<accepted, used, mode, foreign>>
    BY <1>4 DEF ControlTop, ObserveStrict, RequestDanger, LoadEpoch, PublishSnapshot,
       Decide, OnHot, BeginHandoff, AbortHandoff, ExhaustOnCommit, DrainStoreBuffer,
       counters, history
  <1>5. ASSUME NEW g \in 0..Limit, CommitHandoff(g)
        PROVE  UNCHANGED <<accepted, used, mode>> /\ mode = "ReservedPeak"
    BY <1>5 DEF CommitHandoff, counters
  <1>6. CASE \E c \in Clients :
               ClientStep(c) \/ \E d \in Deltas, s \in ShardIds : Apply(c, d, s)
    <2>1. PICK c \in Clients : ClientStep(c) \/ \E d \in Deltas, s \in ShardIds : Apply(c, d, s)
      BY <1>6
    <2>2. CASE CompareExchange(c)
      BY <1>1, <2>2
    <2>3. CASE ~CompareExchange(c)
      BY <1>2, <2>1, <2>3
    <2> QED
      BY <2>2, <2>3
  <1>7. CASE \E t \in Movers : MoverStep(t)
    <2>1. PICK t \in Movers : MoverStep(t)
      BY <1>7
    <2> QED
      BY <1>3, <2>1
  <1>8. CASE \E g \in 0..Limit : CommitHandoff(g)
    BY <1>5, <1>8
  <1> QED
    BY <1>0, <1>4, <1>6, <1>7, <1>8 DEF Next, ControlStep, HandoffStep

(* The value of the counter never goes back, across transitions and commits *)
LEMMA CountedGrows ==
  ASSUME Base, Totals, Base', Totals', Next
  PROVE  Counted <= Counted'
  <1>1. CountedOK
    BY CountedIsAccepted
  <1>2. CountedOK'
    <2>1. (Base /\ Totals)' => CountedOK'
      BY CountedIsAccepted, PTL
    <2> QED
      BY <2>1
  <1>3. accepted <= accepted'
    <2>1. \A c \in Clients : delta[c] \in Nat
      BY DEF Base, TypeInv, TypeOK, ClientTypes
    <2> QED
      BY <1>1, <1>2, <2>1, WhoMovesCounters DEF CountedOK
  <1>4. Foreign <= Foreign' /\ Foreign \in Nat /\ Foreign' \in Nat
    BY <1>1, <1>2, WhoMovesCounters DEF CountedOK, Foreign
  <1>5. Counted = accepted + Foreign /\ accepted \in Nat
    BY <1>1 DEF CountedOK
  <1>6. Counted' = accepted' + Foreign' /\ accepted' \in Nat
    BY <1>2 DEF CountedOK
  <1>7. \A a, b, c, d \in Nat : a <= c /\ b <= d => a + b <= c + d
    OBVIOUS
  <1>8. accepted + Foreign <= accepted' + Foreign'
    BY <1>3, <1>4, <1>5, <1>6, <1>7
  <1> QED
    BY <1>5, <1>6, <1>8, Zenon

(* While the control thread observes, the shards only grow, and so do the   *)
(* sums of the read and of the unread ones                                  *)
LEMMA ObservedGrow ==
  ASSUME Base, Base', \A i \in 0..(Shards - 1) : used[i] <= used'[i],
         NEW n \in 0..Shards
  PROVE  /\ SumTo(used, n) \in Nat /\ SumTo(used', n) \in Nat
         /\ PeakTotal \in Nat /\ PeakTotal' \in Nat
         /\ SumTo(used, n) <= SumTo(used', n)
         /\ PeakTotal - SumTo(used, n) <= PeakTotal' - SumTo(used', n)
  <1>1. Shards \in Nat /\ n \in Nat /\ n \in 0..Shards
    BY ShardsAssumption
  <1>2. used \in [ShardIds -> Nat] /\ used' \in [ShardIds -> Nat]
    BY DEF Base, TypeInv, TypeOK, CounterTypes
  <1>3. \A i \in 0..(Shards - 1) : used[i] \in Nat /\ used'[i] \in Nat
    BY <1>2 DEF ShardIds
  <1>4. \A i \in 0..(n - 1) : used[i] \in Nat /\ used'[i] \in Nat /\ used[i] <= used'[i]
    BY <1>1, <1>3
  <1>5. \A m \in {n, Shards} : SumTo(used, m) \in Nat /\ SumTo(used', m) \in Nat
    <2>1. SumTo(used, n) \in Nat /\ SumTo(used', n) \in Nat
      BY <1>1, <1>4, SumToNat
    <2>2. SumTo(used, Shards) \in Nat /\ SumTo(used', Shards) \in Nat
      BY <1>1, <1>3, SumToNat
    <2> QED
      BY <2>1, <2>2
  <1>6. SumTo(used, n) <= SumTo(used', n)
    <2>1. \A i \in 0..(n - 1) : used[i] \in Int /\ used'[i] \in Int /\ used[i] <= used'[i]
      BY <1>4
    <2> QED
      BY <1>1, <2>1, SumToMonotone
  <1>7. SumTo(used, Shards) - SumTo(used, n) <= SumTo(used', Shards) - SumTo(used', n)
    <2>1. \A i \in 0..(Shards - 1) :
             used[i] \in Int /\ used'[i] \in Int /\ used[i] <= used'[i]
      BY <1>3
    <2> QED
      BY <1>1, <2>1, SumToRest
  <1> QED
    BY <1>5, <1>6, <1>7 DEF PeakTotal

(* A step of another thread, or one that the control thread's own account   *)
(* does not see                                                             *)
LEMMA SnapshotsOther ==
  ASSUME Base, Totals, Base', Totals', Snapshots, Next,
         UNCHANGED <<ctl_mode, published>>,
         tpc'["control"] = tpc["control"], idx'["control"] = idx["control"],
         acc'["control"] = acc["control"],
         tpc["control"] \notin {"seed_shards", "publish"}
  PROVE  Snapshots'
  <1>1. CountedOK /\ CountedOK'
    <2>1. (Base /\ Totals)' => CountedOK'
      BY CountedIsAccepted, PTL
    <2> QED
      BY <2>1, CountedIsAccepted
  <1>2. Counted <= Counted'
    BY CountedGrows
  <1>3. \/ used' = used
        \/ /\ mode = "ReservedPeak" /\ mode' = "ReservedPeak"
           /\ \A i \in 0..(Shards - 1) : used[i] <= used'[i]
    BY WhoMovesCounters
  <1>4. /\ published.value \in Nat /\ acc["control"] \in Nat /\ idx["control"] \in Nat
        /\ used \in [ShardIds -> Nat]
    BY DEF Base, TypeInv, TypeOK, ObserverTypes, MoverTypes, CounterTypes, Movers
  <1>5. Counted \in Nat /\ Counted' \in Nat /\ PeakTotal \in Nat /\ PeakTotal' \in Nat
    BY <1>1 DEF CountedOK
  <1>6. (Distributed \/ tpc'["control"] = "observe") => PeakTotal' <= Counted'
    <2>1. CASE mode' = "ReservedPeak"
      BY <1>5, <2>1 DEF Counted
    <2>2. CASE mode' # "ReservedPeak"
      <3>1. PeakTotal' = PeakTotal
        BY <1>3, <2>2 DEF PeakTotal
      <3>2. (Distributed \/ tpc["control"] = "observe") => PeakTotal <= Counted
        BY DEF Snapshots
      <3> QED
        BY <1>2, <1>5, <3>1, <3>2
    <2> QED
      BY <2>1, <2>2
  <1>7. tpc'["control"] = "value" => mode' # "ReservedPeak"
    BY WhoMovesCounters DEF Snapshots
  <1>8. published.value <= Counted'
    <2>1. published.value <= Counted
      BY DEF Snapshots
    <2> QED
      BY <1>2, <1>4, <1>5, <2>1
  <1>9. ASSUME tpc["control"] = "observe"
        PROVE  /\ acc["control"] <= SumTo(used', idx["control"])
               /\ published.value <=
                    acc["control"] + (PeakTotal' - SumTo(used', idx["control"]))
    <2>1. idx["control"] \in 0..Shards
      BY <1>4, <1>9, ShardsAssumption DEF Base, TypeInv, IndexOK, Movers
    <2>2. \A i \in 0..(Shards - 1) : used[i] <= used'[i]
      <3>1. CASE used' = used
        BY <1>4, <3>1 DEF ShardIds
      <3> QED
        BY <1>3, <3>1
    <2>3. /\ acc["control"] <= SumTo(used, idx["control"])
          /\ published.value <= acc["control"] + (PeakTotal - SumTo(used, idx["control"]))
      BY <1>9 DEF Snapshots, Unread
    <2>4. /\ SumTo(used, idx["control"]) \in Nat /\ SumTo(used', idx["control"]) \in Nat
          /\ SumTo(used, idx["control"]) <= SumTo(used', idx["control"])
          /\ PeakTotal - SumTo(used, idx["control"])
               <= PeakTotal' - SumTo(used', idx["control"])
      BY <2>1, <2>2, ObservedGrow
    <2> QED
      BY <1>4, <1>5, <2>3, <2>4
  <1>10. acc["control"] <= Counted => acc["control"] <= Counted'
    BY <1>2, <1>4, <1>5
  <1> QED
    BY <1>6, <1>7, <1>8, <1>9, <1>10 DEF Snapshots, Unread

(* ReservedCounter::total() takes one more shard into the sum *)
LEMMA SnapshotsRead ==
  ASSUME Base, Totals, Base', Totals', Snapshots, ReadShard("control"),
         tpc["control"] = "observe"
  PROVE  Snapshots'
  <1>1. CountedOK
    BY CountedIsAccepted
  <1>2. /\ UNCHANGED <<used, mode, strict_value, published, ctl_mode>>
        /\ acc' = [acc EXCEPT !["control"] = @ + used[idx["control"]]]
        /\ idx' = [idx EXCEPT !["control"] = @ + 1]
        /\ IF idx["control"] + 1 < Shards THEN tpc' = tpc
           ELSE tpc' = [tpc EXCEPT !["control"] = "danger"]
    BY DEF ReadShard, counters, observer, MoveTo, MoverAt
  <1>3. /\ tpc \in [Movers -> MoverPCs] /\ "control" \in Movers
        /\ acc \in [Movers -> Nat] /\ idx \in [Movers -> Nat]
        /\ used \in [ShardIds -> Nat] /\ published.value \in Nat
    BY DEF Base, TypeInv, TypeOK, MoverTypes, Movers, CounterTypes, ObserverTypes
  <1> DEFINE i == idx["control"]
             a == acc["control"]
  <1>4. i \in 0..(Shards - 1) /\ Shards \in Nat /\ i + 1 \in 0..Shards /\ i \in 0..Shards
    BY <1>3, ShardsAssumption DEF Base, TypeInv, IndexOK
  <1>5. /\ acc'["control"] = a + used[i] /\ idx'["control"] = i + 1
        /\ IF i + 1 < Shards THEN tpc'["control"] = "observe"
           ELSE tpc'["control"] = "danger"
    BY <1>2, <1>3
  <1>6. /\ SumTo(used, i + 1) = SumTo(used, i) + used[i] /\ used[i] \in Nat
        /\ SumTo(used, i) \in Nat /\ SumTo(used, i + 1) \in Nat
    BY <1>3, <1>4, SumToNext, ShardSumType DEF Base, ShardIds
  <1>7. /\ a <= SumTo(used, i) /\ published.value <= a + (PeakTotal - SumTo(used, i))
        /\ PeakTotal <= Counted /\ published.value <= Counted
    BY DEF Snapshots, Unread
  <1>8. Counted \in Nat /\ PeakTotal \in Nat /\ a \in Nat
    BY <1>1, <1>3 DEF CountedOK
  <1>9. Counted' = Counted /\ PeakTotal' = PeakTotal
    BY <1>2 DEF Counted, PeakTotal
  <1>10. /\ acc'["control"] <= SumTo(used, i + 1)
         /\ published.value <= acc'["control"] + (PeakTotal - SumTo(used, i + 1))
    BY <1>3, <1>5, <1>6, <1>7, <1>8
  <1>11. CASE i + 1 < Shards
    BY <1>2, <1>5, <1>7, <1>9, <1>10, <1>11 DEF Snapshots, Unread
  <1>12. CASE i + 1 = Shards
    <2>1. PeakTotal = SumTo(used, i + 1)
      BY <1>12 DEF PeakTotal
    <2>2. published.value <= acc'["control"] /\ acc'["control"] <= Counted
      BY <1>3, <1>5, <1>6, <1>7, <1>8, <1>10, <2>1
    <2>3. tpc'["control"] = "danger"
      BY <1>4, <1>5, <1>12
    <2> QED
      BY <1>2, <1>7, <1>9, <2>2, <2>3 DEF Snapshots
  <1> QED
    BY <1>4, <1>11, <1>12

(* The control thread in a transition of its own: it holds no observation *)
LEMMA SnapshotsTransition ==
  ASSUME Base, Totals, Base', Totals', Snapshots, Next, MoverStep("control"),
         tpc["control"] # "observe"
  PROVE  Snapshots'
  <1> USE DEF Base, TypeInv, TypeOK, MoverAt, MoveTo
  <1>1. /\ tpc \in [Movers -> MoverPCs] /\ acc \in [Movers -> Nat] /\ idx \in [Movers -> Nat]
        /\ "control" \in Movers /\ published.value \in Nat
    BY DEF MoverTypes, Movers, ObserverTypes
  <1>2. /\ tpc'["control"] \in {"drain", "collect", "open", "seed_shards", "seed_strict",
                                "publish", "reset", "epoch_bump", "top"}
        /\ tpc'["control"] = "top" => acc'["control"] = 0
        /\ published' = published
        /\ tpc["control"] \in Moving
    BY <1>1 DEF MoverStep, Close, Drained, ReadShard, SeedShard, SeedStrict, PublishMode,
       ResetTally, BumpEpoch, Open, MoverDone, observer, Moving, Holding, Exclusive
  <1>3. ~Distributed
    BY <1>2 DEF Ownership
  <1>4. published.value <= Counted'
    <2>1. CountedOK /\ CountedOK'
      <3>1. (Base /\ Totals)' => CountedOK'
        BY CountedIsAccepted, PTL
      <3> QED
        BY <3>1, CountedIsAccepted
    <2>2. Counted <= Counted' /\ published.value <= Counted
      BY CountedGrows DEF Snapshots
    <2>3. Counted \in Nat /\ Counted' \in Nat
      BY <2>1 DEF CountedOK
    <2> QED
      BY <1>1, <2>2, <2>3
  <1> QED
    BY <1>2, <1>3, <1>4 DEF Snapshots

(* A turn of control_loop() between its observation and its decision *)
LEMMA SnapshotsTurn ==
  ASSUME Base, Totals, Snapshots,
         \/ ControlTop \/ ObserveStrict \/ RequestDanger \/ LoadEpoch
         \/ PublishSnapshot \/ Decide
  PROVE  Snapshots'
  <1> USE DEF MoverAt, MoveTo
  <1>1. /\ tpc \in [Movers -> MoverPCs] /\ acc \in [Movers -> Nat] /\ idx \in [Movers -> Nat]
        /\ "control" \in Movers /\ published.value \in Nat
        /\ published \in [epoch : Nat \cup {-1}, value : Nat, from : Modes \cup {"None"}]
    BY DEF Base, TypeInv, TypeOK, MoverTypes, Movers, ObserverTypes
  <1>2. UNCHANGED <<used, mode, strict_value>>
    BY DEF ControlTop, ObserveStrict, RequestDanger, LoadEpoch, PublishSnapshot, Decide,
       counters
  <1>3. Counted' = Counted /\ PeakTotal' = PeakTotal
    BY <1>2 DEF Counted, PeakTotal
  <1>4. Counted \in Nat /\ PeakTotal \in Nat
    BY CountedIsAccepted DEF CountedOK
  <1>5. /\ published.value <= Counted
        /\ Distributed => PeakTotal <= Counted
    BY DEF Snapshots
  <1>6. CASE ControlTop
    <2>1. /\ tpc["control"] = "top" /\ UNCHANGED <<idx, acc, published>>
          /\ ctl_mode' = mode
          /\ tpc'["control"] = CASE mode = "ReservedPeak" -> "observe"
                                 [] mode = "RemoteStrict" -> "epoch"
                                 [] OTHER                 -> "value"
      BY <1>1, <1>6 DEF ControlTop
    <2>2. acc["control"] = 0 /\ idx["control"] = 0
      BY <1>1, <2>1 DEF Snapshots, Base, TypeInv, IndexOK
    <2>3. CASE mode = "ReservedPeak"
      <3>1. tpc'["control"] = "observe" /\ Counted = PeakTotal
        BY <2>1, <2>3 DEF Counted
      <3>2. SumTo(used, 0) = 0
        BY SumToZero
      <3>3. published.value <= 0 + (PeakTotal - 0)
        BY <1>1, <1>4, <1>5, <3>1
      <3>4. Unread' = PeakTotal - 0 /\ SumTo(used', idx'["control"]) = 0
        BY <1>2, <1>3, <2>1, <2>2, <3>2 DEF Unread
      <3> QED
        BY <1>2, <1>3, <1>4, <1>5, <2>1, <2>2, <3>1, <3>3, <3>4 DEF Snapshots
    <2>4. CASE mode = "RemoteStrict"
      <3>1. tpc'["control"] = "epoch"
        BY <2>1, <2>4
      <3> QED
        BY <1>3, <1>5, <2>1, <2>4, <3>1 DEF Snapshots
    <2>5. CASE mode # "ReservedPeak" /\ mode # "RemoteStrict"
      <3>1. tpc'["control"] = "value"
        BY <2>1, <2>5
      <3> QED
        BY <1>2, <1>3, <1>5, <2>1, <2>5, <3>1 DEF Snapshots
    <2> QED
      BY <2>3, <2>4, <2>5
  <1>7. CASE ObserveStrict
    <2>1. /\ tpc["control"] = "value" /\ tpc'["control"] = "epoch" /\ published' = published
          /\ acc'["control"] = strict_value
      BY <1>1, <1>7 DEF ObserveStrict, observer
    <2>2. strict_value = Counted
      BY <2>1 DEF Snapshots, Counted
    <2> QED
      BY <1>3, <1>4, <1>5, <2>1, <2>2 DEF Snapshots
  <1>8. CASE RequestDanger
    <2>1. /\ tpc["control"] = "danger" /\ tpc'["control"] = "epoch"
          /\ published' = published /\ acc' = acc
      BY <1>1, <1>8 DEF RequestDanger, observer
    <2> QED
      BY <1>3, <1>5, <2>1 DEF Snapshots
  <1>9. CASE LoadEpoch
    <2>1. /\ tpc["control"] = "epoch" /\ tpc'["control"] \in {"snapshot", "decide"}
          /\ tpc'["control"] = "snapshot" => ctl_mode # "RemoteStrict"
          /\ published' = published /\ acc' = acc
      BY <1>1, <1>9 DEF LoadEpoch
    <2> QED
      BY <1>3, <1>5, <2>1 DEF Snapshots
  <1>10. CASE PublishSnapshot
    <2>1. /\ tpc["control"] = "snapshot" /\ tpc'["control"] = "decide"
          /\ published'.value = acc["control"]
      BY <1>1, <1>10 DEF PublishSnapshot
    <2>2. published'.value <= Counted
      BY <2>1 DEF Snapshots
    <2> QED
      BY <1>3, <1>5, <2>1, <2>2 DEF Snapshots
  <1>11. CASE Decide
    <2>1. /\ tpc'["control"] \in {"close", "top"}
          /\ tpc'["control"] = "top" => acc'["control"] = 0
          /\ published' = published
      BY <1>1, <1>11 DEF Decide, MoverDone, observer
    <2> QED
      BY <1>3, <1>5, <2>1 DEF Snapshots
  <1> QED
    BY <1>6, <1>7, <1>8, <1>9, <1>10, <1>11

LEMMA SnapshotsInit == Init => Snapshots
  <1> SUFFICES ASSUME Init PROVE Snapshots
    OBVIOUS
  <1>1. PeakTotal = 0
    BY ShardsAssumption, SumToZeros DEF Init, PeakTotal, ShardIds
  <1>2. /\ published.value = 0 /\ strict_value = 0
        /\ tpc["control"] = "top" /\ acc["control"] = 0
    BY DEF Init, Movers
  <1>3. Counted = 0
    BY <1>1, <1>2 DEF Counted
  <1> QED
    BY <1>1, <1>2, <1>3 DEF Snapshots

LEMMA SnapshotsStep ==
  ASSUME ~CloseIsBuffered
  PROVE  Base /\ Totals /\ (Base /\ Totals)' /\ Snapshots /\ [Next]_vars => Snapshots'
  <1> SUFFICES ASSUME Base, Totals, Base', Totals', Snapshots, [Next]_vars PROVE Snapshots'
    OBVIOUS
  <1>1. CASE UNCHANGED vars
    BY <1>1 DEF vars, counters, movers, observer, Snapshots, Counted, PeakTotal, Unread
  <1>2. CASE Next
    <2>0. Movers = {"control", "handoff"} /\ tpc \in [Movers -> MoverPCs]
          /\ idx \in [Movers -> Nat] /\ acc \in [Movers -> Nat]
      BY DEF Movers, MoverTypes, Base, TypeInv, TypeOK
    <2>1. CASE ControlStep
      <3>1. CASE MoverStep("control") /\ tpc["control"] = "observe"
        <4>1. ReadShard("control")
          BY <3>1 DEF MoverStep, Close, Drained, SeedShard, SeedStrict, PublishMode,
             ResetTally, BumpEpoch, Open, MoverAt
        <4> QED
          BY <3>1, <4>1, SnapshotsRead
      <3> QED
        BY <1>2, <2>1, <3>1, SnapshotsTransition, SnapshotsTurn DEF ControlStep
    <2>2. CASE HandoffStep
      <3>1. /\ UNCHANGED <<ctl_mode, published>>
            /\ tpc'["control"] = tpc["control"] /\ idx'["control"] = idx["control"]
            /\ acc'["control"] = acc["control"]
        BY <2>0, <2>2 DEF HandoffStep, BeginHandoff, AbortHandoff, ExhaustOnCommit,
           CommitHandoff, MoverStep, Close, Drained, ReadShard, SeedShard, SeedStrict,
           PublishMode, ResetTally, BumpEpoch, Open, MoverDone, MoveTo, MoverAt, observer
      <3>2. tpc["handoff"] # "top" \/ Distributed
        BY <2>2, OnlyPrepared DEF Base, HandoffStep, BeginHandoff, ExhaustOnCommit,
           MoverStep, Close, Drained, ReadShard, SeedShard, SeedStrict,
           PublishMode, ResetTally, BumpEpoch, Open, MoverAt
      <3>3. tpc["control"] \notin {"seed_shards", "publish"}
        BY <3>2 DEF Base, Ownership, Moving, Holding, Exclusive
      <3> QED
        BY <1>2, <3>1, <3>3, SnapshotsOther
    <2>3. CASE OnHot \/ DrainStoreBuffer
      BY <2>3 DEF OnHot, DrainStoreBuffer, counters, movers, observer, Snapshots, Counted,
         PeakTotal, Unread
    <2>4. ASSUME NEW c \in Clients,
                 ClientStep(c) \/ \E d \in Deltas, s \in ShardIds : Apply(c, d, s)
          PROVE  Snapshots'
      <3>1. UNCHANGED <<ctl_mode, published, tpc, idx, acc>>
        BY <2>4 DEF ClientStep, Apply, TryEnter, Count, Recheck, Leave, LoadMode, LoadCell,
           CompareExchange, Remember, ShardFull, Announce, Tally, PublishLimit, movers, observer
      <3>2. CASE CompareExchange(c)
        <4>1. tpc["control"] \notin Exclusive
          BY <2>0, <3>2 DEF CompareExchange, At, Base, Ownership, Quiescent, Admitted
        <4> QED
          BY <1>2, <3>1, <4>1, SnapshotsOther DEF Exclusive
      <3>3. CASE ~CompareExchange(c)
        <4>1. UNCHANGED <<mode, used, strict_value>>
          BY <2>4, <3>3 DEF ClientStep, Apply, TryEnter, Count, Recheck, Leave, LoadMode,
             LoadCell, Remember, ShardFull, Announce, Tally, PublishLimit, counters
        <4> QED
          BY <3>1, <4>1 DEF Snapshots, Counted, PeakTotal, Unread
      <3> QED
        BY <3>2, <3>3
    <2> QED
      BY <1>2, <2>1, <2>2, <2>3, <2>4 DEF Next
  <1> QED
    BY <1>1, <1>2

(* A snapshot that the control thread publishes is never below the one      *)
(* before, in one epoch or across epochs, although it reads the shards one  *)
(* by one and requests, transitions and commits go on meanwhile.            *)
THEOREM SnapshotsNeverGoBack ==
  ASSUME ~CloseIsBuffered
  PROVE  Spec => SnapshotsMonotone
  <1>1. Base /\ Totals /\ Snapshots /\ [Next]_vars =>
          [published'.epoch = published.epoch => published'.value >= published.value]_published
    <2> SUFFICES ASSUME Base, Totals, Snapshots, [Next]_vars, published' # published
                 PROVE  published'.value >= published.value
      OBVIOUS
    <2>1. PublishSnapshot
      BY DEF Next, vars, observer, ClientStep, Apply, TryEnter, Count, Recheck, Leave,
         LoadMode, LoadCell, CompareExchange, Remember, ShardFull, Announce, Tally,
         PublishLimit, ControlStep, ControlTop, ObserveStrict, RequestDanger, LoadEpoch,
         Decide, OnHot, HandoffStep, BeginHandoff, AbortHandoff, ExhaustOnCommit,
         CommitHandoff, DrainStoreBuffer, MoverStep, Close, Drained, ReadShard, SeedShard,
         SeedStrict, PublishMode, ResetTally, BumpEpoch, Open
    <2>2. published'.value = acc["control"] /\ tpc["control"] = "snapshot"
      BY <2>1 DEF PublishSnapshot, MoverAt
    <2>3. published.value <= acc["control"] /\ acc["control"] \in Nat /\ published.value \in Nat
      BY <2>2 DEF Snapshots, Base, TypeInv, TypeOK, MoverTypes, ObserverTypes, Movers
    <2> QED
      BY <2>2, <2>3
  <1>2. Spec => []Snapshots
    BY TotalsInvariant, SnapshotsInit, SnapshotsStep, PTL DEF Spec
  <1> QED
    BY TotalsInvariant, <1>1, <1>2, PTL DEF Spec, SnapshotsMonotone
=============================================================================
