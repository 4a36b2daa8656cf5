---------------------- MODULE CounterExhaustionProofs ----------------------
(***************************************************************************)
(* The exhausted state of an engine, for any number of clients and shards  *)
(* and any limit: it is entered only when the whole limit has been granted *)
(* and, in a standalone engine, always once the last grant is done; and a  *)
(* standalone engine implements the abstract limit counter.                *)
(***************************************************************************)
EXTENDS CounterTotalsProofs

Reserves == [i \in ShardIds |-> Reserve(i)]

(* ReservedCounter's constructor hands out the whole reservation: the      *)
(* quotient to every shard and the remainder one by one to the first.      *)
LEMMA ReserveTotal == SumTo(Reserves, Shards) = LocalPeakReservation
  <1> DEFINE q == LocalPeakReservation \div Shards
             r == LocalPeakReservation % Shards
             S == {n \in Nat : n <= Shards =>
                     SumTo(Reserves, n) = n * q + (IF n < r THEN n ELSE r)}
  <1>1. LocalPeakReservation \in Nat /\ Shards \in Nat \ {0}
    BY AmountsAssumption, ShardsAssumption
  <1>2. q \in Nat /\ r \in 0..(Shards - 1)
    BY <1>1
  <1>3. LocalPeakReservation = Shards * q + r
    BY <1>1
  <1>4. \A i \in ShardIds : Reserves[i] = q + (IF i < r THEN 1 ELSE 0)
    BY DEF Reserves, Reserve
  <1> HIDE DEF q, r
  <1>5. 0 \in S
    BY <1>2, SumToZero
  <1>6. ASSUME NEW n \in Nat, n \in S PROVE n + 1 \in S
    <2>1. SUFFICES ASSUME n + 1 <= Shards
                   PROVE  SumTo(Reserves, n + 1)
                            = (n + 1) * q + (IF n + 1 < r THEN n + 1 ELSE r)
      OBVIOUS
    <2>2. SumTo(Reserves, n + 1) = SumTo(Reserves, n) + Reserves[n]
      BY SumToNext
    <2>3. SumTo(Reserves, n) = n * q + (IF n < r THEN n ELSE r)
      BY <1>1, <1>6, <2>1
    <2>4. Reserves[n] = q + (IF n < r THEN 1 ELSE 0)
      BY <1>1, <1>4, <2>1 DEF ShardIds
    <2>5. (n + 1) * q = n * q + q /\ n * q \in Nat
      BY <1>2
    <2> QED
      BY <1>2, <2>2, <2>3, <2>4, <2>5
  <1> HIDE DEF S
  <1>7. \A n \in Nat : n \in S
    BY <1>5, <1>6, SetInduction
  <1>8. SumTo(Reserves, Shards) = Shards * q + (IF Shards < r THEN Shards ELSE r)
    BY <1>1, <1>7 DEF S
  <1> QED
    BY <1>1, <1>2, <1>3, <1>8

Full(i) == used[i] = Reserve(i)
Announced == {i \in ShardIds : exhaustion_announced[i]}
Tallying == {c \in Clients : pc[c] = "tally"}
LimitPublished == exhausted \/ \E c \in Clients : pc[c] = "publish"

(* Where requests and movers can be in which mode *)
Places ==
    /\ \A c \in Clients :
          /\ pc[c] \in {"full", "announce", "tally"} => mode = "ReservedPeak"
          /\ pc[c] # "idle" => delta[c] \in Deltas
    /\ Distributed /\ mode = "ReservedPeak" =>
          /\ ~exhausted
          /\ \A c \in Clients : pc[c] \notin {"full", "announce", "tally", "publish"}
    /\ tpc["handoff"] \in {"reset", "epoch_bump", "exhaust"} => mode # "ReservedPeak"
    /\ tpc["handoff"] = "exhaust" => strict_value = Limit
    /\ tpc["control"] = "reset" => (mode = "ReservedPeak" <=> ctl_mode = "Strict")

(* mark_exhausted() comes after the last unit of the limit *)
Definitive == LimitPublished => accepted + foreign = Limit

(* A request that was granted on the strict word has seen no more than it  *)
(* holds, and whoever takes its last unit publishes that.                  *)
StrictReached == mode # "ReservedPeak" =>
    /\ \A c \in Clients : pc[c] = "remember" => current[c] <= strict_value
    /\ ~Distributed /\ strict_value = Limit /\ Limit > 0 =>
          \/ LimitPublished
          \/ \E c \in Clients : pc[c] = "remember" /\ current[c] = Limit

(* The tally counts every announced shard once; a shard is announced only  *)
(* when it is full, and a full one is announced or about to be.            *)
ShardsAnnounced ==
    /\ \A i \in ShardIds : exhaustion_announced[i] => Full(i)
    /\ \A c \in Clients : pc[c] = "announce" => Full(shard[c])
    /\ \A i \in ShardIds : Full(i) =>
          \/ exhaustion_announced[i]
          \/ \E c \in Clients : pc[c] \in {"remember", "full", "announce"} /\ shard[c] = i
TallyExact ==
    /\ exhausted_peak_shards + Cardinality(Tallying) = Cardinality(Announced)
    /\ exhausted_peak_shards = Shards /\ Limit > 0 => LimitPublished
PeakReached == ~Distributed /\ mode = "ReservedPeak" =>
    /\ ShardsAnnounced
    /\ IF tpc["control"] = "reset"
       THEN accepted = Limit /\ Limit > 0 => exhausted
       ELSE TallyExact

(* The seed announces exactly the shards it fills *)
Seeding ==
    /\ tpc["control"] = "seed_shards" =>
          \A j \in ShardIds : j < idx["control"] => (exhaustion_announced[j] <=> Full(j))
    /\ tpc["control"] = "publish" /\ ctl_mode = "Strict" =>
          \A j \in ShardIds : exhaustion_announced[j] <=> Full(j)

Exhaustion == Places /\ Definitive /\ StrictReached /\ PeakReached /\ Seeding

Known == Base /\ Totals

(* A standalone engine in peak mode has granted its limit exactly when     *)
(* every shard is full.                                                    *)
LEMMA AllFull ==
  ASSUME Known, ~Distributed, mode = "ReservedPeak"
  PROVE  accepted = Limit <=> \A i \in ShardIds : Full(i)
  <1>0. Shards \in Nat /\ ShardIds = 0..(Shards - 1) /\ Limit = LocalPeakReservation
    BY ShardsAssumption DEF ShardIds, Distributed
  <1>1. \A i \in 0..(Shards - 1) :
           used[i] \in Int /\ Reserves[i] \in Int /\ used[i] <= Reserves[i]
    BY <1>0, ReserveType DEF Known, Base, TypeInv, TypeOK, CounterTypes, Reserves
  <1>2. accepted = SumTo(used, Shards)
    BY DEF Known, Totals, ConservesAccepts, PeakTotal
  <1>3. ASSUME accepted = Limit PROVE \A i \in ShardIds : Full(i)
    <2>1. SumTo(used, Shards) = SumTo(Reserves, Shards)
      BY <1>0, <1>2, <1>3, ReserveTotal
    <2>2. \A i \in 0..(Shards - 1) : used[i] = Reserves[i]
      BY <1>0, <1>1, <2>1, SumToTight
    <2> QED
      BY <1>0, <2>2 DEF Full, Reserves
  <1>4. ASSUME \A i \in ShardIds : Full(i) PROVE accepted = Limit
    <2>1. \A i \in 0..(Shards - 1) : used[i] = Reserves[i]
      BY <1>0, <1>4 DEF Full, Reserves
    <2>2. SumTo(used, Shards) = SumTo(Reserves, Shards)
      BY <1>0, <2>1, SumToEqual
    <2> QED
      BY <1>0, <1>2, <2>2, ReserveTotal
  <1> QED
    BY <1>3, <1>4

(* The engine never grants more than its limit. *)
LEMMA WithinLimit ==
  ASSUME Known
  PROVE  accepted <= Limit
  <1>0. Shards \in Nat /\ ShardIds = 0..(Shards - 1) /\ Limit \in Nat
        /\ LocalPeakReservation \in 0..Limit /\ accepted \in Nat /\ foreign \in Nat
        /\ strict_value \in Nat /\ strict_value <= Limit
    BY ShardsAssumption, AmountsAssumption DEF ShardIds, Known, Base, TypeInv, TypeOK,
       ObserverTypes, CounterTypes
  <1>1. CASE mode = "ReservedPeak"
    <2>1. \A i \in 0..(Shards - 1) :
             used[i] \in Int /\ Reserves[i] \in Int /\ used[i] <= Reserves[i]
      BY <1>0, ReserveType DEF Known, Base, TypeInv, TypeOK, CounterTypes, Reserves
    <2>2. SumTo(used, Shards) <= SumTo(Reserves, Shards)
      BY <1>0, <2>1, SumToMonotone
    <2> QED
      BY <1>0, <1>1, <2>2, ReserveTotal DEF Known, Totals, ConservesAccepts, PeakTotal
  <1>2. CASE mode # "ReservedPeak"
    BY <1>0, <1>2 DEF Known, Totals, ConservesAccepts
  <1> QED
    BY <1>1, <1>2

(* The sets the tally relates are finite. *)
LEMMA TallyFinite ==
  /\ IsFiniteSet(ShardIds) /\ Cardinality(ShardIds) = Shards
  /\ IsFiniteSet(Announced) /\ IsFiniteSet(Tallying)
  <1>1. Shards \in Nat /\ 0 \in Int /\ Shards - 1 \in Int
    BY ShardsAssumption
  <1>2. IsFiniteSet(ShardIds) /\ Cardinality(ShardIds) = Shards
    BY <1>1, FS_Interval, ShardsAssumption DEF ShardIds
  <1> QED
    BY <1>2, FS_Subset, ClientsAssumption DEF Announced, Tallying

(* A full tally means that every shard is announced. *)
LEMMA AllAnnounced ==
  ASSUME Cardinality(Announced) >= Shards
  PROVE  \A i \in ShardIds : exhaustion_announced[i]
  <1>1. Announced \subseteq ShardIds
    BY DEF Announced
  <1>2. Cardinality(Announced) \in Nat /\ Cardinality(Announced) <= Shards
        /\ Shards \in Nat
    BY <1>1, TallyFinite, FS_Subset, FS_CardinalityType, ShardsAssumption
  <1>3. Announced = ShardIds
    BY <1>1, <1>2, TallyFinite, FS_Subset
  <1> QED
    BY <1>3 DEF Announced

(* Once the limit is granted and published only empty deltas still fit. *)
LEMMA NothingFits ==
  ASSUME Known, Exhaustion, LimitPublished, NEW c \in Clients, pc[c] = "cas",
         FitsIn(c), CellUnchanged(c)
  PROVE  delta[c] = 0
  <1>0. /\ seen[c] = mode /\ accepted + foreign = Limit
        /\ delta[c] \in Nat /\ current[c] \in Nat /\ shard[c] \in ShardIds
        /\ accepted \in Nat /\ foreign \in Nat /\ strict_value \in Nat
        /\ Limit \in Nat
    BY AmountsAssumption DEF Known, Base, TypeInv, TypeOK, ClientTypes, ObserverTypes,
       CounterTypes, Totals, Routed, RoutedPCs, Exhaustion, Definitive
  <1>1. CASE mode = "ReservedPeak"
    <2>1. ~Distributed
      BY <1>1 DEF Exhaustion, Places, LimitPublished
    <2>2. foreign = 0
      BY <2>1 DEF Known, Totals, MoverModes
    <2>3. Full(shard[c])
      BY <1>0, <1>1, <2>1, <2>2, AllFull
    <2>4. used[shard[c]] \in Nat
      BY <1>0 DEF Known, Base, TypeInv, TypeOK, CounterTypes
    <2> QED
      BY <1>0, <1>1, <2>3, <2>4 DEF FitsIn, CellUnchanged, Cell, Capacity, Full
  <1>2. CASE mode # "ReservedPeak"
    BY <1>0, <1>2 DEF Known, Totals, ConservesAccepts, FitsIn, CellUnchanged, Cell, Capacity
  <1> QED
    BY <1>1, <1>2

-----------------------------------------------------------------------------
(* A boot in peak mode announces the shards without a reservation; they    *)
(* are all of them only when there is nothing to grant.                    *)
LEMMA ExhaustionInit == Init => Exhaustion
  <1> SUFFICES ASSUME Init PROVE Exhaustion
    OBVIOUS
  <1>0. Known
    BY TypeInit, OwnershipInit, TotalsInit DEF Known, Base
  <1>1. Places
    BY DEF Init, Places, Movers
  <1>2. Definitive
    BY DEF Init, Definitive, LimitPublished
  <1>3. StrictReached
    BY DEF Init, StrictReached
  <1>4. PeakReached
    <2> SUFFICES ASSUME ~Distributed, mode = "ReservedPeak" PROVE ShardsAnnounced /\ TallyExact
      BY DEF Init, PeakReached, Movers
    <2>0. StartPeak
      BY DEF Init
    <2>1. \A i \in ShardIds : exhaustion_announced[i] <=> Full(i)
      BY <2>0, ReserveType DEF Init, Full
    <2>2. ShardsAnnounced
      BY <2>1 DEF Init, ShardsAnnounced
    <2>3. Tallying = {} /\ Announced = {i \in ShardIds : used[i] = Reserve(i)}
      BY <2>1 DEF Init, Tallying, Announced, Full
    <2>4. exhausted_peak_shards = Cardinality(Announced)
      BY <2>0, <2>3 DEF Init, ExhaustedShards
    <2>5. exhausted_peak_shards + Cardinality(Tallying) = Cardinality(Announced)
      BY <2>3, <2>4, FS_EmptySet, TallyFinite, FS_CardinalityType
    <2>6. exhausted_peak_shards = Shards => Limit = 0
      <3>1. SUFFICES ASSUME exhausted_peak_shards = Shards PROVE Limit = 0
        OBVIOUS
      <3>2. Cardinality(Announced) >= Shards
        BY <2>4, <3>1, ShardsAssumption
      <3>3. \A i \in ShardIds : Full(i)
        BY <2>1, <3>2, AllAnnounced
      <3> QED
        BY <1>0, <3>3, AllFull DEF Init
    <2> QED
      BY <2>2, <2>5, <2>6, AmountsAssumption DEF TallyExact
  <1>5. Seeding
    BY DEF Init, Seeding, Movers
  <1> QED
    BY <1>1, <1>2, <1>3, <1>4, <1>5 DEF Exhaustion

(* A step that moves one request c between places none of the parts below  *)
(* speaks of, and changes neither counters nor movers, changes nothing.    *)
LEMMA ExhaustionFrame ==
  ASSUME Known, Exhaustion,
         UNCHANGED <<mode, strict_value, used, exhaustion_announced,
                     exhausted_peak_shards, exhausted, accepted, foreign, ctl_mode,
                     tpc, idx>>,
         \A c \in Clients :
            \/ pc'[c] = pc[c] /\ shard'[c] = shard[c] /\ delta'[c] = delta[c]
               /\ (current'[c] = current[c] \/ pc[c] # "remember")
            \/ /\ pc[c] \notin {"remember", "full", "announce", "tally", "publish"}
               /\ pc'[c] \notin {"remember", "full", "announce", "tally", "publish"}
               /\ pc'[c] # "idle" => delta'[c] \in Deltas
  PROVE  Exhaustion'
  <1>1. Places'
    BY DEF Exhaustion, Places
  <1>2. LimitPublished' <=> LimitPublished
    BY DEF LimitPublished
  <1>3. Definitive'
    BY <1>2 DEF Exhaustion, Definitive
  <1>4. StrictReached'
    BY <1>2 DEF Exhaustion, StrictReached
  <1>5. Announced' = Announced /\ Tallying' = Tallying
    BY DEF Announced, Tallying
  <1>6. ShardsAnnounced => ShardsAnnounced'
    BY DEF ShardsAnnounced, Full
  <1>7. PeakReached'
    BY <1>2, <1>5, <1>6 DEF Exhaustion, PeakReached, TallyExact
  <1>8. Seeding'
    BY DEF Exhaustion, Seeding, Full
  <1> QED
    BY <1>1, <1>3, <1>4, <1>7, <1>8 DEF Exhaustion

(* The steps of a request outside the counter code. *)
LEMMA ExhaustionOutside ==
  ASSUME Known, Exhaustion, NEW c \in Clients,
         \/ TryEnter(c) \/ Count(c) \/ Recheck(c) \/ Leave(c)
         \/ LoadMode(c) \/ LoadCell(c)
         \/ \E d \in Deltas, s \in ShardIds : Apply(c, d, s)
  PROVE  Exhaustion'
  <1>1. UNCHANGED <<mode, strict_value, used, exhaustion_announced,
                     exhausted_peak_shards, exhausted, accepted, foreign, ctl_mode,
                     tpc, idx>>
    BY DEF TryEnter, Count, Recheck, Leave, LoadMode, LoadCell, Apply, counters,
       tallies, movers, observer, history
  <1>2. \A b \in Clients \ {c} :
           pc'[b] = pc[b] /\ shard'[b] = shard[b] /\ delta'[b] = delta[b]
           /\ current'[b] = current[b]
    BY DEF Known, Base, TypeInv, TypeOK, ClientTypes, TryEnter, Count, Recheck, Leave,
       Return, LoadMode, LoadCell, Apply, At, GoTo, locals
  <1>3. \/ pc'[c] = pc[c] /\ shard'[c] = shard[c] /\ delta'[c] = delta[c]
           /\ (current'[c] = current[c] \/ pc[c] # "remember")
        \/ /\ pc[c] \notin {"remember", "full", "announce", "tally", "publish"}
           /\ pc'[c] \notin {"remember", "full", "announce", "tally", "publish"}
           /\ pc'[c] # "idle" => delta'[c] \in Deltas
    BY DEF Known, Base, TypeInv, TypeOK, ClientTypes, TryEnter, Count, Recheck, Leave,
       Return, LoadMode, LoadCell, Apply, At, GoTo, locals, Exhaustion, Places
  <1> QED
    BY <1>1, <1>2, <1>3, ExhaustionFrame

(* A granted request carries the news of what it filled. *)
LEMMA ExhaustionExchange ==
  ASSUME Known, Exhaustion, NEW c \in Clients, CompareExchange(c)
  PROVE  Exhaustion'
  <1> USE DEF At, GoTo
  <1>0. /\ pc \in [Clients -> ClientPCs] /\ delta \in [Clients -> Nat]
        /\ shard \in [Clients -> ShardIds] /\ current \in [Clients -> Nat]
        /\ used \in [ShardIds -> Nat] /\ strict_value \in Nat /\ accepted \in Nat
        /\ foreign \in Nat /\ Limit \in Nat
    BY AmountsAssumption DEF Known, Base, TypeInv, TypeOK, ClientTypes, CounterTypes,
       ObserverTypes
  <1>1. /\ pc[c] = "cas"
        /\ UNCHANGED <<mode, exhaustion_announced, exhausted_peak_shards, exhausted,
                       foreign, ctl_mode, tpc, idx, delta, shard, seen>>
    BY DEF CompareExchange, tallies, movers, observer
  <1>2. \A b \in Clients \ {c} : pc'[b] = pc[b] /\ current'[b] = current[b]
    BY <1>0 DEF CompareExchange
  <1>3. CASE UNCHANGED <<used, strict_value, accepted>> /\ pc'[c] # "remember"
    <2>1. pc'[c] \in {"cas", "leave"}
      BY <1>0, <1>1, <1>3 DEF CompareExchange
    <2>2. delta[c] \in Deltas
      BY <1>1 DEF Exhaustion, Places
    <2> QED
      BY <1>1, <1>2, <1>3, <2>1, <2>2, ExhaustionFrame
  <1>4. CASE ~(UNCHANGED <<used, strict_value, accepted>> /\ pc'[c] # "remember")
    <2>1. /\ FitsIn(c) /\ CellUnchanged(c)
          /\ pc'[c] = "remember" /\ current'[c] = current[c] + delta[c]
          /\ accepted' = accepted + delta[c]
          /\ IF seen[c] = "ReservedPeak"
             THEN used' = [used EXCEPT ![shard[c]] = current[c] + delta[c]]
                  /\ strict_value' = strict_value
             ELSE strict_value' = current[c] + delta[c] /\ used' = used
      BY <1>0, <1>1, <1>4 DEF CompareExchange
    <2>2. seen[c] = mode /\ mode # "RemoteStrict"
      BY <1>1 DEF Known, Totals, Routed, RoutedPCs
    <2>3. tpc["control"] \notin Exclusive /\ tpc["handoff"] \notin Exclusive
      BY <1>1 DEF Known, Base, Ownership, Quiescent, Admitted, Movers
    <2>4. LimitPublished' <=> LimitPublished
      BY <1>1, <1>2, <2>1 DEF LimitPublished
    <2>5. Places'
      BY <1>1, <1>2, <2>1, <2>3 DEF Exhaustion, Places, Exclusive
    <2>6. Definitive'
      BY <1>0, <1>1, <2>1, <2>4, NothingFits DEF Exhaustion, Definitive
    <2>7. Seeding'
      BY <1>1, <2>3 DEF Seeding, Exclusive
    <2>8. StrictReached'
      <3>1. SUFFICES ASSUME mode # "ReservedPeak" PROVE StrictReached'
        BY <1>1 DEF StrictReached
      <3>2. strict_value = current[c] /\ strict_value' = current[c] + delta[c]
        BY <2>1, <2>2, <3>1 DEF CellUnchanged, Cell
      <3>3. \A b \in Clients : pc'[b] = "remember" => current'[b] <= strict_value'
        BY <1>0, <1>1, <1>2, <2>1, <3>1, <3>2 DEF Exhaustion, StrictReached
      <3>4. strict_value' = Limit => pc'[c] = "remember" /\ current'[c] = Limit
        BY <2>1, <3>2
      <3> QED
        BY <3>3, <3>4 DEF StrictReached
    <2>9. PeakReached'
      <3>1. SUFFICES ASSUME ~Distributed, mode = "ReservedPeak"
                     PROVE  ShardsAnnounced' /\ TallyExact'
        BY <1>1, <2>3 DEF PeakReached, Exclusive
      <3>2. ShardsAnnounced /\ TallyExact
        BY <2>3, <3>1 DEF Exhaustion, PeakReached, Exclusive
      <3>3. Tallying' = Tallying /\ Announced' = Announced
        BY <1>1, <1>2, <2>1 DEF Tallying, Announced
      <3>4. TallyExact'
        BY <1>1, <2>4, <3>2, <3>3 DEF TallyExact
      <3>5. /\ used[shard[c]] = current[c] /\ current[c] + delta[c] <= Reserve(shard[c])
            /\ used' = [used EXCEPT ![shard[c]] = current[c] + delta[c]]
            /\ Reserve(shard[c]) \in Nat /\ shard[c] \in ShardIds
        BY <1>0, <2>1, <2>2, <3>1, ReserveType DEF FitsIn, CellUnchanged, Cell, Capacity
      <3>6. \A i \in ShardIds : Full(i) => Full(i)'
        BY <1>0, <3>5 DEF Full
      <3>7. \A i \in ShardIds \ {shard[c]} : Full(i)' => Full(i)
        BY <1>0, <3>5 DEF Full
      <3>8. ShardsAnnounced'
        BY <1>0, <1>1, <1>2, <2>1, <3>2, <3>5, <3>6, <3>7 DEF ShardsAnnounced
      <3> QED
        BY <3>4, <3>8
    <2> QED
      BY <2>5, <2>6, <2>7, <2>8, <2>9 DEF Exhaustion
  <1> QED
    BY <1>3, <1>4

(* The steps between a grant and the end of the request: the news of a     *)
(* full strict word or shard is passed on, never dropped.                  *)
LEMMA ExhaustionNews ==
  ASSUME Known, Exhaustion, NEW c \in Clients,
         Remember(c) \/ ShardFull(c) \/ Announce(c) \/ Tally(c) \/ PublishLimit(c)
  PROVE  Exhaustion'
  <1> USE DEF At, GoTo
  <1>0. /\ pc \in [Clients -> ClientPCs] /\ shard \in [Clients -> ShardIds]
        /\ current \in [Clients -> Nat] /\ strict_value \in Nat /\ strict_value <= Limit
        /\ exhaustion_announced \in [ShardIds -> BOOLEAN] /\ exhausted_peak_shards \in Nat
        /\ accepted \in Nat /\ foreign \in Nat /\ Limit \in Nat /\ Shards \in Nat
    BY AmountsAssumption, ShardsAssumption DEF Known, Base, TypeInv, TypeOK, ClientTypes,
       CounterTypes, ObserverTypes, TallyTypes
  <1>1. /\ UNCHANGED <<mode, strict_value, used, accepted, foreign, ctl_mode, tpc, idx,
                       delta, shard, seen, current>>
        /\ \A b \in Clients \ {c} : pc'[b] = pc[b]
    BY <1>0 DEF Remember, ShardFull, Announce, Tally, PublishLimit, counters, movers,
       observer, history, locals
  <1>2. pc[c] \in RoutedPCs /\ pc[c] \in Admitted
    BY DEF Remember, ShardFull, Announce, Tally, PublishLimit, RoutedPCs, Admitted
  <1>3. seen[c] = mode /\ mode # "RemoteStrict"
    BY <1>2 DEF Known, Totals, Routed
  <1>4. tpc["control"] \notin Exclusive /\ tpc["handoff"] \notin Exclusive
    BY <1>2 DEF Known, Base, Ownership, Quiescent, Movers
  <1>5. Seeding'
    BY <1>1, <1>4 DEF Seeding, Exclusive
  <1>6. ~Distributed => foreign = 0
    BY DEF Known, Totals, MoverModes
  <1>7. ~Distributed /\ mode = "ReservedPeak" => ShardsAnnounced /\ TallyExact
    BY <1>4 DEF Exhaustion, PeakReached, Exclusive
  <1>8. CASE Remember(c)
    <2>1. /\ pc[c] = "remember" /\ UNCHANGED <<exhaustion_announced, exhausted_peak_shards, exhausted>>
          /\ pc'[c] = IF mode # "ReservedPeak"
                      THEN IF current[c] = Limit THEN "publish" ELSE "leave"
                      ELSE IF Distributed THEN "leave" ELSE "full"
      BY <1>0, <1>3, <1>8 DEF Remember, counters
    <2>2. Places'
      BY <1>1, <1>4, <2>1 DEF Exhaustion, Places, Exclusive
    <2>3. LimitPublished => LimitPublished'
      BY <1>1, <2>1 DEF LimitPublished
    <2>4. pc'[c] = "publish" => accepted + foreign = Limit
      BY <1>0, <2>1 DEF Exhaustion, StrictReached, Known, Totals, ConservesAccepts
    <2>5. Definitive'
      BY <1>1, <2>1, <2>4 DEF Exhaustion, Definitive, LimitPublished
    <2>6. StrictReached'
      BY <1>1, <2>1, <2>3 DEF Exhaustion, StrictReached, LimitPublished
    <2>7. Tallying' = Tallying /\ Announced' = Announced
      BY <1>1, <2>1 DEF Tallying, Announced
    <2>8. PeakReached'
      BY <1>1, <1>4, <1>7, <2>1, <2>3, <2>7 DEF PeakReached, ShardsAnnounced, TallyExact,
         Full, Exclusive
    <2> QED
      BY <1>5, <2>2, <2>5, <2>6, <2>8 DEF Exhaustion
  <1>9. CASE ~Remember(c)
    <2>1. pc[c] # "remember"
      BY <1>9 DEF ShardFull, Announce, Tally, PublishLimit
    <2>2. pc'[c] # "remember" /\ pc'[c] # "idle" /\ pc'[c] # "full"
      BY <1>0, <1>9 DEF ShardFull, Announce, Tally, PublishLimit
    <2>3. LimitPublished => LimitPublished'
      <3>1. CASE PublishLimit(c)
        BY <3>1 DEF PublishLimit, LimitPublished
      <3>2. CASE ~PublishLimit(c)
        BY <1>1, <1>9, <3>2 DEF ShardFull, Announce, Tally, LimitPublished, tallies
      <3> QED
        BY <3>1, <3>2
    <2>4. StrictReached'
      BY <1>1, <2>1, <2>2, <2>3 DEF Exhaustion, StrictReached
    <2>5. ~PublishLimit(c) => ~Distributed /\ mode = "ReservedPeak"
      BY <1>9 DEF Exhaustion, Places, ShardFull, Announce, Tally
    <2>6. CASE PublishLimit(c)
      <3>1. /\ pc[c] = "publish" /\ pc'[c] = "leave" /\ exhausted'
            /\ UNCHANGED <<exhaustion_announced, exhausted_peak_shards>>
        BY <1>0, <2>6 DEF PublishLimit, counters
      <3>2. LimitPublished
        BY <3>1 DEF LimitPublished
      <3>3. Places'
        BY <1>1, <1>4, <3>1 DEF Exhaustion, Places, Exclusive
      <3>4. Definitive'
        BY <1>1, <3>2 DEF Exhaustion, Definitive
      <3>5. Tallying' = Tallying /\ Announced' = Announced
        BY <1>1, <3>1 DEF Tallying, Announced
      <3>6. PeakReached'
        BY <1>1, <1>4, <1>7, <2>3, <3>1, <3>5 DEF PeakReached, ShardsAnnounced, TallyExact,
           Full, Exclusive
      <3> QED
        BY <1>5, <2>4, <3>3, <3>4, <3>6 DEF Exhaustion
    <2>7. CASE ShardFull(c)
      <3>1. /\ pc[c] = "full"
            /\ pc'[c] = (IF Full(shard[c]) THEN "announce" ELSE "leave")
            /\ UNCHANGED <<exhaustion_announced, exhausted_peak_shards, exhausted>>
        BY <1>0, <2>7 DEF ShardFull, Full, counters, tallies
      <3>2. Places'
        BY <1>1, <1>4, <2>5, <2>7, <3>1 DEF Exhaustion, Places, Exclusive, ShardFull, PublishLimit
      <3>3. Definitive'
        BY <1>1, <3>1 DEF Exhaustion, Definitive, LimitPublished
      <3>4. Tallying' = Tallying /\ Announced' = Announced
        BY <1>1, <3>1 DEF Tallying, Announced
      <3>5. ShardsAnnounced => ShardsAnnounced'
        BY <1>1, <3>1 DEF ShardsAnnounced, Full
      <3>6. PeakReached'
        BY <1>1, <1>4, <1>7, <2>3, <3>1, <3>4, <3>5 DEF PeakReached, TallyExact, Exclusive
      <3> QED
        BY <1>5, <2>4, <3>2, <3>3, <3>6 DEF Exhaustion
    <2>8. CASE Announce(c)
      <3>0. ~Distributed /\ mode = "ReservedPeak" /\ ShardsAnnounced /\ TallyExact
        BY <1>7, <2>5, <2>8 DEF Announce, PublishLimit
      <3>1. /\ pc[c] = "announce" /\ shard[c] \in ShardIds
            /\ exhaustion_announced' = [exhaustion_announced EXCEPT ![shard[c]] = TRUE]
            /\ pc'[c] = (IF exhaustion_announced[shard[c]] THEN "leave" ELSE "tally")
            /\ UNCHANGED <<exhausted_peak_shards, exhausted>>
        BY <1>0, <2>8 DEF Announce, tallies
      <3>2. Places'
        BY <1>1, <1>4, <3>0, <3>1 DEF Exhaustion, Places, Exclusive
      <3>3. Definitive' /\ (LimitPublished' <=> LimitPublished)
        BY <1>1, <3>1 DEF Exhaustion, Definitive, LimitPublished
      <3>4. ShardsAnnounced'
        BY <1>0, <1>1, <3>0, <3>1 DEF ShardsAnnounced, Full
      <3>5. exhausted_peak_shards' + Cardinality(Tallying') = Cardinality(Announced')
        <4>1. CASE exhaustion_announced[shard[c]]
          <5>1. Tallying' = Tallying /\ Announced' = Announced
            BY <1>0, <1>1, <3>1, <4>1 DEF Tallying, Announced
          <5> QED
            BY <3>0, <3>1, <5>1 DEF TallyExact
        <4>2. CASE ~exhaustion_announced[shard[c]]
          <5>1. Tallying' = Tallying \cup {c} /\ c \notin Tallying
            BY <1>0, <1>1, <3>1, <4>2 DEF Tallying
          <5>2. Announced' = Announced \cup {shard[c]} /\ shard[c] \notin Announced
            BY <1>0, <1>1, <3>1, <4>2 DEF Announced
          <5>3. Cardinality(Tallying') = Cardinality(Tallying) + 1
            BY <5>1, TallyFinite, FS_AddElement
          <5>4. Cardinality(Announced') = Cardinality(Announced) + 1
            BY <5>2, TallyFinite, FS_AddElement
          <5>5. Cardinality(Tallying) \in Nat /\ Cardinality(Announced) \in Nat
            BY TallyFinite, FS_CardinalityType
          <5> QED
            BY <1>0, <3>0, <3>1, <5>3, <5>4, <5>5 DEF TallyExact
        <4> QED
          BY <4>1, <4>2
      <3>6. PeakReached'
        BY <1>1, <1>4, <3>0, <3>1, <3>3, <3>4, <3>5 DEF PeakReached, TallyExact, Exclusive
      <3> QED
        BY <1>5, <2>4, <3>2, <3>3, <3>6 DEF Exhaustion
    <2>9. CASE Tally(c)
      <3>0. ~Distributed /\ mode = "ReservedPeak" /\ ShardsAnnounced /\ TallyExact
        BY <1>7, <2>5, <2>9 DEF Tally, PublishLimit
      <3>1. /\ pc[c] = "tally" /\ exhausted_peak_shards' = exhausted_peak_shards + 1
            /\ pc'[c] = (IF exhausted_peak_shards + 1 = Shards THEN "publish" ELSE "leave")
            /\ UNCHANGED <<exhaustion_announced, exhausted>>
        BY <1>0, <2>9 DEF Tally, counters
      <3>2. Places'
        BY <1>1, <1>4, <3>0, <3>1 DEF Exhaustion, Places, Exclusive
      <3>3. Tallying' = Tallying \ {c} /\ c \in Tallying /\ Announced' = Announced
        BY <1>1, <3>1 DEF Tallying, Announced
      <3>4. /\ Cardinality(Tallying') = Cardinality(Tallying) - 1
            /\ Cardinality(Tallying) \in Nat /\ Cardinality(Announced) \in Nat
            /\ Cardinality(Tallying) # 0
        BY <3>3, TallyFinite, FS_RemoveElement, FS_CardinalityType, FS_EmptySet
      <3>5. pc'[c] = "publish" => accepted + foreign = Limit
        <4>1. SUFFICES ASSUME exhausted_peak_shards + 1 = Shards
                       PROVE  accepted + foreign = Limit
          BY <3>1
        <4>2. Cardinality(Announced) >= Shards
          BY <1>0, <3>0, <3>4, <4>1 DEF TallyExact
        <4>3. \A i \in ShardIds : Full(i)
          BY <3>0, <4>2, AllAnnounced DEF ShardsAnnounced
        <4> QED
          BY <1>0, <1>6, <3>0, <4>3, AllFull
      <3>6. Definitive'
        BY <1>1, <3>1, <3>5 DEF Exhaustion, Definitive, LimitPublished
      <3>7. ShardsAnnounced'
        BY <1>1, <3>0, <3>1 DEF ShardsAnnounced, Full
      <3>8. TallyExact'
        BY <1>0, <3>0, <3>1, <3>3, <3>4 DEF TallyExact, LimitPublished
      <3>9. PeakReached'
        BY <1>1, <1>4, <3>7, <3>8 DEF PeakReached, Exclusive
      <3> QED
        BY <1>5, <2>4, <3>2, <3>6, <3>9 DEF Exhaustion
    <2> QED
      BY <1>9, <2>6, <2>7, <2>8, <2>9
  <1> QED
    BY <1>8, <1>9

(* A step of a mover that leaves the counters alone. *)
LEMMA ExhaustionMoverFrame ==
  ASSUME Exhaustion, Places', Seeding',
         UNCHANGED <<pc, delta, shard, current, mode, strict_value, used,
                     exhaustion_announced, exhausted_peak_shards, exhausted,
                     accepted, foreign>>,
         tpc'["control"] = "reset" <=> tpc["control"] = "reset"
  PROVE  Exhaustion'
  <1>1. LimitPublished' <=> LimitPublished
    BY DEF LimitPublished
  <1>2. Definitive' /\ StrictReached'
    BY <1>1 DEF Exhaustion, Definitive, StrictReached
  <1>3. ShardsAnnounced => ShardsAnnounced'
    BY DEF ShardsAnnounced, Full
  <1>4. TallyExact => TallyExact'
    BY <1>1 DEF TallyExact, Tallying, Announced
  <1>5. PeakReached'
    BY <1>3, <1>4 DEF Exhaustion, PeakReached
  <1> QED
    BY <1>2, <1>5 DEF Exhaustion

(* In an exclusive section of a standalone engine in peak mode that has    *)
(* granted its limit, everything has been announced and published.         *)
LEMMA PublishedWhenQuiet ==
  ASSUME Known, Exhaustion, ~Distributed, accepted = Limit, Limit > 0,
         \A c \in Clients : pc[c] \notin RoutedPCs
  PROVE  exhausted
  <1>0. /\ \A c \in Clients : pc[c] \notin {"remember", "full", "announce", "tally", "publish"}
        /\ LimitPublished => exhausted
    BY DEF RoutedPCs, LimitPublished
  <1>1. CASE mode # "ReservedPeak"
    <2>1. strict_value = Limit
      <3>1. foreign = 0 /\ accepted \in Nat
        BY DEF Known, Totals, MoverModes, Base, TypeInv, TypeOK, ObserverTypes
      <3> QED
        BY <1>1, <3>1 DEF Known, Totals, ConservesAccepts
    <2> QED
      BY <1>0, <1>1, <2>1 DEF Exhaustion, StrictReached
  <1>2. CASE mode = "ReservedPeak" /\ tpc["control"] = "reset"
    BY <1>2 DEF Exhaustion, PeakReached
  <1>3. CASE mode = "ReservedPeak" /\ tpc["control"] # "reset"
    <2>1. ShardsAnnounced /\ TallyExact
      BY <1>3 DEF Exhaustion, PeakReached
    <2>2. \A i \in ShardIds : exhaustion_announced[i]
      BY <1>0, <1>3, <2>1, AllFull DEF ShardsAnnounced
    <2>3. Announced = ShardIds /\ Tallying = {}
      BY <1>0, <2>2 DEF Announced, Tallying
    <2>4. exhausted_peak_shards = Shards
      BY <2>1, <2>3, TallyFinite, FS_EmptySet, ShardsAssumption DEF TallyExact, Known,
         Base, TypeInv, TypeOK, TallyTypes
    <2> QED
      BY <1>0, <2>1, <2>4 DEF TallyExact
  <1> QED
    BY <1>1, <1>2, <1>3

(* seed_total_after_quiescence() announces exactly what it fills. *)
LEMMA ExhaustionSeedShard ==
  ASSUME Known, Exhaustion, NEW t \in Movers, SeedShard(t)
  PROVE  Exhaustion'
  <1> USE DEF Known, Base, TypeInv, TypeOK, MoverAt, MoveTo
  <1>0. Movers = {"control", "handoff"} /\ Shards \in Nat \ {0}
        /\ tpc \in [Movers -> MoverPCs] /\ idx \in [Movers -> Nat] /\ acc \in [Movers -> Nat]
        /\ used \in [ShardIds -> Nat] /\ exhaustion_announced \in [ShardIds -> BOOLEAN]
    BY ShardsAssumption DEF Movers, MoverTypes, CounterTypes
  <1>1. UNCHANGED <<pc, delta, shard, current, mode, strict_value, exhausted_peak_shards,
                    exhausted, accepted, foreign, ctl_mode>>
    BY DEF SeedShard, tallies, locals, observer, history
  <1>2. tpc[t] = "seed_shards"
    BY DEF SeedShard
  <1>3. t = "control" /\ mode = "Strict" /\ ctl_mode = "Strict" /\ tpc["handoff"] = "top"
    BY <1>0, <1>2 DEF Totals, MoverModes, BeforePublish, Ownership, Moving, Holding, Exclusive
  <1> DEFINE i == idx[t]
             assigned == IF acc[t] < Reserve(i) THEN acc[t] ELSE Reserve(i)
  <1>4. /\ used' = [used EXCEPT ![i] = assigned]
        /\ exhaustion_announced' =
               [exhaustion_announced EXCEPT ![i] = (assigned = Reserve(i))]
        /\ idx' = [idx EXCEPT ![t] = i + 1]
        /\ IF i + 1 < Shards THEN tpc' = tpc
           ELSE tpc' = [tpc EXCEPT ![t] = IF acc[t] = assigned THEN "publish" ELSE "open"]
    BY DEF SeedShard
  <1>5. i \in ShardIds /\ i \in Nat /\ i < Shards
    BY <1>0, <1>2 DEF IndexOK, ShardIds
  <1> HIDE DEF i, assigned
  <1>6. tpc'["handoff"] = "top" /\ tpc'["control"] \in {"seed_shards", "publish", "open"}
    BY <1>0, <1>2, <1>3, <1>4
  <1>7. Places'
    BY <1>1, <1>3, <1>6 DEF Exhaustion, Places
  <1>8. \A j \in ShardIds : j < idx'["control"] => (exhaustion_announced'[j] <=> Full(j)')
    <2>1. SUFFICES ASSUME NEW j \in ShardIds, j < idx'["control"]
                   PROVE  exhaustion_announced'[j] <=> Full(j)'
      OBVIOUS
    <2>2. CASE j = i
      BY <1>0, <1>4, <1>5, <2>2 DEF Full
    <2>3. CASE j # i
      <3>1. j < idx["control"]
        BY <1>0, <1>3, <1>4, <1>5, <2>1, <2>3 DEF i, ShardIds
      <3>2. exhaustion_announced[j] <=> Full(j)
        BY <1>2, <1>3, <3>1 DEF Exhaustion, Seeding
      <3> QED
        BY <1>0, <1>4, <1>5, <2>3, <3>2 DEF Full
    <2> QED
      BY <2>2, <2>3
  <1>9. tpc'["control"] = "publish" => idx'["control"] = Shards
    BY <1>0, <1>2, <1>3, <1>4, <1>5
  <1>10. Seeding'
    BY <1>0, <1>8, <1>9 DEF Seeding, ShardIds
  <1>11. Definitive' /\ StrictReached' /\ PeakReached'
    BY <1>1, <1>3 DEF Exhaustion, Definitive, StrictReached, PeakReached, LimitPublished
  <1> QED
    BY <1>7, <1>10, <1>11 DEF Exhaustion

(* routing_.publish() hands the news over to the new mode. *)
LEMMA ExhaustionPublish ==
  ASSUME Known, Exhaustion, Totals', NEW t \in Movers, PublishMode(t)
  PROVE  Exhaustion'
  <1> USE DEF MoverAt, MoveTo
  <1>0. Movers = {"control", "handoff"} /\ tpc \in [Movers -> MoverPCs]
    BY DEF Movers, Known, Base, TypeInv, TypeOK, MoverTypes
  <1>1. /\ UNCHANGED <<pc, delta, shard, current, strict_value, used, exhaustion_announced,
                       exhausted_peak_shards, exhausted, accepted, foreign, ctl_mode, idx>>
        /\ tpc[t] = "publish" /\ tpc' = [tpc EXCEPT ![t] = "reset"]
        /\ mode' = IF ToReserved(t) THEN "ReservedPeak"
                   ELSE IF strict_owner THEN "DangerStrict" ELSE "RemoteStrict"
    BY DEF PublishMode, tallies, locals, observer, history
  <1>2. \A c \in Clients : pc[c] \notin RoutedPCs
    BY <1>1, NobodyRouted DEF Known, Exclusive
  <1>3. \A c \in Clients : pc[c] \notin {"remember", "full", "announce", "tally", "publish"}
    BY <1>2 DEF RoutedPCs
  <1>4. \/ t = "control" /\ ~Distributed /\ tpc["handoff"] = "top"
        \/ t = "handoff" /\ Distributed /\ tpc["control"] \notin Moving
    BY <1>0, <1>1 DEF Known, Base, Ownership, Moving, Holding, Exclusive
  <1>5. Definitive' /\ (LimitPublished' <=> LimitPublished)
    BY <1>1 DEF Exhaustion, Definitive, LimitPublished
  <1>6. ~Distributed /\ accepted = Limit /\ Limit > 0 => exhausted
    BY <1>2, PublishedWhenQuiet
  <1>7. Places'
    BY <1>0, <1>1, <1>3, <1>4 DEF Exhaustion, Places, ToReserved, Moving, Holding, Exclusive
  <1>8. StrictReached'
    <2>1. SUFFICES ASSUME mode' # "ReservedPeak", ~Distributed, strict_value = Limit, Limit > 0
                   PROVE  exhausted
      BY <1>1, <1>3 DEF StrictReached, LimitPublished
    <2>2. strict_value = accepted /\ foreign = 0
      BY <1>1, <2>1 DEF Totals, ConservesAccepts, MoverModes, Known, Base, TypeInv,
         TypeOK, ObserverTypes
    <2> QED
      BY <1>6, <2>1, <2>2
  <1>9. PeakReached'
    <2>1. SUFFICES ASSUME mode' = "ReservedPeak", ~Distributed PROVE PeakReached'
      BY DEF PeakReached
    <2>2. t = "control" /\ ctl_mode = "Strict" /\ tpc'["control"] = "reset"
      BY <1>0, <1>1, <2>1 DEF ToReserved
    <2>3. \A j \in ShardIds : exhaustion_announced[j] <=> Full(j)
      BY <1>1, <2>2 DEF Exhaustion, Seeding
    <2>4. ShardsAnnounced'
      BY <1>1, <1>3, <2>3 DEF ShardsAnnounced, Full
    <2> QED
      BY <1>1, <1>6, <2>1, <2>2, <2>4 DEF PeakReached
  <1>10. Seeding'
    BY <1>0, <1>1, <1>4 DEF Seeding, Moving, Holding, Exclusive
  <1> QED
    BY <1>5, <1>7, <1>8, <1>9, <1>10 DEF Exhaustion

(* exhausted_peak_shards_.store(): the tally starts with the full shards. *)
LEMMA ExhaustionReset ==
  ASSUME Known, Exhaustion, NEW t \in Movers, ResetTally(t)
  PROVE  Exhaustion'
  <1> USE DEF MoverAt, MoveTo
  <1>0. Movers = {"control", "handoff"} /\ tpc \in [Movers -> MoverPCs]
    BY DEF Movers, Known, Base, TypeInv, TypeOK, MoverTypes
  <1>1. /\ UNCHANGED <<pc, delta, shard, current, mode, strict_value, used,
                       exhaustion_announced, exhausted, accepted, foreign, ctl_mode, idx>>
        /\ tpc[t] = "reset" /\ tpc' = [tpc EXCEPT ![t] = "epoch_bump"]
        /\ exhausted_peak_shards' = FreshTally(t)
    BY DEF ResetTally, counters, locals, observer, history
  <1>2. \A c \in Clients : pc[c] \notin RoutedPCs
    BY <1>1, NobodyRouted DEF Known, Exclusive
  <1>3. \A c \in Clients : pc[c] \notin {"remember", "full", "announce", "tally", "publish"}
    BY <1>2 DEF RoutedPCs
  <1>4. \/ t = "control" /\ ~Distributed /\ tpc["handoff"] = "top"
        \/ t = "handoff" /\ Distributed /\ tpc["control"] \notin Moving
    BY <1>0, <1>1 DEF Known, Base, Ownership, Moving, Holding, Exclusive
  <1>5. /\ Definitive' /\ StrictReached'
        /\ LimitPublished' <=> LimitPublished
    BY <1>1 DEF Exhaustion, Definitive, StrictReached, LimitPublished
  <1>6. Places'
    BY <1>0, <1>1, <1>4 DEF Exhaustion, Places, Moving, Holding, Exclusive
  <1>7. Seeding'
    BY <1>0, <1>1, <1>4 DEF Seeding, Moving, Holding, Exclusive
  <1>8. PeakReached'
    <2>1. SUFFICES ASSUME mode = "ReservedPeak", ~Distributed PROVE PeakReached'
      BY <1>1 DEF PeakReached
    <2>2. t = "control" /\ ctl_mode = "Strict" /\ tpc'["control"] = "epoch_bump"
      BY <1>0, <1>1, <1>4, <2>1 DEF Exhaustion, Places
    <2>3. ShardsAnnounced /\ (accepted = Limit /\ Limit > 0 => exhausted)
      BY <1>1, <2>1, <2>2 DEF Exhaustion, PeakReached
    <2>4. \A i \in ShardIds : exhaustion_announced[i] <=> Full(i)
      BY <1>3, <2>3 DEF ShardsAnnounced
    <2>5. Tallying' = {} /\ Announced' = Announced
          /\ Announced = {i \in ShardIds : used[i] = Reserve(i)}
      BY <1>1, <1>3, <2>4 DEF Tallying, Announced, Full
    <2>6. exhausted_peak_shards' = Cardinality(Announced)
      BY <1>1, <2>2, <2>5 DEF FreshTally, ToReserved, ExhaustedShards
    <2>7. exhausted_peak_shards' + Cardinality(Tallying') = Cardinality(Announced')
      BY <2>5, <2>6, FS_EmptySet, TallyFinite, FS_CardinalityType
    <2>8. exhausted_peak_shards' = Shards /\ Limit > 0 => exhausted
      <3>1. SUFFICES ASSUME exhausted_peak_shards' = Shards, Limit > 0 PROVE exhausted
        OBVIOUS
      <3>2. Cardinality(Announced) >= Shards
        BY <2>6, <3>1, ShardsAssumption
      <3>3. \A i \in ShardIds : Full(i)
        BY <2>4, <3>2, AllAnnounced
      <3> QED
        BY <2>1, <2>3, <3>1, <3>3, AllFull
    <2>9. ShardsAnnounced'
      BY <1>1, <2>3 DEF ShardsAnnounced, Full
    <2> QED
      BY <1>1, <2>2, <2>7, <2>8, <2>9 DEF PeakReached, TallyExact, LimitPublished
  <1> QED
    BY <1>5, <1>6, <1>7, <1>8 DEF Exhaustion

(* Every shared step of the movers keeps the news. *)
LEMMA ExhaustionMover ==
  ASSUME Known, Exhaustion, Totals', NEW t \in Movers, MoverStep(t)
  PROVE  Exhaustion'
  <1> USE DEF MoverAt, MoveTo
  <1>0. Movers = {"control", "handoff"} /\ tpc \in [Movers -> MoverPCs]
        /\ idx \in [Movers -> Nat]
    BY DEF Movers, Known, Base, TypeInv, TypeOK, MoverTypes
  <1>1. CASE Close(t) \/ Drained(t) \/ ReadShard(t) \/ BumpEpoch(t) \/ Open(t)
    <2>1. UNCHANGED <<pc, delta, shard, current, mode, strict_value, used,
                      exhaustion_announced, exhausted_peak_shards, exhausted,
                      accepted, foreign, ctl_mode>>
      BY <1>1 DEF Close, Drained, ReadShard, BumpEpoch, Open, counters, tallies, locals,
         observer, history
    <2>2. \A u \in Movers \ {t} : tpc'[u] = tpc[u] /\ idx'[u] = idx[u]
      BY <1>0, <1>1 DEF Close, Drained, ReadShard, BumpEpoch, Open, MoverDone
    <2>3. \/ tpc[t] \in {"close", "drain", "observe", "collect", "open"}
             /\ tpc'[t] \in {"drain", "collect", "seed_shards", "observe", "danger",
                             "seed_strict", "prepared", "open", "top"}
          \/ tpc[t] = "epoch_bump" /\ tpc'[t] \in {"exhaust", "open"}
      <3>1. CASE ReadShard(t)
        BY <1>0, <3>1 DEF ReadShard
      <3>2. CASE ~ReadShard(t)
        BY <1>0, <1>1, <3>2 DEF Close, Drained, BumpEpoch, Open, MoverDone
      <3> QED
        BY <3>1, <3>2
    <2>4. tpc'[t] = "exhaust" => t = "handoff" /\ (strict_value = Limit \/ tpc[t] = "exhaust")
      BY <1>0, <1>1, <2>3 DEF Close, Drained, ReadShard, BumpEpoch, GlobalLimitReached, Open, MoverDone
    <2>5. tpc'[t] = "seed_shards" => idx'[t] = 0
      <3>1. CASE Drained(t)
        BY <1>0, <3>1 DEF Drained
      <3>2. CASE ~Drained(t)
        BY <1>0, <1>1, <3>2 DEF Close, ReadShard, BumpEpoch, Open, MoverDone
      <3> QED
        BY <3>1, <3>2
    <2>6. Places'
      BY <1>0, <2>1, <2>2, <2>3, <2>4 DEF Exhaustion, Places
    <2>7. Seeding'
      BY <1>0, <2>1, <2>2, <2>3, <2>5 DEF Exhaustion, Seeding, Full, ShardIds
    <2> QED
      BY <1>0, <2>1, <2>2, <2>3, <2>6, <2>7, ExhaustionMoverFrame
  <1>2. CASE SeedStrict(t)
    <2>1. /\ UNCHANGED <<pc, delta, shard, current, mode, used, exhaustion_announced,
                         exhausted_peak_shards, exhausted, accepted, foreign, ctl_mode, idx>>
          /\ tpc[t] = "seed_strict"
          /\ \A u \in Movers \ {t} : tpc'[u] = tpc[u] /\ tpc[u] \notin Moving
          /\ tpc'[t] \in {"open", "publish"}
      BY <1>0, <1>2 DEF SeedStrict, tallies, locals, observer, history, Known, Base,
         Ownership, Moving, Holding, Exclusive
    <2>2. mode = "ReservedPeak" /\ (t = "control" => ctl_mode = "ReservedPeak")
      BY <1>0, <2>1 DEF Known, Totals, MoverModes, BeforePublish
    <2>3. Places'
      BY <1>0, <2>1, <2>2 DEF Exhaustion, Places, Moving, Holding, Exclusive
    <2>4. Seeding'
      BY <1>0, <2>1, <2>2 DEF Seeding, Moving, Holding, Exclusive
    <2>5. LimitPublished' <=> LimitPublished
      BY <2>1 DEF LimitPublished
    <2>6. Definitive' /\ StrictReached'
      BY <2>1, <2>2, <2>5 DEF Exhaustion, Definitive, StrictReached
    <2>7. ShardsAnnounced => ShardsAnnounced'
      BY <2>1 DEF ShardsAnnounced, Full
    <2>8. TallyExact => TallyExact'
      BY <2>1, <2>5 DEF TallyExact, Tallying, Announced
    <2>9. tpc'["control"] # "reset" /\ tpc["control"] # "reset"
      BY <1>0, <2>1 DEF Moving, Holding, Exclusive
    <2>10. PeakReached'
      BY <2>1, <2>2, <2>7, <2>8, <2>9 DEF Exhaustion, PeakReached
    <2> QED
      BY <2>3, <2>4, <2>6, <2>10 DEF Exhaustion
  <1> QED
    BY <1>1, <1>2, ExhaustionSeedShard, ExhaustionPublish, ExhaustionReset DEF MoverStep

(* The control loop's own steps and the handoff thread's: a commit finds   *)
(* nothing published yet, and marks the limit reached only at the limit.   *)
LEMMA ExhaustionRest ==
  ASSUME Known, Exhaustion,
         \/ ControlTop \/ ObserveStrict \/ RequestDanger \/ LoadEpoch
         \/ PublishSnapshot \/ Decide \/ OnHot
         \/ BeginHandoff \/ AbortHandoff \/ ExhaustOnCommit
         \/ \E g \in 0..Limit : CommitHandoff(g)
         \/ DrainStoreBuffer
  PROVE  Exhaustion'
  <1> USE DEF MoverAt, MoveTo
  <1>0. Movers = {"control", "handoff"} /\ tpc \in [Movers -> MoverPCs]
        /\ idx \in [Movers -> Nat]
    BY DEF Movers, Known, Base, TypeInv, TypeOK, MoverTypes
  <1>1. UNCHANGED <<pc, delta, shard, current, mode, strict_value, used,
                    exhaustion_announced, exhausted_peak_shards, accepted>>
    BY DEF ControlTop, ObserveStrict, RequestDanger, LoadEpoch, PublishSnapshot,
       Decide, OnHot, BeginHandoff, AbortHandoff, ExhaustOnCommit, CommitHandoff,
       DrainStoreBuffer, counters, tallies, locals, history
  <1>2. CASE \/ ControlTop \/ ObserveStrict \/ RequestDanger \/ LoadEpoch
             \/ PublishSnapshot \/ Decide \/ OnHot \/ DrainStoreBuffer
    <2>1. /\ UNCHANGED <<exhausted, foreign>> /\ tpc'["handoff"] = tpc["handoff"]
          /\ \/ tpc'["control"] = tpc["control"] /\ UNCHANGED <<ctl_mode, idx>>
             \/ /\ tpc["control"] \in {"top", "value", "danger", "epoch", "snapshot", "decide"}
                /\ tpc'["control"] \in {"observe", "value", "danger", "epoch", "snapshot",
                                        "decide", "close", "top"}
      BY <1>0, <1>2 DEF ControlTop, ObserveStrict, RequestDanger, LoadEpoch,
         PublishSnapshot, Decide, MoverDone, OnHot, DrainStoreBuffer, tallies, movers,
         observer, history
    <2>2. Places'
      BY <1>1, <2>1 DEF Exhaustion, Places
    <2>3. Seeding'
      BY <1>1, <2>1 DEF Exhaustion, Seeding, Full
    <2> QED
      BY <1>1, <2>1, <2>2, <2>3, ExhaustionMoverFrame
  <1>3. CASE BeginHandoff \/ AbortHandoff
    <2>1. /\ UNCHANGED <<exhausted, foreign, ctl_mode>> /\ tpc'["control"] = tpc["control"]
          /\ idx'["control"] = idx["control"] /\ tpc'["handoff"] \in {"close", "open", "top"}
      BY <1>0, <1>3 DEF BeginHandoff, AbortHandoff, MoverDone, tallies, observer, history
    <2>2. Places' /\ Seeding'
      BY <1>1, <2>1 DEF Exhaustion, Places, Seeding, Full
    <2> QED
      BY <1>1, <2>1, <2>2, ExhaustionMoverFrame
  <1>4. CASE ExhaustOnCommit \/ \E g \in 0..Limit : CommitHandoff(g)
    <2>1. /\ tpc["handoff"] \in {"exhaust", "prepared"}
          /\ tpc'["handoff"] \in {"open", "seed_strict"}
          /\ tpc'["control"] = tpc["control"] /\ UNCHANGED <<ctl_mode, idx>>
      BY <1>0, <1>4, OnlyPrepared DEF ExhaustOnCommit, CommitHandoff, observer, Known, Base
    <2>2. Distributed /\ tpc["control"] \notin Moving
      BY <1>0, <2>1 DEF Known, Base, Ownership
    <2>3. Seeding' /\ PeakReached'
      BY <1>1, <2>1, <2>2 DEF Seeding, PeakReached, Moving, Holding, Exclusive
    <2>4. CASE ExhaustOnCommit
      <3>1. tpc["handoff"] = "exhaust" /\ foreign' = foreign /\ exhausted'
            /\ tpc'["handoff"] = "open"
        BY <1>0, <2>4 DEF ExhaustOnCommit, history
      <3>2. mode # "ReservedPeak" /\ accepted + foreign = Limit
        BY <3>1 DEF Exhaustion, Places, Known, Totals, ConservesAccepts
      <3>3. Places'
        BY <1>1, <2>1, <2>2, <3>1, <3>2 DEF Exhaustion, Places
      <3>4. Definitive' /\ StrictReached'
        BY <1>1, <3>1, <3>2 DEF Exhaustion, Definitive, StrictReached, LimitPublished
      <3> QED
        BY <2>3, <3>3, <3>4 DEF Exhaustion
    <2>5. CASE \E g \in 0..Limit : CommitHandoff(g)
      <3>1. mode = "ReservedPeak" /\ exhausted' = exhausted /\ tpc'["handoff"] = "seed_strict"
        BY <1>0, <2>5 DEF CommitHandoff, tallies
      <3>2. ~LimitPublished'
        BY <1>1, <2>2, <3>1 DEF Exhaustion, Places, LimitPublished
      <3>3. Places'
        BY <1>1, <2>1, <2>2, <3>1 DEF Exhaustion, Places
      <3>4. Definitive' /\ StrictReached'
        BY <1>1, <3>1, <3>2 DEF Definitive, StrictReached
      <3> QED
        BY <2>3, <3>3, <3>4 DEF Exhaustion
    <2> QED
      BY <1>4, <2>4, <2>5
  <1> QED
    BY <1>2, <1>3, <1>4

(* Every step of every thread preserves the invariant. *)
LEMMA ExhaustionStep ==
  ASSUME ~CloseIsBuffered
  PROVE  Known /\ Exhaustion /\ [Next]_vars => Exhaustion'
  <1> SUFFICES ASSUME Known, Exhaustion, [Next]_vars PROVE Exhaustion'
    OBVIOUS
  <1>0. Totals'
    BY TotalsStep DEF Known
  <1>1. CASE UNCHANGED vars
    BY <1>1, ExhaustionFrame DEF vars, counters, tallies, locals, movers, observer, history
  <1>2. CASE Next
    <2>1. ASSUME NEW c \in Clients,
                 ClientStep(c) \/ \E d \in Deltas, s \in ShardIds : Apply(c, d, s)
          PROVE  Exhaustion'
      BY <2>1, ExhaustionOutside, ExhaustionExchange, ExhaustionNews DEF ClientStep
    <2>2. ASSUME NEW t \in Movers, MoverStep(t) PROVE Exhaustion'
      BY <1>0, <2>2, ExhaustionMover
    <2>3. ASSUME ControlStep \/ OnHot \/ HandoffStep \/ DrainStoreBuffer PROVE Exhaustion'
      BY <2>2, <2>3, ExhaustionRest DEF ControlStep, HandoffStep, Movers
    <2> QED
      BY <1>2, <2>1, <2>3 DEF Next
  <1> QED
    BY <1>1, <1>2

(* The invariant the theorems of this module rest on *)
LEMMA ExhaustionInvariant ==
  ASSUME ~CloseIsBuffered
  PROVE  Spec => [](Known /\ Exhaustion)
  <1>1. Init => Known /\ Exhaustion
    BY TypeInit, OwnershipInit, TotalsInit, ExhaustionInit DEF Known, Base
  <1>2. Known /\ Exhaustion /\ [Next]_vars => (Known /\ Exhaustion)'
    BY TypeStep, OwnershipStep, TotalsStep, ExhaustionStep DEF Known, Base
  <1> QED
    BY <1>1, <1>2, PTL DEF Spec

(* The cache that answers Rejected forever is set only when the whole      *)
(* limit has been granted, however requests race with each other and with  *)
(* a mode transition or a committed handoff.                               *)
THEOREM ExhaustedDefinitively ==
  ASSUME ~CloseIsBuffered
  PROVE  Spec => []ExhaustedIsDefinitive
  <1>1. Exhaustion => ExhaustedIsDefinitive
    BY DEF Exhaustion, Definitive, LimitPublished, ExhaustedIsDefinitive
  <1> QED
    BY ExhaustionInvariant, <1>1, PTL

(* The last unit of a standalone engine's limit is always announced: when  *)
(* it has been granted and no request is inside, the cache is set.         *)
THEOREM ExhaustionIsAnnounced ==
  ASSUME ~CloseIsBuffered
  PROVE  Spec => []ExhaustionAnnounced
  <1>1. Known /\ Exhaustion => ExhaustionAnnounced
    BY PublishedWhenQuiet DEF ExhaustionAnnounced, RoutedPCs
  <1> QED
    BY ExhaustionInvariant, <1>1, PTL

(* Every step of a standalone engine is a step of the abstract limit       *)
(* counter or leaves its variables alone.                                  *)
LEMMA AbstractStep ==
  ASSUME ~CloseIsBuffered, ~Distributed, Known, Exhaustion, Known', Exhaustion',
         accepted' <= Limit, [Next]_vars
  PROVE  [Abstract!Next]_<<accepted, exhausted>>
  <1>0. accepted \in Nat /\ accepted' \in Nat
    BY DEF Known, Base, TypeInv, TypeOK, ObserverTypes
  <1>1. exhausted' # exhausted => exhausted' = TRUE /\ accepted' = Limit
    <2>1. exhausted \in BOOLEAN /\ exhausted' \in BOOLEAN /\ foreign' = 0
      BY DEF Known, Base, TypeInv, TypeOK, TallyTypes, Totals, MoverModes
    <2>2. exhausted => exhausted'
      BY DEF Next, ClientStep, Apply, TryEnter, Count, Recheck, Leave, LoadMode, LoadCell,
         CompareExchange, Remember, ShardFull, Announce, Tally, PublishLimit,
         ControlStep, MoverStep, Close, Drained, ReadShard, SeedShard, SeedStrict, PublishMode,
         ResetTally, BumpEpoch, Open, ControlTop, ObserveStrict, RequestDanger,
         LoadEpoch, PublishSnapshot, Decide, OnHot, HandoffStep, BeginHandoff, AbortHandoff,
         CommitHandoff, ExhaustOnCommit, DrainStoreBuffer, tallies, vars
    <2>3. exhausted' => accepted' + foreign' = Limit
      BY DEF Exhaustion, Definitive, LimitPublished
    <2> QED
      BY <1>0, <2>1, <2>2, <2>3
  <1>2. accepted' # accepted =>
           exhausted' = exhausted /\ \E d \in Deltas : accepted' = accepted + d
    <2>1. SUFFICES ASSUME accepted' # accepted
                   PROVE  exhausted' = exhausted /\ \E d \in Deltas : accepted' = accepted + d
      OBVIOUS
    <2>2. \E c \in Clients : CompareExchange(c)
      BY <2>1 DEF Next, ClientStep, Apply, TryEnter, Count, Recheck, Leave, LoadMode,
         LoadCell, Remember, ShardFull, Announce, Tally, PublishLimit,
         ControlStep, MoverStep, Close, Drained, ReadShard, SeedShard, SeedStrict, PublishMode,
         ResetTally, BumpEpoch, Open, ControlTop, ObserveStrict, RequestDanger,
         LoadEpoch, PublishSnapshot, Decide, OnHot, HandoffStep, BeginHandoff, AbortHandoff,
         CommitHandoff, ExhaustOnCommit, DrainStoreBuffer, history, vars
    <2>3. PICK c \in Clients : CompareExchange(c)
      BY <2>2
    <2>4. exhausted' = exhausted /\ accepted' = accepted + delta[c] /\ pc[c] = "cas"
      BY <2>1, <2>3 DEF CompareExchange, tallies, At
    <2>5. delta[c] \in Deltas
      BY <2>4 DEF Exhaustion, Places
    <2> QED
      BY <2>4, <2>5
  <1>3. CASE accepted' # accepted
    <2>1. PICK d \in Deltas : accepted' = accepted + d
      BY <1>2, <1>3
    <2>2. Abstract!Accept(d)
      BY <1>0, <1>2, <1>3, <2>1 DEF Abstract!Accept
    <2> QED
      BY <2>2 DEF Abstract!Next
  <1>4. CASE accepted' = accepted /\ exhausted' # exhausted
    <2>1. Abstract!Exhaust
      BY <1>1, <1>4 DEF Abstract!Exhaust
    <2> QED
      BY <2>1 DEF Abstract!Next
  <1> QED
    BY <1>3, <1>4

(* A standalone engine implements the abstract limit counter: its modes,   *)
(* its sharded escrow and its transitions are invisible to a client.       *)
THEOREM EngineImplementsLimitCounter ==
  ASSUME ~CloseIsBuffered, ~Distributed
  PROVE  Spec => ImplementsLimitCounter
  <1>1. Init => Abstract!Init
    BY DEF Init, Abstract!Init
  <1>2. Known => accepted <= Limit
    BY WithinLimit
  <1>3. Known /\ Exhaustion /\ [Next]_vars /\ (Known /\ Exhaustion)' /\ (accepted <= Limit)'
           => [Abstract!Next]_<<accepted, exhausted>>
    BY AbstractStep
  <1> QED
    BY <1>1, <1>2, <1>3, ExhaustionInvariant, PTL
    DEF Spec, ImplementsLimitCounter, Abstract!Spec
=============================================================================
