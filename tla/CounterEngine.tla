---------------------------- MODULE CounterEngine ----------------------------
(***************************************************************************)
(* One CounterEngine process (cpp/src/engine.cpp): client threads inside   *)
(* apply(), the control thread inside control_loop(), and the handoff      *)
(* thread inside begin/abort/commit_distributed_handoff().  Every step is  *)
(* one access to shared memory, so that all interleavings of the lock-free *)
(* fast path with a mode transition are explored.                          *)
(*                                                                         *)
(* An engine whose peak reservation is the whole limit is a standalone     *)
(* one: its control thread moves it Strict -> ReservedPeak -> DangerStrict.*)
(* One with a smaller reservation is a cluster node (Distributed): it      *)
(* boots in ReservedPeak and only the handoff thread moves it on.          *)
(***************************************************************************)
EXTENDS Integers, FiniteSets, Sums

CONSTANTS
    Clients,               \* client threads
    Limit,                 \* strict_.limit()
    LocalPeakReservation,  \* local_peak_reservation_
    Shards,                \* reserved_.shards(), a number
    DangerThreshold,       \* danger_threshold_
    Deltas,                \* the deltas clients send
    StartPeak,             \* config_.start_peak
    OwnerRoles,            \* what a cluster node may be: strict owner or not
    CloseIsBuffered        \* TRUE: on this machine the release store of close()
                           \* may become visible after later loads (x86 TSO)

Distributed == LocalPeakReservation # Limit

ASSUME ClientsAssumption == IsFiniteSet(Clients)
ASSUME AmountsAssumption == /\ Limit \in Nat
                            /\ LocalPeakReservation \in 0..Limit
                            /\ DangerThreshold \in Nat
                            /\ Deltas \subseteq Nat
ASSUME ShardsAssumption == Shards \in Nat \ {0}
(* make_runtime_config: a component reservation requires initial peak mode *)
ValidModes == Distributed => StartPeak
ASSUME ModesAssumption == /\ StartPeak \in BOOLEAN
                          /\ ValidModes
                          /\ OwnerRoles \subseteq BOOLEAN
                          /\ CloseIsBuffered \in BOOLEAN

ShardIds == 0..(Shards - 1)
Movers == {"control", "handoff"}
Modes == {"Strict", "ReservedPeak", "DangerStrict", "RemoteStrict"}

(* ReservedCounter::ReservedCounter: the reservation of shard i *)
Reserve(i) == LocalPeakReservation \div Shards
              + (IF i < LocalPeakReservation % Shards THEN 1 ELSE 0)

VARIABLES
    \* AdmissionGate
    open, in_flight, close_buffered,
    \* RoutingMap, StrictCounter, ReservedCounter
    mode, strict_value, used, exhaustion_announced,
    \* the engine's own atomics
    exhausted_peak_shards, exhausted, has_active_counter, replication_epoch,
    peak_requested, danger_requested, distributed_handoff_active,
    \* client threads: program counter and the locals of apply()
    pc, delta, shard, seen, current,
    \* control and handoff threads: program counter, loop index, accumulator
    tpc, idx, acc,
    \* locals of control_loop() and the last published snapshot
    ctl_mode, ctl_has, ctl_epoch, last_epoch, published,
    \* configuration of this node: is it the cluster's strict owner?
    strict_owner,
    \* history: the accepted deltas, and the total the other components
    \* contributed to the global total of a committed handoff
    accepted, foreign

gate      == <<open, in_flight, close_buffered>>
counters  == <<mode, strict_value, used, exhaustion_announced>>
tallies   == <<exhausted_peak_shards, exhausted, has_active_counter, replication_epoch>>
requests  == <<peak_requested, danger_requested, distributed_handoff_active>>
locals    == <<delta, shard, seen, current>>
movers    == <<tpc, idx, acc>>
observer  == <<ctl_mode, ctl_has, ctl_epoch, last_epoch, published>>
history   == <<accepted, foreign>>
vars == <<gate, counters, tallies, requests, pc, locals, movers, observer,
          strict_owner, history>>

ExhaustedShards == Cardinality({i \in ShardIds : used[i] = Reserve(i)})

Init ==
    /\ open = TRUE /\ in_flight = 0 /\ close_buffered = FALSE
    /\ mode = IF StartPeak THEN "ReservedPeak" ELSE "Strict"
    /\ strict_value = 0
    /\ used = [i \in ShardIds |-> 0]
    /\ exhaustion_announced = [i \in ShardIds |-> StartPeak /\ Reserve(i) = 0]
    /\ exhausted_peak_shards = IF StartPeak THEN ExhaustedShards ELSE 0
    /\ exhausted = FALSE /\ has_active_counter = FALSE
    /\ replication_epoch = IF StartPeak THEN 1 ELSE 0
    /\ peak_requested = FALSE /\ danger_requested = FALSE
    /\ distributed_handoff_active = FALSE
    /\ pc = [c \in Clients |-> "idle"]
    /\ delta = [c \in Clients |-> 0]
    /\ shard = [c \in Clients |-> 0]
    /\ seen = [c \in Clients |-> "Strict"]
    /\ current = [c \in Clients |-> 0]
    /\ tpc = [t \in Movers |-> "top"]
    /\ idx = [t \in Movers |-> 0]
    /\ acc = [t \in Movers |-> 0]
    /\ ctl_mode = "Strict" /\ ctl_has = FALSE /\ ctl_epoch = 0
    /\ last_epoch = -1       \* numeric_limits<uint64_t>::max()
    /\ published = [epoch |-> -1, value |-> 0, from |-> "None"]
    /\ strict_owner \in IF Distributed THEN OwnerRoles ELSE {TRUE}
    /\ accepted = 0 /\ foreign = 0

-----------------------------------------------------------------------------
(* apply(): one client request.                                            *)

GoTo(c, next) == pc' = [pc EXCEPT ![c] = next]
At(c, here)   == pc[c] = here

(* apply() returns: its locals are gone *)
Return(c) ==
    /\ GoTo(c, "idle")
    /\ delta' = [delta EXCEPT ![c] = 0]
    /\ shard' = [shard EXCEPT ![c] = 0]
    /\ seen' = [seen EXCEPT ![c] = "Strict"]
    /\ current' = [current EXCEPT ![c] = 0]

(* exhausted_cache_.known_exhausted() answers Rejected without the gate *)
Apply(c, d, s) ==
    /\ At(c, "idle")
    /\ IF exhausted
       THEN UNCHANGED <<pc, delta, shard>>
       ELSE /\ GoTo(c, "enter")
            /\ delta' = [delta EXCEPT ![c] = d]
            /\ shard' = [shard EXCEPT ![c] = s]
    /\ UNCHANGED <<gate, counters, tallies, requests, seen, current, movers,
                   observer, strict_owner, history>>

(* AdmissionGate::try_enter: load, count, load again, back out.  A mutated  *)
(* form backs out without taking its count back.                            *)
TryEnter(c) ==
    /\ At(c, "enter")
    /\ IF open THEN GoTo(c, "count") /\ UNCHANGED locals ELSE Return(c)
    /\ UNCHANGED <<gate, counters, tallies, requests, movers, observer,
                   strict_owner, history>>

Count(c) ==
    /\ At(c, "count")
    /\ in_flight' = in_flight + 1
    /\ GoTo(c, "recheck")
    /\ UNCHANGED <<open, close_buffered, counters, tallies, requests, locals,
                   movers, observer, strict_owner, history>>

RecheckForgetsCount(c) ==
    /\ At(c, "recheck")
    /\ IF open THEN GoTo(c, "route") /\ UNCHANGED locals ELSE Return(c)
    /\ UNCHANGED <<gate, counters, tallies, requests, movers, observer,
                   strict_owner, history>>

Recheck(c) ==
    /\ At(c, "recheck")
    /\ GoTo(c, IF open THEN "route" ELSE "leave")
    /\ UNCHANGED <<gate, counters, tallies, requests, locals, movers, observer,
                   strict_owner, history>>

(* ~AdmissionGuard, and the fetch_sub of a try_enter that backs out *)
Leave(c) ==
    /\ At(c, "leave")
    /\ in_flight' = in_flight - 1
    /\ Return(c)
    /\ UNCHANGED <<open, close_buffered, counters, tallies, requests, movers,
                   observer, strict_owner, history>>

(* routing_.mode() is loaded once; RemoteStrict answers Moved *)
LoadMode(c) ==
    /\ At(c, "route")
    /\ seen' = [seen EXCEPT ![c] = mode]
    /\ GoTo(c, IF mode = "RemoteStrict" THEN "leave" ELSE "load")
    /\ UNCHANGED <<gate, counters, tallies, requests, delta, shard, current,
                   movers, observer, strict_owner, history>>

(* The atomic word apply() works on, and its bound *)
Cell(c)     == IF seen[c] = "ReservedPeak" THEN used[shard[c]] ELSE strict_value
Capacity(c) == IF seen[c] = "ReservedPeak" THEN Reserve(shard[c]) ELSE Limit

LoadCell(c) ==
    /\ At(c, "load")
    /\ current' = [current EXCEPT ![c] = Cell(c)]
    /\ GoTo(c, "cas")
    /\ UNCHANGED <<gate, counters, tallies, requests, delta, shard, seen,
                   movers, observer, strict_owner, history>>

(* StrictCounter::apply and ReservedCounter::apply: the check on the value  *)
(* read, then the compare-exchange (a spurious failure is a stutter).       *)
(* Mutated forms: an off-by-one check; a plain store for the exchange.      *)
FitsWithOneMore(c) == delta[c] <= Capacity(c) + 1 - current[c]
FitsIn(c) == current[c] <= Capacity(c) /\ delta[c] <= Capacity(c) - current[c]

PlainStore(c) == TRUE
CellUnchanged(c) == Cell(c) = current[c]

CompareExchange(c) ==
    /\ At(c, "cas")
    /\ \/ /\ ~FitsIn(c)
          /\ GoTo(c, "leave")
          /\ UNCHANGED <<used, strict_value, current, accepted>>
       \/ /\ FitsIn(c) /\ ~CellUnchanged(c)
          /\ current' = [current EXCEPT ![c] = Cell(c)]
          /\ UNCHANGED <<pc, used, strict_value, accepted>>
       \/ /\ FitsIn(c) /\ CellUnchanged(c)
          /\ current' = [current EXCEPT ![c] = @ + delta[c]]
          /\ IF seen[c] = "ReservedPeak"
             THEN /\ used' = [used EXCEPT ![shard[c]] = current[c] + delta[c]]
                  /\ UNCHANGED strict_value
             ELSE /\ strict_value' = current[c] + delta[c]
                  /\ UNCHANGED used
          /\ accepted' = accepted + delta[c]
          /\ GoTo(c, "remember")
    /\ UNCHANGED <<gate, mode, exhaustion_announced, tallies, requests, delta,
                   shard, seen, movers, observer, strict_owner, foreign>>

(* remember_counter(), then the test of which limit this request reached *)
Remember(c) ==
    /\ At(c, "remember")
    /\ has_active_counter' = TRUE
    /\ GoTo(c, IF seen[c] # "ReservedPeak"
               THEN IF current[c] = Limit THEN "publish" ELSE "leave"
               ELSE IF Distributed THEN "leave" ELSE "full")
    /\ UNCHANGED <<gate, counters, exhausted_peak_shards, exhausted,
                   replication_epoch, requests, locals, movers, observer,
                   strict_owner, history>>

(* mark_exhaustion_if_new(): reload the shard, then claim its announcement *)
ShardFull(c) ==
    /\ At(c, "full")
    /\ GoTo(c, IF used[shard[c]] = Reserve(shard[c]) THEN "announce" ELSE "leave")
    /\ UNCHANGED <<gate, counters, tallies, requests, locals, movers, observer,
                   strict_owner, history>>

Announce(c) ==
    /\ At(c, "announce")
    /\ exhaustion_announced' = [exhaustion_announced EXCEPT ![shard[c]] = TRUE]
    /\ GoTo(c, IF exhaustion_announced[shard[c]] THEN "leave" ELSE "tally")
    /\ UNCHANGED <<gate, mode, strict_value, used, tallies, requests, locals,
                   movers, observer, strict_owner, history>>

Tally(c) ==
    /\ At(c, "tally")
    /\ exhausted_peak_shards' = exhausted_peak_shards + 1
    /\ GoTo(c, IF exhausted_peak_shards + 1 = Shards THEN "publish" ELSE "leave")
    /\ UNCHANGED <<gate, counters, exhausted, has_active_counter,
                   replication_epoch, requests, locals, movers, observer,
                   strict_owner, history>>

(* publish_limit_reached(): LimitReachedCache::mark_exhausted() *)
PublishLimit(c) ==
    /\ At(c, "publish")
    /\ exhausted' = TRUE
    /\ GoTo(c, "leave")
    /\ UNCHANGED <<gate, counters, exhausted_peak_shards, has_active_counter,
                   replication_epoch, requests, locals, movers, observer,
                   strict_owner, history>>

(* Every step of a request that has begun *)
ClientStep(c) ==
    \/ TryEnter(c) \/ Count(c) \/ Recheck(c) \/ Leave(c)
    \/ LoadMode(c) \/ LoadCell(c) \/ CompareExchange(c)
    \/ Remember(c) \/ ShardFull(c) \/ Announce(c) \/ Tally(c) \/ PublishLimit(c)

-----------------------------------------------------------------------------
(* Steps the control thread and the handoff thread share.                  *)

MoverAt(t, here) == tpc[t] = here
MoveTo(t, next)  == tpc' = [tpc EXCEPT ![t] = next]
(* The mover's function returns, or a turn of control_loop() ends *)
MoverDone(t) == /\ MoveTo(t, "top")
                /\ idx' = [idx EXCEPT ![t] = 0]
                /\ acc' = [acc EXCEPT ![t] = 0]

(* close_and_drain(): AdmissionGate::close() *)
Close(t) ==
    /\ MoverAt(t, "close")
    /\ IF CloseIsBuffered
       THEN close_buffered' = TRUE /\ UNCHANGED open
       ELSE open' = FALSE /\ UNCHANGED close_buffered
    /\ MoveTo(t, "drain")
    /\ UNCHANGED <<in_flight, counters, tallies, requests, pc, locals, idx, acc,
                   observer, strict_owner, history>>

(* The processor writes the buffered store of close() to memory *)
DrainStoreBuffer ==
    /\ close_buffered
    /\ open' = FALSE
    /\ close_buffered' = FALSE
    /\ UNCHANGED <<in_flight, counters, tallies, requests, pc, locals, movers,
                   observer, strict_owner, history>>

(* A store of a mover becomes visible only after its buffered close() has  *)
Ordered == ~close_buffered

(* AdmissionGate::drained(), and a mutated form that does not wait *)
DrainNotAwaited == TRUE
NoneInFlight == in_flight = 0

(* close_and_drain(): drained() returns TRUE.  transition_to_reserved then  *)
(* tests and splits strict_.value(); the others sum the shards.             *)
ToReserved(t) == t = "control" /\ ctl_mode = "Strict"

Drained(t) ==
    /\ MoverAt(t, "drain")
    /\ NoneInFlight
    /\ MoveTo(t, IF ~ToReserved(t) THEN "collect"
                 ELSE IF strict_value > LocalPeakReservation THEN "open"
                 ELSE "seed_shards")
    /\ idx' = [idx EXCEPT ![t] = 0]
    /\ acc' = [acc EXCEPT ![t] = IF ToReserved(t) THEN strict_value ELSE 0]
    /\ UNCHANGED <<gate, counters, tallies, requests, pc, locals, observer,
                   strict_owner, history>>

(* ReservedCounter::total(), one shard per step: for control_loop's own     *)
(* observation ("observe") and after a drain ("collect")                    *)
ReadShard(t) ==
    /\ tpc[t] \in {"observe", "collect"}
    /\ acc' = [acc EXCEPT ![t] = @ + used[idx[t]]]
    /\ idx' = [idx EXCEPT ![t] = @ + 1]
    /\ IF idx[t] + 1 < Shards
       THEN UNCHANGED tpc
       ELSE MoveTo(t, IF MoverAt(t, "observe") THEN "danger"
                      ELSE IF t = "control" THEN "seed_strict" ELSE "prepared")
    /\ UNCHANGED <<gate, counters, tallies, requests, pc, locals, observer,
                   strict_owner, history>>

(* seed_total_after_quiescence(): one shard takes what its reserve allows *)
SeedShard(t) ==
    /\ MoverAt(t, "seed_shards")
    /\ Ordered
    /\ LET i == idx[t]
           assigned == IF acc[t] < Reserve(i) THEN acc[t] ELSE Reserve(i)
       IN  /\ used' = [used EXCEPT ![i] = assigned]
           /\ exhaustion_announced' =
                  [exhaustion_announced EXCEPT ![i] = (assigned = Reserve(i))]
           /\ acc' = [acc EXCEPT ![t] = @ - assigned]
           /\ idx' = [idx EXCEPT ![t] = i + 1]
           /\ IF i + 1 < Shards
              THEN UNCHANGED tpc
              ELSE MoveTo(t, IF acc[t] = assigned THEN "publish" ELSE "open")
    /\ UNCHANGED <<gate, mode, strict_value, tallies, requests, pc, locals,
                   observer, strict_owner, history>>

(* StrictCounter::seed_after_quiescence(): refuses a value over the limit *)
SeedStrict(t) ==
    /\ MoverAt(t, "seed_strict")
    /\ Ordered
    /\ IF acc[t] > Limit
       THEN MoveTo(t, "open") /\ UNCHANGED strict_value
       ELSE MoveTo(t, "publish") /\ strict_value' = acc[t]
    /\ UNCHANGED <<gate, mode, used, exhaustion_announced, tallies, requests,
                   pc, locals, idx, acc, observer, strict_owner, history>>

(* routing_.publish() *)
PublishMode(t) ==
    /\ MoverAt(t, "publish")
    /\ Ordered
    /\ mode' = IF ToReserved(t) THEN "ReservedPeak"
               ELSE IF strict_owner THEN "DangerStrict" ELSE "RemoteStrict"
    /\ MoveTo(t, "reset")
    /\ UNCHANGED <<gate, strict_value, used, exhaustion_announced, tallies,
                   requests, pc, locals, idx, acc, observer, strict_owner, history>>

(* exhausted_peak_shards_.store(...); a mutated form forgets the shards the *)
(* seed has already filled                                                  *)
TallyFromZero(t) == 0
FreshTally(t) == IF ToReserved(t) THEN ExhaustedShards ELSE 0

ResetTally(t) ==
    /\ MoverAt(t, "reset")
    /\ exhausted_peak_shards' = FreshTally(t)
    /\ MoveTo(t, "epoch_bump")
    /\ UNCHANGED <<gate, counters, exhausted, has_active_counter,
                   replication_epoch, requests, pc, locals, idx, acc, observer,
                   strict_owner, history>>

(* What the next steps compute.  A mutated form holds the committed total   *)
(* against the local reservation.                                           *)
NextEpoch == replication_epoch + 1

LocalLimitReached == strict_value = LocalPeakReservation
GlobalLimitReached == strict_value = Limit

(* replication_epoch_.fetch_add(1), then the request flags are cleared *)
BumpEpoch(t) ==
    /\ MoverAt(t, "epoch_bump")
    /\ replication_epoch' = NextEpoch
    /\ danger_requested' = FALSE
    /\ peak_requested' = IF ToReserved(t) THEN FALSE ELSE peak_requested
    /\ distributed_handoff_active' =
           IF t = "handoff" THEN FALSE ELSE distributed_handoff_active
    /\ MoveTo(t, IF t = "handoff" /\ GlobalLimitReached THEN "exhaust" ELSE "open")
    /\ UNCHANGED <<gate, counters, exhausted_peak_shards, exhausted,
                   has_active_counter, pc, locals, idx, acc, observer,
                   strict_owner, history>>

(* AdmissionGate::open() *)
Open(t) ==
    /\ MoverAt(t, "open")
    /\ Ordered
    /\ open' = TRUE
    /\ MoverDone(t)
    /\ UNCHANGED <<in_flight, close_buffered, counters, tallies, requests, pc,
                   locals, observer, strict_owner, history>>

MoverStep(t) ==
    \/ Close(t) \/ Drained(t) \/ ReadShard(t) \/ SeedShard(t) \/ SeedStrict(t)
    \/ PublishMode(t) \/ ResetTally(t) \/ BumpEpoch(t) \/ Open(t)

-----------------------------------------------------------------------------
(* control_loop(): observe, publish a snapshot, decide on a transition.    *)

ControlTop ==
    /\ MoverAt("control", "top")
    /\ ctl_mode' = mode
    /\ ctl_has' = has_active_counter
    /\ MoveTo("control", CASE mode = "ReservedPeak" -> "observe"
                           [] mode = "RemoteStrict" -> "epoch"
                           [] OTHER                 -> "value")
    /\ UNCHANGED <<gate, counters, tallies, requests, pc, locals, idx, acc,
                   ctl_epoch, last_epoch, published, strict_owner, history>>

ObserveStrict ==
    /\ MoverAt("control", "value")
    /\ acc' = [acc EXCEPT !["control"] = strict_value]
    /\ MoveTo("control", "epoch")
    /\ UNCHANGED <<gate, counters, tallies, requests, pc, locals, idx, observer,
                   strict_owner, history>>

(* The remaining capacity has shrunk to the danger threshold; off by one in *)
(* the mutated form                                                         *)
InDangerLate(value) == Limit - value < DangerThreshold
InDanger(value) == DangerThreshold >= Limit \/ Limit - value <= DangerThreshold

RequestDanger ==
    /\ MoverAt("control", "danger")
    /\ danger_requested' =
           (danger_requested \/ (~Distributed /\ InDanger(acc["control"])))
    /\ MoveTo("control", "epoch")
    /\ UNCHANGED <<gate, counters, tallies, peak_requested,
                   distributed_handoff_active, pc, locals, idx, acc, observer,
                   strict_owner, history>>

LoadEpoch ==
    /\ MoverAt("control", "epoch")
    /\ ctl_epoch' = replication_epoch
    /\ MoveTo("control",
              IF /\ ctl_mode # "RemoteStrict" /\ ctl_has
                 /\ \/ acc["control"] # published.value
                    \/ replication_epoch # last_epoch
              THEN "snapshot" ELSE "decide")
    /\ UNCHANGED <<gate, counters, tallies, requests, pc, locals, idx, acc,
                   ctl_mode, ctl_has, last_epoch, published, strict_owner, history>>

(* publish_snapshot() loads the epoch a second time; published.value is     *)
(* last_replicated_value_, published.from the mode the value was read in    *)
PublishSnapshot ==
    /\ MoverAt("control", "snapshot")
    /\ published' = [epoch |-> replication_epoch, value |-> acc["control"],
                     from |-> ctl_mode]
    /\ last_epoch' = ctl_epoch
    /\ MoveTo("control", "decide")
    /\ UNCHANGED <<gate, counters, tallies, requests, pc, locals, idx, acc,
                   ctl_mode, ctl_has, ctl_epoch, strict_owner, history>>

(* transition_to_reserved() and transition_to_danger() up to their close *)
WantsReserved == ctl_mode = "Strict" /\ peak_requested /\ mode = "Strict"
WantsDanger   == /\ ctl_mode = "ReservedPeak" /\ danger_requested
                 /\ mode = "ReservedPeak" /\ ~Distributed
                 /\ ~distributed_handoff_active

Decide ==
    /\ MoverAt("control", "decide")
    /\ IF WantsReserved \/ WantsDanger
       THEN MoveTo("control", "close") /\ UNCHANGED <<idx, acc>>
       ELSE MoverDone("control")
    /\ UNCHANGED <<gate, counters, tallies, requests, pc, locals, observer,
                   strict_owner, history>>

ControlStep ==
    \/ ControlTop \/ ObserveStrict \/ RequestDanger \/ LoadEpoch
    \/ PublishSnapshot \/ Decide \/ MoverStep("control")

(* The detector's callback: the counter was hot in the last window *)
OnHot ==
    /\ peak_requested' = TRUE
    /\ UNCHANGED <<gate, counters, tallies, danger_requested,
                   distributed_handoff_active, pc, locals, movers, observer,
                   strict_owner, history>>

-----------------------------------------------------------------------------
(* The handoff thread of a cluster node.                                   *)

(* begin_distributed_handoff(): claim the handoff; refused outside peak *)
BeginHandoff ==
    /\ Distributed
    /\ MoverAt("handoff", "top")
    /\ ~distributed_handoff_active
    /\ mode = "ReservedPeak"
    /\ distributed_handoff_active' = TRUE
    /\ MoveTo("handoff", "close")
    /\ UNCHANGED <<gate, counters, tallies, peak_requested, danger_requested,
                   pc, locals, idx, acc, observer, strict_owner, history>>

(* The controller may call abort and commit whenever it is not inside an    *)
(* engine call, prepared or not; the engine's flag turns away the calls     *)
(* without a handoff in progress (then nothing changes: no step).  A        *)
(* mutated form forgets to look at the flag.                                *)
AnyCall == tpc["handoff"] \in {"top", "prepared"}
HandoffInProgress ==
    tpc["handoff"] \in {"top", "prepared"} /\ distributed_handoff_active

(* abort_distributed_handoff() *)
AbortHandoff ==
    /\ HandoffInProgress
    /\ distributed_handoff_active' = FALSE
    /\ IF mode = "ReservedPeak"
       THEN MoveTo("handoff", "open") /\ UNCHANGED <<idx, acc>>
       ELSE MoverDone("handoff")
    /\ UNCHANGED <<gate, counters, tallies, peak_requested, danger_requested,
                   pc, locals, observer, strict_owner, history>>

(* commit_distributed_handoff(global_total, ..): its checks.  The rest of   *)
(* the cluster contributed global_total - acc.                              *)
CommitHandoff(global_total) ==
    /\ HandoffInProgress
    /\ mode = "ReservedPeak"
    /\ global_total \in acc["handoff"]..Limit
    /\ foreign' = global_total - acc["handoff"]
    /\ acc' = [acc EXCEPT !["handoff"] = global_total]
    /\ MoveTo("handoff", "seed_strict")
    /\ UNCHANGED <<gate, counters, tallies, requests, pc, locals, idx, observer,
                   strict_owner, accepted>>

(* publish_limit_reached() on the owner, mark_exhausted() elsewhere *)
ExhaustOnCommit ==
    /\ MoverAt("handoff", "exhaust")
    /\ exhausted' = TRUE
    /\ MoveTo("handoff", "open")
    /\ UNCHANGED <<gate, counters, exhausted_peak_shards, has_active_counter,
                   replication_epoch, requests, pc, locals, idx, acc, observer,
                   strict_owner, history>>

HandoffStep ==
    \/ BeginHandoff \/ AbortHandoff \/ ExhaustOnCommit
    \/ \E g \in 0..Limit : CommitHandoff(g)
    \/ MoverStep("handoff")

-----------------------------------------------------------------------------
Next ==
    \/ \E c \in Clients :
          \/ ClientStep(c)
          \/ \E d \in Deltas, s \in ShardIds : Apply(c, d, s)
    \/ ControlStep \/ OnHot \/ HandoffStep \/ DrainStoreBuffer

(* Every started thread keeps running; clients need not send requests, a   *)
(* hot counter need not occur and a handoff need not be asked for.         *)
Fairness ==
    /\ \A c \in Clients : WF_vars(ClientStep(c))
    /\ WF_vars(ControlStep)
    /\ WF_vars(MoverStep("handoff") \/ ExhaustOnCommit)
    /\ WF_vars(DrainStoreBuffer)

Spec == Init /\ [][Next]_vars /\ Fairness

-----------------------------------------------------------------------------
(* Properties.                                                             *)

ClientPCs == {"idle", "enter", "count", "recheck", "leave", "route", "load",
              "cas", "remember", "full", "announce", "tally", "publish"}
MoverPCs == {"top", "observe", "value", "danger", "epoch", "snapshot", "decide",
             "close", "drain", "collect", "seed_shards", "seed_strict", "publish",
             "reset", "epoch_bump", "open", "prepared", "exhaust"}

GateTypes == open \in BOOLEAN /\ in_flight \in Nat /\ close_buffered \in BOOLEAN

CounterTypes ==
    /\ mode \in Modes
    /\ strict_value \in Nat /\ strict_value <= Limit
    /\ used \in [ShardIds -> Nat]
    /\ \A i \in ShardIds : used[i] <= Reserve(i)
    /\ exhaustion_announced \in [ShardIds -> BOOLEAN]

TallyTypes ==
    /\ exhausted_peak_shards \in Nat /\ replication_epoch \in Nat
    /\ exhausted \in BOOLEAN /\ has_active_counter \in BOOLEAN
    /\ peak_requested \in BOOLEAN /\ danger_requested \in BOOLEAN
    /\ distributed_handoff_active \in BOOLEAN

ClientTypes ==
    /\ pc \in [Clients -> ClientPCs]
    /\ delta \in [Clients -> Nat] /\ shard \in [Clients -> ShardIds]
    /\ seen \in [Clients -> Modes] /\ current \in [Clients -> Nat]

MoverTypes ==
    /\ tpc \in [Movers -> MoverPCs]
    /\ idx \in [Movers -> Nat] /\ acc \in [Movers -> Nat]

ObserverTypes ==
    /\ ctl_mode \in Modes /\ ctl_has \in BOOLEAN /\ ctl_epoch \in Nat
    /\ last_epoch \in Nat \cup {-1}
    /\ published \in [epoch : Nat \cup {-1}, value : Nat,
                      from : Modes \cup {"None"}]
    /\ strict_owner \in BOOLEAN /\ accepted \in Nat /\ foreign \in Nat

(* The values the variables may take: in particular, no shard ever passes   *)
(* its reserve and the strict word never passes the limit, whatever the     *)
(* interleaving of check and compare-exchange in apply().                   *)
TypeOK == /\ GateTypes /\ CounterTypes /\ TallyTypes
          /\ ClientTypes /\ MoverTypes /\ ObserverTypes

(* A request between its successful recheck and its last counter access *)
Admitted == {"route", "load", "cas", "remember", "full", "announce", "tally",
             "publish"}
(* A mover between its successful drain and its open() *)
Exclusive == {"collect", "seed_shards", "seed_strict", "publish", "reset",
              "epoch_bump", "exhaust", "prepared"}

(* close_and_drain() reaches a real quiescent point: from drained() until   *)
(* the mover reopens the gate no request is inside apply()'s counter code.  *)
Quiescent ==
    \A t \in Movers : tpc[t] \in Exclusive =>
        \A c \in Clients : pc[c] \notin Admitted

(* distributed_handoff_active_ is down once the node has left the handoff,  *)
(* so a second abort or commit, or one without a begin, finds it down.      *)
Claimed ==
    /\ tpc["handoff"] \in {"top", "open", "exhaust"} => ~distributed_handoff_active
    /\ tpc["handoff"] = "seed_strict" => acc["handoff"] <= Limit
    /\ tpc["handoff"] # "seed_shards"

(* What makes Quiescent inductive on a machine that orders close(): the     *)
(* gate counts exactly the requests past try_enter()'s fetch_add, one       *)
(* thread at a time owns the gate, an owner past close() keeps it shut, and *)
(* only a prepared node can be made to open it by an abort or a commit.     *)
InFlightClients == {c \in Clients : pc[c] \notin {"idle", "enter", "count"}}
Holding == {"drain", "open"} \cup Exclusive
Moving  == {"close"} \cup Holding
GateInvariant ==
    /\ in_flight = Cardinality(InFlightClients)
    /\ ~close_buffered
    /\ Claimed
    /\ Distributed => mode # "Strict" /\ tpc["control"] \notin Moving
    /\ ~Distributed => tpc["handoff"] = "top"
    /\ \A t \in Movers : tpc[t] \in Holding => ~open
    /\ Quiescent

(* The loop over the shards never runs past the last one *)
IndexOK ==
    \A t \in Movers :
        /\ tpc[t] \in {"observe", "collect", "seed_shards"} => idx[t] < Shards
        /\ tpc[t] = "top" => idx[t] = 0

PeakTotal == SumTo(used, Shards)

(* No accepted delta is lost or counted twice by a mode transition: in peak *)
(* mode the shards hold exactly what was accepted, in every other mode the  *)
(* strict word does, together with what the other components handed over.   *)
ConservesAccepts ==
    IF mode = "ReservedPeak" THEN PeakTotal = accepted
    ELSE strict_value = accepted + foreign

(* begin_distributed_handoff() "returns an exact component total": while    *)
(* the node stays prepared its total is what its clients were granted.      *)
DrainedTotalExact ==
    MoverAt("handoff", "prepared") =>
        acc["handoff"] = PeakTotal /\ acc["handoff"] = accepted

(* The exhausted cache answers Rejected forever, so it may be set only when *)
(* the whole limit has been granted.                                        *)
ExhaustedIsDefinitive == exhausted => accepted + foreign = Limit

(* The last unit of a standalone engine's limit is always announced, even   *)
(* when shards fill up concurrently, or part of them before a transition.   *)
ExhaustionAnnounced ==
    (/\ ~Distributed
     /\ accepted = Limit /\ Limit > 0
     /\ \A c \in Clients : pc[c] \in {"idle", "enter"}) => exhausted

(* A standalone engine implements the abstract limit counter *)
Abstract == INSTANCE LimitCounter WITH total <- accepted
ImplementsLimitCounter == Abstract!Spec

(* Snapshots of one epoch never go backwards (types.hpp: "Monotonic         *)
(* snapshot for replication"), although the shards are read one by one.     *)
SnapshotsMonotone ==
    [][published'.epoch = published.epoch => published'.value >= published.value]_published

(* A snapshot carries the epoch of the mode its value was read in, so that  *)
(* merged_total() never adds a component's peak value to a strict total.    *)
EpochOf(m) == CASE m = "Strict" -> 0 [] m = "ReservedPeak" -> 1 [] OTHER -> 2
SnapshotFromItsEpoch ==
    published.from # "None" => published.epoch = EpochOf(published.from)

(* A closed gate of a standalone engine is reopened *)
GateReopens == ~open ~> open

(* Once the remaining capacity reaches the danger threshold, the control    *)
(* loop brings a peak-mode engine to strict mode.                           *)
DangerReached ==
    (/\ ~Distributed /\ mode = "ReservedPeak"
     /\ Limit - PeakTotal <= DangerThreshold) ~> mode = "DangerStrict"
=============================================================================
