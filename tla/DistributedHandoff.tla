-------------------------- MODULE DistributedHandoff --------------------------
(***************************************************************************)
(* The two-phase peak-to-strict handoff of a cluster with fixed membership *)
(* (cpp/src/distributed_handoff.cpp).  Every member runs a CounterEngine   *)
(* with an escrow reservation and a controller thread that reads UDP       *)
(* frames, ticks, and writes a one-record durable journal.                 *)
(*                                                                         *)
(* A frame that was sent stays in msgs and may be delivered any number of  *)
(* times, in any order, or never: UDP loss, duplication and reordering.    *)
(* A handler is one step: the controller is single threaded, and the       *)
(* engine calls it makes are exact at that grain (module CounterEngine).   *)
(* Peak shards are summed into one number per node.                        *)
(***************************************************************************)
EXTENDS Integers, FiniteSets, Sums

CONSTANTS
    N,                \* the number of members; component ids are 0..N-1
    Leader,           \* leader_component_id
    StrictOwner,      \* strict_owner_component_id
    Limit,            \* the global limit
    Reservation,      \* capacity_for(component) of the reservation plan
    DangerThreshold,  \* danger_threshold_
    Deltas,           \* the deltas clients send
    Counters,         \* the counter ids clients use
    Timely,           \* TRUE: a follower's deadline passes only after the leader
                      \* gave up that term, and never while a commit is on its way
    Crashable,        \* the members whose process may crash
    Stoppable,        \* the members that may be stopped in an orderly way
    MaxRestarts,      \* bound: process ends in a behaviour
    MaxTerm,          \* bound: readings of the leader's clock
    PersistMayFail    \* TRUE: HandoffJournal::store may report a failure

Members == 0..(N - 1)

ASSUME MembersAssumption == /\ N \in Nat \ {0}
                            /\ Leader \in Members /\ StrictOwner \in Members
                            /\ Crashable \subseteq Members /\ Stoppable \subseteq Members
ASSUME HandoffAmountsAssumption ==
    /\ Limit \in Nat /\ DangerThreshold \in Nat /\ Deltas \subseteq Nat
    /\ Counters \subseteq Nat
    /\ Reservation \in [Members -> Nat]
(* ReservationPlan refuses a plan that exceeds the global limit *)
ValidPlan == SumTo(Reservation, N) <= Limit
ASSUME PlanAssumption == ValidPlan
ASSUME BoundsAssumption == /\ MaxRestarts \in Nat /\ MaxTerm \in Nat
                           /\ Timely \in BOOLEAN /\ PersistMayFail \in BOOLEAN

VARIABLES
    eng,       \* per member, the engine: mode, gate, handoff flag, counters
    ctl,       \* per member, the controller's volatile state
    journal,   \* per member, the durable record
    up,        \* per member: the process runs
    refused,   \* members whose start() threw
    msgs,      \* every frame ever sent
    clock,     \* the leader's monotonic_ns()
    restarts,  \* process ends so far
    granted,   \* history: the deltas all members have accepted
    lapsed,    \* history: a vote was given up while the leader could still use it
    forgotten  \* history: a process started from a record of less than was granted

vars == <<eng, ctl, journal, up, refused, msgs, clock, restarts, granted, lapsed,
          forgotten>>

-----------------------------------------------------------------------------
(* CounterEngine as the controller uses it.                                *)

(* A process that has just entered ReservedPeak *)
FreshEngine == [mode |-> "ReservedPeak", open |-> TRUE, active |-> FALSE,
                used |-> 0, strict |-> 0, counter |-> 0]

(* begin_distributed_handoff() succeeds; its effect is close_and_drain().   *)
(* A mutated form leaves the gate open.                                     *)
CanBegin(e) == ~e.active /\ e.mode = "ReservedPeak"
BegunOpen(e) == [e EXCEPT !.active = TRUE]
Begun(e) == [e EXCEPT !.active = TRUE, !.open = FALSE]

(* abort_distributed_handoff(); a mutated form does not reopen the gate *)
AbortedShut(e) == [e EXCEPT !.active = FALSE]
Aborted(e) == IF ~e.active THEN e
              ELSE [e EXCEPT !.active = FALSE,
                             !.open = (e.mode = "ReservedPeak" \/ @)]

(* commit_distributed_handoff() *)
CanCommit(e, total) == e.active /\ e.mode = "ReservedPeak" /\ total <= Limit
StrictMode(n) == IF n = StrictOwner THEN "DangerStrict" ELSE "RemoteStrict"
Committed(e, n, total) ==
    [e EXCEPT !.mode = StrictMode(n), !.open = TRUE, !.active = FALSE,
              !.strict = total]

-----------------------------------------------------------------------------
(* Controller state, journal records and frames.                           *)

NoVote == [counter |-> 0, total |-> -1]
NoVotes == [m \in Members |-> NoVote]
Vote(e) == [counter |-> e.counter, total |-> e.used]

FreshController == [state |-> "Idle", term |-> 0, last |-> 0,
                    prepared |-> NoVotes, acks |-> {}, total |-> 0,
                    counter |-> 0, fenced |-> FALSE]

Record(phase, term, counter, total) ==
    [phase |-> phase, term |-> term, counter |-> counter, total |-> total,
     owner |-> StrictOwner]
(* JournalRecord{}: what start() stores when there is no journal yet *)
EmptyRecord == [phase |-> "Idle", term |-> 0, counter |-> 0, total |-> 0,
                owner |-> 0]

Frame(type, from, to, term, counter, value) ==
    [type |-> type, from |-> from, to |-> to, term |-> term,
     counter |-> counter, value |-> value]
Peers(n) == Members \ {n}

(* persist(): a failure may be reported before or after the rename, so the  *)
(* journal then holds the old record or the new one.                        *)
PersistOutcomes == IF PersistMayFail THEN BOOLEAN ELSE {TRUE}
PersistOver(n, old, rec, ok) ==
    \E kept \in (IF ok THEN {rec} ELSE old \cup {rec}) :
        journal' = [journal EXCEPT ![n] = kept]
Persist(n, rec, ok) == PersistOver(n, {journal[n]}, rec, ok)
IdleRecord == Record("Idle", 0, 0, 0)

Init ==
    /\ eng = [n \in Members |-> FreshEngine]
    /\ ctl = [n \in Members |-> FreshController]
    /\ journal = [n \in Members |-> EmptyRecord]
    /\ up = [n \in Members |-> TRUE]
    /\ refused = {} /\ msgs = {} /\ clock = 0 /\ restarts = 0 /\ granted = 0
    /\ lapsed = FALSE /\ forgotten = FALSE

-----------------------------------------------------------------------------
(* The data plane: an accepted request (a rejected one changes nothing).   *)

(* What is left of a member's reservation; a mutated form lets it draw on   *)
(* the global limit.                                                        *)
GlobalRoom(n) == Limit - eng[n].used
PeakRoom(n) == Reservation[n] - eng[n].used

Accept(n, d, k) ==
    /\ up[n] /\ eng[n].open
    /\ \/ /\ eng[n].mode = "ReservedPeak"
          /\ d <= PeakRoom(n)
          /\ eng' = [eng EXCEPT ![n].used = @ + d, ![n].counter = k]
       \/ /\ eng[n].mode = "DangerStrict"
          /\ d <= Limit - eng[n].strict
          /\ eng' = [eng EXCEPT ![n].strict = @ + d, ![n].counter = k]
    /\ granted' = granted + d
    /\ UNCHANGED <<ctl, journal, up, refused, msgs, clock, restarts,
                   lapsed, forgotten>>

-----------------------------------------------------------------------------
(* Prepare and abort.                                                      *)

(* begin_leader_prepare(): close and drain locally, choose a new term,      *)
(* make the vote durable; a failed store reopens the gate.                  *)
NewTerm(n) ==
    LET after == {ctl[n].term + 1, ctl[n].last + 1, clock + 1}
    IN  CHOOSE t \in after : \A u \in after : u <= t

BeginLeaderPrepare(n) ==
    /\ n = Leader
    /\ ctl[n].state = "Idle"
    /\ CanBegin(eng[n])
    /\ clock < MaxTerm
    /\ clock' = clock + 1
    /\ \E ok \in PersistOutcomes :
          /\ Persist(n, Record("Prepared", NewTerm(n), eng[n].counter, eng[n].used), ok)
          /\ IF ok
             THEN /\ eng' = [eng EXCEPT ![n] = Begun(@)]
                  /\ ctl' = [ctl EXCEPT
                        ![n].state = "LeaderPreparing", ![n].term = NewTerm(n),
                        ![n].prepared = [NoVotes EXCEPT ![n] = Vote(eng[n])]]
             ELSE /\ eng' = [eng EXCEPT ![n] = Aborted(Begun(@))]
                  /\ ctl' = [ctl EXCEPT ![n].term = 0]

(* abort_prepare() from a preparing or prepared state *)
IdleAgain(c) == [c EXCEPT !.state = "Idle", !.term = 0, !.prepared = NoVotes]

AbortPrepare(n, broadcast) ==
    /\ eng' = [eng EXCEPT ![n] = Aborted(@)]
    /\ \E ok \in PersistOutcomes : Persist(n, IdleRecord, ok)
    /\ ctl' = [ctl EXCEPT ![n] = IdleAgain(@)]
    /\ msgs' = IF broadcast /\ n = Leader
               THEN msgs \cup {Frame("Abort", n, m, ctl[n].term, 0, 0) : m \in Peers(n)}
               ELSE msgs

-----------------------------------------------------------------------------
(* tick()                                                                  *)

InDanger(n) == /\ Reservation[n] < Limit
               /\ Reservation[n] - eng[n].used <= DangerThreshold

TickTrigger(n) ==
    /\ up[n] /\ ~ctl[n].fenced
    /\ ctl[n].state = "Idle" /\ eng[n].mode = "ReservedPeak" /\ InDanger(n)
    /\ \/ BeginLeaderPrepare(n) /\ UNCHANGED msgs
       \/ /\ n # Leader
          /\ msgs' = msgs \cup {Frame("Trigger", n, Leader, 0, 0, 0)}
          /\ UNCHANGED <<eng, ctl, journal, clock>>
    /\ UNCHANGED <<up, refused, restarts, granted, lapsed, forgotten>>

LeaderTimeout(n) ==
    /\ up[n] /\ ctl[n].state = "LeaderPreparing"
    /\ AbortPrepare(n, TRUE)
    /\ UNCHANGED <<up, refused, clock, restarts, granted, lapsed, forgotten>>

SendPrepare(n) ==
    /\ up[n] /\ ctl[n].state = "LeaderPreparing"
    /\ msgs' = msgs \cup {Frame("Prepare", n, m, ctl[n].term, 0, 0) : m \in Peers(n)}
    /\ UNCHANGED <<eng, ctl, journal, up, refused, clock, restarts, granted,
                   lapsed, forgotten>>

(* The leader is still working on the term that member n has voted for *)
LeaderHolds(n) ==
    /\ up[Leader] /\ ctl[Leader].term = ctl[n].term
    /\ ctl[Leader].state \in {"LeaderPreparing", "LeaderCommitting"}

(* The deadline of a prepared follower.  Nothing in the code orders it with *)
(* the leader's decision; Timely states the ordering it would need.         *)
DeadlineMayPass(n) == Timely => ~LeaderHolds(n)

FollowerTimeout(n) ==
    /\ up[n] /\ ctl[n].state = "FollowerPrepared"
    /\ DeadlineMayPass(n)
    /\ AbortPrepare(n, FALSE)
    /\ lapsed' = (lapsed \/ LeaderHolds(n))
    /\ UNCHANGED <<up, refused, clock, restarts, granted, forgotten>>

PreparedFrame(n, term, vote) ==
    Frame("Prepared", n, Leader, term, vote.counter, vote.total)

SendPrepared(n) ==
    /\ up[n] /\ ctl[n].state = "FollowerPrepared"
    /\ msgs' = msgs \cup {PreparedFrame(n, ctl[n].term, ctl[n].prepared[n])}
    /\ UNCHANGED <<eng, ctl, journal, up, refused, clock, restarts, granted,
                   lapsed, forgotten>>

SendCommit(n) ==
    /\ up[n] /\ ctl[n].state = "LeaderCommitting"
    /\ msgs' = msgs \cup {Frame("Commit", n, m, ctl[n].term, ctl[n].counter, ctl[n].total)
                             : m \in Peers(n) \ ctl[n].acks}
    /\ UNCHANGED <<eng, ctl, journal, up, refused, clock, restarts, granted,
                   lapsed, forgotten>>

-----------------------------------------------------------------------------
(* handle_frame()                                                          *)

(* Mutated form: a fenced member keeps listening *)
ReceivesFenced(n, f, type) == f \in msgs /\ f.to = n /\ f.type = type /\ up[n]
Receives(n, f, type) ==
    f \in msgs /\ f.to = n /\ f.type = type /\ up[n] /\ ~ctl[n].fenced

HandleTrigger(n, f) ==
    /\ Receives(n, f, "Trigger")
    /\ BeginLeaderPrepare(n)
    /\ UNCHANGED <<up, refused, msgs, restarts, granted, lapsed, forgotten>>

(* A prepare that is not older than what this member has seen *)
Acceptable(n, term) ==
    /\ ctl[n].state \in {"Idle", "FollowerPrepared"}
    /\ ctl[n].state = "FollowerPrepared" => term >= ctl[n].term
    /\ term >= ctl[n].last

(* A newer prepare first aborts the older one, with its own journal write;  *)
(* the engine has then reopened and closed again.                           *)
HandlePrepare(n, f) ==
    /\ Receives(n, f, "Prepare") /\ f.from = Leader
    /\ Acceptable(n, f.term)
    /\ IF ctl[n].state = "FollowerPrepared" /\ f.term = ctl[n].term
       THEN /\ msgs' = msgs \cup {PreparedFrame(n, f.term, ctl[n].prepared[n])}
            /\ UNCHANGED <<eng, ctl, journal>>
       ELSE LET idle == Aborted(eng[n])
                old  == IF ctl[n].state = "Idle" THEN {journal[n]}
                        ELSE {journal[n], IdleRecord}
            IN
            /\ CanBegin(idle)
            /\ \E ok \in PersistOutcomes :
                  /\ PersistOver(n, old, Record("Prepared", f.term, idle.counter,
                                                idle.used), ok)
                  /\ IF ok
                     THEN /\ eng' = [eng EXCEPT ![n] = Begun(idle)]
                          /\ ctl' = [ctl EXCEPT
                                ![n].state = "FollowerPrepared", ![n].term = f.term,
                                ![n].prepared = [NoVotes EXCEPT ![n] = Vote(idle)]]
                          /\ msgs' = msgs \cup {PreparedFrame(n, f.term, Vote(idle))}
                     ELSE /\ eng' = [eng EXCEPT ![n] = idle]
                          /\ ctl' = [ctl EXCEPT ![n] =
                                IF @.state = "Idle" THEN [@ EXCEPT !.term = 0]
                                ELSE IdleAgain(@)]
                          /\ UNCHANGED msgs
    /\ UNCHANGED <<up, refused, clock, restarts, granted, lapsed, forgotten>>

(* try_begin_commit(): all votes are in and agree on the counter.  Mutated  *)
(* forms: a majority suffices; the leader's own total is left out.          *)
MajorityPrepared(votes) == 2 * Cardinality({m \in Members : votes[m] # NoVote}) > N
AllPrepared(votes) == \A m \in Members : votes[m] # NoVote
VotesAgree(votes) == \A m \in Members : votes[m].counter = votes[Leader].counter
FollowersTotal(votes) ==
    SumTo([m \in Members |-> IF m = Leader THEN 0 ELSE votes[m].total], N)
VotedTotal(votes) == SumTo([m \in Members |-> votes[m].total], N)

BeginCommit(n, votes) ==
    \E ok \in PersistOutcomes :
        /\ Persist(n, Record("Committed", ctl[n].term, votes[n].counter,
                             VotedTotal(votes)), ok)
        /\ IF ok
           THEN /\ eng' = [eng EXCEPT ![n] = Committed(@, n, VotedTotal(votes))]
                /\ ctl' = [ctl EXCEPT
                      ![n].state = "LeaderCommitting", ![n].prepared = votes,
                      ![n].acks = {n}, ![n].total = VotedTotal(votes),
                      ![n].counter = votes[n].counter]
           ELSE /\ ctl' = [ctl EXCEPT ![n].state = "LeaderCommitBlocked",
                                      ![n].prepared = votes]
                /\ UNCHANGED eng

HandlePrepared(n, f) ==
    /\ Receives(n, f, "Prepared") /\ n = Leader
    /\ ctl[n].state = "LeaderPreparing" /\ f.term = ctl[n].term
    /\ LET votes == [ctl[n].prepared EXCEPT ![f.from] =
                        [counter |-> f.counter, total |-> f.value]]
       IN  \/ /\ ~AllPrepared(votes)
              /\ ctl' = [ctl EXCEPT ![n].prepared = votes]
              /\ UNCHANGED <<eng, journal, msgs>>
           \/ /\ AllPrepared(votes)
              /\ ~VotesAgree(votes) \/ VotedTotal(votes) > Limit
              /\ AbortPrepare(n, TRUE)
           \/ /\ AllPrepared(votes)
              /\ VotesAgree(votes) /\ VotedTotal(votes) <= Limit
              /\ BeginCommit(n, votes)
              /\ UNCHANGED msgs
    /\ UNCHANGED <<up, refused, clock, restarts, granted, lapsed, forgotten>>

CommitAckFrame(n, term) == Frame("CommitAck", n, Leader, term, 0, 0)

(* Both the store and the engine's commit must succeed; a mutated form      *)
(* installs and acknowledges what it could not store.                       *)
InstallsUnsaved(n, f, ok) == CanCommit(eng[n], f.value)
Installs(n, f, ok) == ok /\ CanCommit(eng[n], f.value)

(* A repeated commit is acknowledged again; a new one is made durable, then *)
(* installed, then acknowledged.  A failed store leaves FollowerCommitting. *)
HandleCommit(n, f) ==
    /\ Receives(n, f, "Commit") /\ f.from = Leader
    /\ \/ /\ f.term = ctl[n].last
          /\ msgs' = msgs \cup {CommitAckFrame(n, f.term)}
          /\ UNCHANGED <<eng, ctl, journal>>
       \/ /\ f.term # ctl[n].last
          /\ ctl[n].state \in {"FollowerPrepared", "FollowerCommitting"}
          /\ f.term = ctl[n].term
          /\ \E ok \in PersistOutcomes :
                /\ Persist(n, Record("Committed", f.term, f.counter, f.value), ok)
                /\ IF Installs(n, f, ok)
                   THEN /\ eng' = [eng EXCEPT ![n] = Committed(@, n, f.value)]
                        /\ ctl' = [ctl EXCEPT ![n].state = "Idle", ![n].term = 0,
                                              ![n].last = f.term]
                        /\ msgs' = msgs \cup {CommitAckFrame(n, f.term)}
                   ELSE /\ ctl' = [ctl EXCEPT ![n].state = "FollowerCommitting"]
                        /\ UNCHANGED <<eng, msgs>>
    /\ UNCHANGED <<up, refused, clock, restarts, granted, lapsed, forgotten>>

(* The last acknowledgement ends the handoff; a mutated form stops at a     *)
(* majority.                                                                *)
MostAcked(acks) == 2 * Cardinality(acks) > N
AllAcked(acks) == acks = Members

HandleCommitAck(n, f) ==
    /\ Receives(n, f, "CommitAck") /\ n = Leader
    /\ ctl[n].state = "LeaderCommitting" /\ f.term = ctl[n].term
    /\ LET acks == ctl[n].acks \cup {f.from}
       IN  ctl' = [ctl EXCEPT ![n] =
              IF AllAcked(acks)
              THEN [@ EXCEPT !.acks = acks, !.last = f.term, !.state = "Idle", !.term = 0]
              ELSE [@ EXCEPT !.acks = acks]]
    /\ UNCHANGED <<eng, journal, up, refused, msgs, clock, restarts, granted,
                   lapsed, forgotten>>

HandleAbort(n, f) ==
    /\ Receives(n, f, "Abort") /\ f.from = Leader
    /\ f.term = ctl[n].term /\ ctl[n].state = "FollowerPrepared"
    /\ AbortPrepare(n, FALSE)
    /\ UNCHANGED <<up, refused, clock, restarts, granted, lapsed, forgotten>>

-----------------------------------------------------------------------------
(* The process ends and is started again.                                  *)

Ends(n) == /\ up[n] /\ restarts < MaxRestarts
           /\ up' = [up EXCEPT ![n] = FALSE]
           /\ restarts' = restarts + 1

(* History: the process ends with a decision that others wait for, or with  *)
(* a vote that the leader counts on.                                        *)
OwesCommit(n) == ctl[n].state \in {"LeaderCommitting", "LeaderCommitBlocked"}
OwesVote(n)   == ctl[n].state = "FollowerPrepared" /\ LeaderHolds(n)

Crash(n) ==
    /\ n \in Crashable /\ Ends(n)
    /\ lapsed' = (lapsed \/ OwesCommit(n))
    /\ UNCHANGED <<eng, ctl, journal, refused, msgs, clock, granted, forgotten>>

(* stop(): a handoff that is not committed is aborted first *)
Stop(n) ==
    /\ n \in Stoppable /\ Ends(n)
    /\ \/ /\ ctl[n].state \in {"LeaderPreparing", "FollowerPrepared"}
          /\ AbortPrepare(n, FALSE)
       \/ /\ ctl[n].state \notin {"LeaderPreparing", "FollowerPrepared"}
          /\ UNCHANGED <<eng, ctl, journal, msgs>>
    /\ lapsed' = (lapsed \/ OwesCommit(n) \/ OwesVote(n))
    /\ UNCHANGED <<refused, clock, granted, forgotten>>

(* start() on an existing journal: refuse a foreign owner, fence a prepared *)
(* record, restore a committed one, and otherwise boot in peak mode.  A     *)
(* mutated form boots in peak mode whatever the record says.                *)
RecoveredAnew(n, rec) == [engine |-> FreshEngine, controller |-> FreshController]
Recovered(n, rec) ==
    CASE rec.phase = "Prepared" ->
            [engine |-> [FreshEngine EXCEPT !.open = FALSE],
             controller |-> [FreshController EXCEPT !.fenced = TRUE]]
      [] rec.phase = "Committed" ->
            [engine |-> [Committed(FreshEngine, n, rec.total) EXCEPT !.counter = rec.counter],
             controller |-> [FreshController EXCEPT !.last = rec.term]]
      [] OTHER -> [engine |-> FreshEngine, controller |-> FreshController]

(* HandoffJournal::load, of a journal that is there and intact *)
Load(n) == journal[n]

(* The grants member n answers for while it is in peak mode: those of its   *)
(* process, or those of the vote it was fenced with.                        *)
Share(n) == IF ctl[n].fenced THEN journal[n].total ELSE eng[n].used

(* History: the record holds less than the process had granted, that is,    *)
(* peak grants since the vote or without one, strict grants since the commit *)
Forgets(n) ==
    Load(n).total < IF eng[n].mode = "ReservedPeak" THEN Share(n) ELSE eng[n].strict

Start(n) ==
    /\ ~up[n] /\ n \notin refused
    /\ IF Load(n).owner # StrictOwner \/ Load(n).total > Limit
       THEN /\ refused' = refused \cup {n}
            /\ UNCHANGED <<eng, ctl, up, forgotten>>
       ELSE /\ up' = [up EXCEPT ![n] = TRUE]
            /\ eng' = [eng EXCEPT ![n] = Recovered(n, Load(n)).engine]
            /\ ctl' = [ctl EXCEPT ![n] = Recovered(n, Load(n)).controller]
            /\ forgotten' = (forgotten \/ Forgets(n))
            /\ UNCHANGED refused
    /\ UNCHANGED <<journal, msgs, clock, restarts, granted, lapsed>>

-----------------------------------------------------------------------------
Tick(n) ==
    \/ TickTrigger(n) \/ LeaderTimeout(n) \/ FollowerTimeout(n)
    \/ SendPrepare(n) \/ SendPrepared(n) \/ SendCommit(n)

Handle(n, f) ==
    \/ HandleTrigger(n, f) \/ HandlePrepare(n, f) \/ HandlePrepared(n, f)
    \/ HandleCommit(n, f) \/ HandleCommitAck(n, f) \/ HandleAbort(n, f)

Next ==
    \E n \in Members :
        \/ \E d \in Deltas, k \in Counters : Accept(n, d, k)
        \/ Tick(n)
        \/ \E f \in msgs : Handle(n, f)
        \/ Crash(n) \/ Stop(n) \/ Start(n)

Spec == Init /\ [][Next]_vars

(* The controller thread keeps running: deadlines pass and retries are      *)
(* sent.  UDP is fair-lossy: a frame gets through if it is sent over and    *)
(* over, so delivery is fair only while the leader still retries.           *)
RetriesCommitTo(n) ==
    up[Leader] /\ ctl[Leader].state = "LeaderCommitting" /\ n \notin ctl[Leader].acks

Fairness ==
    \A n \in Members :
        /\ WF_vars(LeaderTimeout(n)) /\ WF_vars(FollowerTimeout(n))
        /\ WF_vars(SendCommit(n))
        /\ WF_vars(RetriesCommitTo(n) /\ \E f \in msgs : HandleCommit(n, f))
        /\ WF_vars(RetriesCommitTo(n) /\ \E f \in msgs :
                       f.from = n /\ HandleCommitAck(Leader, f))

FairSpec == Spec /\ Fairness

-----------------------------------------------------------------------------
(* Properties.                                                             *)

Phases == {"Idle", "Prepared", "Committed"}
States == {"Idle", "LeaderPreparing", "FollowerPrepared", "FollowerCommitting",
           "LeaderCommitBlocked", "LeaderCommitting"}
Votes == [counter : Nat, total : Nat \cup {-1}]
FrameTypes == {"Trigger", "Prepare", "Prepared", "Commit", "CommitAck", "Abort"}
Engines == [mode : {"ReservedPeak", "DangerStrict", "RemoteStrict"},
            open : BOOLEAN, active : BOOLEAN, used : Nat, strict : Nat,
            counter : Nat]
Controllers == [state : States, term : Nat, last : Nat,
                prepared : [Members -> Votes], acks : SUBSET Members,
                total : Nat, counter : Nat, fenced : BOOLEAN]
Records == [phase : Phases, term : Nat, counter : Nat, total : Nat, owner : Members]
Frames == [type : FrameTypes, from : Members, to : Members, term : Nat,
           counter : Nat, value : Nat]

(* The values the variables may take; a member's peak usage never passes    *)
(* its reservation and its strict word never passes the limit.              *)
TypeOK ==
    /\ eng \in [Members -> Engines]
    /\ \A n \in Members : eng[n].used <= Reservation[n] /\ eng[n].strict <= Limit
    /\ ctl \in [Members -> Controllers]
    /\ journal \in [Members -> Records]
    /\ up \in [Members -> BOOLEAN] /\ refused \subseteq Members
    /\ msgs \subseteq Frames
    /\ clock \in Nat /\ restarts \in Nat /\ granted \in Nat
    /\ lapsed \in BOOLEAN /\ forgotten \in BOOLEAN

(* The cluster as a whole never grants more than the limit, before, during  *)
(* and after the handoff.                                                   *)
HardLimit == granted <= Limit

(* The limit is lost in two ways only: a vote or a decision lapsed (see     *)
(* SplitOnlyByLapse), or a restarted process has forgotten grants.  Late,   *)
(* lost and repeated frames, failing journal writes, and crashes and        *)
(* restarts at any other point never let the members overshoot together.    *)
LimitKept == lapsed \/ forgotten \/ HardLimit

(* Where the cluster's grants are kept: in the owner's strict word once it  *)
(* has installed the commit, in the leader's committed record before, and   *)
(* in the members' shares before that.                                      *)
Accounted ==
    IF eng[StrictOwner].mode = "DangerStrict" THEN eng[StrictOwner].strict
    ELSE IF eng[Leader].mode # "ReservedPeak" THEN journal[Leader].total
    ELSE SumTo([n \in Members |-> Share(n)], N)

(* Every grant is in that place exactly once, whichever member crashes and  *)
(* restarts in the middle of the handoff, with the same two exceptions.     *)
GrantsConserved == lapsed \/ forgotten \/ granted = Accounted

(* "... rather than reopening a potentially split cluster": once a member   *)
(* is in a strict mode, no other member accepts in peak mode.               *)
NoSplitCluster ==
    (\E n \in Members : up[n] /\ eng[n].mode # "ReservedPeak") =>
        \A m \in Members :
            ~(up[m] /\ eng[m].mode = "ReservedPeak" /\ eng[m].open)

(* The cluster splits in three ways only: the deadline of a follower passes *)
(* or a prepared follower is stopped in an orderly way while the leader     *)
(* still works on its vote, or the leader's process ends between its commit *)
(* and the last acknowledgement.  Lost and late frames, failing journal     *)
(* writes, and crashes and restarts at any other point never split it.      *)
SplitOnlyByLapse == lapsed \/ NoSplitCluster

(* A vote the leader holds stays true until the leader lets go of the term  *)
(* or a vote lapses: a member that is still in peak mode has its gate       *)
(* closed, and its share is the total it reported.  A crash of the member   *)
(* and its restart from the journal do not change that.                     *)
FrozenVotes ==
    \/ lapsed
    \/ up[Leader] /\ ctl[Leader].state \in {"LeaderPreparing", "LeaderCommitting"} =>
          \A m \in Members :
              ctl[Leader].prepared[m] # NoVote /\ eng[m].mode = "ReservedPeak" =>
                  /\ Share(m) = ctl[Leader].prepared[m].total
                  /\ up[m] => ~eng[m].open

(* At most one outcome is ever committed: all commit frames and all         *)
(* committed records carry one term and one total, whatever crashes.        *)
CommitFrames == {f \in msgs : f.type = "Commit"}
CommitAgreement ==
    /\ \A f, g \in CommitFrames : f.term = g.term /\ f.value = g.value
    /\ \A f \in CommitFrames, n \in Members : journal[n].phase = "Committed" =>
          journal[n].term = f.term /\ journal[n].total = f.value

(* What a member has told others is durable: whoever sent a commit or an    *)
(* acknowledgement finds that commit in its journal after any crash, even   *)
(* if stores fail on the way.                                               *)
AckImpliesDurable ==
    \A f \in msgs : f.type \in {"Commit", "CommitAck"} =>
        journal[f.from].phase = "Committed" /\ journal[f.from].term = f.term

(* "A commit is intentionally never rolled back": no later prepare, abort,  *)
(* stop or restart replaces a committed record.                             *)
CommittedRecordStable ==
    [][\A n \in Members :
          journal[n].phase = "Committed" => journal'[n] = journal[n]]_vars

(* A member restarted from a prepared record stays closed: nothing it       *)
(* receives makes it vote, commit or reopen.                                *)
FenceHolds ==
    \A n \in Members : ctl[n].fenced /\ up[n] =>
        ~eng[n].open /\ journal[n].phase = "Prepared"

(* What start() makes of a journal: a prepared record fences the member,    *)
(* and a record is refused only if it is still the first one, so that a     *)
(* vote or a commit is never locked away.                                   *)
RestartsAsRecorded ==
    /\ FenceHolds
    /\ \A n \in refused : journal[n] = EmptyRecord

(* After the decision the retries succeed: every member ends up in the mode *)
(* of the commit.                                                           *)
CommitCompletes ==
    ctl[Leader].state = "LeaderCommitting"
        ~> \A n \in Members : eng[n].mode = StrictMode(n)

(* A gate that the handoff closed opens again, by commit, abort or deadline *)
GateReopens == \A n \in Members : ~eng[n].open ~> eng[n].open
=============================================================================
