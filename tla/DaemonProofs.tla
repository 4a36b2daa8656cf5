----------------------------- MODULE DaemonProofs -----------------------------
(***************************************************************************)
(* Proofs about a daemon process, for any launch options, any number of    *)
(* connections, queues and packet buffers, either transport, and a failure *)
(* at any point of start().                                                *)
(***************************************************************************)
EXTENDS Daemon, FiniteSetTheorems, SequenceTheorems, SumsProofs

-----------------------------------------------------------------------------
(* Where the main thread is, and what that says of everything it owns.     *)

AtConfig == {"boot", "redirect", "configure"}
BeforeReplication == AtConfig \cup {"configured", "replication"}
BeforeHandoff == BeforeReplication \cup {"handoff"}
BeforeControl == BeforeHandoff \cup {"control_plane"}
Down == {"stopped", "port_closed", "destroyed", "exited"}
HandoffGone == Down \cup {"clear_publisher", "reset_replication"}
ControlGone == HandoffGone \cup {"reset_handoff"}

(* The threads: none before it is started, none after it is joined *)
ThreadsOwned ==
    /\ main \in BeforeControl \cup ControlGone => control = "none" /\ ~detector
    /\ control = "calling" => publisher \/ replication = "running"
    /\ publisher => replication = "running"

(* The objects: built in order, reset in the reverse order *)
ObjectsOwned ==
    /\ main \in BeforeHandoff \cup HandoffGone => handoff = "none"
    /\ main \in BeforeReplication \cup Down => replication = "none" /\ ~publisher
    /\ main = "reset_replication" => ~publisher

(* The callers of the engine *)
CallersOwned ==
    /\ main \notin {"launch", "polling", "await"} =>
          \A q \in QueueIds : lcore[q] \in {"idle", "done"}
    /\ main \in BeforeControl \cup {"started"} => listener = "closed"
    /\ main = "serve" => listener = "listening"
    /\ \A c \in Connections : conn[c].at # "none" => main = "serve" \/ listener = "failed"

(* The engine and what the journal said of it *)
EngineOwned ==
    /\ DOMAIN engine = {"alive", "mode", "open", "total"}
    /\ main \in BeforeHandoff => journal = "unread"
    /\ RecoveryHolds

Life == ThreadsOwned /\ ObjectsOwned /\ CallersOwned /\ EngineOwned /\ PublisherAlive
        /\ DOMAIN lcore = QueueIds /\ DOMAIN conn = Connections

(* apply() moves the total and nothing else of the engine *)
LEMMA AppliedMovesTotal ==
    ASSUME NEW e, DOMAIN e = {"alive", "mode", "open", "total"}, NEW d, NEW decision
    PROVE  LET a == AppliedTo(e, d, decision)
           IN  /\ DOMAIN a = DOMAIN e
               /\ a.alive = e.alive /\ a.mode = e.mode /\ a.open = e.open
  BY DEF AppliedTo

-----------------------------------------------------------------------------
(* Every step keeps Life.                                                  *)

LEMMA LifeInit == Init => Life
  BY DEF Init, RuntimeInit, TcpInit, DpdkInit, NoEngine, Session, Life, ThreadsOwned,
     ObjectsOwned, CallersOwned, EngineOwned, PublisherAlive, RecoveryHolds, AtConfig,
     BeforeReplication, BeforeHandoff, BeforeControl, Down, HandoffGone, ControlGone

(* start() reads the journal: a prepared member comes up shut, a committed  *)
(* one in a strict mode, and a controller that then fails is still reset    *)
LEMMA StartHandoffKeeps ==
    ASSUME Life, StartHandoff, UNCHANGED <<tcpVars, dpdkVars>>
    PROVE  Life'
<1>1. /\ main = "handoff" /\ main' \in {"control_plane", "stop"}
      /\ handoff' \in {"none", "built", "running"}
      /\ UNCHANGED <<transport, config, plan, replication, publisher, control, detector,
                     listener, conn, lcore>>
  BY DEF StartHandoff, tcpVars, dpdkVars, Life, ObjectsOwned, BeforeHandoff
<1>2. main' = "control_plane" \/ main' = "stop"
  BY <1>1
<1>3. /\ DOMAIN engine = {"alive", "mode", "open", "total"}
      /\ journal = "unread" /\ RecoveryHolds
  BY <1>1 DEF Life, EngineOwned, BeforeHandoff
<1>4. DOMAIN engine' = {"alive", "mode", "open", "total"} /\ RecoveryHolds'
  <2>1. CASE UNCHANGED <<engine, journal>>
    BY <1>3, <2>1 DEF RecoveryHolds
  <2>2. CASE journal' = "Idle" /\ UNCHANGED engine
    BY <1>3, <2>2 DEF RecoveryHolds
  <2>3. CASE journal' = "Prepared" /\ engine' = [engine EXCEPT !.open = FALSE]
    BY <1>3, <2>3 DEF RecoveryHolds
  <2>4. ASSUME NEW m \in {"DangerStrict", "RemoteStrict"}, NEW t \in 0..config.limit,
               journal' = "Committed", engine' = [engine EXCEPT !.mode = m, !.total = t]
        PROVE  DOMAIN engine' = {"alive", "mode", "open", "total"} /\ RecoveryHolds'
    BY <1>3, <2>4 DEF RecoveryHolds
  <2>. QED BY <2>1, <2>2, <2>3, <2>4 DEF StartHandoff, ReadJournal
<1>. QED BY <1>1, <1>2, <1>4 DEF Life, ThreadsOwned, ObjectsOwned, CallersOwned, EngineOwned,
     PublisherAlive, AtConfig, BeforeReplication, BeforeHandoff, BeforeControl, Down,
     HandoffGone, ControlGone

LEMMA RuntimeMainKeeps ==
    ASSUME Life, RuntimeMain
    PROVE  Life'
<1>. USE DEF Life, ThreadsOwned, ObjectsOwned, CallersOwned, EngineOwned, PublisherAlive,
     RecoveryHolds, AtConfig, BeforeReplication, BeforeHandoff, BeforeControl, Down,
     HandoffGone, ControlGone
<1>0. UNCHANGED <<listener, conn, lcore>>
  BY DEF RuntimeMain, tcpVars, dpdkVars
<1>1. ASSUME NEW o \in LaunchOptions, Configure(o) PROVE Life'
  BY <1>0, <1>1 DEF Configure, NoEngine
<1>2. CASE EnterPeak
  BY <1>0, <1>2 DEF EnterPeak
<1>3. CASE StartReplication
  BY <1>0, <1>3 DEF StartReplication
<1>4. CASE StartHandoff
  BY <1>4, StartHandoffKeeps DEF RuntimeMain
<1>5. CASE StartControlPlane
  BY <1>0, <1>5 DEF StartControlPlane
<1>6. CASE StopControl
  BY <1>0, <1>6 DEF StopControl
<1>7. CASE JoinControl
  BY <1>0, <1>7 DEF JoinControl, ControlEnded
<1>8. CASE ResetHandoff
  BY <1>0, <1>8 DEF ResetHandoff
<1>9. CASE ClearPublisher
  BY <1>0, <1>9 DEF ClearPublisher
<1>10. CASE ResetReplication
  BY <1>0, <1>10 DEF ResetReplication
<1>11. CASE Destroy
  BY <1>0, <1>11 DEF Destroy
<1>12. CASE Exit
  BY <1>0, <1>12 DEF Exit
<1>. QED BY <1>1, <1>2, <1>3, <1>4, <1>5, <1>6, <1>7, <1>8, <1>9, <1>10, <1>11, <1>12
         DEF RuntimeMain, RuntimeMainStep

LEMMA RuntimeThreadsKeep ==
    ASSUME Life, RuntimeThreads
    PROVE  Life'
<1>. USE DEF Life, ThreadsOwned, ObjectsOwned, CallersOwned, EngineOwned, PublisherAlive,
     RecoveryHolds, AtConfig, BeforeReplication, BeforeHandoff, BeforeControl, Down,
     HandoffGone, ControlGone
<1>0. UNCHANGED <<listener, conn, lcore>>
  BY DEF RuntimeThreads, tcpVars, dpdkVars
<1>1. CASE ControlTurn
  BY <1>0, <1>1 DEF ControlTurn
<1>2. CASE ControlPublish
  BY <1>0, <1>2 DEF ControlPublish
<1>3. CASE ControlDecide
  BY <1>0, <1>3 DEF ControlDecide
<1>4. CASE HandoffStep
  BY <1>0, <1>4 DEF HandoffStep
<1>. QED BY <1>1, <1>2, <1>3, <1>4 DEF RuntimeThreads, RuntimeThreadStep, ControlStep

(* A request that is applied, from a session or a polling loop: the main    *)
(* thread and what it owns stay as they are                                 *)
LEMMA ApplyKeeps ==
    ASSUME Life,
           UNCHANGED <<main, journal, replication, publisher, handoff, control, detector>>,
           engine' = engine \/ \E d, decision : engine' = AppliedTo(engine, d, decision)
    PROVE  ThreadsOwned' /\ ObjectsOwned' /\ EngineOwned' /\ PublisherAlive'
<1>1. /\ DOMAIN engine' = DOMAIN engine
      /\ engine'.alive = engine.alive /\ engine'.mode = engine.mode
      /\ engine'.open = engine.open
  BY AppliedMovesTotal DEF Life, EngineOwned
<1>. QED BY <1>1 DEF Life, ThreadsOwned, ObjectsOwned, EngineOwned, PublisherAlive,
     RecoveryHolds

LEMMA SessionsKeep ==
    ASSUME Life, Sessions
    PROVE  Life'
<1>0. UNCHANGED lcore
  BY DEF Sessions, dpdkVars
<1>1. CASE AcceptFails
  BY <1>0, <1>1 DEF AcceptFails, Life, ThreadsOwned, ObjectsOwned, CallersOwned, EngineOwned,
     PublisherAlive, RecoveryHolds, AtConfig, BeforeReplication, BeforeHandoff,
     BeforeControl, Down, HandoffGone, ControlGone
<1>2. ASSUME NEW c \in Connections, AcceptConnection(c) \/ SessionStep(c) PROVE Life'
  <2>1. /\ UNCHANGED <<main, journal, replication, publisher, handoff, control, detector,
                       listener>>
        /\ DOMAIN conn' = DOMAIN conn
        /\ \A d \in Connections \ {c} : conn'[d] = conn[d]
        /\ conn[c].at # "none" \/ main = "serve"
    BY <1>2 DEF AcceptConnection, SessionStep, Read, ReadEnds, ApplyLine, WriteAnswer,
       WriteFails, Compact, rtVars, Life
  <2>2. engine' = engine \/ \E d, decision : engine' = AppliedTo(engine, d, decision)
    BY <1>2 DEF AcceptConnection, SessionStep, Read, ReadEnds, ApplyLine, WriteAnswer,
       WriteFails, Compact, rtVars
  <2>3. ThreadsOwned' /\ ObjectsOwned' /\ EngineOwned' /\ PublisherAlive'
    BY <2>1, <2>2, ApplyKeeps
  <2>4. CallersOwned'
    BY <1>0, <2>1 DEF Life, CallersOwned
  <2>. QED BY <1>0, <2>1, <2>3, <2>4 DEF Life
<1>. QED BY <1>1, <1>2 DEF Sessions

LEMMA TcpMainKeeps ==
    ASSUME Life, TcpMain
    PROVE  Life'
  BY DEF TcpMain, Listen, dpdkVars, Life, ThreadsOwned, ObjectsOwned, CallersOwned,
     EngineOwned, PublisherAlive, RecoveryHolds, AtConfig, BeforeReplication,
     BeforeHandoff, BeforeControl, Down, HandoffGone, ControlGone

LEMMA DpdkMainKeeps ==
    ASSUME Life, DpdkMain
    PROVE  Life'
<1>. USE DEF Life, ThreadsOwned, ObjectsOwned, CallersOwned, EngineOwned, PublisherAlive,
     RecoveryHolds, AtConfig, BeforeReplication, BeforeHandoff, BeforeControl, Down,
     HandoffGone, ControlGone
<1>0. UNCHANGED <<listener, conn>>
  BY DEF DpdkMain, tcpVars
<1>1. CASE SetupPort
  BY <1>0, <1>1 DEF SetupPort, bufferVars
<1>2. ASSUME NEW e \in Endpoints, ParseRedirect(e) PROVE Life'
  BY <1>0, <1>2 DEF ParseRedirect
<1>3. CASE ReleasePort
  BY <1>0, <1>3 DEF ReleasePort
<1>4. CASE InstallHandlers
  BY <1>0, <1>4 DEF InstallHandlers, dpdkVars
<1>5. CASE LaunchWorker
  BY <1>0, <1>5 DEF LaunchWorker
<1>6. CASE MainPolls
  BY <1>0, <1>6 DEF MainPolls
<1>7. CASE MainPolled
  BY <1>0, <1>7 DEF MainPolled, bufferVars
<1>8. CASE AwaitWorkers
  BY <1>0, <1>8 DEF AwaitWorkers, WorkersEnded, dpdkVars
<1>. QED BY <1>1, <1>2, <1>3, <1>4, <1>5, <1>6, <1>7, <1>8 DEF DpdkMain, DpdkMainStep

LEMMA LoopKeeps ==
    ASSUME Life, NEW q \in QueueIds, Loop(q)
    PROVE  Life'
<1>1. /\ UNCHANGED <<main, journal, replication, publisher, handoff, control, detector,
                     listener, conn>>
      /\ DOMAIN lcore' = DOMAIN lcore
      /\ \A p \in QueueIds \ {q} : lcore'[p] = lcore[p]
      /\ lcore[q] \in {"poll", "process", "transmit"}
  BY DEF Loop, LoopStep, RxBurst, LoopEnds, ProcessPacket, BurstProcessed, TxBurst, rtVars,
     tcpVars, Life
<1>2. engine' = engine \/ \E d, decision : engine' = AppliedTo(engine, d, decision)
  <2>1. CASE ProcessPacket(q)
    BY <2>1 DEF ProcessPacket
  <2>2. CASE RxBurst(q) \/ LoopEnds(q) \/ BurstProcessed(q) \/ TxBurst(q)
    BY <2>2 DEF RxBurst, LoopEnds, BurstProcessed, TxBurst, rtVars
  <2>. QED BY <2>1, <2>2 DEF Loop, LoopStep
<1>3. ThreadsOwned' /\ ObjectsOwned' /\ EngineOwned' /\ PublisherAlive'
  BY <1>1, <1>2, ApplyKeeps
<1>4. CallersOwned'
  BY <1>1 DEF Life, CallersOwned
<1>. QED BY <1>1, <1>3, <1>4 DEF Life

LEMMA OutsideKeeps ==
    ASSUME Life, Outside
    PROVE  Life'
<1>1. UNCHANGED <<rtVars, listener, conn, lcore>>
  BY DEF Outside, Signal, NicReceive, NicTransmit, tcpVars, bufferVars
<1>. QED BY <1>1 DEF rtVars, Life, ThreadsOwned, ObjectsOwned, CallersOwned, EngineOwned,
     PublisherAlive, RecoveryHolds

LEMMA LifeNext == Life /\ [Next]_vars => Life'
<1>. SUFFICES ASSUME Life, [Next]_vars PROVE Life'
  OBVIOUS
<1>1. CASE UNCHANGED vars
  BY <1>1 DEF vars, rtVars, tcpVars, dpdkVars, Life, ThreadsOwned, ObjectsOwned,
     CallersOwned, EngineOwned, PublisherAlive, RecoveryHolds
<1>2. CASE Next
  BY <1>2, RuntimeMainKeeps, RuntimeThreadsKeep, TcpMainKeeps, SessionsKeep, DpdkMainKeeps,
     LoopKeeps, OutsideKeeps DEF Next
<1>. QED BY <1>1, <1>2

(* Through every failure of start() and every order of shutdown, under both *)
(* transports: the control thread never calls a replicator that is gone,    *)
(* nothing that stop() or the transport owns outlives the engine, and what  *)
(* the journal said binds the engine until the process ends                 *)
THEOREM ShutdownIsOrderly == Spec => []LifecycleSafe
<1>1. Life => LifecycleSafe
  BY DEF Life, ThreadsOwned, ObjectsOwned, CallersOwned, EngineOwned, PublisherAlive,
     RecoveryHolds, LifecycleSafe, EngineOutlivesCallers, AtConfig, BeforeReplication,
     BeforeHandoff, BeforeControl, Down, HandoffGone, ControlGone
<1>. QED BY <1>1, LifeInit, LifeNext, PTL DEF Spec

-----------------------------------------------------------------------------
(* The reservation plan.                                                   *)

PlanEntries == [component_id : Nat, capacity : 0..MaxAmount]
Capacities(p) == [i \in 0..(Len(p) - 1) |-> p[i + 1].capacity]

(* The check before each addition keeps every partial sum within a word *)
LEMMA SumsDoNotWrap ==
    ASSUME NEW p \in Seq(PlanEntries), ~Overflow(p)
    PROVE  \A n \in 0..Len(p) : /\ SumTo(Capacities(p), n) \in 0..MaxAmount
                                /\ AllocatedTotal(p, n) = SumTo(Capacities(p), n)
<1>. DEFINE f == Capacities(p)
            S == {n \in Nat : n <= Len(p) => SumTo(f, n) \in 0..MaxAmount}
<1>0. MaxAmount \in Nat /\ Len(p) \in Nat /\ DOMAIN p = 1..Len(p)
  BY WidthAssumption
<1>1. \A i \in 0..(Len(p) - 1) : f[i] = p[i + 1].capacity /\ f[i] \in 0..MaxAmount
  <2>. SUFFICES ASSUME NEW i \in 0..(Len(p) - 1)
                PROVE  p[i + 1].capacity \in 0..MaxAmount
    BY DEF Capacities
  <2>1. i + 1 \in 1..Len(p)
    BY <1>0
  <2>2. p[i + 1] \in PlanEntries
    BY <2>1
  <2>. QED BY <2>2 DEF PlanEntries
<1>2. ASSUME NEW n \in 0..Len(p), SumTo(f, n) \in 0..MaxAmount
      PROVE  AllocatedTotal(p, n) = SumTo(f, n)
  <2>. DEFINE g == [i \in 0..(n - 1) |-> p[i + 1].capacity]
  <2>1. \A i \in 0..(n - 1) : g[i] = f[i]
    BY <1>0 DEF Capacities
  <2>2. SumTo(g, n) = SumTo(f, n)
    <3>. HIDE DEF g, f
    <3>. QED BY <2>1, <1>0, SumToEqual
  <2>3. AllocatedTotal(p, n) = SumTo(g, n) % (MaxAmount + 1)
    BY DEF AllocatedTotal
  <2>. HIDE DEF f, g
  <2>. QED BY <1>0, <1>2, <2>2, <2>3
<1>. HIDE DEF f
<1>3. 0 \in S
  BY <1>0, SumToZero
<1>4. ASSUME NEW n \in Nat, n \in S PROVE n + 1 \in S
  <2>. SUFFICES ASSUME n + 1 <= Len(p) PROVE SumTo(f, n + 1) \in 0..MaxAmount
    OBVIOUS
  <2>1. n \in 0..Len(p) /\ n \in 0..(Len(p) - 1) /\ SumTo(f, n) \in 0..MaxAmount
    BY <1>0, <1>4
  <2>2. AllocatedTotal(p, n) = SumTo(f, n)
    BY <1>2, <2>1
  <2>3. n + 1 \in DOMAIN p /\ (n + 1) - 1 = n
    BY <1>0
  <2>4. ~(p[n + 1].capacity > MaxAmount - AllocatedTotal(p, n))
    BY <2>3 DEF Overflow
  <2>5. f[n] = p[n + 1].capacity /\ f[n] \in 0..MaxAmount
    BY <1>1, <2>1
  <2>6. SumTo(f, n + 1) = SumTo(f, n) + f[n]
    BY SumToNext
  <2>. QED BY <1>0, <2>1, <2>2, <2>4, <2>5, <2>6
<1>. HIDE DEF S
<1>5. \A n \in Nat : n \in S
  BY <1>3, <1>4, SetInduction
<1>6. \A n \in 0..Len(p) : SumTo(f, n) \in 0..MaxAmount
  BY <1>0, <1>5 DEF S
<1>. QED BY <1>2, <1>6 DEF f

(* make_runtime_config accepts no plan that overbooks the limit *)
LEMMA AcceptedPlanFits ==
    ASSUME NEW o \in LaunchOptions, ConfigAccepted(o), o.cluster_reservations # <<>>
    PROVE  LET p == o.cluster_reservations
           IN  /\ Booked(p) <= o.limit
               /\ \E i \in DOMAIN p : p[i].capacity = ConfigOf(o).reservation
<1>. DEFINE p == o.cluster_reservations
<1>1. p \in Seq(PlanEntries) /\ p # <<>>
  BY OptionsAssumption DEF PlanEntries
<1>2. PlanAccepted(o.limit, p) /\ HasComponent(p, o.component_id) /\ LocalReservation(o) # 0
  BY DEF ConfigAccepted, ClusterAccepted
<1>3. LocalReservation(o) = CapacityFor(p, o.component_id)
  BY DEF LocalReservation
<1>4. ConfigOf(o).reservation = CapacityFor(p, o.component_id)
  BY <1>2, <1>3 DEF ConfigOf
<1>. HIDE DEF p
<1>5. Booked(p) <= o.limit
  <2>1. ~Overflow(p) /\ AllocatedTotal(p, Len(p)) <= o.limit
    BY <1>2 DEF PlanAccepted
  <2>2. Len(p) \in 0..Len(p)
    BY <1>1
  <2>3. AllocatedTotal(p, Len(p)) = SumTo(Capacities(p), Len(p))
    BY <1>1, <2>1, <2>2, SumsDoNotWrap
  <2>. QED BY <2>1, <2>3 DEF Booked, Capacities
<1>6. \E i \in DOMAIN p : p[i].capacity = CapacityFor(p, o.component_id)
  <2>. DEFINE i == CHOOSE j \in DOMAIN p : p[j].component_id = o.component_id
  <2>1. i \in DOMAIN p
    BY <1>2 DEF HasComponent
  <2>2. CapacityFor(p, o.component_id) = p[i].capacity
    BY <1>2 DEF CapacityFor
  <2>. QED BY <2>1, <2>2
<1>. QED BY <1>4, <1>5, <1>6 DEF p

(* For any plan, whatever its length and however large its capacities: a    *)
(* process that comes up with it has not promised more than the limit       *)
(* together with the other components                                       *)
THEOREM AcceptedPlansFit == Spec => []PlanNeverOverbooks
<1>1. Init => PlanNeverOverbooks
  BY DEF Init, RuntimeInit, PlanNeverOverbooks
<1>2. PlanNeverOverbooks /\ [Next]_vars => PlanNeverOverbooks'
  <2>. SUFFICES ASSUME PlanNeverOverbooks, [Next]_vars PROVE PlanNeverOverbooks'
    OBVIOUS
  <2>1. CASE \E o \in LaunchOptions : Configure(o)
    <3>1. PICK o \in LaunchOptions : Configure(o)
      BY <2>1
    <3>2. CASE ~ConfigAccepted(o)
      BY <3>1, <3>2 DEF Configure, PlanNeverOverbooks
    <3>3. CASE ConfigAccepted(o)
      <4>1. config' = ConfigOf(o) /\ plan' = o.cluster_reservations
        BY <3>1, <3>3 DEF Configure
      <4>2. config'.limit = o.limit
        BY <4>1 DEF ConfigOf
      <4>. QED BY <3>3, <4>1, <4>2, AcceptedPlanFits DEF PlanNeverOverbooks
    <3>. QED BY <3>2, <3>3
  <2>2. CASE plan' = <<>>
    BY <2>2 DEF PlanNeverOverbooks
  <2>3. CASE UNCHANGED <<plan, config>>
    BY <2>3 DEF PlanNeverOverbooks
  <2>4. \/ \E o \in LaunchOptions : Configure(o)
        \/ plan' = <<>>
        \/ UNCHANGED <<plan, config>>
    <3>1. CASE UNCHANGED vars
      BY <3>1 DEF vars, rtVars
    <3>2. CASE RuntimeMain
      BY <3>2 DEF RuntimeMain, RuntimeMainStep, EnterPeak, StartReplication, StartHandoff,
         StartControlPlane, StopControl, JoinControl, ResetHandoff, ClearPublisher,
         ResetReplication, Destroy, Exit
    <3>3. CASE RuntimeThreads
      BY <3>3 DEF RuntimeThreads, RuntimeThreadStep, ControlStep, ControlTurn,
         ControlPublish, ControlDecide, HandoffStep
    <3>4. CASE TcpMain \/ Sessions
      <4>1. CASE TcpMain \/ AcceptFails
        BY <4>1 DEF TcpMain, Listen, AcceptFails
      <4>2. ASSUME NEW c \in Connections, AcceptConnection(c) \/ SessionStep(c)
            PROVE  UNCHANGED <<plan, config>>
        BY <4>2 DEF AcceptConnection, SessionStep, Read, ReadEnds, ApplyLine, WriteAnswer,
           WriteFails, Compact, rtVars
      <4>. QED BY <3>4, <4>1, <4>2 DEF Sessions
    <3>5. CASE DpdkMain
      BY <3>5 DEF DpdkMain, DpdkMainStep, SetupPort, ParseRedirect, ReleasePort,
         InstallHandlers, LaunchWorker, MainPolls, MainPolled, AwaitWorkers
    <3>6. CASE Outside \/ \E q \in QueueIds : Loop(q)
      BY <3>6 DEF Outside, Signal, NicReceive, NicTransmit, Loop, LoopStep, RxBurst,
         LoopEnds, ProcessPacket, BurstProcessed, TxBurst, rtVars
    <3>. QED BY <3>1, <3>2, <3>3, <3>4, <3>5, <3>6 DEF Next
  <2>. QED BY <2>1, <2>2, <2>3, <2>4
<1>. QED BY <1>1, <1>2, PTL DEF Spec

-----------------------------------------------------------------------------
(* Arrays of packet buffers: bursts that are cut, joined and emptied.      *)

LEMMA NothingHeld == ToSet(<<>>) = {} /\ IsInjective(<<>>)
  BY DEF ToSet, IsInjective

LEMMA BurstSplits ==
    ASSUME NEW S, NEW s \in Seq(S), IsInjective(s), NEW n \in 0..Len(s)
    PROVE  LET front == SubSeq(s, 1, n)
               back == SubSeq(s, n + 1, Len(s))
           IN  /\ front \in Seq(S) /\ IsInjective(front)
               /\ back \in Seq(S) /\ IsInjective(back)
               /\ ToSet(s) = ToSet(front) \cup ToSet(back)
               /\ ToSet(front) \cap ToSet(back) = {}
<1>. DEFINE front == SubSeq(s, 1, n)
            back == SubSeq(s, n + 1, Len(s))
<1>1. /\ front \in Seq(S) /\ Len(front) = n
      /\ \A i \in 1..n : front[i] = s[i]
  OBVIOUS
<1>2. /\ back \in Seq(S) /\ Len(back) = Len(s) - n
      /\ \A i \in 1..(Len(s) - n) : back[i] = s[n + i]
  OBVIOUS
<1>3. /\ DOMAIN s = 1..Len(s) /\ DOMAIN front = 1..n
      /\ DOMAIN back = 1..(Len(s) - n) /\ Len(s) \in Nat /\ n \in Nat /\ n <= Len(s)
  BY <1>1, <1>2
<1>. HIDE DEF front, back
<1>4. \A i \in DOMAIN front : i \in DOMAIN s /\ i <= n /\ front[i] = s[i]
  BY <1>1, <1>3
<1>5. \A i \in DOMAIN back : n + i \in DOMAIN s /\ n + i > n /\ i \in Nat /\ back[i] = s[n + i]
  BY <1>2, <1>3
<1>6. IsInjective(front)
  BY <1>4 DEF IsInjective
<1>7. IsInjective(back)
  <2>. SUFFICES ASSUME NEW i \in DOMAIN back, NEW j \in DOMAIN back, back[i] = back[j]
                PROVE  i = j
    BY DEF IsInjective
  <2>1. n + i = n + j
    BY <1>5 DEF IsInjective
  <2>. QED BY <2>1, <1>3, <1>5
<1>8. ToSet(front) \cap ToSet(back) = {}
  <2>. SUFFICES ASSUME NEW i \in DOMAIN front, NEW j \in DOMAIN back PROVE front[i] # back[j]
    BY DEF ToSet
  <2>1. i # n + j
    BY <1>3, <1>4, <1>5
  <2>. QED BY <2>1, <1>4, <1>5 DEF IsInjective
<1>9. ToSet(front) \cup ToSet(back) \subseteq ToSet(s)
  BY <1>4, <1>5 DEF ToSet
<1>10. ASSUME NEW i \in DOMAIN s PROVE s[i] \in ToSet(front) \cup ToSet(back)
  <2>1. CASE i <= n
    <3>1. i \in DOMAIN front
      BY <1>3, <2>1
    <3>. QED BY <3>1, <1>4 DEF ToSet
  <2>2. CASE i > n
    <3>1. i - n \in DOMAIN back /\ n + (i - n) = i
      BY <1>3, <2>2
    <3>2. back[i - n] = s[i]
      BY <3>1, <1>5
    <3>. QED BY <3>1, <3>2 DEF ToSet
  <2>. QED BY <2>1, <2>2, <1>3
<1>11. ToSet(s) \subseteq ToSet(front) \cup ToSet(back)
  BY <1>10 DEF ToSet
<1>. QED BY <1>1, <1>2, <1>6, <1>7, <1>8, <1>9, <1>11 DEF front, back

LEMMA HeadLeaves ==
    ASSUME NEW S, NEW s \in Seq(S), IsInjective(s), s # <<>>
    PROVE  /\ Head(s) \in S /\ Tail(s) \in Seq(S) /\ IsInjective(Tail(s))
           /\ ToSet(s) = {Head(s)} \cup ToSet(Tail(s))
           /\ Head(s) \notin ToSet(Tail(s))
<1>1. /\ Len(s) \in Nat \ {0} /\ Head(s) = s[1] /\ Head(s) \in S
      /\ Tail(s) \in Seq(S) /\ Len(Tail(s)) = Len(s) - 1
      /\ \A i \in 1..(Len(s) - 1) : Tail(s)[i] = s[i + 1]
  OBVIOUS
<1>2. DOMAIN s = 1..Len(s) /\ DOMAIN Tail(s) = 1..(Len(s) - 1)
  BY <1>1
<1>3. IsInjective(Tail(s)) /\ Head(s) \notin ToSet(Tail(s))
  BY <1>1, <1>2 DEF IsInjective, ToSet
<1>4. {Head(s)} \cup ToSet(Tail(s)) \subseteq ToSet(s)
  BY <1>1, <1>2 DEF ToSet
<1>5. ASSUME NEW i \in 1..Len(s), i # 1 PROVE s[i] \in ToSet(Tail(s))
  <2>1. i - 1 \in DOMAIN Tail(s) /\ Tail(s)[i - 1] = s[i]
    BY <1>1, <1>2, <1>5
  <2>. QED BY <2>1 DEF ToSet
<1>. QED BY <1>1, <1>2, <1>3, <1>4, <1>5 DEF ToSet

LEMMA BufferAdded ==
    ASSUME NEW S, NEW s \in Seq(S), NEW m \in S, IsInjective(s), m \notin ToSet(s)
    PROVE  /\ Append(s, m) \in Seq(S) /\ IsInjective(Append(s, m))
           /\ ToSet(Append(s, m)) = ToSet(s) \cup {m}
<1>1. /\ Append(s, m) \in Seq(S) /\ Len(Append(s, m)) = Len(s) + 1 /\ Len(s) \in Nat
      /\ Append(s, m)[Len(s) + 1] = m
      /\ \A i \in 1..Len(s) : Append(s, m)[i] = s[i]
  OBVIOUS
<1>2. DOMAIN s = 1..Len(s) /\ DOMAIN Append(s, m) = 1..(Len(s) + 1)
  BY <1>1
<1>. QED BY <1>1, <1>2 DEF IsInjective, ToSet

LEMMA ArraysJoin ==
    ASSUME NEW S, NEW s \in Seq(S), NEW t \in Seq(S)
    PROVE  /\ s \o t \in Seq(S) /\ ToSet(s \o t) = ToSet(s) \cup ToSet(t)
           /\ IsInjective(s) /\ IsInjective(t) /\ ToSet(s) \cap ToSet(t) = {}
                 => IsInjective(s \o t)
<1>. DEFINE u == s \o t
<1>1. /\ u \in Seq(S) /\ Len(u) = Len(s) + Len(t) /\ Len(s) \in Nat /\ Len(t) \in Nat
      /\ \A i \in 1..Len(s) : u[i] = s[i]
      /\ \A i \in 1..Len(t) : u[Len(s) + i] = t[i]
  OBVIOUS
<1>2. DOMAIN s = 1..Len(s) /\ DOMAIN t = 1..Len(t) /\ DOMAIN u = 1..(Len(s) + Len(t))
  BY <1>1
<1>. HIDE DEF u
<1>3. ToSet(s) \cup ToSet(t) \subseteq ToSet(u)
  <2>1. ASSUME NEW i \in DOMAIN s PROVE s[i] \in ToSet(u)
    BY <1>1, <1>2 DEF ToSet
  <2>2. ASSUME NEW i \in DOMAIN t PROVE t[i] \in ToSet(u)
    <3>1. Len(s) + i \in DOMAIN u /\ u[Len(s) + i] = t[i]
      BY <1>1, <1>2
    <3>. QED BY <3>1 DEF ToSet
  <2>. QED BY <2>1, <2>2 DEF ToSet
<1>4. ASSUME NEW i \in DOMAIN u
      PROVE  \/ i \in DOMAIN s /\ u[i] = s[i]
             \/ i - Len(s) \in DOMAIN t /\ u[i] = t[i - Len(s)]
  <2>1. CASE i > Len(s)
    <3>1. i - Len(s) \in 1..Len(t) /\ Len(s) + (i - Len(s)) = i
      BY <1>1, <1>2, <2>1
    <3>. QED BY <3>1, <1>1, <1>2
  <2>. QED BY <2>1, <1>1, <1>2
<1>5. ToSet(u) \subseteq ToSet(s) \cup ToSet(t)
  BY <1>4 DEF ToSet
<1>6. ASSUME IsInjective(s), IsInjective(t), ToSet(s) \cap ToSet(t) = {}
      PROVE  IsInjective(u)
  <2>. SUFFICES ASSUME NEW i \in DOMAIN u, NEW j \in DOMAIN u, u[i] = u[j]
                PROVE  i = j
    BY DEF IsInjective
  <2>1. CASE i \in DOMAIN s /\ u[i] = s[i] /\ j \in DOMAIN s /\ u[j] = s[j]
    BY <1>6, <2>1 DEF IsInjective
  <2>2. CASE /\ i - Len(s) \in DOMAIN t /\ u[i] = t[i - Len(s)]
             /\ j - Len(s) \in DOMAIN t /\ u[j] = t[j - Len(s)]
    <3>1. i - Len(s) = j - Len(s)
      BY <1>6, <2>2 DEF IsInjective
    <3>. QED BY <3>1, <1>1, <1>2
  <2>3. \A x \in DOMAIN s, y \in DOMAIN t : s[x] # t[y]
    BY <1>6 DEF ToSet
  <2>. QED BY <1>4, <2>1, <2>2, <2>3
<1>. QED BY <1>1, <1>3, <1>5, <1>6 DEF u

-----------------------------------------------------------------------------
(* Where every packet buffer is.                                           *)

Arrays == {"pool", "rxq", "received", "replies", "txq"}

(* array and queue say for each buffer the one place that holds it *)
Located(array, queue) ==
    /\ array \in [Mbufs -> Arrays] /\ queue \in [Mbufs -> QueueIds]
    /\ pool = {m \in Mbufs : array[m] = "pool"}
    /\ \A q \in QueueIds :
          /\ ToSet(rxq[q]) = {m \in Mbufs : array[m] = "rxq" /\ queue[m] = q}
          /\ ToSet(received[q]) = {m \in Mbufs : array[m] = "received" /\ queue[m] = q}
          /\ ToSet(replies[q]) = {m \in Mbufs : array[m] = "replies" /\ queue[m] = q}
          /\ ToSet(txq[q]) = {m \in Mbufs : array[m] = "txq" /\ queue[m] = q}
OnePlace == \E array \in [Mbufs -> Arrays], queue \in [Mbufs -> QueueIds] :
               Located(array, queue)

(* An array of buffers that holds none twice *)
Bursts == {s \in Seq(Mbufs) : IsInjective(s)}
BurstTypes ==
    /\ rxq \in [QueueIds -> Bursts] /\ txq \in [QueueIds -> Bursts]
    /\ received \in [QueueIds -> Bursts] /\ replies \in [QueueIds -> Bursts]

(* What a loop has in hand at each of its stages *)
LoopHolds ==
    \A q \in QueueIds :
        /\ lcore[q] \in {"idle", "poll", "process", "transmit", "done"}
        /\ lcore[q] \in {"idle", "poll", "done"} => received[q] = <<>> /\ replies[q] = <<>>
        /\ lcore[q] = "transmit" => received[q] = <<>>
        /\ lcore[q] = "idle" => txq[q] = <<>>

(* No loop has begun before the main thread launches it *)
PreLaunch == BeforeControl \cup {"started"}
NotLaunched ==
    /\ next \in 1..Queues
    /\ main \in PreLaunch => \A q \in QueueIds : lcore[q] = "idle"
    /\ main = "launch" => \A q \in QueueIds : q = 0 \/ q >= next => lcore[q] = "idle"

(* What is known of a packet in each place *)
PacketShape ==
    /\ DOMAIN content = Mbufs /\ DOMAIN applied = Mbufs
    /\ \A m \in Mbufs : DOMAIN content[m] = {"kind", "to", "frame"}
Unapplied == \A q \in QueueIds : \A m \in ToSet(rxq[q]) \cup ToSet(received[q]) :
                applied[m] = <<>>
Told == \A q \in QueueIds : \A m \in ToSet(replies[q]) \cup ToSet(txq[q]) : TellsDecision(m)

Buffers ==
    /\ OnePlace /\ BurstTypes /\ LoopHolds /\ NotLaunched /\ PacketShape /\ Unapplied /\ Told
    /\ port = "closed" => pool = Mbufs

(* The initial state: every buffer is in the pool, and no loop runs *)
LEMMA BuffersInit == Init => Buffers
<1>. SUFFICES ASSUME Init PROVE Buffers
  OBVIOUS
<1>1. /\ port = "down" /\ next = 1 /\ lcore = [q \in QueueIds |-> "idle"] /\ pool = Mbufs
      /\ rxq = Empty /\ txq = Empty /\ received = Empty /\ replies = Empty
      /\ content = [m \in Mbufs |-> NoPacket] /\ applied = [m \in Mbufs |-> <<>>]
      /\ main \in {"boot", "configure"}
  BY DEF Init, DpdkInit
<1>2. 0 \in QueueIds /\ 1 \in 1..Queues
  BY QueueCountAssumption DEF QueueIds
<1>3. <<>> \in Bursts
  BY NothingHeld DEF Bursts
<1>4. BurstTypes
  BY <1>1, <1>3 DEF BurstTypes, Empty
<1>5. /\ \A q \in QueueIds : /\ rxq[q] = <<>> /\ txq[q] = <<>>
                             /\ received[q] = <<>> /\ replies[q] = <<>>
                             /\ lcore[q] = "idle"
  BY <1>1 DEF Empty
<1>6. OnePlace
  <2>. DEFINE array == [m \in Mbufs |-> "pool"]
              queue == [m \in Mbufs |-> 0]
  <2>1. Located(array, queue)
    BY <1>1, <1>2, <1>5, NothingHeld DEF Located, Arrays
  <2>2. array \in [Mbufs -> Arrays] /\ queue \in [Mbufs -> QueueIds]
    BY <1>2 DEF Arrays
  <2>. QED BY <2>1, <2>2 DEF OnePlace
<1>7. LoopHolds /\ NotLaunched
  BY <1>1, <1>2, <1>5 DEF LoopHolds, NotLaunched
<1>8. PacketShape
  BY <1>1 DEF PacketShape, NoPacket
<1>9. Unapplied /\ Told
  BY <1>5, NothingHeld DEF Unapplied, Told
<1>. QED BY <1>1, <1>4, <1>6, <1>7, <1>8, <1>9 DEF Buffers

(* A step that moves no buffer *)
LEMMA SamePlaces ==
    ASSUME Buffers, UNCHANGED <<pool, rxq, txq, received, replies, content, applied>>
    PROVE  OnePlace' /\ BurstTypes' /\ PacketShape' /\ Unapplied'
<1>1. OnePlace'
  <2>1. PICK array \in [Mbufs -> Arrays], queue \in [Mbufs -> QueueIds] : Located(array, queue)
    BY DEF Buffers, OnePlace
  <2>2. Located(array, queue)'
    BY <2>1 DEF Located
  <2>. QED BY <2>2 DEF OnePlace
<1>2. BurstTypes'
  BY DEF Buffers, BurstTypes
<1>3. PacketShape'
  BY DEF Buffers, PacketShape
<1>4. Unapplied'
  BY DEF Buffers, Unapplied
<1>. QED BY <1>1, <1>2, <1>3, <1>4

LEMMA SameReplies ==
    ASSUME Buffers, UNCHANGED <<redirect, txq, replies, content, applied>>
    PROVE  Told'
<1>. SUFFICES ASSUME NEW q \in QueueIds, NEW m \in ToSet(replies[q]) \cup ToSet(txq[q])
              PROVE  TellsDecision(m)'
  BY DEF Told
<1>1. TellsDecision(m)
  BY DEF Buffers, Told
<1>. QED BY <1>1 DEF TellsDecision

(* A step that moves no buffer and starts no loop *)
LEMMA BuffersRest ==
    ASSUME Buffers, UNCHANGED <<redirect, next, lcore, pool, rxq, txq, received, replies,
                                content, applied>>,
           port' = "closed" => port = "closed",
           main' \in PreLaunch => main \in PreLaunch,
           main' = "launch" => main \in PreLaunch \cup {"launch"}
    PROVE  Buffers'
<1>1. OnePlace' /\ BurstTypes' /\ LoopHolds' /\ PacketShape' /\ Unapplied' /\ Told'
  BY SamePlaces, SameReplies DEF Buffers, LoopHolds
<1>2. NotLaunched'
  BY DEF Buffers, NotLaunched
<1>. QED BY <1>1, <1>2 DEF Buffers

LEMMA RxBurstKeeps ==
    ASSUME Life, Buffers, NEW q \in QueueIds, RxBurst(q)
    PROVE  Buffers'
<1>1. PICK n \in 1..Burst :
        /\ n <= Len(rxq[q])
        /\ received' = [received EXCEPT ![q] = SubSeq(rxq[q], 1, n)]
        /\ rxq' = [rxq EXCEPT ![q] = SubSeq(rxq[q], n + 1, Len(rxq[q]))]
  BY DEF RxBurst
<1>2. /\ UNCHANGED <<port, redirect, next, pool, txq, replies, content, applied, main>>
      /\ lcore[q] = "poll" /\ lcore' = [lcore EXCEPT ![q] = "process"]
  BY DEF RxBurst, rtVars
<1>. DEFINE front == SubSeq(rxq[q], 1, n)
            back == SubSeq(rxq[q], n + 1, Len(rxq[q]))
<1>3. /\ rxq \in [QueueIds -> Bursts] /\ received \in [QueueIds -> Bursts]
      /\ rxq[q] \in Bursts
  BY DEF Buffers, BurstTypes
<1>4. rxq[q] \in Seq(Mbufs) /\ IsInjective(rxq[q]) /\ n \in 0..Len(rxq[q])
  BY <1>1, <1>3, QueueCountAssumption DEF Bursts
<1>5. /\ front \in Bursts /\ back \in Bursts
      /\ ToSet(rxq[q]) = ToSet(front) \cup ToSet(back)
      /\ ToSet(front) \cap ToSet(back) = {}
  BY <1>4, BurstSplits DEF Bursts
<1>. HIDE DEF front, back
<1>6. /\ rxq' \in [QueueIds -> Bursts] /\ received' \in [QueueIds -> Bursts]
      /\ rxq'[q] = back /\ received'[q] = front
      /\ \A p \in QueueIds \ {q} : rxq'[p] = rxq[p] /\ received'[p] = received[p]
  BY <1>1, <1>3, <1>5 DEF front, back
<1>7. BurstTypes'
  BY <1>2, <1>6 DEF Buffers, BurstTypes
<1>8. received[q] = <<>> /\ replies[q] = <<>> /\ ToSet(received[q]) = {}
  BY <1>2, NothingHeld DEF Buffers, LoopHolds
<1>9. OnePlace'
  <2>1. PICK array \in [Mbufs -> Arrays], queue \in [Mbufs -> QueueIds] :
           Located(array, queue)
    BY DEF Buffers, OnePlace
  <2>2. PICK array2 \in [Mbufs -> Arrays] :
           \A m \in Mbufs : array2[m] = IF m \in ToSet(front) THEN "received" ELSE array[m]
    <3>. DEFINE f == [m \in Mbufs |-> IF m \in ToSet(front) THEN "received" ELSE array[m]]
    <3>1. f \in [Mbufs -> Arrays]
      BY DEF Arrays
    <3>. QED BY <3>1
  <2>3. \A m \in ToSet(front) : m \in Mbufs /\ array[m] = "rxq" /\ queue[m] = q
    BY <1>5, <2>1 DEF Located
  <2>4. pool' = {m \in Mbufs : array2[m] = "pool"}
    BY <1>2, <2>1, <2>2, <2>3 DEF Located
  <2>5. ASSUME NEW p \in QueueIds
        PROVE  /\ ToSet(rxq'[p]) = {m \in Mbufs : array2[m] = "rxq" /\ queue[m] = p}
               /\ ToSet(received'[p]) = {m \in Mbufs : array2[m] = "received" /\ queue[m] = p}
               /\ ToSet(replies'[p]) = {m \in Mbufs : array2[m] = "replies" /\ queue[m] = p}
               /\ ToSet(txq'[p]) = {m \in Mbufs : array2[m] = "txq" /\ queue[m] = p}
    <3>1. ToSet(replies'[p]) = {m \in Mbufs : array2[m] = "replies" /\ queue[m] = p}
      BY <1>2, <2>1, <2>2, <2>3 DEF Located
    <3>2. ToSet(txq'[p]) = {m \in Mbufs : array2[m] = "txq" /\ queue[m] = p}
      BY <1>2, <2>1, <2>2, <2>3 DEF Located
    <3>3. ToSet(rxq'[p]) = {m \in Mbufs : array2[m] = "rxq" /\ queue[m] = p}
      BY <1>5, <1>6, <2>1, <2>2, <2>3 DEF Located
    <3>4. ToSet(received'[p]) = {m \in Mbufs : array2[m] = "received" /\ queue[m] = p}
      BY <1>6, <1>8, <2>1, <2>2, <2>3 DEF Located
    <3>. QED BY <3>1, <3>2, <3>3, <3>4
  <2>6. Located(array2, queue)'
    BY <2>4, <2>5 DEF Located
  <2>. QED BY <2>6 DEF OnePlace
<1>10. LoopHolds'
  BY <1>2, <1>6, <1>8 DEF Life, Buffers, LoopHolds
<1>11. NotLaunched'
  BY <1>2 DEF Life, Buffers, NotLaunched
<1>12. PacketShape'
  BY <1>2 DEF Buffers, PacketShape
<1>13. Unapplied'
  BY <1>2, <1>5, <1>6 DEF Buffers, Unapplied
<1>14. Told'
  BY <1>2 DEF Buffers, Told, TellsDecision
<1>. QED BY <1>2, <1>7, <1>9, <1>10, <1>11, <1>12, <1>13, <1>14 DEF Buffers

-----------------------------------------------------------------------------
(* The frames of udp_counter_protocol.                                     *)

(* The fields of a reply frame are those of the reply; a reply that is not  *)
(* a redirection carries no endpoint.                                       *)
LEMMA ReplyFields ==
    ASSUME NEW Words,
           NEW reply \in [request_id : Words, decision : {"Accepted", "Rejected", "Moved"},
                          observed : Words, counter : Words, ip : Words, port : Words]
    PROVE  LET told == [reply EXCEPT !.ip = IF reply.decision = "Moved" THEN @ ELSE 0,
                                     !.port = IF reply.decision = "Moved" THEN @ ELSE 0]
           IN  decode_reply(encode_reply(reply)) = {told}
<1>. DEFINE told == [reply EXCEPT !.ip = IF reply.decision = "Moved" THEN @ ELSE 0,
                                  !.port = IF reply.decision = "Moved" THEN @ ELSE 0]
            g == encode_reply(reply)
<1>1. /\ g.magic = Magic /\ g.version = Version /\ g.type = ReplyType
      /\ g.code = DecisionCode[reply.decision] /\ g.id = reply.request_id
      /\ g.amount = reply.observed /\ g.counter = reply.counter
      /\ g.ip = told.ip /\ g.port = told.port
  BY DEF encode_reply, ZeroFrame
<1>. HIDE DEF g
<1>2. {x \in DOMAIN DecisionCode :
          valid_prefix(g, ReplyType) /\ DecisionCode[x] = g.code} = {reply.decision}
  BY <1>1 DEF valid_prefix, DecisionCode
<1>3. [request_id |-> g.id, decision |-> reply.decision, observed |-> g.amount,
       counter |-> g.counter, ip |-> g.ip, port |-> g.port] = told
  <2>1. /\ told \in [request_id : Words, decision : {"Accepted", "Rejected", "Moved"},
                     observed : Words, counter : Words, ip : Words \cup {0},
                     port : Words \cup {0}]
        /\ told.request_id = reply.request_id /\ told.decision = reply.decision
        /\ told.observed = reply.observed /\ told.counter = reply.counter
    OBVIOUS
  <2>. HIDE DEF told
  <2>. QED BY <1>1, <2>1
<1>. HIDE DEF told
<1>. QED BY <1>2, <1>3 DEF decode_reply, g, told

-----------------------------------------------------------------------------
(* One packet of a burst is processed.                                     *)

(* The buffer at the head of the burst goes to the replies or to the pool *)
LEMMA HeadMoves ==
    ASSUME Buffers, NEW q \in QueueIds, received[q] # <<>>,
           received' = [received EXCEPT ![q] = Tail(@)], UNCHANGED <<rxq, txq>>,
           \/ UNCHANGED pool /\ Answered(q, Head(received[q]))
           \/ pool' = pool \cup {Head(received[q])} /\ UNCHANGED replies
    PROVE  LET m == Head(received[q])
           IN  /\ OnePlace' /\ BurstTypes' /\ m \in ToSet(received[q]) /\ m \in Mbufs
               /\ \A p \in QueueIds \ {q} :
                     received'[p] = received[p] /\ replies'[p] = replies[p]
               /\ \A p \in QueueIds :
                     /\ ToSet(received'[p]) \subseteq ToSet(received[p]) \ {m}
                     /\ m \notin ToSet(rxq[p]) \cup ToSet(txq[p]) \cup ToSet(replies[p])
                     /\ ToSet(replies'[p]) \subseteq ToSet(replies[p]) \cup {m}
               /\ pool \subseteq pool' /\ pool' \subseteq Mbufs
               /\ UNCHANGED replies \/ UNCHANGED pool
<1>1. /\ rxq \in [QueueIds -> Bursts] /\ received \in [QueueIds -> Bursts]
      /\ replies \in [QueueIds -> Bursts] /\ txq \in [QueueIds -> Bursts]
      /\ received[q] \in Bursts /\ replies[q] \in Bursts
  BY DEF Buffers, BurstTypes
<1>2. PICK m : m = Head(received[q])
  OBVIOUS
<1>3. /\ m \in Mbufs /\ Tail(received[q]) \in Bursts
      /\ ToSet(received[q]) = {m} \cup ToSet(Tail(received[q]))
      /\ m \notin ToSet(Tail(received[q]))
  <2>1. received[q] \in Seq(Mbufs) /\ IsInjective(received[q])
    BY <1>1 DEF Bursts
  <2>. QED BY <1>2, <2>1, HeadLeaves DEF Bursts
<1>4. /\ received' \in [QueueIds -> Bursts] /\ received'[q] = Tail(received[q])
      /\ \A p \in QueueIds \ {q} : received'[p] = received[p]
  BY <1>1, <1>3
<1>5. PICK array \in [Mbufs -> Arrays], queue \in [Mbufs -> QueueIds] : Located(array, queue)
  BY DEF Buffers, OnePlace
<1>6. array[m] = "received" /\ queue[m] = q
  BY <1>3, <1>5 DEF Located
<1>7. \A p \in QueueIds : m \notin ToSet(rxq[p]) \cup ToSet(txq[p]) \cup ToSet(replies[p])
  BY <1>5, <1>6 DEF Located
<1>8. \A p \in QueueIds : ToSet(received'[p]) = ToSet(received[p]) \ {m}
  <2>1. \A p \in QueueIds \ {q} : m \notin ToSet(received[p])
    BY <1>5, <1>6 DEF Located
  <2>2. ToSet(received'[q]) = ToSet(received[q]) \ {m}
    BY <1>3, <1>4
  <2>. QED BY <1>4, <2>1, <2>2
<1>9. PICK to \in {"replies", "pool"} :
         /\ pool' = IF to = "pool" THEN pool \cup {m} ELSE pool
         /\ replies' = IF to = "pool" THEN replies
                       ELSE [replies EXCEPT ![q] = Append(replies[q], m)]
  BY <1>2 DEF Answered
<1>10. /\ replies' \in [QueueIds -> Bursts]
       /\ \A p \in QueueIds \ {q} : replies'[p] = replies[p]
       /\ ToSet(replies'[q]) = IF to = "pool" THEN ToSet(replies[q])
                               ELSE ToSet(replies[q]) \cup {m}
  <2>1. replies[q] \in Seq(Mbufs) /\ IsInjective(replies[q]) /\ m \notin ToSet(replies[q])
    BY <1>1, <1>7 DEF Bursts
  <2>2. /\ Append(replies[q], m) \in Bursts
        /\ ToSet(Append(replies[q], m)) = ToSet(replies[q]) \cup {m}
    BY <1>3, <2>1, BufferAdded DEF Bursts
  <2>. QED BY <1>1, <1>9, <2>2
<1>11. BurstTypes'
  BY <1>1, <1>4, <1>10 DEF BurstTypes
<1>12. OnePlace'
  <2>1. PICK array2 \in [Mbufs -> Arrays] :
           \A x \in Mbufs : array2[x] = IF x = m THEN to ELSE array[x]
    <3>. DEFINE f == [x \in Mbufs |-> IF x = m THEN to ELSE array[x]]
    <3>1. f \in [Mbufs -> Arrays]
      BY DEF Arrays
    <3>. QED BY <3>1
  <2>2. pool' = {x \in Mbufs : array2[x] = "pool"}
    BY <1>3, <1>5, <1>6, <1>9, <2>1 DEF Located
  <2>3. ASSUME NEW p \in QueueIds
        PROVE  /\ ToSet(rxq'[p]) = {x \in Mbufs : array2[x] = "rxq" /\ queue[x] = p}
               /\ ToSet(received'[p]) = {x \in Mbufs : array2[x] = "received" /\ queue[x] = p}
               /\ ToSet(replies'[p]) = {x \in Mbufs : array2[x] = "replies" /\ queue[x] = p}
               /\ ToSet(txq'[p]) = {x \in Mbufs : array2[x] = "txq" /\ queue[x] = p}
    <3>1. ToSet(rxq'[p]) = {x \in Mbufs : array2[x] = "rxq" /\ queue[x] = p}
      BY <1>5, <1>6, <2>1 DEF Located
    <3>2. ToSet(txq'[p]) = {x \in Mbufs : array2[x] = "txq" /\ queue[x] = p}
      BY <1>5, <1>6, <2>1 DEF Located
    <3>3. ToSet(received'[p]) = {x \in Mbufs : array2[x] = "received" /\ queue[x] = p}
      <4>1. \A x \in Mbufs : array2[x] = "received" <=> array[x] = "received" /\ x # m
        BY <1>9, <2>1
      <4>2. ToSet(received[p]) = {x \in Mbufs : array[x] = "received" /\ queue[x] = p}
        BY <1>5 DEF Located
      <4>. QED BY <1>8, <4>1, <4>2
    <3>4. ToSet(replies'[p]) = {x \in Mbufs : array2[x] = "replies" /\ queue[x] = p}
      BY <1>3, <1>5, <1>6, <1>10, <2>1 DEF Located
    <3>. QED BY <3>1, <3>2, <3>3, <3>4
  <2>4. Located(array2, queue)'
    BY <2>2, <2>3 DEF Located
  <2>. QED BY <2>4 DEF OnePlace
<1>13. pool \subseteq pool' /\ pool' \subseteq Mbufs
  BY <1>3, <1>5, <1>9 DEF Located
<1>. QED BY <1>2, <1>3, <1>4, <1>7, <1>8, <1>9, <1>10, <1>11, <1>12, <1>13

(* The reply that is built in place says what the engine decided *)
LEMMA ReplyTells ==
    ASSUME NEW p, DOMAIN p = {"kind", "to", "frame"}, NEW r \in Requests(p),
           NEW decision \in Decisions(r.delta)
    PROVE  LET reply == ReplyPacket(p, r, decision)
           IN  /\ DOMAIN reply = {"kind", "to", "frame"} /\ reply.to = "peer"
               /\ decode_reply(reply.frame) =
                     {[request_id |-> r.request_id, decision |-> decision,
                       observed |-> Observed, counter |-> r.counter,
                       ip |-> IF decision = "Moved" THEN redirect.ip ELSE 0,
                       port |-> IF decision = "Moved" THEN redirect.port ELSE 0]}
<1>. DEFINE Words == {r.request_id, r.delta, r.counter, Observed, redirect.ip, redirect.port}
            full == [request_id |-> r.request_id, decision |-> decision,
                     observed |-> Observed, counter |-> r.counter,
                     ip |-> redirect.ip, port |-> redirect.port]
            told == [full EXCEPT !.ip = IF full.decision = "Moved" THEN @ ELSE 0,
                                 !.port = IF full.decision = "Moved" THEN @ ELSE 0]
<1>1. decision \in {"Accepted", "Rejected", "Moved"}
  BY DEF Decisions
<1>3. full \in [request_id : Words, decision : {"Accepted", "Rejected", "Moved"},
                observed : Words, counter : Words, ip : Words, port : Words]
  BY <1>1
<1>4. told = [request_id |-> r.request_id, decision |-> decision,
              observed |-> Observed, counter |-> r.counter,
              ip |-> IF decision = "Moved" THEN redirect.ip ELSE 0,
              port |-> IF decision = "Moved" THEN redirect.port ELSE 0]
  <2>1. /\ told \in [request_id : Words, decision : {"Accepted", "Rejected", "Moved"},
                    observed : Words, counter : Words, ip : Words \cup {0},
                    port : Words \cup {0}]
        /\ told.request_id = r.request_id /\ told.decision = decision
        /\ told.observed = Observed /\ told.counter = r.counter
        /\ told.ip = IF decision = "Moved" THEN redirect.ip ELSE 0
        /\ told.port = IF decision = "Moved" THEN redirect.port ELSE 0
    BY <1>1
  <2>. HIDE DEF told, Words
  <2>. QED BY <2>1
<1>5. decode_reply(encode_reply(full)) = {told}
  <2>. HIDE DEF Words, full
  <2>. QED BY <1>3, ReplyFields
<1>. HIDE DEF told
<1>6. /\ DOMAIN ReplyPacket(p, r, decision) = {"kind", "to", "frame"}
      /\ ReplyPacket(p, r, decision).to = "peer"
      /\ ReplyPacket(p, r, decision).frame = encode_reply(full)
  BY DEF ReplyPacket
<1>. QED BY <1>4, <1>5, <1>6

LEMMA ProcessPacketKeeps ==
    ASSUME Life, Buffers, NEW q \in QueueIds, ProcessPacket(q)
    PROVE  Buffers'
<1>0. PICK m : m = Head(received[q])
  OBVIOUS
<1>. DEFINE p == content[m]
<1>1. /\ lcore[q] = "process" /\ received[q] # <<>>
      /\ received' = [received EXCEPT ![q] = Tail(@)]
      /\ UNCHANGED <<port, redirect, next, lcore, rxq, txq, main>>
  BY DEF ProcessPacket
<1>2. \/ UNCHANGED pool /\ Answered(q, m)
      \/ pool' = pool \cup {m} /\ UNCHANGED replies
  BY <1>0 DEF ProcessPacket
<1>3. /\ OnePlace' /\ BurstTypes' /\ m \in ToSet(received[q]) /\ m \in Mbufs
      /\ \A o \in QueueIds \ {q} : received'[o] = received[o] /\ replies'[o] = replies[o]
      /\ \A o \in QueueIds :
            /\ ToSet(received'[o]) \subseteq ToSet(received[o]) \ {m}
            /\ m \notin ToSet(rxq[o]) \cup ToSet(txq[o]) \cup ToSet(replies[o])
            /\ ToSet(replies'[o]) \subseteq ToSet(replies[o]) \cup {m}
      /\ pool \subseteq pool' /\ pool' \subseteq Mbufs
  BY <1>0, <1>1, <1>2, HeadMoves
<1>4. PacketShape /\ applied[m] = <<>>
  BY <1>3 DEF Buffers, Unapplied
<1>5. DOMAIN p = {"kind", "to", "frame"}
  BY <1>3, <1>4 DEF PacketShape
<1>6. /\ PacketShape'
      /\ \A x \in Mbufs \ {m} : content'[x] = content[x] /\ applied'[x] = applied[x]
      /\ Answered(q, m) => TellsDecision(m)'
      /\ Answered(q, m) \/ UNCHANGED replies
  <2>1. CASE /\ p.kind = "arp_request" /\ Answered(q, m)
             /\ content' = [content EXCEPT ![m] = reply_arp(p)] /\ UNCHANGED applied
    <3>1. /\ content'[m] = reply_arp(p) /\ \A x \in Mbufs \ {m} : content'[x] = content[x]
          /\ DOMAIN content' = Mbufs
      BY <1>3, <1>4, <2>1 DEF PacketShape
    <3>2. /\ DOMAIN reply_arp(p) = {"kind", "to", "frame"} /\ reply_arp(p).to = "peer"
          /\ reply_arp(p).kind = "arp_reply"
      BY <1>5 DEF reply_arp
    <3>3. PacketShape'
      BY <1>4, <2>1, <3>1, <3>2 DEF PacketShape
    <3>4. TellsDecision(m)'
      BY <3>1, <3>2 DEF TellsDecision
    <3>. QED BY <2>1, <3>1, <3>3, <3>4
  <2>2. ASSUME NEW r \in Requests(p), NEW decision \in Decisions(r.delta), Answered(q, m),
               content' = [content EXCEPT ![m] = ReplyPacket(p, r, decision)],
               applied' = [applied EXCEPT ![m] =
                              Append(@, [request |-> r, decision |-> decision])]
        PROVE  /\ PacketShape' /\ TellsDecision(m)'
               /\ \A x \in Mbufs \ {m} : content'[x] = content[x] /\ applied'[x] = applied[x]
    <3>. DEFINE a == [request |-> r, decision |-> decision]
    <3>1. /\ content'[m] = ReplyPacket(p, r, decision) /\ DOMAIN content' = Mbufs
          /\ applied'[m] = <<a>> /\ DOMAIN applied' = Mbufs
          /\ \A x \in Mbufs \ {m} : content'[x] = content[x] /\ applied'[x] = applied[x]
      BY <1>3, <1>4, <2>2 DEF PacketShape
    <3>2. /\ DOMAIN content'[m] = {"kind", "to", "frame"} /\ content'[m].to = "peer"
          /\ decode_reply(content'[m].frame) =
                {[request_id |-> r.request_id, decision |-> decision,
                  observed |-> Observed, counter |-> r.counter,
                  ip |-> IF decision = "Moved" THEN redirect.ip ELSE 0,
                  port |-> IF decision = "Moved" THEN redirect.port ELSE 0]}
      <4>1. PICK reply : reply = ReplyPacket(p, r, decision)
        OBVIOUS
      <4>2. /\ DOMAIN reply = {"kind", "to", "frame"} /\ reply.to = "peer"
            /\ decode_reply(reply.frame) =
                  {[request_id |-> r.request_id, decision |-> decision,
                    observed |-> Observed, counter |-> r.counter,
                    ip |-> IF decision = "Moved" THEN redirect.ip ELSE 0,
                    port |-> IF decision = "Moved" THEN redirect.port ELSE 0]}
        BY <1>5, <4>1, ReplyTells
      <4>3. content'[m] = reply
        BY <3>1, <4>1
      <4>. QED BY <4>2, <4>3, Zenon
    <3>3. PacketShape'
      BY <1>4, <3>1, <3>2 DEF PacketShape
    <3>4. ToSet(applied'[m]) = {a} /\ Len(applied'[m]) = 1
      BY <3>1 DEF ToSet
    <3>5. a.request = r /\ a.decision = decision
      OBVIOUS
    <3>. HIDE DEF a
    <3>6. TellsDecision(m)'
      BY <1>1, <3>2, <3>4, <3>5 DEF TellsDecision
    <3>. QED BY <3>1, <3>3, <3>6
  <2>3. CASE UNCHANGED <<content, applied, replies>>
    <3>1. ~Answered(q, m)
      <4>1. replies[q] \in Bursts /\ replies \in [QueueIds -> Bursts]
        BY DEF Buffers, BurstTypes
      <4>2. Append(replies[q], m) # replies[q]
        <5>1. replies[q] \in Seq(Mbufs)
          BY <4>1 DEF Bursts
        <5>2. Len(Append(replies[q], m)) = Len(replies[q]) + 1 /\ Len(replies[q]) \in Nat
          BY <1>3, <5>1
        <5>. QED BY <5>2
      <4>. QED BY <2>3, <4>1, <4>2 DEF Answered
    <3>. QED BY <1>4, <2>3, <3>1 DEF PacketShape
  <2>. QED BY <1>0, <2>1, <2>2, <2>3 DEF ProcessPacket
<1>7. LoopHolds'
  BY <1>1, <1>3 DEF Buffers, LoopHolds
<1>8. NotLaunched'
  BY <1>1 DEF Buffers, NotLaunched
<1>9. Unapplied'
  <2>. SUFFICES ASSUME NEW o \in QueueIds, NEW x \in ToSet(rxq'[o]) \cup ToSet(received'[o])
                PROVE  applied'[x] = <<>>
    BY DEF Unapplied
  <2>1. x \in ToSet(rxq[o]) \cup ToSet(received[o]) /\ x # m
    BY <1>1, <1>3
  <2>2. x \in Mbufs
    BY <2>1 DEF Buffers, OnePlace, Located
  <2>. QED BY <1>6, <2>1, <2>2 DEF Buffers, Unapplied
<1>10. Told'
  <2>. SUFFICES ASSUME NEW o \in QueueIds, NEW x \in ToSet(replies'[o]) \cup ToSet(txq'[o])
                PROVE  TellsDecision(x)'
    BY DEF Told
  <2>1. CASE x = m
    <3>1. Answered(q, m)
      BY <1>1, <1>3, <1>6, <2>1
    <3>. QED BY <1>6, <2>1, <3>1
  <2>2. CASE x # m
    <3>1. x \in ToSet(replies[o]) \cup ToSet(txq[o])
      BY <1>1, <1>3, <2>2
    <3>2. x \in Mbufs /\ TellsDecision(x)
      BY <3>1 DEF Buffers, Told, OnePlace, Located
    <3>. QED BY <1>1, <1>6, <2>2, <3>2 DEF TellsDecision
  <2>. QED BY <2>1, <2>2
<1>11. port' = "closed" => pool' = Mbufs
  BY <1>1, <1>3 DEF Buffers
<1>. QED BY <1>3, <1>6, <1>7, <1>8, <1>9, <1>10, <1>11 DEF Buffers

(* The burst is done, or the loop is told to stop: nothing moves *)
LEMMA StageKeeps ==
    ASSUME Life, Buffers, NEW q \in QueueIds, LoopEnds(q) \/ BurstProcessed(q)
    PROVE  Buffers'
<1>1. /\ UNCHANGED <<port, redirect, next, pool, rxq, txq, received, replies, content,
                     applied, main>>
      /\ \/ lcore[q] = "poll" /\ lcore' = [lcore EXCEPT ![q] = "done"]
         \/ lcore[q] = "process" /\ received[q] = <<>>
            /\ lcore' = [lcore EXCEPT ![q] = "transmit"]
  BY DEF LoopEnds, BurstProcessed, rtVars
<1>2. OnePlace' /\ BurstTypes' /\ PacketShape' /\ Unapplied' /\ Told'
  BY <1>1, SamePlaces, SameReplies
<1>3. LoopHolds' /\ NotLaunched'
  BY <1>1 DEF Life, Buffers, LoopHolds, NotLaunched
<1>. QED BY <1>1, <1>2, <1>3 DEF Buffers

-----------------------------------------------------------------------------
(* The replies leave, and the NIC takes, brings and gives back buffers.    *)

(* A burst of replies that the NIC takes only in part: the rest is freed *)
LEMMA TxBurstKeeps ==
    ASSUME Life, Buffers, NEW q \in QueueIds, TxBurst(q)
    PROVE  Buffers'
<1>1. PICK n \in 0..Len(replies[q]) :
        /\ txq' = [txq EXCEPT ![q] = txq[q] \o SubSeq(replies[q], 1, n)]
        /\ pool' = pool \cup UnsentFreed(q, n)
  BY DEF TxBurst
<1>2. /\ UNCHANGED <<port, redirect, next, rxq, received, content, applied, main>>
      /\ lcore[q] = "transmit" /\ lcore' = [lcore EXCEPT ![q] = "poll"]
      /\ replies' = [replies EXCEPT ![q] = <<>>]
  BY DEF TxBurst, rtVars
<1>3. PICK sent, unsent : /\ sent = SubSeq(replies[q], 1, n)
                          /\ unsent = SubSeq(replies[q], n + 1, Len(replies[q]))
  OBVIOUS
<1>4. /\ txq \in [QueueIds -> Bursts] /\ replies \in [QueueIds -> Bursts]
      /\ replies[q] \in Seq(Mbufs) /\ IsInjective(replies[q])
      /\ txq[q] \in Seq(Mbufs) /\ IsInjective(txq[q])
  BY DEF Buffers, BurstTypes, Bursts
<1>5. /\ sent \in Bursts /\ unsent \in Bursts
      /\ ToSet(replies[q]) = ToSet(sent) \cup ToSet(unsent)
      /\ ToSet(sent) \cap ToSet(unsent) = {}
  BY <1>3, <1>4, BurstSplits DEF Bursts
<1>6. PICK array \in [Mbufs -> Arrays], queue \in [Mbufs -> QueueIds] : Located(array, queue)
  BY DEF Buffers, OnePlace
<1>7. \A m \in ToSet(sent) \cup ToSet(unsent) :
         m \in Mbufs /\ array[m] = "replies" /\ queue[m] = q
  BY <1>5, <1>6 DEF Located
<1>8. /\ txq[q] \o sent \in Bursts
      /\ ToSet(txq[q] \o sent) = ToSet(txq[q]) \cup ToSet(sent)
  <2>1. ToSet(txq[q]) \cap ToSet(sent) = {}
    BY <1>6, <1>7 DEF Located
  <2>. QED BY <1>4, <1>5, <2>1, ArraysJoin DEF Bursts
<1>9. /\ txq' \in [QueueIds -> Bursts] /\ ToSet(txq'[q]) = ToSet(txq[q]) \cup ToSet(sent)
      /\ replies' \in [QueueIds -> Bursts] /\ replies'[q] = <<>> /\ ToSet(replies'[q]) = {}
      /\ \A p \in QueueIds \ {q} : txq'[p] = txq[p] /\ replies'[p] = replies[p]
      /\ pool' = pool \cup ToSet(unsent)
  <2>1. <<>> \in Bursts
    BY NothingHeld DEF Bursts
  <2>2. /\ txq' \in [QueueIds -> Bursts] /\ txq'[q] = txq[q] \o sent
        /\ \A p \in QueueIds \ {q} : txq'[p] = txq[p]
    BY <1>1, <1>3, <1>4, <1>8
  <2>3. /\ replies' \in [QueueIds -> Bursts] /\ replies'[q] = <<>>
        /\ \A p \in QueueIds \ {q} : replies'[p] = replies[p]
    BY <1>2, <1>4, <2>1
  <2>4. pool' = pool \cup ToSet(unsent)
    BY <1>1, <1>3 DEF UnsentFreed
  <2>. QED BY <1>8, <2>2, <2>3, <2>4, NothingHeld
<1>10. BurstTypes'
  BY <1>2, <1>9 DEF Buffers, BurstTypes
<1>11. OnePlace'
  <2>1. PICK array2 \in [Mbufs -> Arrays] :
           \A x \in Mbufs : array2[x] = IF x \in ToSet(sent) THEN "txq"
                                        ELSE IF x \in ToSet(unsent) THEN "pool" ELSE array[x]
    <3>. DEFINE f == [x \in Mbufs |-> IF x \in ToSet(sent) THEN "txq"
                                      ELSE IF x \in ToSet(unsent) THEN "pool" ELSE array[x]]
    <3>1. f \in [Mbufs -> Arrays]
      BY DEF Arrays
    <3>. QED BY <3>1
  <2>2. pool' = {x \in Mbufs : array2[x] = "pool"}
    BY <1>5, <1>6, <1>7, <1>9, <2>1 DEF Located
  <2>3. ASSUME NEW p \in QueueIds
        PROVE  /\ ToSet(rxq'[p]) = {x \in Mbufs : array2[x] = "rxq" /\ queue[x] = p}
               /\ ToSet(received'[p]) = {x \in Mbufs : array2[x] = "received" /\ queue[x] = p}
               /\ ToSet(replies'[p]) = {x \in Mbufs : array2[x] = "replies" /\ queue[x] = p}
               /\ ToSet(txq'[p]) = {x \in Mbufs : array2[x] = "txq" /\ queue[x] = p}
    <3>1. ToSet(rxq'[p]) = {x \in Mbufs : array2[x] = "rxq" /\ queue[x] = p}
      BY <1>2, <1>6, <1>7, <2>1 DEF Located
    <3>2. ToSet(received'[p]) = {x \in Mbufs : array2[x] = "received" /\ queue[x] = p}
      BY <1>2, <1>6, <1>7, <2>1 DEF Located
    <3>3. ToSet(replies'[p]) = {x \in Mbufs : array2[x] = "replies" /\ queue[x] = p}
      BY <1>5, <1>6, <1>7, <1>9, <2>1 DEF Located
    <3>4. ToSet(txq'[p]) = {x \in Mbufs : array2[x] = "txq" /\ queue[x] = p}
      BY <1>6, <1>7, <1>9, <2>1 DEF Located
    <3>. QED BY <3>1, <3>2, <3>3, <3>4
  <2>4. Located(array2, queue)'
    BY <2>2, <2>3 DEF Located
  <2>. QED BY <2>4 DEF OnePlace
<1>12. LoopHolds' /\ NotLaunched'
  BY <1>2, <1>9 DEF Life, Buffers, LoopHolds, NotLaunched
<1>13. PacketShape' /\ Unapplied'
  BY <1>2 DEF Buffers, PacketShape, Unapplied
<1>14. Told'
  <2>. SUFFICES ASSUME NEW p \in QueueIds, NEW x \in ToSet(replies'[p]) \cup ToSet(txq'[p])
                PROVE  TellsDecision(x)'
    BY DEF Told
  <2>1. x \in ToSet(replies[p]) \cup ToSet(txq[p])
    BY <1>5, <1>9
  <2>. QED BY <1>2, <2>1 DEF Buffers, Told, TellsDecision
<1>15. port' = "closed" => pool' = Mbufs
  BY <1>2, <1>7, <1>9 DEF Buffers
<1>. QED BY <1>10, <1>11, <1>12, <1>13, <1>14, <1>15 DEF Buffers

(* A packet arrives in a free buffer *)
LEMMA NicReceiveKeeps ==
    ASSUME Life, Buffers, NicReceive
    PROVE  Buffers'
<1>1. PICK m : m = CHOOSE x \in pool : TRUE
  OBVIOUS
<1>2. PICK q \in QueueIds, p \in Packets :
        /\ pool' = pool \ {m}
        /\ rxq' = [rxq EXCEPT ![q] = Append(rxq[q], m)]
        /\ content' = [content EXCEPT ![m] = p]
        /\ applied' = [applied EXCEPT ![m] = <<>>]
  BY <1>1 DEF NicReceive
<1>3. /\ UNCHANGED <<port, redirect, next, lcore, txq, received, replies, main>>
      /\ port = "started" /\ pool # {} /\ m \in pool
  BY <1>1 DEF NicReceive, rtVars
<1>4. PICK array \in [Mbufs -> Arrays], queue \in [Mbufs -> QueueIds] : Located(array, queue)
  BY DEF Buffers, OnePlace
<1>5. m \in Mbufs /\ array[m] = "pool"
  BY <1>3, <1>4 DEF Located
<1>6. \A o \in QueueIds : m \notin ToSet(rxq[o]) \cup ToSet(received[o]) \cup ToSet(replies[o])
                                     \cup ToSet(txq[o])
  BY <1>4, <1>5 DEF Located
<1>7. /\ rxq' \in [QueueIds -> Bursts] /\ ToSet(rxq'[q]) = ToSet(rxq[q]) \cup {m}
      /\ \A o \in QueueIds \ {q} : rxq'[o] = rxq[o]
  <2>1. rxq \in [QueueIds -> Bursts] /\ rxq[q] \in Seq(Mbufs) /\ IsInjective(rxq[q])
    BY DEF Buffers, BurstTypes, Bursts
  <2>2. /\ Append(rxq[q], m) \in Bursts
        /\ ToSet(Append(rxq[q], m)) = ToSet(rxq[q]) \cup {m}
    BY <1>5, <1>6, <2>1, BufferAdded DEF Bursts
  <2>. QED BY <1>2, <2>1, <2>2
<1>8. BurstTypes'
  BY <1>3, <1>7 DEF Buffers, BurstTypes
<1>9. OnePlace'
  <2>1. PICK array2 \in [Mbufs -> Arrays] :
           \A x \in Mbufs : array2[x] = IF x = m THEN "rxq" ELSE array[x]
    <3>. DEFINE f == [x \in Mbufs |-> IF x = m THEN "rxq" ELSE array[x]]
    <3>1. f \in [Mbufs -> Arrays]
      BY DEF Arrays
    <3>. QED BY <3>1
  <2>2. PICK queue2 \in [Mbufs -> QueueIds] :
           \A x \in Mbufs : queue2[x] = IF x = m THEN q ELSE queue[x]
    <3>. DEFINE f == [x \in Mbufs |-> IF x = m THEN q ELSE queue[x]]
    <3>1. f \in [Mbufs -> QueueIds]
      OBVIOUS
    <3>. QED BY <3>1
  <2>3. pool' = {x \in Mbufs : array2[x] = "pool"}
    BY <1>2, <1>4, <1>5, <2>1 DEF Located
  <2>4. ASSUME NEW o \in QueueIds
        PROVE  /\ ToSet(rxq'[o]) = {x \in Mbufs : array2[x] = "rxq" /\ queue2[x] = o}
               /\ ToSet(received'[o]) = {x \in Mbufs : array2[x] = "received" /\ queue2[x] = o}
               /\ ToSet(replies'[o]) = {x \in Mbufs : array2[x] = "replies" /\ queue2[x] = o}
               /\ ToSet(txq'[o]) = {x \in Mbufs : array2[x] = "txq" /\ queue2[x] = o}
    <3>1. ToSet(rxq'[o]) = {x \in Mbufs : array2[x] = "rxq" /\ queue2[x] = o}
      BY <1>4, <1>5, <1>7, <2>1, <2>2 DEF Located
    <3>2. ToSet(received'[o]) = {x \in Mbufs : array2[x] = "received" /\ queue2[x] = o}
      BY <1>3, <1>4, <1>5, <2>1, <2>2 DEF Located
    <3>3. ToSet(replies'[o]) = {x \in Mbufs : array2[x] = "replies" /\ queue2[x] = o}
      BY <1>3, <1>4, <1>5, <2>1, <2>2 DEF Located
    <3>4. ToSet(txq'[o]) = {x \in Mbufs : array2[x] = "txq" /\ queue2[x] = o}
      BY <1>3, <1>4, <1>5, <2>1, <2>2 DEF Located
    <3>. QED BY <3>1, <3>2, <3>3, <3>4
  <2>5. Located(array2, queue2)'
    BY <2>3, <2>4 DEF Located
  <2>. QED BY <2>5 DEF OnePlace
<1>10. LoopHolds' /\ NotLaunched'
  BY <1>3 DEF Buffers, LoopHolds, NotLaunched
<1>11. /\ PacketShape' /\ applied'[m] = <<>>
       /\ \A x \in Mbufs \ {m} : content'[x] = content[x] /\ applied'[x] = applied[x]
  BY <1>2, <1>5, PacketsAssumption DEF Buffers, PacketShape
<1>12. \A o \in QueueIds : ToSet(rxq[o]) \cup ToSet(received[o]) \cup ToSet(replies[o])
                              \cup ToSet(txq[o]) \subseteq Mbufs \ {m}
  BY <1>4, <1>6 DEF Located
<1>13. Unapplied'
  BY <1>3, <1>7, <1>11, <1>12 DEF Buffers, Unapplied
<1>14. Told'
  BY <1>3, <1>11, <1>12 DEF Buffers, Told, TellsDecision
<1>. QED BY <1>3, <1>8, <1>9, <1>10, <1>11, <1>13, <1>14 DEF Buffers

(* The NIC has sent a reply *)
LEMMA NicTransmitKeeps ==
    ASSUME Life, Buffers, NEW q \in QueueIds, NicTransmit(q)
    PROVE  Buffers'
<1>1. PICK m : m = Head(txq[q])
  OBVIOUS
<1>2. /\ txq[q] # <<>> /\ pool' = pool \cup {m} /\ txq' = [txq EXCEPT ![q] = Tail(@)]
      /\ UNCHANGED <<port, redirect, next, lcore, rxq, received, replies, content, applied,
                     main>>
  BY <1>1 DEF NicTransmit, rtVars
<1>3. txq \in [QueueIds -> Bursts] /\ txq[q] \in Seq(Mbufs) /\ IsInjective(txq[q])
  BY DEF Buffers, BurstTypes, Bursts
<1>4. /\ m \in Mbufs /\ Tail(txq[q]) \in Bursts /\ m \notin ToSet(Tail(txq[q]))
      /\ ToSet(txq[q]) = {m} \cup ToSet(Tail(txq[q]))
  BY <1>1, <1>2, <1>3, HeadLeaves DEF Bursts
<1>5. /\ txq' \in [QueueIds -> Bursts] /\ ToSet(txq'[q]) = ToSet(txq[q]) \ {m}
      /\ \A p \in QueueIds \ {q} : txq'[p] = txq[p]
  BY <1>2, <1>3, <1>4
<1>6. PICK array \in [Mbufs -> Arrays], queue \in [Mbufs -> QueueIds] : Located(array, queue)
  BY DEF Buffers, OnePlace
<1>7. array[m] = "txq" /\ queue[m] = q
  BY <1>4, <1>6 DEF Located
<1>8. BurstTypes'
  BY <1>2, <1>5 DEF Buffers, BurstTypes
<1>9. OnePlace'
  <2>1. PICK array2 \in [Mbufs -> Arrays] :
           \A x \in Mbufs : array2[x] = IF x = m THEN "pool" ELSE array[x]
    <3>. DEFINE f == [x \in Mbufs |-> IF x = m THEN "pool" ELSE array[x]]
    <3>1. f \in [Mbufs -> Arrays]
      BY DEF Arrays
    <3>. QED BY <3>1
  <2>2. pool' = {x \in Mbufs : array2[x] = "pool"}
    BY <1>2, <1>4, <1>6, <2>1 DEF Located
  <2>3. ASSUME NEW p \in QueueIds
        PROVE  /\ ToSet(rxq'[p]) = {x \in Mbufs : array2[x] = "rxq" /\ queue[x] = p}
               /\ ToSet(received'[p]) = {x \in Mbufs : array2[x] = "received" /\ queue[x] = p}
               /\ ToSet(replies'[p]) = {x \in Mbufs : array2[x] = "replies" /\ queue[x] = p}
               /\ ToSet(txq'[p]) = {x \in Mbufs : array2[x] = "txq" /\ queue[x] = p}
    <3>1. ToSet(rxq'[p]) = {x \in Mbufs : array2[x] = "rxq" /\ queue[x] = p}
      BY <1>2, <1>6, <1>7, <2>1 DEF Located
    <3>2. ToSet(received'[p]) = {x \in Mbufs : array2[x] = "received" /\ queue[x] = p}
      BY <1>2, <1>6, <1>7, <2>1 DEF Located
    <3>3. ToSet(replies'[p]) = {x \in Mbufs : array2[x] = "replies" /\ queue[x] = p}
      BY <1>2, <1>6, <1>7, <2>1 DEF Located
    <3>4. ToSet(txq'[p]) = {x \in Mbufs : array2[x] = "txq" /\ queue[x] = p}
      BY <1>5, <1>6, <1>7, <2>1 DEF Located
    <3>. QED BY <3>1, <3>2, <3>3, <3>4
  <2>4. Located(array2, queue)'
    BY <2>2, <2>3 DEF Located
  <2>. QED BY <2>4 DEF OnePlace
<1>10. LoopHolds' /\ NotLaunched'
  <2>1. lcore[q] # "idle"
    BY <1>2 DEF Buffers, LoopHolds
  <2>. QED BY <1>2, <1>5, <2>1 DEF Buffers, LoopHolds, NotLaunched
<1>11. PacketShape' /\ Unapplied'
  BY <1>2 DEF Buffers, PacketShape, Unapplied
<1>12. Told'
  BY <1>2, <1>5 DEF Buffers, Told, TellsDecision
<1>13. port' = "closed" => pool' = Mbufs
  BY <1>2, <1>4 DEF Buffers
<1>. QED BY <1>8, <1>9, <1>10, <1>11, <1>12, <1>13 DEF Buffers

-----------------------------------------------------------------------------
(* The main thread.                                                        *)

(* The port is closed while no loop holds a buffer: the pool is whole again *)
LEMMA PortReleasedKeeps ==
    ASSUME Buffers, PortReleased, \A q \in QueueIds : lcore[q] \in {"idle", "done"},
           UNCHANGED <<redirect, next, lcore, received, replies, content, applied>>,
           main' = "port_closed"
    PROVE  Buffers'
<1>1. /\ pool' = pool \cup UNION {Released(q) : q \in QueueIds}
      /\ rxq' = Empty /\ txq' = Empty
  BY DEF PortReleased
<1>2. <<>> \in Bursts
  BY NothingHeld DEF Bursts
<1>3. \A q \in QueueIds : /\ received[q] = <<>> /\ replies[q] = <<>>
                          /\ rxq'[q] = <<>> /\ txq'[q] = <<>>
  BY <1>1 DEF Buffers, LoopHolds, Empty
<1>4. pool' = Mbufs
  <2>1. PICK array \in [Mbufs -> Arrays], queue \in [Mbufs -> QueueIds] :
           Located(array, queue)
    BY DEF Buffers, OnePlace
  <2>2. \A q \in QueueIds : Released(q) \subseteq Mbufs
    BY <2>1 DEF Located, Released
  <2>3. ASSUME NEW m \in Mbufs PROVE m \in pool'
    <3>1. CASE array[m] = "pool"
      BY <1>1, <2>1, <3>1 DEF Located
    <3>2. CASE array[m] \in {"rxq", "txq"}
      BY <1>1, <2>1, <3>2 DEF Located, Released
    <3>3. CASE array[m] \in {"received", "replies"}
      <4>1. m \in ToSet(received[queue[m]]) \cup ToSet(replies[queue[m]]) /\ queue[m] \in QueueIds
        BY <2>1, <3>3 DEF Located
      <4>. QED BY <1>3, <4>1, NothingHeld
    <3>. QED BY <3>1, <3>2, <3>3 DEF Arrays
  <2>4. pool \subseteq Mbufs
    BY <2>1 DEF Located
  <2>. QED BY <1>1, <2>2, <2>3, <2>4
<1>5. BurstTypes'
  BY <1>1, <1>2 DEF Buffers, BurstTypes, Empty
<1>6. OnePlace'
  <2>1. PICK array, queue : array = [m \in Mbufs |-> "pool"] /\ queue = [m \in Mbufs |-> 0]
    OBVIOUS
  <2>2. 0 \in QueueIds
    BY QueueCountAssumption DEF QueueIds
  <2>3. array \in [Mbufs -> Arrays] /\ queue \in [Mbufs -> QueueIds]
    BY <2>1, <2>2 DEF Arrays
  <2>4. Located(array, queue)'
    BY <1>3, <1>4, <2>1, <2>3, NothingHeld DEF Located
  <2>. QED BY <2>3, <2>4 DEF OnePlace
<1>7. LoopHolds' /\ NotLaunched'
  BY <1>3 DEF Buffers, LoopHolds, NotLaunched, PreLaunch, BeforeControl, BeforeHandoff,
     BeforeReplication, AtConfig
<1>8. PacketShape'
  BY DEF Buffers, PacketShape
<1>9. Unapplied' /\ Told'
  BY <1>3, NothingHeld DEF Unapplied, Told
<1>. QED BY <1>4, <1>5, <1>6, <1>7, <1>8, <1>9 DEF Buffers

LEMMA BuffersDpdkMain ==
    ASSUME Life, Buffers, DpdkMain
    PROVE  Buffers'
<1>. USE DEF PreLaunch, BeforeControl, BeforeHandoff, BeforeReplication, AtConfig
<1>1. CASE SetupPort
  BY <1>1, BuffersRest DEF SetupPort, bufferVars
<1>2. ASSUME NEW e \in Endpoints, ParseRedirect(e) PROVE Buffers'
  <2>1. /\ main = "redirect" /\ \A q \in QueueIds : lcore[q] = "idle"
        /\ UNCHANGED <<next, lcore, received, replies, content, applied>>
    BY <1>2 DEF ParseRedirect, Buffers, NotLaunched
  <2>2. CASE main' = "port_closed" /\ PortReleased /\ UNCHANGED redirect
    BY <2>1, <2>2, PortReleasedKeeps
  <2>3. CASE main' = "configure" /\ UNCHANGED <<port, pool, rxq, txq>>
    <3>1. OnePlace' /\ BurstTypes' /\ PacketShape' /\ Unapplied' /\ LoopHolds'
      BY <2>1, <2>3, SamePlaces DEF Buffers, LoopHolds
    <3>2. \A q \in QueueIds : replies'[q] = <<>> /\ txq'[q] = <<>>
      BY <2>1, <2>3 DEF Buffers, LoopHolds
    <3>3. Told'
      BY <3>2, NothingHeld DEF Told
    <3>4. NotLaunched'
      BY <2>1, <2>3 DEF Buffers, NotLaunched
    <3>. QED BY <2>3, <3>1, <3>3, <3>4 DEF Buffers
  <2>. QED BY <1>2, <2>2, <2>3 DEF ParseRedirect
<1>3. CASE ReleasePort
  BY <1>3, PortReleasedKeeps DEF ReleasePort, Life, CallersOwned
<1>4. CASE InstallHandlers
  BY <1>4, BuffersRest DEF InstallHandlers, dpdkVars
<1>5. CASE LaunchWorker
  <2>1. UNCHANGED <<port, redirect, pool, rxq, txq, received, replies, content, applied>>
    BY <1>5 DEF LaunchWorker
  <2>2. CASE /\ lcore' = [lcore EXCEPT ![next] = "poll"] /\ next' = next + 1
             /\ UNCHANGED main
    <3>1. /\ next \in QueueIds /\ next \in 1..Queues /\ next' \in 1..Queues /\ main = "launch"
          /\ Queues \in Nat
      BY <1>5, <2>2, QueueCountAssumption DEF LaunchWorker, Buffers, NotLaunched, QueueIds
    <3>2. lcore[next] = "idle"
      BY <3>1 DEF Buffers, NotLaunched
    <3>3. OnePlace' /\ BurstTypes' /\ PacketShape' /\ Unapplied' /\ Told'
      BY <2>1, SamePlaces, SameReplies
    <3>4. LoopHolds'
      BY <2>1, <2>2, <3>1, <3>2 DEF Life, Buffers, LoopHolds
    <3>5. NotLaunched'
      <4>1. ASSUME NEW q \in QueueIds, q = 0 \/ q >= next' PROVE lcore'[q] = "idle"
        <5>1. q # next /\ (q = 0 \/ q >= next)
          BY <2>2, <3>1, <4>1 DEF QueueIds
        <5>2. lcore[q] = "idle"
          BY <3>1, <5>1 DEF Buffers, NotLaunched
        <5>. QED BY <2>2, <5>1, <5>2 DEF Life
      <4>. QED BY <2>2, <3>1, <4>1 DEF NotLaunched
    <3>. QED BY <2>1, <3>3, <3>4, <3>5 DEF Buffers
  <2>3. CASE main' = "await" /\ UNCHANGED <<lcore, next>>
    BY <2>1, <2>3, BuffersRest
  <2>. QED BY <1>5, <2>2, <2>3 DEF LaunchWorker
<1>6. CASE MainPolls
  <2>1. /\ UNCHANGED <<port, redirect, next, pool, rxq, txq, received, replies, content,
                       applied>>
        /\ main = "launch"
    BY <1>6 DEF MainPolls
  <2>2. CASE main' = "polling" /\ lcore' = [lcore EXCEPT ![0] = "poll"]
    <3>1. 0 \in QueueIds /\ lcore[0] = "idle"
      BY <2>1, QueueCountAssumption DEF Buffers, NotLaunched, QueueIds
    <3>2. OnePlace' /\ BurstTypes' /\ PacketShape' /\ Unapplied' /\ Told'
      BY <2>1, SamePlaces, SameReplies
    <3>3. LoopHolds' /\ NotLaunched'
      BY <2>1, <2>2, <3>1 DEF Life, Buffers, LoopHolds, NotLaunched
    <3>. QED BY <2>1, <3>2, <3>3 DEF Buffers
  <2>3. CASE main' = "await" /\ UNCHANGED lcore
    BY <2>1, <2>3, BuffersRest
  <2>. QED BY <1>6, <2>2, <2>3 DEF MainPolls
<1>7. CASE MainPolled
  BY <1>7, BuffersRest DEF MainPolled, bufferVars
<1>8. CASE AwaitWorkers
  BY <1>8, BuffersRest DEF AwaitWorkers, dpdkVars
<1>. QED BY <1>1, <1>2, <1>3, <1>4, <1>5, <1>6, <1>7, <1>8 DEF DpdkMain, DpdkMainStep

(* The runtime and the TCP server move no buffer, and never go back to the  *)
(* main thread's first steps                                                *)
LEMMA OthersLeaveBuffers ==
    ASSUME RuntimeMain \/ RuntimeThreads \/ TcpMain \/ Sessions
    PROVE  /\ UNCHANGED dpdkVars
           /\ main' = "launch" => main = "launch"
           /\ main' \in PreLaunch => main \in PreLaunch
<1>. USE DEF PreLaunch, BeforeControl, BeforeHandoff, BeforeReplication, AtConfig
<1>1. CASE RuntimeMain
  BY <1>1 DEF RuntimeMain, RuntimeMainStep, Configure, EnterPeak, StartReplication,
     StartHandoff, StartControlPlane, StopControl, JoinControl, ResetHandoff, ClearPublisher,
     ResetReplication, Destroy, Exit
<1>2. CASE RuntimeThreads
  BY <1>2 DEF RuntimeThreads, RuntimeThreadStep, ControlStep, ControlTurn, ControlPublish,
     ControlDecide, HandoffStep
<1>3. CASE TcpMain
  BY <1>3 DEF TcpMain, Listen
<1>4. CASE Sessions
  <2>1. CASE AcceptFails
    BY <1>4, <2>1 DEF Sessions, AcceptFails
  <2>2. ASSUME NEW c \in Connections, AcceptConnection(c) \/ SessionStep(c)
        PROVE  UNCHANGED main
    BY <2>2 DEF AcceptConnection, SessionStep, Read, ReadEnds, ApplyLine, WriteAnswer,
       WriteFails, Compact, rtVars
  <2>. QED BY <1>4, <2>1, <2>2 DEF Sessions
<1>. QED BY <1>1, <1>2, <1>3, <1>4

LEMMA BuffersNext == Life /\ Buffers /\ [Next]_vars => Buffers'
<1>. SUFFICES ASSUME Life, Buffers, [Next]_vars PROVE Buffers'
  OBVIOUS
<1>1. CASE UNCHANGED vars
  BY <1>1, BuffersRest DEF vars, rtVars, dpdkVars
<1>2. CASE RuntimeMain \/ RuntimeThreads \/ TcpMain \/ Sessions
  BY <1>2, OthersLeaveBuffers, BuffersRest DEF dpdkVars
<1>3. CASE DpdkMain
  BY <1>3, BuffersDpdkMain
<1>4. CASE Outside
  <2>1. CASE Signal
    BY <2>1, BuffersRest DEF Signal, bufferVars, rtVars
  <2>2. CASE NicReceive
    BY <2>2, NicReceiveKeeps
  <2>3. ASSUME NEW q \in QueueIds, NicTransmit(q) PROVE Buffers'
    BY <2>3, NicTransmitKeeps
  <2>. QED BY <1>4, <2>1, <2>2, <2>3 DEF Outside
<1>5. ASSUME NEW q \in QueueIds, Loop(q) PROVE Buffers'
  BY <1>5, RxBurstKeeps, StageKeeps, ProcessPacketKeeps, TxBurstKeeps DEF Loop, LoopStep
<1>. QED BY <1>1, <1>2, <1>3, <1>4, <1>5 DEF Next

LEMMA BuffersAccounted == Buffers => PacketsAccounted
<1>. SUFFICES ASSUME Buffers PROVE PacketsAccounted
  OBVIOUS
<1>1. PICK array \in [Mbufs -> Arrays], queue \in [Mbufs -> QueueIds] : Located(array, queue)
  BY DEF Buffers, OnePlace
<1>2. ASSUME NEW q \in QueueIds
      PROVE  /\ ToSet(Held(q)) = {m \in Mbufs : array[m] # "pool" /\ queue[m] = q}
             /\ IsInjective(Held(q))
             /\ ToSet(rxq[q] \o received[q]) = ToSet(rxq[q]) \cup ToSet(received[q])
             /\ ToSet(replies[q] \o txq[q]) = ToSet(replies[q]) \cup ToSet(txq[q])
  <2>1. /\ rxq[q] \in Seq(Mbufs) /\ IsInjective(rxq[q])
        /\ received[q] \in Seq(Mbufs) /\ IsInjective(received[q])
        /\ replies[q] \in Seq(Mbufs) /\ IsInjective(replies[q])
        /\ txq[q] \in Seq(Mbufs) /\ IsInjective(txq[q])
    BY DEF Buffers, BurstTypes, Bursts
  <2>2. /\ ToSet(rxq[q]) = {m \in Mbufs : array[m] = "rxq" /\ queue[m] = q}
        /\ ToSet(received[q]) = {m \in Mbufs : array[m] = "received" /\ queue[m] = q}
        /\ ToSet(replies[q]) = {m \in Mbufs : array[m] = "replies" /\ queue[m] = q}
        /\ ToSet(txq[q]) = {m \in Mbufs : array[m] = "txq" /\ queue[m] = q}
    BY <1>1 DEF Located
  <2>3. PICK one, two, three : /\ one = rxq[q] \o received[q] /\ two = one \o replies[q]
                               /\ three = two \o txq[q]
    OBVIOUS
  <2>4. /\ one \in Seq(Mbufs) /\ IsInjective(one)
        /\ ToSet(one) = ToSet(rxq[q]) \cup ToSet(received[q])
    <3>1. ToSet(rxq[q]) \cap ToSet(received[q]) = {}
      BY <2>2
    <3>. QED BY <2>1, <2>3, <3>1, ArraysJoin
  <2>5. /\ two \in Seq(Mbufs) /\ IsInjective(two)
        /\ ToSet(two) = ToSet(one) \cup ToSet(replies[q])
    <3>1. ToSet(one) \cap ToSet(replies[q]) = {}
      BY <2>2, <2>4
    <3>2. replies[q] \in Seq(Mbufs) /\ IsInjective(replies[q])
      BY <2>1
    <3>3. /\ one \o replies[q] \in Seq(Mbufs) /\ IsInjective(one \o replies[q])
          /\ ToSet(one \o replies[q]) = ToSet(one) \cup ToSet(replies[q])
      BY <2>4, <3>1, <3>2, ArraysJoin
    <3>. QED BY <2>3, <3>3
  <2>6. IsInjective(three) /\ ToSet(three) = ToSet(two) \cup ToSet(txq[q])
    <3>1. ToSet(two) \cap ToSet(txq[q]) = {}
      BY <2>2, <2>4, <2>5
    <3>2. txq[q] \in Seq(Mbufs) /\ IsInjective(txq[q])
      BY <2>1
    <3>3. /\ IsInjective(two \o txq[q])
          /\ ToSet(two \o txq[q]) = ToSet(two) \cup ToSet(txq[q])
      BY <2>5, <3>1, <3>2, ArraysJoin
    <3>. QED BY <2>3, <3>3
  <2>7. Held(q) = three
    BY <2>3 DEF Held
  <2>8. ToSet(three) = {m \in Mbufs : array[m] # "pool" /\ queue[m] = q}
    BY <1>1, <2>2, <2>4, <2>5, <2>6 DEF Arrays
  <2>9. ToSet(replies[q] \o txq[q]) = ToSet(replies[q]) \cup ToSet(txq[q])
    BY <2>1, ArraysJoin
  <2>. QED BY <2>3, <2>4, <2>6, <2>7, <2>8, <2>9
<1>3. InUse = {m \in Mbufs : array[m] # "pool"}
  BY <1>2 DEF InUse
<1>4. pool = {m \in Mbufs : array[m] = "pool"}
  BY <1>1 DEF Located
<1>5. pool \cup InUse = Mbufs /\ pool \cap InUse = {}
  BY <1>3, <1>4
<1>6. ASSUME NEW q \in QueueIds
      PROVE  /\ \A other \in QueueIds \ {q} : ToSet(Held(q)) \cap ToSet(Held(other)) = {}
             /\ \A m \in ToSet(rxq[q] \o received[q]) : applied[m] = <<>>
             /\ \A m \in ToSet(replies[q] \o txq[q]) : TellsDecision(m)
  <2>1. \A other \in QueueIds \ {q} : ToSet(Held(q)) \cap ToSet(Held(other)) = {}
    BY <1>2
  <2>2. \A m \in ToSet(rxq[q] \o received[q]) : applied[m] = <<>>
    BY <1>2 DEF Buffers, Unapplied
  <2>3. \A m \in ToSet(replies[q] \o txq[q]) : TellsDecision(m)
    BY <1>2 DEF Buffers, Told
  <2>. QED BY <2>1, <2>2, <2>3
<1>. QED BY <1>2, <1>5, <1>6 DEF Buffers, PacketsAccounted

(* For any number of queues, buffers, packets and bursts, whatever the NIC  *)
(* brings, takes and refuses and however the daemon ends: no packet buffer  *)
(* is lost, held twice or freed twice, a packet is applied once and not     *)
(* before it is processed, what is sent says what the engine decided, and a *)
(* closed port leaves every buffer in the pool                              *)
THEOREM NoBufferIsLost == Spec => []PacketsAccounted
<1>1. Life /\ Buffers => PacketsAccounted
  BY BuffersAccounted
<1>. QED BY <1>1, LifeInit, LifeNext, BuffersInit, BuffersNext, PTL DEF Spec

-----------------------------------------------------------------------------
(* What a session has read, holds and has handled of its peer's stream.    *)

EndsUpTo(s, n) == {j \in LineEnds(s) : j <= n}

(* How many bytes were read; the buffer holds the ones after Base *)
Taken(s) == Len(s.sent) - Len(s.rest)
Base(s) == Taken(s) - Len(s.buffer)
(* The newline of the last line that was handled, or 0 *)
Mark(s) == Base(s) + (IF s.at = "answer" THEN s.end ELSE s.begin)

Answers == [line : Seq(Nat), decision : {"Accepted", "Rejected", "Moved"}]
SessionShape(s) ==
    /\ DOMAIN s = {"at", "sent", "rest", "buffer", "begin", "end", "handled"}
    /\ s.sent \in Seq(Nat) /\ s.rest \in Seq(Nat) /\ s.buffer \in Seq(Nat)
    /\ s.handled \in Seq(Answers) /\ s.begin \in Nat /\ s.end \in Nat
    /\ Len(s.rest) <= Len(s.sent) /\ Len(s.buffer) <= Taken(s)
    /\ s.begin <= Len(s.buffer)
    /\ s.at = "answer" => s.begin < s.end /\ s.end <= Len(s.buffer)

(* Nothing is lost or moved between the stream and the buffer *)
Window(s) ==
    /\ \A i \in 1..Len(s.rest) : s.rest[i] = s.sent[Taken(s) + i]
    /\ \A i \in 1..Len(s.buffer) : s.buffer[i] = s.sent[Base(s) + i]

(* The lines up to the mark are the lines that were handled *)
Marked(s) ==
    s.at # "closed" =>
        /\ Mark(s) = 0 \/ s.sent[Mark(s)] = NewLine
        /\ Cardinality(EndsUpTo(s.sent, Mark(s))) = Len(s.handled)

LineKept(s, k) ==
    /\ s.handled[k].line = Line(s.sent, k)
    /\ ~Parses(s.handled[k].line) => s.handled[k].decision = "Rejected"
Recorded(s) ==
    /\ Len(s.handled) <= Cardinality(EndsUpTo(s.sent, Taken(s)))
    /\ \A k \in DOMAIN s.handled : LineKept(s, k)

(* A session that reads again has no line left in its buffer *)
Scanned(s) ==
    /\ s.at \in {"read", "overlong"} => s.begin = 0 /\ LineEnds(s.buffer) = {}
    /\ s.at = "overlong" => Len(s.buffer) = BufferSize

SessionOK(s) == SessionShape(s) /\ Window(s) /\ Marked(s) /\ Recorded(s) /\ Scanned(s)
SessionsOK == \A c \in Connections : SessionOK(conn[c])

-----------------------------------------------------------------------------
(* Lines by position.                                                      *)

LEMMA EndsFinite ==
    ASSUME NEW s \in Seq(Nat), NEW n \in Nat
    PROVE  /\ EndsUpTo(s, n) \subseteq 1..Len(s) /\ IsFiniteSet(EndsUpTo(s, n))
           /\ Cardinality(EndsUpTo(s, n)) \in Nat
<1>1. EndsUpTo(s, n) \subseteq 1..Len(s)
  BY DEF EndsUpTo, LineEnds
<1>2. IsFiniteSet(1..Len(s))
  BY FS_Interval
<1>. QED BY <1>1, <1>2, FS_Subset, FS_CardinalityType

LEMMA EndsGrow ==
    ASSUME NEW s \in Seq(Nat), NEW i \in Nat, NEW j \in Nat, i <= j
    PROVE  Cardinality(EndsUpTo(s, i)) <= Cardinality(EndsUpTo(s, j))
<1>1. EndsUpTo(s, i) \subseteq EndsUpTo(s, j)
  BY DEF EndsUpTo, LineEnds
<1>. QED BY <1>1, EndsFinite, FS_Subset

(* Two newlines with as many newlines before them are one *)
LEMMA EndsStrict ==
    ASSUME NEW s \in Seq(Nat), NEW i \in LineEnds(s), NEW j \in LineEnds(s), i < j
    PROVE  Cardinality(EndsUpTo(s, i)) < Cardinality(EndsUpTo(s, j))
<1>0. i \in Nat /\ j \in Nat
  BY DEF LineEnds
<1>1. EndsUpTo(s, i) \subseteq EndsUpTo(s, j)
  BY <1>0 DEF EndsUpTo, LineEnds
<1>2. j \in EndsUpTo(s, j) /\ j \notin EndsUpTo(s, i)
  BY <1>0 DEF EndsUpTo
<1>3. EndsUpTo(s, i) # EndsUpTo(s, j)
  BY <1>2
<1>4. IsFiniteSet(EndsUpTo(s, j))
  BY <1>0, EndsFinite
<1>5. /\ Cardinality(EndsUpTo(s, i)) <= Cardinality(EndsUpTo(s, j))
      /\ Cardinality(EndsUpTo(s, j)) # Cardinality(EndsUpTo(s, i))
  BY <1>1, <1>3, <1>4, FS_Subset
<1>6. Cardinality(EndsUpTo(s, i)) \in Nat /\ Cardinality(EndsUpTo(s, j)) \in Nat
  BY <1>0, EndsFinite
<1>. QED BY <1>5, <1>6

LEMMA LineEndIs ==
    ASSUME NEW s \in Seq(Nat), NEW i \in LineEnds(s)
    PROVE  LineEnd(s, Cardinality(EndsUpTo(s, i))) = i
<1>. DEFINE k == Cardinality(EndsUpTo(s, i))
            e == LineEnd(s, k)
<1>1. e \in LineEnds(s) /\ Cardinality(EndsUpTo(s, e)) = k
  <2>. HIDE DEF k
  <2>1. \A x : {j \in LineEnds(s) : j <= x} = EndsUpTo(s, x)
    BY DEF EndsUpTo
  <2>2. e = CHOOSE x \in LineEnds(s) : Cardinality({j \in LineEnds(s) : j <= x}) = k
    BY DEF LineEnd
  <2>3. \E x \in LineEnds(s) : Cardinality({j \in LineEnds(s) : j <= x}) = k
    BY <2>1 DEF k
  <2>4. e \in LineEnds(s) /\ Cardinality({j \in LineEnds(s) : j <= e}) = k
    <3>. HIDE DEF e
    <3>. QED BY <2>2, <2>3
  <2>. QED BY <2>1, <2>4
<1>. HIDE DEF e
<1>2. e \in Nat /\ i \in Nat
  BY <1>1 DEF LineEnds
<1>3. k \in Nat
  BY <1>2, EndsFinite
<1>4. ~(e < i) /\ ~(i < e)
  BY <1>1, <1>3, EndsStrict
<1>5. e = i
  BY <1>2, <1>4
<1>. QED BY <1>5 DEF e

(* The newline after the mark ends the next line, and the bytes between     *)
(* them are that line                                                       *)
LEMMA NextLine ==
    ASSUME NEW s \in Seq(Nat), NEW p \in Nat, NEW n \in LineEnds(s), p < n,
           p = 0 \/ s[p] = NewLine, \A i \in (p + 1)..(n - 1) : s[i] # NewLine
    PROVE  LET k == Cardinality(EndsUpTo(s, p)) + 1
           IN  Cardinality(EndsUpTo(s, n)) = k /\ Line(s, k) = SubSeq(s, p + 1, n - 1)
<1>0. n \in 1..Len(s) /\ Len(s) \in Nat /\ DOMAIN s = 1..Len(s)
  BY DEF LineEnds
<1>1. EndsUpTo(s, n) = EndsUpTo(s, p) \cup {n}
  <2>1. ASSUME NEW j \in LineEnds(s), j <= n, j # n PROVE j <= p
    <3>1. j \in Nat /\ s[j] = NewLine
      BY <1>0 DEF LineEnds
    <3>2. ~(j \in (p + 1)..(n - 1))
      BY <3>1
    <3>. QED BY <1>0, <2>1, <3>1, <3>2
  <2>2. \A j \in LineEnds(s) : j <= p => j <= n
    BY <1>0 DEF LineEnds
  <2>3. \A j \in LineEnds(s) : j <= n <=> (j <= p \/ j = n)
    BY <1>0, <2>1, <2>2
  <2>. QED BY <2>3, Zenon DEF EndsUpTo
<1>2. n \notin EndsUpTo(s, p)
  BY <1>0 DEF EndsUpTo
<1>3. IsFiniteSet(EndsUpTo(s, p)) /\ Cardinality(EndsUpTo(s, p)) \in Nat
  BY EndsFinite
<1>4. Cardinality(EndsUpTo(s, n)) = Cardinality(EndsUpTo(s, p)) + 1
  BY <1>1, <1>2, <1>3, FS_AddElement
<1>5. LineEnd(s, Cardinality(EndsUpTo(s, p)) + 1) = n
  BY <1>4, LineEndIs
<1>6. CASE p = 0
  <2>1. EndsUpTo(s, p) = {}
    BY <1>6 DEF EndsUpTo, LineEnds
  <2>2. Cardinality(EndsUpTo(s, p)) = 0
    BY <2>1, FS_EmptySet
  <2>3. Cardinality(EndsUpTo(s, p)) + 1 = 1 /\ p + 1 = 1
    BY <1>6, <2>2
  <2>4. Line(s, 1) = SubSeq(s, 1, LineEnd(s, 1) - 1)
    BY DEF Line
  <2>. QED BY <1>4, <1>5, <2>3, <2>4
<1>7. CASE p # 0
  <2>1. p \in LineEnds(s)
    BY <1>0, <1>7 DEF LineEnds
  <2>2. LineEnd(s, Cardinality(EndsUpTo(s, p))) = p
    BY <2>1, LineEndIs
  <2>3. Cardinality(EndsUpTo(s, p)) # 0
    <3>1. p \in EndsUpTo(s, p)
      BY <2>1 DEF EndsUpTo
    <3>. QED BY <1>3, <3>1, FS_EmptySet
  <2>4. PICK c : c = Cardinality(EndsUpTo(s, p))
    OBVIOUS
  <2>5. c + 1 # 1 /\ (c + 1) - 1 = c
    BY <1>3, <2>3, <2>4
  <2>6. Line(s, c + 1) = SubSeq(s, p + 1, n - 1)
    BY <1>5, <2>2, <2>4, <2>5 DEF Line
  <2>. QED BY <1>4, <2>4, <2>6
<1>. QED BY <1>6, <1>7

-----------------------------------------------------------------------------
(* The steps of a session.                                                 *)

LEMMA CutSeq ==
    ASSUME NEW s \in Seq(Nat), NEW a \in 0..Len(s), NEW b \in 0..Len(s), a <= b
    PROVE  /\ SubSeq(s, a + 1, b) \in Seq(Nat) /\ Len(SubSeq(s, a + 1, b)) = b - a
           /\ \A i \in 1..(b - a) : SubSeq(s, a + 1, b)[i] = s[a + i]
  OBVIOUS

LEMMA JoinSeq ==
    ASSUME NEW s \in Seq(Nat), NEW u \in Seq(Nat)
    PROVE  /\ s \o u \in Seq(Nat) /\ Len(s \o u) = Len(s) + Len(u)
           /\ \A i \in 1..Len(s) : (s \o u)[i] = s[i]
           /\ \A i \in 1..Len(u) : (s \o u)[Len(s) + i] = u[i]
  OBVIOUS

LEMMA SessionFresh ==
    ASSUME NEW at \in {"none", "read"}, NEW stream \in Seq(Nat)
    PROVE  SessionOK(Session(at, stream))
<1>. DEFINE s == Session(at, stream)
<1>1. /\ DOMAIN s = {"at", "sent", "rest", "buffer", "begin", "end", "handled"}
      /\ s.at = at /\ s.sent = stream /\ s.rest = stream /\ s.buffer = <<>>
      /\ s.begin = 0 /\ s.end = 0 /\ s.handled = <<>>
  BY DEF Session
<1>. HIDE DEF s
<1>2. Len(stream) \in Nat /\ Taken(s) = 0 /\ Base(s) = 0 /\ Mark(s) = 0
  <2>1. Len(stream) \in Nat /\ Len(<<>>) = 0
    OBVIOUS
  <2>2. Taken(s) = Len(stream) - Len(stream)
    BY <1>1 DEF Taken
  <2>3. Taken(s) = 0
    BY <2>1, <2>2
  <2>4. Base(s) = 0
    <3>1. Len(s.buffer) = 0
      BY <1>1
    <3>2. Base(s) = 0 - 0
      BY <2>3, <3>1, Zenon DEF Base
    <3>. QED BY <3>2
  <2>5. s.at # "answer"
    BY <1>1
  <2>6. Mark(s) = 0
    BY <1>1, <2>4, <2>5 DEF Mark
  <2>. QED BY <2>1, <2>3, <2>4, <2>6
<1>3. SessionShape(s)
  BY <1>1, <1>2 DEF SessionShape
<1>4. Window(s)
  BY <1>1, <1>2 DEF Window
<1>5. EndsUpTo(stream, 0) = {} /\ Cardinality(EndsUpTo(stream, 0)) = 0
  <2>1. EndsUpTo(stream, 0) = {}
    BY DEF EndsUpTo, LineEnds
  <2>. QED BY <2>1, FS_EmptySet
<1>6. Marked(s) /\ Recorded(s)
  BY <1>1, <1>2, <1>5 DEF Marked, Recorded
<1>7. Scanned(s)
  BY <1>1 DEF Scanned, LineEnds
<1>. QED BY <1>3, <1>4, <1>6, <1>7 DEF SessionOK, s

(* read() returns n bytes: the window grows to the right *)
ReadTo(s, n, t) ==
    /\ DOMAIN t = DOMAIN s /\ s.at = "read" /\ t.at = "scan" /\ t.sent = s.sent
    /\ t.rest = SubSeq(s.rest, n + 1, Len(s.rest))
    /\ t.buffer = s.buffer \o SubSeq(s.rest, 1, n)
    /\ t.begin = s.begin /\ t.end = s.end /\ t.handled = s.handled

LEMMA ReadOK ==
    ASSUME NEW s, SessionOK(s), NEW n \in 1..Len(s.rest), NEW t, ReadTo(s, n, t)
    PROVE  SessionOK(t)
<1>1. SessionShape(s) /\ Window(s) /\ Marked(s) /\ Recorded(s)
  BY DEF SessionOK
<1>2. PICK sent, rest, buffer, L, U, B, R, base :
         /\ sent = s.sent /\ rest = s.rest /\ buffer = s.buffer
         /\ L = Len(sent) /\ U = Len(rest) /\ B = Len(buffer) /\ R = L - U /\ base = R - B
  OBVIOUS
<1>3. /\ sent \in Seq(Nat) /\ rest \in Seq(Nat) /\ buffer \in Seq(Nat)
      /\ L \in Nat /\ U \in Nat /\ B \in Nat /\ U <= L /\ B <= R /\ n \in Nat /\ n <= U
      /\ n >= 1 /\ R \in Nat /\ base \in Nat
  <2>1. /\ sent \in Seq(Nat) /\ rest \in Seq(Nat) /\ buffer \in Seq(Nat) /\ n \in 1..U
        /\ U <= L /\ B <= R
    BY <1>1, <1>2 DEF SessionShape, Taken
  <2>2. L \in Nat /\ U \in Nat /\ B \in Nat
    BY <1>2, <2>1
  <2>3. R \in Nat /\ base \in Nat
    <3>1. R = L - U /\ base = R - B
      BY <1>2
    <3>. QED BY <2>1, <2>2, <3>1
  <2>. QED BY <2>1, <2>2, <2>3
<1>4. PICK new, left, joined : /\ new = SubSeq(rest, 1, n) /\ left = SubSeq(rest, n + 1, U)
                               /\ joined = buffer \o new
  OBVIOUS
<1>5. new \in Seq(Nat) /\ Len(new) = n /\ \A i \in 1..n : new[i] = rest[i]
  <2>1. 0 \in 0..U /\ n \in 0..U /\ 0 <= n /\ n - 0 = n /\ 0 + 1 = 1
    BY <1>3
  <2>2. /\ SubSeq(rest, 0 + 1, n) \in Seq(Nat) /\ Len(SubSeq(rest, 0 + 1, n)) = n - 0
        /\ \A i \in 1..(n - 0) : SubSeq(rest, 0 + 1, n)[i] = rest[0 + i]
    BY <1>2, <1>3, <2>1, CutSeq
  <2>3. \A i \in 1..n : 0 + i = i
    OBVIOUS
  <2>. QED BY <1>4, <2>1, <2>2, <2>3
<1>6. /\ left \in Seq(Nat) /\ Len(left) = U - n
      /\ \A i \in 1..(U - n) : left[i] = rest[n + i]
  <2>1. n \in 0..U /\ U \in 0..U /\ n <= U
    BY <1>3
  <2>. QED BY <1>2, <1>3, <1>4, <2>1, CutSeq
<1>7. /\ joined \in Seq(Nat) /\ Len(joined) = B + n
      /\ \A i \in 1..B : joined[i] = buffer[i]
      /\ \A i \in 1..n : joined[B + i] = new[i]
  <2>1. joined = buffer \o new /\ B = Len(buffer) /\ buffer \in Seq(Nat)
    BY <1>2, <1>3, <1>4
  <2>2. new \in Seq(Nat) /\ Len(new) = n
    BY <1>5
  <2>3. /\ buffer \o new \in Seq(Nat) /\ Len(buffer \o new) = B + n
        /\ \A i \in 1..B : (buffer \o new)[i] = buffer[i]
        /\ \A i \in 1..n : (buffer \o new)[B + i] = new[i]
    BY <2>1, <2>2, JoinSeq
  <2>. QED BY <2>1, <2>3, Zenon
<1>8. /\ t.sent = sent /\ t.rest = left /\ t.buffer = joined /\ t.begin = s.begin
      /\ t.end = s.end /\ t.handled = s.handled /\ t.at = "scan" /\ s.at = "read"
      /\ DOMAIN t = DOMAIN s
  BY <1>2, <1>4 DEF ReadTo
<1>9. Taken(s) = R /\ Base(s) = base
  BY <1>2 DEF Taken, Base
<1>10. Taken(t) = R + n
  <2>1. Taken(t) = L - (U - n)
    BY <1>2, <1>6, <1>8 DEF Taken
  <2>. QED BY <1>2, <1>3, <2>1
<1>11. Base(t) = base
  <2>1. Base(t) = (R + n) - (B + n)
    BY <1>7, <1>8, <1>10 DEF Base
  <2>. QED BY <1>2, <1>3, <2>1
<1>12. Mark(t) = Mark(s)
  BY <1>8, <1>9, <1>11 DEF Mark
<1>13. SessionShape(t)
  <2>1. /\ s.begin \in Nat /\ s.end \in Nat /\ s.handled \in Seq(Answers) /\ s.begin <= B
        /\ DOMAIN s = {"at", "sent", "rest", "buffer", "begin", "end", "handled"}
    BY <1>1, <1>2 DEF SessionShape
  <2>2. U - n <= L /\ B + n <= R + n /\ s.begin <= B + n
    BY <1>3, <2>1
  <2>. QED BY <1>2, <1>3, <1>6, <1>7, <1>8, <1>10, <2>1, <2>2 DEF SessionShape
<1>14. Window(t)
  <2>1. ASSUME NEW i \in 1..(U - n) PROVE left[i] = sent[(R + n) + i]
    <3>1. n + i \in 1..U /\ R + (n + i) = (R + n) + i
      BY <1>3
    <3>2. rest[n + i] = sent[R + (n + i)]
      BY <1>1, <1>2, <1>9, <3>1 DEF Window
    <3>. QED BY <1>6, <3>1, <3>2
  <2>2. ASSUME NEW i \in 1..(B + n) PROVE joined[i] = sent[base + i]
    <3>1. CASE i <= B
      <4>1. i \in 1..B
        BY <1>3, <3>1
      <4>2. buffer[i] = sent[base + i]
        BY <1>1, <1>2, <1>9, <4>1 DEF Window
      <4>. QED BY <1>7, <4>1, <4>2
    <3>2. CASE i > B
      <4>1. PICK j : j = i - B
        OBVIOUS
      <4>2. j \in 1..n /\ B + j = i /\ j \in 1..U /\ R + j = base + i
        <5>1. base = R - B
          BY <1>2
        <5>. QED BY <1>3, <3>2, <4>1, <5>1
      <4>3. rest[j] = sent[R + j]
        BY <1>1, <1>2, <1>9, <4>2 DEF Window
      <4>4. joined[B + j] = new[j] /\ new[j] = rest[j]
        BY <1>5, <1>7, <4>2
      <4>. QED BY <4>2, <4>3, <4>4
    <3>. QED BY <1>3, <3>1, <3>2
  <2>. QED BY <1>6, <1>7, <1>8, <1>10, <1>11, <2>1, <2>2 DEF Window
<1>15. Marked(t)
  BY <1>1, <1>2, <1>8, <1>12 DEF Marked
<1>16. Recorded(t)
  <2>1. R + n \in Nat /\ R <= R + n
    BY <1>3
  <2>2. Cardinality(EndsUpTo(sent, R)) <= Cardinality(EndsUpTo(sent, R + n))
    BY <1>3, <2>1, EndsGrow
  <2>3. Cardinality(EndsUpTo(sent, R)) \in Nat /\ Cardinality(EndsUpTo(sent, R + n)) \in Nat
    BY <1>3, <2>1, EndsFinite
  <2>4. Len(s.handled) \in Nat
    BY <1>1 DEF SessionShape
  <2>5. Len(s.handled) <= Cardinality(EndsUpTo(sent, R))
    BY <1>1, <1>2, <1>9 DEF Recorded
  <2>6. Len(s.handled) <= Cardinality(EndsUpTo(sent, R + n))
    BY <2>2, <2>3, <2>4, <2>5
  <2>. QED BY <1>1, <1>2, <1>8, <1>10, <2>6 DEF Recorded, LineKept
<1>17. Scanned(t)
  BY <1>8 DEF Scanned
<1>. QED BY <1>13, <1>14, <1>15, <1>16, <1>17 DEF SessionOK

(* read() or write() ends the session; what was handled stays handled *)
LEMMA CloseOK ==
    ASSUME NEW s, SessionOK(s), NEW t, DOMAIN t = DOMAIN s, t.at = "closed",
           t.sent = s.sent, t.rest = s.rest, t.buffer = s.buffer, t.begin = s.begin,
           t.end = s.end, t.handled = s.handled
    PROVE  SessionOK(t)
  BY DEF SessionOK, SessionShape, Window, Marked, Recorded, LineKept, Scanned, Taken, Base

(* The answer is written: the next line begins after this one *)
LEMMA WriteAnswerOK ==
    ASSUME NEW s, SessionOK(s), s.at = "answer", NEW t, DOMAIN t = DOMAIN s, t.at = "scan",
           t.sent = s.sent, t.rest = s.rest, t.buffer = s.buffer, t.begin = s.end,
           t.end = 0, t.handled = s.handled
    PROVE  SessionOK(t)
<1>1. Taken(t) = Taken(s) /\ Base(t) = Base(s) /\ Mark(t) = Mark(s)
  BY DEF Taken, Base, Mark
<1>2. SessionShape(t) /\ Window(t)
  BY <1>1 DEF SessionOK, SessionShape, Window
<1>3. Marked(t) /\ Recorded(t) /\ Scanned(t)
  BY <1>1 DEF SessionOK, Marked, Recorded, LineKept, Scanned
<1>. QED BY <1>2, <1>3 DEF SessionOK

LEMMA FirstOf ==
    ASSUME NEW S \in SUBSET Nat, S # {}
    PROVE  \E n \in S : \A m \in S : n <= m
<1>1. IsWellFoundedOn(OpToRel(<, Nat), Nat)
  BY NatLessThanWellFounded
<1>2. \E n \in S : \A m \in S : <<m, n>> \notin OpToRel(<, Nat)
  BY <1>1, WFMin
<1>3. PICK n \in S : \A m \in S : ~(m < n)
  BY <1>2 DEF OpToRel
<1>. QED BY <1>3

(* The bytes up to the next newline are the next line of the stream *)
ApplyTo(s, end, decision, t) ==
    /\ DOMAIN t = DOMAIN s /\ s.at = "scan" /\ t.at = "answer" /\ t.sent = s.sent
    /\ t.rest = s.rest /\ t.buffer = s.buffer /\ t.begin = s.begin /\ t.end = end
    /\ t.handled = Append(s.handled, [line |-> SubSeq(s.buffer, s.begin + 1, end - 1),
                                      decision |-> decision])

LEMMA ApplyLineOK ==
    ASSUME NEW s, SessionOK(s), NEW end \in NextLineEnds(s), \A j \in NextLineEnds(s) : end <= j,
           NEW decision \in {"Accepted", "Rejected", "Moved"},
           ~Parses(SubSeq(s.buffer, s.begin + 1, end - 1)) => decision = "Rejected",
           NEW t, ApplyTo(s, end, decision, t)
    PROVE  SessionOK(t)
<1>1. SessionShape(s) /\ Window(s) /\ Marked(s) /\ Recorded(s)
  BY DEF SessionOK
<1>2. PICK sent, buffer, handled, L, U, B, R, base, begin :
         /\ sent = s.sent /\ buffer = s.buffer /\ handled = s.handled /\ begin = s.begin
         /\ L = Len(sent) /\ U = Len(s.rest) /\ B = Len(buffer) /\ R = L - U /\ base = R - B
  OBVIOUS
<1>3. /\ sent \in Seq(Nat) /\ buffer \in Seq(Nat) /\ handled \in Seq(Answers)
      /\ L \in Nat /\ U \in Nat /\ B \in Nat /\ R <= L /\ R \in Nat /\ base \in Nat
      /\ begin \in Nat /\ base + B = R
  <2>1. /\ sent \in Seq(Nat) /\ buffer \in Seq(Nat) /\ s.rest \in Seq(Nat) /\ U <= L /\ B <= R
        /\ handled \in Seq(Answers) /\ begin \in Nat
    BY <1>1, <1>2 DEF SessionShape, Taken
  <2>2. L \in Nat /\ U \in Nat /\ B \in Nat
    BY <1>2, <2>1
  <2>3. R = L - U /\ base = R - B
    BY <1>2
  <2>. QED BY <2>1, <2>2, <2>3
<1>4. /\ end \in 1..B /\ buffer[end] = NewLine /\ begin < end
      /\ \A j \in 1..B : buffer[j] = NewLine /\ j > begin => end <= j
  BY <1>2, <1>3 DEF NextLineEnds, LineEnds
<1>5. Taken(s) = R /\ Base(s) = base
  BY <1>2 DEF Taken, Base
<1>6. \A i \in 1..B : buffer[i] = sent[base + i]
  BY <1>1, <1>2, <1>5 DEF Window
<1>7. PICK P, N, h : P = base + begin /\ N = base + end /\ h = Len(handled)
  OBVIOUS
<1>8. P \in Nat /\ N \in 1..R /\ P < N /\ h \in Nat
  BY <1>3, <1>4, <1>7
<1>9. N \in LineEnds(sent)
  <2>1. N \in DOMAIN sent
    BY <1>2, <1>3, <1>8
  <2>2. sent[N] = NewLine
    BY <1>4, <1>6, <1>7
  <2>. QED BY <2>1, <2>2 DEF LineEnds
<1>10. (P = 0 \/ sent[P] = NewLine) /\ Cardinality(EndsUpTo(sent, P)) = h
  <2>1. s.at = "scan"
    BY DEF ApplyTo
  <2>2. Mark(s) = P
    BY <1>2, <1>5, <1>7, <2>1 DEF Mark
  <2>. QED BY <1>1, <1>2, <1>7, <2>1, <2>2 DEF Marked
<1>11. \A i \in (P + 1)..(N - 1) : sent[i] # NewLine
  <2>. SUFFICES ASSUME NEW i \in (P + 1)..(N - 1), sent[i] = NewLine PROVE FALSE
    OBVIOUS
  <2>1. PICK j : j = i - base
    OBVIOUS
  <2>2. j \in 1..B /\ base + j = i /\ j > begin /\ j < end
    BY <1>3, <1>4, <1>7, <2>1
  <2>3. buffer[j] = NewLine
    BY <1>6, <2>2
  <2>. QED BY <1>4, <2>2, <2>3
<1>12. /\ Cardinality(EndsUpTo(sent, N)) = h + 1
       /\ Line(sent, h + 1) = SubSeq(sent, P + 1, N - 1)
  <2>1. sent \in Seq(Nat) /\ P \in Nat /\ P < N
    BY <1>3, <1>8
  <2>2. /\ Cardinality(EndsUpTo(sent, N)) = Cardinality(EndsUpTo(sent, P)) + 1
        /\ Line(sent, Cardinality(EndsUpTo(sent, P)) + 1) = SubSeq(sent, P + 1, N - 1)
    BY <1>9, <1>10, <1>11, <2>1, NextLine, Zenon
  <2>. QED BY <1>10, <2>2, Zenon
<1>13. PICK line : line = SubSeq(buffer, begin + 1, end - 1)
  OBVIOUS
<1>14. line \in Seq(Nat) /\ line = Line(sent, h + 1)
  <2>1. PICK e, M : e = end - 1 /\ M = N - 1
    OBVIOUS
  <2>2. /\ begin \in 0..B /\ e \in 0..B /\ begin <= e
        /\ P \in 0..L /\ M \in 0..L /\ P <= M /\ M - P = e - begin
    BY <1>3, <1>4, <1>7, <1>8, <2>1
  <2>3. /\ line \in Seq(Nat) /\ Len(line) = e - begin
        /\ \A i \in 1..(e - begin) : line[i] = buffer[begin + i]
    <3>1. B = Len(buffer) /\ buffer \in Seq(Nat) /\ line = SubSeq(buffer, begin + 1, e)
      BY <1>2, <1>3, <1>13, <2>1
    <3>. QED BY <2>2, <3>1, CutSeq
  <2>4. PICK cut : cut = SubSeq(sent, P + 1, M)
    OBVIOUS
  <2>5. /\ cut \in Seq(Nat) /\ Len(cut) = M - P
        /\ \A i \in 1..(M - P) : cut[i] = sent[P + i]
    BY <1>2, <1>3, <2>2, <2>4, CutSeq
  <2>6. ASSUME NEW i \in 1..(e - begin) PROVE line[i] = cut[i]
    <3>1. begin + i \in 1..B /\ base + (begin + i) = P + i
      BY <1>3, <1>7, <2>2
    <3>2. buffer[begin + i] = sent[P + i]
      BY <1>6, <3>1
    <3>. QED BY <2>2, <2>3, <2>5, <3>2
  <2>7. line = cut
    BY <2>2, <2>3, <2>5, <2>6, SeqEqual
  <2>. QED BY <1>12, <2>1, <2>3, <2>4, <2>7
<1>15. PICK a : a = [line |-> line, decision |-> decision]
  OBVIOUS
<1>16. a \in Answers /\ a.line = line /\ a.decision = decision
  BY <1>14, <1>15 DEF Answers
<1>17. /\ DOMAIN t = DOMAIN s /\ t.at = "answer" /\ t.sent = sent /\ t.rest = s.rest
       /\ t.buffer = buffer /\ t.begin = begin /\ t.end = end /\ t.handled = Append(handled, a)
  BY <1>2, <1>13, <1>15 DEF ApplyTo
<1>18. /\ t.handled \in Seq(Answers) /\ Len(t.handled) = h + 1 /\ t.handled[h + 1] = a
       /\ \A k \in 1..h : t.handled[k] = handled[k]
  BY <1>3, <1>7, <1>16, <1>17
<1>19. Taken(t) = R /\ Base(t) = base /\ Mark(t) = N
  <2>1. Taken(t) = R /\ Base(t) = base
    BY <1>2, <1>17 DEF Taken, Base
  <2>. QED BY <1>7, <1>17, <2>1 DEF Mark
<1>20. SessionShape(t)
  <2>1. /\ DOMAIN s = {"at", "sent", "rest", "buffer", "begin", "end", "handled"}
        /\ s.rest \in Seq(Nat) /\ U <= L /\ B <= R /\ begin <= B
    BY <1>1, <1>2 DEF SessionShape, Taken
  <2>2. end \in Nat /\ end <= B
    BY <1>3, <1>4
  <2>3. L = Len(sent) /\ U = Len(s.rest) /\ B = Len(buffer)
    BY <1>2
  <2>4. sent \in Seq(Nat) /\ buffer \in Seq(Nat) /\ begin \in Nat /\ begin < end
    BY <1>3, <1>4
  <2>5. t.handled \in Seq(Answers)
    BY <1>18
  <2>. QED BY <1>17, <1>19, <2>1, <2>2, <2>3, <2>4, <2>5 DEF SessionShape
<1>21. Window(t)
  <2>1. /\ \A i \in 1..Len(s.rest) : s.rest[i] = s.sent[Taken(s) + i]
        /\ \A i \in 1..Len(s.buffer) : s.buffer[i] = s.sent[Base(s) + i]
    BY <1>1 DEF Window
  <2>2. /\ t.rest = s.rest /\ t.buffer = s.buffer /\ t.sent = s.sent
        /\ Taken(t) = Taken(s) /\ Base(t) = Base(s)
    BY <1>2, <1>5, <1>17, <1>19, Zenon
  <2>3. /\ \A i \in 1..Len(t.rest) : t.rest[i] = t.sent[Taken(t) + i]
        /\ \A i \in 1..Len(t.buffer) : t.buffer[i] = t.sent[Base(t) + i]
    BY <2>1, <2>2, Zenon
  <2>. QED BY <2>3, Zenon DEF Window
<1>22. Marked(t)
  <2>1. sent[N] = NewLine
    BY <1>9 DEF LineEnds
  <2>. QED BY <1>12, <1>17, <1>18, <1>19, <2>1 DEF Marked
<1>23. Recorded(t)
  <2>1. Len(t.handled) <= Cardinality(EndsUpTo(t.sent, Taken(t)))
    <3>1. N \in Nat /\ N <= R
      BY <1>3, <1>8
    <3>2. Cardinality(EndsUpTo(sent, N)) <= Cardinality(EndsUpTo(sent, R))
      BY <1>3, <3>1, EndsGrow
    <3>. QED BY <1>12, <1>17, <1>18, <1>19, <3>2
  <2>2. ASSUME NEW k \in DOMAIN t.handled PROVE LineKept(t, k)
    <3>1. CASE k \in 1..h
      <4>1. LineKept(s, k)
        BY <1>1, <1>2, <1>3, <1>7, <3>1 DEF Recorded
      <4>. QED BY <1>2, <1>17, <1>18, <3>1, <4>1 DEF LineKept
    <3>2. CASE k = h + 1
      <4>1. ~Parses(line) => decision = "Rejected"
        BY <1>2, <1>13
      <4>. QED BY <1>14, <1>16, <1>17, <1>18, <3>2, <4>1 DEF LineKept
    <3>. QED BY <1>8, <1>18, <3>1, <3>2
  <2>. QED BY <2>1, <2>2 DEF Recorded
<1>24. Scanned(t)
  BY <1>17 DEF Scanned
<1>. QED BY <1>20, <1>21, <1>22, <1>23, <1>24 DEF SessionOK

(* The unfinished line moves to the front *)
CompactTo(s, t) ==
    /\ DOMAIN t = DOMAIN s /\ s.at = "scan" /\ t.sent = s.sent /\ t.rest = s.rest
    /\ t.at = IF Len(Kept(s)) = BufferSize THEN "overlong" ELSE "read"
    /\ t.buffer = Kept(s) /\ t.begin = 0 /\ t.end = s.end /\ t.handled = s.handled

LEMMA CompactOK ==
    ASSUME NEW s, SessionOK(s), NextLineEnds(s) = {}, NEW t, CompactTo(s, t)
    PROVE  SessionOK(t)
<1>1. SessionShape(s) /\ Window(s) /\ Marked(s) /\ Recorded(s)
  BY DEF SessionOK
<1>2. PICK sent, buffer, kept, L, U, B, R, base, begin :
         /\ sent = s.sent /\ buffer = s.buffer /\ begin = s.begin /\ kept = Kept(s)
         /\ L = Len(sent) /\ U = Len(s.rest) /\ B = Len(buffer) /\ R = L - U /\ base = R - B
  OBVIOUS
<1>3. /\ sent \in Seq(Nat) /\ buffer \in Seq(Nat) /\ s.rest \in Seq(Nat)
      /\ L \in Nat /\ U \in Nat /\ B \in Nat /\ U <= L /\ R \in Nat /\ base \in Nat
      /\ begin \in Nat /\ begin <= B /\ base + B = R
  <2>1. /\ sent \in Seq(Nat) /\ buffer \in Seq(Nat) /\ s.rest \in Seq(Nat) /\ U <= L /\ B <= R
        /\ begin \in Nat /\ begin <= B
    BY <1>1, <1>2 DEF SessionShape, Taken
  <2>2. L \in Nat /\ U \in Nat /\ B \in Nat
    BY <1>2, <2>1
  <2>3. R = L - U /\ base = R - B
    BY <1>2
  <2>. QED BY <2>1, <2>2, <2>3
<1>4. /\ kept \in Seq(Nat) /\ Len(kept) = B - begin
      /\ \A i \in 1..(B - begin) : kept[i] = buffer[begin + i]
  <2>1. begin \in 0..B /\ B \in 0..B
    BY <1>3
  <2>2. kept = SubSeq(buffer, begin + 1, B) /\ B = Len(buffer) /\ begin <= B
    BY <1>2, <1>3 DEF Kept
  <2>3. buffer \in Seq(Nat)
    BY <1>3
  <2>. QED BY <2>1, <2>2, <2>3, CutSeq
<1>5. /\ DOMAIN t = DOMAIN s /\ t.at \in {"read", "overlong"} /\ t.sent = sent
      /\ t.rest = s.rest /\ t.buffer = kept /\ t.begin = 0 /\ t.end = s.end
      /\ t.handled = s.handled /\ (t.at = "overlong" => Len(kept) = BufferSize)
  BY <1>2 DEF CompactTo
<1>6. Taken(s) = R /\ Base(s) = base /\ Taken(t) = R
  BY <1>2, <1>5 DEF Taken, Base
<1>7. Base(t) = base + begin
  <2>1. Base(t) = R - (B - begin)
    BY <1>4, <1>5, <1>6 DEF Base
  <2>. QED BY <1>3, <2>1
<1>8. Mark(t) = base + begin /\ Mark(s) = base + begin
  <2>1. s.at = "scan"
    BY DEF CompactTo
  <2>2. t.at # "answer"
    BY <1>5
  <2>3. Mark(s) = base + begin
    BY <1>2, <1>6, <2>1 DEF Mark
  <2>4. Mark(t) = (base + begin) + 0
    BY <1>5, <1>7, <2>2 DEF Mark
  <2>. QED BY <1>3, <2>3, <2>4
<1>9. SessionShape(t)
  <2>1. /\ DOMAIN s = {"at", "sent", "rest", "buffer", "begin", "end", "handled"}
        /\ s.handled \in Seq(Answers) /\ s.end \in Nat
    BY <1>1 DEF SessionShape
  <2>2. B - begin <= R /\ 0 <= B - begin
    BY <1>3
  <2>3. t.at # "answer"
    BY <1>5
  <2>. QED BY <1>2, <1>3, <1>4, <1>5, <1>6, <2>1, <2>2, <2>3 DEF SessionShape
<1>10. Window(t)
  <2>1. ASSUME NEW i \in 1..(B - begin) PROVE kept[i] = sent[(base + begin) + i]
    <3>1. begin + i \in 1..B /\ base + (begin + i) = (base + begin) + i
      BY <1>3
    <3>2. buffer[begin + i] = sent[base + (begin + i)]
      BY <1>1, <1>2, <1>6, <3>1 DEF Window
    <3>. QED BY <1>4, <3>1, <3>2
  <2>2. \A i \in 1..U : s.rest[i] = sent[R + i]
    BY <1>1, <1>2, <1>6 DEF Window
  <2>3. Len(t.rest) = U /\ Len(t.buffer) = B - begin
    BY <1>2, <1>4, <1>5
  <2>4. t.rest = s.rest /\ t.buffer = kept /\ t.sent = sent
    BY <1>5
  <2>. QED BY <1>6, <1>7, <2>1, <2>2, <2>3, <2>4 DEF Window
<1>11. Marked(t)
  <2>1. s.at # "closed"
    BY DEF CompactTo
  <2>. QED BY <1>1, <1>2, <1>5, <1>8, <2>1 DEF Marked
<1>12. Recorded(t)
  BY <1>1, <1>2, <1>5, <1>6 DEF Recorded, LineKept
<1>13. LineEnds(kept) = {}
  <2>. SUFFICES ASSUME NEW i \in 1..(B - begin), kept[i] = NewLine PROVE FALSE
    BY <1>4 DEF LineEnds
  <2>1. begin + i \in 1..B /\ begin + i > begin /\ buffer[begin + i] = NewLine
    BY <1>3, <1>4
  <2>2. begin + i \in NextLineEnds(s)
    BY <1>2, <1>3, <2>1 DEF NextLineEnds, LineEnds
  <2>. QED BY <2>2
<1>14. Scanned(t)
  BY <1>5, <1>13 DEF Scanned
<1>. QED BY <1>9, <1>10, <1>11, <1>12, <1>14 DEF SessionOK

LEMMA SessionStepOK ==
    ASSUME Life, SessionsOK, NEW c \in Connections, AcceptConnection(c) \/ SessionStep(c)
    PROVE  SessionsOK'
<1>1. PICK s, t : s = conn[c] /\ t = conn'[c]
  OBVIOUS
<1>2. /\ SessionOK(s) /\ DOMAIN conn = Connections
      /\ DOMAIN s = {"at", "sent", "rest", "buffer", "begin", "end", "handled"}
  BY <1>1 DEF Life, SessionsOK, SessionOK, SessionShape
<1>3. \A d \in Connections \ {c} : conn'[d] = conn[d]
  BY <1>2 DEF AcceptConnection, SessionStep, Read, ReadEnds, ApplyLine, WriteAnswer,
     WriteFails, Compact
<1>4. CASE AcceptConnection(c)
  <2>1. PICK stream \in Streams : conn' = [conn EXCEPT ![c] = Session("read", stream)]
    BY <1>4 DEF AcceptConnection
  <2>2. t = Session("read", stream) /\ stream \in Seq(Nat)
    BY <1>1, <1>2, <2>1, StreamsAssumption
  <2>3. SessionOK(t)
    BY <2>2, SessionFresh
  <2>. QED BY <1>1, <1>3, <2>3 DEF SessionsOK
<1>5. CASE Read(c)
  <2>1. PICK n \in 1..Len(conn[c].rest) :
           conn' = [conn EXCEPT ![c].at = "scan",
                                ![c].buffer = @ \o SubSeq(conn[c].rest, 1, n),
                                ![c].rest = SubSeq(@, n + 1, Len(@))]
    BY <1>5 DEF Read
  <2>2. s.at = "read" /\ n \in 1..Len(s.rest)
    BY <1>1, <1>5, <2>1 DEF Read
  <2>3. ReadTo(s, n, t)
    BY <1>1, <1>2, <2>1, <2>2 DEF ReadTo
  <2>4. SessionOK(t)
    BY <1>2, <2>2, <2>3, ReadOK
  <2>. QED BY <1>1, <1>3, <2>4 DEF SessionsOK
<1>6. CASE ReadEnds(c) \/ WriteFails(c)
  <2>1. conn' = [conn EXCEPT ![c].at = "closed"]
    BY <1>6 DEF ReadEnds, WriteFails
  <2>2. /\ DOMAIN t = DOMAIN s /\ t.at = "closed" /\ t.sent = s.sent /\ t.rest = s.rest
        /\ t.buffer = s.buffer /\ t.begin = s.begin /\ t.end = s.end /\ t.handled = s.handled
    BY <1>1, <1>2, <2>1
  <2>3. SessionOK(t)
    BY <1>2, <2>2, CloseOK
  <2>. QED BY <1>1, <1>3, <2>3 DEF SessionsOK
<1>7. CASE ApplyLine(c)
  <2>1. s.at = "scan" /\ NextLineEnds(s) # {}
    BY <1>1, <1>7 DEF ApplyLine
  <2>2. PICK end : end = CHOOSE i \in NextLineEnds(s) : \A j \in NextLineEnds(s) : i <= j
    OBVIOUS
  <2>3. end \in NextLineEnds(s) /\ \A j \in NextLineEnds(s) : end <= j
    <3>1. NextLineEnds(s) \in SUBSET Nat
      BY <1>2 DEF SessionOK, SessionShape, NextLineEnds, LineEnds
    <3>2. \E i \in NextLineEnds(s) : \A j \in NextLineEnds(s) : i <= j
      BY <2>1, <3>1, FirstOf
    <3>. QED BY <2>2, <3>2
  <2>4. PICK line : line = SubSeq(s.buffer, s.begin + 1, end - 1)
    OBVIOUS
  <2>5. PICK decision \in LineDecisions(line) :
           conn' = [conn EXCEPT ![c].at = "answer", ![c].end = end,
                      ![c].handled = Append(@, [line |-> line, decision |-> decision])]
    BY <1>1, <1>7, <2>2, <2>4 DEF ApplyLine
  <2>6. /\ decision \in {"Accepted", "Rejected", "Moved"}
        /\ ~Parses(line) => decision = "Rejected"
    BY <2>5 DEF LineDecisions, Decisions
  <2>7. ApplyTo(s, end, decision, t)
    BY <1>1, <1>2, <2>1, <2>4, <2>5 DEF ApplyTo
  <2>8. SessionOK(t)
    BY <1>2, <2>3, <2>4, <2>6, <2>7, ApplyLineOK
  <2>. QED BY <1>1, <1>3, <2>8 DEF SessionsOK
<1>8. CASE WriteAnswer(c)
  <2>1. /\ conn' = [conn EXCEPT ![c].at = "scan", ![c].begin = conn[c].end, ![c].end = 0]
        /\ s.at = "answer"
    BY <1>1, <1>8 DEF WriteAnswer
  <2>2. /\ DOMAIN t = DOMAIN s /\ t.at = "scan" /\ t.sent = s.sent /\ t.rest = s.rest
        /\ t.buffer = s.buffer /\ t.begin = s.end /\ t.end = 0 /\ t.handled = s.handled
    BY <1>1, <1>2, <2>1
  <2>3. SessionOK(t)
    BY <1>2, <2>1, <2>2, WriteAnswerOK
  <2>. QED BY <1>1, <1>3, <2>3 DEF SessionsOK
<1>9. CASE Compact(c)
  <2>1. /\ conn' = [conn EXCEPT ![c].at = IF Len(Kept(conn[c])) = BufferSize
                                         THEN "overlong" ELSE "read",
                               ![c].buffer = Kept(conn[c]), ![c].begin = 0]
        /\ s.at = "scan" /\ NextLineEnds(s) = {}
    BY <1>1, <1>9 DEF Compact
  <2>2. CompactTo(s, t)
    BY <1>1, <1>2, <2>1 DEF CompactTo
  <2>3. SessionOK(t)
    BY <1>2, <2>1, <2>2, CompactOK
  <2>. QED BY <1>1, <1>3, <2>3 DEF SessionsOK
<1>. QED BY <1>4, <1>5, <1>6, <1>7, <1>8, <1>9 DEF SessionStep

LEMMA SessionsInit == Init => SessionsOK
<1>. SUFFICES ASSUME Init, NEW c \in Connections PROVE SessionOK(conn[c])
  BY DEF SessionsOK
<1>1. conn[c] = Session("none", <<>>)
  BY DEF Init, TcpInit
<1>2. <<>> \in Seq(Nat)
  OBVIOUS
<1>. QED BY <1>1, <1>2, SessionFresh

LEMMA SessionsNext == Life /\ SessionsOK /\ [Next]_vars => SessionsOK'
<1>. SUFFICES ASSUME Life, SessionsOK, [Next]_vars PROVE SessionsOK'
  OBVIOUS
<1>1. CASE UNCHANGED conn
  BY <1>1 DEF SessionsOK
<1>2. CASE \E c \in Connections : AcceptConnection(c) \/ SessionStep(c)
  BY <1>2, SessionStepOK
<1>3. CASE UNCHANGED vars
  BY <1>1, <1>3 DEF vars, tcpVars
<1>4. CASE RuntimeMain \/ RuntimeThreads \/ DpdkMain \/ Outside \/ \E q \in QueueIds : Loop(q)
  BY <1>1, <1>4 DEF RuntimeMain, RuntimeThreads, DpdkMain, Outside, Loop, tcpVars
<1>5. CASE TcpMain \/ Sessions
  BY <1>1, <1>2, <1>5 DEF TcpMain, Listen, Sessions, AcceptFails
<1>. QED BY <1>3, <1>4, <1>5 DEF Next

(* What was received, and what of it is not a complete line *)
LEMMA SessionAnswers ==
    ASSUME NEW s, SessionOK(s)
    PROVE  LET lines == Cardinality(LineEnds(Received(s)))
           IN  /\ Len(s.handled) <= lines
               /\ s.at \in {"read", "overlong"} =>
                     Len(s.handled) = lines /\ s.buffer = Unfinished(Received(s))
<1>1. SessionShape(s) /\ Window(s) /\ Marked(s) /\ Recorded(s) /\ Scanned(s)
  BY DEF SessionOK
<1>2. PICK sent, buffer, got, L, U, B, R, base :
         /\ sent = s.sent /\ buffer = s.buffer /\ got = Received(s)
         /\ L = Len(sent) /\ U = Len(s.rest) /\ B = Len(buffer) /\ R = L - U /\ base = R - B
  OBVIOUS
<1>3. /\ sent \in Seq(Nat) /\ buffer \in Seq(Nat) /\ L \in Nat /\ B \in Nat
      /\ R \in Nat /\ R <= L /\ base \in Nat /\ base + B = R
  <2>1. /\ sent \in Seq(Nat) /\ buffer \in Seq(Nat) /\ s.rest \in Seq(Nat) /\ U <= L /\ B <= R
    BY <1>1, <1>2 DEF SessionShape, Taken
  <2>2. L \in Nat /\ U \in Nat /\ B \in Nat
    BY <1>2, <2>1
  <2>3. R = L - U /\ base = R - B
    BY <1>2
  <2>. QED BY <2>1, <2>2, <2>3
<1>4. got \in Seq(Nat) /\ Len(got) = R /\ \A i \in 1..R : got[i] = sent[i]
  <2>1. 0 \in 0..L /\ R \in 0..L /\ 0 <= R /\ 0 + 1 = 1 /\ R - 0 = R
    BY <1>3
  <2>2. got = SubSeq(sent, 0 + 1, R) /\ L = Len(sent) /\ sent \in Seq(Nat)
    BY <1>2, <1>3, <2>1 DEF Received
  <2>3. /\ got \in Seq(Nat) /\ Len(got) = R - 0
        /\ \A i \in 1..(R - 0) : got[i] = sent[0 + i]
    BY <2>1, <2>2, CutSeq
  <2>4. \A i \in 1..R : 0 + i = i
    OBVIOUS
  <2>. QED BY <2>1, <2>3, <2>4
<1>5. LineEnds(got) = EndsUpTo(sent, R)
  <2>1. DOMAIN got = 1..R /\ DOMAIN sent = 1..L
    <3>1. L = Len(sent) /\ sent \in Seq(Nat)
      BY <1>2, <1>3
    <3>2. R = Len(got) /\ got \in Seq(Nat)
      BY <1>4
    <3>. QED BY <3>1, <3>2, LenProperties
  <2>2. \A i : i \in 1..R <=> i \in 1..L /\ i <= R
    BY <1>3
  <2>. QED BY <1>4, <2>1, <2>2 DEF LineEnds, EndsUpTo
<1>6. Taken(s) = R /\ Base(s) = base
  BY <1>2 DEF Taken, Base
<1>7. Len(s.handled) <= Cardinality(LineEnds(got))
  BY <1>1, <1>2, <1>5, <1>6 DEF Recorded
<1>8. ASSUME s.at \in {"read", "overlong"}
      PROVE  Len(s.handled) = Cardinality(LineEnds(got)) /\ buffer = Unfinished(got)
  <2>1. /\ base = 0 \/ sent[base] = NewLine
        /\ Cardinality(EndsUpTo(sent, base)) = Len(s.handled)
    <3>1. s.begin = 0 /\ s.at # "answer" /\ s.at # "closed"
      BY <1>1, <1>8 DEF Scanned
    <3>2. Mark(s) = base + 0
      BY <1>6, <3>1 DEF Mark
    <3>3. Mark(s) = base
      BY <1>3, <3>2
    <3>. QED BY <1>1, <1>2, <3>1, <3>3 DEF Marked
  <2>2. \A i \in 1..R : sent[i] = NewLine => i <= base
    <3>. SUFFICES ASSUME NEW i \in 1..R, sent[i] = NewLine, i > base PROVE FALSE
      BY <1>3
    <3>1. PICK j : j = i - base
      OBVIOUS
    <3>2. j \in 1..B /\ base + j = i
      BY <1>3, <3>1
    <3>3. buffer[j] = NewLine
      BY <1>1, <1>2, <1>6, <3>2 DEF Window
    <3>4. j \in LineEnds(buffer)
      BY <1>2, <1>3, <3>2, <3>3 DEF LineEnds
    <3>. QED BY <1>1, <1>2, <1>8, <3>4 DEF Scanned
  <2>3. EndsUpTo(sent, R) = EndsUpTo(sent, base)
    <3>1. \A i \in LineEnds(sent) : i <= R <=> i <= base
      <4>1. ASSUME NEW i \in LineEnds(sent) PROVE i \in Nat /\ i >= 1 /\ sent[i] = NewLine
        BY <1>3 DEF LineEnds
      <4>2. ASSUME NEW i \in LineEnds(sent), i <= R PROVE i <= base
        <5>1. i \in 1..R /\ sent[i] = NewLine
          BY <1>3, <4>1, <4>2
        <5>. QED BY <2>2, <5>1
      <4>3. ASSUME NEW i \in LineEnds(sent), i <= base PROVE i <= R
        BY <1>3, <4>1, <4>3
      <4>. QED BY <4>2, <4>3
    <3>. QED BY <3>1, Zenon DEF EndsUpTo
  <2>4. Cardinality({i \in DOMAIN got : \E j \in LineEnds(got) : i <= j}) = base
    <3>1. {i \in DOMAIN got : \E j \in LineEnds(got) : i <= j} = 1..base
      <4>1. DOMAIN got = 1..R
        BY <1>4
      <4>2. ASSUME NEW i \in 1..R, NEW j \in LineEnds(got), i <= j PROVE i \in 1..base
        <5>1. j \in 1..R /\ sent[j] = NewLine
          BY <1>4, <4>1 DEF LineEnds
        <5>2. j <= base
          BY <2>2, <5>1
        <5>. QED BY <1>3, <4>2, <5>1, <5>2
      <4>3. ASSUME NEW i \in 1..base PROVE i \in 1..R /\ \E j \in LineEnds(got) : i <= j
        <5>1. base \in 1..R /\ i \in 1..R /\ i <= base /\ base # 0
          BY <1>3
        <5>2. base \in LineEnds(got)
          BY <1>4, <2>1, <4>1, <5>1 DEF LineEnds
        <5>. QED BY <5>1, <5>2
      <4>. QED BY <4>1, <4>2, <4>3
    <3>2. Cardinality(1..base) = base
      <4>1. Cardinality(1..base) = IF 1 > base THEN 0 ELSE base - 1 + 1
        BY <1>3, FS_Interval
      <4>. QED BY <1>3, <4>1
    <3>. QED BY <3>1, <3>2
  <2>5. Unfinished(got) = SubSeq(got, base + 1, R)
    BY <1>4, <2>4 DEF Unfinished
  <2>6. buffer = SubSeq(got, base + 1, R)
    <3>1. base \in 0..Len(got) /\ R \in 0..Len(got) /\ base <= R /\ R - base = B
      BY <1>3, <1>4
    <3>2. PICK cut : cut = SubSeq(got, base + 1, R)
      OBVIOUS
    <3>3. /\ cut \in Seq(Nat) /\ Len(cut) = R - base
          /\ \A i \in 1..(R - base) : cut[i] = got[base + i]
      BY <1>4, <3>1, <3>2, CutSeq
    <3>4. ASSUME NEW i \in 1..B PROVE buffer[i] = cut[i]
      <4>1. base + i \in 1..R
        BY <1>3
      <4>2. got[base + i] = sent[base + i]
        BY <1>4, <4>1
      <4>3. buffer[i] = sent[base + i]
        BY <1>1, <1>2, <1>6 DEF Window
      <4>. QED BY <3>1, <3>3, <4>2, <4>3
    <3>5. Len(buffer) = B /\ buffer \in Seq(Nat) /\ Len(cut) = B
      BY <1>2, <1>3, <3>1, <3>3
    <3>. QED BY <3>2, <3>3, <3>4, <3>5, SeqEqual
  <2>. QED BY <1>5, <2>1, <2>3, <2>5, <2>6
<1>. QED BY <1>2, <1>7, <1>8

(* For any streams, any size of the buffer and any cuts that read() makes:  *)
(* a session handles the lines of its stream in order, each once, never     *)
(* accepts or redirects a line that is not a number in range, holds exactly *)
(* the unfinished line whenever it reads again, and gives up only on a line *)
(* that does not fit                                                        *)
THEOREM LinesAreAnswered == Spec => []AnswersMatchLines
<1>1. SessionsOK => AnswersMatchLines
  <2>. SUFFICES ASSUME SessionsOK, NEW c \in Connections
                PROVE  LET s == conn[c]
                           lines == Cardinality(LineEnds(Received(s)))
                       IN  /\ Len(s.handled) <= lines
                           /\ \A k \in DOMAIN s.handled : LineKept(s, k)
                           /\ s.at \in {"read", "overlong"} =>
                                 Len(s.handled) = lines /\ s.buffer = Unfinished(Received(s))
                           /\ s.at = "overlong" => Len(Unfinished(Received(s))) >= BufferSize
    BY DEF AnswersMatchLines, LineKept
  <2>1. PICK s : s = conn[c]
    OBVIOUS
  <2>2. SessionOK(s)
    BY <2>1 DEF SessionsOK
  <2>3. /\ Len(s.handled) <= Cardinality(LineEnds(Received(s)))
        /\ s.at \in {"read", "overlong"} =>
              /\ Len(s.handled) = Cardinality(LineEnds(Received(s)))
              /\ s.buffer = Unfinished(Received(s))
    BY <2>2, SessionAnswers
  <2>4. \A k \in DOMAIN s.handled : LineKept(s, k)
    BY <2>2 DEF SessionOK, Recorded
  <2>5. s.at = "overlong" => Len(Unfinished(Received(s))) >= BufferSize
    <3>1. s.at = "overlong" => Len(s.buffer) = BufferSize
      BY <2>2 DEF SessionOK, Scanned
    <3>. QED BY <2>3, <3>1, BufferAssumption
  <2>. QED BY <2>1, <2>3, <2>4, <2>5
<1>. QED BY <1>1, LifeInit, LifeNext, SessionsInit, SessionsNext, PTL DEF Spec
=============================================================================
