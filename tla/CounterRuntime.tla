---------------------------- MODULE CounterRuntime ----------------------------
(***************************************************************************)
(* The life of a daemon process around its engine (cpp/src/runtime.cpp):   *)
(* configuration, CounterRuntime::start() with a failure at any point, the *)
(* control thread and the handoff thread it leaves running, and the way    *)
(* down through stop() and the destructor.  The transports that call the   *)
(* engine in between are TcpServer and DpdkServer.                         *)
(*                                                                         *)
(* The engine is seen through the answers of apply(); how it arrives at    *)
(* them is CounterEngine, and what the handoff thread does to it is        *)
(* DistributedHandoff.                                                     *)
(***************************************************************************)
EXTENDS RuntimeConfig

VARIABLES
    main,          \* where the main thread is
    transport,     \* COUNTER_TRANSPORT: "tcp" or "dpdk"
    config,        \* config_
    plan,          \* the reservation plan while it is being checked
    engine,        \* mode, gate, total and whether the object exists
    replication,   \* replication_: "none", "built" or "running"
    publisher,     \* engine_.replication_publisher_ is set
    handoff,       \* handoff_: "none", "built" or "running"
    journal,       \* what the handoff controller found: "unread" or a phase
    control,       \* the control thread
    detector,      \* the detector's worker runs
    stop_control   \* engine_.stop_control_

rtVars == <<main, transport, config, plan, engine, replication, publisher,
            handoff, journal, control, detector, stop_control>>

NoConfig == [limit |-> 0, reservation |-> 0, start_peak |-> FALSE,
             replication |-> FALSE, handoff |-> FALSE]
NoEngine == [alive |-> FALSE, mode |-> "Strict", open |-> TRUE, total |-> 0]

RuntimeInit ==
    /\ config = NoConfig /\ plan = <<>> /\ engine = NoEngine
    /\ replication = "none" /\ publisher = FALSE /\ handoff = "none"
    /\ journal = "unread" /\ control = "none" /\ detector = FALSE
    /\ stop_control = FALSE

-----------------------------------------------------------------------------
(* CounterEngine::apply(), seen from a transport.                          *)

Capacity == IF engine.mode = "ReservedPeak" THEN config.reservation ELSE config.limit
Fits(d) == d <= Capacity - engine.total

(* A peak-mode engine may also reject what fits, because one shard is full. *)
(* A request to a destroyed engine may be answered with anything.           *)
Decisions(d) ==
    IF ~engine.alive THEN {"Accepted", "Rejected", "Moved"}
    ELSE IF ~engine.open THEN {"Rejected"}
    ELSE IF engine.mode = "RemoteStrict" THEN {"Moved"}
    ELSE {x \in {"Accepted", "Rejected"} :
             \/ x = "Accepted" /\ Fits(d)
             \/ x = "Rejected" /\ (engine.mode = "ReservedPeak" \/ ~Fits(d))}

AppliedTo(e, d, decision) ==
    IF e.alive /\ decision = "Accepted" THEN [e EXCEPT !.total = @ + d] ELSE e

-----------------------------------------------------------------------------
(* Configuration and start().  A failure in start() goes to its handler,    *)
(* which takes the same steps as stop().                                    *)

Configure(o) ==
    /\ main = "configure"
    /\ \/ /\ ConfigAccepted(o)
          /\ config' = ConfigOf(o) /\ plan' = o.cluster_reservations
          /\ engine' = [NoEngine EXCEPT !.alive = TRUE]
          /\ main' = "configured"
       \/ /\ ~ConfigAccepted(o)
          /\ main' = "stopped"
          /\ UNCHANGED <<config, plan, engine>>
    /\ UNCHANGED <<transport, replication, publisher, handoff, journal, control,
                   detector, stop_control>>

(* It cannot fail on an engine that nobody has used yet *)
EnterPeak ==
    /\ main = "configured" /\ main' = "replication"
    /\ engine' = IF config.start_peak THEN [engine EXCEPT !.mode = "ReservedPeak"]
                 ELSE engine
    /\ plan' = <<>>
    /\ UNCHANGED <<transport, config, replication, publisher, handoff, journal,
                   control, detector, stop_control>>

StartReplication ==
    /\ main = "replication"
    /\ \/ /\ ~config.replication
          /\ main' = "handoff" /\ UNCHANGED <<replication, publisher>>
       \/ /\ config.replication
          /\ replication' = "running" /\ publisher' = TRUE /\ main' = "handoff"
       \/ /\ config.replication
          /\ replication' = "built" /\ main' = "stop" /\ UNCHANGED publisher
    /\ UNCHANGED <<transport, config, plan, engine, handoff, journal, control,
                   detector, stop_control>>

(* start() of the controller reads the journal and puts the engine where    *)
(* the record says.  Only a member with a part of the limit ever prepares.  *)
ReadJournal ==
    \/ journal' = "Idle" /\ UNCHANGED engine
    \/ /\ config.reservation # config.limit /\ journal' = "Prepared"
       /\ engine' = [engine EXCEPT !.open = FALSE]
    \/ /\ config.reservation # config.limit /\ journal' = "Committed"
       /\ \E m \in {"DangerStrict", "RemoteStrict"}, t \in 0..config.limit :
             engine' = [engine EXCEPT !.mode = m, !.total = t]

(* The controller may still fail after it has read the journal (bind) *)
StartHandoff ==
    /\ main = "handoff"
    /\ \/ /\ ~config.handoff
          /\ main' = "control_plane" /\ UNCHANGED <<engine, handoff, journal>>
       \/ /\ config.handoff /\ ReadJournal
          /\ \/ handoff' = "running" /\ main' = "control_plane"
             \/ handoff' = "built" /\ main' = "stop"
       \/ /\ config.handoff
          /\ handoff' = "built" /\ main' = "stop" /\ UNCHANGED <<engine, journal>>
    /\ UNCHANGED <<transport, config, plan, replication, publisher, control,
                   detector, stop_control>>

(* A thread cannot be created: perhaps only the second of the two *)
StartControlPlane ==
    /\ main = "control_plane" /\ stop_control' = FALSE
    /\ \/ detector' = TRUE /\ control' = "top" /\ main' = "started"
       \/ detector' \in BOOLEAN /\ main' = "stop" /\ UNCHANGED control
    /\ UNCHANGED <<transport, config, plan, engine, replication, publisher,
                   handoff, journal>>

-----------------------------------------------------------------------------
(* The threads that start() leaves running.                                *)

(* A turn of control_loop(): publish_snapshot() loads the pointer, then     *)
(* calls it.                                                                *)
ControlTurn ==
    /\ control = "top"
    /\ \/ stop_control /\ control' = "done"
       \/ ~stop_control /\ publisher /\ control' = "calling"
       \/ ~stop_control /\ control' = "decide"
    /\ UNCHANGED <<main, transport, config, plan, engine, replication, publisher,
                   handoff, journal, detector, stop_control>>

ControlPublish ==
    /\ control = "calling" /\ control' = "decide"
    /\ UNCHANGED <<main, transport, config, plan, engine, replication, publisher,
                   handoff, journal, detector, stop_control>>

ControlDecide ==
    /\ control = "decide" /\ control' = "top"
    /\ \/ UNCHANGED engine
       \/ /\ engine.mode = "Strict" /\ engine.total <= config.reservation
          /\ engine' = [engine EXCEPT !.mode = "ReservedPeak"]
       \/ /\ engine.mode = "ReservedPeak" /\ config.reservation = config.limit
          /\ engine' = [engine EXCEPT !.mode = "DangerStrict"]
    /\ UNCHANGED <<main, transport, config, plan, replication, publisher,
                   handoff, journal, detector, stop_control>>

ControlStep == ControlTurn \/ ControlPublish \/ ControlDecide

(* The handoff thread prepares, aborts or commits; a fenced one does not    *)
(* listen.                                                                  *)
HandoffStep ==
    /\ handoff = "running" /\ journal # "Prepared"
    /\ engine.mode = "ReservedPeak" /\ config.reservation < config.limit
    /\ \/ engine' = [engine EXCEPT !.open = ~@]
       \/ /\ ~engine.open
          /\ \E m \in {"DangerStrict", "RemoteStrict"}, t \in engine.total..config.limit :
                engine' = [engine EXCEPT !.open = TRUE, !.mode = m, !.total = t]
    /\ UNCHANGED <<main, transport, config, plan, replication, publisher,
                   handoff, journal, control, detector, stop_control>>

-----------------------------------------------------------------------------
(* stop(), and the handler of start().                                     *)

StopControl ==
    /\ main = "stop" /\ main' = "join"
    /\ stop_control' = TRUE
    /\ UNCHANGED <<transport, config, plan, engine, replication, publisher,
                   handoff, journal, control, detector>>

(* control_worker_.join(), if it is joinable; a mutated form does not wait *)
NotAwaited == TRUE
ControlEnded == control \in {"none", "done"}

JoinControl ==
    /\ main = "join" /\ ControlEnded
    /\ main' = "reset_handoff" /\ control' = (IF control = "done" THEN "none" ELSE control)
    /\ detector' = FALSE
    /\ UNCHANGED <<transport, config, plan, engine, replication, publisher,
                   handoff, journal, stop_control>>

(* Its stop() aborts a handoff that is not committed, which opens the gate *)
ResetHandoff ==
    /\ main = "reset_handoff" /\ main' = "clear_publisher"
    /\ handoff' = "none"
    /\ engine' = IF handoff = "running" /\ journal # "Prepared"
                 THEN [engine EXCEPT !.open = TRUE] ELSE engine
    /\ UNCHANGED <<transport, config, plan, replication, publisher, journal,
                   control, detector, stop_control>>

ClearPublisher ==
    /\ main = "clear_publisher" /\ main' = "reset_replication"
    /\ publisher' = FALSE
    /\ UNCHANGED <<transport, config, plan, engine, replication, handoff, journal,
                   control, detector, stop_control>>

ResetReplication ==
    /\ main = "reset_replication" /\ main' = "stopped"
    /\ replication' = "none"
    /\ UNCHANGED <<transport, config, plan, engine, publisher, handoff, journal,
                   control, detector, stop_control>>

(* The runtime goes out of scope, then main() returns *)
Destroy ==
    /\ main = (IF transport = "tcp" THEN "stopped" ELSE "port_closed")
    /\ main' = "destroyed"
    /\ engine' = [engine EXCEPT !.alive = FALSE]
    /\ UNCHANGED <<transport, config, plan, replication, publisher, handoff,
                   journal, control, detector, stop_control>>

Exit ==
    /\ main = "destroyed" /\ main' = "exited"
    /\ UNCHANGED <<transport, config, plan, engine, replication, publisher,
                   handoff, journal, control, detector, stop_control>>

Unwinding == {"stop", "join", "reset_handoff", "clear_publisher",
              "reset_replication", "stopped", "port_closed", "destroyed"}

RuntimeMainStep ==
    \/ \E o \in LaunchOptions : Configure(o)
    \/ EnterPeak \/ StartReplication \/ StartHandoff \/ StartControlPlane
    \/ StopControl \/ JoinControl \/ ResetHandoff \/ ClearPublisher
    \/ ResetReplication \/ Destroy \/ Exit

RuntimeThreadStep == ControlStep \/ HandoffStep
=============================================================================
