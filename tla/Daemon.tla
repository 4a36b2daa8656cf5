-------------------------------- MODULE Daemon --------------------------------
(***************************************************************************)
(* One daemon process from launch to exit: the runtime of CounterRuntime   *)
(* under the transport that COUNTER_TRANSPORT selects, TcpServer or        *)
(* DpdkServer (cpp/server/main.cpp and cpp/dpdk/main.cpp).                 *)
(***************************************************************************)
EXTENDS TcpServer, DpdkServer

CONSTANT Transports  \* values of COUNTER_TRANSPORT: "tcp", "dpdk"

vars == <<rtVars, tcpVars, dpdkVars>>

(* counterd with COUNTER_TRANSPORT=dpdk replaces itself by counterd_dpdk *)
Init ==
    /\ transport \in Transports
    /\ main = IF transport = "dpdk" THEN "boot" ELSE "configure"
    /\ RuntimeInit /\ TcpInit /\ DpdkInit

RuntimeMain == RuntimeMainStep /\ UNCHANGED <<tcpVars, dpdkVars>>
RuntimeThreads == main # "exited" /\ RuntimeThreadStep /\ UNCHANGED <<tcpVars, dpdkVars>>
ControlThread == main # "exited" /\ ControlStep /\ UNCHANGED <<tcpVars, dpdkVars>>
TcpMain == Listen /\ UNCHANGED dpdkVars
Sessions ==
    /\ AcceptFails \/ \E c \in Connections : AcceptConnection(c) \/ SessionStep(c)
    /\ UNCHANGED dpdkVars
DpdkMain == DpdkMainStep /\ UNCHANGED tcpVars
Loop(q) == LoopStep(q) /\ UNCHANGED tcpVars
Outside ==
    /\ Signal \/ NicReceive \/ \E q \in QueueIds : NicTransmit(q)
    /\ UNCHANGED tcpVars

Next ==
    \/ RuntimeMain \/ RuntimeThreads \/ TcpMain \/ Sessions \/ DpdkMain \/ Outside
    \/ \E q \in QueueIds : Loop(q)

(* The main thread, the control thread and the polling loops run when they  *)
(* can.  Nothing is assumed of the peers, the NIC, or the sender of signals, *)
(* so not of the sessions that wait for them either.                        *)
Fairness ==
    /\ WF_vars(RuntimeMain) /\ WF_vars(TcpMain) /\ WF_vars(DpdkMain)
    /\ WF_vars(ControlThread)
    /\ \A q \in QueueIds : WF_vars(Loop(q))

Spec == Init /\ [][Next]_vars /\ Fairness

-----------------------------------------------------------------------------
(* The sum of all capacities, as a number *)
Booked(p) == SumTo([i \in 0..(Len(p) - 1) |-> p[i + 1].capacity], Len(p))

(* A process comes up with a cluster plan only if the capacities of all     *)
(* components together, added without wrapping, are within the limit and    *)
(* its own reservation is one of them: make_runtime_config and              *)
(* ReservationPlan refuse the rest.                                         *)
PlanNeverOverbooks ==
    plan # <<>> =>
        /\ Booked(plan) <= config.limit
        /\ \E i \in DOMAIN plan : plan[i].capacity = config.reservation

(* The control thread calls the replicator only while it exists and runs *)
PublisherAlive == control = "calling" => replication = "running"

(* Nothing that calls the engine runs once it is destroyed, except the      *)
(* detached sessions of a listener that failed.                             *)
EngineOutlivesCallers ==
    main \in {"destroyed", "exited"} =>
        /\ control = "none" /\ ~detector /\ handoff = "none" /\ replication = "none"
        /\ \A q \in QueueIds : lcore[q] \in {"idle", "done"}
        /\ (listener # "failed") => \A c \in Connections : conn[c].at = "none"

(* A member that had voted when it went down admits nothing after a         *)
(* restart; one that had committed never grants from its reservation again. *)
RecoveryHolds ==
    engine.alive =>
        /\ journal = "Prepared" => ~engine.open
        /\ journal = "Committed" => engine.mode \in {"DangerStrict", "RemoteStrict"}

(* Through every failure of start() and every order of shutdown: the        *)
(* control thread never calls a replicator that is gone, the threads are    *)
(* gone before the engine, and the recovery of the journal outlives the     *)
(* control loop and the shutdown (CounterRuntime::start, stop and both      *)
(* main functions).                                                         *)
LifecycleSafe == PublisherAlive /\ EngineOutlivesCallers /\ RecoveryHolds

(* A process that was told to stop, or whose start or listener failed, ends: *)
(* no join waits for a thread that nobody stopped.                          *)
ShutdownCompletes == (g_stop \/ main \in Unwinding) ~> (main = "exited")
=============================================================================
