---------------------------- MODULE HotKeyDetector ----------------------------
(***************************************************************************)
(* The hot-key detector (cpp/src/hotkey_detector.cpp) on its MpmcQueue:    *)
(* data-plane threads record() the counters they were asked for, a worker  *)
(* counts them in windows and calls on_hot, and start() and stop() may     *)
(* alternate.  The engine's callback (CounterEngine!OnHot) is the flag     *)
(* peak_requested.  Time stamps are never read and are left out.           *)
(***************************************************************************)
EXTENDS MpmcQueue, Sums

CONSTANTS HotThreshold,  \* threshold_tps_
          worker_,       \* the worker thread: the only consumer
          Recorders,     \* data-plane threads, numbered from 0
          CounterIds,    \* the number of counters; ids are 0..CounterIds-1
          MaxRecords,    \* bound: calls of record() in a behaviour
          MaxStarts      \* bound: calls of start() in a behaviour

ASSUME DetectorAssumption ==
    /\ HotThreshold \in Nat /\ MaxRecords \in Nat /\ MaxStarts \in Nat
    /\ Recorders \in Nat /\ CounterIds \in Nat
    /\ Producers = 0..(Recorders - 1) /\ Values = 0..(CounterIds - 1)
    /\ Consumers = {worker_}

VARIABLES
    worker,          \* where run() is: "none", "check", "drain" or "exited"
    stop_,           \* stop_
    stopping,        \* stop() has not returned
    counts,          \* run()'s local map
    dropped,         \* dropped_
    peak_requested,  \* set by the callback
    records, starts, \* calls so far
    recorded,        \* history: per counter, calls of record() that returned true
    evaluated        \* history: per counter, samples in windows that were evaluated

detectorVars == <<worker, stop_, stopping, counts, dropped, peak_requested,
                  records, starts, recorded, evaluated>>
vars == <<queueVars, detectorVars>>

NoCounts == [k \in Values |-> 0]

Init ==
    /\ QueueInit
    /\ worker = "none" /\ stop_ = FALSE /\ stopping = FALSE
    /\ counts = NoCounts /\ dropped = 0 /\ peak_requested = FALSE
    /\ records = 0 /\ starts = 0 /\ recorded = NoCounts /\ evaluated = NoCounts

-----------------------------------------------------------------------------
(* record(): a full queue drops the sample instead of blocking.            *)

Record(p, k) ==
    /\ records < MaxRecords /\ TryPush(p, k)
    /\ records' = records + 1
    /\ UNCHANGED <<worker, stop_, stopping, counts, dropped, peak_requested,
                   starts, recorded, evaluated>>

Recorded(p) ==
    /\ At(p, "pushed") /\ PushReturns(p)
    /\ recorded' = [recorded EXCEPT ![item[p]] = @ + 1]
    /\ UNCHANGED <<worker, stop_, stopping, counts, dropped, peak_requested,
                   records, starts, evaluated>>

Dropped(p) ==
    /\ At(p, "full") /\ PushReturns(p)
    /\ dropped' = dropped + 1
    /\ UNCHANGED <<worker, stop_, stopping, counts, peak_requested, records,
                   starts, recorded, evaluated>>

-----------------------------------------------------------------------------
(* start() and stop(), called by the engine's control-plane calls          *)

Start ==
    /\ worker = "none" /\ starts < MaxStarts
    /\ stop_' = FALSE /\ worker' = "check" /\ starts' = starts + 1
    /\ UNCHANGED <<queueVars, stopping, counts, dropped, peak_requested,
                   records, recorded, evaluated>>

Stop ==
    /\ worker # "none" /\ ~stopping
    /\ stop_' = TRUE /\ stopping' = TRUE
    /\ UNCHANGED <<queueVars, worker, counts, dropped, peak_requested, records,
                   starts, recorded, evaluated>>

Join ==
    /\ stopping /\ worker = "exited"
    /\ worker' = "none" /\ stopping' = FALSE
    /\ UNCHANGED <<queueVars, stop_, counts, dropped, peak_requested, records,
                   starts, recorded, evaluated>>

-----------------------------------------------------------------------------
(* run()                                                                   *)

(* The head of the loop; a mutated form never looks at stop_ *)
CheckNothing == worker' = "drain"
CheckStop == worker' = IF stop_ THEN "exited" ELSE "drain"

Check ==
    /\ worker = "check" /\ CheckStop
    /\ UNCHANGED <<queueVars, stop_, stopping, counts, dropped, peak_requested,
                   records, starts, recorded, evaluated>>

Drain == worker = "drain" /\ TryPop(worker_) /\ UNCHANGED detectorVars

CountSample ==
    /\ At(worker_, "popped") /\ PopReturns(worker_)
    /\ counts' = [counts EXCEPT ![item[worker_]] = @ + 1]
    /\ UNCHANGED <<worker, stop_, stopping, dropped, peak_requested, records,
                   starts, recorded, evaluated>>

(* A window of 100 ms: a tenth of the threshold, in whole samples *)
Hot(k) == counts[k] > 0 /\ counts[k] >= HotThreshold \div 10

(* The queue looked empty: the window is evaluated and cleared.  A mutated  *)
(* form leaves the counts for the next window.                              *)
CountsKept == counts
CountsCleared == NoCounts

Evaluate ==
    /\ At(worker_, "empty") /\ PopReturns(worker_)
    /\ peak_requested' = (peak_requested \/ \E k \in Values : Hot(k))
    /\ evaluated' = [k \in Values |-> evaluated[k] + counts[k]]
    /\ counts' = CountsCleared /\ worker' = "check"
    /\ UNCHANGED <<stop_, stopping, dropped, records, starts, recorded>>

-----------------------------------------------------------------------------
ProducerStep(p) == (PushStep(p) /\ UNCHANGED detectorVars) \/ Recorded(p) \/ Dropped(p)
WorkerStep == \/ PopStep(worker_) /\ UNCHANGED detectorVars
              \/ Check \/ Drain \/ CountSample \/ Evaluate

Next == \/ \E p \in Producers : ProducerStep(p) \/ \E k \in Values : Record(p, k)
        \/ WorkerStep
        \/ Start \/ Stop \/ Join

(* Threads that run go on; nobody has to record, start or stop.  A weak     *)
(* compare-exchange may fail spuriously, but not for ever.                  *)
Fairness ==
    /\ \A p \in Producers : /\ WF_vars(ProducerStep(p))
                            /\ SF_vars(PushCas(p) /\ UNCHANGED detectorVars)
    /\ WF_vars(WorkerStep) /\ SF_vars(PopCas(worker_) /\ UNCHANGED detectorVars)
    /\ WF_vars(Join)

Spec == Init /\ [][Next]_vars /\ Fairness

-----------------------------------------------------------------------------
(* Properties.                                                             *)

(* The values of the variables; the worker uses the queue only inside its   *)
(* drain loop and enters a window with empty counts.                        *)
TypeOK ==
    /\ QueueTypeOK
    /\ worker \in {"none", "check", "drain", "exited"}
    /\ stop_ \in BOOLEAN /\ stopping \in BOOLEAN /\ peak_requested \in BOOLEAN
    /\ counts \in [Values -> Nat] /\ recorded \in [Values -> Nat]
    /\ evaluated \in [Values -> Nat]
    /\ dropped \in Nat /\ records \in Nat /\ starts \in Nat
    /\ worker # "drain" => At(worker_, "idle") /\ counts = NoCounts

(* Where the samples of counter k are *)
Claimed(k) == Cardinality({p \in Producers :
                  at[p] \in {"push_write", "push_publish", "pushed"} /\ item[p] = k})
Queued(k) == Cardinality({i \in DOMAIN Elements : Elements[i] = k})
InHand(k) == IF \/ At(worker_, "pop_read") /\ value[CellOf(pos[worker_])] = k
                \/ at[worker_] \in {"pop_release", "popped"} /\ item[worker_] = k
             THEN 1 ELSE 0

(* No sample is lost, counted twice or counted for another counter: what    *)
(* record() accepted is in the queue, in the worker's hands, in the open    *)
(* window or in an evaluated one, across stop() and start(); what it did    *)
(* not accept is in dropped_samples().                                      *)
SamplesAccounted ==
    /\ \A k \in Values :
          recorded[k] + Claimed(k) = Queued(k) + InHand(k) + counts[k] + evaluated[k]
    /\ records = SumTo(recorded, CounterIds) + dropped
                 + Cardinality({p \in Producers : ~At(p, "idle")})

(* stop() returns and every sample recorded before gets into a window: the  *)
(* drain loop ends once the recorders pause (here after MaxRecords calls).  *)
StopReturns ==
    /\ stopping ~> ~stopping
    /\ (worker = "drain" /\ Elements # <<>>) ~> (Elements = <<>> \/ worker = "check")
=============================================================================
