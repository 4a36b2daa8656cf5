----------------------------- MODULE Replication -----------------------------
(***************************************************************************)
(* ReliableUdpReplicator (cpp/src/replication.cpp) on a fixed set of       *)
(* nodes.  The engine's control thread publishes cumulative snapshots into *)
(* a bounded queue; one worker thread per node drains and coalesces the    *)
(* queue, sends a numbered frame to every peer, merges what it receives by *)
(* maximum, acknowledges it, and retries what is not acknowledged.         *)
(*                                                                         *)
(* A key is a (counter, epoch) pair.  A frame that was sent stays in msgs  *)
(* and may be delivered any number of times, in any order, or never.       *)
(***************************************************************************)
EXTENDS Integers, Sequences, SequencesExt, Sums

CONSTANTS
    N,                 \* the number of nodes; component ids are 0..N-1
    Publishers,        \* the nodes whose engine publishes
    Keys,              \* the (counter, epoch) pairs published under
    Values,            \* the snapshot values
    OutboundCapacity,  \* capacity of the outbound queue
    MaxPending,        \* config.max_pending
    MaxRetries,        \* config.max_retries
    AmountMax,         \* numeric_limits<Amount>::max()
    MaxPublishes,      \* bound: snapshots published in a behaviour
    MaxRestarts        \* bound: process restarts in a behaviour

Nodes == 0..(N - 1)

ASSUME NodesAssumption == N \in Nat \ {0} /\ Publishers \subseteq Nodes
ASSUME ValuesAssumption == Values \subseteq 1..AmountMax /\ AmountMax \in Nat
(* start() refuses max_pending = 0 *)
ASSUME LimitsAssumption == /\ MaxPending \in Nat \ {0} /\ OutboundCapacity \in Nat \ {0}
                           /\ MaxRetries \in Nat /\ MaxPublishes \in Nat
                           /\ MaxRestarts \in Nat

VARIABLES
    outbound,       \* per node, the queue of updates
    coalesced,      \* per node, the newest update of each key being drained
    pending,        \* per node, the sent and unacknowledged snapshots
    next_sequence,  \* per node
    components,     \* per node, the largest value seen of each component and key
    dropped,        \* per node, dropped_count > 0
    msgs,           \* every frame ever sent
    published,      \* history: per node and key, the largest value published
    publishes,      \* snapshots published so far
    restarts        \* restarts so far

queues == <<outbound, coalesced>>
sender == <<pending, next_sequence>>
bounds == <<publishes, restarts>>
vars == <<queues, sender, components, dropped, msgs, published, bounds>>

NothingSeen == [c \in Nodes |-> [k \in Keys |-> 0]]

Init ==
    /\ outbound = [n \in Nodes |-> <<>>]
    /\ coalesced = [n \in Nodes |-> {}]
    /\ pending = [n \in Nodes |-> {}]
    /\ next_sequence = [n \in Nodes |-> 1]
    /\ components = [n \in Nodes |-> NothingSeen]
    /\ dropped = [n \in Nodes |-> FALSE]
    /\ msgs = {}
    /\ published = [n \in Nodes |-> [k \in Keys |-> 0]]
    /\ publishes = 0 /\ restarts = 0

Larger(a, b) == IF a > b THEN a ELSE b

-----------------------------------------------------------------------------
(* publish(), on the engine's control thread: a full queue drops the update *)
Publish(n, k, v) ==
    /\ n \in Publishers /\ publishes < MaxPublishes
    /\ publishes' = publishes + 1
    /\ published' = [published EXCEPT ![n][k] = Larger(@, v)]
    /\ IF Len(outbound[n]) < OutboundCapacity
       THEN /\ outbound' = [outbound EXCEPT ![n] = Append(@, [key |-> k, value |-> v])]
            /\ UNCHANGED dropped
       ELSE /\ dropped' = [dropped EXCEPT ![n] = TRUE]
            /\ UNCHANGED outbound
    /\ UNCHANGED <<coalesced, sender, components, msgs, restarts>>

-----------------------------------------------------------------------------
(* drain_outbound(), on the worker thread.  The queue is popped until it is *)
(* found empty; publish() may push in between.                              *)

(* Keep the larger of two updates of a key; a mutated form keeps the older  *)
(* one.                                                                     *)
CoalesceFirst(updates, u) ==
    IF \E w \in updates : w.key = u.key THEN updates ELSE updates \cup {u}
Coalesce(updates, u) ==
    IF \E w \in updates : w.key = u.key /\ w.value >= u.value THEN updates
    ELSE {w \in updates : w.key # u.key} \cup {u}

PopOutbound(n) ==
    /\ outbound[n] # <<>>
    /\ coalesced' = [coalesced EXCEPT ![n] = Coalesce(@, Head(outbound[n]))]
    /\ outbound' = [outbound EXCEPT ![n] = Tail(@)]
    /\ UNCHANGED <<sender, components, dropped, msgs, published, bounds>>

Snapshot(n, p) == [type |-> "Snapshot", from |-> n, to |-> p.peer, seq |-> p.seq,
                   key |-> p.key, value |-> p.value]

(* The peers in the order of the configuration *)
PeersOf(n) == [i \in 1..(N - 1) |-> IF i - 1 < n THEN i - 1 ELSE i]

(* The frames of one drain: for every key, in the map's order, every peer *)
Entries(n, order) ==
    [i \in 1..(Len(order) * (N - 1)) |->
        [seq |-> next_sequence[n] + i - 1, attempts |-> 0,
         peer |-> PeersOf(n)[((i - 1) % (N - 1)) + 1],
         key |-> order[((i - 1) \div (N - 1)) + 1].key,
         value |-> order[((i - 1) \div (N - 1)) + 1].value]]

(* What does not fit under max_pending is dropped *)
SendCoalesced(n) ==
    /\ outbound[n] = <<>> /\ coalesced[n] # {}
    /\ \E order \in SetToSeqs(coalesced[n]) :
          LET entries == Entries(n, order)
              room    == MaxPending - Cardinality(pending[n])
              sent    == {entries[i] : i \in 1..(IF room < Len(entries) THEN room
                                                 ELSE Len(entries))}
          IN  /\ pending' = [pending EXCEPT ![n] = @ \cup sent]
              /\ next_sequence' = [next_sequence EXCEPT ![n] = @ + Cardinality(sent)]
              /\ msgs' = msgs \cup {Snapshot(n, p) : p \in sent}
              /\ dropped' = [dropped EXCEPT ![n] = @ \/ room < Len(entries)]
    /\ coalesced' = [coalesced EXCEPT ![n] = {}]
    /\ UNCHANGED <<outbound, components, published, bounds>>

-----------------------------------------------------------------------------
(* receive_all() and retry_expired(): the worker is not in drain_outbound() *)
Drained(n) == coalesced[n] = {}

(* observed = max(observed, value); mutated forms add the snapshot up, or   *)
(* take the one that arrived last.                                          *)
AddUp(observed, value) == observed + value
Overwrite(observed, value) == value
Merge(observed, value) == Larger(observed, value)

ReceiveSnapshot(n, f) ==
    /\ Drained(n)
    /\ f \in msgs /\ f.to = n /\ f.type = "Snapshot"
    /\ components' = [components EXCEPT ![n][f.from][f.key] = Merge(@, f.value)]
    /\ msgs' = msgs \cup {[type |-> "Ack", from |-> n, to |-> f.from, seq |-> f.seq]}
    /\ UNCHANGED <<queues, sender, dropped, published, bounds>>

(* The entries an acknowledgement erases: its sequence number, and sent to  *)
(* the address it comes from.  A mutated form looks at the address only.    *)
AckedPeer(n, f) == {p \in pending[n] : p.peer = f.from}
Acked(n, f) == {p \in pending[n] : p.seq = f.seq /\ p.peer = f.from}

ReceiveAck(n, f) ==
    /\ Drained(n)
    /\ f \in msgs /\ f.to = n /\ f.type = "Ack"
    /\ Acked(n, f) # {}
    /\ pending' = [pending EXCEPT ![n] = @ \ Acked(n, f)]
    /\ UNCHANGED <<queues, next_sequence, components, dropped, msgs, published, bounds>>

(* An entry whose retry_at has passed is sent again or, after max_retries,  *)
(* dropped.  A mutated form of ++attempts starts the count afresh.          *)
Afresh(p) == [p EXCEPT !.attempts = 0]
Retried(p) == [p EXCEPT !.attempts = @ + 1]

RetryExpired(n, p) ==
    /\ Drained(n)
    /\ p \in pending[n]
    /\ \/ /\ p.attempts >= MaxRetries
          /\ pending' = [pending EXCEPT ![n] = @ \ {p}]
          /\ dropped' = [dropped EXCEPT ![n] = TRUE]
          /\ UNCHANGED msgs
       \/ /\ p.attempts < MaxRetries
          /\ pending' = [pending EXCEPT ![n] = (@ \ {p}) \cup {Retried(p)}]
          /\ msgs' = msgs \cup {Snapshot(n, p)}
          /\ UNCHANGED dropped
    /\ UNCHANGED <<queues, next_sequence, components, published, bounds>>

(* The process ends and a new one start()s on the same address: the         *)
(* replicator object is new and its sequence numbers begin at 1 again.      *)
Restart(n) ==
    /\ restarts < MaxRestarts
    /\ restarts' = restarts + 1
    /\ outbound' = [outbound EXCEPT ![n] = <<>>]
    /\ coalesced' = [coalesced EXCEPT ![n] = {}]
    /\ pending' = [pending EXCEPT ![n] = {}]
    /\ next_sequence' = [next_sequence EXCEPT ![n] = 1]
    /\ components' = [components EXCEPT ![n] = NothingSeen]
    /\ dropped' = [dropped EXCEPT ![n] = FALSE]
    /\ UNCHANGED <<msgs, published, publishes>>

-----------------------------------------------------------------------------
Worker(n) ==
    \/ PopOutbound(n) \/ SendCoalesced(n)
    \/ \E f \in msgs : ReceiveSnapshot(n, f) \/ ReceiveAck(n, f)
    \/ \E p \in pending[n] : RetryExpired(n, p)

Next ==
    \E n \in Nodes :
        \/ \E k \in Keys, v \in Values : Publish(n, k, v)
        \/ Worker(n)
        \/ Restart(n)

Spec == Init /\ [][Next]_vars

(* The worker keeps running, and time passes.  The network owes nothing to  *)
(* a frame that is sent finitely often; delivery is fair only while the     *)
(* sender keeps the frame pending.                                          *)
Fairness ==
    \A n \in Nodes :
        /\ WF_vars(PopOutbound(n)) /\ WF_vars(SendCoalesced(n))
        /\ WF_vars(\E p \in pending[n] : RetryExpired(n, p))
        /\ WF_vars(\E m \in Nodes : \E p \in pending[m] :
                       p.peer = n /\ ReceiveSnapshot(n, Snapshot(m, p)))

FairSpec == Spec /\ Fairness

-----------------------------------------------------------------------------
(* merged_total(): the sum of the components seen under a key, saturating *)
MergedTotal(n, k) ==
    LET sum == SumTo([c \in Nodes |-> components[n][c][k]], N)
    IN  IF sum > AmountMax THEN AmountMax ELSE sum

(* Properties.                                                             *)

Entry == [seq : Nat, attempts : 0..MaxRetries, peer : Nodes, key : Keys, value : Values]

(* The values the variables may take; sequence numbers in use are unique    *)
(* and below next_sequence, and max_pending bounds the unacknowledged work. *)
TypeOK ==
    /\ \A n \in Nodes :
          /\ Len(outbound[n]) <= OutboundCapacity
          /\ pending[n] \subseteq Entry
          /\ Cardinality(pending[n]) <= MaxPending
          /\ \A p, q \in pending[n] : p.seq = q.seq => p = q
          /\ \A p \in pending[n] : p.seq < next_sequence[n] /\ p.peer # n
          /\ \A u, w \in coalesced[n] : u.key = w.key => u = w
    /\ components \in [Nodes -> [Nodes -> [Keys -> {0} \cup Values]]]
    /\ dropped \in [Nodes -> BOOLEAN]

(* While no process restarts, nothing is lost silently: every published     *)
(* snapshot has reached each peer (itself or a larger one), is still on its *)
(* way, or was counted as dropped.  In particular an acknowledgement erases *)
(* an entry only after that peer has merged it.                             *)
OnItsWay(n, m, k, v) ==
    \/ \E u \in Range(outbound[n]) \cup coalesced[n] : u.key = k /\ u.value >= v
    \/ \E p \in pending[n] : p.peer = m /\ p.key = k /\ p.value >= v
NoSilentLoss ==
    \A n \in Publishers, m \in Nodes, k \in Keys :
        \/ m = n \/ dropped[n] \/ restarts > 0
        \/ components[m][n][k] >= published[n][k]
        \/ OnItsWay(n, m, k, published[n][k])

(* "a retry, duplicate, or reordering cannot make the receiver count a      *)
(* component twice": a merged total never exceeds what was published.       *)
NeverCountedTwice ==
    \A n \in Nodes, k \in Keys :
        MergedTotal(n, k) <= SumTo([c \in Nodes |-> published[c][k]], N)

(* A replica never goes back while its process lives, whatever the order    *)
(* in which old and new snapshots arrive.                                   *)
ReplicaMonotone ==
    [][\A n, c \in Nodes, k \in Keys :
          restarts' = restarts => components'[n][c][k] >= components[n][c][k]]_components

(* ACKs and max_retries bound the retry work: once nothing more is          *)
(* published no entry stays pending, even if no acknowledgement arrives.    *)
RetryWorkEnds == \A n \in Publishers : <>[](pending[n] = {})

(* Once nothing more is published, and while no process restarts, every     *)
(* peer has caught up with the component or the loss was counted.           *)
CaughtUp(n) ==
    \A m \in Nodes \ {n}, k \in Keys : components[m][n][k] >= published[n][k]
SettlesOrDrops ==
    \A n \in Publishers : <>[](CaughtUp(n) \/ dropped[n] \/ restarts > 0)
=============================================================================
