------------------------------ MODULE MpmcQueue ------------------------------
(***************************************************************************)
(* The bounded lock-free queue of cpp/include/counter_poc/mpmc_queue.hpp,  *)
(* one step per access to shared memory.  Positions are natural numbers:   *)
(* a 64-bit position does not wrap in the life of a process.  The value of *)
(* a cell is written and read by plain accesses, which the acquire and     *)
(* release accesses of its sequence word have to keep apart.               *)
(***************************************************************************)
EXTENDS Integers, Sequences, FiniteSets

CONSTANTS Producers, Consumers,  \* threads that push and threads that pop
          Values,                \* the elements
          Capacity,              \* the number of cells
          None                   \* no element

(* The static_assert admits a capacity of 1, with which the sequence words  *)
(* cannot tell a full cell from a free one; the program uses 65536.         *)
ASSUME QueueAssumption == /\ Capacity \in Nat \ {0, 1}
                          /\ Producers \cap Consumers = {}
                          /\ None \notin Values

Threads == Producers \cup Consumers
Cells == 0..(Capacity - 1)

VARIABLES
    enqueue,   \* enqueue_
    dequeue,   \* dequeue_
    sequence,  \* cells_[i].sequence
    value,     \* cells_[i].value
    at,        \* per thread, the access it makes next
    pos,       \* per thread, its local pos
    item       \* per thread, what it pushes or has popped

queueVars == <<enqueue, dequeue, sequence, value, at, pos, item>>

(* The constructor *)
QueueInit ==
    /\ enqueue = 0 /\ dequeue = 0
    /\ sequence = [i \in Cells |-> i] /\ value = [i \in Cells |-> None]
    /\ at = [t \in Threads |-> "idle"] /\ pos = [t \in Threads |-> 0]
    /\ item = [t \in Threads |-> None]

CellOf(n) == n % Capacity
At(t, a) == at[t] = a
GoTo(t, a) == at' = [at EXCEPT ![t] = a]

-----------------------------------------------------------------------------
(* try_push(value)                                                         *)

TryPush(p, v) ==
    /\ At(p, "idle") /\ GoTo(p, "push_load")
    /\ item' = [item EXCEPT ![p] = v]
    /\ UNCHANGED <<enqueue, dequeue, sequence, value, pos>>

PushLoad(p) ==
    /\ At(p, "push_load") /\ GoTo(p, "push_check")
    /\ pos' = [pos EXCEPT ![p] = enqueue]
    /\ UNCHANGED <<enqueue, dequeue, sequence, value, item>>

(* dif: 0 for a free cell, negative for one not emptied yet, positive when  *)
(* another producer was faster.  A mutated form takes every cell that is    *)
(* not ahead for free.                                                      *)
PushDifNotAhead(p) == IF sequence[CellOf(pos[p])] > pos[p] THEN 1 ELSE 0
PushDif(p) == sequence[CellOf(pos[p])] - pos[p]

PushCheck(p) ==
    /\ At(p, "push_check")
    /\ \/ PushDif(p) = 0 /\ GoTo(p, "push_cas")
       \/ PushDif(p) < 0 /\ GoTo(p, "full")
       \/ PushDif(p) > 0 /\ GoTo(p, "push_load")
    /\ UNCHANGED <<enqueue, dequeue, sequence, value, pos, item>>

PushCas(p) ==
    /\ At(p, "push_cas") /\ enqueue = pos[p]
    /\ enqueue' = enqueue + 1 /\ GoTo(p, "push_write")
    /\ UNCHANGED <<dequeue, sequence, value, pos, item>>

(* compare_exchange_weak fails, perhaps spuriously, and reloads pos *)
PushCasFails(p) ==
    /\ At(p, "push_cas") /\ GoTo(p, "push_check")
    /\ pos' = [pos EXCEPT ![p] = enqueue]
    /\ UNCHANGED <<enqueue, dequeue, sequence, value, item>>

PushWrite(p) ==
    /\ At(p, "push_write") /\ GoTo(p, "push_publish")
    /\ value' = [value EXCEPT ![CellOf(pos[p])] = item[p]]
    /\ UNCHANGED <<enqueue, dequeue, sequence, pos, item>>

PushPublish(p) ==
    /\ At(p, "push_publish") /\ GoTo(p, "pushed")
    /\ sequence' = [sequence EXCEPT ![CellOf(pos[p])] = pos[p] + 1]
    /\ UNCHANGED <<enqueue, dequeue, value, pos, item>>

(* The caller has its answer; pos and value go out of scope *)
PushReturns(p) ==
    /\ at[p] \in {"pushed", "full"} /\ GoTo(p, "idle")
    /\ pos' = [pos EXCEPT ![p] = 0] /\ item' = [item EXCEPT ![p] = None]
    /\ UNCHANGED <<enqueue, dequeue, sequence, value>>

PushStep(p) == \/ PushLoad(p) \/ PushCheck(p) \/ PushCas(p) \/ PushCasFails(p)
               \/ PushWrite(p) \/ PushPublish(p)

-----------------------------------------------------------------------------
(* try_pop(value)                                                          *)

TryPop(c) ==
    /\ At(c, "idle") /\ GoTo(c, "pop_load")
    /\ UNCHANGED <<enqueue, dequeue, sequence, value, pos, item>>

PopLoad(c) ==
    /\ At(c, "pop_load") /\ GoTo(c, "pop_check")
    /\ pos' = [pos EXCEPT ![c] = dequeue]
    /\ UNCHANGED <<enqueue, dequeue, sequence, value, item>>

PopDif(c) == sequence[CellOf(pos[c])] - (pos[c] + 1)

PopCheck(c) ==
    /\ At(c, "pop_check")
    /\ \/ PopDif(c) = 0 /\ GoTo(c, "pop_cas")
       \/ PopDif(c) < 0 /\ GoTo(c, "empty")
       \/ PopDif(c) > 0 /\ GoTo(c, "pop_load")
    /\ UNCHANGED <<enqueue, dequeue, sequence, value, pos, item>>

PopCas(c) ==
    /\ At(c, "pop_cas") /\ dequeue = pos[c]
    /\ dequeue' = dequeue + 1 /\ GoTo(c, "pop_read")
    /\ UNCHANGED <<enqueue, sequence, value, pos, item>>

PopCasFails(c) ==
    /\ At(c, "pop_cas") /\ GoTo(c, "pop_check")
    /\ pos' = [pos EXCEPT ![c] = dequeue]
    /\ UNCHANGED <<enqueue, dequeue, sequence, value, item>>

PopRead(c) ==
    /\ At(c, "pop_read") /\ GoTo(c, "pop_release")
    /\ item' = [item EXCEPT ![c] = value[CellOf(pos[c])]]
    /\ UNCHANGED <<enqueue, dequeue, sequence, value, pos>>

(* The sequence word of the cell's next turn; a mutated form frees the cell *)
(* for the position after this one.                                         *)
NextPosition(n) == n + 1
NextTurn(n) == n + Capacity

PopRelease(c) ==
    /\ At(c, "pop_release") /\ GoTo(c, "popped")
    /\ sequence' = [sequence EXCEPT ![CellOf(pos[c])] = NextTurn(pos[c])]
    /\ UNCHANGED <<enqueue, dequeue, value, pos, item>>

PopReturns(c) ==
    /\ at[c] \in {"popped", "empty"} /\ GoTo(c, "idle")
    /\ pos' = [pos EXCEPT ![c] = 0]
    /\ UNCHANGED <<enqueue, dequeue, sequence, value, item>>

PopStep(c) == \/ PopLoad(c) \/ PopCheck(c) \/ PopCas(c) \/ PopCasFails(c)
              \/ PopRead(c) \/ PopRelease(c)

-----------------------------------------------------------------------------
(* Properties.                                                             *)

ProducerSteps == {"idle", "push_load", "push_check", "push_cas", "push_write",
                  "push_publish", "pushed", "full"}
ConsumerSteps == {"idle", "pop_load", "pop_check", "pop_cas", "pop_read",
                  "pop_release", "popped", "empty"}

QueueTypeOK ==
    /\ enqueue \in Nat /\ dequeue \in Nat
    /\ sequence \in [Cells -> Nat] /\ value \in [Cells -> Values \cup {None}]
    /\ at \in [Threads -> ProducerSteps \cup ConsumerSteps]
    /\ \A p \in Producers : at[p] \in ProducerSteps
    /\ \A c \in Consumers : at[c] \in ConsumerSteps
    /\ pos \in [Threads -> Nat] /\ item \in [Threads -> Values \cup {None}]

Writing == {p \in Producers : at[p] \in {"push_write", "push_publish"}}
Reading == {c \in Consumers : at[c] \in {"pop_read", "pop_release"}}

(* A plain access of a cell's value never meets another one *)
NoRace ==
    \A t \in Writing \cup Reading, u \in Writing \cup Reading :
        t # u => CellOf(pos[t]) # CellOf(pos[u])

(* The queue's elements: position n holds what its producer is writing, or  *)
(* what is in the cell.                                                     *)
ElementAt(n) ==
    IF \E p \in Producers : At(p, "push_write") /\ pos[p] = n
    THEN item[CHOOSE p \in Producers : At(p, "push_write") /\ pos[p] = n]
    ELSE value[CellOf(n)]

Elements == [i \in 1..(enqueue - dequeue) |-> ElementAt(dequeue + i - 1)]

Fifo == INSTANCE BoundedFifo WITH
    queue  <- Elements,
    taken  <- [c \in Consumers |->
                 IF At(c, "pop_read") THEN value[CellOf(pos[c])] ELSE item[c]],
    busy   <- Writing \cup Reading,
    failed <- {t \in Threads : at[t] \in {"full", "empty"}}

(* The lock-free queue is a bounded FIFO: whatever the interleaving of the  *)
(* compare-exchanges with the plain accesses of the cells, elements come    *)
(* out once, in the order of their positions, as they were pushed, and a    *)
(* push fails only at a full queue or while a consumer still reads.         *)
ImplementsFifo == Fifo!Spec
=============================================================================
