----------------------------- MODULE BoundedFifo -----------------------------
(***************************************************************************)
(* What MpmcQueue (cpp/include/counter_poc/mpmc_queue.hpp) promises its    *)
(* callers: a bounded first-in first-out queue.  A thread that took a      *)
(* place in the queue is busy until it has filled or emptied its cell, and *)
(* while somebody on the other side is busy try_push may report a full and *)
(* try_pop an empty queue although there is room or an element.            *)
(***************************************************************************)
EXTENDS Naturals, Sequences

CONSTANTS Producers, Consumers,  \* the threads
          Values,                \* what is stored
          Capacity,              \* the number of cells
          None                   \* an element that was not popped yet

VARIABLES queue,   \* the elements, oldest first
          taken,   \* per consumer, the last element it popped
          busy,    \* threads that have not finished with their cell
          failed   \* threads whose last attempt found the queue full or empty

fifo == <<queue, taken, busy, failed>>

Init == /\ queue = <<>> /\ taken = [c \in Consumers |-> None]
        /\ busy = {} /\ failed = {}

Push(p, v) ==
    /\ p \notin busy /\ Len(queue) < Capacity
    /\ queue' = Append(queue, v) /\ busy' = busy \cup {p}
    /\ UNCHANGED <<taken, failed>>

Pop(c) ==
    /\ c \notin busy /\ queue # <<>>
    /\ queue' = Tail(queue) /\ taken' = [taken EXCEPT ![c] = Head(queue)]
    /\ busy' = busy \cup {c}
    /\ UNCHANGED failed

Finish(t) == t \in busy /\ busy' = busy \ {t} /\ UNCHANGED <<queue, taken, failed>>

(* try_push returns false *)
Full(p) ==
    /\ p \notin busy
    /\ Len(queue) = Capacity \/ busy \cap Consumers # {}
    /\ failed' = failed \cup {p}
    /\ UNCHANGED <<queue, taken, busy>>

(* try_pop returns false *)
Empty(c) ==
    /\ c \notin busy
    /\ queue = <<>> \/ busy \cap Producers # {}
    /\ failed' = failed \cup {c}
    /\ UNCHANGED <<queue, taken, busy>>

Forget(t) == t \in failed /\ failed' = failed \ {t} /\ UNCHANGED <<queue, taken, busy>>

Next == \/ \E p \in Producers : Full(p) \/ \E v \in Values : Push(p, v)
        \/ \E c \in Consumers : Empty(c) \/ Pop(c)
        \/ \E t \in Producers \cup Consumers : Finish(t) \/ Forget(t)

Spec == Init /\ [][Next]_fifo
=============================================================================
