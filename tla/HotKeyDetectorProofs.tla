------------------------ MODULE HotKeyDetectorProofs ------------------------
(***************************************************************************)
(* Proofs about the lock-free queue and the detector on it, for any number *)
(* of recording threads, counters and cells and any number of samples:     *)
(* type correctness, the absence of races on the cells, and that the queue *)
(* is a bounded FIFO.  The lemmas about the queue allow several consumers; *)
(* the detector has one.                                                   *)
(***************************************************************************)
EXTENDS HotKeyDetector, FiniteSetTheorems, SequenceTheorems, SumsProofs

-----------------------------------------------------------------------------
(* Positions and cells.                                                    *)

(* A number has one quotient and one remainder. *)
LEMMA DivisionUnique ==
  ASSUME NEW c \in Nat \ {0}, NEW q \in Int, NEW s \in Int,
         NEW a \in 0..(c - 1), NEW b \in 0..(c - 1), c * q + a = c * s + b
  PROVE  q = s /\ a = b
  <1>1. c * (q - s) = b - a
    OBVIOUS
  <1>2. ASSUME q - s >= 1 PROVE FALSE
    <2>1. c * (q - s) >= c
      BY <1>2
    <2> QED
      BY <1>1, <2>1
  <1>3. ASSUME q - s <= -1 PROVE FALSE
    <2>1. c * (q - s) <= -c
      BY <1>3
    <2> QED
      BY <1>1, <2>1
  <1>4. q = s
    BY <1>2, <1>3
  <1> QED
    BY <1>4

(* A position and its cell *)
LEMMA CellOfPosition ==
  ASSUME NEW n \in Nat
  PROVE  /\ CellOf(n) \in Cells
         /\ \E q \in Nat : n = Capacity * q + CellOf(n)
  <1>1. /\ CellOf(n) \in Cells /\ n \div Capacity \in Nat
        /\ n = Capacity * (n \div Capacity) + CellOf(n)
    BY QueueAssumption DEF CellOf, Cells
  <1> QED
    BY <1>1

(* Two positions of one cell are a multiple of the capacity apart. *)
LEMMA SameCell ==
  ASSUME NEW m \in Nat, NEW n \in Nat, CellOf(m) = CellOf(n), m < n
  PROVE  m + Capacity <= n
  <1>0. CellOf(m) \in Nat /\ Capacity \in Nat \ {0}
    BY CellOfPosition, QueueAssumption DEF Cells
  <1>1. PICK a \in Nat : m = Capacity * a + CellOf(m)
    BY CellOfPosition
  <1>2. PICK b \in Nat : n = Capacity * b + CellOf(m)
    BY CellOfPosition
  <1>3. Capacity * a \in Nat /\ Capacity * b \in Nat
    BY <1>0
  <1>4. Capacity * a < Capacity * b
    BY <1>0, <1>1, <1>2, <1>3
  <1>5. ASSUME b <= a PROVE FALSE
    <2>1. Capacity * b <= Capacity * a
      BY <1>0, <1>5
    <2> QED
      BY <1>3, <1>4, <2>1
  <1>6. a + 1 <= b
    BY <1>5
  <1>7. Capacity * (a + 1) <= Capacity * b
    BY <1>0, <1>6
  <1>8. Capacity * (a + 1) = Capacity * a + Capacity
    BY <1>0
  <1> QED
    BY <1>0, <1>1, <1>2, <1>3, <1>7, <1>8

(* The cell's next turn *)
LEMMA NextTurnCell ==
  ASSUME NEW n \in Nat
  PROVE  CellOf(n + Capacity) = CellOf(n)
  <1>0. Capacity \in Nat \ {0} /\ n + Capacity \in Nat
        /\ CellOf(n) \in 0..(Capacity - 1) /\ CellOf(n + Capacity) \in 0..(Capacity - 1)
    BY CellOfPosition, QueueAssumption DEF Cells
  <1>1. PICK a \in Nat : n = Capacity * a + CellOf(n)
    BY CellOfPosition
  <1>2. PICK b \in Nat : n + Capacity = Capacity * b + CellOf(n + Capacity)
    BY <1>0, CellOfPosition
  <1>3. PICK d \in Nat : d = a + 1
    OBVIOUS
  <1>4. Capacity * d = Capacity * a + Capacity
    BY <1>0, <1>3
  <1>5. Capacity * d + CellOf(n) = Capacity * b + CellOf(n + Capacity)
    BY <1>0, <1>1, <1>2, <1>4
  <1>6. d \in Int /\ b \in Int
    OBVIOUS
  <1> QED
    BY <1>0, <1>5, <1>6, DivisionUnique, Zenon

-----------------------------------------------------------------------------
(* The queue.                                                              *)

(* Elements are between dequeue and enqueue, at most one turn apart. *)
Window == dequeue <= enqueue /\ enqueue <= dequeue + Capacity

(* Who has claimed a position and not finished with its cell *)
WriterOf(n) == \E p \in Writing : pos[p] = n
ReaderOf(n) == \E c \in Reading : pos[c] = n

WritersOK ==
    /\ \A p \in Writing : /\ dequeue <= pos[p] /\ pos[p] < enqueue
                          /\ sequence[CellOf(pos[p])] = pos[p]
    /\ \A p \in Writing, q \in Writing : p # q => pos[p] # pos[q]
ReadersOK ==
    /\ \A c \in Reading : /\ pos[c] < dequeue /\ enqueue <= pos[c] + Capacity
                          /\ sequence[CellOf(pos[c])] = pos[c] + 1
    /\ \A c \in Reading, d \in Reading : c # d => pos[c] # pos[d]

(* The sequence word of a claimed and of a free position, and of old ones *)
SequenceOK ==
    /\ \A n \in dequeue..(enqueue - 1) : sequence[CellOf(n)] = n + 1 \/ WriterOf(n)
    /\ \A n \in enqueue..(dequeue + Capacity - 1) :
          sequence[CellOf(n)] = n \/ (n >= Capacity /\ ReaderOf(n - Capacity))
    /\ \A n \in 0..(enqueue - 1) : sequence[CellOf(n)] >= n
    /\ \A n \in 0..(dequeue - 1) : sequence[CellOf(n)] >= n + 1

(* A thread before its compare-exchange: what it has seen still holds if   *)
(* the position it works on is still the next one.                         *)
AttemptsOK ==
    /\ \A p \in Producers : at[p] \in {"push_check", "push_cas"} =>
          /\ pos[p] <= enqueue
          /\ At(p, "push_cas") /\ pos[p] = enqueue => sequence[CellOf(pos[p])] = pos[p]
    /\ \A c \in Consumers : at[c] \in {"pop_check", "pop_cas"} =>
          /\ pos[c] <= dequeue
          /\ At(c, "pop_cas") /\ pos[c] = dequeue => sequence[CellOf(pos[c])] = pos[c] + 1

(* What is in the cells and in the threads' hands are elements *)
ValuesOK ==
    /\ \A p \in Producers : ~At(p, "idle") => item[p] \in Values
    /\ \A p \in Producers : At(p, "push_publish") => value[CellOf(pos[p])] = item[p]
    /\ \A n \in dequeue..(enqueue - 1) : ~WriterOf(n) => value[CellOf(n)] \in Values
    /\ \A c \in Consumers : /\ At(c, "pop_read") => value[CellOf(pos[c])] \in Values
                            /\ at[c] \in {"pop_release", "popped"} => item[c] \in Values

QueueInv == QueueTypeOK /\ Window /\ WritersOK /\ ReadersOK /\ SequenceOK /\ AttemptsOK
            /\ ValuesOK

(* The queue starts empty, with every cell free for its first turn. *)
LEMMA QueueInitInv == QueueInit => QueueInv
  <1> SUFFICES ASSUME QueueInit PROVE QueueInv
    OBVIOUS
  <1>0. Capacity \in Nat \ {0, 1}
    BY QueueAssumption
  <1>1. QueueTypeOK
    BY <1>0 DEF QueueInit, QueueTypeOK, Cells, Threads, ProducerSteps, ConsumerSteps
  <1>2. Window /\ WritersOK /\ ReadersOK /\ AttemptsOK /\ ValuesOK
    BY <1>0 DEF QueueInit, Window, WritersOK, ReadersOK, AttemptsOK, ValuesOK, Writing,
       Reading, Threads, At
  <1>3. \A n \in 0..(Capacity - 1) : CellOf(n) = n
    BY <1>0 DEF CellOf
  <1>4. SequenceOK
    BY <1>0, <1>3 DEF QueueInit, SequenceOK, Cells
  <1> QED
    BY <1>1, <1>2, <1>4 DEF QueueInv

(* A thread that holds no position moves on: the cells are untouched. *)
LEMMA QuietFrame ==
  ASSUME QueueInv, NEW t \in Threads, UNCHANGED <<enqueue, dequeue, sequence, value>>,
         \A u \in Threads \ {t} : at'[u] = at[u] /\ pos'[u] = pos[u] /\ item'[u] = item[u],
         t \notin Writing \cup Reading, t \notin Writing' \cup Reading'
  PROVE  /\ Writing' = Writing /\ Reading' = Reading
         /\ Window' /\ WritersOK' /\ ReadersOK' /\ SequenceOK'
  <1>1. Writing' = Writing /\ Reading' = Reading
    BY DEF Writing, Reading, Threads
  <1>2. \A u \in Writing \cup Reading : u \in Threads \ {t} /\ pos'[u] = pos[u]
    BY DEF Writing, Reading, Threads
  <1>3. WritersOK' /\ ReadersOK'
    BY <1>1, <1>2 DEF QueueInv, WritersOK, ReadersOK
  <1>4. SequenceOK'
    BY <1>1, <1>2 DEF QueueInv, SequenceOK, WriterOf, ReaderOf
  <1>5. Window'
    BY DEF QueueInv, Window
  <1> QED
    BY <1>1, <1>3, <1>4, <1>5

(* The steps of try_push() that hold no position. *)
LEMMA QuietPush ==
  ASSUME QueueInv, NEW p \in Producers,
         \/ PushLoad(p) \/ PushCheck(p) \/ PushCasFails(p) \/ PushReturns(p)
         \/ \E v \in Values : TryPush(p, v)
  PROVE  QueueInv'
  <1> USE DEF At, GoTo
  <1>0. /\ p \in Threads /\ p \notin Consumers
        /\ at \in [Threads -> ProducerSteps \cup ConsumerSteps]
        /\ pos \in [Threads -> Nat] /\ item \in [Threads -> Values \cup {None}]
        /\ enqueue \in Nat /\ dequeue \in Nat /\ sequence \in [Cells -> Nat]
    BY QueueAssumption DEF QueueInv, QueueTypeOK, Threads
  <1>1. /\ UNCHANGED <<enqueue, dequeue, sequence, value>>
        /\ \A u \in Threads \ {p} : at'[u] = at[u] /\ pos'[u] = pos[u] /\ item'[u] = item[u]
    BY <1>0 DEF PushLoad, PushCheck, PushCasFails, PushReturns, TryPush
  <1>2. /\ at[p] \notin {"push_write", "push_publish"}
        /\ at'[p] \in {"idle", "push_load", "push_check", "push_cas", "full"}
    BY <1>0 DEF PushLoad, PushCheck, PushCasFails, PushReturns, TryPush
  <1>3. /\ Writing' = Writing /\ Reading' = Reading
        /\ Window' /\ WritersOK' /\ ReadersOK' /\ SequenceOK'
    BY <1>0, <1>1, <1>2, QuietFrame DEF Writing, Reading
  <1>4. QueueTypeOK'
    BY <1>0, <1>2 DEF QueueInv, QueueTypeOK, ProducerSteps, Threads, PushLoad, PushCheck,
       PushCasFails, PushReturns, TryPush
  <1>5. /\ at'[p] \in {"push_check", "push_cas"} => pos'[p] <= enqueue
        /\ at'[p] = "push_cas" => sequence[CellOf(pos'[p])] = pos'[p]
    <2>1. CASE PushCheck(p)
      <3>1. pos' = pos /\ pos[p] \in Nat /\ at[p] = "push_check"
        BY <1>0, <2>1 DEF PushCheck
      <3>2. CellOf(pos[p]) \in Cells
        BY <3>1, CellOfPosition
      <3>3. at'[p] = "push_cas" => sequence[CellOf(pos[p])] = pos[p]
        BY <1>0, <2>1, <3>1, <3>2 DEF PushCheck, PushDif
      <3> QED
        BY <3>1, <3>3 DEF QueueInv, AttemptsOK
    <2>2. CASE ~PushCheck(p)
      BY <1>0, <2>2 DEF PushLoad, PushCasFails, PushReturns, TryPush
    <2> QED
      BY <2>1, <2>2
  <1>6. AttemptsOK'
    BY <1>0, <1>1, <1>5 DEF QueueInv, AttemptsOK, Threads
  <1>7. at'[p] # "idle" => item'[p] \in Values
    BY <1>0 DEF QueueInv, ValuesOK, PushLoad, PushCheck, PushCasFails, PushReturns, TryPush
  <1>8. \A u \in Writing : pos'[u] = pos[u]
    BY <1>1, <1>2 DEF Writing, Threads
  <1>9. \A n \in dequeue..(enqueue - 1) : WriterOf(n)' <=> WriterOf(n)
    BY <1>3, <1>8 DEF WriterOf
  <1>10. ValuesOK'
    BY <1>0, <1>1, <1>2, <1>7, <1>9 DEF QueueInv, ValuesOK, Threads
  <1> QED
    BY <1>3, <1>4, <1>6, <1>10 DEF QueueInv

(* The steps of try_pop() that hold no position. *)
LEMMA QuietPop ==
  ASSUME QueueInv, NEW c \in Consumers,
         PopLoad(c) \/ PopCheck(c) \/ PopCasFails(c) \/ PopReturns(c) \/ TryPop(c)
  PROVE  QueueInv'
  <1> USE DEF At, GoTo
  <1>0. /\ c \in Threads /\ c \notin Producers
        /\ at \in [Threads -> ProducerSteps \cup ConsumerSteps]
        /\ pos \in [Threads -> Nat] /\ item \in [Threads -> Values \cup {None}]
        /\ enqueue \in Nat /\ dequeue \in Nat /\ sequence \in [Cells -> Nat]
    BY QueueAssumption DEF QueueInv, QueueTypeOK, Threads
  <1>1. /\ UNCHANGED <<enqueue, dequeue, sequence, value, item>>
        /\ \A u \in Threads \ {c} : at'[u] = at[u] /\ pos'[u] = pos[u]
    BY <1>0 DEF PopLoad, PopCheck, PopCasFails, PopReturns, TryPop
  <1>2. /\ at[c] \notin {"pop_read", "pop_release"}
        /\ at'[c] \in {"idle", "pop_load", "pop_check", "pop_cas", "empty"}
    BY <1>0 DEF PopLoad, PopCheck, PopCasFails, PopReturns, TryPop
  <1>3. /\ Writing' = Writing /\ Reading' = Reading
        /\ Window' /\ WritersOK' /\ ReadersOK' /\ SequenceOK'
    BY <1>0, <1>1, <1>2, QuietFrame DEF Writing, Reading
  <1>4. QueueTypeOK'
    BY <1>0, <1>1, <1>2 DEF QueueInv, QueueTypeOK, ConsumerSteps, Threads, PopLoad, PopCheck,
       PopCasFails, PopReturns, TryPop
  <1>5. /\ at'[c] \in {"pop_check", "pop_cas"} => pos'[c] <= dequeue
        /\ at'[c] = "pop_cas" => sequence[CellOf(pos'[c])] = pos'[c] + 1
    <2>1. CASE PopCheck(c)
      <3>1. pos' = pos /\ pos[c] \in Nat /\ at[c] = "pop_check"
        BY <1>0, <2>1 DEF PopCheck
      <3>2. CellOf(pos[c]) \in Cells
        BY <3>1, CellOfPosition
      <3>3. at'[c] = "pop_cas" => sequence[CellOf(pos[c])] = pos[c] + 1
        BY <1>0, <2>1, <3>1, <3>2 DEF PopCheck, PopDif
      <3> QED
        BY <3>1, <3>3 DEF QueueInv, AttemptsOK
    <2>2. CASE ~PopCheck(c)
      BY <1>0, <2>2 DEF PopLoad, PopCasFails, PopReturns, TryPop
    <2> QED
      BY <2>1, <2>2
  <1>6. AttemptsOK'
    BY <1>0, <1>1, <1>5 DEF QueueInv, AttemptsOK, Threads
  <1>7. \A u \in Writing : pos'[u] = pos[u]
    BY <1>0, <1>1 DEF Writing, Threads
  <1>8. \A n \in dequeue..(enqueue - 1) : WriterOf(n)' <=> WriterOf(n)
    BY <1>3, <1>7 DEF WriterOf
  <1>9. ValuesOK'
    BY <1>0, <1>1, <1>2, <1>8 DEF QueueInv, ValuesOK, Threads
  <1> QED
    BY <1>3, <1>4, <1>6, <1>9 DEF QueueInv

(* Positions less than a turn apart have different cells. *)
LEMMA NearCells ==
  ASSUME NEW m \in Nat, NEW n \in Nat, m # n, m < n + Capacity, n < m + Capacity
  PROVE  CellOf(m) # CellOf(n)
  <1>0. Capacity \in Nat
    BY QueueAssumption
  <1> QED
    BY <1>0, SameCell

(* Whoever holds a position is alone with its cell. *)
LEMMA HoldersApart ==
  ASSUME QueueInv
  PROVE  /\ NoRace
         /\ \A t \in Writing, n \in dequeue..(dequeue + Capacity - 1) :
               n # pos[t] => CellOf(pos[t]) # CellOf(n)
         /\ \A t \in Reading, n \in dequeue..(enqueue - 1) : CellOf(pos[t]) # CellOf(n)
  <1>0. /\ enqueue \in Nat /\ dequeue \in Nat /\ Capacity \in Nat
        /\ \A t \in Writing \cup Reading : pos[t] \in Nat
    BY QueueAssumption DEF QueueInv, QueueTypeOK, Writing, Reading, Threads
  <1>1. \A t \in Writing, u \in Writing : t # u => CellOf(pos[t]) # CellOf(pos[u])
    BY <1>0, NearCells DEF QueueInv, WritersOK, Window
  <1>2. \A t \in Reading, u \in Reading : t # u => CellOf(pos[t]) # CellOf(pos[u])
    BY <1>0, NearCells DEF QueueInv, ReadersOK, Window
  <1>3. \A t \in Writing, u \in Reading : CellOf(pos[t]) # CellOf(pos[u])
    BY <1>0, NearCells DEF QueueInv, WritersOK, ReadersOK, Window
  <1>4. NoRace
    BY <1>1, <1>2, <1>3 DEF NoRace
  <1>5. \A t \in Writing, n \in dequeue..(dequeue + Capacity - 1) :
           n # pos[t] => CellOf(pos[t]) # CellOf(n)
    BY <1>0, NearCells DEF QueueInv, WritersOK, Window
  <1>6. \A t \in Reading, n \in dequeue..(enqueue - 1) : CellOf(pos[t]) # CellOf(n)
    BY <1>0, NearCells DEF QueueInv, ReadersOK, Window
  <1> QED
    BY <1>4, <1>5, <1>6

(* A producer takes the next position: its cell is free, so the queue is   *)
(* not full and no consumer still reads the cell.                          *)
LEMMA PushCasInv ==
  ASSUME QueueInv, NEW p \in Producers, PushCas(p)
  PROVE  /\ QueueInv'
         /\ enqueue < dequeue + Capacity /\ Writing' = Writing \cup {p} /\ Reading' = Reading
  <1> USE DEF At, GoTo
  <1>0. /\ p \in Threads /\ p \notin Consumers /\ Capacity \in Nat \ {0, 1}
        /\ at \in [Threads -> ProducerSteps \cup ConsumerSteps]
        /\ pos \in [Threads -> Nat] /\ item \in [Threads -> Values \cup {None}]
        /\ enqueue \in Nat /\ dequeue \in Nat /\ sequence \in [Cells -> Nat]
    BY QueueAssumption DEF QueueInv, QueueTypeOK, Threads
  <1>1. /\ enqueue' = enqueue + 1 /\ pos[p] = enqueue /\ at[p] = "push_cas"
        /\ at' = [at EXCEPT ![p] = "push_write"]
        /\ UNCHANGED <<dequeue, sequence, value, pos, item>>
    BY DEF PushCas
  <1>2. sequence[CellOf(enqueue)] = enqueue
    BY <1>1 DEF QueueInv, AttemptsOK
  <1>3. Writing' = Writing \cup {p} /\ Reading' = Reading
    BY <1>0, <1>1 DEF Writing, Reading, Threads
  <1>4. enqueue < dequeue + Capacity
    <2> SUFFICES ASSUME enqueue = dequeue + Capacity PROVE FALSE
      BY <1>0 DEF QueueInv, Window
    <2>1. CellOf(dequeue) = CellOf(enqueue)
      BY <1>0, NextTurnCell
    <2>2. dequeue \in dequeue..(enqueue - 1)
      BY <1>0
    <2>3. sequence[CellOf(dequeue)] = dequeue + 1 \/ WriterOf(dequeue)
      BY <2>2 DEF QueueInv, SequenceOK
    <2>4. WriterOf(dequeue) => sequence[CellOf(dequeue)] = dequeue
      BY DEF QueueInv, WritersOK, WriterOf
    <2> QED
      BY <1>0, <1>2, <2>1, <2>3, <2>4
  <1>5. \A c \in Reading : enqueue + 1 <= pos[c] + Capacity
    <2> SUFFICES ASSUME NEW c \in Reading, enqueue = pos[c] + Capacity PROVE FALSE
      BY <1>0 DEF QueueInv, ReadersOK, Reading, Threads
    <2>1. pos[c] \in Nat
      BY <1>0 DEF Reading, Threads
    <2>2. CellOf(pos[c]) = CellOf(enqueue)
      BY <2>1, NextTurnCell
    <2>3. sequence[CellOf(pos[c])] = pos[c] + 1
      BY DEF QueueInv, ReadersOK
    <2> QED
      BY <1>0, <1>2, <2>1, <2>2, <2>3
  <1>6. QueueTypeOK'
    BY <1>0, <1>1 DEF QueueInv, QueueTypeOK, ProducerSteps, Threads
  <1>7. Window'
    BY <1>0, <1>1, <1>4 DEF QueueInv, Window
  <1>8. WritersOK'
    <2>1. \A q \in Writing : pos[q] \in Nat /\ pos[q] < enqueue /\ dequeue <= pos[q]
      BY <1>0 DEF QueueInv, WritersOK, Writing, Threads
    <2> QED
      BY <1>0, <1>1, <1>2, <1>3, <2>1 DEF QueueInv, WritersOK, Window
  <1>9. ReadersOK'
    BY <1>1, <1>3, <1>5 DEF QueueInv, ReadersOK
  <1>10. \A n \in Nat : WriterOf(n)' <=> WriterOf(n) \/ n = enqueue
    BY <1>1, <1>3 DEF WriterOf
  <1>11. \A n \in Int : ReaderOf(n)' <=> ReaderOf(n)
    BY <1>1, <1>3 DEF ReaderOf
  <1>12. SequenceOK'
    <2>1. \A n \in dequeue..enqueue : sequence[CellOf(n)] = n + 1 \/ WriterOf(n) \/ n = enqueue
      BY <1>0 DEF QueueInv, SequenceOK
    <2>2. \A n \in 0..enqueue : sequence[CellOf(n)] >= n
      BY <1>0, <1>2 DEF QueueInv, SequenceOK
    <2>3. \A n \in (enqueue + 1)..(dequeue + Capacity - 1) :
             sequence[CellOf(n)] = n \/ (n >= Capacity /\ ReaderOf(n - Capacity))
      BY <1>0 DEF QueueInv, SequenceOK
    <2>4. enqueue' - 1 = enqueue
      BY <1>0, <1>1
    <2> QED
      BY <1>0, <1>1, <1>10, <1>11, <2>1, <2>2, <2>3, <2>4 DEF QueueInv, SequenceOK
  <1>13. AttemptsOK'
    BY <1>0, <1>1 DEF QueueInv, AttemptsOK, Threads
  <1>14. ValuesOK'
    BY <1>0, <1>1, <1>10 DEF QueueInv, ValuesOK, Threads
  <1> QED
    BY <1>3, <1>4, <1>6, <1>7, <1>8, <1>9, <1>12, <1>13, <1>14 DEF QueueInv

(* A producer writes its element: no other thread is at the cell. *)
LEMMA PushWriteInv ==
  ASSUME QueueInv, NEW p \in Producers, PushWrite(p)
  PROVE  QueueInv' /\ Writing' = Writing /\ Reading' = Reading /\ p \in Writing
  <1> USE DEF At, GoTo
  <1>0. /\ p \in Threads /\ p \notin Consumers /\ Capacity \in Nat \ {0, 1}
        /\ at \in [Threads -> ProducerSteps \cup ConsumerSteps]
        /\ pos \in [Threads -> Nat] /\ item \in [Threads -> Values \cup {None}]
        /\ enqueue \in Nat /\ dequeue \in Nat /\ value \in [Cells -> Values \cup {None}]
    BY QueueAssumption DEF QueueInv, QueueTypeOK, Threads
  <1>1. /\ value' = [value EXCEPT ![CellOf(pos[p])] = item[p]]
        /\ at[p] = "push_write" /\ at' = [at EXCEPT ![p] = "push_publish"]
        /\ UNCHANGED <<enqueue, dequeue, sequence, pos, item>>
    BY DEF PushWrite
  <1>2. Writing' = Writing /\ Reading' = Reading /\ p \in Writing
    BY <1>0, <1>1 DEF Writing, Reading, Threads
  <1>3. \A n \in Nat : CellOf(n) \in Cells
    BY CellOfPosition
  <1>4. item[p] \in Values
    BY <1>1 DEF QueueInv, ValuesOK
  <1>5. QueueTypeOK'
    BY <1>0, <1>1, <1>3 DEF QueueInv, QueueTypeOK, ProducerSteps, Threads
  <1>6. Window' /\ WritersOK' /\ ReadersOK'
    BY <1>1, <1>2 DEF QueueInv, Window, WritersOK, ReadersOK
  <1>7. \A n \in Int : (WriterOf(n)' <=> WriterOf(n)) /\ (ReaderOf(n)' <=> ReaderOf(n))
    BY <1>1, <1>2 DEF WriterOf, ReaderOf
  <1>8. SequenceOK'
    BY <1>0, <1>1, <1>7 DEF QueueInv, SequenceOK
  <1>9. AttemptsOK'
    BY <1>0, <1>1 DEF QueueInv, AttemptsOK, Threads
  <1>10. ValuesOK'
    <2>1. \A q \in Producers : ~At(q, "idle")' => item[q] \in Values
      BY <1>0, <1>1, <1>4 DEF QueueInv, ValuesOK, Threads
    <2>2. \A q \in Producers : At(q, "push_publish")' => value'[CellOf(pos[q])] = item[q]
      <3> SUFFICES ASSUME NEW q \in Producers, At(q, "push_publish")'
                   PROVE  value'[CellOf(pos[q])] = item[q]
        OBVIOUS
      <3>1. CASE q = p
        BY <1>0, <1>1, <1>3, <3>1
      <3>2. CASE q # p
        <4>1. q \in Writing /\ at[q] = "push_publish" /\ q \in Threads
          BY <1>0, <1>1, <3>2 DEF Writing, Threads
        <4>2. CellOf(pos[q]) # CellOf(pos[p])
          BY <1>2, <3>2, <4>1, HoldersApart DEF NoRace
        <4> QED
          BY <1>0, <1>1, <1>3, <4>1, <4>2 DEF QueueInv, ValuesOK
      <3> QED
        BY <3>1, <3>2
    <2>3. \A n \in dequeue..(enqueue - 1) : ~WriterOf(n) => value'[CellOf(n)] \in Values
      BY <1>0, <1>1, <1>3, <1>4 DEF QueueInv, ValuesOK
    <2>4. \A c \in Consumers : at[c] = "pop_read" => value'[CellOf(pos[c])] \in Values
      BY <1>0, <1>1, <1>3, <1>4 DEF QueueInv, ValuesOK, Threads
    <2> QED
      BY <1>0, <1>1, <1>7, <2>1, <2>2, <2>3, <2>4 DEF QueueInv, ValuesOK, Threads
  <1> QED
    BY <1>2, <1>5, <1>6, <1>8, <1>9, <1>10 DEF QueueInv

(* A producer publishes its element. *)
LEMMA PushPublishInv ==
  ASSUME QueueInv, NEW p \in Producers, PushPublish(p)
  PROVE  /\ QueueInv' /\ p \in Writing
         /\ Writing' = Writing \ {p} /\ Reading' = Reading
  <1> USE DEF At, GoTo
  <1>0. /\ p \in Threads /\ p \notin Consumers /\ Capacity \in Nat \ {0, 1}
        /\ at \in [Threads -> ProducerSteps \cup ConsumerSteps]
        /\ pos \in [Threads -> Nat] /\ item \in [Threads -> Values \cup {None}]
        /\ enqueue \in Nat /\ dequeue \in Nat /\ sequence \in [Cells -> Nat]
    BY QueueAssumption DEF QueueInv, QueueTypeOK, Threads
  <1>1. /\ sequence' = [sequence EXCEPT ![CellOf(pos[p])] = pos[p] + 1]
        /\ at[p] = "push_publish" /\ at' = [at EXCEPT ![p] = "pushed"]
        /\ UNCHANGED <<enqueue, dequeue, value, pos, item>>
    BY DEF PushPublish
  <1>2. Writing' = Writing \ {p} /\ Reading' = Reading /\ p \in Writing
    BY <1>0, <1>1 DEF Writing, Reading, Threads
  <1>3. \A n \in Nat : CellOf(n) \in Cells
    BY CellOfPosition
  <1>4. /\ pos[p] \in Nat /\ dequeue <= pos[p] /\ pos[p] < enqueue
        /\ sequence[CellOf(pos[p])] = pos[p] /\ enqueue <= dequeue + Capacity
    BY <1>0, <1>2 DEF QueueInv, WritersOK, Window
  <1>5. /\ sequence'[CellOf(pos[p])] = pos[p] + 1
        /\ \A n \in Nat : CellOf(n) # CellOf(pos[p]) => sequence'[CellOf(n)] = sequence[CellOf(n)]
    BY <1>0, <1>1, <1>3, <1>4
  <1>6. QueueTypeOK'
    BY <1>0, <1>1, <1>3 DEF QueueInv, QueueTypeOK, ProducerSteps, Threads
  <1>7. \A t \in Writing \cup Reading : pos[t] \in Nat
    BY <1>0 DEF Writing, Reading, Threads
  <1>8. Window' /\ WritersOK' /\ ReadersOK'
    <2>1. \A t \in (Writing \cup Reading) \ {p} : CellOf(pos[t]) # CellOf(pos[p])
      BY <1>2, HoldersApart DEF NoRace
    <2>2. p \notin Reading
      BY <1>0 DEF Reading
    <2>3. \A t \in (Writing \cup Reading) \ {p} :
             sequence'[CellOf(pos[t])] = sequence[CellOf(pos[t])]
      BY <1>5, <1>7, <2>1
    <2>4. WritersOK'
      BY <1>1, <1>2, <2>3 DEF QueueInv, WritersOK
    <2>5. ReadersOK'
      BY <1>1, <1>2, <2>2, <2>3 DEF QueueInv, ReadersOK
    <2> QED
      BY <1>1, <2>4, <2>5 DEF QueueInv, Window
  <1>9. /\ \A n \in Int : ReaderOf(n)' <=> ReaderOf(n)
        /\ \A n \in Int : n # pos[p] => (WriterOf(n)' <=> WriterOf(n))
        /\ ~WriterOf(pos[p])'
    <2>1. \A q \in Writing : q # p => pos[q] # pos[p]
      BY <1>2 DEF QueueInv, WritersOK
    <2> QED
      BY <1>1, <1>2, <2>1 DEF WriterOf, ReaderOf
  <1>10. \A n \in dequeue..(dequeue + Capacity - 1) : n # pos[p] =>
            sequence'[CellOf(n)] = sequence[CellOf(n)]
    BY <1>0, <1>2, <1>5, HoldersApart
  <1>11. SequenceOK'
    <2>1. \A n \in dequeue..(enqueue - 1) : sequence'[CellOf(n)] = n + 1 \/ WriterOf(n)'
      BY <1>0, <1>4, <1>5, <1>9, <1>10 DEF QueueInv, SequenceOK
    <2>2. \A n \in enqueue..(dequeue + Capacity - 1) :
             sequence'[CellOf(n)] = n \/ (n >= Capacity /\ ReaderOf(n - Capacity)')
      BY <1>0, <1>4, <1>9, <1>10 DEF QueueInv, SequenceOK
    <2>3. \A n \in 0..(enqueue - 1) : CellOf(n) = CellOf(pos[p]) => n <= pos[p]
      BY <1>0, <1>4, SameCell
    <2>4. \A n \in 0..(enqueue - 1) : sequence'[CellOf(n)] >= n
      BY <1>0, <1>4, <1>5, <2>3 DEF QueueInv, SequenceOK
    <2>5. \A n \in 0..(dequeue - 1) : sequence'[CellOf(n)] >= n + 1
      BY <1>0, <1>4, <1>5, <2>3 DEF QueueInv, SequenceOK
    <2> QED
      BY <1>1, <2>1, <2>2, <2>4, <2>5 DEF SequenceOK
  <1>12. /\ sequence[CellOf(enqueue)] = enqueue => sequence'[CellOf(enqueue)] = enqueue
         /\ sequence[CellOf(dequeue)] = dequeue + 1 => sequence'[CellOf(dequeue)] = dequeue + 1
    <2>1. sequence[CellOf(enqueue)] = enqueue => CellOf(enqueue) # CellOf(pos[p])
      BY <1>0, <1>4
    <2>2. sequence[CellOf(dequeue)] = dequeue + 1 => CellOf(dequeue) # CellOf(pos[p])
      BY <1>0, <1>4, SameCell
    <2> QED
      BY <1>0, <1>5, <2>1, <2>2
  <1>13. AttemptsOK'
    BY <1>0, <1>1, <1>12 DEF QueueInv, AttemptsOK, Threads
  <1>14. ValuesOK'
    <2>1. value[CellOf(pos[p])] \in Values
      BY <1>1 DEF QueueInv, ValuesOK
    <2>2. \A n \in dequeue..(enqueue - 1) : ~WriterOf(n)' => value[CellOf(n)] \in Values
      BY <1>0, <1>9, <2>1 DEF QueueInv, ValuesOK
    <2> QED
      BY <1>0, <1>1, <2>2 DEF QueueInv, ValuesOK, Threads
  <1> QED
    BY <1>2, <1>6, <1>8, <1>11, <1>13, <1>14 DEF QueueInv

(* A consumer takes the oldest position: its element is published. *)
LEMMA PopCasInv ==
  ASSUME QueueInv, NEW c \in Consumers, PopCas(c)
  PROVE  /\ QueueInv' /\ ~WriterOf(dequeue)
         /\ dequeue < enqueue /\ Reading' = Reading \cup {c} /\ Writing' = Writing
  <1> USE DEF At, GoTo
  <1>0. /\ c \in Threads /\ c \notin Producers /\ Capacity \in Nat \ {0, 1}
        /\ at \in [Threads -> ProducerSteps \cup ConsumerSteps]
        /\ pos \in [Threads -> Nat] /\ item \in [Threads -> Values \cup {None}]
        /\ enqueue \in Nat /\ dequeue \in Nat /\ sequence \in [Cells -> Nat]
    BY QueueAssumption DEF QueueInv, QueueTypeOK, Threads
  <1>1. /\ dequeue' = dequeue + 1 /\ pos[c] = dequeue /\ at[c] = "pop_cas"
        /\ at' = [at EXCEPT ![c] = "pop_read"]
        /\ UNCHANGED <<enqueue, sequence, value, pos, item>>
    BY DEF PopCas
  <1>2. sequence[CellOf(dequeue)] = dequeue + 1
    BY <1>1 DEF QueueInv, AttemptsOK
  <1>3. Reading' = Reading \cup {c} /\ Writing' = Writing
    BY <1>0, <1>1 DEF Writing, Reading, Threads
  <1>4. ~WriterOf(dequeue)
    BY <1>0, <1>2 DEF QueueInv, WritersOK, WriterOf
  <1>5. dequeue < enqueue
    <2> SUFFICES ASSUME enqueue = dequeue PROVE FALSE
      BY <1>0 DEF QueueInv, Window
    <2>1. dequeue \in enqueue..(dequeue + Capacity - 1)
      BY <1>0
    <2>2. dequeue >= Capacity /\ ReaderOf(dequeue - Capacity)
      BY <1>0, <1>2, <2>1 DEF QueueInv, SequenceOK
    <2>3. sequence[CellOf(dequeue - Capacity)] = dequeue - Capacity + 1
      BY <2>2 DEF QueueInv, ReadersOK, ReaderOf
    <2>4. dequeue - Capacity \in Nat /\ dequeue - Capacity + Capacity = dequeue
      BY <1>0, <2>2
    <2>5. CellOf(dequeue - Capacity) = CellOf(dequeue)
      BY <2>4, NextTurnCell
    <2> QED
      BY <1>0, <1>2, <2>3, <2>5
  <1>6. QueueTypeOK'
    BY <1>0, <1>1 DEF QueueInv, QueueTypeOK, ConsumerSteps, Threads
  <1>7. Window'
    BY <1>0, <1>1, <1>5 DEF QueueInv, Window
  <1>8. WritersOK'
    <2>1. \A q \in Writing : pos[q] \in Nat /\ pos[q] # dequeue
      BY <1>0, <1>4 DEF Writing, Threads, WriterOf
    <2> QED
      BY <1>0, <1>1, <1>3, <2>1 DEF QueueInv, WritersOK
  <1>9. ReadersOK'
    <2>1. \A d \in Reading : pos[d] \in Nat
      BY <1>0 DEF Reading, Threads
    <2> QED
      BY <1>0, <1>1, <1>2, <1>3, <2>1 DEF QueueInv, ReadersOK, Window
  <1>10. /\ \A n \in Int : WriterOf(n)' <=> WriterOf(n)
         /\ \A n \in Int : ReaderOf(n)' <=> ReaderOf(n) \/ n = dequeue
    BY <1>1, <1>3 DEF WriterOf, ReaderOf
  <1>11. SequenceOK'
    <2>1. \A n \in (dequeue + 1)..(enqueue - 1) : sequence[CellOf(n)] = n + 1 \/ WriterOf(n)
      BY <1>0 DEF QueueInv, SequenceOK
    <2>2. \A n \in enqueue..(dequeue + Capacity) :
             \/ sequence[CellOf(n)] = n
             \/ n >= Capacity /\ (ReaderOf(n - Capacity) \/ n - Capacity = dequeue)
      BY <1>0 DEF QueueInv, SequenceOK
    <2>3. dequeue' + Capacity - 1 = dequeue + Capacity /\ dequeue' - 1 = dequeue
      BY <1>0, <1>1
    <2>4. \A n \in 0..dequeue : sequence[CellOf(n)] >= n + 1
      BY <1>0, <1>2 DEF QueueInv, SequenceOK
    <2> QED
      BY <1>0, <1>1, <1>10, <2>1, <2>2, <2>3, <2>4 DEF QueueInv, SequenceOK
  <1>12. AttemptsOK'
    BY <1>0, <1>1 DEF QueueInv, AttemptsOK, Threads
  <1>13. value[CellOf(dequeue)] \in Values
    BY <1>0, <1>4, <1>5 DEF QueueInv, ValuesOK
  <1>14. ValuesOK'
    BY <1>0, <1>1, <1>10, <1>13 DEF QueueInv, ValuesOK, Threads
  <1> QED
    BY <1>3, <1>4, <1>5, <1>6, <1>7, <1>8, <1>9, <1>11, <1>12, <1>14 DEF QueueInv

(* A consumer reads its element. *)
LEMMA PopReadInv ==
  ASSUME QueueInv, NEW c \in Consumers, PopRead(c)
  PROVE  QueueInv' /\ Writing' = Writing /\ Reading' = Reading /\ c \in Reading
  <1> USE DEF At, GoTo
  <1>0. /\ c \in Threads /\ c \notin Producers
        /\ at \in [Threads -> ProducerSteps \cup ConsumerSteps]
        /\ pos \in [Threads -> Nat] /\ item \in [Threads -> Values \cup {None}]
        /\ enqueue \in Nat /\ dequeue \in Nat /\ value \in [Cells -> Values \cup {None}]
    BY QueueAssumption DEF QueueInv, QueueTypeOK, Threads
  <1>1. /\ item' = [item EXCEPT ![c] = value[CellOf(pos[c])]]
        /\ at[c] = "pop_read" /\ at' = [at EXCEPT ![c] = "pop_release"]
        /\ UNCHANGED <<enqueue, dequeue, sequence, value, pos>>
    BY DEF PopRead
  <1>2. Writing' = Writing /\ Reading' = Reading /\ c \in Reading
    BY <1>0, <1>1 DEF Writing, Reading, Threads
  <1>3. value[CellOf(pos[c])] \in Values
    BY <1>1 DEF QueueInv, ValuesOK
  <1>4. QueueTypeOK'
    BY <1>0, <1>1, <1>3 DEF QueueInv, QueueTypeOK, ConsumerSteps, Threads
  <1>5. Window' /\ WritersOK' /\ ReadersOK'
    BY <1>1, <1>2 DEF QueueInv, Window, WritersOK, ReadersOK
  <1>6. \A n \in Int : (WriterOf(n)' <=> WriterOf(n)) /\ (ReaderOf(n)' <=> ReaderOf(n))
    BY <1>1, <1>2 DEF WriterOf, ReaderOf
  <1>7. SequenceOK'
    <2>0. Capacity \in Nat
      BY QueueAssumption
    <2> QED
      BY <1>0, <1>1, <1>6, <2>0 DEF QueueInv, SequenceOK
  <1>8. AttemptsOK'
    BY <1>0, <1>1 DEF QueueInv, AttemptsOK, Threads
  <1>9. ValuesOK'
    BY <1>0, <1>1, <1>3, <1>6 DEF QueueInv, ValuesOK, Threads
  <1> QED
    BY <1>2, <1>4, <1>5, <1>7, <1>8, <1>9 DEF QueueInv

(* A consumer gives the cell back for its next turn. *)
LEMMA PopReleaseInv ==
  ASSUME QueueInv, NEW c \in Consumers, PopRelease(c)
  PROVE  /\ QueueInv' /\ c \in Reading
         /\ Reading' = Reading \ {c} /\ Writing' = Writing
  <1> USE DEF At, GoTo
  <1>0. /\ c \in Threads /\ c \notin Producers /\ Capacity \in Nat \ {0, 1}
        /\ at \in [Threads -> ProducerSteps \cup ConsumerSteps]
        /\ pos \in [Threads -> Nat] /\ item \in [Threads -> Values \cup {None}]
        /\ enqueue \in Nat /\ dequeue \in Nat /\ sequence \in [Cells -> Nat]
    BY QueueAssumption DEF QueueInv, QueueTypeOK, Threads
  <1>1. /\ sequence' = [sequence EXCEPT ![CellOf(pos[c])] = pos[c] + Capacity]
        /\ at[c] = "pop_release" /\ at' = [at EXCEPT ![c] = "popped"]
        /\ UNCHANGED <<enqueue, dequeue, value, pos, item>>
    BY DEF PopRelease, NextTurn
  <1>2. Reading' = Reading \ {c} /\ Writing' = Writing /\ c \in Reading
    BY <1>0, <1>1 DEF Writing, Reading, Threads
  <1>3. \A n \in Nat : CellOf(n) \in Cells
    BY CellOfPosition
  <1>4. /\ pos[c] \in Nat /\ pos[c] < dequeue /\ enqueue <= pos[c] + Capacity
        /\ sequence[CellOf(pos[c])] = pos[c] + 1 /\ dequeue <= enqueue
        /\ enqueue <= dequeue + Capacity
    BY <1>0, <1>2 DEF QueueInv, ReadersOK, Window
  <1>5. /\ sequence'[CellOf(pos[c])] = pos[c] + Capacity
        /\ \A n \in Nat : CellOf(n) # CellOf(pos[c]) => sequence'[CellOf(n)] = sequence[CellOf(n)]
    BY <1>0, <1>1, <1>3, <1>4
  <1>6. QueueTypeOK'
    BY <1>0, <1>1, <1>3 DEF QueueInv, QueueTypeOK, ConsumerSteps, Threads
  <1>7. \A t \in Writing \cup Reading : pos[t] \in Nat
    BY <1>0 DEF Writing, Reading, Threads
  <1>8. Window' /\ WritersOK' /\ ReadersOK'
    <2>1. \A t \in (Writing \cup Reading) \ {c} : CellOf(pos[t]) # CellOf(pos[c])
      BY <1>2, HoldersApart DEF NoRace
    <2>2. c \notin Writing
      BY <1>0 DEF Writing
    <2>3. \A t \in (Writing \cup Reading) \ {c} :
             sequence'[CellOf(pos[t])] = sequence[CellOf(pos[t])]
      BY <1>5, <1>7, <2>1
    <2>4. WritersOK'
      BY <1>1, <1>2, <2>2, <2>3 DEF QueueInv, WritersOK
    <2>5. ReadersOK'
      BY <1>1, <1>2, <2>3 DEF QueueInv, ReadersOK
    <2> QED
      BY <1>1, <2>4, <2>5 DEF QueueInv, Window
  <1>9. /\ \A n \in Int : WriterOf(n)' <=> WriterOf(n)
        /\ \A n \in Int : n # pos[c] => (ReaderOf(n)' <=> ReaderOf(n))
    BY <1>1, <1>2 DEF WriterOf, ReaderOf
  <1>10. \A n \in dequeue..(enqueue - 1) : sequence'[CellOf(n)] = sequence[CellOf(n)]
    BY <1>0, <1>2, <1>5, HoldersApart
  <1>11. \A n \in enqueue..(dequeue + Capacity - 1) :
            CellOf(n) = CellOf(pos[c]) => n = pos[c] + Capacity
    <2> SUFFICES ASSUME NEW n \in enqueue..(dequeue + Capacity - 1),
                        CellOf(n) = CellOf(pos[c])
                 PROVE  n = pos[c] + Capacity
      OBVIOUS
    <2>1. n \in Nat /\ pos[c] < n
      BY <1>0, <1>4
    <2>2. pos[c] + Capacity <= n
      BY <1>4, <2>1, SameCell
    <2>3. CellOf(pos[c] + Capacity) = CellOf(n)
      BY <1>4, NextTurnCell
    <2>4. pos[c] + Capacity < n => pos[c] + Capacity + Capacity <= n
      BY <1>0, <1>4, <2>1, <2>3, SameCell
    <2> QED
      BY <1>0, <1>4, <2>1, <2>2, <2>4
  <1>12. SequenceOK'
    <2>1. \A n \in dequeue..(enqueue - 1) : sequence'[CellOf(n)] = n + 1 \/ WriterOf(n)'
      BY <1>0, <1>9, <1>10 DEF QueueInv, SequenceOK
    <2>2. \A n \in enqueue..(dequeue + Capacity - 1) :
             sequence'[CellOf(n)] = n \/ (n >= Capacity /\ ReaderOf(n - Capacity)')
      <3> SUFFICES ASSUME NEW n \in enqueue..(dequeue + Capacity - 1)
                   PROVE  sequence'[CellOf(n)] = n \/ (n >= Capacity /\ ReaderOf(n - Capacity)')
        OBVIOUS
      <3>1. CASE CellOf(n) = CellOf(pos[c])
        BY <1>5, <1>11, <3>1
      <3>2. CASE CellOf(n) # CellOf(pos[c])
        <4>1. n \in Nat /\ sequence'[CellOf(n)] = sequence[CellOf(n)]
          BY <1>0, <1>5, <3>2
        <4>2. n - Capacity # pos[c]
          BY <1>0, <1>4, <3>2, <4>1, NextTurnCell
        <4> QED
          BY <1>0, <1>9, <4>1, <4>2 DEF QueueInv, SequenceOK
      <3> QED
        BY <3>1, <3>2
    <2>3. \A n \in 0..(enqueue - 1) : CellOf(n) = CellOf(pos[c]) => n <= pos[c]
      BY <1>0, <1>4, SameCell
    <2>4. \A n \in 0..(enqueue - 1) : sequence'[CellOf(n)] >= n
      BY <1>0, <1>4, <1>5, <2>3 DEF QueueInv, SequenceOK
    <2>5. \A n \in 0..(dequeue - 1) : sequence'[CellOf(n)] >= n + 1
      BY <1>0, <1>4, <1>5, <2>3 DEF QueueInv, SequenceOK
    <2> QED
      BY <1>1, <2>1, <2>2, <2>4, <2>5 DEF SequenceOK
  <1>13. /\ sequence[CellOf(enqueue)] = enqueue => sequence'[CellOf(enqueue)] = enqueue
         /\ sequence[CellOf(dequeue)] = dequeue + 1 => sequence'[CellOf(dequeue)] = dequeue + 1
    <2>1. sequence[CellOf(enqueue)] = enqueue => CellOf(enqueue) # CellOf(pos[c])
      BY <1>0, <1>4, SameCell
    <2>2. sequence[CellOf(dequeue)] = dequeue + 1 => CellOf(dequeue) # CellOf(pos[c])
      BY <1>0, <1>4
    <2> QED
      BY <1>0, <1>5, <2>1, <2>2
  <1>14. AttemptsOK'
    BY <1>0, <1>1, <1>13 DEF QueueInv, AttemptsOK, Threads
  <1>15. ValuesOK'
    BY <1>0, <1>1, <1>9 DEF QueueInv, ValuesOK, Threads
  <1> QED
    BY <1>2, <1>6, <1>8, <1>12, <1>14, <1>15 DEF QueueInv

(* Every step of the queue keeps its invariant. *)
QueueStep ==
    \/ \E p \in Producers : PushStep(p) \/ PushReturns(p) \/ \E v \in Values : TryPush(p, v)
    \/ \E c \in Consumers : PopStep(c) \/ PopReturns(c) \/ TryPop(c)

LEMMA QueueStepInv ==
  ASSUME QueueInv, QueueStep \/ UNCHANGED queueVars
  PROVE  QueueInv'
  <1>1. CASE UNCHANGED queueVars
    BY <1>1 DEF queueVars, QueueInv, QueueTypeOK, Window, WritersOK, ReadersOK, SequenceOK,
       AttemptsOK, ValuesOK, WriterOf, ReaderOf, Writing, Reading, At
  <1>2. ASSUME NEW p \in Producers,
               PushStep(p) \/ PushReturns(p) \/ \E v \in Values : TryPush(p, v)
        PROVE  QueueInv'
    <2>1. CASE PushCas(p)
      BY <2>1, PushCasInv
    <2>2. CASE PushWrite(p)
      BY <2>2, PushWriteInv
    <2>3. CASE PushPublish(p)
      BY <2>3, PushPublishInv
    <2> QED
      BY <1>2, <2>1, <2>2, <2>3, QuietPush DEF PushStep
  <1>3. ASSUME NEW c \in Consumers, PopStep(c) \/ PopReturns(c) \/ TryPop(c)
        PROVE  QueueInv'
    <2>1. CASE PopCas(c)
      BY <2>1, PopCasInv
    <2>2. CASE PopRead(c)
      BY <2>2, PopReadInv
    <2>3. CASE PopRelease(c)
      BY <2>3, PopReleaseInv
    <2> QED
      BY <1>3, <2>1, <2>2, <2>3, QuietPop DEF PopStep
  <1> QED
    BY <1>1, <1>2, <1>3 DEF QueueStep

-----------------------------------------------------------------------------
(* The detector uses the queue by its operations only.                     *)
LEMMA DetectorSteps ==
  ASSUME [Next]_vars
  PROVE  QueueStep \/ UNCHANGED queueVars
  <1>0. worker_ \in Consumers
    BY DetectorAssumption
  <1>1. ASSUME NEW p \in Producers, ProducerStep(p) PROVE QueueStep
    BY <1>1 DEF ProducerStep, Recorded, Dropped, QueueStep
  <1>2. ASSUME NEW p \in Producers, NEW k \in Values, Record(p, k) PROVE QueueStep
    BY <1>2 DEF Record, QueueStep
  <1>3. ASSUME WorkerStep PROVE QueueStep \/ UNCHANGED queueVars
    BY <1>0, <1>3 DEF WorkerStep, Check, Drain, CountSample, Evaluate, QueueStep
  <1>4. ASSUME Start \/ Stop \/ Join \/ UNCHANGED vars PROVE UNCHANGED queueVars
    BY <1>4 DEF Start, Stop, Join, vars
  <1> QED
    BY <1>1, <1>2, <1>3, <1>4 DEF Next

(* The detector's own variables; a sample is an element, so it has a count. *)
LEMMA DetectorTypes ==
  ASSUME QueueInv, TypeOK, [Next]_vars, QueueTypeOK'
  PROVE  TypeOK'
  <1> USE DEF At, GoTo
  <1>0. /\ worker_ \in Consumers /\ worker_ \in Threads /\ NoCounts \in [Values -> Nat]
        /\ \A p \in Producers : p \in Threads /\ p # worker_
        /\ at \in [Threads -> ProducerSteps \cup ConsumerSteps]
    BY DetectorAssumption, QueueAssumption DEF NoCounts, Threads, TypeOK, QueueTypeOK
  <1>1. ASSUME NEW p \in Producers, ProducerStep(p) \/ \E k \in Values : Record(p, k)
        PROVE  TypeOK'
    <2>1. at'[worker_] = at[worker_]
      BY <1>0, <1>1 DEF ProducerStep, PushStep, PushLoad, PushCheck, PushCas, PushCasFails,
         PushWrite, PushPublish, Recorded, Dropped, PushReturns, Record, TryPush
    <2>2. At(p, "pushed") => item[p] \in Values
      BY DEF QueueInv, ValuesOK
    <2>3. UNCHANGED <<worker, stop_, stopping, counts, peak_requested, starts, evaluated>>
      BY <1>1 DEF ProducerStep, Recorded, Dropped, Record, detectorVars
    <2>4. recorded' \in [Values -> Nat] /\ dropped' \in Nat /\ records' \in Nat
      BY <1>1, <2>2 DEF ProducerStep, Recorded, Dropped, Record, detectorVars, TypeOK
    <2> QED
      BY <2>1, <2>3, <2>4 DEF TypeOK, NoCounts
  <1>2. CASE PopStep(worker_) /\ UNCHANGED detectorVars
    <2>1. ~At(worker_, "idle")
      BY <1>2 DEF PopStep, PopLoad, PopCheck, PopCas, PopCasFails, PopRead, PopRelease
    <2> QED
      BY <1>2, <2>1 DEF TypeOK, detectorVars, NoCounts
  <1>3. CASE Check
    BY <1>3 DEF Check, CheckStop, TypeOK, queueVars, NoCounts
  <1>4. CASE Drain
    BY <1>4 DEF Drain, detectorVars, TypeOK, NoCounts
  <1>5. CASE CountSample
    <2>1. item[worker_] \in Values
      BY <1>0, <1>5 DEF CountSample, QueueInv, ValuesOK
    <2>2. worker = "drain" /\ worker' = "drain"
      BY <1>5 DEF CountSample, TypeOK
    <2>3. counts' \in [Values -> Nat]
      BY <1>5, <2>1 DEF CountSample, TypeOK
    <2> QED
      BY <1>5, <2>2, <2>3 DEF CountSample, TypeOK
  <1>6. CASE Evaluate
    <2>1. at'[worker_] = "idle"
      BY <1>0, <1>6 DEF Evaluate, PopReturns
    <2>2. evaluated' \in [Values -> Nat] /\ counts' = NoCounts /\ peak_requested' \in BOOLEAN
      BY <1>6 DEF Evaluate, TypeOK, CountsCleared
    <2> QED
      BY <1>0, <1>6, <2>1, <2>2 DEF Evaluate, TypeOK, NoCounts
  <1>7. CASE Start
    <2>1. stop_' \in BOOLEAN
      BY <1>7, Zenon DEF Start
    <2>2. /\ worker = "none" /\ worker' = "check" /\ starts' = starts + 1
          /\ UNCHANGED <<at, stopping, counts, dropped, peak_requested, records, recorded,
                         evaluated>>
      BY <1>7, Zenon DEF Start, queueVars
    <2> QED
      BY <2>1, <2>2 DEF TypeOK, NoCounts
  <1>8. CASE Stop
    BY <1>8 DEF Stop, TypeOK, queueVars, NoCounts
  <1>9. CASE Join
    BY <1>9 DEF Join, TypeOK, queueVars, NoCounts
  <1>10. CASE UNCHANGED vars
    BY <1>10 DEF vars, queueVars, detectorVars, TypeOK, NoCounts
  <1> QED
    BY <1>1, <1>2, <1>3, <1>4, <1>5, <1>6, <1>7, <1>8, <1>9, <1>10 DEF Next, WorkerStep

(* The inductive invariant *)
DetectorInv == QueueInv /\ TypeOK

LEMMA DetectorInvariant == Spec => []DetectorInv
  <1>1. ASSUME Init PROVE DetectorInv
    <2>1. QueueInv
      BY <1>1, QueueInitInv DEF Init
    <2>2. worker_ \in Threads
      BY DetectorAssumption DEF Threads
    <2> QED
      BY <1>1, <2>1, <2>2 DEF Init, QueueInit, QueueInv, DetectorInv, TypeOK, NoCounts, At
  <1>2. ASSUME DetectorInv, [Next]_vars PROVE DetectorInv'
    <2>1. QueueInv'
      BY <1>2, DetectorSteps, QueueStepInv DEF DetectorInv
    <2>2. TypeOK'
      BY <1>2, <2>1, DetectorTypes DEF DetectorInv, QueueInv
    <2> QED
      BY <2>1, <2>2 DEF DetectorInv
  <1> QED
    BY <1>1, <1>2, PTL DEF Spec

(* The variables keep their types, a sample's counter is one of the         *)
(* detector's, and the worker touches the queue only in its drain loop.     *)
THEOREM DetectorTypeCorrect == Spec => []TypeOK
  <1>1. DetectorInv => TypeOK
    BY DEF DetectorInv
  <1> QED
    BY <1>1, DetectorInvariant, PTL

(* The plain accesses of a cell's value in try_push() and try_pop() never   *)
(* meet, whatever the number of threads, cells and samples.                 *)
THEOREM QueueIsRaceFree == Spec => []NoRace
  <1>1. DetectorInv => NoRace
    BY HoldersApart DEF DetectorInv
  <1> QED
    BY <1>1, DetectorInvariant, PTL

-----------------------------------------------------------------------------
(* The queue implements BoundedFifo.                                       *)

(* The other variables of the refinement mapping *)
TakenBy == [c \in Consumers |->
              IF At(c, "pop_read") THEN value[CellOf(pos[c])] ELSE item[c]]
Failed == {t \in Threads : at[t] \in {"full", "empty"}}

(* A choice with one candidate. *)
LEMMA OneCandidate ==
  ASSUME NEW a, NEW b, NEW n, NEW p \in Producers, a[p] = "push_write", b[p] = n,
         \A q \in Producers : a[q] = "push_write" /\ b[q] = n => q = p
  PROVE  (CHOOSE q \in Producers : a[q] = "push_write" /\ b[q] = n) = p
  OBVIOUS

(* The element at a position: its producer's, or what is in its cell. *)
LEMMA ElementIs ==
  ASSUME QueueInv
  PROVE  /\ \A p \in Producers : At(p, "push_write") => ElementAt(pos[p]) = item[p]
         /\ \A n \in Nat : (\A p \in Producers : At(p, "push_write") => pos[p] # n)
                           => ElementAt(n) = value[CellOf(n)]
  <1> USE DEF At
  <1>1. ASSUME NEW p \in Producers, at[p] = "push_write" PROVE ElementAt(pos[p]) = item[p]
    <2>1. \A q \in Producers : at[q] = "push_write" /\ pos[q] = pos[p] => q = p
      BY <1>1 DEF QueueInv, WritersOK, Writing
    <2>2. (CHOOSE q \in Producers : at[q] = "push_write" /\ pos[q] = pos[p]) = p
      BY <1>1, <2>1, OneCandidate
    <2> QED
      BY <1>1, <2>2 DEF ElementAt
  <1> QED
    BY <1>1 DEF ElementAt

LEMMA ElementsAreValues ==
  ASSUME QueueInv
  PROVE  /\ \A n \in dequeue..(enqueue - 1) : ElementAt(n) \in Values
         /\ Elements \in Seq(Values) /\ Len(Elements) = enqueue - dequeue
  <1>0. enqueue \in Nat /\ dequeue \in Nat /\ enqueue - dequeue \in Nat
    BY DEF QueueInv, QueueTypeOK, Window
  <1>1. ASSUME NEW n \in dequeue..(enqueue - 1) PROVE ElementAt(n) \in Values
    <2>1. CASE \E p \in Producers : At(p, "push_write") /\ pos[p] = n
      BY <2>1, ElementIs DEF QueueInv, ValuesOK, At
    <2>2. CASE ~\E p \in Producers : At(p, "push_write") /\ pos[p] = n
      <3>1. ElementAt(n) = value[CellOf(n)]
        BY <1>0, <2>2, ElementIs
      <3>2. WriterOf(n) => \E p \in Producers : At(p, "push_publish") /\ pos[p] = n
        BY <2>2 DEF WriterOf, Writing, At
      <3> QED
        BY <3>1, <3>2 DEF QueueInv, ValuesOK, At
    <2> QED
      BY <2>1, <2>2
  <1>2. \A i \in 1..(enqueue - dequeue) : dequeue + i - 1 \in dequeue..(enqueue - 1)
    BY <1>0
  <1>3. Elements \in [1..(enqueue - dequeue) -> Values]
    BY <1>1, <1>2 DEF Elements
  <1> QED
    BY <1>0, <1>1, <1>3

(* A sequence is the function of its elements. *)
LEMMA SequenceByIndex ==
  ASSUME NEW S, NEW s \in Seq(S), NEW t, NEW n, Len(s) = n, NEW f,
         f = [i \in 1..n |-> t[i + 1]], \A i \in 1..n : s[i] = t[i + 1]
  PROVE  f = s
  <1>1. s \in [1..n -> S]
    OBVIOUS
  <1> QED
    BY <1>1

(* The elements stay the same when the ends and every element do. *)
LEMMA SameElements ==
  ASSUME QueueInv, UNCHANGED <<enqueue, dequeue>>,
         \A n \in dequeue..(enqueue - 1) : ElementAt(n)' = ElementAt(n)
  PROVE  Elements' = Elements
  <1>0. enqueue \in Nat /\ dequeue \in Nat
    BY DEF QueueInv, QueueTypeOK
  <1>2. \A i \in 1..(enqueue - dequeue) : dequeue + i - 1 \in dequeue..(enqueue - 1)
    BY <1>0
  <1> QED
    BY <1>2 DEF Elements

(* An element is the same when its producer or its cell is.  A thread that  *)
(* is not between its compare-exchange and its write changes no element.    *)
LEMMA SameElement ==
  ASSUME QueueInv, NEW n \in Nat,
         \A p \in Producers : (at'[p] = "push_write" /\ pos'[p] = n)
                              <=> (at[p] = "push_write" /\ pos[p] = n),
         \A p \in Producers : at[p] = "push_write" => item'[p] = item[p],
         value'[CellOf(n)] = value[CellOf(n)]
  PROVE  ElementAt(n)' = ElementAt(n)
  <1>1. ASSUME NEW p \in Producers, at[p] = "push_write", pos[p] = n
        PROVE  ElementAt(n)' = ElementAt(n)
    <2>1. \A q \in Producers : at[q] = "push_write" /\ pos[q] = n => q = p
      BY <1>1 DEF QueueInv, WritersOK, Writing
    <2>2. (CHOOSE q \in Producers : at'[q] = "push_write" /\ pos'[q] = n) = p
      BY <1>1, <2>1, OneCandidate
    <2>3. ElementAt(n) = item[p]
      BY <1>1, ElementIs DEF At
    <2>4. ElementAt(n)' = item'[p]
      BY <1>1, <2>2 DEF ElementAt, At
    <2> QED
      BY <1>1, <2>3, <2>4
  <1>2. CASE ~\E p \in Producers : at[p] = "push_write" /\ pos[p] = n
    BY <1>2 DEF ElementAt, At
  <1> QED
    BY <1>1, <1>2

(* A thread that holds no position changes only whether it has failed. *)
LEMMA QuietMapping ==
  ASSUME QueueInv, NEW t \in Threads, UNCHANGED <<enqueue, dequeue, sequence, value>>,
         \A u \in Threads \ {t} : at'[u] = at[u] /\ pos'[u] = pos[u] /\ item'[u] = item[u],
         t \notin Writing \cup Reading, t \notin Writing' \cup Reading',
         t \in Consumers => item'[t] = item[t]
  PROVE  /\ UNCHANGED <<Elements, TakenBy, Writing \cup Reading>>
         /\ Failed' = IF at'[t] \in {"full", "empty"} THEN Failed \cup {t} ELSE Failed \ {t}
  <1>1. (Writing \cup Reading)' = Writing \cup Reading
    BY QuietFrame
  <1>2. t \in Producers => at[t] # "push_write" /\ at'[t] # "push_write"
    BY DEF Writing
  <1>3. \A n \in Nat : ElementAt(n)' = ElementAt(n)
    BY <1>2, SameElement DEF Threads
  <1>4. enqueue \in Nat /\ dequeue \in Nat
    BY DEF QueueInv, QueueTypeOK
  <1>5. Elements' = Elements
    BY <1>3, <1>4, SameElements
  <1>6. t \in Consumers => at[t] # "pop_read" /\ at'[t] # "pop_read"
    BY DEF Reading
  <1>7. TakenBy' = TakenBy
    BY <1>6 DEF TakenBy, At, Threads
  <1>8. Failed' = IF at'[t] \in {"full", "empty"} THEN Failed \cup {t} ELSE Failed \ {t}
    BY DEF Failed
  <1> QED
    BY <1>1, <1>5, <1>7, <1>8

(* A push that sees a full queue sees a full queue, or a consumer at its    *)
(* cell; a pop that sees an empty one, an empty one or a producer.          *)
LEMMA FullIsFull ==
  ASSUME QueueInv, NEW p \in Producers, At(p, "push_check"), PushDif(p) < 0
  PROVE  Len(Elements) = Capacity \/ Reading # {}
  <1>0. /\ pos[p] \in Nat /\ enqueue \in Nat /\ dequeue \in Nat /\ Capacity \in Nat
        /\ sequence[CellOf(pos[p])] \in Nat /\ pos[p] <= enqueue
    BY QueueAssumption, CellOfPosition DEF QueueInv, QueueTypeOK, Threads, AttemptsOK, At
  <1>1. sequence[CellOf(pos[p])] < pos[p]
    BY <1>0 DEF PushDif
  <1>2. pos[p] = enqueue
    BY <1>0, <1>1 DEF QueueInv, SequenceOK
  <1>3. enqueue < dequeue + Capacity => \E n \in Int : ReaderOf(n)
    BY <1>0, <1>1, <1>2 DEF QueueInv, SequenceOK
  <1>4. enqueue = dequeue + Capacity \/ Reading # {}
    BY <1>0, <1>3 DEF QueueInv, Window, ReaderOf
  <1> QED
    BY <1>0, <1>4, ElementsAreValues

LEMMA EmptyIsEmpty ==
  ASSUME QueueInv, NEW c \in Consumers, At(c, "pop_check"), PopDif(c) < 0
  PROVE  Elements = <<>> \/ Writing # {}
  <1>0. /\ pos[c] \in Nat /\ enqueue \in Nat /\ dequeue \in Nat
        /\ sequence[CellOf(pos[c])] \in Nat /\ pos[c] <= dequeue
    BY CellOfPosition DEF QueueInv, QueueTypeOK, Threads, AttemptsOK, At
  <1>1. sequence[CellOf(pos[c])] < pos[c] + 1
    BY <1>0 DEF PopDif
  <1>2. pos[c] = dequeue
    BY <1>0, <1>1 DEF QueueInv, SequenceOK
  <1>3. dequeue < enqueue => WriterOf(dequeue)
    BY <1>0, <1>1, <1>2 DEF QueueInv, SequenceOK
  <1>4. dequeue = enqueue \/ Writing # {}
    BY <1>0, <1>3 DEF QueueInv, Window, WriterOf
  <1> QED
    BY <1>0, <1>4, ElementsAreValues

(* The abstract queue's step, or none *)
FifoStep == [Fifo!Next]_<<Elements, TakenBy, Writing \cup Reading, Failed>>

LEMMA QuietPushMaps ==
  ASSUME QueueInv, NEW p \in Producers,
         \/ PushLoad(p) \/ PushCheck(p) \/ PushCasFails(p) \/ PushReturns(p)
         \/ \E v \in Values : TryPush(p, v)
  PROVE  FifoStep /\ UNCHANGED <<Elements, TakenBy>>
  <1> USE DEF At, GoTo
  <1>0. /\ p \in Threads /\ p \notin Consumers
        /\ at \in [Threads -> ProducerSteps \cup ConsumerSteps]
        /\ pos \in [Threads -> Nat] /\ item \in [Threads -> Values \cup {None}]
    BY QueueAssumption DEF QueueInv, QueueTypeOK, Threads
  <1>1. /\ UNCHANGED <<enqueue, dequeue, sequence, value>>
        /\ \A u \in Threads \ {p} : at'[u] = at[u] /\ pos'[u] = pos[u] /\ item'[u] = item[u]
    BY <1>0 DEF PushLoad, PushCheck, PushCasFails, PushReturns, TryPush
  <1>2. /\ at[p] \notin {"push_write", "push_publish"}
        /\ at'[p] \in {"idle", "push_load", "push_check", "push_cas", "full"}
    BY <1>0 DEF PushLoad, PushCheck, PushCasFails, PushReturns, TryPush
  <1>3. p \notin Writing \cup Reading /\ p \notin Writing' \cup Reading'
    BY <1>0, <1>2 DEF Writing, Reading
  <1>4. /\ UNCHANGED <<Elements, TakenBy, Writing \cup Reading>>
        /\ Failed' = IF at'[p] \in {"full", "empty"} THEN Failed \cup {p} ELSE Failed \ {p}
    BY <1>0, <1>1, <1>3, QuietMapping, Zenon
  <1>5. CASE at'[p] = "full"
    <2>1. at[p] = "push_check" /\ PushDif(p) < 0
      BY <1>0, <1>5 DEF PushLoad, PushCheck, PushCasFails, PushReturns, TryPush
    <2>2. Len(Elements) = Capacity \/ (Writing \cup Reading) \cap Consumers # {}
      BY <2>1, FullIsFull DEF Reading
    <2>3. Failed' = Failed \cup {p}
      BY <1>4, <1>5
    <2>4. Fifo!Full(p)
      BY <1>3, <1>4, <2>2, <2>3 DEF Fifo!Full, Failed, TakenBy
    <2> QED
      BY <1>4, <2>4 DEF FifoStep, Fifo!Next
  <1>6. CASE at'[p] # "full" /\ p \in Failed
    <2>1. Failed' = Failed \ {p}
      BY <1>2, <1>4, <1>6
    <2>2. Fifo!Forget(p)
      BY <1>4, <1>6, <2>1 DEF Fifo!Forget, Failed, TakenBy
    <2> QED
      BY <1>4, <2>2 DEF FifoStep, Fifo!Next
  <1>7. CASE at'[p] # "full" /\ p \notin Failed
    BY <1>2, <1>4, <1>7 DEF FifoStep
  <1> QED
    BY <1>4, <1>5, <1>6, <1>7

LEMMA QuietPopMaps ==
  ASSUME QueueInv, NEW c \in Consumers,
         PopLoad(c) \/ PopCheck(c) \/ PopCasFails(c) \/ PopReturns(c) \/ TryPop(c)
  PROVE  FifoStep /\ UNCHANGED <<Elements, TakenBy>>
  <1> USE DEF At, GoTo
  <1>0. /\ c \in Threads /\ c \notin Producers
        /\ at \in [Threads -> ProducerSteps \cup ConsumerSteps]
        /\ pos \in [Threads -> Nat] /\ item \in [Threads -> Values \cup {None}]
    BY QueueAssumption DEF QueueInv, QueueTypeOK, Threads
  <1>1. /\ UNCHANGED <<enqueue, dequeue, sequence, value>> /\ item' = item
        /\ \A u \in Threads \ {c} : at'[u] = at[u] /\ pos'[u] = pos[u] /\ item'[u] = item[u]
    BY <1>0 DEF PopLoad, PopCheck, PopCasFails, PopReturns, TryPop
  <1>2. /\ at[c] \notin {"pop_read", "pop_release"}
        /\ at'[c] \in {"idle", "pop_load", "pop_check", "pop_cas", "empty"}
    BY <1>0 DEF PopLoad, PopCheck, PopCasFails, PopReturns, TryPop
  <1>3. c \notin Writing \cup Reading /\ c \notin Writing' \cup Reading'
    BY <1>0, <1>2 DEF Writing, Reading
  <1>4. /\ UNCHANGED <<Elements, TakenBy, Writing \cup Reading>>
        /\ Failed' = IF at'[c] \in {"full", "empty"} THEN Failed \cup {c} ELSE Failed \ {c}
    BY <1>0, <1>1, <1>3, QuietMapping, Zenon
  <1>5. CASE at'[c] = "empty"
    <2>1. at[c] = "pop_check" /\ PopDif(c) < 0
      BY <1>0, <1>5 DEF PopLoad, PopCheck, PopCasFails, PopReturns, TryPop
    <2>2. Elements = <<>> \/ (Writing \cup Reading) \cap Producers # {}
      BY <2>1, EmptyIsEmpty DEF Writing
    <2>3. Failed' = Failed \cup {c}
      BY <1>4, <1>5
    <2>4. Fifo!Empty(c)
      BY <1>3, <1>4, <2>2, <2>3 DEF Fifo!Empty, Failed, TakenBy
    <2> QED
      BY <1>4, <2>4 DEF FifoStep, Fifo!Next
  <1>6. CASE at'[c] # "empty" /\ c \in Failed
    <2>1. Failed' = Failed \ {c}
      BY <1>2, <1>4, <1>6
    <2>2. Fifo!Forget(c)
      BY <1>4, <1>6, <2>1 DEF Fifo!Forget, Failed, TakenBy
    <2> QED
      BY <1>4, <2>2 DEF FifoStep, Fifo!Next
  <1>7. CASE at'[c] # "empty" /\ c \notin Failed
    BY <1>2, <1>4, <1>7 DEF FifoStep
  <1> QED
    BY <1>4, <1>5, <1>6, <1>7

(* The element of a position taken by compare-exchange joins the others. *)
LEMMA PushCasMaps ==
  ASSUME QueueInv, NEW p \in Producers, PushCas(p)
  PROVE  /\ FifoStep /\ Elements' = Append(Elements, item[p]) /\ item[p] \in Values
         /\ TakenBy' = TakenBy
  <1> USE DEF At, GoTo
  <1>0. /\ p \in Threads /\ p \notin Consumers /\ enqueue \in Nat /\ dequeue \in Nat
        /\ at \in [Threads -> ProducerSteps \cup ConsumerSteps] /\ dequeue <= enqueue
        /\ Capacity \in Nat
    BY QueueAssumption DEF QueueInv, QueueTypeOK, Threads, Window
  <1>1. /\ enqueue' = enqueue + 1 /\ pos[p] = enqueue /\ at[p] = "push_cas"
        /\ at' = [at EXCEPT ![p] = "push_write"]
        /\ UNCHANGED <<dequeue, sequence, value, pos, item>>
    BY DEF PushCas
  <1>2. enqueue < dequeue + Capacity /\ Writing' = Writing \cup {p} /\ Reading' = Reading
    BY PushCasInv
  <1>3. item[p] \in Values
    BY <1>1 DEF QueueInv, ValuesOK
  <1>4. \A n : n = enqueue => ElementAt(n)' = item[p]
    <2>1. \A q \in Producers : at'[q] = "push_write" /\ pos'[q] = enqueue => q = p
      BY <1>0, <1>1 DEF QueueInv, WritersOK, Writing, Threads
    <2>2. at'[p] = "push_write" /\ pos'[p] = enqueue
      BY <1>0, <1>1
    <2>3. (CHOOSE q \in Producers : at'[q] = "push_write" /\ pos'[q] = enqueue) = p
      BY <2>1, <2>2, OneCandidate, Zenon
    <2> QED
      BY <1>1, <2>2, <2>3 DEF ElementAt
  <1>5. \A n \in dequeue..(enqueue - 1) : ElementAt(n)' = ElementAt(n)
    <2> SUFFICES ASSUME NEW n \in dequeue..(enqueue - 1) PROVE ElementAt(n)' = ElementAt(n)
      OBVIOUS
    <2>1. n \in Nat /\ n # enqueue
      BY <1>0
    <2>2. \A q \in Producers : (at'[q] = "push_write" /\ pos'[q] = n)
                               <=> (at[q] = "push_write" /\ pos[q] = n)
      BY <1>0, <1>1, <2>1 DEF Threads
    <2> QED
      BY <1>1, <2>1, <2>2, SameElement
  <1>6. Elements' = Append(Elements, item[p])
    <2>1. Len(Elements) = enqueue - dequeue /\ Elements \in Seq(Values)
      BY ElementsAreValues
    <2>2. enqueue' - dequeue' = Len(Elements) + 1
      BY <1>0, <1>1, <2>1
    <2>3. \A i \in 1..(Len(Elements) + 1) : i # Len(Elements) + 1 =>
             i \in 1..(enqueue - dequeue) /\ dequeue + i - 1 \in dequeue..(enqueue - 1)
      BY <1>0, <2>1
    <2>4. dequeue + (Len(Elements) + 1) - 1 = enqueue
      BY <1>0, <2>1
    <2>5. \A i \in 1..(Len(Elements) + 1), n \in dequeue..enqueue : n = dequeue + i - 1 =>
             ElementAt(n)' = IF i = Len(Elements) + 1 THEN item[p] ELSE Elements[i]
      BY <1>4, <1>5, <2>3, <2>4 DEF Elements
    <2>6. ASSUME NEW i \in 1..(Len(Elements) + 1)
          PROVE  Elements'[i] = IF i = Len(Elements) + 1 THEN item[p] ELSE Elements[i]
      <3>1. PICK n \in dequeue..enqueue : n = dequeue + i - 1
        BY <1>0, <2>1
      <3>2. Elements'[i] = ElementAt(n)'
        BY <1>1, <2>2, <3>1 DEF Elements
      <3> QED
        BY <2>5, <3>1, <3>2
    <2>7. Elements' = [i \in 1..(Len(Elements) + 1) |->
                         IF i = Len(Elements) + 1 THEN item[p] ELSE Elements[i]]
      BY <2>2, <2>6 DEF Elements
    <2> QED
      BY <1>3, <2>1, <2>7
  <1>7. TakenBy' = TakenBy
    BY <1>0, <1>1 DEF TakenBy, Threads
  <1>8. Failed' = Failed
    BY <1>0, <1>1 DEF Failed
  <1>9. Len(Elements) < Capacity
    BY <1>0, <1>2, ElementsAreValues
  <1>10. p \notin Writing \cup Reading
    BY <1>0, <1>1 DEF Writing, Reading
  <1>11. Fifo!Push(p, item[p])
    BY <1>2, <1>6, <1>7, <1>8, <1>9, <1>10 DEF Fifo!Push, TakenBy, Failed
  <1> QED
    BY <1>3, <1>6, <1>7, <1>11 DEF FifoStep, Fifo!Next

(* The write changes where the element is, not the element. *)
LEMMA PushWriteMaps ==
  ASSUME QueueInv, NEW p \in Producers, PushWrite(p)
  PROVE  UNCHANGED <<Elements, TakenBy, Writing \cup Reading, Failed>>
  <1> USE DEF At, GoTo
  <1>0. /\ p \in Threads /\ p \notin Consumers /\ enqueue \in Nat /\ dequeue \in Nat
        /\ at \in [Threads -> ProducerSteps \cup ConsumerSteps] /\ pos \in [Threads -> Nat]
        /\ value \in [Cells -> Values \cup {None}] /\ Capacity \in Nat
    BY QueueAssumption DEF QueueInv, QueueTypeOK, Threads
  <1>1. /\ value' = [value EXCEPT ![CellOf(pos[p])] = item[p]]
        /\ at[p] = "push_write" /\ at' = [at EXCEPT ![p] = "push_publish"]
        /\ UNCHANGED <<enqueue, dequeue, sequence, pos, item>>
    BY DEF PushWrite
  <1>2. Writing' = Writing /\ Reading' = Reading /\ p \in Writing
    BY PushWriteInv
  <1>3. \A n \in Nat : CellOf(n) \in Cells
    BY CellOfPosition
  <1>4. \A n : n = pos[p] => ElementAt(n)' = item[p] /\ ElementAt(n) = item[p]
    <2>1. \A q \in Producers : q # p /\ at'[q] = "push_write" => pos'[q] # pos[p]
      BY <1>0, <1>1, <1>2 DEF QueueInv, WritersOK, Writing, Threads
    <2>2. at'[p] # "push_write"
      BY <1>0, <1>1
    <2>3. \A n : n = pos[p] => ElementAt(n)' = value'[CellOf(pos[p])]
      BY <1>1, <2>1, <2>2 DEF ElementAt
    <2>4. value'[CellOf(pos[p])] = item[p]
      BY <1>0, <1>1, <1>3
    <2> QED
      BY <1>1, <2>3, <2>4, ElementIs
  <1>5. \A n \in dequeue..(enqueue - 1) : ElementAt(n)' = ElementAt(n)
    <2> SUFFICES ASSUME NEW n \in dequeue..(enqueue - 1), n # pos[p]
                 PROVE  ElementAt(n)' = ElementAt(n)
      BY <1>4
    <2>1. n \in Nat /\ n \in dequeue..(dequeue + Capacity - 1)
      BY <1>0 DEF QueueInv, Window
    <2>2. CellOf(n) # CellOf(pos[p])
      BY <1>2, <2>1, HoldersApart
    <2>3. value'[CellOf(n)] = value[CellOf(n)]
      BY <1>0, <1>1, <1>3, <2>1, <2>2
    <2>4. \A q \in Producers : (at'[q] = "push_write" /\ pos'[q] = n)
                               <=> (at[q] = "push_write" /\ pos[q] = n)
      BY <1>0, <1>1 DEF Threads
    <2> QED
      BY <1>1, <2>1, <2>3, <2>4, SameElement
  <1>6. Elements' = Elements
    BY <1>1, <1>5, SameElements
  <1>7. TakenBy' = TakenBy
    <2>1. \A c \in Consumers : at'[c] = at[c]
      BY <1>0, <1>1 DEF Threads
    <2>2. \A c \in Consumers : at[c] = "pop_read" => value'[CellOf(pos[c])] = value[CellOf(pos[c])]
      <3> SUFFICES ASSUME NEW c \in Consumers, at[c] = "pop_read"
                   PROVE  value'[CellOf(pos[c])] = value[CellOf(pos[c])]
        OBVIOUS
      <3>1. c \in Reading /\ pos[c] \in Nat /\ c # p
        BY <1>0 DEF Reading, Threads
      <3>2. CellOf(pos[c]) # CellOf(pos[p])
        BY <1>2, <3>1, HoldersApart DEF NoRace
      <3> QED
        BY <1>0, <1>1, <1>3, <3>1, <3>2
    <2> QED
      BY <1>1, <2>1, <2>2 DEF TakenBy
  <1>8. Failed' = Failed
    BY <1>0, <1>1 DEF Failed
  <1> QED
    BY <1>2, <1>6, <1>7, <1>8

LEMMA PushPublishMaps ==
  ASSUME QueueInv, NEW p \in Producers, PushPublish(p)
  PROVE  FifoStep /\ UNCHANGED <<Elements, TakenBy>>
  <1> USE DEF At, GoTo
  <1>0. /\ p \in Threads /\ p \notin Consumers /\ enqueue \in Nat /\ dequeue \in Nat
        /\ at \in [Threads -> ProducerSteps \cup ConsumerSteps]
    BY QueueAssumption DEF QueueInv, QueueTypeOK, Threads
  <1>1. /\ at[p] = "push_publish" /\ at' = [at EXCEPT ![p] = "pushed"]
        /\ UNCHANGED <<enqueue, dequeue, value, pos, item>>
    BY DEF PushPublish
  <1>2. p \in Writing /\ Writing' = Writing \ {p} /\ Reading' = Reading /\ p \notin Reading
    BY <1>0, PushPublishInv DEF Reading
  <1>3. \A n \in Nat : ElementAt(n)' = ElementAt(n)
    <2>1. \A q \in Producers : at'[q] = "push_write" <=> at[q] = "push_write"
      BY <1>0, <1>1 DEF Threads
    <2> QED
      BY <1>1, <2>1, SameElement
  <1>4. Elements' = Elements
    BY <1>0, <1>1, <1>3, SameElements
  <1>5. TakenBy' = TakenBy
    BY <1>0, <1>1 DEF TakenBy, Threads
  <1>6. Failed' = Failed
    BY <1>0, <1>1 DEF Failed
  <1>7. Fifo!Finish(p)
    BY <1>2, <1>4, <1>5, <1>6 DEF Fifo!Finish, TakenBy, Failed
  <1> QED
    BY <1>0, <1>4, <1>5, <1>7 DEF FifoStep, Fifo!Next, Threads

(* The compare-exchange of a consumer takes the first element. *)
LEMMA PopCasMaps ==
  ASSUME QueueInv, NEW c \in Consumers, PopCas(c)
  PROVE  /\ FifoStep /\ Elements # <<>> /\ Elements' = Tail(Elements)
         /\ TakenBy' = [TakenBy EXCEPT ![c] = Head(Elements)]
  <1> USE DEF At, GoTo
  <1>0. /\ c \in Threads /\ c \notin Producers /\ enqueue \in Nat /\ dequeue \in Nat
        /\ at \in [Threads -> ProducerSteps \cup ConsumerSteps]
    BY QueueAssumption DEF QueueInv, QueueTypeOK, Threads
  <1>1. /\ dequeue' = dequeue + 1 /\ pos[c] = dequeue /\ at[c] = "pop_cas"
        /\ at' = [at EXCEPT ![c] = "pop_read"]
        /\ UNCHANGED <<enqueue, sequence, value, pos, item>>
    BY DEF PopCas
  <1>2. /\ ~WriterOf(dequeue) /\ dequeue < enqueue
        /\ Reading' = Reading \cup {c} /\ Writing' = Writing
    BY PopCasInv
  <1>3. \A n \in Nat : ElementAt(n)' = ElementAt(n)
    <2>1. \A q \in Producers : at'[q] = at[q]
      BY <1>0, <1>1 DEF Threads
    <2> QED
      BY <1>1, <2>1, SameElement
  <1>4. Elements \in Seq(Values) /\ Len(Elements) = enqueue - dequeue /\ Elements # <<>>
    BY <1>0, <1>2, ElementsAreValues
  <1>5. Head(Elements) = value[CellOf(dequeue)]
    <2>1. ElementAt(dequeue) = value[CellOf(dequeue)]
      BY <1>0, <1>2, ElementIs DEF WriterOf, Writing
    <2>2. Elements[1] = ElementAt(dequeue)
      <3>1. 1 \in 1..(enqueue - dequeue) /\ dequeue + 1 - 1 = dequeue
        BY <1>0, <1>2
      <3> QED
        BY <3>1 DEF Elements
    <2> QED
      BY <1>4, <2>1, <2>2
  <1>6. Elements' = Tail(Elements)
    <2>1. enqueue' - dequeue' = Len(Elements) - 1
      BY <1>0, <1>1, <1>4
    <2>2. ASSUME NEW i \in 1..(Len(Elements) - 1) PROVE Elements'[i] = Elements[i + 1]
      <3>1. PICK n \in Nat : n = dequeue + i
        BY <1>0, <1>4
      <3>2. i + 1 \in 1..(enqueue - dequeue) /\ dequeue + (i + 1) - 1 = n
            /\ dequeue' + i - 1 = n
        BY <1>0, <1>1, <1>4, <3>1
      <3>3. Elements'[i] = ElementAt(n)'
        BY <2>1, <3>2 DEF Elements
      <3>4. Elements[i + 1] = ElementAt(n)
        BY <3>2 DEF Elements
      <3> QED
        BY <1>3, <3>3, <3>4
    <2>3. Elements' = [i \in 1..(Len(Elements) - 1) |-> Elements[i + 1]]
      BY <2>1, <2>2 DEF Elements
    <2>4. /\ Tail(Elements) \in Seq(Values) /\ Len(Tail(Elements)) = Len(Elements) - 1
          /\ \A i \in 1..(Len(Elements) - 1) : Tail(Elements)[i] = Elements[i + 1]
      BY <1>4, HeadTailProperties, Zenon
    <2> QED
      BY <2>3, <2>4, SequenceByIndex, Zenon
  <1>7. TakenBy' = [TakenBy EXCEPT ![c] = value[CellOf(dequeue)]]
    BY <1>0, <1>1 DEF TakenBy, Threads
  <1>8. Failed' = Failed
    BY <1>0, <1>1 DEF Failed
  <1>9. c \notin Writing \cup Reading
    BY <1>0, <1>1 DEF Writing, Reading
  <1>10. Fifo!Pop(c)
    BY <1>2, <1>4, <1>5, <1>6, <1>7, <1>8, <1>9 DEF Fifo!Pop, TakenBy, Failed
  <1> QED
    BY <1>4, <1>5, <1>6, <1>7, <1>10 DEF FifoStep, Fifo!Next

LEMMA PopReadMaps ==
  ASSUME QueueInv, NEW c \in Consumers, PopRead(c)
  PROVE  UNCHANGED <<Elements, TakenBy, Writing \cup Reading, Failed>>
  <1> USE DEF At, GoTo
  <1>0. /\ c \in Threads /\ c \notin Producers /\ enqueue \in Nat /\ dequeue \in Nat
        /\ at \in [Threads -> ProducerSteps \cup ConsumerSteps]
        /\ item \in [Threads -> Values \cup {None}]
    BY QueueAssumption DEF QueueInv, QueueTypeOK, Threads
  <1>1. /\ item' = [item EXCEPT ![c] = value[CellOf(pos[c])]]
        /\ at[c] = "pop_read" /\ at' = [at EXCEPT ![c] = "pop_release"]
        /\ UNCHANGED <<enqueue, dequeue, sequence, value, pos>>
    BY DEF PopRead
  <1>2. Writing' = Writing /\ Reading' = Reading
    BY PopReadInv
  <1>3. \A n \in Nat : ElementAt(n)' = ElementAt(n)
    <2>1. \A q \in Producers : at'[q] = at[q] /\ item'[q] = item[q]
      BY <1>0, <1>1 DEF Threads
    <2> QED
      BY <1>1, <2>1, SameElement
  <1>4. Elements' = Elements
    BY <1>0, <1>1, <1>3, SameElements
  <1>5. TakenBy' = TakenBy
    BY <1>0, <1>1 DEF TakenBy, Threads
  <1>6. Failed' = Failed
    BY <1>0, <1>1 DEF Failed
  <1> QED
    BY <1>2, <1>4, <1>5, <1>6

LEMMA PopReleaseMaps ==
  ASSUME QueueInv, NEW c \in Consumers, PopRelease(c)
  PROVE  FifoStep /\ UNCHANGED <<Elements, TakenBy>>
  <1> USE DEF At, GoTo
  <1>0. /\ c \in Threads /\ c \notin Producers /\ enqueue \in Nat /\ dequeue \in Nat
        /\ at \in [Threads -> ProducerSteps \cup ConsumerSteps]
    BY QueueAssumption DEF QueueInv, QueueTypeOK, Threads
  <1>1. /\ at[c] = "pop_release" /\ at' = [at EXCEPT ![c] = "popped"]
        /\ UNCHANGED <<enqueue, dequeue, value, pos, item>>
    BY DEF PopRelease
  <1>2. c \in Reading /\ Reading' = Reading \ {c} /\ Writing' = Writing /\ c \notin Writing
    BY <1>0, PopReleaseInv DEF Writing
  <1>3. \A n \in Nat : ElementAt(n)' = ElementAt(n)
    <2>1. \A q \in Producers : at'[q] = at[q]
      BY <1>0, <1>1 DEF Threads
    <2> QED
      BY <1>1, <2>1, SameElement
  <1>4. Elements' = Elements
    BY <1>0, <1>1, <1>3, SameElements
  <1>5. TakenBy' = TakenBy
    BY <1>0, <1>1 DEF TakenBy, Threads
  <1>6. Failed' = Failed
    BY <1>0, <1>1 DEF Failed
  <1>7. Fifo!Finish(c)
    BY <1>2, <1>4, <1>5, <1>6 DEF Fifo!Finish, TakenBy, Failed
  <1> QED
    BY <1>0, <1>4, <1>5, <1>7 DEF FifoStep, Fifo!Next, Threads

LEMMA UnchangedMaps ==
  ASSUME UNCHANGED queueVars
  PROVE  UNCHANGED <<Elements, TakenBy, Writing \cup Reading, Failed>>
  BY DEF queueVars, Elements, ElementAt, TakenBy, Writing, Reading, Failed, At

(* Every step of the queue is a step of the bounded FIFO, or none. *)
LEMMA QueueStepMaps ==
  ASSUME QueueInv, QueueStep \/ UNCHANGED queueVars
  PROVE  FifoStep
  <1>1. CASE UNCHANGED queueVars
    BY <1>1, UnchangedMaps DEF FifoStep
  <1>2. ASSUME NEW p \in Producers,
               PushStep(p) \/ PushReturns(p) \/ \E v \in Values : TryPush(p, v)
        PROVE  FifoStep
    <2>1. CASE PushCas(p)
      BY <2>1, PushCasMaps
    <2>2. CASE PushWrite(p)
      BY <2>2, PushWriteMaps DEF FifoStep
    <2>3. CASE PushPublish(p)
      BY <2>3, PushPublishMaps
    <2> QED
      BY <1>2, <2>1, <2>2, <2>3, QuietPushMaps DEF PushStep
  <1>3. ASSUME NEW c \in Consumers, PopStep(c) \/ PopReturns(c) \/ TryPop(c)
        PROVE  FifoStep
    <2>1. CASE PopCas(c)
      BY <2>1, PopCasMaps
    <2>2. CASE PopRead(c)
      BY <2>2, PopReadMaps DEF FifoStep
    <2>3. CASE PopRelease(c)
      BY <2>3, PopReleaseMaps
    <2> QED
      BY <1>3, <2>1, <2>2, <2>3, QuietPopMaps DEF PopStep
  <1> QED
    BY <1>1, <1>2, <1>3 DEF QueueStep

(* try_push() and try_pop() are a bounded first-in first-out queue: however *)
(* the threads' compare-exchanges and plain accesses interleave, elements   *)
(* come out once, in order and as they were pushed.                         *)
THEOREM QueueIsFifo == Spec => ImplementsFifo
  <1>1. ASSUME Init PROVE Fifo!Init
    <2>0. \A t \in Consumers : t \in Threads
      BY DEF Threads
    <2>1. Elements = <<>>
      BY <1>1 DEF Init, QueueInit, Elements
    <2>2. Writing \cup Reading = {} /\ Failed = {} /\ TakenBy = [c \in Consumers |-> None]
      BY <1>1, <2>0 DEF Init, QueueInit, Writing, Reading, Failed, TakenBy, At, Threads
    <2> QED
      BY <2>1, <2>2 DEF Fifo!Init, Failed, TakenBy
  <1>2. ASSUME DetectorInv, [Next]_vars PROVE [Fifo!Next]_(Fifo!fifo)
    <2>1. FifoStep
      BY <1>2, DetectorSteps, QueueStepMaps DEF DetectorInv
    <2> QED
      BY <2>1 DEF FifoStep, Fifo!fifo, TakenBy, Failed
  <1> QED
    BY <1>1, <1>2, DetectorInvariant, PTL DEF Spec, ImplementsFifo, Fifo!Spec

-----------------------------------------------------------------------------
(* Every sample is somewhere.                                              *)

(* The places of an element in a sequence *)
Places(s, k) == {i \in DOMAIN s : s[i] = k}

LEMMA PlacesFinite ==
  ASSUME NEW S, NEW s \in Seq(S), NEW k
  PROVE  IsFiniteSet(Places(s, k)) /\ Cardinality(Places(s, k)) \in Nat
  <1>1. Places(s, k) \in SUBSET (1..Len(s)) /\ Len(s) \in Nat
    BY DEF Places
  <1>2. IsFiniteSet(1..Len(s))
    BY <1>1, FS_Interval
  <1> QED
    BY <1>1, <1>2, FS_Subset, FS_CardinalityType, Zenon

LEMMA PlacesAppend ==
  ASSUME NEW S, NEW s \in Seq(S), NEW x \in S, NEW k
  PROVE  Cardinality(Places(Append(s, x), k))
         = Cardinality(Places(s, k)) + (IF x = k THEN 1 ELSE 0)
  <1>1. Places(s, k) \in SUBSET (1..Len(s)) /\ Len(s) \in Nat
    BY DEF Places
  <1>3. IsFiniteSet(Places(s, k)) /\ Cardinality(Places(s, k)) \in Nat
    BY PlacesFinite, Zenon
  <1>4. Places(Append(s, x), k)
        = IF x = k THEN Places(s, k) \cup {Len(s) + 1} ELSE Places(s, k)
    <2>1. /\ DOMAIN Append(s, x) = 1..(Len(s) + 1) /\ DOMAIN s = 1..Len(s)
          /\ \A i \in 1..(Len(s) + 1) : Append(s, x)[i] = IF i = Len(s) + 1 THEN x ELSE s[i]
      OBVIOUS
    <2>2. 1..(Len(s) + 1) = (1..Len(s)) \cup {Len(s) + 1} /\ Len(s) + 1 \notin 1..Len(s)
      BY <1>1
    <2> QED
      BY <2>1, <2>2 DEF Places
  <1>5. Len(s) + 1 \notin Places(s, k)
    BY <1>1
  <1>6. Cardinality(Places(s, k) \cup {Len(s) + 1}) = Cardinality(Places(s, k)) + 1
    BY <1>3, <1>5, FS_AddElement
  <1> QED
    BY <1>3, <1>4, <1>6

LEMMA PlacesTail ==
  ASSUME NEW S, NEW s \in Seq(S), s # <<>>, NEW k
  PROVE  Cardinality(Places(s, k))
         = Cardinality(Places(Tail(s), k)) + (IF Head(s) = k THEN 1 ELSE 0)
  <1> DEFINE A == Places(Tail(s), k)
             B == Places(s, k) \ {1}
  <1>0. /\ Tail(s) \in Seq(S) /\ Len(Tail(s)) = Len(s) - 1
        /\ \A i \in 1..Len(Tail(s)) : Tail(s)[i] = s[i + 1]
    BY HeadTailProperties, Zenon
  <1>1. /\ Len(s) \in Nat \ {0} /\ DOMAIN s = 1..Len(s) /\ Head(s) = s[1]
        /\ DOMAIN Tail(s) = 1..(Len(s) - 1)
    BY <1>0
  <1>2. /\ \A i \in A : i \in 1..(Len(s) - 1) /\ i + 1 \in B
        /\ \A j \in B : j \in 1..Len(s) /\ j - 1 \in A
    BY <1>0, <1>1 DEF Places
  <1>3. ExistsBijection(A, B)
    <2> DEFINE f == [i \in A |-> i + 1]
    <2>1. f \in [A -> B]
      BY <1>2
    <2>2. \A i \in A, j \in A : f[i] = f[j] => i = j
      BY <1>2
    <2>3. \A j \in B : \E i \in A : f[i] = j
      <3> SUFFICES ASSUME NEW j \in B PROVE \E i \in A : f[i] = j
        OBVIOUS
      <3>1. j - 1 \in A /\ f[j - 1] = j
        BY <1>2
      <3> QED
        BY <3>1
    <2>4. DOMAIN f = A
      OBVIOUS
    <2> HIDE DEF A, B, f
    <2>5. f \in Bijection(A, B)
      BY <2>1, <2>2, <2>3, <2>4, Zenon DEF Bijection, Injection, Surjection, IsInjective
    <2> QED
      BY <2>5, Zenon DEF ExistsBijection
  <1>4. IsFiniteSet(A) /\ IsFiniteSet(Places(s, k)) /\ Cardinality(Places(s, k)) \in Nat
    BY <1>0, PlacesFinite, Zenon
  <1>5. Cardinality(B) = Cardinality(A)
    BY <1>3, <1>4, FS_Bijection, Zenon
  <1>6. Cardinality(B) = IF 1 \in Places(s, k) THEN Cardinality(Places(s, k)) - 1
                                                ELSE Cardinality(Places(s, k))
    BY <1>4, FS_RemoveElement
  <1>7. 1 \in Places(s, k) <=> Head(s) = k
    BY <1>1 DEF Places
  <1> QED
    BY <1>4, <1>5, <1>6, <1>7

(* The recorders that have taken a place for a sample of k and not returned *)
ClaimedBy(k) == {p \in Producers :
                    at[p] \in {"push_write", "push_publish", "pushed"} /\ item[p] = k}
Recording == {p \in Producers : ~At(p, "idle")}

LEMMA RecordersFinite ==
  /\ \A k : IsFiniteSet(ClaimedBy(k)) /\ Cardinality(ClaimedBy(k)) \in Nat
  /\ IsFiniteSet(Recording) /\ Cardinality(Recording) \in Nat
  <1>1. IsFiniteSet(Producers)
    BY DetectorAssumption, FS_Interval
  <1>2. \A k : ClaimedBy(k) \in SUBSET Producers
    BY DEF ClaimedBy
  <1>3. Recording \in SUBSET Producers
    BY DEF Recording
  <1> QED
    BY <1>1, <1>2, <1>3, FS_Subset, FS_CardinalityType, Zenon

(* What is in the worker's hands is what the refinement says it has taken. *)
LEMMA InHandIsTaken ==
  \A k : InHand(k) = IF /\ at[worker_] \in {"pop_read", "pop_release", "popped"}
                        /\ TakenBy[worker_] = k THEN 1 ELSE 0
  BY DetectorAssumption DEF InHand, TakenBy, At

(* A recorder's step moves its sample from nowhere into the queue, or takes *)
(* it from the claimed to the recorded ones.                                *)
LEMMA PushBalance ==
  ASSUME QueueInv, QueueInv', NEW p \in Producers, NEW k \in Values,
         PushStep(p) \/ PushReturns(p) \/ \E v \in Values : TryPush(p, v)
  PROVE  /\ InHand(k)' = InHand(k)
         /\ Claimed(k) + Queued(k)'
            = Claimed(k)' + Queued(k) + IF At(p, "pushed") /\ item[p] = k THEN 1 ELSE 0
  <1> USE DEF At, GoTo
  <1>0. /\ p \in Threads /\ worker_ \in Threads /\ p # worker_
        /\ at \in [Threads -> ProducerSteps \cup ConsumerSteps]
        /\ item \in [Threads -> Values \cup {None}]
    BY DetectorAssumption, QueueAssumption DEF QueueInv, QueueTypeOK, Threads
  <1>1. /\ at'[worker_] = at[worker_]
        /\ \A q \in Producers \ {p} : at'[q] = at[q] /\ item'[q] = item[q]
    BY <1>0 DEF PushStep, PushLoad, PushCheck, PushCas, PushCasFails, PushWrite, PushPublish,
       PushReturns, TryPush, Threads
  <1>2. /\ IsFiniteSet(ClaimedBy(k)) /\ Cardinality(ClaimedBy(k)) \in Nat
        /\ Claimed(k) = Cardinality(ClaimedBy(k)) /\ Claimed(k)' = Cardinality(ClaimedBy(k)')
    BY RecordersFinite DEF Claimed, ClaimedBy
  <1>3. /\ Elements \in Seq(Values) /\ Cardinality(Places(Elements, k)) \in Nat
        /\ Queued(k) = Cardinality(Places(Elements, k))
        /\ Queued(k)' = Cardinality(Places(Elements', k))
    BY ElementsAreValues, PlacesFinite DEF Queued, Places
  <1>4. TakenBy' = TakenBy /\ (~PushCas(p) => Elements' = Elements)
    BY PushCasMaps, PushWriteMaps, PushPublishMaps, QuietPushMaps DEF PushStep
  <1>5. InHand(k)' = InHand(k)
    <2>1. InHand(k)' = IF /\ at'[worker_] \in {"pop_read", "pop_release", "popped"}
                          /\ TakenBy'[worker_] = k THEN 1 ELSE 0
      BY DetectorAssumption DEF InHand, TakenBy
    <2> QED
      BY <1>1, <1>4, <2>1, InHandIsTaken
  <1>6. CASE PushCas(p)
    <2>1. at[p] = "push_cas" /\ at'[p] = "push_write" /\ item'[p] = item[p]
      BY <1>0, <1>6 DEF PushCas
    <2>2. /\ p \notin ClaimedBy(k)
          /\ ClaimedBy(k)' = IF item[p] = k THEN ClaimedBy(k) \cup {p} ELSE ClaimedBy(k)
      BY <1>1, <2>1 DEF ClaimedBy
    <2>3. Claimed(k)' = Claimed(k) + IF item[p] = k THEN 1 ELSE 0
      <3>1. Cardinality(ClaimedBy(k) \cup {p}) = IF p \in ClaimedBy(k)
                                                 THEN Cardinality(ClaimedBy(k))
                                                 ELSE Cardinality(ClaimedBy(k)) + 1
        BY <1>2, FS_AddElement, Zenon
      <3> QED
        BY <1>2, <2>2, <3>1
    <2>4. Elements' = Append(Elements, item[p]) /\ item[p] \in Values
      BY <1>6, PushCasMaps
    <2>5. Queued(k)' = Queued(k) + IF item[p] = k THEN 1 ELSE 0
      BY <1>3, <2>4, PlacesAppend
    <2> QED
      BY <1>2, <1>3, <1>5, <2>1, <2>3, <2>5
  <1>7. CASE at[p] = "pushed"
    <2>1. at'[p] = "idle" /\ ~PushCas(p)
      BY <1>0, <1>7 DEF PushStep, PushLoad, PushCheck, PushCas, PushCasFails, PushWrite,
         PushPublish, PushReturns, TryPush
    <2>2. /\ p \in ClaimedBy(k) <=> item[p] = k
          /\ ClaimedBy(k)' = ClaimedBy(k) \ {p}
      BY <1>1, <1>7, <2>1 DEF ClaimedBy
    <2>3. Cardinality(ClaimedBy(k) \ {p}) = IF p \in ClaimedBy(k)
                                            THEN Cardinality(ClaimedBy(k)) - 1
                                            ELSE Cardinality(ClaimedBy(k))
      BY <1>2, FS_RemoveElement, Zenon
    <2>4. Claimed(k)' = Claimed(k) - IF item[p] = k THEN 1 ELSE 0
      BY <1>2, <2>2, <2>3
    <2> QED
      BY <1>2, <1>3, <1>4, <1>5, <1>7, <2>1, <2>4
  <1>8. CASE at[p] # "pushed" /\ ~PushCas(p)
    <2>1. (p \in ClaimedBy(k)') <=> p \in ClaimedBy(k)
      BY <1>0, <1>8 DEF ClaimedBy, PushStep, PushLoad, PushCheck, PushCasFails, PushWrite,
         PushPublish, PushReturns, TryPush
    <2>2. ClaimedBy(k)' = ClaimedBy(k)
      BY <1>1, <2>1 DEF ClaimedBy
    <2> QED
      BY <1>2, <1>3, <1>4, <1>5, <1>8, <2>2
  <1> QED
    BY <1>6, <1>7, <1>8

(* The worker's step moves the first element into its hands, or takes it    *)
(* from there to the counts.                                                *)
LEMMA PopBalance ==
  ASSUME QueueInv, QueueInv', NEW k \in Values,
         PopStep(worker_) \/ PopReturns(worker_) \/ TryPop(worker_)
  PROVE  /\ Claimed(k)' = Claimed(k) /\ Recording' = Recording
         /\ Queued(k) + InHand(k) = Queued(k)' + InHand(k)'
               + IF At(worker_, "popped") /\ item[worker_] = k THEN 1 ELSE 0
  <1> USE DEF At, GoTo
  <1>0. /\ worker_ \in Consumers /\ worker_ \in Threads /\ worker_ \notin Producers
        /\ at \in [Threads -> ProducerSteps \cup ConsumerSteps]
        /\ item \in [Threads -> Values \cup {None}] /\ DOMAIN TakenBy = Consumers
    BY DetectorAssumption, QueueAssumption DEF QueueInv, QueueTypeOK, Threads, TakenBy
  <1>1. \A q \in Producers : at'[q] = at[q] /\ item'[q] = item[q]
    BY <1>0 DEF PopStep, PopLoad, PopCheck, PopCas, PopCasFails, PopRead, PopRelease,
       PopReturns, TryPop, Threads
  <1>2. Claimed(k)' = Claimed(k) /\ Recording' = Recording
    BY <1>1 DEF Claimed, Recording
  <1>3. /\ Elements \in Seq(Values) /\ Cardinality(Places(Elements, k)) \in Nat
        /\ Queued(k) = Cardinality(Places(Elements, k))
        /\ Queued(k)' = Cardinality(Places(Elements', k))
    BY ElementsAreValues, PlacesFinite DEF Queued, Places
  <1>4. ~PopCas(worker_) => TakenBy' = TakenBy /\ Elements' = Elements
    BY <1>0, PopReadMaps, PopReleaseMaps, QuietPopMaps DEF PopStep
  <1>5. /\ InHand(k) = IF /\ at[worker_] \in {"pop_read", "pop_release", "popped"}
                          /\ TakenBy[worker_] = k THEN 1 ELSE 0
        /\ InHand(k)' = IF /\ at'[worker_] \in {"pop_read", "pop_release", "popped"}
                           /\ TakenBy'[worker_] = k THEN 1 ELSE 0
    BY DetectorAssumption, InHandIsTaken DEF InHand, TakenBy
  <1>6. CASE PopCas(worker_)
    <2>1. at[worker_] = "pop_cas" /\ at'[worker_] = "pop_read"
      BY <1>0, <1>6 DEF PopCas
    <2>2. /\ Elements # <<>> /\ Elements' = Tail(Elements)
          /\ TakenBy' = [TakenBy EXCEPT ![worker_] = Head(Elements)]
      BY <1>0, <1>6, PopCasMaps
    <2>3. TakenBy'[worker_] = Head(Elements)
      BY <1>0, <2>2
    <2>4. Elements' \in Seq(Values)
      BY <1>3, <2>2, HeadTailProperties, Zenon
    <2>5. Cardinality(Places(Elements', k)) \in Nat
      BY <2>4, PlacesFinite
    <2>6. Queued(k) = Queued(k)' + IF Head(Elements) = k THEN 1 ELSE 0
      BY <1>3, <2>2, PlacesTail
    <2> QED
      BY <1>2, <1>3, <1>5, <2>1, <2>3, <2>5, <2>6
  <1>7. CASE at[worker_] = "popped"
    <2>1. at'[worker_] = "idle" /\ ~PopCas(worker_)
      BY <1>0, <1>7 DEF PopStep, PopLoad, PopCheck, PopCas, PopCasFails, PopRead, PopRelease,
         PopReturns, TryPop
    <2>2. TakenBy[worker_] = item[worker_]
      BY <1>0, <1>7 DEF TakenBy
    <2> QED
      BY <1>2, <1>3, <1>4, <1>5, <1>7, <2>1, <2>2
  <1>8. CASE at[worker_] # "popped" /\ ~PopCas(worker_)
    <2>1. at'[worker_] \in {"pop_read", "pop_release", "popped"}
          <=> at[worker_] \in {"pop_read", "pop_release", "popped"}
      BY <1>0, <1>8 DEF PopStep, PopLoad, PopCheck, PopCasFails, PopRead, PopRelease,
         PopReturns, TryPop
    <2> QED
      BY <1>2, <1>3, <1>4, <1>5, <1>8, <2>1
  <1> QED
    BY <1>6, <1>7, <1>8

(* The terms of the accounts are numbers, before and after a step. *)
AccountsAreNumbers ==
    /\ \A k \in Values : Claimed(k) \in Nat /\ Queued(k) \in Nat /\ InHand(k) \in Nat
    /\ IsFiniteSet(Recording) /\ Cardinality(Recording) \in Nat

LEMMA AccountNumbers == QueueInv => AccountsAreNumbers
  <1> SUFFICES ASSUME QueueInv PROVE AccountsAreNumbers
    OBVIOUS
  <1>1. \A k \in Values : Claimed(k) \in Nat
    BY RecordersFinite DEF Claimed, ClaimedBy
  <1>2. \A k \in Values : Queued(k) \in Nat
    BY ElementsAreValues, PlacesFinite DEF Queued, Places
  <1>3. \A k \in Values : InHand(k) \in Nat
    BY DEF InHand
  <1> QED
    BY <1>1, <1>2, <1>3, RecordersFinite DEF AccountsAreNumbers

LEMMA AccountNumbersNext == (QueueInv => AccountsAreNumbers)'
  BY AccountNumbers, PTL

(* A recorder's step leaves the accounts balanced. *)
LEMMA RecorderAccounts ==
  ASSUME DetectorInv, QueueInv', SamplesAccounted, NEW p \in Producers,
         ProducerStep(p) \/ \E v \in Values : Record(p, v)
  PROVE  SamplesAccounted'
  <1> USE DEF At, GoTo
  <1>0. /\ QueueInv /\ AccountsAreNumbers /\ AccountsAreNumbers'
        /\ recorded \in [Values -> Nat] /\ counts \in [Values -> Nat]
        /\ evaluated \in [Values -> Nat] /\ dropped \in Nat /\ records \in Nat
        /\ CounterIds \in Nat /\ Values = 0..(CounterIds - 1)
        /\ p \in Threads /\ at \in [Threads -> ProducerSteps \cup ConsumerSteps]
    BY AccountNumbers, AccountNumbersNext, DetectorAssumption
       DEF DetectorInv, TypeOK, Threads, QueueTypeOK
  <1>1. PushStep(p) \/ PushReturns(p) \/ \E v \in Values : TryPush(p, v)
    BY DEF ProducerStep, Recorded, Dropped, Record
  <1>2. UNCHANGED <<counts, evaluated>>
    BY DEF ProducerStep, Recorded, Dropped, Record, detectorVars
  <1>3. at[p] = "pushed" <=> Recorded(p)
    BY <1>1 DEF Recorded, ProducerStep, Dropped, Record, PushStep, PushLoad, PushCheck,
       PushCas, PushCasFails, PushWrite, PushPublish, TryPush
  <1>4. ~Recorded(p) => recorded' = recorded
    BY DEF ProducerStep, Dropped, Record, detectorVars
  <1>5. Recorded(p) => /\ item[p] \in Values
                       /\ recorded' = [recorded EXCEPT ![item[p]] = @ + 1]
    BY <1>0, <1>3 DEF QueueInv, ValuesOK, Recorded
  <1>6. \A k \in Values :
           recorded'[k] + Claimed(k)' = Queued(k)' + InHand(k)' + counts'[k] + evaluated'[k]
    <2> SUFFICES ASSUME NEW k \in Values
                 PROVE  recorded'[k] + Claimed(k)'
                        = Queued(k)' + InHand(k)' + counts'[k] + evaluated'[k]
      OBVIOUS
    <2>1. /\ InHand(k)' = InHand(k)
          /\ Claimed(k) + Queued(k)'
             = Claimed(k)' + Queued(k) + IF at[p] = "pushed" /\ item[p] = k THEN 1 ELSE 0
      BY <1>0, <1>1, PushBalance
    <2>2. recorded'[k] = recorded[k] + IF at[p] = "pushed" /\ item[p] = k THEN 1 ELSE 0
      BY <1>0, <1>3, <1>4, <1>5
    <2>3. /\ Claimed(k) \in Nat /\ Queued(k) \in Nat /\ InHand(k) \in Nat
          /\ Claimed(k)' \in Nat /\ Queued(k)' \in Nat
      BY <1>0 DEF AccountsAreNumbers
    <2>4. recorded[k] + Claimed(k) = Queued(k) + InHand(k) + counts[k] + evaluated[k]
      BY DEF SamplesAccounted
    <2>5. recorded[k] \in Nat /\ counts[k] \in Nat /\ evaluated[k] \in Nat
      BY <1>0
    <2>6. PICK d \in Nat : d = IF at[p] = "pushed" /\ item[p] = k THEN 1 ELSE 0
      OBVIOUS
    <2>7. /\ Claimed(k) + Queued(k)' = Claimed(k)' + Queued(k) + d
          /\ recorded'[k] = recorded[k] + d /\ counts'[k] = counts[k]
          /\ evaluated'[k] = evaluated[k] /\ InHand(k)' = InHand(k)
      BY <1>2, <2>1, <2>2, <2>6
    <2> QED
      BY <2>3, <2>4, <2>5, <2>7
  <1>7. records' = SumTo(recorded', CounterIds) + dropped' + Cardinality(Recording')
    <2>0. /\ records = SumTo(recorded, CounterIds) + dropped + Cardinality(Recording)
          /\ SumTo(recorded, CounterIds) \in Nat
          /\ IsFiniteSet(Recording) /\ Cardinality(Recording) \in Nat
      BY <1>0, SumToNat DEF SamplesAccounted, Recording, AccountsAreNumbers
    <2>1. /\ Cardinality(Recording \cup {p}) = IF p \in Recording
                 THEN Cardinality(Recording) ELSE Cardinality(Recording) + 1
          /\ Cardinality(Recording \ {p}) = IF p \in Recording
                 THEN Cardinality(Recording) - 1 ELSE Cardinality(Recording)
      BY <2>0, FS_AddElement, FS_RemoveElement, Zenon
    <2>2. \A q \in Producers \ {p} : at'[q] = at[q]
      BY <1>0, <1>1 DEF PushStep, PushLoad, PushCheck, PushCas, PushCasFails, PushWrite,
         PushPublish, PushReturns, TryPush, Threads
    <2>3. CASE PushStep(p) /\ UNCHANGED detectorVars
      <3>1. at[p] # "idle" /\ at'[p] # "idle"
        BY <1>0, <2>3 DEF PushStep, PushLoad, PushCheck, PushCas, PushCasFails, PushWrite,
           PushPublish
      <3>2. Recording' = Recording
        BY <2>2, <3>1 DEF Recording
      <3> QED
        BY <2>0, <2>3, <3>2 DEF detectorVars
    <2>4. CASE Recorded(p)
      <3>1. at[p] = "pushed" /\ at'[p] = "idle" /\ dropped' = dropped /\ records' = records
        BY <1>0, <2>4 DEF Recorded, PushReturns
      <3>2. Recording' = Recording \ {p} /\ p \in Recording
        BY <2>2, <3>1 DEF Recording
      <3>3. SumTo(recorded', CounterIds)
            = SumTo(recorded, CounterIds) + (recorded'[item[p]] - recorded[item[p]])
        <4>1. /\ \A i \in 0..(CounterIds - 1) : recorded[i] \in Int
              /\ \A i \in 0..(CounterIds - 1) : i # item[p] => recorded'[i] = recorded[i]
              /\ recorded'[item[p]] \in Int /\ item[p] \in 0..(CounterIds - 1)
          <5>1. recorded' = [recorded EXCEPT ![item[p]] = @ + 1] /\ item[p] \in Values
            BY <1>5, <2>4
          <5>2. recorded \in [Values -> Nat] /\ Values = 0..(CounterIds - 1)
            BY <1>0
          <5>3. \A i \in Values : recorded[i] \in Int
            BY <5>2
          <5>4. \A i \in Values : i # item[p] => recorded'[i] = recorded[i]
            BY <5>1, <5>2
          <5>5. recorded'[item[p]] \in Int
            BY <5>1, <5>2
          <5> QED
            BY <5>1, <5>2, <5>3, <5>4, <5>5
        <4>2. CounterIds \in Nat
          BY <1>0
        <4> DEFINE k == item[p]
        <4>3. /\ \A i \in 0..(CounterIds - 1) : i # k => recorded'[i] = recorded[i]
              /\ recorded'[k] \in Int /\ k \in 0..(CounterIds - 1)
          BY <4>1
        <4> HIDE DEF k
        <4>4. SumTo(recorded', CounterIds) = SumTo(recorded, CounterIds)
                                             + (recorded'[k] - recorded[k])
          BY <4>1, <4>2, <4>3, SumToChange
        <4> QED
          BY <4>4 DEF k
      <3>4. recorded'[item[p]] = recorded[item[p]] + 1 /\ recorded[item[p]] \in Nat
        BY <1>0, <1>5, <2>4
      <3>5. Cardinality(Recording') = Cardinality(Recording) - 1
        BY <2>1, <3>2
      <3>6. SumTo(recorded', CounterIds) = SumTo(recorded, CounterIds) + 1
        BY <2>0, <3>3, <3>4
      <3> QED
        BY <1>0, <2>0, <3>1, <3>5, <3>6
    <2>5. CASE Dropped(p)
      <3>1. /\ at[p] = "full" /\ at'[p] = "idle" /\ dropped' = dropped + 1
            /\ UNCHANGED <<records, recorded>>
        BY <1>0, <2>5 DEF Dropped, PushReturns
      <3>2. Recording' = Recording \ {p} /\ p \in Recording
        BY <2>2, <3>1 DEF Recording
      <3>3. Cardinality(Recording') = Cardinality(Recording) - 1
        BY <2>1, <3>2
      <3> QED
        BY <1>0, <2>0, <3>1, <3>3
    <2>6. CASE \E v \in Values : Record(p, v)
      <3>1. /\ at[p] = "idle" /\ at'[p] = "push_load" /\ records' = records + 1
            /\ UNCHANGED <<dropped, recorded>>
        BY <1>0, <2>6 DEF Record, TryPush
      <3>2. Recording' = Recording \cup {p} /\ p \notin Recording
        BY <2>2, <3>1 DEF Recording
      <3>3. Cardinality(Recording') = Cardinality(Recording) + 1
        BY <2>1, <3>2
      <3> QED
        BY <1>0, <2>0, <3>1, <3>3
    <2> QED
      BY <2>3, <2>4, <2>5, <2>6 DEF ProducerStep
  <1> QED
    BY <1>6, <1>7 DEF SamplesAccounted, Recording

(* The other steps leave them balanced. *)
LEMMA WorkerAccounts ==
  ASSUME DetectorInv, QueueInv', SamplesAccounted,
         WorkerStep \/ Start \/ Stop \/ Join \/ UNCHANGED vars
  PROVE  SamplesAccounted'
  <1> USE DEF At, GoTo
  <1>0. /\ QueueInv /\ AccountsAreNumbers /\ AccountsAreNumbers'
        /\ recorded \in [Values -> Nat] /\ counts \in [Values -> Nat]
        /\ evaluated \in [Values -> Nat]
    BY AccountNumbers, AccountNumbersNext DEF DetectorInv, TypeOK
  <1>1. UNCHANGED <<recorded, dropped, records>>
    BY DEF WorkerStep, detectorVars, Check, Drain, CountSample, Evaluate, Start, Stop, Join,
       vars
  <1>2. CASE UNCHANGED queueVars
    <2>1. /\ \A k \in Values : UNCHANGED <<Claimed(k), Queued(k), InHand(k)>>
          /\ Recording' = Recording
      BY <1>2, UnchangedMaps DEF queueVars, Claimed, Queued, InHand, Recording
    <2>2. UNCHANGED <<counts, evaluated>>
      <3>1. at[worker_] = "idle" => at'[worker_] = "idle"
        BY <1>2 DEF queueVars
      <3>2. ~CountSample /\ ~Evaluate
        <4>1. worker_ \in Threads /\ at \in [Threads -> ProducerSteps \cup ConsumerSteps]
          BY <1>0, DetectorAssumption DEF QueueInv, QueueTypeOK, Threads
        <4> QED
          BY <1>2, <4>1 DEF CountSample, Evaluate, PopReturns, queueVars
      <3> QED
        BY <3>2 DEF WorkerStep, detectorVars, Check, Drain, Start, Stop, Join, vars
    <2> QED
      BY <1>1, <2>1, <2>2 DEF SamplesAccounted, Recording
  <1>3. CASE PopStep(worker_) \/ PopReturns(worker_) \/ TryPop(worker_)
    <2>1. \A k \in Values :
             /\ Claimed(k)' = Claimed(k)
             /\ Queued(k) + InHand(k) = Queued(k)' + InHand(k)'
                   + IF at[worker_] = "popped" /\ item[worker_] = k THEN 1 ELSE 0
      BY <1>0, <1>3, PopBalance
    <2>2. Recording' = Recording
      BY <1>0, <1>3, DetectorAssumption, QueueAssumption DEF Recording, PopStep, PopLoad,
         PopCheck, PopCas, PopCasFails, PopRead, PopRelease, PopReturns, TryPop, QueueInv,
         QueueTypeOK, Threads
    <2>3. \A k \in Values : counts'[k] + evaluated'[k] = counts[k] + evaluated[k]
                   + IF at[worker_] = "popped" /\ item[worker_] = k THEN 1 ELSE 0
      <3>1. CASE CountSample
        <4>1. item[worker_] \in Values
          BY <1>0, <3>1, DetectorAssumption DEF CountSample, QueueInv, ValuesOK
        <4> QED
          BY <1>0, <3>1, <4>1 DEF CountSample
      <3>2. CASE Evaluate
        BY <1>0, <3>2 DEF Evaluate, CountsCleared, NoCounts
      <3>3. CASE ~CountSample /\ ~Evaluate
        <4>1. UNCHANGED <<counts, evaluated>>
          BY <3>3 DEF WorkerStep, detectorVars, Check, Drain, Start, Stop, Join, vars
        <4>2. at[worker_] # "popped"
          <5>1. worker_ \in Threads /\ at \in [Threads -> ProducerSteps \cup ConsumerSteps]
            BY <1>0, DetectorAssumption DEF QueueInv, QueueTypeOK, Threads
          <5>2. at'[worker_] # at[worker_]
            BY <1>3, <5>1 DEF PopStep, PopLoad, PopCheck, PopCas, PopCasFails, PopRead,
               PopRelease, PopReturns, TryPop
          <5>3. ~UNCHANGED queueVars
            BY <5>2 DEF queueVars
          <5>4. (PopStep(worker_) /\ UNCHANGED detectorVars) \/ Drain
            BY <3>3, <5>3 DEF WorkerStep, Check, Start, Stop, Join, vars
          <5> QED
            BY <5>4 DEF PopStep, PopLoad, PopCheck, PopCas, PopCasFails, PopRead, PopRelease,
               Drain, TryPop
        <4> QED
          BY <1>0, <4>1, <4>2
      <3> QED
        BY <3>1, <3>2, <3>3
    <2>4. \A k \in Values : /\ Claimed(k) \in Nat /\ Queued(k) \in Nat /\ InHand(k) \in Nat
                            /\ Queued(k)' \in Nat /\ InHand(k)' \in Nat
                            /\ counts'[k] + evaluated'[k] \in Nat
      BY <1>0, <2>3 DEF AccountsAreNumbers
    <2>5. counts' \in [Values -> Nat] /\ evaluated' \in [Values -> Nat]
      <3>1. at[worker_] = "popped" => item[worker_] \in Values
        BY <1>0, DetectorAssumption DEF QueueInv, ValuesOK
      <3> QED
        BY <1>0, <3>1 DEF WorkerStep, detectorVars, Check, Drain, CountSample, Evaluate, Start,
           Stop, Join, vars, CountsCleared, NoCounts
    <2>6. \A k \in Values :
             recorded[k] + Claimed(k) = Queued(k) + InHand(k) + counts[k] + evaluated[k]
      BY DEF SamplesAccounted
    <2>7. \A k \in Values :
             recorded'[k] + Claimed(k)' = Queued(k)' + InHand(k)' + counts'[k] + evaluated'[k]
      <3> SUFFICES ASSUME NEW k \in Values
                   PROVE  recorded'[k] + Claimed(k)'
                          = Queued(k)' + InHand(k)' + counts'[k] + evaluated'[k]
        OBVIOUS
      <3>1. /\ recorded[k] \in Nat /\ counts[k] \in Nat /\ evaluated[k] \in Nat
            /\ counts'[k] \in Nat /\ evaluated'[k] \in Nat /\ recorded'[k] = recorded[k]
        BY <1>0, <1>1, <2>5
      <3>2. PICK d \in Nat : d = IF at[worker_] = "popped" /\ item[worker_] = k THEN 1 ELSE 0
        OBVIOUS
      <3>3. /\ Queued(k) + InHand(k) = Queued(k)' + InHand(k)' + d
            /\ counts'[k] + evaluated'[k] = counts[k] + evaluated[k] + d
            /\ Claimed(k)' = Claimed(k)
        BY <2>1, <2>3, <3>2
      <3>4. recorded[k] + Claimed(k) = Queued(k) + InHand(k) + counts[k] + evaluated[k]
        BY <2>6
      <3>5. /\ Claimed(k) \in Nat /\ Queued(k) \in Nat /\ InHand(k) \in Nat
            /\ Queued(k)' \in Nat /\ InHand(k)' \in Nat
        BY <2>4
      <3>6. recorded'[k] + Claimed(k)' = recorded[k] + Claimed(k)
        BY <3>1, <3>3
      <3>7. Queued(k) + InHand(k) + counts[k] + evaluated[k]
            = Queued(k)' + InHand(k)' + counts'[k] + evaluated'[k]
        <4>1. PICK q \in Nat : q = Queued(k)'
          BY <3>5
        <4>2. PICK h \in Nat : h = InHand(k)'
          BY <3>5
        <4>3. PICK c \in Nat : c = counts'[k]
          BY <3>1
        <4>4. PICK e \in Nat : e = evaluated'[k]
          BY <3>1
        <4>5. Queued(k) + InHand(k) = q + h + d /\ c + e = counts[k] + evaluated[k] + d
          BY <3>3, <4>1, <4>2, <4>3, <4>4, Zenon
        <4>6. Queued(k) + InHand(k) + counts[k] + evaluated[k] = q + h + c + e
          BY <3>1, <3>5, <4>5
        <4> QED
          BY <4>1, <4>2, <4>3, <4>4, <4>6, Zenon
      <3> QED
        BY <3>4, <3>6, <3>7, Zenon
    <2> QED
      BY <1>1, <2>2, <2>7 DEF SamplesAccounted, Recording
  <1> QED
    BY <1>2, <1>3 DEF WorkerStep, Check, Drain, CountSample, Evaluate, Start, Stop, Join, vars

(* Every sample record() accepted is in the queue, in the worker's hands or *)
(* in a window, once and for its counter; every other one was dropped.      *)
THEOREM SamplesStayAccounted == Spec => []SamplesAccounted
  <1>1. ASSUME Init PROVE SamplesAccounted
    <2>1. Elements = <<>>
      BY <1>1 DEF Init, QueueInit, Elements
    <2>2. \A k : ClaimedBy(k) = {} /\ Places(Elements, k) = {}
      BY <1>1, <2>1 DEF Init, QueueInit, ClaimedBy, Places, Threads
    <2>3. Recording = {}
      BY <1>1 DEF Init, QueueInit, Recording, Threads, At
    <2>4. \A k : Claimed(k) = 0 /\ Queued(k) = 0 /\ InHand(k) = 0
      BY <1>1, <2>2, FS_EmptySet, DetectorAssumption DEF Init, QueueInit, Claimed, ClaimedBy,
         Queued, Places, InHand, At, Threads
    <2>5. SumTo(recorded, CounterIds) = 0
      BY <1>1, SumToZeros, DetectorAssumption DEF Init, NoCounts
    <2>6. Cardinality(Recording) = 0
      BY <2>3, FS_EmptySet
    <2> QED
      BY <1>1, <2>4, <2>5, <2>6 DEF Init, SamplesAccounted, Recording, NoCounts
  <1>2. ASSUME DetectorInv, DetectorInv', SamplesAccounted, [Next]_vars
        PROVE  SamplesAccounted'
    BY <1>2, RecorderAccounts, WorkerAccounts DEF Next, DetectorInv
  <1> QED
    BY <1>1, <1>2, DetectorInvariant, PTL DEF Spec
=============================================================================
