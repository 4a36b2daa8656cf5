-------------------------- MODULE ReplicationProofs --------------------------
(***************************************************************************)
(* Proofs about the snapshot replicators, for any number of nodes, keys,   *)
(* values and restarts and any capacity of the queues.  One invariant,     *)
(* Replicas, has four parts: the shape of the state, the origin of every   *)
(* value in it, the meaning of a sequence number while no process has      *)
(* restarted, and NoSilentLoss itself.                                     *)
(***************************************************************************)
EXTENDS Replication, SumsProofs, SequenceTheorems, FiniteSetTheorems

Updates == [key : Keys, value : Values]
SnapshotFrames == [type : {"Snapshot"}, from : Nodes, to : Nodes, seq : Nat,
                   key : Keys, value : Values]
AckFrames == [type : {"Ack"}, from : Nodes, to : Nodes, seq : Nat]

(* What TypeOK leaves open: the shape of queues, frames and histories *)
Shape ==
    /\ outbound \in [Nodes -> Seq(Updates)]
    /\ coalesced \in [Nodes -> SUBSET Updates]
    /\ pending \in [Nodes -> SUBSET Entry]
    /\ next_sequence \in [Nodes -> Nat]
    /\ published \in [Nodes -> [Keys -> {0} \cup Values]]
    /\ msgs \subseteq SnapshotFrames \cup AckFrames
    /\ restarts \in Nat
    /\ \A n \in Nodes : IsFiniteSet(coalesced[n]) /\ IsFiniteSet(pending[n])

(* Every value on its way, or merged, is one its node published, or older *)
Origin ==
    /\ \A n \in Nodes : \A u \in Range(outbound[n]) : u.value <= published[n][u.key]
    /\ \A n \in Nodes : \A u \in coalesced[n] : u.value <= published[n][u.key]
    /\ \A n \in Nodes : \A p \in pending[n] : p.value <= published[n][p.key]
    /\ \A f \in msgs : f.type = "Snapshot" => f.value <= published[f.from][f.key]
    /\ \A m, c \in Nodes, k \in Keys : components[m][c][k] <= published[c][k]

(* A sequence number names one snapshot for one peer, and an acknowledged   *)
(* one has been merged there                                                *)
Names(f) ==
    /\ f.seq < next_sequence[f.from]
    /\ \A p \in pending[f.from] :
          p.seq = f.seq => p.peer = f.to /\ p.key = f.key /\ p.value = f.value
Confirms(f) ==
    /\ f.seq < next_sequence[f.to]
    /\ \A p \in pending[f.to] :
          p.seq = f.seq /\ p.peer = f.from => components[f.from][f.to][p.key] >= p.value
Numbered ==
    \A f \in msgs : /\ f.type = "Snapshot" => Names(f)
                    /\ f.type = "Ack" => Confirms(f)

(* Peer m has what n published under k, or will be sent it; this is what    *)
(* NoSilentLoss asks for where nothing was counted as dropped               *)
Covered(n, m, k) ==
    \/ components[m][n][k] >= published[n][k]
    \/ OnItsWay(n, m, k, published[n][k])

Replicas == Shape /\ TypeOK /\ Origin /\ (restarts = 0 => Numbered /\ NoSilentLoss)

-----------------------------------------------------------------------------
(* The order of the frames in one drain.                                    *)

(* A position i in a table of a rows of d entries has a row and a column *)
LEMMA RowAndColumn ==
    ASSUME NEW d \in Nat \ {0}, NEW a \in Nat, NEW i \in 1..(a * d)
    PROVE  /\ (i - 1) \div d \in 0..(a - 1)
           /\ (i - 1) % d \in 0..(d - 1)
<1>. DEFINE q == (i - 1) \div d
            r == (i - 1) % d
<1>1. q \in Int /\ r \in 0..(d - 1) /\ i - 1 = d * q + r
  OBVIOUS
<1>. HIDE DEF q, r
<1>2. a * d \in Nat /\ i - 1 < a * d
  OBVIOUS
<1>3. q >= 0
  <2>1. q <= -1 => d * q <= -d
    BY <1>1
  <2>. QED BY <1>1, <2>1
<1>4. q <= a - 1
  <2>1. q >= a => d * q >= a * d
    BY <1>1
  <2>. QED BY <1>1, <1>2, <2>1
<1>. QED BY <1>1, <1>3, <1>4 DEF q, r

(* ... and every row and column has its position *)
LEMMA PositionOf ==
    ASSUME NEW d \in Nat \ {0}, NEW a \in Nat, NEW j \in 0..(a - 1), NEW c \in 0..(d - 1)
    PROVE  \E i \in 1..(a * d) : (i - 1) \div d = j /\ (i - 1) % d = c
<1>. DEFINE i == j * d + c + 1
<1>1. j * d \in Nat /\ j * d + d <= a * d
  OBVIOUS
<1>2. i \in 1..(a * d)
  BY <1>1
<1>. DEFINE q == (i - 1) \div d
            r == (i - 1) % d
<1>3. q \in Int /\ r \in 0..(d - 1) /\ i - 1 = d * q + r
  BY <1>1
<1>4. i - 1 = d * j + c
  BY <1>1
<1>. HIDE DEF q, r, i
<1>5. d * q + r = d * j + c
  BY <1>3, <1>4
<1>6. q >= j + 1 => d * q >= d * j + d
  BY <1>3
<1>7. q <= j - 1 => d * q <= d * j - d
  BY <1>3
<1>8. d * q \in Int /\ d * j \in Int
  BY <1>3
<1>9. q = j
  BY <1>3, <1>5, <1>6, <1>7, <1>8
<1>10. r = c
  BY <1>3, <1>5, <1>8, <1>9
<1>. QED BY <1>2, <1>9, <1>10 DEF q, r

(* The peers of a node are the other nodes, each of them once *)
LEMMA PeersAreOthers ==
    ASSUME NEW n \in Nodes
    PROVE  /\ \A i \in 1..(N - 1) : PeersOf(n)[i] \in Nodes \ {n}
           /\ \A m \in Nodes \ {n} : \E i \in 1..(N - 1) : PeersOf(n)[i] = m
<1>1. N \in Nat \ {0} /\ n \in 0..(N - 1)
  BY NodesAssumption DEF Nodes
<1>2. \A i \in 1..(N - 1) : PeersOf(n)[i] = IF i - 1 < n THEN i - 1 ELSE i
  BY DEF PeersOf
<1>3. ASSUME NEW m \in Nodes \ {n} PROVE \E i \in 1..(N - 1) : PeersOf(n)[i] = m
  <2>1. m \in 0..(N - 1) /\ m # n
    BY <1>3 DEF Nodes
  <2>2. CASE m < n
    <3>1. m + 1 \in 1..(N - 1) /\ PeersOf(n)[m + 1] = m
      BY <1>1, <1>2, <2>1, <2>2
    <3>. QED BY <3>1
  <2>3. CASE m > n
    <3>1. m \in 1..(N - 1) /\ PeersOf(n)[m] = m
      BY <1>1, <1>2, <2>1, <2>3
    <3>. QED BY <3>1
  <2>. QED BY <1>1, <2>1, <2>2, <2>3
<1>. QED BY <1>1, <1>2, <1>3 DEF Nodes

(* An order of a finite set lists all of it *)
LEMMA OrderListsAll ==
    ASSUME NEW S, IsFiniteSet(S), NEW order \in SetToSeqs(S)
    PROVE  /\ Len(order) = Cardinality(S) /\ Len(order) \in Nat
           /\ \A j \in 1..Len(order) : order[j] \in S
           /\ \A u \in S : \E j \in 1..Len(order) : order[j] = u
<1>. DEFINE c == Cardinality(S)
<1>1. c \in Nat
  BY FS_CardinalityType
<1>2. order \in [1..c -> S] /\ \A i, j \in 1..c : i # j => order[i] # order[j]
  BY DEF SetToSeqs
<1>3. order \in Seq(S) /\ Len(order) = c
  BY <1>1, <1>2, IsASeq
<1>4. order \in Injection(1..c, S)
  BY <1>2 DEF Injection, IsInjective
<1>5. IsFiniteSet(1..c) /\ Cardinality(1..c) = c
  BY <1>1, FS_Interval
<1>6. order \in Surjection(1..c, S)
  BY <1>4, <1>5, FS_Injection
<1>. QED BY <1>1, <1>2, <1>3, <1>6 DEF Surjection

(* The entries of one drain are numbered on from next_sequence and hold     *)
(* every coalesced update for every peer                                    *)
LEMMA EntriesOfDrain ==
    ASSUME Shape, NEW n \in Nodes, NEW order \in SetToSeqs(coalesced[n])
    PROVE  LET entries == Entries(n, order) IN
           /\ Len(entries) \in Nat
           /\ \A i \in 1..Len(entries) :
                 /\ entries[i] \in Entry
                 /\ entries[i].seq = next_sequence[n] + i - 1
                 /\ entries[i].peer # n
                 /\ \E u \in coalesced[n] : entries[i].key = u.key /\ entries[i].value = u.value
           /\ \A u \in coalesced[n], m \in Nodes \ {n} :
                 \E i \in 1..Len(entries) :
                    /\ entries[i].peer = m
                    /\ entries[i].key = u.key /\ entries[i].value = u.value
<1>. DEFINE entries == Entries(n, order)
            d == N - 1
            a == Len(order)
            col(i) == (i - 1) % d
            row(i) == (i - 1) \div d
<1>1. IsFiniteSet(coalesced[n]) /\ coalesced[n] \subseteq Updates /\ next_sequence[n] \in Nat
  BY DEF Shape
<1>2. /\ a \in Nat
      /\ \A j \in 1..a : order[j] \in coalesced[n]
      /\ \A u \in coalesced[n] : \E j \in 1..a : order[j] = u
  BY <1>1, OrderListsAll
<1>3. d \in Nat /\ a * d \in Nat
  BY <1>2, NodesAssumption
<1>4. entries = [i \in 1..(a * d) |->
                    [seq |-> next_sequence[n] + i - 1, attempts |-> 0,
                     peer |-> PeersOf(n)[col(i) + 1],
                     key |-> order[row(i) + 1].key,
                     value |-> order[row(i) + 1].value]]
  BY DEF Entries
<1>. HIDE DEF entries, a, d
<1>5. Len(entries) = a * d
  <2>1. DOMAIN entries = 1..(a * d) /\ entries = [i \in 1..(a * d) |-> entries[i]]
    BY <1>4
  <2>. HIDE <1>4
  <2>. QED BY <1>3, <2>1
<1>6. ASSUME NEW i \in 1..(a * d)
      PROVE  /\ entries[i] \in Entry
             /\ entries[i].seq = next_sequence[n] + i - 1
             /\ entries[i].peer # n
             /\ \E u \in coalesced[n] : entries[i].key = u.key /\ entries[i].value = u.value
  <2>1. d # 0
    BY <1>2, <1>3, <1>6
  <2>2. row(i) \in 0..(a - 1) /\ col(i) \in 0..(d - 1)
    BY <1>2, <1>3, <2>1, RowAndColumn
  <2>. DEFINE u == order[row(i) + 1]
              m == PeersOf(n)[col(i) + 1]
  <2>3. u \in coalesced[n] /\ u \in Updates
    <3>1. row(i) + 1 \in 1..a
      BY <2>2, <1>2
    <3>. QED BY <1>1, <1>2, <3>1
  <2>4. m \in Nodes \ {n}
    <3>1. col(i) + 1 \in 1..(N - 1)
      BY <2>2, <1>3 DEF d
    <3>. QED BY <3>1, PeersAreOthers
  <2>5. entries[i] = [seq |-> next_sequence[n] + i - 1, attempts |-> 0, peer |-> m,
                      key |-> u.key, value |-> u.value]
    BY <1>4
  <2>6. i - 1 \in Nat /\ next_sequence[n] + i - 1 \in Nat
    BY <1>1, <1>3
  <2>. HIDE DEF u, m
  <2>. QED BY <2>3, <2>4, <2>5, <2>6, LimitsAssumption DEF Entry, Updates
<1>7. ASSUME NEW u \in coalesced[n], NEW m \in Nodes \ {n}
      PROVE  \E i \in 1..(a * d) : /\ entries[i].peer = m
                                   /\ entries[i].key = u.key /\ entries[i].value = u.value
  <2>1. PICK j \in 1..a : order[j] = u
    BY <1>2
  <2>2. PICK c \in 1..d : PeersOf(n)[c] = m
    BY PeersAreOthers DEF d
  <2>3. j - 1 \in 0..(a - 1) /\ c - 1 \in 0..(d - 1) /\ d # 0
    BY <1>2, <1>3
  <2>4. PICK i \in 1..(a * d) : row(i) = j - 1 /\ col(i) = c - 1
    <3>. DEFINE y == j - 1
                x == c - 1
    <3>1. d \in Nat \ {0} /\ a \in Nat /\ y \in 0..(a - 1) /\ x \in 0..(d - 1)
      BY <1>2, <1>3, <2>3
    <3>. HIDE DEF x, y
    <3>2. \E i \in 1..(a * d) : (i - 1) \div d = y /\ (i - 1) % d = x
      BY <3>1, PositionOf, Zenon
    <3>. QED BY <3>2 DEF x, y
  <2>5. row(i) + 1 = j /\ col(i) + 1 = c
    BY <2>4
  <2>6. entries[i] = [seq |-> next_sequence[n] + i - 1, attempts |-> 0, peer |-> m,
                      key |-> u.key, value |-> u.value]
    BY <1>4, <2>1, <2>2, <2>5
  <2>. QED BY <2>6
<1>. QED BY <1>3, <1>5, <1>6, <1>7 DEF entries

(* What one drain sends: new numbers, as many as fit under max_pending, and *)
(* everything for everyone unless something is counted as dropped           *)
LEMMA DrainSends ==
    ASSUME Shape, TypeOK, NEW n \in Nodes, SendCoalesced(n)
    PROVE  \E sent :
             /\ pending' = [pending EXCEPT ![n] = @ \cup sent]
             /\ next_sequence' = [next_sequence EXCEPT ![n] = @ + Cardinality(sent)]
             /\ msgs' = msgs \cup {Snapshot(n, p) : p \in sent}
             /\ sent \subseteq Entry /\ IsFiniteSet(sent) /\ Cardinality(sent) \in Nat
             /\ Cardinality(pending[n]) + Cardinality(sent) <= MaxPending
             /\ \A p \in sent :
                   /\ next_sequence[n] <= p.seq /\ p.seq < next_sequence[n] + Cardinality(sent)
                   /\ p.peer # n
                   /\ \E u \in coalesced[n] : p.key = u.key /\ p.value = u.value
             /\ \A p, q \in sent : p.seq = q.seq => p = q
             /\ \E b \in BOOLEAN :
                   /\ dropped' = [dropped EXCEPT ![n] = b] /\ (dropped[n] => b)
                   /\ b \/ \A u \in coalesced[n], m \in Nodes \ {n} :
                              \E p \in sent : p.peer = m /\ p.key = u.key /\ p.value = u.value
<1>1. PICK order \in SetToSeqs(coalesced[n]) :
        LET entries == Entries(n, order)
            room    == MaxPending - Cardinality(pending[n])
            sent    == {entries[i] : i \in 1..(IF room < Len(entries) THEN room
                                               ELSE Len(entries))}
        IN  /\ pending' = [pending EXCEPT ![n] = @ \cup sent]
            /\ next_sequence' = [next_sequence EXCEPT ![n] = @ + Cardinality(sent)]
            /\ msgs' = msgs \cup {Snapshot(n, p) : p \in sent}
            /\ dropped' = [dropped EXCEPT ![n] = @ \/ room < Len(entries)]
  BY DEF SendCoalesced
<1>. DEFINE entries == Entries(n, order)
            room == MaxPending - Cardinality(pending[n])
            last == IF room < Len(entries) THEN room ELSE Len(entries)
            sent == {entries[i] : i \in 1..last}
            b == dropped[n] \/ room < Len(entries)
<1>2. /\ pending' = [pending EXCEPT ![n] = @ \cup sent]
      /\ next_sequence' = [next_sequence EXCEPT ![n] = @ + Cardinality(sent)]
      /\ msgs' = msgs \cup {Snapshot(n, p) : p \in sent}
      /\ dropped' = [dropped EXCEPT ![n] = b]
  BY <1>1 DEF TypeOK
<1>3. /\ Len(entries) \in Nat
      /\ \A i \in 1..Len(entries) :
            /\ entries[i] \in Entry
            /\ entries[i].seq = next_sequence[n] + i - 1
            /\ entries[i].peer # n
            /\ \E u \in coalesced[n] : entries[i].key = u.key /\ entries[i].value = u.value
      /\ \A u \in coalesced[n], m \in Nodes \ {n} :
            \E i \in 1..Len(entries) :
               /\ entries[i].peer = m
               /\ entries[i].key = u.key /\ entries[i].value = u.value
  BY EntriesOfDrain
<1>. HIDE DEF entries
<1>4. /\ Cardinality(pending[n]) \in Nat /\ Cardinality(pending[n]) <= MaxPending
      /\ next_sequence[n] \in Nat
  BY FS_CardinalityType DEF Shape, TypeOK
<1>5. room \in Nat /\ last \in Nat /\ last <= room /\ last <= Len(entries)
  BY <1>3, <1>4, LimitsAssumption
<1>6. \A i \in 1..last : i \in 1..Len(entries)
  BY <1>3, <1>5
<1>7. IsFiniteSet(sent) /\ Cardinality(sent) = last
  <2>. DEFINE f == [i \in 1..last |-> entries[i]]
  <2>1. f \in Surjection(1..last, sent)
    BY DEF Surjection
  <2>2. f \in Injection(1..last, sent)
    <3>1. ASSUME NEW i \in 1..last, NEW j \in 1..last, f[i] = f[j] PROVE i = j
      <4>1. entries[i].seq = entries[j].seq
        BY <3>1
      <4>2. next_sequence[n] + i - 1 = next_sequence[n] + j - 1
        BY <1>3, <1>6, <4>1
      <4>. QED BY <1>4, <1>5, <4>2
    <3>2. f \in [1..last -> sent]
      OBVIOUS
    <3>. QED BY <3>1, <3>2 DEF Injection, IsInjective
  <2>3. IsFiniteSet(1..last) /\ Cardinality(1..last) = last
    <3>. HIDE DEF last
    <3>1. last \in Int /\ 1 \in Int /\ (1 > last => last = 0) /\ last - 1 + 1 = last
      BY <1>5
    <3>. QED BY <3>1, FS_Interval
  <2>. QED BY <2>1, <2>2, <2>3, FS_Surjection
<1>8. \A i \in 1..last : /\ next_sequence[n] <= entries[i].seq
                         /\ entries[i].seq < next_sequence[n] + last
  BY <1>3, <1>4, <1>5, <1>6
<1>9. ASSUME NEW p \in sent
      PROVE  /\ p \in Entry
             /\ next_sequence[n] <= p.seq /\ p.seq < next_sequence[n] + last
             /\ p.peer # n
             /\ \E u \in coalesced[n] : p.key = u.key /\ p.value = u.value
  <2>1. PICK i \in 1..last : p = entries[i]
    OBVIOUS
  <2>. HIDE DEF last, sent
  <2>. QED BY <1>3, <1>6, <1>8, <2>1
<1>10. ASSUME NEW p \in sent, NEW q \in sent, p.seq = q.seq PROVE p = q
  <2>1. PICK i \in 1..last : p = entries[i]
    OBVIOUS
  <2>2. PICK j \in 1..last : q = entries[j]
    OBVIOUS
  <2>3. i \in 1..Len(entries) /\ j \in 1..Len(entries) /\ entries[i].seq = entries[j].seq
    BY <1>6, <1>10, <2>1, <2>2
  <2>4. next_sequence[n] + i - 1 = next_sequence[n] + j - 1
    BY <1>3, <2>3
  <2>. QED BY <1>4, <1>5, <2>1, <2>2, <2>4
<1>11. b \in BOOLEAN /\ (dropped[n] => b)
  BY DEF TypeOK
<1>12. ~b => \A u \in coalesced[n], m \in Nodes \ {n} :
               \E p \in sent : p.peer = m /\ p.key = u.key /\ p.value = u.value
  <2>1. ~b => last = Len(entries)
    OBVIOUS
  <2>. QED BY <1>3, <2>1
<1>13. Cardinality(pending[n]) + Cardinality(sent) <= MaxPending
  BY <1>4, <1>5, <1>7, LimitsAssumption
<1>. HIDE DEF sent, b, last
<1>14. \E c \in BOOLEAN :
          /\ dropped' = [dropped EXCEPT ![n] = c] /\ (dropped[n] => c)
          /\ c \/ \A u \in coalesced[n], m \in Nodes \ {n} :
                     \E p \in sent : p.peer = m /\ p.key = u.key /\ p.value = u.value
  BY <1>2, <1>11, <1>12
<1>15. sent \subseteq Entry /\ Cardinality(sent) \in Nat
  BY <1>5, <1>7, <1>9
<1>16. \A p \in sent :
          /\ next_sequence[n] <= p.seq /\ p.seq < next_sequence[n] + Cardinality(sent)
          /\ p.peer # n
          /\ \E u \in coalesced[n] : p.key = u.key /\ p.value = u.value
  BY <1>7, <1>9
<1>17. \A p, q \in sent : p.seq = q.seq => p = q
  BY <1>10
<1>. WITNESS sent
<1>. QED BY <1>2, <1>7, <1>13, <1>14, <1>15, <1>16, <1>17

-----------------------------------------------------------------------------
(* Elements of the queue.                                                   *)

LEMMA RangeOfAppend ==
    ASSUME NEW S, NEW s \in Seq(S), NEW e \in S
    PROVE  Range(Append(s, e)) = Range(s) \cup {e}
<1>1. Range(s) = {s[i] : i \in 1..Len(s)}
  BY RangeEquality
<1>2. Append(s, e) \in Seq(S)
  BY AppendProperties
<1>3. Range(Append(s, e)) = {Append(s, e)[i] : i \in 1..Len(Append(s, e))}
  BY <1>2, RangeEquality
<1>4. /\ Len(Append(s, e)) = Len(s) + 1 /\ Len(s) \in Nat
      /\ \A i \in 1..Len(s) : Append(s, e)[i] = s[i]
      /\ Append(s, e)[Len(s) + 1] = e
  BY AppendProperties
<1>5. 1..(Len(s) + 1) = (1..Len(s)) \cup {Len(s) + 1}
  BY <1>4
<1>. QED BY <1>1, <1>3, <1>4, <1>5

LEMMA RangeOfTail ==
    ASSUME NEW S, NEW s \in Seq(S), s # <<>>
    PROVE  Range(s) = {Head(s)} \cup Range(Tail(s))
<1>1. Range(s) = {s[i] : i \in 1..Len(s)} /\ Len(s) \in Nat /\ Len(s) # 0
  BY RangeEquality
<1>2. /\ Tail(s) \in Seq(S) /\ Len(Tail(s)) = Len(s) - 1
      /\ \A i \in 1..Len(Tail(s)) : Tail(s)[i] = s[i + 1]
  BY HeadTailProperties
<1>3. Range(Tail(s)) = {Tail(s)[i] : i \in 1..Len(Tail(s))}
  BY <1>2, RangeEquality
<1>4. Head(s) = s[1]
  OBVIOUS
<1>5. ASSUME NEW i \in 1..Len(s) PROVE s[i] \in {Head(s)} \cup Range(Tail(s))
  <2>1. CASE i = 1
    BY <1>4, <2>1
  <2>2. CASE i # 1
    <3>1. i - 1 \in 1..Len(Tail(s)) /\ (i - 1) + 1 = i
      BY <1>1, <1>2, <2>2
    <3>2. Tail(s)[i - 1] = s[i]
      BY <1>2, <3>1
    <3>. QED BY <1>3, <3>1, <3>2
  <2>. QED BY <2>1, <2>2
<1>6. ASSUME NEW i \in 1..Len(Tail(s)) PROVE Tail(s)[i] \in Range(s)
  <2>1. i + 1 \in 1..Len(s)
    BY <1>1, <1>2
  <2>. QED BY <1>1, <1>2, <2>1
<1>7. s[1] \in Range(s)
  BY <1>1
<1>. QED BY <1>1, <1>3, <1>4, <1>5, <1>6, <1>7

-----------------------------------------------------------------------------
(* Every action keeps Replicas.                                             *)

LEMMA ValuesAreAmounts == AmountMax \in Nat /\ \A v \in Values : v \in Nat /\ v > 0
  BY ValuesAssumption

LEMMA ReplicasInit == Init => Replicas
<1>. SUFFICES ASSUME Init PROVE Replicas
  OBVIOUS
<1>1. \A n \in Nodes : /\ outbound[n] = <<>> /\ coalesced[n] = {} /\ pending[n] = {}
                       /\ next_sequence[n] = 1 /\ Range(outbound[n]) = {}
  BY DEF Init, Range
<1>2. IsFiniteSet({}) /\ Cardinality({}) = 0
  BY FS_EmptySet
<1>3. Shape
  BY <1>1, <1>2 DEF Init, Shape
<1>4. TypeOK
  <2>1. components \in [Nodes -> [Nodes -> [Keys -> {0} \cup Values]]]
    BY DEF Init, NothingSeen
  <2>. QED BY <1>1, <1>2, <2>1, LimitsAssumption DEF Init, TypeOK
<1>5. \A m, c \in Nodes, k \in Keys : components[m][c][k] = 0 /\ published[c][k] = 0
  BY DEF Init, NothingSeen
<1>6. Origin
  BY <1>1, <1>5 DEF Init, Origin
<1>7. Numbered
  BY DEF Init, Numbered
<1>8. NoSilentLoss
  <2>1. \A n \in Publishers : n \in Nodes
    BY NodesAssumption
  <2>. QED BY <1>5, <2>1 DEF NoSilentLoss
<1>. QED BY <1>3, <1>4, <1>6, <1>7, <1>8 DEF Replicas

(* publish() raises what was published, and either queues it or counts it *)
LEMMA PublishKeeps ==
    ASSUME Replicas, NEW n \in Nodes, NEW k \in Keys, NEW v \in Values, Publish(n, k, v)
    PROVE  Replicas'
<1>. DEFINE u == [key |-> k, value |-> v]
<1>1. Shape /\ TypeOK /\ Origin /\ (restarts = 0 => Numbered /\ NoSilentLoss)
  BY DEF Replicas
<1>2. /\ published' = [published EXCEPT ![n][k] = Larger(@, v)]
      /\ UNCHANGED <<coalesced, pending, next_sequence, components, msgs, restarts>>
  BY DEF Publish, sender
<1>3. u \in Updates
  BY DEF Updates
<1>4. \/ /\ Len(outbound[n]) < OutboundCapacity
         /\ outbound' = [outbound EXCEPT ![n] = Append(@, u)]
         /\ UNCHANGED dropped
      \/ /\ dropped' = [dropped EXCEPT ![n] = TRUE]
         /\ UNCHANGED outbound
  BY DEF Publish
<1>5. \A c \in Nodes, j \in Keys : published[c][j] \in Nat
  BY <1>1, ValuesAreAmounts DEF Shape
<1>6. published' \in [Nodes -> [Keys -> {0} \cup Values]]
  BY <1>1, <1>2 DEF Shape, Larger
<1>7. \A c \in Nodes, j \in Keys :
         /\ published'[c][j] \in Nat
         /\ published[c][j] <= published'[c][j]
         /\ c = n /\ j = k => published'[c][j] = Larger(published[n][k], v)
         /\ c # n \/ j # k => published'[c][j] = published[c][j]
  BY <1>1, <1>2, <1>5, ValuesAreAmounts DEF Shape, Larger
<1>8. v <= published'[n][k] /\ (published'[n][k] = published[n][k] \/ published'[n][k] = v)
  BY <1>5, <1>7, ValuesAreAmounts DEF Larger
<1>9. /\ outbound' \in [Nodes -> Seq(Updates)]
      /\ \A c \in Nodes : Len(outbound'[c]) <= OutboundCapacity
      /\ \A c \in Nodes : Range(outbound[c]) \subseteq Range(outbound'[c])
      /\ \A c \in Nodes : Range(outbound'[c]) \subseteq Range(outbound[c]) \cup {u}
      /\ \A c \in Nodes : c # n => Range(outbound'[c]) = Range(outbound[c])
      /\ outbound'[n] = Append(outbound[n], u) => u \in Range(outbound'[n])
  <2>1. \A c \in Nodes : outbound[c] \in Seq(Updates) /\ Len(outbound[c]) \in Nat
    BY <1>1 DEF Shape
  <2>2. /\ Append(outbound[n], u) \in Seq(Updates)
        /\ Len(Append(outbound[n], u)) = Len(outbound[n]) + 1
        /\ Range(Append(outbound[n], u)) = Range(outbound[n]) \cup {u}
    BY <1>3, <2>1, RangeOfAppend, AppendProperties
  <2>3. \A c \in Nodes : \/ outbound'[c] = outbound[c]
                         \/ /\ c = n /\ outbound'[c] = Append(outbound[c], u)
                            /\ Len(outbound[n]) < OutboundCapacity
    BY <1>1, <1>4 DEF Shape
  <2>4. outbound' \in [Nodes -> Seq(Updates)]
    BY <1>1, <1>4, <2>2 DEF Shape
  <2>5. \A c \in Nodes : Len(outbound'[c]) <= OutboundCapacity
    <3>1. \A c \in Nodes : Len(outbound[c]) <= OutboundCapacity
      BY <1>1 DEF TypeOK
    <3>2. ASSUME NEW c \in Nodes, c = n, Len(outbound[n]) < OutboundCapacity,
                 outbound'[c] = Append(outbound[c], u)
          PROVE  Len(outbound'[c]) <= OutboundCapacity
      BY <2>1, <2>2, <3>2, LimitsAssumption
    <3>. QED BY <2>3, <3>1, <3>2
  <2>. QED BY <2>2, <2>3, <2>4, <2>5
<1>10. dropped' \in [Nodes -> BOOLEAN] /\ \A c \in Nodes : dropped[c] => dropped'[c]
  BY <1>1, <1>4 DEF TypeOK
<1>11. Shape'
  BY <1>1, <1>2, <1>6, <1>9 DEF Shape
<1>12. TypeOK'
  BY <1>1, <1>2, <1>9, <1>10 DEF TypeOK
<1>13. Origin'
  <2>1. \A c \in Nodes : \A w \in Range(outbound[c]) \cup coalesced[c] : w \in Updates
    BY <1>1, RangeOfSeq DEF Shape
  <2>2. \A c \in Nodes : \A w \in Range(outbound'[c]) : w.value <= published'[c][w.key]
    <3>1. ASSUME NEW c \in Nodes, NEW w \in Range(outbound[c])
          PROVE  w.value <= published'[c][w.key]
      <4>1. w.key \in Keys /\ w.value \in Nat /\ w.value <= published[c][w.key]
        BY <1>1, <2>1, ValuesAreAmounts DEF Origin, Updates
      <4>. QED BY <1>5, <1>7, <4>1
    <3>2. u.value <= published'[n][u.key]
      BY <1>8
    <3>. QED BY <1>9, <3>1, <3>2
  <2>3. ASSUME NEW c \in Nodes, NEW w \in coalesced[c] PROVE w.value <= published'[c][w.key]
    <3>1. w.key \in Keys /\ w.value \in Nat /\ w.value <= published[c][w.key]
      BY <1>1, <2>1, ValuesAreAmounts DEF Origin, Updates
    <3>. QED BY <1>5, <1>7, <3>1
  <2>4. ASSUME NEW c \in Nodes, NEW p \in pending[c] PROVE p.value <= published'[c][p.key]
    <3>1. p.key \in Keys /\ p.value \in Nat /\ p.value <= published[c][p.key]
      BY <1>1, ValuesAreAmounts DEF Origin, TypeOK, Entry
    <3>. QED BY <1>5, <1>7, <3>1
  <2>5. ASSUME NEW f \in msgs, f.type = "Snapshot" PROVE f.value <= published'[f.from][f.key]
    <3>1. f \in SnapshotFrames
      BY <1>1, <2>5 DEF Shape, AckFrames
    <3>2. f.from \in Nodes /\ f.key \in Keys /\ f.value \in Nat
      BY <3>1, ValuesAreAmounts DEF SnapshotFrames
    <3>. QED BY <1>1, <1>5, <1>7, <2>5, <3>2 DEF Origin
  <2>6. \A m, c \in Nodes, j \in Keys : components[m][c][j] <= published'[c][j]
    <3>1. \A m, c \in Nodes, j \in Keys : components[m][c][j] \in Nat
      BY <1>1, ValuesAreAmounts DEF TypeOK
    <3>. QED BY <1>1, <1>5, <1>7, <3>1 DEF Origin
  <2>. QED BY <1>2, <2>2, <2>3, <2>4, <2>5, <2>6 DEF Origin
<1>14. ASSUME restarts' = 0 PROVE Numbered' /\ NoSilentLoss'
  <2>1. restarts = 0
    BY <1>2, <1>14
  <2>2. Numbered'
    BY <1>1, <1>2, <2>1 DEF Numbered, Names, Confirms
  <2>3. ASSUME NEW c \in Publishers, NEW m \in Nodes, NEW j \in Keys, m # c, ~dropped'[c]
        PROVE  Covered(c, m, j)'
    <3>1. c \in Nodes /\ ~dropped[c]
      BY <1>10, <2>3, NodesAssumption
    <3>2. CASE published'[c][j] = published[c][j]
      <4>1. Covered(c, m, j)
        BY <1>1, <2>1, <2>3, <3>1 DEF NoSilentLoss, Covered
      <4>. QED BY <1>2, <1>9, <3>1, <3>2, <4>1 DEF Covered, OnItsWay
    <3>3. CASE published'[c][j] # published[c][j]
      <4>1. c = n /\ j = k /\ published'[c][j] = v
        BY <1>7, <1>8, <3>1, <3>3
      <4>2. outbound' = [outbound EXCEPT ![n] = Append(@, u)]
        BY <1>1, <1>4, <2>3, <4>1 DEF TypeOK
      <4>3. u \in Range(outbound'[n])
        BY <1>1, <1>9, <4>2 DEF Shape
      <4>4. u.key = j /\ u.value >= published'[c][j]
        BY <4>1, <1>5, ValuesAreAmounts
      <4>. HIDE DEF u
      <4>. QED BY <4>1, <4>3, <4>4 DEF Covered, OnItsWay
    <3>. QED BY <3>2, <3>3
  <2>4. NoSilentLoss'
    BY <2>3 DEF NoSilentLoss, Covered
  <2>. QED BY <2>2, <2>4
<1>. QED BY <1>11, <1>12, <1>13, <1>14 DEF Replicas

(* drain_outbound() pops an update: the newest value of its key survives *)
LEMMA PopKeeps ==
    ASSUME Replicas, NEW n \in Nodes, PopOutbound(n)
    PROVE  Replicas'
<1>. DEFINE h == Head(outbound[n])
            C == Coalesce(coalesced[n], h)
<1>1. Shape /\ TypeOK /\ Origin /\ (restarts = 0 => Numbered /\ NoSilentLoss)
  BY DEF Replicas
<1>2. /\ outbound[n] # <<>>
      /\ coalesced' = [coalesced EXCEPT ![n] = C]
      /\ outbound' = [outbound EXCEPT ![n] = Tail(@)]
      /\ UNCHANGED <<pending, next_sequence, components, dropped, msgs, published, restarts>>
  BY DEF PopOutbound, sender, bounds
<1>3. outbound[n] \in Seq(Updates) /\ coalesced[n] \subseteq Updates
  BY <1>1 DEF Shape
<1>4. /\ h \in Updates /\ Tail(outbound[n]) \in Seq(Updates)
      /\ Len(Tail(outbound[n])) = Len(outbound[n]) - 1
      /\ Range(outbound[n]) = {h} \cup Range(Tail(outbound[n]))
  BY <1>2, <1>3, HeadTailProperties, RangeOfTail
<1>5. \A u \in Updates : u.key \in Keys /\ u.value \in Nat
  BY ValuesAreAmounts DEF Updates
<1>. HIDE DEF h
<1>6. /\ C \subseteq coalesced[n] \cup {h}
      /\ \A u, w \in C : u.key = w.key => u = w
      /\ \A u \in coalesced[n] \cup {h} : \E w \in C : w.key = u.key /\ w.value >= u.value
  <2>1. \A u, w \in coalesced[n] : u.key = w.key => u = w
    BY <1>1 DEF TypeOK
  <2>2. \A u \in coalesced[n] : u.key \in Keys /\ u.value \in Nat
    BY <1>3, <1>5
  <2>3. h.key \in Keys /\ h.value \in Nat
    BY <1>4, <1>5
  <2>4. CASE \E w \in coalesced[n] : w.key = h.key /\ w.value >= h.value
    <3>1. C = coalesced[n]
      BY <2>4 DEF Coalesce
    <3>. HIDE DEF C
    <3>. QED BY <2>1, <2>2, <2>4, <3>1
  <2>5. CASE ~ \E w \in coalesced[n] : w.key = h.key /\ w.value >= h.value
    <3>1. C = {w \in coalesced[n] : w.key # h.key} \cup {h}
      BY <2>5 DEF Coalesce
    <3>. HIDE DEF C
    <3>2. ASSUME NEW u \in coalesced[n] \cup {h}
          PROVE  \E w \in C : w.key = u.key /\ w.value >= u.value
      <4>1. CASE u.key = h.key
        BY <2>2, <2>3, <2>5, <3>1, <4>1
      <4>2. CASE u.key # h.key
        BY <2>2, <3>1, <4>2
      <4>. QED BY <4>1, <4>2
    <3>. QED BY <2>1, <3>1, <3>2
  <2>. QED BY <2>4, <2>5
<1>7. IsFiniteSet(C)
  <2>1. IsFiniteSet(coalesced[n] \cup {h})
    BY <1>1, FS_AddElement DEF Shape
  <2>. QED BY <1>6, <2>1, FS_Subset
<1>. HIDE DEF C
<1>8. /\ coalesced'[n] = C /\ outbound'[n] = Tail(outbound[n])
      /\ \A c \in Nodes : c # n => coalesced'[c] = coalesced[c] /\ outbound'[c] = outbound[c]
  BY <1>1, <1>2 DEF Shape
<1>9. Shape'
  <2>1. C \subseteq Updates
    BY <1>3, <1>4, <1>6
  <2>2. outbound' \in [Nodes -> Seq(Updates)] /\ coalesced' \in [Nodes -> SUBSET Updates]
    BY <1>1, <1>2, <1>4, <2>1 DEF Shape
  <2>3. \A c \in Nodes : IsFiniteSet(coalesced'[c])
    BY <1>1, <1>7, <1>8 DEF Shape
  <2>. QED BY <1>1, <1>2, <2>2, <2>3 DEF Shape
<1>10. TypeOK'
  <2>1. \A c \in Nodes : Len(outbound'[c]) <= OutboundCapacity
    <3>1. Len(outbound[n]) \in Nat /\ Len(outbound[n]) <= OutboundCapacity
      BY <1>1, <1>3 DEF TypeOK
    <3>2. Len(outbound'[n]) <= OutboundCapacity
      BY <1>4, <1>8, <3>1, LimitsAssumption
    <3>. QED BY <1>1, <1>8, <3>2 DEF TypeOK
  <2>2. \A c \in Nodes : \A u, w \in coalesced'[c] : u.key = w.key => u = w
    BY <1>1, <1>6, <1>8 DEF TypeOK
  <2>. QED BY <1>1, <1>2, <2>1, <2>2 DEF TypeOK
<1>11. Origin'
  <2>1. \A c \in Nodes : /\ Range(outbound'[c]) \subseteq Range(outbound[c])
                         /\ coalesced'[c] \subseteq Range(outbound[c]) \cup coalesced[c]
    BY <1>4, <1>6, <1>8
  <2>. QED BY <1>1, <1>2, <2>1 DEF Origin
<1>12. ASSUME restarts' = 0 PROVE Numbered' /\ NoSilentLoss'
  <2>1. restarts = 0
    BY <1>2, <1>12
  <2>2. Numbered'
    BY <1>1, <1>2, <2>1 DEF Numbered, Names, Confirms
  <2>3. ASSUME NEW c \in Nodes, NEW m \in Nodes, NEW j \in Keys, Covered(c, m, j)
        PROVE  Covered(c, m, j)'
    <3>1. ASSUME NEW u \in Range(outbound[c]) \cup coalesced[c]
          PROVE  \E w \in Range(outbound'[c]) \cup coalesced'[c] :
                    w.key = u.key /\ w.value >= u.value
      <4>1. u \in Updates
        BY <1>1, RangeOfSeq DEF Shape
      <4>2. CASE u \in Range(outbound'[c]) \cup coalesced'[c]
        BY <1>5, <4>1, <4>2
      <4>3. CASE u \notin Range(outbound'[c]) \cup coalesced'[c]
        <5>1. c = n /\ u \in coalesced[n] \cup {h}
          BY <1>4, <1>8, <3>1, <4>3
        <5>. QED BY <1>6, <1>8, <5>1
      <4>. QED BY <4>2, <4>3
    <3>2. \A w \in Range(outbound'[c]) \cup coalesced'[c] : w.value \in Nat
      <4>1. outbound'[c] \in Seq(Updates) /\ coalesced'[c] \subseteq Updates
        BY <1>9 DEF Shape
      <4>. QED BY <1>5, <4>1, RangeOfSeq
    <3>3. published[c][j] \in Nat
      BY <1>1, ValuesAreAmounts DEF Shape
    <3>4. \A u \in Range(outbound[c]) \cup coalesced[c] : u.value \in Nat
      <4>1. outbound[c] \in Seq(Updates) /\ coalesced[c] \subseteq Updates
        BY <1>1 DEF Shape
      <4>. QED BY <1>5, <4>1, RangeOfSeq
    <3>5. ASSUME NEW u \in Range(outbound[c]) \cup coalesced[c],
                 u.key = j, u.value >= published[c][j]
          PROVE  Covered(c, m, j)'
      <4>1. PICK w \in Range(outbound'[c]) \cup coalesced'[c] :
                w.key = u.key /\ w.value >= u.value
        BY <3>1
      <4>2. w.value >= published'[c][j]
        BY <1>2, <3>2, <3>3, <3>4, <3>5, <4>1
      <4>. QED BY <3>5, <4>1, <4>2 DEF Covered, OnItsWay
    <3>. QED BY <1>2, <2>3, <3>5 DEF Covered, OnItsWay
  <2>4. NoSilentLoss'
    BY <1>1, <1>2, <2>1, <2>3, NodesAssumption DEF NoSilentLoss, Covered
  <2>. QED BY <2>2, <2>4
<1>. QED BY <1>9, <1>10, <1>11, <1>12 DEF Replicas

(* The frames of a drain carry new numbers; a peer that does not get one is *)
(* counted                                                                  *)
LEMMA SendKeeps ==
    ASSUME Replicas, NEW n \in Nodes, SendCoalesced(n)
    PROVE  Replicas'
<1>1. Shape /\ TypeOK /\ Origin /\ (restarts = 0 => Numbered /\ NoSilentLoss)
  BY DEF Replicas
<1>2. PICK sent :
         /\ pending' = [pending EXCEPT ![n] = @ \cup sent]
         /\ next_sequence' = [next_sequence EXCEPT ![n] = @ + Cardinality(sent)]
         /\ msgs' = msgs \cup {Snapshot(n, p) : p \in sent}
         /\ sent \subseteq Entry /\ IsFiniteSet(sent) /\ Cardinality(sent) \in Nat
         /\ Cardinality(pending[n]) + Cardinality(sent) <= MaxPending
         /\ \A p \in sent :
               /\ next_sequence[n] <= p.seq /\ p.seq < next_sequence[n] + Cardinality(sent)
               /\ p.peer # n
               /\ \E u \in coalesced[n] : p.key = u.key /\ p.value = u.value
         /\ \A p, q \in sent : p.seq = q.seq => p = q
         /\ \E b \in BOOLEAN :
               /\ dropped' = [dropped EXCEPT ![n] = b] /\ (dropped[n] => b)
               /\ b \/ \A u \in coalesced[n], m \in Nodes \ {n} :
                          \E p \in sent : p.peer = m /\ p.key = u.key /\ p.value = u.value
  BY <1>1, DrainSends
<1>3. /\ outbound[n] = <<>>
      /\ coalesced' = [coalesced EXCEPT ![n] = {}]
      /\ UNCHANGED <<outbound, components, published, restarts>>
  BY DEF SendCoalesced, bounds
<1>. DEFINE card == Cardinality(sent)
<1>4. /\ pending'[n] = pending[n] \cup sent
      /\ next_sequence'[n] = next_sequence[n] + card
      /\ coalesced'[n] = {}
      /\ \A c \in Nodes : c # n => /\ pending'[c] = pending[c]
                                   /\ next_sequence'[c] = next_sequence[c]
                                   /\ coalesced'[c] = coalesced[c]
                                   /\ dropped'[c] = dropped[c]
  BY <1>1, <1>2, <1>3 DEF Shape, TypeOK
<1>5. next_sequence[n] \in Nat /\ card \in Nat /\ next_sequence[n] + card \in Nat
  BY <1>1, <1>2 DEF Shape
<1>6. \A p \in sent : p.seq \in Nat /\ p.peer \in Nodes /\ p.key \in Keys /\ p.value \in Values
  BY <1>2 DEF Entry
<1>7. \A p \in sent : /\ Snapshot(n, p) \in SnapshotFrames
                      /\ Snapshot(n, p).type = "Snapshot" /\ Snapshot(n, p).from = n
                      /\ Snapshot(n, p).to = p.peer /\ Snapshot(n, p).seq = p.seq
                      /\ Snapshot(n, p).key = p.key /\ Snapshot(n, p).value = p.value
  BY <1>6 DEF Snapshot, SnapshotFrames
<1>8. \A c \in Nodes : \A p \in pending[c] :
         p \in Entry /\ p.seq \in Nat /\ p.seq < next_sequence[c] /\ p.peer # c
  BY <1>1 DEF TypeOK, Entry
<1>9. Shape'
  <2>1. pending' \in [Nodes -> SUBSET Entry]
    BY <1>1, <1>2 DEF Shape
  <2>2. next_sequence' \in [Nodes -> Nat]
    BY <1>1, <1>2, <1>5 DEF Shape
  <2>3. coalesced' \in [Nodes -> SUBSET Updates]
    BY <1>1, <1>3 DEF Shape
  <2>4. msgs' \subseteq SnapshotFrames \cup AckFrames
    BY <1>1, <1>2, <1>7 DEF Shape
  <2>5. IsFiniteSet(pending[n] \cup sent) /\ IsFiniteSet({})
    BY <1>1, <1>2, FS_Union, FS_EmptySet DEF Shape
  <2>6. \A c \in Nodes : IsFiniteSet(coalesced'[c]) /\ IsFiniteSet(pending'[c])
    BY <1>1, <1>4, <2>5 DEF Shape
  <2>. QED BY <1>1, <1>3, <2>1, <2>2, <2>3, <2>4, <2>6 DEF Shape
<1>10. TypeOK'
  <2>1. Cardinality(pending'[n]) <= MaxPending
    <3>1. pending[n] \cap sent = {}
      BY <1>2, <1>5, <1>6, <1>8
    <3>2. IsFiniteSet(pending[n]) /\ Cardinality(pending[n]) \in Nat
      BY <1>1, FS_CardinalityType DEF Shape
    <3>3. Cardinality(pending[n] \cup sent) = Cardinality(pending[n]) + card
                                              - Cardinality(pending[n] \cap sent)
      BY <1>2, <3>2, FS_Union
    <3>4. Cardinality(pending[n] \cap sent) = 0
      BY <3>1, FS_EmptySet
    <3>5. Cardinality(pending[n]) + card <= MaxPending
      BY <1>2
    <3>6. Cardinality(pending[n] \cup sent) = Cardinality(pending[n]) + card
      BY <1>5, <3>2, <3>3, <3>4
    <3>. QED BY <1>4, <3>5, <3>6
  <2>2. \A p, q \in pending'[n] : p.seq = q.seq => p = q
    <3>1. \A p, q \in pending[n] : p.seq = q.seq => p = q
      BY <1>1 DEF TypeOK
    <3>2. \A p \in pending[n], q \in sent : p.seq # q.seq
      BY <1>2, <1>5, <1>6, <1>8
    <3>. QED BY <1>2, <1>4, <3>1, <3>2
  <2>3. \A p \in pending'[n] : p.seq < next_sequence'[n] /\ p.peer # n
    BY <1>2, <1>4, <1>5, <1>6, <1>8
  <2>4. dropped' \in [Nodes -> BOOLEAN]
    BY <1>1, <1>2 DEF TypeOK
  <2>5. \A c \in Nodes :
          /\ Len(outbound[c]) <= OutboundCapacity
          /\ pending'[c] \subseteq Entry
          /\ Cardinality(pending'[c]) <= MaxPending
          /\ \A p, q \in pending'[c] : p.seq = q.seq => p = q
          /\ \A p \in pending'[c] : p.seq < next_sequence'[c] /\ p.peer # c
          /\ \A u, w \in coalesced'[c] : u.key = w.key => u = w
    <3>1. pending'[n] \subseteq Entry /\ coalesced'[n] = {}
      BY <1>2, <1>4, <1>8
    <3>. QED BY <1>1, <1>4, <2>1, <2>2, <2>3, <3>1 DEF TypeOK
  <2>. QED BY <1>1, <1>3, <2>4, <2>5 DEF TypeOK
<1>11. Origin'
  <2>1. \A p \in sent : p.value <= published[n][p.key]
    BY <1>1, <1>2 DEF Origin
  <2>2. \A c \in Nodes : \A p \in pending'[c] : p.value <= published[c][p.key]
    BY <1>1, <1>4, <2>1 DEF Origin
  <2>3. \A f \in msgs' : f.type = "Snapshot" => f.value <= published[f.from][f.key]
    BY <1>1, <1>2, <1>7, <2>1 DEF Origin
  <2>4. \A c \in Nodes : coalesced'[c] \subseteq coalesced[c]
    BY <1>4
  <2>. QED BY <1>1, <1>3, <2>2, <2>3, <2>4 DEF Origin
<1>12. ASSUME restarts' = 0 PROVE Numbered' /\ NoSilentLoss'
  <2>1. restarts = 0 /\ Numbered /\ NoSilentLoss
    BY <1>1, <1>3, <1>12
  <2>2. \A c \in Nodes : next_sequence[c] \in Nat /\ next_sequence'[c] \in Nat
                         /\ next_sequence[c] <= next_sequence'[c]
    BY <1>1, <1>4, <1>5 DEF Shape
  <2>3. \A c \in Nodes : \A p \in pending'[c] :
            p \in pending[c] \/ (c = n /\ p \in sent /\ next_sequence[n] <= p.seq)
    BY <1>2, <1>4
  <2>4. ASSUME NEW f \in msgs, f.type = "Snapshot" PROVE Names(f)'
    <3>1. f.from \in Nodes /\ f.seq \in Nat
      BY <1>1, <2>4 DEF Shape, SnapshotFrames, AckFrames
    <3>2. Names(f)
      BY <2>1, <2>4 DEF Numbered
    <3>3. f.seq < next_sequence'[f.from]
      BY <2>2, <3>1, <3>2 DEF Names
    <3>4. ASSUME NEW p \in pending'[f.from], p.seq = f.seq PROVE p \in pending[f.from]
      BY <1>5, <1>6, <2>3, <3>1, <3>2, <3>4 DEF Names
    <3>. QED BY <3>2, <3>3, <3>4 DEF Names
  <2>5. ASSUME NEW p \in sent PROVE Names(Snapshot(n, p))'
    <3>. DEFINE f == Snapshot(n, p)
    <3>1. f.seq < next_sequence'[n]
      BY <1>2, <1>4, <1>7
    <3>2. \A q \in pending'[n] : q.seq = p.seq => q = p
      BY <1>2, <1>4, <1>10 DEF TypeOK
    <3>3. /\ f.from = n /\ f.to = p.peer /\ f.seq = p.seq
          /\ f.key = p.key /\ f.value = p.value
      BY <1>7
    <3>. HIDE DEF f
    <3>4. Names(f)'
      <4>1. /\ f.seq < next_sequence'[f.from]
            /\ \A q \in pending'[f.from] :
                  q.seq = f.seq => q.peer = f.to /\ q.key = f.key /\ q.value = f.value
        BY <3>1, <3>2, <3>3
      <4>. QED BY <4>1 DEF Names
    <3>. QED BY <3>4 DEF f
  <2>6. ASSUME NEW f \in msgs, f.type = "Ack" PROVE Confirms(f)'
    <3>1. f.to \in Nodes /\ f.seq \in Nat
      BY <1>1, <2>6 DEF Shape, SnapshotFrames, AckFrames
    <3>2. Confirms(f)
      BY <2>1, <2>6 DEF Numbered
    <3>3. f.seq < next_sequence'[f.to]
      BY <2>2, <3>1, <3>2 DEF Confirms
    <3>4. ASSUME NEW p \in pending'[f.to], p.seq = f.seq PROVE p \in pending[f.to]
      BY <1>5, <1>6, <2>3, <3>1, <3>2, <3>4 DEF Confirms
    <3>. QED BY <1>3, <3>2, <3>3, <3>4 DEF Confirms
  <2>7. Numbered'
    <3>1. \A f \in msgs' : f \in msgs \/ \E p \in sent : f = Snapshot(n, p)
      BY <1>2
    <3>2. \A p \in sent : Snapshot(n, p).type # "Ack"
      BY <1>7
    <3>. QED BY <2>4, <2>5, <2>6, <3>1, <3>2 DEF Numbered
  <2>8. ASSUME NEW c \in Nodes, NEW m \in Nodes, NEW j \in Keys, m # c, ~dropped'[c],
               Covered(c, m, j)
        PROVE  Covered(c, m, j)'
    <3>1. CASE c # n
      BY <1>3, <1>4, <2>8, <3>1 DEF Covered, OnItsWay
    <3>2. CASE c = n
      <4>1. Range(outbound[n]) = {}
        BY <1>3 DEF Range
      <4>2. \A u \in coalesced[n] :
                \E p \in sent : p.peer = m /\ p.key = u.key /\ p.value = u.value
        BY <1>1, <1>2, <2>8, <3>2 DEF TypeOK
      <4>. QED BY <1>3, <1>4, <2>8, <3>2, <4>1, <4>2 DEF Covered, OnItsWay
    <3>. QED BY <3>1, <3>2
  <2>9. \A c \in Nodes : dropped[c] => dropped'[c]
    BY <1>1, <1>2 DEF TypeOK
  <2>10. NoSilentLoss'
    BY <1>3, <2>1, <2>8, <2>9, NodesAssumption DEF NoSilentLoss, Covered
  <2>. QED BY <2>7, <2>10
<1>. QED BY <1>9, <1>10, <1>11, <1>12 DEF Replicas

(* Merging by maximum: a snapshot raises one component to at most what was  *)
(* published, and is acknowledged only then                                 *)
LEMMA ReceiveSnapshotKeeps ==
    ASSUME Replicas, NEW n \in Nodes, NEW f \in msgs, ReceiveSnapshot(n, f)
    PROVE  Replicas'
<1>. DEFINE ack == [type |-> "Ack", from |-> n, to |-> f.from, seq |-> f.seq]
<1>1. Shape /\ TypeOK /\ Origin /\ (restarts = 0 => Numbered /\ NoSilentLoss)
  BY DEF Replicas
<1>2. /\ f.to = n /\ f.type = "Snapshot"
      /\ components' = [components EXCEPT ![n][f.from][f.key] = Merge(@, f.value)]
      /\ msgs' = msgs \cup {ack}
      /\ UNCHANGED <<outbound, coalesced, pending, next_sequence, dropped, published, restarts>>
  BY DEF ReceiveSnapshot, queues, sender, bounds
<1>3. f.from \in Nodes /\ f.key \in Keys /\ f.value \in Values /\ f.seq \in Nat
  BY <1>1, <1>2 DEF Shape, SnapshotFrames, AckFrames
<1>4. f.value \in Nat
  BY <1>3, ValuesAreAmounts
<1>5. \A m, c \in Nodes, k \in Keys : components[m][c][k] \in Nat
  BY <1>1, ValuesAreAmounts DEF TypeOK
<1>6. components' \in [Nodes -> [Nodes -> [Keys -> {0} \cup Values]]]
  BY <1>1, <1>2, <1>3 DEF TypeOK, Merge, Larger
<1>7. \A m, c \in Nodes, k \in Keys :
         /\ m = n /\ c = f.from /\ k = f.key =>
               components'[m][c][k] = Merge(components[m][c][k], f.value)
         /\ m # n \/ c # f.from \/ k # f.key => components'[m][c][k] = components[m][c][k]
  BY <1>1, <1>2, <1>3 DEF TypeOK
<1>8. \A m, c \in Nodes, k \in Keys : components'[m][c][k] \in Nat
                                      /\ components[m][c][k] <= components'[m][c][k]
  BY <1>4, <1>5, <1>7 DEF Merge, Larger
<1>9. ack \in AckFrames /\ ack.type = "Ack"
  BY <1>3 DEF AckFrames
<1>10. Shape'
  BY <1>1, <1>2, <1>9 DEF Shape
<1>11. TypeOK'
  BY <1>1, <1>2, <1>6 DEF TypeOK
<1>12. Origin'
  <2>1. f.value <= published[f.from][f.key]
    BY <1>1, <1>2 DEF Origin
  <2>2. \A m, c \in Nodes, k \in Keys : components'[m][c][k] <= published[c][k]
    BY <1>1, <1>7, <2>1 DEF Origin, Merge, Larger
  <2>3. \A g \in msgs' : g.type = "Snapshot" => g.value <= published[g.from][g.key]
    BY <1>1, <1>2, <1>9 DEF Origin
  <2>. QED BY <1>1, <1>2, <2>2, <2>3 DEF Origin
<1>13. ASSUME restarts' = 0 PROVE Numbered' /\ NoSilentLoss'
  <2>1. restarts = 0 /\ Numbered /\ NoSilentLoss
    BY <1>1, <1>2, <1>13
  <2>2. ASSUME NEW g \in msgs, g.type = "Snapshot" PROVE Names(g)'
    BY <1>2, <2>1, <2>2 DEF Numbered, Names
  <2>3. ASSUME NEW g \in msgs, g.type = "Ack" PROVE Confirms(g)'
    <3>1. g.from \in Nodes /\ g.to \in Nodes
      BY <1>1, <2>3 DEF Shape, SnapshotFrames, AckFrames
    <3>2. Confirms(g)
      BY <2>1, <2>3 DEF Numbered
    <3>3. \A p \in pending[g.to] : p.key \in Keys /\ p.value \in Nat
      BY <1>1, <3>1, ValuesAreAmounts DEF TypeOK, Entry
    <3>4. ASSUME NEW p \in pending[g.to], p.seq = g.seq, p.peer = g.from
          PROVE  components'[g.from][g.to][p.key] >= p.value
      <4>1. components[g.from][g.to][p.key] >= p.value
        BY <3>2, <3>4 DEF Confirms
      <4>. QED BY <1>5, <1>8, <3>1, <3>3, <4>1
    <3>. QED BY <1>2, <3>2, <3>4 DEF Confirms
  <2>4. Confirms(ack)'
    <3>1. Names(f)
      BY <1>2, <2>1 DEF Numbered
    <3>2. ASSUME NEW p \in pending[f.from], p.seq = f.seq
          PROVE  components'[n][f.from][p.key] >= p.value
      <4>1. p.key = f.key /\ p.value = f.value
        BY <3>1, <3>2 DEF Names
      <4>2. components'[n][f.from][f.key] >= f.value
        BY <1>3, <1>4, <1>5, <1>7 DEF Merge, Larger
      <4>. QED BY <4>1, <4>2
    <3>3. f.seq < next_sequence[f.from]
      BY <3>1 DEF Names
    <3>. QED BY <1>2, <3>2, <3>3 DEF Confirms
  <2>5. Numbered'
    BY <1>2, <1>9, <2>2, <2>3, <2>4 DEF Numbered
  <2>6. ASSUME NEW c \in Nodes, NEW m \in Nodes, NEW j \in Keys, Covered(c, m, j)
        PROVE  Covered(c, m, j)'
    <3>1. published[c][j] \in Nat
      BY <1>1, ValuesAreAmounts DEF Shape
    <3>2. components[m][c][j] >= published[c][j] => components'[m][c][j] >= published[c][j]
      BY <1>5, <1>8, <3>1
    <3>. QED BY <1>2, <2>6, <3>2 DEF Covered, OnItsWay
  <2>7. NoSilentLoss'
    BY <1>2, <2>1, <2>6, NodesAssumption DEF NoSilentLoss, Covered
  <2>. QED BY <2>5, <2>7
<1>. QED BY <1>10, <1>11, <1>12, <1>13 DEF Replicas

(* An acknowledgement erases only what its peer has merged *)
LEMMA ReceiveAckKeeps ==
    ASSUME Replicas, NEW n \in Nodes, NEW f \in msgs, ReceiveAck(n, f)
    PROVE  Replicas'
<1>1. Shape /\ TypeOK /\ Origin /\ (restarts = 0 => Numbered /\ NoSilentLoss)
  BY DEF Replicas
<1>2. /\ f.to = n /\ f.type = "Ack"
      /\ pending' = [pending EXCEPT ![n] = @ \ Acked(n, f)]
      /\ UNCHANGED <<outbound, coalesced, next_sequence, components, dropped, msgs, published,
                     restarts>>
  BY DEF ReceiveAck, queues, bounds
<1>3. /\ \A c \in Nodes : pending'[c] \subseteq pending[c]
      /\ \A c \in Nodes : c # n => pending'[c] = pending[c]
      /\ pending'[n] = pending[n] \ Acked(n, f)
      /\ pending' \in [Nodes -> SUBSET Entry]
  BY <1>1, <1>2 DEF Shape
<1>4. \A c \in Nodes : IsFiniteSet(pending'[c])
                       /\ Cardinality(pending'[c]) <= Cardinality(pending[c])
                       /\ Cardinality(pending'[c]) \in Nat /\ Cardinality(pending[c]) \in Nat
  BY <1>1, <1>3, FS_Subset, FS_CardinalityType DEF Shape
<1>5. Shape'
  BY <1>1, <1>2, <1>3, <1>4 DEF Shape
<1>6. TypeOK'
  <2>1. ASSUME NEW c \in Nodes PROVE Cardinality(pending'[c]) <= MaxPending
    <3>1. Cardinality(pending[c]) <= MaxPending /\ MaxPending \in Nat
      BY <1>1, LimitsAssumption DEF TypeOK
    <3>. QED BY <1>4, <3>1
  <2>2. \A c \in Nodes : /\ Len(outbound'[c]) <= OutboundCapacity
                         /\ \A u, w \in coalesced'[c] : u.key = w.key => u = w
    BY <1>1, <1>2 DEF TypeOK
  <2>3. \A c \in Nodes : /\ pending'[c] \subseteq Entry
                         /\ \A p, q \in pending'[c] : p.seq = q.seq => p = q
                         /\ \A p \in pending'[c] : p.seq < next_sequence'[c] /\ p.peer # c
    BY <1>1, <1>2, <1>3 DEF TypeOK
  <2>. QED BY <1>1, <1>2, <2>1, <2>2, <2>3 DEF TypeOK
<1>7. Origin'
  BY <1>1, <1>2, <1>3 DEF Origin
<1>8. ASSUME restarts' = 0 PROVE Numbered' /\ NoSilentLoss'
  <2>1. restarts = 0 /\ Numbered /\ NoSilentLoss
    BY <1>1, <1>2, <1>8
  <2>2. Numbered'
    <3>1. \A g \in msgs : /\ g.type = "Snapshot" => g.from \in Nodes
                          /\ g.type = "Ack" => g.to \in Nodes
      BY <1>1 DEF Shape, SnapshotFrames, AckFrames
    <3>. QED BY <1>2, <1>3, <2>1, <3>1 DEF Numbered, Names, Confirms
  <2>3. ASSUME NEW c \in Nodes, NEW m \in Nodes, NEW j \in Keys, Covered(c, m, j)
        PROVE  Covered(c, m, j)'
    <3>1. ASSUME NEW p \in pending[c], p.peer = m, p.key = j, p.value >= published[c][j],
                 p \notin pending'[c]
          PROVE  components[m][c][j] >= published[c][j]
      <4>1. c = n /\ p.seq = f.seq /\ p.peer = f.from
        BY <1>3, <3>1 DEF Acked
      <4>2. components[m][c][j] >= p.value
        BY <1>2, <2>1, <3>1, <4>1 DEF Numbered, Confirms
      <4>3. published[c][j] \in Nat /\ components[m][c][j] \in Nat /\ p.value \in Nat
        BY <1>1, ValuesAreAmounts DEF Shape, TypeOK, Entry
      <4>. QED BY <3>1, <4>2, <4>3
    <3>. QED BY <1>2, <2>3, <3>1 DEF Covered, OnItsWay
  <2>4. NoSilentLoss'
    BY <1>2, <2>1, <2>3, NodesAssumption DEF NoSilentLoss, Covered
  <2>. QED BY <2>2, <2>4
<1>. QED BY <1>5, <1>6, <1>7, <1>8 DEF Replicas

(* A retry sends the same snapshot under the same number; giving up counts *)
LEMMA RetryKeeps ==
    ASSUME Replicas, NEW n \in Nodes, NEW p \in pending[n], RetryExpired(n, p)
    PROVE  Replicas'
<1>1. Shape /\ TypeOK /\ Origin /\ (restarts = 0 => Numbered /\ NoSilentLoss)
  BY DEF Replicas
<1>2. UNCHANGED <<outbound, coalesced, next_sequence, components, published, restarts>>
  BY DEF RetryExpired, queues, bounds
<1>3. p \in Entry /\ p.attempts \in Nat /\ p.attempts <= MaxRetries
      /\ IsFiniteSet(pending[n]) /\ Cardinality(pending[n]) \in Nat
      /\ Cardinality(pending[n]) <= MaxPending
  BY <1>1, FS_CardinalityType, LimitsAssumption DEF TypeOK, Shape, Entry
<1>4. /\ IsFiniteSet(pending[n] \ {p})
      /\ Cardinality(pending[n] \ {p}) = Cardinality(pending[n]) - 1
  BY <1>3, FS_RemoveElement
<1>5. CASE /\ pending' = [pending EXCEPT ![n] = @ \ {p}]
           /\ dropped' = [dropped EXCEPT ![n] = TRUE]
           /\ UNCHANGED msgs
  <2>1. /\ \A c \in Nodes : pending'[c] \subseteq pending[c]
        /\ \A c \in Nodes : c # n => pending'[c] = pending[c] /\ dropped'[c] = dropped[c]
        /\ pending'[n] = pending[n] \ {p} /\ dropped'[n]
        /\ pending' \in [Nodes -> SUBSET Entry] /\ dropped' \in [Nodes -> BOOLEAN]
    BY <1>1, <1>5 DEF Shape, TypeOK
  <2>2. Shape'
    BY <1>1, <1>2, <1>4, <1>5, <2>1 DEF Shape
  <2>3. TypeOK'
    <3>1. Cardinality(pending'[n]) <= MaxPending
      BY <1>3, <1>4, <2>1, LimitsAssumption
    <3>2. \A c \in Nodes : Cardinality(pending'[c]) <= MaxPending
      BY <1>1, <2>1, <3>1 DEF TypeOK
    <3>. QED BY <1>1, <1>2, <2>1, <3>2 DEF TypeOK
  <2>4. Origin'
    BY <1>1, <1>2, <1>5, <2>1 DEF Origin
  <2>5. ASSUME restarts' = 0 PROVE Numbered' /\ NoSilentLoss'
    <3>1. restarts = 0 /\ Numbered /\ NoSilentLoss
      BY <1>1, <1>2, <2>5
    <3>2. Numbered'
      <4>1. \A g \in msgs : /\ g.type = "Snapshot" => g.from \in Nodes
                            /\ g.type = "Ack" => g.to \in Nodes
        BY <1>1 DEF Shape, SnapshotFrames, AckFrames
      <4>. QED BY <1>2, <1>5, <2>1, <3>1, <4>1 DEF Numbered, Names, Confirms
    <3>3. ASSUME NEW c \in Nodes, NEW m \in Nodes, NEW j \in Keys, Covered(c, m, j), c # n
          PROVE  Covered(c, m, j)'
      BY <1>2, <2>1, <3>3 DEF Covered, OnItsWay
    <3>4. NoSilentLoss'
      BY <1>2, <2>1, <3>1, <3>3, NodesAssumption DEF NoSilentLoss, Covered
    <3>. QED BY <3>2, <3>4
  <2>. QED BY <2>2, <2>3, <2>4, <2>5 DEF Replicas
<1>6. CASE /\ p.attempts < MaxRetries
           /\ pending' = [pending EXCEPT ![n] = (@ \ {p}) \cup {Retried(p)}]
           /\ msgs' = msgs \cup {Snapshot(n, p)}
           /\ UNCHANGED dropped
  <2>. DEFINE r == Retried(p)
              s == Snapshot(n, p)
  <2>1. /\ r \in Entry
        /\ r.seq = p.seq /\ r.peer = p.peer /\ r.key = p.key /\ r.value = p.value
    BY <1>3, <1>6, LimitsAssumption DEF Retried, Entry
  <2>2. /\ s \in SnapshotFrames /\ s.type = "Snapshot" /\ s.from = n
        /\ s.to = p.peer /\ s.seq = p.seq /\ s.key = p.key /\ s.value = p.value
    BY <1>3 DEF Snapshot, SnapshotFrames, Entry
  <2>3. /\ pending' = [pending EXCEPT ![n] = (@ \ {p}) \cup {r}]
        /\ msgs' = msgs \cup {s}
    BY <1>6
  <2>. HIDE DEF r, s
  <2>4. /\ \A c \in Nodes : c # n => pending'[c] = pending[c]
        /\ pending'[n] = (pending[n] \ {p}) \cup {r}
        /\ pending' \in [Nodes -> SUBSET Entry]
    BY <1>1, <2>1, <2>3 DEF Shape
  (* as far as anyone can tell, the same entries are pending *)
  <2>5. /\ \A c \in Nodes : \A q \in pending'[c] : \E o \in pending[c] :
              o.seq = q.seq /\ o.peer = q.peer /\ o.key = q.key /\ o.value = q.value
        /\ \A c \in Nodes : \A o \in pending[c] : \E q \in pending'[c] :
              o.seq = q.seq /\ o.peer = q.peer /\ o.key = q.key /\ o.value = q.value
    BY <2>1, <2>4
  <2>6. IsFiniteSet(pending'[n]) /\ Cardinality(pending'[n]) <= MaxPending
    <3>1. /\ IsFiniteSet((pending[n] \ {p}) \cup {r})
          /\ Cardinality((pending[n] \ {p}) \cup {r})
             = IF r \in pending[n] \ {p} THEN Cardinality(pending[n] \ {p})
               ELSE Cardinality(pending[n] \ {p}) + 1
      BY <1>4, FS_AddElement
    <3>. QED BY <1>3, <1>4, <2>4, <3>1, LimitsAssumption
  <2>7. Shape'
    <3>1. \A c \in Nodes : IsFiniteSet(pending'[c])
      BY <1>1, <2>4, <2>6 DEF Shape
    <3>2. msgs' \subseteq SnapshotFrames \cup AckFrames
      BY <1>1, <2>2, <2>3 DEF Shape
    <3>. QED BY <1>1, <1>2, <2>4, <3>1, <3>2 DEF Shape
  <2>8. TypeOK'
    <3>1. \A q, o \in pending'[n] : q.seq = o.seq => q = o
      <4>1. \A q, o \in pending[n] : q.seq = o.seq => q = o
        BY <1>1 DEF TypeOK
      <4>. QED BY <2>1, <2>4, <4>1
    <3>2. \A q \in pending'[n] : q.seq < next_sequence[n] /\ q.peer # n
      BY <1>1, <2>1, <2>4 DEF TypeOK
    <3>3. \A c \in Nodes :
            /\ pending'[c] \subseteq Entry
            /\ Cardinality(pending'[c]) <= MaxPending
            /\ \A q, o \in pending'[c] : q.seq = o.seq => q = o
            /\ \A q \in pending'[c] : q.seq < next_sequence[c] /\ q.peer # c
      BY <1>1, <2>4, <2>6, <3>1, <3>2 DEF TypeOK
    <3>. QED BY <1>1, <1>2, <1>6, <3>3 DEF TypeOK
  <2>9. Origin'
    <3>1. p.value <= published[n][p.key]
      BY <1>1 DEF Origin
    <3>2. \A c \in Nodes : \A q \in pending'[c] : q.value <= published[c][q.key]
      BY <1>1, <2>1, <2>4, <3>1 DEF Origin
    <3>3. \A g \in msgs' : g.type = "Snapshot" => g.value <= published[g.from][g.key]
      BY <1>1, <2>2, <2>3, <3>1 DEF Origin
    <3>. QED BY <1>1, <1>2, <3>2, <3>3 DEF Origin
  <2>10. ASSUME restarts' = 0 PROVE Numbered' /\ NoSilentLoss'
    <3>1. restarts = 0 /\ Numbered /\ NoSilentLoss
      BY <1>1, <1>2, <2>10
    <3>2. ASSUME NEW g \in msgs, g.type = "Snapshot" PROVE Names(g)'
      <4>1. g.from \in Nodes /\ Names(g)
        BY <1>1, <3>1, <3>2 DEF Shape, SnapshotFrames, AckFrames, Numbered
      <4>2. \A q \in pending'[g.from] :
               q.seq = g.seq => q.peer = g.to /\ q.key = g.key /\ q.value = g.value
        BY <2>5, <4>1 DEF Names
      <4>. QED BY <1>2, <4>1, <4>2 DEF Names
    <3>3. ASSUME NEW g \in msgs, g.type = "Ack" PROVE Confirms(g)'
      <4>1. g.to \in Nodes /\ Confirms(g)
        BY <1>1, <3>1, <3>3 DEF Shape, SnapshotFrames, AckFrames, Numbered
      <4>2. \A q \in pending'[g.to] : q.seq = g.seq /\ q.peer = g.from =>
               components[g.from][g.to][q.key] >= q.value
        BY <2>5, <4>1 DEF Confirms
      <4>. QED BY <1>2, <4>1, <4>2 DEF Confirms
    <3>4. Names(s)'
      <4>1. \A q \in pending[n] : q.seq = p.seq => q = p
        BY <1>1 DEF TypeOK
      <4>2. \A q \in pending'[n] :
               q.seq = p.seq => q.peer = p.peer /\ q.key = p.key /\ q.value = p.value
        BY <2>5, <4>1
      <4>3. p.seq < next_sequence[n]
        BY <1>1 DEF TypeOK
      <4>. QED BY <1>2, <2>2, <4>2, <4>3 DEF Names
    <3>5. Numbered'
      BY <2>2, <2>3, <3>2, <3>3, <3>4 DEF Numbered
    <3>6. ASSUME NEW c \in Nodes, NEW m \in Nodes, NEW j \in Keys, Covered(c, m, j)
          PROVE  Covered(c, m, j)'
      BY <1>2, <2>5, <3>6 DEF Covered, OnItsWay
    <3>7. NoSilentLoss'
      BY <1>2, <1>6, <3>1, <3>6, NodesAssumption DEF NoSilentLoss, Covered
    <3>. QED BY <3>5, <3>7
  <2>. QED BY <2>7, <2>8, <2>9, <2>10 DEF Replicas
<1>. QED BY <1>5, <1>6 DEF RetryExpired

(* A restarted node begins empty; what it published before is kept by peers *)
LEMMA RestartKeeps ==
    ASSUME Replicas, NEW n \in Nodes, Restart(n)
    PROVE  Replicas'
<1>1. Shape /\ TypeOK /\ Origin
  BY DEF Replicas
<1>2. /\ restarts' = restarts + 1
      /\ outbound' = [outbound EXCEPT ![n] = <<>>]
      /\ coalesced' = [coalesced EXCEPT ![n] = {}]
      /\ pending' = [pending EXCEPT ![n] = {}]
      /\ next_sequence' = [next_sequence EXCEPT ![n] = 1]
      /\ components' = [components EXCEPT ![n] = NothingSeen]
      /\ dropped' = [dropped EXCEPT ![n] = FALSE]
      /\ UNCHANGED <<msgs, published>>
  BY DEF Restart
<1>3. /\ outbound'[n] = <<>> /\ coalesced'[n] = {} /\ pending'[n] = {}
      /\ Range(outbound'[n]) = {} /\ Len(outbound'[n]) = 0
      /\ \A c \in Nodes : c # n => /\ outbound'[c] = outbound[c]
                                   /\ coalesced'[c] = coalesced[c]
                                   /\ pending'[c] = pending[c]
                                   /\ next_sequence'[c] = next_sequence[c]
  BY <1>1, <1>2 DEF Shape, Range
<1>4. IsFiniteSet({}) /\ Cardinality({}) = 0
  BY FS_EmptySet
<1>5. Shape'
  <2>1. /\ outbound' \in [Nodes -> Seq(Updates)]
        /\ coalesced' \in [Nodes -> SUBSET Updates]
        /\ pending' \in [Nodes -> SUBSET Entry]
        /\ next_sequence' \in [Nodes -> Nat]
        /\ restarts' \in Nat
    BY <1>1, <1>2 DEF Shape
  <2>2. \A c \in Nodes : IsFiniteSet(coalesced'[c]) /\ IsFiniteSet(pending'[c])
    BY <1>1, <1>3, <1>4 DEF Shape
  <2>. QED BY <1>1, <1>2, <2>1, <2>2 DEF Shape
<1>6. \A c \in Nodes, k \in Keys : NothingSeen[c][k] = 0
  BY DEF NothingSeen
<1>7. components' \in [Nodes -> [Nodes -> [Keys -> {0} \cup Values]]]
  BY <1>1, <1>2 DEF TypeOK, NothingSeen
<1>8. TypeOK'
  <2>1. dropped' \in [Nodes -> BOOLEAN]
    BY <1>1, <1>2 DEF TypeOK
  <2>2. \A c \in Nodes :
          /\ Len(outbound'[c]) <= OutboundCapacity
          /\ pending'[c] \subseteq Entry
          /\ Cardinality(pending'[c]) <= MaxPending
          /\ \A p, q \in pending'[c] : p.seq = q.seq => p = q
          /\ \A p \in pending'[c] : p.seq < next_sequence'[c] /\ p.peer # c
          /\ \A u, w \in coalesced'[c] : u.key = w.key => u = w
    <3>1. 0 <= OutboundCapacity /\ 0 <= MaxPending
      BY LimitsAssumption
    <3>. TAKE c \in Nodes
    <3>2. CASE c = n
      <4>1. Cardinality(pending'[c]) = 0
        BY <1>3, <1>4, <3>2
      <4>. QED BY <1>3, <3>1, <3>2, <4>1
    <3>3. CASE c # n
      BY <1>1, <1>3, <3>3 DEF TypeOK
    <3>. QED BY <3>2, <3>3
  <2>. QED BY <1>7, <2>1, <2>2 DEF TypeOK
<1>9. Origin'
  <2>1. \A m, c \in Nodes, k \in Keys : components'[m][c][k] <= published[c][k]
    <3>1. \A c \in Nodes, k \in Keys : published[c][k] \in Nat
      BY <1>1, ValuesAreAmounts DEF Shape
    <3>2. \A m, c \in Nodes, k \in Keys :
             components'[m][c][k] = IF m = n THEN 0 ELSE components[m][c][k]
      BY <1>1, <1>2, <1>6 DEF TypeOK
    <3>. QED BY <1>1, <3>1, <3>2 DEF Origin
  <2>. QED BY <1>1, <1>2, <1>3, <2>1 DEF Origin
<1>10. restarts' # 0
  BY <1>1, <1>2 DEF Shape
<1>. QED BY <1>5, <1>8, <1>9, <1>10 DEF Replicas

LEMMA ReplicasNext == Replicas /\ [Next]_vars => Replicas'
<1>. SUFFICES ASSUME Replicas, [Next]_vars PROVE Replicas'
  OBVIOUS
<1>1. CASE UNCHANGED vars
  BY <1>1 DEF Replicas, Shape, TypeOK, Origin, Numbered, Names, Confirms, NoSilentLoss,
     OnItsWay, vars, queues, sender, bounds
<1>2. CASE Next
  BY <1>2, PublishKeeps, PopKeeps, SendKeeps, ReceiveSnapshotKeeps, ReceiveAckKeeps,
     RetryKeeps, RestartKeeps DEF Next, Worker
<1>. QED BY <1>1, <1>2

LEMMA ReplicasHold == Spec => []Replicas
  BY ReplicasInit, ReplicasNext, PTL DEF Spec

-----------------------------------------------------------------------------
(* The queues and the pending map keep their bounds, and the sequence       *)
(* numbers in use stay unique and below next_sequence_, across any number   *)
(* of publishes, retries and restarts                                       *)
THEOREM ReplicationTypeCorrect == Spec => []TypeOK
<1>1. Replicas => TypeOK
  BY DEF Replicas
<1>. QED BY <1>1, ReplicasHold, PTL

(* Whatever is lost, repeated or reordered on the way, every snapshot of a  *)
(* process that has not restarted is merged by each peer, or still held for *)
(* it, or counted in dropped_count                                          *)
THEOREM NothingLostSilently == Spec => []NoSilentLoss
<1>1. Replicas => NoSilentLoss
  <2>1. Replicas /\ restarts # 0 => restarts > 0
    BY DEF Replicas, Shape
  <2>. QED BY <2>1 DEF Replicas, NoSilentLoss
<1>. QED BY <1>1, ReplicasHold, PTL

(* merged_total() never exceeds the sum of what the nodes published, for    *)
(* any number of nodes, duplicates and restarts                             *)
THEOREM NothingCountedTwice == Spec => []NeverCountedTwice
<1>1. Replicas => NeverCountedTwice
  <2>. SUFFICES ASSUME Replicas, NEW n \in Nodes, NEW k \in Keys
                PROVE  MergedTotal(n, k) <= SumTo([c \in Nodes |-> published[c][k]], N)
    BY DEF NeverCountedTwice
  <2>. DEFINE seen == [c \in Nodes |-> components[n][c][k]]
              sent == [c \in Nodes |-> published[c][k]]
  <2>1. N \in Nat /\ Nodes = 0..(N - 1)
    BY NodesAssumption DEF Nodes
  <2>2. \A c \in Nodes : /\ components[n][c][k] \in Nat /\ published[c][k] \in Nat
                         /\ components[n][c][k] <= published[c][k]
    BY ValuesAreAmounts DEF Replicas, Shape, TypeOK, Origin
  <2>3. \A c \in 0..(N - 1) : seen[c] \in Int /\ sent[c] \in Int /\ seen[c] <= sent[c]
    BY <2>1, <2>2
  <2>4. MergedTotal(n, k) = IF SumTo(seen, N) > AmountMax THEN AmountMax ELSE SumTo(seen, N)
    BY DEF MergedTotal
  <2>. HIDE DEF seen, sent
  <2>5. SumTo(seen, N) <= SumTo(sent, N) /\ SumTo(seen, N) \in Int /\ SumTo(sent, N) \in Int
    BY <2>1, <2>3, SumToMonotone, SumToInt
  <2>. QED BY <2>4, <2>5, ValuesAreAmounts DEF sent
<1>. QED BY <1>1, ReplicasHold, PTL

(* No frame, however old, lowers a component a running replica has merged *)
THEOREM ReplicasNeverGoBack == Spec => ReplicaMonotone
<1>1. Replicas /\ [Next]_vars =>
        [\A n, c \in Nodes, k \in Keys :
            restarts' = restarts => components'[n][c][k] >= components[n][c][k]]_components
  <2>. SUFFICES ASSUME Replicas, [Next]_vars, components' # components, restarts' = restarts,
                       NEW m \in Nodes, NEW c \in Nodes, NEW k \in Keys
                PROVE  components'[m][c][k] >= components[m][c][k]
    OBVIOUS
  <2>1. components \in [Nodes -> [Nodes -> [Keys -> {0} \cup Values]]] /\ restarts \in Nat
    BY DEF Replicas, Shape, TypeOK
  <2>2. components[m][c][k] \in Nat
    BY <2>1, ValuesAreAmounts
  <2>3. PICK n \in Nodes : \E f \in msgs : ReceiveSnapshot(n, f)
    <3>1. \A n \in Nodes : ~Restart(n)
      BY <2>1 DEF Restart
    <3>. QED BY <3>1 DEF vars, Next, Worker, Publish, PopOutbound, SendCoalesced, ReceiveAck,
                         RetryExpired
  <2>4. PICK f \in msgs : ReceiveSnapshot(n, f)
    BY <2>3
  <2>5. /\ components' = [components EXCEPT ![n][f.from][f.key] = Merge(@, f.value)]
        /\ f.type = "Snapshot"
    BY <2>4 DEF ReceiveSnapshot
  <2>6. f.from \in Nodes /\ f.key \in Keys /\ f.value \in Nat
    BY <2>5, ValuesAreAmounts DEF Replicas, Shape, SnapshotFrames, AckFrames
  <2>7. \/ components'[m][c][k] = components[m][c][k]
        \/ components'[m][c][k] = Merge(components[m][c][k], f.value)
    BY <2>1, <2>5, <2>6
  <2>. QED BY <2>2, <2>6, <2>7 DEF Merge, Larger
<1>. QED BY <1>1, ReplicasHold, PTL DEF Spec, ReplicaMonotone
=============================================================================
