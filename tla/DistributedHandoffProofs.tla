---------------------- MODULE DistributedHandoffProofs ----------------------
(***************************************************************************)
(* Proofs about the two-phase handoff, for any number of members, any      *)
(* reservation plan and any number of terms, crashes and restarts.         *)
(*                                                                         *)
(* Three invariants build on one another.  Handoff holds whatever happens: *)
(* it ties a controller's state to its engine, to its journal and to the   *)
(* frames that were sent, and gives agreement and durability.  Unsplit     *)
(* says what binds a member to the leader's decision as long as nobody     *)
(* gave up a vote the leader still counts on.  Accounts adds the numbers:  *)
(* the votes the leader holds are true, and, as long as no process has     *)
(* started from a record of less than it had granted, the grants of the    *)
(* whole cluster add up.  No deadline, crash or stop is assumed away.      *)
(***************************************************************************)
EXTENDS DistributedHandoff, SumsProofs

-----------------------------------------------------------------------------
(* What holds of one member, of the frames and of the leader.              *)

LeaderStates == {"LeaderPreparing", "LeaderCommitBlocked", "LeaderCommitting"}
FollowerStates == {"FollowerPrepared", "FollowerCommitting"}
(* The handoff has closed the gate *)
ClosedStates == {"LeaderPreparing", "LeaderCommitBlocked"} \cup FollowerStates

(* A member's controller c and engine e at the leader's clock reading t *)
TermFits(n, e, c, t) ==
    /\ c.state \in LeaderStates => n = Leader /\ c.term = t
    /\ c.state \in FollowerStates => n # Leader
    /\ c.state = "Idle" => c.term = 0
    /\ c.state # "Idle" => c.term \in 1..t
    /\ c.state \in ClosedStates => c.prepared[n].total = e.used
    /\ \A m \in Members : c.prepared[m] # NoVote => c.prepared[m].total \in Nat

EngineFits(n, e, c) ==
    /\ e.used <= Reservation[n] /\ e.strict <= Limit
    /\ e.mode \in {"ReservedPeak", StrictMode(n)}
    /\ c.state \in ClosedStates => e.active /\ ~e.open /\ e.mode = "ReservedPeak"
    /\ c.state = "LeaderCommitting" => e.mode # "ReservedPeak"
    /\ c.state = "Idle" \/ e.mode # "ReservedPeak" => ~e.active
    /\ c.last # 0 => e.mode # "ReservedPeak"
    /\ c.fenced => c.state = "Idle" /\ ~e.open /\ e.mode = "ReservedPeak"

(* ... and its durable record j *)
JournalFits(n, e, c, j) ==
    /\ j = EmptyRecord \/ j.owner = StrictOwner
    /\ j.total <= Limit
    /\ j.phase = "Idle" => j.total = 0
    /\ j.phase = "Committed" => j.term # 0
    /\ c.state \in {"LeaderPreparing", "FollowerPrepared"} =>
          j.phase = "Prepared" /\ j.total = e.used
    /\ c.state \in ClosedStates => j.phase # "Idle"
    /\ c.state = "LeaderCommitting" => j = Record("Committed", c.term, c.counter, c.total)
    /\ c.last # 0 => j.phase = "Committed" /\ j.term = c.last
    /\ c.fenced => j.phase = "Prepared"
    /\ e.mode # "ReservedPeak" => j.phase = "Committed"
    /\ j.phase = "Committed" =>
          \/ e.mode # "ReservedPeak"
          \/ c.state \in {"FollowerCommitting", "LeaderCommitBlocked"}

TermOK(n) == TermFits(n, eng[n], ctl[n], clock)
EngineOK(n) == EngineFits(n, eng[n], ctl[n])
JournalOK(n) == /\ JournalFits(n, eng[n], ctl[n], journal[n])
                /\ n \in refused => journal[n] = EmptyRecord /\ ~up[n]

FrameOK(f) ==
    /\ f.term <= clock
    /\ f.type \in {"Prepare", "Commit", "Abort"} =>
          f.from = Leader /\ f.to # Leader /\ f.term # 0
    /\ f.type = "Prepared" => f.from # Leader
    /\ f.type = "Abort" /\ ctl[Leader].state \in LeaderStates => f.term # ctl[Leader].term
    /\ f.type \in {"Commit", "CommitAck"} =>
          journal[f.from].phase = "Committed" /\ journal[f.from].term = f.term
    /\ f.type = "Commit" =>
          /\ journal[Leader] = Record("Committed", f.term, f.counter, f.value)
          /\ eng[Leader].mode # "ReservedPeak"

(* The leader's decision, which the leader has installed *)
Adopted(j) == j = journal[Leader] /\ eng[Leader].mode # "ReservedPeak"

LeaderOK ==
    /\ \A n \in Members \ {Leader} :
          journal[n].phase = "Committed" => Adopted(journal[n])
    /\ ctl[Leader].state = "LeaderCommitting" =>
          \A m \in ctl[Leader].acks : journal[m].phase = "Committed"

Handoff == /\ TypeOK
           /\ \A n \in Members : TermOK(n) /\ EngineOK(n) /\ JournalOK(n)
           /\ \A f \in msgs : FrameOK(f)
           /\ LeaderOK

-----------------------------------------------------------------------------
(* The leader works on a term *)
Held == up[Leader] /\ ctl[Leader].state \in {"LeaderPreparing", "LeaderCommitting"}

(* A member that cannot accept from its reservation until the leader has    *)
(* decided, crash and restart included                                      *)
Bound(m) ==
    /\ journal[m].phase # "Idle"
    /\ up[m] => \/ ctl[m].fenced \/ eng[m].mode # "ReservedPeak"
                \/ ctl[m].state \in FollowerStates /\ ctl[m].term = ctl[Leader].term

VotesBind ==
    Held => /\ \A f \in msgs : f.type = "Prepared" /\ f.term = ctl[Leader].term => Bound(f.from)
            /\ \A m \in Members \ {Leader} : ctl[Leader].prepared[m] # NoVote => Bound(m)

Decided == \E n \in Members : eng[n].mode # "ReservedPeak"
DecisionBinds ==
    Decided => \/ /\ up[Leader] /\ ctl[Leader].state = "LeaderCommitting"
                  /\ \A m \in Members \ {Leader} : Bound(m)
               \/ \A m \in Members : journal[m].phase = "Committed"

(* The leader did not go down with a decision others wait for *)
LeaderStays == ctl[Leader].state \in {"LeaderCommitting", "LeaderCommitBlocked"} => up[Leader]

Binding == VotesBind /\ DecisionBinds /\ LeaderStays
Unsplit == lapsed \/ Binding

-----------------------------------------------------------------------------
(* A vote of v by member m is true: it is what m answers for while it is in *)
(* peak mode, and what m will answer for if it restarts from its record.    *)
VoteFits(e, c, j, v) ==
    e.mode = "ReservedPeak" =>
        /\ (IF c.fenced THEN j.total ELSE e.used) = v
        /\ j.phase = "Prepared" => j.total = v
VoteTrue(m, v) == VoteFits(eng[m], ctl[m], journal[m], v)

VotesTrue ==
    Held => /\ \A f \in msgs : f.type = "Prepared" /\ f.term = ctl[Leader].term =>
                  VoteTrue(f.from, f.value)
            /\ \A m \in Members : ctl[Leader].prepared[m] # NoVote =>
                  VoteTrue(m, ctl[Leader].prepared[m].total)

(* What the members answer for in peak mode *)
Shares == [n \in Members |-> Share(n)]

(* A record never claims more than the member has granted. *)
RecordFits(n) ==
    /\ Share(n) <= Reservation[n]
    /\ journal[n].phase # "Committed" => journal[n].total <= Share(n)
    /\ eng[n].mode # "ReservedPeak" => journal[n].total <= eng[n].strict

Books == (\A n \in Members : RecordFits(n)) /\ granted = Accounted

Tallied == VotesTrue /\ (forgotten \/ Books)
Accounts == lapsed \/ Tallied

-----------------------------------------------------------------------------
(* Handoff is inductive.                                                   *)

(* A step of member n leaves the others alone. *)
SameElsewhere(n) ==
    \A m \in Members \ {n} : /\ eng'[m] = eng[m] /\ ctl'[m] = ctl[m]
                             /\ journal'[m] = journal[m] /\ up'[m] = up[m]

(* What a step of member n has to show: its own part of the invariant, that *)
(* a commit is never taken back, and that the frames it sends are right.    *)
LEMMA StepFrame ==
  ASSUME Handoff, TypeOK', NEW n \in Members, SameElsewhere(n),
         clock <= clock', clock' # clock => n = Leader,
         \A m \in refused' : m = n \/ m \in refused,
         TermOK(n)', EngineOK(n)', JournalOK(n)',
         journal[n].phase = "Committed" => journal'[n] = journal[n],
         eng[n].mode # "ReservedPeak" => eng'[n].mode # "ReservedPeak",
         journal'[n].phase = "Committed" => n = Leader \/ Adopted(journal'[n]),
         n = Leader /\ ctl'[n].state \in LeaderStates =>
             \/ ctl[n].state \in LeaderStates /\ ctl'[n].term = ctl[n].term
             \/ ctl'[n].term > clock,
         n = Leader /\ ctl'[n].state = "LeaderCommitting" =>
             \A m \in ctl'[n].acks : journal'[m].phase = "Committed",
         \A f \in msgs' : f \in msgs \/ FrameOK(f)'
  PROVE  Handoff'
  <1> USE DEF SameElsewhere
  <1>0. /\ Leader \in Members /\ clock \in Nat /\ clock' \in Nat /\ msgs \subseteq Frames
        /\ ctl \in [Members -> Controllers]
        /\ \A f \in Frames : f.from \in Members /\ f.term \in Nat
    BY MembersAssumption DEF Handoff, TypeOK, Frames
  <1>1. \A m \in Members : TermOK(m)'
    <2> SUFFICES ASSUME NEW m \in Members, m # n PROVE TermOK(m)'
      OBVIOUS
    <2>1. TermOK(m) /\ ctl[m] \in Controllers
      BY <1>0 DEF Handoff
    <2>2. m = Leader => clock' = clock
      OBVIOUS
    <2>3. ctl[m].term \in 1..clock => ctl[m].term \in 1..clock'
      BY <1>0
    <2> QED
      BY <2>1, <2>2, <2>3 DEF TermOK, TermFits
  <1>2. \A m \in Members : EngineOK(m)'
    BY DEF Handoff, EngineOK
  <1>3. \A m \in Members : JournalOK(m)'
    BY DEF Handoff, JournalOK
  <1>4. \A m \in Members : journal[m].phase = "Committed" => journal'[m] = journal[m]
    OBVIOUS
  <1>5. \A f \in msgs : FrameOK(f)'
    <2> SUFFICES ASSUME NEW f \in msgs PROVE FrameOK(f)'
      OBVIOUS
    <2>1. FrameOK(f) /\ f.from \in Members /\ f.term \in Nat /\ f.term <= clock
      BY <1>0 DEF Handoff, FrameOK
    <2>2. f.term <= clock'
      BY <1>0, <2>1
    <2>3. f.type = "Abort" /\ ctl'[Leader].state \in LeaderStates => f.term # ctl'[Leader].term
      <3>1. CASE n # Leader
        BY <1>0, <2>1, <3>1 DEF FrameOK
      <3>2. CASE n = Leader
        BY <1>0, <2>1, <3>2 DEF FrameOK
      <3> QED
        BY <3>1, <3>2
    <2>4. eng[Leader].mode # "ReservedPeak" => eng'[Leader].mode # "ReservedPeak"
      BY <1>0
    <2>5. f.type = "Commit" => journal'[Leader] = journal[Leader]
      BY <1>0, <1>4, <2>1 DEF FrameOK
    <2> QED
      BY <1>0, <1>4, <2>1, <2>2, <2>3, <2>4, <2>5 DEF FrameOK
  <1>6. LeaderOK'
    <2>1. \A m \in Members \ {Leader} :
             journal'[m].phase = "Committed" => /\ journal'[m] = journal'[Leader]
                                                /\ eng'[Leader].mode # "ReservedPeak"
      <3> SUFFICES ASSUME NEW m \in Members, m # Leader, journal'[m].phase = "Committed"
                   PROVE  journal'[m] = journal'[Leader] /\ eng'[Leader].mode # "ReservedPeak"
        OBVIOUS
      <3>1. /\ journal'[m] = journal[Leader] /\ journal[Leader].phase = "Committed"
            /\ eng[Leader].mode # "ReservedPeak"
        BY <1>0 DEF Handoff, LeaderOK, Adopted
      <3> QED
        BY <1>0, <1>4, <3>1
    <2>2. ctl'[Leader].state = "LeaderCommitting" =>
             \A m \in ctl'[Leader].acks : journal'[m].phase = "Committed"
      <3>1. CASE n # Leader
        <4>1. ctl[Leader].acks \subseteq Members
          BY <1>0 DEF Controllers
        <4> QED
          BY <1>0, <1>4, <3>1, <4>1 DEF Handoff, LeaderOK
      <3>2. CASE n = Leader
        BY <3>2
      <3> QED
        BY <3>1, <3>2
    <2> QED
      BY <2>1, <2>2 DEF LeaderOK, Adopted
  <1> QED
    BY <1>1, <1>2, <1>3, <1>5, <1>6 DEF Handoff

(* The records of one member *)
LEMMA MemberTypes ==
  ASSUME TypeOK, NEW n \in Members
  PROVE  /\ eng \in [Members -> Engines] /\ ctl \in [Members -> Controllers]
         /\ journal \in [Members -> Records] /\ up \in [Members -> BOOLEAN]
         /\ eng[n] \in Engines /\ ctl[n] \in Controllers /\ journal[n] \in Records
         /\ Leader \in Members /\ StrictOwner \in Members /\ 0 \in Members
         /\ clock \in Nat /\ msgs \subseteq Frames /\ Limit \in Nat
         /\ Reservation[n] \in Nat /\ Reservation[n] <= Limit
  <1>1. Reservation[n] <= SumTo(Reservation, N) /\ SumTo(Reservation, N) \in Nat
    BY SumToMember, SumToNat, MembersAssumption, HandoffAmountsAssumption DEF Members
  <1>2. 0 \in Members
    BY MembersAssumption DEF Members
  <1> QED
    BY <1>1, <1>2, MembersAssumption, HandoffAmountsAssumption, PlanAssumption
       DEF TypeOK, ValidPlan


(* One member's entry changes. *)
LEMMA Update ==
  ASSUME NEW S, NEW F \in [Members -> S], NEW n \in Members, NEW x \in S, NEW G,
         G = [F EXCEPT ![n] = x]
  PROVE  G \in [Members -> S] /\ G[n] = x /\ \A m \in Members \ {n} : G[m] = F[m]
  OBVIOUS

(* What the engine's operations do to its fields. *)
LEMMA BegunIs ==
  ASSUME NEW e \in Engines
  PROVE  LET b == Begun(e) IN
         /\ b \in Engines /\ b.active = TRUE /\ b.open = FALSE /\ b.mode = e.mode
         /\ b.used = e.used /\ b.strict = e.strict /\ b.counter = e.counter
  BY DEF Begun, Engines

LEMMA AbortedIs ==
  ASSUME NEW e \in Engines
  PROVE  LET a == Aborted(e) IN
         /\ a \in Engines /\ a.active = FALSE /\ a.mode = e.mode
         /\ a.used = e.used /\ a.strict = e.strict /\ a.counter = e.counter
         /\ e.active = FALSE => a = e
  <1>1. CASE e.active = FALSE
    BY <1>1 DEF Aborted, Engines
  <1>2. CASE e.active = TRUE
    <2>1. PICK o \in BOOLEAN : o = (e.mode = "ReservedPeak" \/ e.open)
      BY Zenon
    <2>2. Aborted(e) = [e EXCEPT !.active = FALSE, !.open = o]
      BY <1>2, <2>1 DEF Aborted, Engines
    <2> QED
      BY <1>2, <2>2 DEF Engines
  <1> QED
    BY <1>1, <1>2 DEF Engines

(* A step that changes no controller, engine or journal: sending a frame,   *)
(* or the end of the process.                                               *)
LEMMA StillInv ==
  ASSUME Handoff, NEW n \in Members, UNCHANGED <<eng, ctl, journal, refused, clock, granted>>,
         up[n], up' \in [Members -> BOOLEAN], \A m \in Members \ {n} : up'[m] = up[m],
         restarts' \in Nat, lapsed' \in BOOLEAN /\ forgotten' \in BOOLEAN,
         \A f \in msgs' : f \in msgs \/ (f \in Frames /\ FrameOK(f))
  PROVE  Handoff'
  <1>0. /\ ctl[n] \in Controllers /\ clock \in Nat /\ n \notin refused
    BY MemberTypes DEF Handoff, JournalOK
  <1>1. TypeOK'
    BY DEF Handoff, TypeOK
  <1>2. SameElsewhere(n)
    BY DEF SameElsewhere
  <1>3. TermOK(n)' /\ EngineOK(n)' /\ JournalOK(n)'
    BY <1>0 DEF Handoff, TermOK, EngineOK, JournalOK
  <1>4. \A f \in msgs' : f \in msgs \/ FrameOK(f)'
    BY DEF FrameOK
  <1>5. /\ journal'[n].phase = "Committed" => n = Leader \/ Adopted(journal'[n])
        /\ n = Leader /\ ctl'[n].state = "LeaderCommitting" =>
             \A m \in ctl'[n].acks : journal'[m].phase = "Committed"
    BY DEF Handoff, LeaderOK
  <1> QED
    BY <1>0, <1>1, <1>2, <1>3, <1>4, <1>5, StepFrame

(* A step that leaves member n with engine e, controller c and record j *)
LEMMA MemberStep ==
  ASSUME Handoff, NEW n \in Members, n \notin refused,
         NEW e \in Engines, NEW c \in Controllers, NEW j \in Records,
         eng' = [eng EXCEPT ![n] = e], ctl' = [ctl EXCEPT ![n] = c],
         journal' = [journal EXCEPT ![n] = j],
         TermFits(n, e, c, clock'), EngineFits(n, e, c), JournalFits(n, e, c, j),
         up' \in [Members -> BOOLEAN], \A m \in Members \ {n} : up'[m] = up[m],
         UNCHANGED refused,
         clock' = clock \/ (clock' = clock + 1 /\ n = Leader),
         restarts' \in Nat, granted' \in Nat, lapsed' \in BOOLEAN /\ forgotten' \in BOOLEAN,
         journal[n].phase = "Committed" => j = journal[n],
         eng[n].mode # "ReservedPeak" => e.mode # "ReservedPeak",
         j.phase = "Committed" => n = Leader \/ Adopted(j),
         c.state \in LeaderStates =>
             \/ ctl[n].state \in LeaderStates /\ c.term = ctl[n].term
             \/ c.term > clock,
         c.state = "LeaderCommitting" =>
             \A m \in c.acks : m = n \/ journal[m].phase = "Committed",
         \A f \in msgs' : f \in msgs \/ (f \in Frames /\ FrameOK(f)')
  PROVE  Handoff'
  <1>0. /\ eng \in [Members -> Engines] /\ ctl \in [Members -> Controllers]
        /\ journal \in [Members -> Records] /\ clock \in Nat /\ Leader \in Members
        /\ msgs \subseteq Frames /\ refused \subseteq Members
        /\ \A m \in Members : eng[m].used <= Reservation[m] /\ eng[m].strict <= Limit
    BY MemberTypes DEF Handoff, TypeOK
  <1>1. /\ eng' \in [Members -> Engines] /\ eng'[n] = e
        /\ \A m \in Members \ {n} : eng'[m] = eng[m]
    BY <1>0, Update
  <1>2. /\ ctl' \in [Members -> Controllers] /\ ctl'[n] = c
        /\ \A m \in Members \ {n} : ctl'[m] = ctl[m]
    BY <1>0, Update
  <1>3. /\ journal' \in [Members -> Records] /\ journal'[n] = j
        /\ \A m \in Members \ {n} : journal'[m] = journal[m]
    BY <1>0, Update
  <1>4. clock <= clock' /\ clock' \in Nat /\ (clock' # clock => n = Leader)
    BY <1>0
  <1>5. TermOK(n)' /\ EngineOK(n)' /\ JournalOK(n)'
    BY <1>1, <1>2, <1>3 DEF TermOK, EngineOK, JournalOK
  <1>6. \A m \in Members : eng'[m].used <= Reservation[m] /\ eng'[m].strict <= Limit
    <2>1. e.used <= Reservation[n] /\ e.strict <= Limit
      BY DEF EngineFits
    <2> QED
      BY <1>0, <1>1, <2>1
  <1>7. msgs' \subseteq Frames
    BY <1>0
  <1>8. TypeOK'
    BY <1>0, <1>1, <1>2, <1>3, <1>4, <1>6, <1>7 DEF TypeOK
  <1>9. SameElsewhere(n)
    BY <1>1, <1>2, <1>3 DEF SameElsewhere
  <1>10. c.state = "LeaderCommitting" => \A m \in c.acks : journal'[m].phase = "Committed"
    <2> SUFFICES ASSUME c.state = "LeaderCommitting", NEW m \in c.acks
                 PROVE  journal'[m].phase = "Committed"
      OBVIOUS
    <2>1. m \in Members
      BY DEF Controllers
    <2>2. CASE m = n
      BY <1>3, <2>2 DEF JournalFits, Record
    <2>3. CASE m # n
      BY <1>3, <2>1, <2>3
    <2> QED
      BY <2>2, <2>3
  <1> HIDE DEF Handoff, TypeOK
  <1> QED
    BY <1>1, <1>2, <1>3, <1>4, <1>5, <1>8, <1>9, <1>10, StepFrame

(* What an up member of a good state is like *)
LEMMA MemberFits ==
  ASSUME Handoff, NEW n \in Members
  PROVE  /\ TermFits(n, eng[n], ctl[n], clock) /\ EngineFits(n, eng[n], ctl[n])
         /\ JournalFits(n, eng[n], ctl[n], journal[n])
         /\ up[n] => n \notin refused
  BY DEF Handoff, TermOK, EngineOK, JournalOK

(* A request is accepted. *)
LEMMA AcceptInv ==
  ASSUME Handoff, NEW n \in Members, NEW d \in Deltas, NEW k \in Counters, Accept(n, d, k)
  PROVE  Handoff'
  <1>0. /\ eng[n] \in Engines /\ ctl[n] \in Controllers /\ journal[n] \in Records
        /\ eng \in [Members -> Engines] /\ ctl \in [Members -> Controllers]
        /\ journal \in [Members -> Records] /\ up \in [Members -> BOOLEAN]
        /\ clock \in Nat /\ d \in Nat /\ k \in Nat /\ Reservation[n] \in Nat /\ Limit \in Nat
        /\ restarts \in Nat /\ granted \in Nat /\ lapsed \in BOOLEAN /\ forgotten \in BOOLEAN
    BY MemberTypes, HandoffAmountsAssumption DEF Handoff, TypeOK
  <1>1. /\ TermFits(n, eng[n], ctl[n], clock) /\ EngineFits(n, eng[n], ctl[n])
        /\ JournalFits(n, eng[n], ctl[n], journal[n]) /\ n \notin refused
    BY MemberFits DEF Accept
  <1>2. PICK e \in Engines :
          /\ eng' = [eng EXCEPT ![n] = e] /\ e.used <= Reservation[n] /\ e.strict <= Limit
          /\ e.mode = eng[n].mode /\ e.open = eng[n].open /\ e.active = eng[n].active
    <2>1. CASE /\ d <= PeakRoom(n)
               /\ eng' = [eng EXCEPT ![n].used = @ + d, ![n].counter = k]
      <3>1. PICK u \in Nat : u = eng[n].used + d /\ u <= Reservation[n]
        BY <1>0, <2>1 DEF Engines, PeakRoom
      <3>2. eng' = [eng EXCEPT ![n] = [eng[n] EXCEPT !.used = u, !.counter = k]]
        BY <1>0, <2>1, <3>1
      <3>3. LET e == [eng[n] EXCEPT !.used = u, !.counter = k]
            IN  /\ e \in Engines /\ e.used = u /\ e.strict = eng[n].strict
                /\ e.mode = eng[n].mode /\ e.open = eng[n].open /\ e.active = eng[n].active
        BY <1>0 DEF Engines
      <3> QED
        BY <1>1, <3>1, <3>2, <3>3 DEF EngineFits
    <2>2. CASE /\ d <= Limit - eng[n].strict
               /\ eng' = [eng EXCEPT ![n].strict = @ + d, ![n].counter = k]
      <3>1. PICK u \in Nat : u = eng[n].strict + d /\ u <= Limit
        BY <1>0, <2>2 DEF Engines
      <3>2. eng' = [eng EXCEPT ![n] = [eng[n] EXCEPT !.strict = u, !.counter = k]]
        BY <1>0, <2>2, <3>1
      <3>3. LET e == [eng[n] EXCEPT !.strict = u, !.counter = k]
            IN  /\ e \in Engines /\ e.strict = u /\ e.used = eng[n].used
                /\ e.mode = eng[n].mode /\ e.open = eng[n].open /\ e.active = eng[n].active
        BY <1>0 DEF Engines
      <3> QED
        BY <1>1, <3>1, <3>2, <3>3 DEF EngineFits
    <2> QED
      BY <2>1, <2>2 DEF Accept
  <1>3. /\ UNCHANGED <<ctl, journal, up, refused, msgs, clock, restarts, lapsed, forgotten>>
        /\ granted' \in Nat /\ eng[n].open
    BY <1>0 DEF Accept
  <1>4. ctl' = [ctl EXCEPT ![n] = ctl[n]] /\ journal' = [journal EXCEPT ![n] = journal[n]]
    BY <1>0, <1>3
  <1>5. /\ TermFits(n, e, ctl[n], clock') /\ EngineFits(n, e, ctl[n])
        /\ JournalFits(n, e, ctl[n], journal[n])
    BY <1>1, <1>2, <1>3 DEF TermFits, EngineFits, JournalFits, ClosedStates, FollowerStates
  <1>6. /\ journal[n].phase = "Committed" => n = Leader \/ Adopted(journal[n])
        /\ ctl[n].state = "LeaderCommitting" =>
             \A m \in ctl[n].acks : m = n \/ journal[m].phase = "Committed"
    BY <1>1 DEF Handoff, LeaderOK, LeaderStates, TermFits
  <1> QED
    BY <1>0, <1>1, <1>2, <1>3, <1>4, <1>5, <1>6, MemberStep

(* Everything a step of member n may count on *)
LEMMA Facts ==
  ASSUME Handoff, NEW n \in Members
  PROVE  /\ eng[n] \in Engines /\ ctl[n] \in Controllers /\ journal[n] \in Records
         /\ eng \in [Members -> Engines] /\ ctl \in [Members -> Controllers]
         /\ journal \in [Members -> Records] /\ up \in [Members -> BOOLEAN]
         /\ Leader \in Members /\ StrictOwner \in Members /\ msgs \subseteq Frames
         /\ clock \in Nat /\ Reservation[n] \in Nat /\ Limit \in Nat /\ Reservation[n] <= Limit
         /\ restarts \in Nat /\ granted \in Nat /\ lapsed \in BOOLEAN /\ forgotten \in BOOLEAN
         /\ TermFits(n, eng[n], ctl[n], clock) /\ EngineFits(n, eng[n], ctl[n])
         /\ JournalFits(n, eng[n], ctl[n], journal[n]) /\ (up[n] => n \notin refused)
         /\ journal[n].phase = "Committed" => n = Leader \/ Adopted(journal[n])
         /\ ctl[n].state = "LeaderCommitting" =>
              \A m \in ctl[n].acks : m = n \/ journal[m].phase = "Committed"
  <1>1. TermFits(n, eng[n], ctl[n], clock)
    BY MemberFits
  <1> QED
    BY <1>1, MemberTypes, MemberFits DEF Handoff, TypeOK, LeaderOK, LeaderStates, TermFits

(* The votes of a member that has just voted *)
LEMMA OwnVote ==
  ASSUME NEW n \in Members, NEW e \in Engines
  PROVE  LET p == [NoVotes EXCEPT ![n] = Vote(e)]
         IN  /\ p \in [Members -> Votes] /\ p[n].total = e.used
             /\ \A m \in Members \ {n} : p[m] = NoVote
             /\ \A m \in Members : p[m] # NoVote => p[m].total \in Nat
  <1>1. Vote(e) \in Votes /\ NoVote \in Votes /\ Vote(e).total = e.used /\ e.used \in Nat
    BY DEF Vote, NoVote, Votes, Engines
  <1>2. NoVotes \in [Members -> Votes] /\ \A m \in Members : NoVotes[m] = NoVote
    BY <1>1 DEF NoVotes
  <1> QED
    BY <1>1, <1>2

(* The leader's new term is the next reading of its clock. *)
LEMMA NewTermIsNext ==
  ASSUME Handoff, ctl[Leader].state = "Idle", eng[Leader].mode = "ReservedPeak"
  PROVE  NewTerm(Leader) = clock + 1
  <1>1. /\ ctl[Leader].term = 0 /\ ctl[Leader].last = 0 /\ clock \in Nat
    BY MembersAssumption, Facts DEF TermFits, EngineFits
  <1> QED
    BY <1>1 DEF NewTerm

(* The leader starts a prepare: its vote is durable or it is idle again. *)
LEMMA BeginLeaderPrepareInv ==
  ASSUME Handoff, NEW n \in Members, BeginLeaderPrepare(n), up[n], ~ctl[n].fenced,
         UNCHANGED <<up, refused, msgs, restarts, granted, lapsed, forgotten>>
  PROVE  Handoff'
  <1>0. /\ eng[n] \in Engines /\ ctl[n] \in Controllers /\ journal[n] \in Records
        /\ eng \in [Members -> Engines] /\ ctl \in [Members -> Controllers]
        /\ journal \in [Members -> Records] /\ up \in [Members -> BOOLEAN]
        /\ StrictOwner \in Members /\ clock \in Nat /\ Limit \in Nat
        /\ Reservation[n] \in Nat /\ Reservation[n] <= Limit
        /\ restarts \in Nat /\ granted \in Nat /\ lapsed \in BOOLEAN /\ forgotten \in BOOLEAN
        /\ TermFits(n, eng[n], ctl[n], clock) /\ EngineFits(n, eng[n], ctl[n])
        /\ JournalFits(n, eng[n], ctl[n], journal[n]) /\ n \notin refused
    BY Facts
  <1>1. /\ n = Leader /\ ctl[n].state = "Idle" /\ eng[n].active = FALSE
        /\ eng[n].mode = "ReservedPeak" /\ clock' = clock + 1 /\ NewTerm(n) = clock + 1
    BY <1>0, NewTermIsNext DEF BeginLeaderPrepare, CanBegin, Engines
  <1> DEFINE rec == Record("Prepared", clock + 1, eng[n].counter, eng[n].used)
             votes == [NoVotes EXCEPT ![n] = Vote(eng[n])]
  <1>2. PICK ok \in PersistOutcomes :
          /\ PersistOver(n, {journal[n]}, rec, ok)
          /\ IF ok
             THEN /\ eng' = [eng EXCEPT ![n] = Begun(@)]
                  /\ ctl' = [ctl EXCEPT
                        ![n].state = "LeaderPreparing", ![n].term = clock + 1,
                        ![n].prepared = votes]
             ELSE /\ eng' = [eng EXCEPT ![n] = Aborted(Begun(@))]
                  /\ ctl' = [ctl EXCEPT ![n].term = 0]
    BY <1>1 DEF BeginLeaderPrepare, Persist
  <1>3. /\ rec \in Records /\ rec.phase = "Prepared" /\ rec.owner = StrictOwner
        /\ rec.total = eng[n].used /\ rec.total <= Limit
    <2>1. /\ eng[n].used \in Nat /\ eng[n].counter \in Nat /\ eng[n].used <= Limit
          /\ clock + 1 \in Nat /\ "Prepared" \in Phases
      BY <1>0 DEF Engines, EngineFits, Phases
    <2> QED
      BY <1>0, <2>1 DEF Record, Records
  <1>4. votes \in [Members -> Votes] /\ votes[n].total = eng[n].used
        /\ \A m \in Members : votes[m] # NoVote => votes[m].total \in Nat
    BY <1>0, OwnVote
  <1>5. journal[n].phase # "Committed" /\ ctl[n].last = 0
    BY <1>0, <1>1 DEF JournalFits, EngineFits
  <1> HIDE DEF rec, votes
  <1>6. \/ ok = TRUE /\ journal' = [journal EXCEPT ![n] = rec]
        \/ ok = FALSE /\ \E j \in {journal[n], rec} : journal' = [journal EXCEPT ![n] = j]
    <2>1. ok = TRUE \/ ok = FALSE
      BY Zenon DEF PersistOutcomes
    <2>2. CASE ok = TRUE
      BY <1>2, <2>2, Zenon DEF PersistOver
    <2>3. CASE ok = FALSE
      BY <1>2, <2>3, Zenon DEF PersistOver
    <2> QED
      BY <2>1, <2>2, <2>3, Zenon
  <1>7. CASE ok = TRUE /\ journal' = [journal EXCEPT ![n] = rec]
    <2> DEFINE e == Begun(eng[n])
               c == [ctl[n] EXCEPT !.state = "LeaderPreparing", !.term = clock + 1,
                                   !.prepared = votes]
    <2>1. eng' = [eng EXCEPT ![n] = e] /\ ctl' = [ctl EXCEPT ![n] = c]
      BY <1>0, <1>2, <1>7
    <2>2. /\ e \in Engines /\ e.active = TRUE /\ e.open = FALSE /\ e.mode = "ReservedPeak"
          /\ e.used = eng[n].used /\ e.strict = eng[n].strict
      BY <1>0, <1>1, BegunIs
    <2>3. /\ c \in Controllers /\ c.state = "LeaderPreparing" /\ c.term = clock + 1
          /\ c.prepared = votes /\ c.last = ctl[n].last /\ c.fenced = ctl[n].fenced
      <3>1. clock + 1 \in Nat
        BY <1>0
      <3> QED
        BY <1>0, <1>4, <3>1 DEF Controllers, States
    <2> HIDE DEF e, c
    <2>4. TermFits(n, e, c, clock')
      BY <1>0, <1>1, <1>4, <2>2, <2>3 DEF TermFits, LeaderStates, FollowerStates
    <2>5. EngineFits(n, e, c)
      BY <1>0, <1>5, <2>2, <2>3 DEF EngineFits
    <2>6. JournalFits(n, e, c, rec)
      BY <1>3, <1>5, <2>2, <2>3 DEF JournalFits
    <2>7. c.term > clock
      BY <1>0, <2>3
    <2> QED
      BY <1>0, <1>1, <1>3, <1>5, <1>7, <2>1, <2>2, <2>3, <2>4, <2>5, <2>6, <2>7, MemberStep
  <1>8. ASSUME ok = FALSE, NEW j \in {journal[n], rec}, journal' = [journal EXCEPT ![n] = j]
        PROVE  Handoff'
    <2> DEFINE e == Aborted(Begun(eng[n]))
               c == [ctl[n] EXCEPT !.term = 0]
    <2>1. eng' = [eng EXCEPT ![n] = e] /\ ctl' = [ctl EXCEPT ![n] = c]
      BY <1>0, <1>2, <1>8
    <2>2. /\ e \in Engines /\ e.active = FALSE /\ e.mode = "ReservedPeak"
          /\ e.used = eng[n].used /\ e.strict = eng[n].strict
      <3>1. /\ Begun(eng[n]) \in Engines /\ Begun(eng[n]).mode = "ReservedPeak"
            /\ Begun(eng[n]).used = eng[n].used /\ Begun(eng[n]).strict = eng[n].strict
        BY <1>0, <1>1, BegunIs
      <3> QED
        BY <3>1, AbortedIs
    <2>3. /\ c \in Controllers /\ c.state = "Idle" /\ c.term = 0
          /\ c.prepared = ctl[n].prepared /\ c.last = ctl[n].last /\ c.fenced = ctl[n].fenced
      BY <1>0, <1>1 DEF Controllers
    <2> HIDE DEF e, c
    <2>4. TermFits(n, e, c, clock')
      BY <1>0, <1>1, <2>2, <2>3
         DEF TermFits, LeaderStates, FollowerStates, ClosedStates
    <2>5. EngineFits(n, e, c)
      BY <1>0, <1>5, <2>2, <2>3 DEF EngineFits, FollowerStates, ClosedStates
    <2>6. JournalFits(n, e, c, j) /\ j \in Records /\ j.phase # "Committed"
      BY <1>0, <1>3, <1>5, <1>8, <2>2, <2>3 DEF JournalFits, FollowerStates, ClosedStates
    <2> QED
      BY <1>0, <1>1, <1>5, <1>8, <2>1, <2>2, <2>3, <2>4, <2>5, <2>6, MemberStep
         DEF LeaderStates
  <1> QED
    BY <1>6, <1>7, <1>8

(* The record an abort writes *)
LEMMA IdleRecordIs ==
  ASSUME Handoff
  PROVE  /\ IdleRecord \in Records /\ IdleRecord.phase = "Idle" /\ IdleRecord.total = 0
         /\ IdleRecord.owner = StrictOwner
  BY MembersAssumption DEF IdleRecord, Record, Records, Phases

LEMMA IdleAgainIs ==
  ASSUME NEW c \in Controllers
  PROVE  LET i == IdleAgain(c)
         IN  /\ i \in Controllers /\ i.state = "Idle" /\ i.term = 0 /\ i.prepared = NoVotes
             /\ i.last = c.last /\ i.fenced = c.fenced
             /\ \A m \in Members : i.prepared[m] = NoVote
  <1>1. NoVotes \in [Members -> Votes] /\ \A m \in Members : NoVotes[m] = NoVote
    BY DEF NoVotes, NoVote, Votes
  <1> QED
    BY <1>1 DEF IdleAgain, Controllers, States

(* A prepare is given up: by a deadline, an abort, disagreeing votes or a   *)
(* stop.                                                                    *)
LEMMA AbortPrepareInv ==
  ASSUME Handoff, NEW n \in Members, NEW b, AbortPrepare(n, b), up[n],
         ctl[n].state \in {"LeaderPreparing", "FollowerPrepared"},
         up' \in [Members -> BOOLEAN], \A m \in Members \ {n} : up'[m] = up[m],
         UNCHANGED <<refused, clock, granted>>, restarts' \in Nat,
         lapsed' \in BOOLEAN /\ forgotten' \in BOOLEAN
  PROVE  Handoff'
  <1>0. /\ eng[n] \in Engines /\ ctl[n] \in Controllers /\ journal[n] \in Records
        /\ ctl \in [Members -> Controllers]
        /\ StrictOwner \in Members /\ clock \in Nat /\ Limit \in Nat
        /\ restarts \in Nat /\ granted \in Nat /\ lapsed \in BOOLEAN /\ forgotten \in BOOLEAN
        /\ TermFits(n, eng[n], ctl[n], clock) /\ EngineFits(n, eng[n], ctl[n])
        /\ JournalFits(n, eng[n], ctl[n], journal[n]) /\ n \notin refused
        /\ Leader \in Members
    BY Facts
  <1>1. /\ eng[n].active = TRUE /\ eng[n].mode = "ReservedPeak"
        /\ ctl[n].last = 0 /\ ctl[n].fenced = FALSE
        /\ journal[n].phase = "Prepared" /\ ctl[n].term \in 1..clock
    BY <1>0 DEF TermFits, EngineFits, JournalFits, ClosedStates, FollowerStates, Engines,
                Controllers
  <1>2. PICK j \in {journal[n], IdleRecord} : journal' = [journal EXCEPT ![n] = j]
    <2>1. PICK ok \in PersistOutcomes : PersistOver(n, {journal[n]}, IdleRecord, ok)
      BY DEF AbortPrepare, Persist
    <2>2. ok = TRUE \/ ok = FALSE
      BY Zenon DEF PersistOutcomes
    <2>3. CASE ok = TRUE
      BY <2>1, <2>3, Zenon DEF PersistOver
    <2>4. CASE ok = FALSE
      BY <2>1, <2>4, Zenon DEF PersistOver
    <2> QED
      BY <2>2, <2>3, <2>4, Zenon
  <1> DEFINE e == Aborted(eng[n])
             c == IdleAgain(ctl[n])
  <1>3. eng' = [eng EXCEPT ![n] = e] /\ ctl' = [ctl EXCEPT ![n] = c]
    BY DEF AbortPrepare
  <1>4. /\ e \in Engines /\ e.active = FALSE /\ e.mode = "ReservedPeak"
        /\ e.used = eng[n].used /\ e.strict = eng[n].strict
    BY <1>0, <1>1, AbortedIs
  <1>5. /\ c \in Controllers /\ c.state = "Idle" /\ c.term = 0
        /\ c.last = 0 /\ c.fenced = FALSE /\ \A m \in Members : c.prepared[m] = NoVote
    BY <1>0, <1>1, IdleAgainIs
  <1> HIDE DEF e, c
  <1>6. TermFits(n, e, c, clock')
    BY <1>5 DEF TermFits, LeaderStates, FollowerStates, ClosedStates
  <1>7. EngineFits(n, e, c)
    BY <1>0, <1>4, <1>5 DEF EngineFits, FollowerStates, ClosedStates
  <1>8. JournalFits(n, e, c, j) /\ j \in Records /\ j.phase # "Committed"
    BY <1>0, <1>1, <1>2, <1>4, <1>5, IdleRecordIs
       DEF JournalFits, FollowerStates, ClosedStates
  <1>9. \A f \in msgs' : f \in msgs \/ (f \in Frames /\ FrameOK(f)')
    <2>1. CASE msgs' = msgs
      BY <2>1
    <2>2. CASE /\ n = Leader
               /\ msgs' = msgs \cup {Frame("Abort", n, m, ctl[n].term, 0, 0) : m \in Peers(n)}
      <3> SUFFICES ASSUME NEW m \in Peers(n), NEW f, f = Frame("Abort", n, m, ctl[n].term, 0, 0)
                   PROVE  f \in Frames /\ FrameOK(f)'
        BY <2>2
      <3>1. /\ m \in Members /\ m # Leader /\ ctl[n].term \in Nat /\ ctl[n].term <= clock
            /\ ctl[n].term # 0
        BY <1>0, <1>1, <2>2 DEF Peers
      <3>2. /\ f \in Frames /\ f.type = "Abort" /\ f.from = Leader /\ f.to = m
            /\ f.term = ctl[n].term
        BY <1>0, <2>2, <3>1 DEF Frame, Frames, FrameTypes
      <3>3. ctl'[Leader].state = "Idle"
        BY <1>0, <1>3, <1>5, <2>2
      <3> QED
        BY <3>1, <3>2, <3>3 DEF FrameOK, LeaderStates
    <2> QED
      BY <2>1, <2>2 DEF AbortPrepare
  <1> QED
    BY <1>0, <1>1, <1>2, <1>3, <1>4, <1>5, <1>6, <1>7, <1>8, <1>9, MemberStep DEF LeaderStates

(* The deadlines and the leader's abort *)
LEMMA TimeoutInv ==
  ASSUME Handoff, NEW n \in Members, NEW f,
         LeaderTimeout(n) \/ FollowerTimeout(n) \/ HandleAbort(n, f)
  PROVE  Handoff'
  <1>0. /\ up \in [Members -> BOOLEAN] /\ restarts \in Nat
        /\ lapsed \in BOOLEAN /\ forgotten \in BOOLEAN
    BY Facts
  <1>1. lapsed' \in BOOLEAN /\ forgotten' \in BOOLEAN
    BY <1>0, Zenon DEF LeaderTimeout, FollowerTimeout, HandleAbort
  <1>2. CASE LeaderTimeout(n)
    BY <1>0, <1>1, <1>2, AbortPrepareInv DEF LeaderTimeout
  <1>3. CASE FollowerTimeout(n)
    BY <1>0, <1>1, <1>3, AbortPrepareInv DEF FollowerTimeout
  <1>4. CASE HandleAbort(n, f)
    BY <1>0, <1>1, <1>4, AbortPrepareInv DEF HandleAbort, Receives
  <1> QED
    BY <1>2, <1>3, <1>4

(* The process ends. *)
LEMMA EndInv ==
  ASSUME Handoff, NEW n \in Members, Crash(n) \/ Stop(n)
  PROVE  Handoff'
  <1>0. /\ up \in [Members -> BOOLEAN] /\ restarts \in Nat
        /\ lapsed \in BOOLEAN /\ forgotten \in BOOLEAN
    BY Facts
  <1>1. lapsed' \in BOOLEAN /\ forgotten' \in BOOLEAN
    <2>1. CASE Crash(n)
      BY <1>0, <2>1, Zenon DEF Crash
    <2>2. CASE Stop(n)
      BY <1>0, <2>2, Zenon DEF Stop
    <2> QED
      BY <2>1, <2>2
  <1>2. /\ up[n] /\ restarts' = restarts + 1 /\ up' \in [Members -> BOOLEAN]
        /\ \A m \in Members \ {n} : up'[m] = up[m]
    BY <1>0 DEF Crash, Stop, Ends
  <1>3. restarts' \in Nat
    BY <1>0, <1>2
  <1>4. CASE /\ UNCHANGED <<eng, ctl, journal, msgs>>
             /\ UNCHANGED <<refused, clock, granted>>
    BY <1>1, <1>2, <1>3, <1>4, StillInv
  <1>5. CASE /\ AbortPrepare(n, FALSE) /\ ctl[n].state \in {"LeaderPreparing", "FollowerPrepared"}
             /\ UNCHANGED <<refused, clock, granted>>
    BY <1>1, <1>2, <1>3, <1>5, AbortPrepareInv
  <1> QED
    BY <1>4, <1>5 DEF Crash, Stop

(* A vote that is sent, for the first time or again *)
LEMMA PreparedFrameIs ==
  ASSUME Handoff, NEW n \in Members, ctl[n].state = "FollowerPrepared"
  PROVE  LET f == PreparedFrame(n, ctl[n].term, ctl[n].prepared[n])
         IN  f \in Frames /\ FrameOK(f)
  <1>1. /\ ctl[n] \in Controllers /\ eng[n] \in Engines /\ clock \in Nat /\ Leader \in Members
        /\ TermFits(n, eng[n], ctl[n], clock)
    BY Facts
  <1>2. /\ ctl[n].prepared[n].counter \in Nat /\ ctl[n].prepared[n].total \in Nat
        /\ ctl[n].term \in Nat /\ ctl[n].term <= clock /\ n # Leader
    BY <1>1 DEF TermFits, Controllers, Votes, Engines, ClosedStates, FollowerStates
  <1> DEFINE f == PreparedFrame(n, ctl[n].term, ctl[n].prepared[n])
  <1>3. f \in Frames /\ f.type = "Prepared" /\ f.from = n /\ f.term = ctl[n].term
    BY <1>1, <1>2 DEF PreparedFrame, Frame, Frames, FrameTypes
  <1> HIDE DEF f
  <1>4. FrameOK(f)
    BY <1>2, <1>3 DEF FrameOK
  <1> QED
    BY <1>3, <1>4 DEF f

(* The frames of a tick *)
LEMMA SendInv ==
  ASSUME Handoff, NEW n \in Members,
         SendPrepare(n) \/ SendPrepared(n) \/ SendCommit(n)
  PROVE  Handoff'
  <1>0. /\ ctl[n] \in Controllers /\ clock \in Nat /\ Leader \in Members /\ up[n]
        /\ TermFits(n, eng[n], ctl[n], clock) /\ EngineFits(n, eng[n], ctl[n])
        /\ JournalFits(n, eng[n], ctl[n], journal[n])
        /\ up \in [Members -> BOOLEAN] /\ restarts \in Nat
        /\ lapsed \in BOOLEAN /\ forgotten \in BOOLEAN
        /\ UNCHANGED <<eng, ctl, journal, up, refused, clock, restarts, granted,
                       lapsed, forgotten>>
    BY Facts DEF SendPrepare, SendPrepared, SendCommit
  <1>1. CASE SendPrepare(n)
    <2> SUFFICES ASSUME NEW m \in Peers(n), NEW f, f = Frame("Prepare", n, m, ctl[n].term, 0, 0)
                 PROVE  f \in Frames /\ FrameOK(f)
      BY <1>0, <1>1, StillInv DEF SendPrepare
    <2>1. /\ n = Leader /\ ctl[n].term \in Nat /\ ctl[n].term <= clock /\ ctl[n].term # 0
          /\ m \in Members /\ m # n
      BY <1>0, <1>1 DEF SendPrepare, TermFits, LeaderStates, Peers
    <2>2. /\ f \in Frames /\ f.type = "Prepare" /\ f.from = n /\ f.to = m
          /\ f.term = ctl[n].term
      BY <2>1 DEF Frame, Frames, FrameTypes
    <2> QED
      BY <2>1, <2>2 DEF FrameOK
  <1>2. CASE SendPrepared(n)
    BY <1>0, <1>2, PreparedFrameIs, StillInv DEF SendPrepared
  <1>3. CASE SendCommit(n)
    <2> SUFFICES ASSUME NEW m \in Peers(n), NEW f,
                        f = Frame("Commit", n, m, ctl[n].term, ctl[n].counter, ctl[n].total)
                 PROVE  f \in Frames /\ FrameOK(f)
      BY <1>0, <1>3, StillInv DEF SendCommit
    <2>1. /\ n = Leader /\ ctl[n].term \in Nat /\ ctl[n].term <= clock /\ ctl[n].term # 0
          /\ m \in Members /\ m # n /\ eng[n].mode # "ReservedPeak"
          /\ ctl[n].counter \in Nat /\ ctl[n].total \in Nat
          /\ journal[n] = Record("Committed", ctl[n].term, ctl[n].counter, ctl[n].total)
      BY <1>0, <1>3 DEF SendCommit, TermFits, EngineFits, JournalFits, LeaderStates, Peers,
                        Controllers
    <2>2. /\ f \in Frames /\ f.type = "Commit" /\ f.from = n /\ f.to = m
          /\ f.term = ctl[n].term /\ f.counter = ctl[n].counter /\ f.value = ctl[n].total
      BY <2>1 DEF Frame, Frames, FrameTypes
    <2>3. journal[n].phase = "Committed" /\ journal[n].term = ctl[n].term
      BY <2>1 DEF Record
    <2> QED
      BY <2>1, <2>2, <2>3 DEF FrameOK
  <1> QED
    BY <1>1, <1>2, <1>3

(* A member is in danger: the leader prepares, a follower asks it to. *)
LEMMA TriggerInv ==
  ASSUME Handoff, NEW n \in Members, NEW f, TickTrigger(n) \/ HandleTrigger(n, f)
  PROVE  Handoff'
  <1>1. CASE BeginLeaderPrepare(n) /\ up[n] /\ ~ctl[n].fenced
             /\ UNCHANGED <<up, refused, msgs, restarts, granted, lapsed, forgotten>>
    BY <1>1, BeginLeaderPrepareInv
  <1>2. CASE /\ up[n] /\ n # Leader
             /\ msgs' = msgs \cup {Frame("Trigger", n, Leader, 0, 0, 0)}
             /\ UNCHANGED <<eng, ctl, journal, up, refused, clock, restarts, granted,
                            lapsed, forgotten>>
    <2> DEFINE g == Frame("Trigger", n, Leader, 0, 0, 0)
    <2>0. /\ clock \in Nat /\ Leader \in Members
          /\ up \in [Members -> BOOLEAN] /\ restarts \in Nat
          /\ lapsed \in BOOLEAN /\ forgotten \in BOOLEAN
      BY Facts
    <2>1. g \in Frames /\ g.type = "Trigger" /\ g.term = 0
      BY <2>0 DEF Frame, Frames, FrameTypes
    <2> HIDE DEF g
    <2>2. FrameOK(g)
      BY <2>0, <2>1 DEF FrameOK
    <2>3. msgs' = msgs \cup {g}
      BY <1>2 DEF g
    <2> QED
      BY <1>2, <2>0, <2>1, <2>2, <2>3, StillInv
  <1> QED
    BY <1>1, <1>2 DEF TickTrigger, HandleTrigger, Receives

(* The process starts again: what it becomes is what its record says. *)
LEMMA RecoveredIs ==
  ASSUME Handoff, NEW n \in Members
  PROVE  LET r == Recovered(n, journal[n])
         IN  /\ r.engine \in Engines /\ r.controller \in Controllers
             /\ r.engine.used = 0 /\ r.engine.active = FALSE
             /\ r.controller.state = "Idle" /\ r.controller.term = 0
             /\ \A m \in Members : r.controller.prepared[m] = NoVote
             /\ journal[n].phase = "Prepared" =>
                  /\ r.engine.mode = "ReservedPeak" /\ r.engine.open = FALSE
                  /\ r.engine.strict = 0
                  /\ r.controller.fenced = TRUE /\ r.controller.last = 0
             /\ journal[n].phase = "Committed" =>
                  /\ r.engine.mode = StrictMode(n) /\ r.engine.strict = journal[n].total
                  /\ r.controller.fenced = FALSE /\ r.controller.last = journal[n].term
             /\ journal[n].phase = "Idle" =>
                  /\ r.engine.mode = "ReservedPeak" /\ r.engine.strict = 0
                  /\ r.controller.fenced = FALSE /\ r.controller.last = 0
  <1>0. journal[n] \in Records
    BY Facts
  <1>1. /\ FreshEngine \in Engines /\ FreshEngine.used = 0 /\ FreshEngine.active = FALSE
        /\ FreshEngine.mode = "ReservedPeak" /\ FreshEngine.strict = 0
    BY DEF FreshEngine, Engines
  <1>2. /\ FreshController \in Controllers /\ FreshController.state = "Idle"
        /\ FreshController.term = 0 /\ FreshController.last = 0
        /\ FreshController.fenced = FALSE
        /\ \A m \in Members : FreshController.prepared[m] = NoVote
    <2>1. NoVotes \in [Members -> Votes] /\ \A m \in Members : NoVotes[m] = NoVote
      BY DEF NoVotes, NoVote, Votes
    <2> QED
      BY <2>1 DEF FreshController, Controllers, States
  <1>3. CASE journal[n].phase = "Prepared"
    <2> DEFINE e == [FreshEngine EXCEPT !.open = FALSE]
               c == [FreshController EXCEPT !.fenced = TRUE]
    <2>1. Recovered(n, journal[n]) = [engine |-> e, controller |-> c]
      BY <1>3 DEF Recovered
    <2>2. /\ e \in Engines /\ e.used = 0 /\ e.active = FALSE /\ e.open = FALSE
          /\ e.mode = "ReservedPeak" /\ e.strict = 0
      BY <1>1 DEF Engines
    <2>3. /\ c \in Controllers /\ c.state = "Idle" /\ c.term = 0 /\ c.last = 0
          /\ c.fenced = TRUE /\ \A m \in Members : c.prepared[m] = NoVote
      BY <1>2 DEF Controllers
    <2> HIDE DEF e, c
    <2> QED
      BY <1>3, <2>1, <2>2, <2>3
  <1>4. CASE journal[n].phase = "Committed"
    <2> DEFINE x == Committed(FreshEngine, n, journal[n].total)
               e == [x EXCEPT !.counter = journal[n].counter]
               c == [FreshController EXCEPT !.last = journal[n].term]
    <2>1. Recovered(n, journal[n]) = [engine |-> e, controller |-> c]
      BY <1>4 DEF Recovered
    <2>2. journal[n].total \in Nat /\ journal[n].counter \in Nat /\ journal[n].term \in Nat
      BY <1>0 DEF Records
    <2>3. /\ x \in Engines /\ x.used = 0 /\ x.active = FALSE
          /\ x.mode = StrictMode(n) /\ x.strict = journal[n].total
      BY <1>1, <2>2 DEF Committed, Engines, StrictMode
    <2> HIDE DEF x
    <2>4. /\ e \in Engines /\ e.used = 0 /\ e.active = FALSE
          /\ e.mode = StrictMode(n) /\ e.strict = journal[n].total
      BY <2>2, <2>3 DEF Engines
    <2>5. /\ c \in Controllers /\ c.state = "Idle" /\ c.term = 0 /\ c.last = journal[n].term
          /\ c.fenced = FALSE /\ \A m \in Members : c.prepared[m] = NoVote
      BY <1>2, <2>2 DEF Controllers
    <2> HIDE DEF e, c
    <2> QED
      BY <1>4, <2>1, <2>4, <2>5
  <1>5. CASE journal[n].phase = "Idle"
    BY <1>1, <1>2, <1>5 DEF Recovered
  <1> QED
    BY <1>0, <1>3, <1>4, <1>5 DEF Records, Phases

LEMMA StartInv ==
  ASSUME Handoff, NEW n \in Members, Start(n)
  PROVE  Handoff'
  <1>0. /\ eng[n] \in Engines /\ ctl[n] \in Controllers /\ journal[n] \in Records
        /\ eng \in [Members -> Engines] /\ ctl \in [Members -> Controllers]
        /\ journal \in [Members -> Records] /\ up \in [Members -> BOOLEAN]
        /\ StrictOwner \in Members /\ clock \in Nat /\ Limit \in Nat /\ Reservation[n] \in Nat
        /\ restarts \in Nat /\ granted \in Nat /\ lapsed \in BOOLEAN /\ forgotten \in BOOLEAN
        /\ TermFits(n, eng[n], ctl[n], clock) /\ EngineFits(n, eng[n], ctl[n])
        /\ JournalFits(n, eng[n], ctl[n], journal[n])
        /\ journal[n].phase = "Committed" => n = Leader \/ Adopted(journal[n])
        /\ ctl[n].state = "LeaderCommitting" =>
             \A m \in ctl[n].acks : m = n \/ journal[m].phase = "Committed"
    BY Facts
  <1>1. /\ up[n] = FALSE /\ n \notin refused
        /\ UNCHANGED <<journal, msgs, clock, restarts, granted, lapsed>>
    BY <1>0 DEF Start
  <1>1a. forgotten' \in BOOLEAN
    BY <1>0, Zenon DEF Start
  <1>2. CASE /\ journal[n].owner # StrictOwner \/ journal[n].total > Limit
             /\ refused' = refused \cup {n} /\ UNCHANGED <<eng, ctl, up>>
    <2>1. journal[n] = EmptyRecord
      BY <1>0, <1>2 DEF JournalFits, Records
    <2>2. TypeOK'
      BY <1>1, <1>1a, <1>2 DEF Handoff, TypeOK
    <2>3. SameElsewhere(n)
      BY <1>1, <1>2 DEF SameElsewhere
    <2>4. TermOK(n)' /\ EngineOK(n)' /\ JournalOK(n)'
      BY <1>0, <1>1, <1>2, <2>1 DEF TermOK, EngineOK, JournalOK
    <2>5. ctl[n].state = "LeaderCommitting" =>
             \A m \in ctl[n].acks : journal[m].phase = "Committed"
      BY <1>0 DEF JournalFits, Record
    <2> QED
      BY <1>0, <1>1, <1>2, <2>2, <2>3, <2>4, <2>5, StepFrame
  <1>3. CASE /\ UNCHANGED refused /\ up' = [up EXCEPT ![n] = TRUE]
             /\ eng' = [eng EXCEPT ![n] = Recovered(n, journal[n]).engine]
             /\ ctl' = [ctl EXCEPT ![n] = Recovered(n, journal[n]).controller]
    <2> DEFINE e == Recovered(n, journal[n]).engine
               c == Recovered(n, journal[n]).controller
    <2>1. /\ e \in Engines /\ c \in Controllers /\ e.used = 0 /\ e.active = FALSE
          /\ c.state = "Idle" /\ c.term = 0 /\ \A m \in Members : c.prepared[m] = NoVote
          /\ journal[n].phase = "Prepared" =>
               /\ e.mode = "ReservedPeak" /\ e.open = FALSE /\ e.strict = 0
               /\ c.fenced = TRUE /\ c.last = 0
          /\ journal[n].phase = "Committed" =>
               /\ e.mode = StrictMode(n) /\ e.strict = journal[n].total
               /\ c.fenced = FALSE /\ c.last = journal[n].term
          /\ journal[n].phase = "Idle" =>
               /\ e.mode = "ReservedPeak" /\ e.strict = 0 /\ c.fenced = FALSE /\ c.last = 0
      BY RecoveredIs
    <2>2. eng' = [eng EXCEPT ![n] = e] /\ ctl' = [ctl EXCEPT ![n] = c]
          /\ journal' = [journal EXCEPT ![n] = journal[n]]
      BY <1>0, <1>1, <1>3
    <2> HIDE DEF e, c
    <2>3. journal[n].phase \in {"Idle", "Prepared", "Committed"}
      BY <1>0 DEF Records, Phases
    <2>4. StrictMode(n) # "ReservedPeak"
      BY DEF StrictMode
    <2>5. TermFits(n, e, c, clock')
      BY <2>1 DEF TermFits, LeaderStates, FollowerStates, ClosedStates
    <2>6. EngineFits(n, e, c)
      BY <1>0, <2>1, <2>3, <2>4 DEF EngineFits, JournalFits, FollowerStates, ClosedStates
    <2>7. JournalFits(n, e, c, journal[n])
      BY <1>0, <2>1, <2>3, <2>4 DEF JournalFits, FollowerStates, ClosedStates
    <2>8. eng[n].mode # "ReservedPeak" => e.mode # "ReservedPeak"
      BY <1>0, <2>1, <2>4 DEF JournalFits
    <2>9. up' \in [Members -> BOOLEAN] /\ \A m \in Members \ {n} : up'[m] = up[m]
      BY <1>0, <1>3
    <2> QED
      BY <1>0, <1>1, <1>1a, <1>3, <2>1, <2>2, <2>5, <2>6, <2>7, <2>8, <2>9, MemberStep
         DEF LeaderStates
  <1> QED
    BY <1>2, <1>3 DEF Start, Load

(* The last acknowledgements reach the leader. *)
LEMMA HandleCommitAckInv ==
  ASSUME Handoff, NEW n \in Members, NEW f \in msgs, HandleCommitAck(n, f)
  PROVE  Handoff'
  <1>0. /\ eng[n] \in Engines /\ ctl[n] \in Controllers /\ journal[n] \in Records
        /\ eng \in [Members -> Engines] /\ ctl \in [Members -> Controllers]
        /\ journal \in [Members -> Records] /\ up \in [Members -> BOOLEAN]
        /\ clock \in Nat /\ restarts \in Nat /\ granted \in Nat
        /\ lapsed \in BOOLEAN /\ forgotten \in BOOLEAN
        /\ TermFits(n, eng[n], ctl[n], clock) /\ EngineFits(n, eng[n], ctl[n])
        /\ JournalFits(n, eng[n], ctl[n], journal[n]) /\ n \notin refused
        /\ journal[n].phase = "Committed" => n = Leader \/ Adopted(journal[n])
        /\ ctl[n].state = "LeaderCommitting" =>
             \A m \in ctl[n].acks : m = n \/ journal[m].phase = "Committed"
    BY Facts DEF HandleCommitAck, Receives
  <1>1. /\ n = Leader /\ ctl[n].state = "LeaderCommitting" /\ f.term = ctl[n].term
        /\ f.type = "CommitAck"
        /\ UNCHANGED <<eng, journal, up, refused, msgs, clock, restarts, granted,
                       lapsed, forgotten>>
    BY DEF HandleCommitAck, Receives
  <1>2. f.from \in Members /\ f.term \in Nat /\ journal[f.from].phase = "Committed"
    BY <1>1, Facts DEF Handoff, FrameOK, Frames
  <1> DEFINE acks == ctl[n].acks \cup {f.from}
  <1>3. ctl' = [ctl EXCEPT ![n] =
                IF AllAcked(acks)
                THEN [@ EXCEPT !.acks = acks, !.last = f.term, !.state = "Idle", !.term = 0]
                ELSE [@ EXCEPT !.acks = acks]]
    BY DEF HandleCommitAck
  <1>9. /\ acks \in SUBSET Members
        /\ \A m \in acks : m = n \/ journal[m].phase = "Committed"
    BY <1>0, <1>1, <1>2 DEF Controllers
  <1> HIDE DEF acks
  <1>4. journal' = [journal EXCEPT ![n] = journal[n]] /\ eng' = [eng EXCEPT ![n] = eng[n]]
    BY <1>0, <1>1
  <1>5. /\ journal[n].phase = "Committed" /\ journal[n].term = ctl[n].term
        /\ ctl[n].term # 0
    BY <1>0, <1>1 DEF JournalFits, Record, TermFits
  <1>6. CASE AllAcked(acks)
    <2> DEFINE c == [ctl[n] EXCEPT !.acks = acks, !.last = f.term, !.state = "Idle", !.term = 0]
    <2>1. ctl' = [ctl EXCEPT ![n] = c]
      BY <1>3, <1>6
    <2>2. /\ c \in Controllers /\ c.state = "Idle" /\ c.term = 0 /\ c.last = f.term
          /\ c.prepared = ctl[n].prepared /\ c.fenced = ctl[n].fenced
      BY <1>0, <1>2, <1>9 DEF Controllers, States
    <2> HIDE DEF c
    <2>3. TermFits(n, eng[n], c, clock')
      BY <1>0, <2>2 DEF TermFits, LeaderStates, FollowerStates, ClosedStates
    <2>4. EngineFits(n, eng[n], c)
      BY <1>0, <1>1, <2>2 DEF EngineFits, FollowerStates, ClosedStates
    <2>5. JournalFits(n, eng[n], c, journal[n])
      BY <1>0, <1>1, <1>5, <2>2 DEF JournalFits, EngineFits, FollowerStates, ClosedStates
    <2> QED
      BY <1>0, <1>1, <1>4, <2>1, <2>2, <2>3, <2>4, <2>5, MemberStep DEF LeaderStates
  <1>7. CASE ~AllAcked(acks)
    <2> DEFINE c == [ctl[n] EXCEPT !.acks = acks]
    <2>1. ctl' = [ctl EXCEPT ![n] = c]
      BY <1>3, <1>7
    <2>2. /\ c \in Controllers /\ c.state = "LeaderCommitting" /\ c.term = ctl[n].term
          /\ c.last = ctl[n].last /\ c.counter = ctl[n].counter /\ c.total = ctl[n].total
          /\ c.prepared = ctl[n].prepared /\ c.fenced = ctl[n].fenced /\ c.acks = acks
      BY <1>0, <1>1, <1>9 DEF Controllers, States
    <2> HIDE DEF c
    <2>3. TermFits(n, eng[n], c, clock')
      BY <1>0, <1>1, <2>2 DEF TermFits
    <2>4. EngineFits(n, eng[n], c)
      BY <1>0, <1>1, <2>2 DEF EngineFits
    <2>5. JournalFits(n, eng[n], c, journal[n])
      BY <1>0, <1>1, <2>2 DEF JournalFits
    <2>6. c.state = "LeaderCommitting" =>
             \A m \in c.acks : m = n \/ journal[m].phase = "Committed"
      BY <1>9, <2>2
    <2>7. c.state \in LeaderStates =>
             \/ ctl[n].state \in LeaderStates /\ c.term = ctl[n].term
             \/ c.term > clock
      BY <1>1, <2>2 DEF LeaderStates
    <2>8. /\ c \in Controllers /\ eng[n] \in Engines /\ journal[n] \in Records
          /\ n \notin refused /\ n = Leader /\ UNCHANGED <<refused, clock, msgs>>
          /\ up' \in [Members -> BOOLEAN] /\ \A m \in Members \ {n} : up'[m] = up[m]
          /\ restarts' \in Nat /\ granted' \in Nat
          /\ lapsed' \in BOOLEAN /\ forgotten' \in BOOLEAN
      BY <1>0, <1>1, <2>2
    <2> QED
      BY <1>4, <2>1, <2>3, <2>4, <2>5, <2>6, <2>7, <2>8, MemberStep
  <1> QED
    BY <1>6, <1>7

(* A follower votes, votes again, or fails to store its vote. *)
LEMMA HandlePrepareInv ==
  ASSUME Handoff, NEW n \in Members, NEW f \in msgs, HandlePrepare(n, f)
  PROVE  Handoff'
  <1>0. /\ eng[n] \in Engines /\ ctl[n] \in Controllers /\ journal[n] \in Records
        /\ eng \in [Members -> Engines] /\ ctl \in [Members -> Controllers]
        /\ journal \in [Members -> Records] /\ up \in [Members -> BOOLEAN]
        /\ StrictOwner \in Members /\ clock \in Nat /\ Limit \in Nat
        /\ Reservation[n] \in Nat /\ Reservation[n] <= Limit
        /\ restarts \in Nat /\ granted \in Nat /\ lapsed \in BOOLEAN /\ forgotten \in BOOLEAN
        /\ TermFits(n, eng[n], ctl[n], clock) /\ EngineFits(n, eng[n], ctl[n])
        /\ JournalFits(n, eng[n], ctl[n], journal[n]) /\ n \notin refused
        /\ Leader \in Members
    BY Facts DEF HandlePrepare, Receives
  <1>1. /\ f.term \in Nat /\ f.term <= clock /\ f.term # 0 /\ n # Leader
    <2>1. FrameOK(f) /\ f \in Frames /\ f.type = "Prepare" /\ f.to = n
      BY Facts DEF Handoff, HandlePrepare, Receives
    <2> QED
      BY <2>1 DEF FrameOK, Frames
  <1>2. /\ up[n] /\ ctl[n].fenced = FALSE /\ ctl[n].state \in {"Idle", "FollowerPrepared"}
        /\ UNCHANGED <<up, refused, clock, restarts, granted, lapsed, forgotten>>
    BY <1>0 DEF HandlePrepare, Receives, Acceptable, Controllers
  <1>3. CASE /\ ctl[n].state = "FollowerPrepared" /\ f.term = ctl[n].term
             /\ msgs' = msgs \cup {PreparedFrame(n, f.term, ctl[n].prepared[n])}
             /\ UNCHANGED <<eng, ctl, journal>>
    BY <1>0, <1>2, <1>3, PreparedFrameIs, StillInv
  <1> DEFINE idle == Aborted(eng[n])
             old == IF ctl[n].state = "Idle" THEN {journal[n]} ELSE {journal[n], IdleRecord}
             rec == Record("Prepared", f.term, idle.counter, idle.used)
             votes == [NoVotes EXCEPT ![n] = Vote(idle)]
  <1>4. ASSUME CanBegin(idle), NEW ok \in PersistOutcomes, PersistOver(n, old, rec, ok),
               IF ok
               THEN /\ eng' = [eng EXCEPT ![n] = Begun(idle)]
                    /\ ctl' = [ctl EXCEPT
                          ![n].state = "FollowerPrepared", ![n].term = f.term,
                          ![n].prepared = votes]
                    /\ msgs' = msgs \cup {PreparedFrame(n, f.term, Vote(idle))}
               ELSE /\ eng' = [eng EXCEPT ![n] = idle]
                    /\ ctl' = [ctl EXCEPT ![n] =
                          IF @.state = "Idle" THEN [@ EXCEPT !.term = 0] ELSE IdleAgain(@)]
                    /\ UNCHANGED msgs
        PROVE  Handoff'
    <2>1. /\ idle \in Engines /\ idle.active = FALSE /\ idle.mode = "ReservedPeak"
          /\ eng[n].mode = "ReservedPeak"
          /\ idle.used = eng[n].used /\ idle.strict = eng[n].strict
          /\ idle.used \in Nat /\ idle.counter \in Nat /\ idle.used <= Limit
      <3>1. /\ idle \in Engines /\ idle.active = FALSE /\ idle.mode = eng[n].mode
            /\ idle.used = eng[n].used /\ idle.strict = eng[n].strict
        BY <1>0, AbortedIs
      <3> HIDE DEF idle
      <3>2. idle.used \in Nat /\ idle.counter \in Nat
        BY <3>1 DEF Engines
      <3> QED
        BY <1>0, <1>4, <3>1, <3>2 DEF CanBegin, EngineFits
    <2>2. /\ votes \in [Members -> Votes] /\ votes[n].total = idle.used
          /\ \A m \in Members : votes[m] # NoVote => votes[m].total \in Nat
      BY <2>1, OwnVote
    <2>3. /\ rec \in Records /\ rec.phase = "Prepared" /\ rec.owner = StrictOwner
          /\ rec.total = idle.used
      <3> HIDE DEF idle
      <3> QED
        BY <1>0, <1>1, <2>1 DEF Record, Records, Phases
    <2>4. journal[n].phase # "Committed" /\ ctl[n].last = 0
      BY <1>0, <1>2, <2>1 DEF JournalFits, EngineFits
    <2>5. \A j \in old \cup {rec} :
             /\ j \in Records /\ j.phase # "Committed" /\ j.total <= Limit
             /\ (j = EmptyRecord \/ j.owner = StrictOwner)
             /\ j.phase = "Idle" => j.total = 0
      BY <1>0, <2>1, <2>3, <2>4, IdleRecordIs DEF JournalFits
    <2> HIDE DEF rec, votes, old, idle
    <2>6. \/ ok = TRUE /\ journal' = [journal EXCEPT ![n] = rec]
          \/ ok = FALSE /\ \E j \in old \cup {rec} : journal' = [journal EXCEPT ![n] = j]
      <3>1. ok = TRUE \/ ok = FALSE
        BY Zenon DEF PersistOutcomes
      <3>2. CASE ok = TRUE
        BY <1>4, <3>2, Zenon DEF PersistOver
      <3>3. CASE ok = FALSE
        BY <1>4, <3>3, Zenon DEF PersistOver
      <3> QED
        BY <3>1, <3>2, <3>3, Zenon
    <2>7. CASE ok = TRUE /\ journal' = [journal EXCEPT ![n] = rec]
      <3> DEFINE e == Begun(idle)
                 c == [ctl[n] EXCEPT !.state = "FollowerPrepared", !.term = f.term,
                                     !.prepared = votes]
      <3>1. /\ eng' = [eng EXCEPT ![n] = e] /\ ctl' = [ctl EXCEPT ![n] = c]
            /\ msgs' = msgs \cup {PreparedFrame(n, f.term, Vote(idle))}
        BY <1>0, <1>4, <2>7
      <3>2. /\ e \in Engines /\ e.active = TRUE /\ e.open = FALSE /\ e.mode = "ReservedPeak"
            /\ e.used = eng[n].used /\ e.strict = eng[n].strict
        BY <2>1, BegunIs
      <3>3. /\ c \in Controllers /\ c.state = "FollowerPrepared" /\ c.term = f.term
            /\ c.prepared = votes /\ c.last = 0 /\ c.fenced = FALSE
        BY <1>0, <1>1, <1>2, <2>2, <2>4 DEF Controllers, States
      <3>4. PICK g \in Frames : /\ g = PreparedFrame(n, f.term, Vote(idle))
                                /\ g.type = "Prepared" /\ g.from = n /\ g.term = f.term
        <4> DEFINE g == PreparedFrame(n, f.term, Vote(idle))
        <4>1. g \in Frames /\ g.type = "Prepared" /\ g.from = n /\ g.term = f.term
          BY <1>0, <1>1, <2>1 DEF PreparedFrame, Frame, Frames, FrameTypes, Vote
        <4> HIDE DEF g
        <4> QED
          BY <4>1 DEF g
      <3> HIDE DEF e, c
      <3>5. FrameOK(g)'
        BY <1>1, <1>2, <3>4 DEF FrameOK
      <3>6. TermFits(n, e, c, clock')
        BY <1>0, <1>1, <1>2, <2>1, <2>2, <3>2, <3>3 DEF TermFits, LeaderStates
      <3>7. EngineFits(n, e, c)
        BY <1>0, <3>2, <3>3 DEF EngineFits
      <3>8. JournalFits(n, e, c, rec)
        BY <2>1, <2>3, <3>2, <3>3 DEF JournalFits
      <3>9. c.state \notin LeaderStates /\ c.state # "LeaderCommitting"
        BY <3>3 DEF LeaderStates
      <3>10. \A h \in msgs' : h \in msgs \/ (h \in Frames /\ FrameOK(h)')
        BY <3>1, <3>4, <3>5
      <3>11. /\ c \in Controllers /\ e \in Engines /\ rec \in Records
             /\ n \notin refused /\ UNCHANGED <<refused, clock>>
             /\ up' \in [Members -> BOOLEAN] /\ \A m \in Members \ {n} : up'[m] = up[m]
             /\ restarts' \in Nat /\ granted' \in Nat
             /\ lapsed' \in BOOLEAN /\ forgotten' \in BOOLEAN
             /\ journal' = [journal EXCEPT ![n] = rec] /\ rec.phase # "Committed"
             /\ journal[n].phase # "Committed" /\ e.mode = eng[n].mode
        BY <1>0, <1>2, <2>1, <2>3, <2>4, <2>7, <3>2, <3>3
      <3> QED
        BY <3>1, <3>6, <3>7, <3>8, <3>9, <3>10, <3>11, MemberStep
    <2>8. ASSUME ok = FALSE, NEW j \in old \cup {rec}, journal' = [journal EXCEPT ![n] = j]
          PROVE  Handoff'
      <3>1. PICK c \in Controllers :
              /\ ctl' = [ctl EXCEPT ![n] = c] /\ c.state = "Idle" /\ c.term = 0
              /\ c.last = 0 /\ c.fenced = FALSE
              /\ \A m \in Members : c.prepared[m] # NoVote => c.prepared[m].total \in Nat
        <4>1. CASE ctl[n].state = "Idle"
          <5> DEFINE c == [ctl[n] EXCEPT !.term = 0]
          <5>1. ctl' = [ctl EXCEPT ![n] = c]
            BY <1>0, <1>4, <2>8, <4>1
          <5>2. /\ c \in Controllers /\ c.state = "Idle" /\ c.term = 0
                /\ c.last = 0 /\ c.fenced = FALSE /\ c.prepared = ctl[n].prepared
            BY <1>0, <1>2, <2>4, <4>1 DEF Controllers
          <5> HIDE DEF c
          <5> QED
            BY <1>0, <5>1, <5>2 DEF TermFits
        <4>2. CASE ctl[n].state # "Idle"
          <5> DEFINE c == IdleAgain(ctl[n])
          <5>1. ctl' = [ctl EXCEPT ![n] = c]
            BY <1>4, <2>8, <4>2
          <5>2. /\ c \in Controllers /\ c.state = "Idle" /\ c.term = 0 /\ c.last = 0
                /\ c.fenced = FALSE /\ \A m \in Members : c.prepared[m] = NoVote
            BY <1>0, <1>2, <2>4, IdleAgainIs
          <5> HIDE DEF c
          <5> QED
            BY <5>1, <5>2
        <4> QED
          BY <4>1, <4>2
      <3>2. eng' = [eng EXCEPT ![n] = idle] /\ msgs' = msgs
        BY <1>4, <2>8
      <3>3. TermFits(n, idle, c, clock')
        BY <3>1 DEF TermFits, LeaderStates, FollowerStates, ClosedStates
      <3>4. EngineFits(n, idle, c)
        BY <1>0, <2>1, <3>1 DEF EngineFits, FollowerStates, ClosedStates
      <3>5. JournalFits(n, idle, c, j) /\ j \in Records /\ j.phase # "Committed"
        BY <2>1, <2>5, <2>8, <3>1 DEF JournalFits, FollowerStates, ClosedStates
      <3>6. c.state \notin LeaderStates /\ c.state # "LeaderCommitting"
        BY <3>1 DEF LeaderStates
      <3> QED
        BY <1>0, <1>2, <2>1, <2>4, <2>8, <3>1, <3>2, <3>3, <3>4, <3>5, <3>6, MemberStep
    <2> QED
      BY <2>6, <2>7, <2>8
  <1> QED
    BY <1>3, <1>4 DEF HandlePrepare

(* The total of a full set of votes *)
LEMMA VotedTotalNat ==
  ASSUME NEW votes, \A m \in Members : votes[m].total \in Nat
  PROVE  VotedTotal(votes) \in Nat
  <1>1. \A i \in 0..(N - 1) : [m \in Members |-> votes[m].total][i] \in Nat
    BY DEF Members
  <1> QED
    BY <1>1, MembersAssumption, SumToNat DEF VotedTotal

(* A vote reaches the leader. *)
LEMMA HandlePreparedInv ==
  ASSUME Handoff, NEW n \in Members, NEW f \in msgs, HandlePrepared(n, f)
  PROVE  Handoff'
  <1>0. /\ eng[n] \in Engines /\ ctl[n] \in Controllers /\ journal[n] \in Records
        /\ eng \in [Members -> Engines] /\ ctl \in [Members -> Controllers]
        /\ journal \in [Members -> Records] /\ up \in [Members -> BOOLEAN]
        /\ StrictOwner \in Members /\ clock \in Nat /\ Limit \in Nat
        /\ restarts \in Nat /\ granted \in Nat /\ lapsed \in BOOLEAN /\ forgotten \in BOOLEAN
        /\ TermFits(n, eng[n], ctl[n], clock) /\ EngineFits(n, eng[n], ctl[n])
        /\ JournalFits(n, eng[n], ctl[n], journal[n]) /\ n \notin refused
        /\ Leader \in Members
    BY Facts DEF HandlePrepared, Receives
  <1>1. /\ n = Leader /\ up[n] /\ ctl[n].state = "LeaderPreparing"
        /\ UNCHANGED <<up, refused, clock, restarts, granted, lapsed, forgotten>>
    BY DEF HandlePrepared, Receives
  <1>2. /\ f.from \in Members /\ f.from # n /\ f.counter \in Nat /\ f.value \in Nat
    <2>1. FrameOK(f) /\ f \in Frames /\ f.type = "Prepared"
      BY Facts DEF Handoff, HandlePrepared, Receives
    <2> QED
      BY <1>1, <2>1 DEF FrameOK, Frames
  <1> DEFINE vote == [counter |-> f.counter, total |-> f.value]
             votes == [ctl[n].prepared EXCEPT ![f.from] = vote]
  <1>3. /\ votes \in [Members -> Votes] /\ votes[n] = ctl[n].prepared[n]
        /\ \A m \in Members : votes[m] # NoVote => votes[m].total \in Nat
    <2>1. vote \in Votes /\ vote.total \in Nat
      BY <1>2 DEF Votes
    <2>2. ctl[n].prepared \in [Members -> Votes]
      BY <1>0 DEF Controllers
    <2>3. \A m \in Members : ctl[n].prepared[m] # NoVote => ctl[n].prepared[m].total \in Nat
      BY <1>0 DEF TermFits
    <2> HIDE DEF vote
    <2> QED
      BY <1>2, <2>1, <2>2, <2>3
  <1>4. /\ journal[n].phase = "Prepared" /\ eng[n].mode = "ReservedPeak"
        /\ eng[n].active = TRUE /\ ctl[n].last = 0 /\ ctl[n].fenced = FALSE
        /\ ctl[n].prepared[n].total = eng[n].used /\ ctl[n].term \in 1..clock
        /\ ctl[n].term = clock
    BY <1>0, <1>1 DEF TermFits, EngineFits, JournalFits, LeaderStates, ClosedStates,
                      FollowerStates, Engines, Controllers
  <1>5. \/ /\ ctl' = [ctl EXCEPT ![n].prepared = votes]
           /\ UNCHANGED <<eng, journal, msgs>>
        \/ AbortPrepare(n, TRUE)
        \/ /\ AllPrepared(votes) /\ VotedTotal(votes) <= Limit
           /\ BeginCommit(n, votes) /\ UNCHANGED msgs
    BY DEF HandlePrepared
  <1> HIDE DEF votes, vote
  <1>6. CASE /\ ctl' = [ctl EXCEPT ![n].prepared = votes]
             /\ UNCHANGED <<eng, journal, msgs>>
    <2> DEFINE c == [ctl[n] EXCEPT !.prepared = votes]
    <2>1. /\ ctl' = [ctl EXCEPT ![n] = c] /\ eng' = [eng EXCEPT ![n] = eng[n]]
          /\ journal' = [journal EXCEPT ![n] = journal[n]]
      BY <1>0, <1>6
    <2>2. /\ c \in Controllers /\ c.state = "LeaderPreparing" /\ c.term = ctl[n].term
          /\ c.prepared = votes /\ c.last = 0 /\ c.fenced = FALSE
      BY <1>0, <1>1, <1>3, <1>4 DEF Controllers
    <2> HIDE DEF c
    <2>3. TermFits(n, eng[n], c, clock')
      BY <1>1, <1>3, <1>4, <2>2 DEF TermFits, FollowerStates
    <2>4. EngineFits(n, eng[n], c)
      BY <1>0, <1>1, <2>2 DEF EngineFits
    <2>5. JournalFits(n, eng[n], c, journal[n])
      BY <1>0, <1>1, <2>2 DEF JournalFits
    <2>6. /\ ctl[n].state \in LeaderStates /\ c.term = ctl[n].term
          /\ c.state # "LeaderCommitting"
      BY <1>1, <2>2 DEF LeaderStates
    <2>7. /\ c \in Controllers /\ n \notin refused /\ UNCHANGED <<refused, clock, msgs>>
          /\ up' \in [Members -> BOOLEAN] /\ \A m \in Members \ {n} : up'[m] = up[m]
          /\ restarts' \in Nat /\ granted' \in Nat
          /\ lapsed' \in BOOLEAN /\ forgotten' \in BOOLEAN
          /\ journal[n].phase # "Committed" /\ eng[n] \in Engines /\ journal[n] \in Records
      BY <1>0, <1>1, <1>4, <1>6, <2>2
    <2> QED
      BY <2>1, <2>3, <2>4, <2>5, <2>6, <2>7, MemberStep
  <1>7. CASE AbortPrepare(n, TRUE)
    BY <1>0, <1>1, <1>7, AbortPrepareInv
  <1>8. CASE /\ AllPrepared(votes) /\ VotedTotal(votes) <= Limit
             /\ BeginCommit(n, votes) /\ UNCHANGED msgs
    <2>1. PICK total \in Nat : total = VotedTotal(votes) /\ total <= Limit
      BY <1>3, <1>8, VotedTotalNat DEF AllPrepared
    <2> DEFINE k == votes[n].counter
               rec == Record("Committed", ctl[n].term, k, total)
    <2>2. PICK ok \in PersistOutcomes :
            /\ PersistOver(n, {journal[n]}, rec, ok)
            /\ IF ok
               THEN /\ eng' = [eng EXCEPT ![n] = Committed(@, n, total)]
                    /\ ctl' = [ctl EXCEPT
                          ![n].state = "LeaderCommitting", ![n].prepared = votes,
                          ![n].acks = {n}, ![n].total = total, ![n].counter = k]
               ELSE /\ ctl' = [ctl EXCEPT ![n].state = "LeaderCommitBlocked",
                                          ![n].prepared = votes]
                    /\ UNCHANGED eng
      BY <1>8, <2>1 DEF BeginCommit, Persist
    <2>3. k \in Nat
      BY <1>3 DEF Votes
    <2> HIDE DEF k
    <2>4. /\ rec \in Records /\ rec.phase = "Committed" /\ rec.owner = StrictOwner
          /\ rec.total = total /\ rec.term # 0
      BY <1>0, <1>4, <2>1, <2>3 DEF Record, Records, Phases
    <2>5. \/ ok = TRUE /\ journal' = [journal EXCEPT ![n] = rec]
          \/ ok = FALSE /\ \E j \in {journal[n], rec} : journal' = [journal EXCEPT ![n] = j]
      <3>1. ok = TRUE \/ ok = FALSE
        BY Zenon DEF PersistOutcomes
      <3>2. CASE ok = TRUE
        BY <2>2, <3>2, Zenon DEF PersistOver
      <3>3. CASE ok = FALSE
        BY <2>2, <3>3, Zenon DEF PersistOver
      <3> QED
        BY <3>1, <3>2, <3>3, Zenon
    <2>6. CASE ok = TRUE /\ journal' = [journal EXCEPT ![n] = rec]
      <3> DEFINE e == Committed(eng[n], n, total)
                 c == [ctl[n] EXCEPT !.state = "LeaderCommitting", !.prepared = votes,
                                     !.acks = {n}, !.total = total, !.counter = k]
      <3>1. eng' = [eng EXCEPT ![n] = e] /\ ctl' = [ctl EXCEPT ![n] = c]
        BY <1>0, <2>2, <2>6
      <3>2. /\ e \in Engines /\ e.active = FALSE /\ e.mode = StrictMode(n)
            /\ e.used = eng[n].used /\ e.strict = total
        BY <1>0, <2>1 DEF Committed, Engines, StrictMode
      <3>3. /\ c \in Controllers /\ c.state = "LeaderCommitting" /\ c.term = ctl[n].term
            /\ c.prepared = votes /\ c.last = 0 /\ c.fenced = FALSE /\ c.acks = {n}
            /\ c.total = total /\ c.counter = k
        BY <1>0, <1>3, <1>4, <2>1, <2>3 DEF Controllers, States
      <3>4. StrictMode(n) # "ReservedPeak"
        BY DEF StrictMode
      <3> HIDE DEF e, c
      <3>5. TermFits(n, e, c, clock')
        BY <1>1, <1>3, <1>4, <3>2, <3>3 DEF TermFits, FollowerStates, ClosedStates
      <3>6. EngineFits(n, e, c)
        BY <1>0, <2>1, <3>2, <3>3, <3>4 DEF EngineFits, ClosedStates, FollowerStates
      <3>7. JournalFits(n, e, c, rec)
        BY <2>1, <2>4, <3>2, <3>3, <3>4
           DEF JournalFits, ClosedStates, FollowerStates
      <3>8. /\ ctl[n].state \in LeaderStates /\ c.term = ctl[n].term
            /\ \A m \in c.acks : m = n
        BY <1>1, <3>3 DEF LeaderStates
      <3>9. /\ c \in Controllers /\ n \notin refused /\ UNCHANGED <<refused, clock, msgs>>
            /\ up' \in [Members -> BOOLEAN] /\ \A m \in Members \ {n} : up'[m] = up[m]
            /\ restarts' \in Nat /\ granted' \in Nat
            /\ lapsed' \in BOOLEAN /\ forgotten' \in BOOLEAN
            /\ journal[n].phase # "Committed" /\ e \in Engines /\ rec \in Records
            /\ n = Leader /\ journal' = [journal EXCEPT ![n] = rec]
            /\ e.mode # "ReservedPeak"
        BY <1>0, <1>1, <1>4, <1>8, <2>4, <2>6, <3>2, <3>3, <3>4
      <3> HIDE DEF rec
      <3> QED
        BY <3>1, <3>5, <3>6, <3>7, <3>8, <3>9, MemberStep
    <2>7. ASSUME ok = FALSE, NEW j \in {journal[n], rec}, journal' = [journal EXCEPT ![n] = j]
          PROVE  Handoff'
      <3> DEFINE c == [ctl[n] EXCEPT !.state = "LeaderCommitBlocked", !.prepared = votes]
      <3>1. eng' = [eng EXCEPT ![n] = eng[n]] /\ ctl' = [ctl EXCEPT ![n] = c]
        BY <1>0, <2>2, <2>7
      <3>2. /\ c \in Controllers /\ c.state = "LeaderCommitBlocked" /\ c.term = ctl[n].term
            /\ c.prepared = votes /\ c.last = 0 /\ c.fenced = FALSE
        BY <1>0, <1>3, <1>4 DEF Controllers, States
      <3> HIDE DEF c, rec
      <3>3. TermFits(n, eng[n], c, clock')
        BY <1>1, <1>3, <1>4, <3>2 DEF TermFits, FollowerStates
      <3>4. EngineFits(n, eng[n], c)
        BY <1>0, <1>1, <1>4, <3>2 DEF EngineFits, ClosedStates, FollowerStates
      <3>5. JournalFits(n, eng[n], c, j) /\ j \in Records
        BY <1>0, <1>4, <2>1, <2>4, <2>7, <3>2 DEF JournalFits
      <3>6. /\ ctl[n].state \in LeaderStates /\ c.term = ctl[n].term
            /\ c.state # "LeaderCommitting"
        BY <1>1, <3>2 DEF LeaderStates
      <3>7. /\ c \in Controllers /\ n \notin refused /\ UNCHANGED <<refused, clock, msgs>>
            /\ up' \in [Members -> BOOLEAN] /\ \A m \in Members \ {n} : up'[m] = up[m]
            /\ restarts' \in Nat /\ granted' \in Nat
            /\ lapsed' \in BOOLEAN /\ forgotten' \in BOOLEAN
            /\ journal[n].phase # "Committed" /\ eng[n] \in Engines
            /\ n = Leader /\ journal' = [journal EXCEPT ![n] = j]
        BY <1>0, <1>1, <1>4, <1>8, <2>7, <3>2
      <3> QED
        BY <3>1, <3>3, <3>4, <3>5, <3>6, <3>7, MemberStep
    <2> QED
      BY <2>5, <2>6, <2>7
  <1> QED
    BY <1>5, <1>6, <1>7, <1>8

(* The acknowledgement of a commit that is in the journal *)
LEMMA CommitAckIs ==
  ASSUME NEW n \in Members, NEW t \in Nat, Leader \in Members
  PROVE  LET g == CommitAckFrame(n, t)
         IN  g \in Frames /\ g.type = "CommitAck" /\ g.from = n /\ g.term = t
  BY DEF CommitAckFrame, Frame, Frames, FrameTypes

(* The commit reaches a follower, for the first time or again. *)
LEMMA HandleCommitInv ==
  ASSUME Handoff, NEW n \in Members, NEW f \in msgs, HandleCommit(n, f)
  PROVE  Handoff'
  <1>0. /\ eng[n] \in Engines /\ ctl[n] \in Controllers /\ journal[n] \in Records
        /\ eng \in [Members -> Engines] /\ ctl \in [Members -> Controllers]
        /\ journal \in [Members -> Records] /\ up \in [Members -> BOOLEAN]
        /\ StrictOwner \in Members /\ clock \in Nat /\ Limit \in Nat
        /\ restarts \in Nat /\ granted \in Nat /\ lapsed \in BOOLEAN /\ forgotten \in BOOLEAN
        /\ TermFits(n, eng[n], ctl[n], clock) /\ EngineFits(n, eng[n], ctl[n])
        /\ JournalFits(n, eng[n], ctl[n], journal[n]) /\ n \notin refused
        /\ Leader \in Members /\ up[n]
        /\ journal[n].phase = "Committed" => n = Leader \/ Adopted(journal[n])
    BY Facts DEF HandleCommit, Receives
  <1> DEFINE rec == Record("Committed", f.term, f.counter, f.value)
  <1>1. /\ f.term \in Nat /\ f.counter \in Nat /\ f.value \in Nat /\ f.term # 0
        /\ f.term <= clock /\ n # Leader /\ journal[Leader] = rec
        /\ eng[Leader].mode # "ReservedPeak"
    <2>1. FrameOK(f) /\ f \in Frames /\ f.type = "Commit" /\ f.to = n
      BY Facts DEF Handoff, HandleCommit, Receives
    <2> QED
      BY <2>1 DEF FrameOK, Frames
  <1>2. /\ rec \in Records /\ rec.phase = "Committed" /\ rec.term = f.term
        /\ rec.total = f.value /\ rec.owner = StrictOwner /\ f.value <= Limit
    <2>1. journal[Leader].total <= Limit
      BY <1>0, Facts DEF JournalFits
    <2> QED
      BY <1>0, <1>1, <2>1 DEF Record, Records, Phases
  <1> HIDE DEF rec
  <1>3. UNCHANGED <<up, refused, clock, restarts, granted,
                    lapsed, forgotten>> /\ ctl[n].fenced = FALSE
    BY <1>0 DEF HandleCommit, Receives, Controllers
  <1>4. PICK g \in Frames : /\ g = CommitAckFrame(n, f.term)
                            /\ g.type = "CommitAck" /\ g.from = n /\ g.term = f.term
    BY <1>0, <1>1, CommitAckIs
  <1>5. CASE /\ f.term = ctl[n].last /\ UNCHANGED <<eng, ctl, journal>>
             /\ msgs' = msgs \cup {CommitAckFrame(n, f.term)}
    <2>1. journal[n].phase = "Committed" /\ journal[n].term = f.term
      BY <1>0, <1>1, <1>5 DEF JournalFits
    <2>2. FrameOK(g)
      BY <1>1, <1>4, <2>1 DEF FrameOK
    <2> QED
      BY <1>0, <1>3, <1>4, <1>5, <2>2, StillInv
  <1>6. ASSUME ctl[n].state \in FollowerStates, f.term = ctl[n].term,
               NEW ok \in PersistOutcomes, PersistOver(n, {journal[n]}, rec, ok),
               IF Installs(n, f, ok)
               THEN /\ eng' = [eng EXCEPT ![n] = Committed(@, n, f.value)]
                    /\ ctl' = [ctl EXCEPT ![n].state = "Idle", ![n].term = 0,
                                          ![n].last = f.term]
                    /\ msgs' = msgs \cup {CommitAckFrame(n, f.term)}
               ELSE /\ ctl' = [ctl EXCEPT ![n].state = "FollowerCommitting"]
                    /\ UNCHANGED <<eng, msgs>>
        PROVE  Handoff'
    <2>1. /\ eng[n].mode = "ReservedPeak" /\ ctl[n].last = 0 /\ journal[n].phase # "Idle"
          /\ journal[n].phase = "Committed" => journal[n] = rec
      BY <1>0, <1>1, <1>6 DEF EngineFits, JournalFits, ClosedStates, Adopted
    <2>2. PICK j \in {journal[n], rec} :
             journal' = [journal EXCEPT ![n] = j] /\ (ok = TRUE => j = rec)
      <3>1. ok = TRUE \/ ok = FALSE
        BY Zenon DEF PersistOutcomes
      <3>2. CASE ok = TRUE
        BY <1>6, <3>2, Zenon DEF PersistOver
      <3>3. CASE ok = FALSE
        BY <1>6, <3>3, Zenon DEF PersistOver
      <3> QED
        BY <3>1, <3>2, <3>3, Zenon
    <2>3. /\ n \notin refused /\ UNCHANGED <<refused, clock>> /\ j \in Records
          /\ up' \in [Members -> BOOLEAN] /\ \A m \in Members \ {n} : up'[m] = up[m]
          /\ restarts' \in Nat /\ granted' \in Nat
          /\ lapsed' \in BOOLEAN /\ forgotten' \in BOOLEAN
          /\ journal[n].phase = "Committed" => j = journal[n]
          /\ j.phase = "Committed" => Adopted(j)
          /\ journal' = [journal EXCEPT ![n] = j] /\ eng[n].mode = "ReservedPeak"
      BY <1>0, <1>1, <1>2, <1>3, <2>1, <2>2 DEF Adopted
    <2>4. CASE Installs(n, f, ok)
      <3>1. j = rec
        BY <2>2, <2>4, Zenon DEF Installs
      <3> DEFINE e == Committed(eng[n], n, f.value)
                 c == [ctl[n] EXCEPT !.state = "Idle", !.term = 0, !.last = f.term]
      <3>2. /\ eng' = [eng EXCEPT ![n] = e] /\ ctl' = [ctl EXCEPT ![n] = c]
            /\ msgs' = msgs \cup {g}
        BY <1>0, <1>4, <1>6, <2>4
      <3>3. /\ e \in Engines /\ e.active = FALSE /\ e.mode = StrictMode(n)
            /\ e.used = eng[n].used /\ e.strict = f.value
        BY <1>0, <1>1 DEF Committed, Engines, StrictMode
      <3>4. /\ c \in Controllers /\ c.state = "Idle" /\ c.term = 0 /\ c.last = f.term
            /\ c.prepared = ctl[n].prepared /\ c.fenced = FALSE
        BY <1>0, <1>1, <1>3 DEF Controllers, States
      <3>5. StrictMode(n) # "ReservedPeak"
        BY DEF StrictMode
      <3> HIDE DEF e, c
      <3>6. TermFits(n, e, c, clock')
        BY <1>0, <3>4 DEF TermFits, LeaderStates, FollowerStates, ClosedStates
      <3>7. EngineFits(n, e, c)
        BY <1>0, <1>2, <3>3, <3>4, <3>5 DEF EngineFits, ClosedStates, FollowerStates
      <3>8. JournalFits(n, e, c, j)
        BY <1>1, <1>2, <3>1, <3>3, <3>4, <3>5 DEF JournalFits, ClosedStates, FollowerStates
      <3>9. \A h \in msgs' : h \in msgs \/ (h \in Frames /\ FrameOK(h)')
        <4>1. journal'[n] = rec
          BY <1>0, <2>2, <3>1
        <4>2. FrameOK(g)'
          BY <1>1, <1>2, <1>3, <1>4, <4>1 DEF FrameOK
        <4> QED
          BY <1>4, <3>2, <4>2
      <3>10. /\ c.state \notin LeaderStates /\ c.state # "LeaderCommitting"
             /\ e \in Engines /\ c \in Controllers
        BY <3>3, <3>4 DEF LeaderStates
      <3> QED
        BY <2>3, <3>2, <3>6, <3>7, <3>8, <3>9, <3>10, MemberStep
    <2>5. CASE ~Installs(n, f, ok)
      <3> DEFINE c == [ctl[n] EXCEPT !.state = "FollowerCommitting"]
      <3>1. /\ eng' = [eng EXCEPT ![n] = eng[n]] /\ ctl' = [ctl EXCEPT ![n] = c]
            /\ msgs' = msgs
        BY <1>0, <1>6, <2>5
      <3>2. /\ c \in Controllers /\ c.state = "FollowerCommitting" /\ c.term = ctl[n].term
            /\ c.prepared = ctl[n].prepared /\ c.fenced = FALSE /\ c.last = 0
        BY <1>0, <1>3, <2>1 DEF Controllers, States
      <3> HIDE DEF c
      <3>3. TermFits(n, eng[n], c, clock')
        BY <1>0, <1>1, <1>3, <1>6, <3>2
           DEF TermFits, LeaderStates, FollowerStates, ClosedStates
      <3>4. EngineFits(n, eng[n], c)
        BY <1>0, <1>6, <2>1, <3>2 DEF EngineFits, ClosedStates, FollowerStates
      <3>5. JournalFits(n, eng[n], c, j)
        BY <1>0, <1>1, <1>2, <1>6, <2>1, <2>2, <3>2 DEF JournalFits, ClosedStates
      <3>6. c.state \notin LeaderStates /\ c.state # "LeaderCommitting" /\ c \in Controllers
        BY <3>2 DEF LeaderStates
      <3>7. eng[n] \in Engines
        BY <1>0
      <3> QED
        BY <2>3, <3>1, <3>3, <3>4, <3>5, <3>6, <3>7, MemberStep
    <2> QED
      BY <2>4, <2>5
  <1> QED
    <2>1. CASE f.term = ctl[n].last
      BY <1>5, <2>1 DEF HandleCommit
    <2>2. CASE f.term # ctl[n].last
      BY <1>6, <2>2 DEF HandleCommit, Persist, rec, FollowerStates
    <2> QED
      BY <2>1, <2>2

LEMMA HandoffInit == Init => Handoff
  <1> SUFFICES ASSUME Init PROVE Handoff
    OBVIOUS
  <1>1. /\ FreshEngine \in Engines /\ FreshEngine.used = 0 /\ FreshEngine.active = FALSE
        /\ FreshEngine.mode = "ReservedPeak" /\ FreshEngine.strict = 0
    BY DEF FreshEngine, Engines
  <1>2. /\ FreshController \in Controllers /\ FreshController.state = "Idle"
        /\ FreshController.term = 0 /\ FreshController.last = 0
        /\ FreshController.fenced = FALSE
        /\ \A m \in Members : FreshController.prepared[m] = NoVote
    <2>1. NoVotes \in [Members -> Votes] /\ \A m \in Members : NoVotes[m] = NoVote
      BY DEF NoVotes, NoVote, Votes
    <2> QED
      BY <2>1 DEF FreshController, Controllers, States
  <1>3. EmptyRecord \in Records /\ EmptyRecord.phase = "Idle" /\ EmptyRecord.total = 0
    <2>1. 0 \in Members
      BY MembersAssumption DEF Members
    <2> QED
      BY <2>1 DEF EmptyRecord, Records, Phases
  <1>4. \A n \in Members : /\ eng[n] = FreshEngine /\ ctl[n] = FreshController
                           /\ journal[n] = EmptyRecord /\ up[n] = TRUE
    BY DEF Init
  <1>5. \A n \in Members : 0 <= Reservation[n] /\ 0 <= Limit
    BY HandoffAmountsAssumption
  <1>6. TypeOK
    BY <1>1, <1>2, <1>3, <1>4, <1>5 DEF Init, TypeOK
  <1>7. ASSUME NEW n \in Members PROVE TermOK(n) /\ EngineOK(n) /\ JournalOK(n)
    <2>1. TermFits(n, FreshEngine, FreshController, clock)
      BY <1>2 DEF TermFits, LeaderStates, FollowerStates, ClosedStates
    <2>2. EngineFits(n, FreshEngine, FreshController)
      BY <1>1, <1>2, <1>5 DEF EngineFits, FollowerStates, ClosedStates
    <2>3. JournalFits(n, FreshEngine, FreshController, EmptyRecord)
      BY <1>1, <1>2, <1>3, <1>5 DEF JournalFits, FollowerStates, ClosedStates
    <2>4. n \notin refused
      BY DEF Init
    <2> QED
      BY <1>4, <2>1, <2>2, <2>3, <2>4 DEF TermOK, EngineOK, JournalOK
  <1>8. LeaderOK
    BY <1>2, <1>3, <1>4, MembersAssumption DEF LeaderOK
  <1>9. msgs = {}
    BY DEF Init
  <1> QED
    BY <1>6, <1>7, <1>8, <1>9 DEF Handoff

LEMMA HandoffNext == Handoff /\ [Next]_vars => Handoff'
  <1> SUFFICES ASSUME Handoff, [Next]_vars PROVE Handoff'
    OBVIOUS
  <1>1. CASE UNCHANGED vars
    BY <1>1 DEF vars, Handoff, TypeOK, TermOK, EngineOK, JournalOK, FrameOK, LeaderOK, Adopted
  <1>2. ASSUME NEW n \in Members,
               \/ \E d \in Deltas, k \in Counters : Accept(n, d, k)
               \/ Tick(n) \/ Crash(n) \/ Stop(n) \/ Start(n)
        PROVE  Handoff'
    BY <1>2, AcceptInv, TriggerInv, TimeoutInv, SendInv, EndInv, StartInv DEF Tick
  <1>3. ASSUME NEW n \in Members, NEW f \in msgs, Handle(n, f) PROVE Handoff'
    BY <1>3, TriggerInv, HandlePrepareInv, HandlePreparedInv, HandleCommitInv,
       HandleCommitAckInv, TimeoutInv DEF Handle
  <1> QED
    BY <1>1, <1>2, <1>3 DEF Next

LEMMA HandoffHolds == Spec => []Handoff
  BY HandoffInit, HandoffNext, PTL DEF Spec

-----------------------------------------------------------------------------
(* Agreement and durability: what holds whatever crashes, is lost or late. *)

(* Every engine, controller, record and frame keeps its type, a member's    *)
(* peak usage stays within its reservation and its strict word within the   *)
(* limit, for every plan and every number of members and terms.             *)
THEOREM HandoffTypeCorrect == Spec => []TypeOK
  <1>1. Handoff => TypeOK
    BY DEF Handoff
  <1> QED
    BY <1>1, HandoffHolds, PTL

(* At most one outcome is ever committed: all commit frames and all        *)
(* committed records agree on its term and its total.                      *)
THEOREM CommitsAgree == Spec => []CommitAgreement
  <1>1. Handoff => CommitAgreement
    <2> SUFFICES ASSUME Handoff PROVE CommitAgreement
      OBVIOUS
    <2>1. ASSUME NEW f \in CommitFrames
          PROVE  journal[Leader].term = f.term /\ journal[Leader].total = f.value
      <3>1. f \in msgs /\ f.type = "Commit"
        BY <2>1 DEF CommitFrames
      <3>2. journal[Leader] = Record("Committed", f.term, f.counter, f.value)
        BY <3>1 DEF Handoff, FrameOK
      <3> QED
        BY <3>2 DEF Record
    <2>2. \A n \in Members : journal[n].phase = "Committed" => journal[n] = journal[Leader]
      BY DEF Handoff, LeaderOK, Adopted
    <2> QED
      BY <2>1, <2>2 DEF CommitAgreement
  <1> QED
    BY <1>1, HandoffHolds, PTL

(* Whoever sent a commit or an acknowledgement has that commit in its      *)
(* journal, from then on.                                                  *)
THEOREM AcknowledgedIsDurable == Spec => []AckImpliesDurable
  <1>1. Handoff => AckImpliesDurable
    BY DEF Handoff, FrameOK, AckImpliesDurable
  <1> QED
    BY <1>1, HandoffHolds, PTL

(* A member restarted from a prepared record stays closed, and start()      *)
(* refuses the first record only.                                           *)
THEOREM RestartFollowsRecord == Spec => []RestartsAsRecorded
  <1>1. Handoff => RestartsAsRecorded
    <2> SUFFICES ASSUME Handoff PROVE RestartsAsRecorded
      OBVIOUS
    <2>1. refused \subseteq Members
      BY DEF Handoff, TypeOK
    <2> QED
      BY <2>1 DEF Handoff, JournalOK, EngineOK, EngineFits, JournalFits,
                  RestartsAsRecorded, FenceHolds
  <1> QED
    BY <1>1, HandoffHolds, PTL

(* Who writes a journal, and what it held before *)
LEMMA CommittedKept ==
  ASSUME Handoff, NEW n \in Members, NEW f,
         \/ BeginLeaderPrepare(n) \/ HandlePrepare(n, f) \/ HandlePrepared(n, f)
         \/ \E b \in BOOLEAN : AbortPrepare(n, b)
                  /\ ctl[n].state \in {"LeaderPreparing", "FollowerPrepared"}
  PROVE  \A m \in Members : journal[m].phase = "Committed" => journal'[m] = journal[m]
  <1>0. /\ journal \in [Members -> Records] /\ eng[n] \in Engines
        /\ EngineFits(n, eng[n], ctl[n]) /\ JournalFits(n, eng[n], ctl[n], journal[n])
    BY Facts
  <1>1. journal' = journal \/ \E j : journal' = [journal EXCEPT ![n] = j]
    BY DEF BeginLeaderPrepare, HandlePrepare, HandlePrepared, BeginCommit, AbortPrepare,
           Persist, PersistOver
  <1>2. journal[n].phase # "Committed"
    <2>1. CASE ctl[n].state \in {"LeaderPreparing", "FollowerPrepared"}
      BY <1>0, <2>1 DEF JournalFits
    <2>2. CASE ctl[n].state = "Idle" /\ eng[n].mode = "ReservedPeak"
      BY <1>0, <2>2 DEF JournalFits
    <2>3. CASE HandlePrepare(n, f)
      <3>1. Aborted(eng[n]).mode = eng[n].mode
        BY <1>0, AbortedIs
      <3> QED
        BY <2>1, <2>2, <2>3, <3>1 DEF HandlePrepare, Acceptable, CanBegin
    <2> QED
      BY <2>1, <2>2, <2>3 DEF BeginLeaderPrepare, HandlePrepared, CanBegin
  <1> QED
    BY <1>0, <1>1, <1>2

LEMMA CommittedRecordKept ==
  ASSUME Handoff, Next
  PROVE  \A n \in Members : journal[n].phase = "Committed" => journal'[n] = journal[n]
  <1> DEFINE Kept == \A n \in Members :
                        journal[n].phase = "Committed" => journal'[n] = journal[n]
  <1>1. Kept
    <2>1. ASSUME NEW n \in Members, Tick(n) \/ Crash(n) \/ Stop(n) \/ Start(n)
                    \/ \E d \in Deltas, k \in Counters : Accept(n, d, k)
          PROVE  Kept
      <3>1. CASE journal' = journal
        BY <3>1
      <3>2. CASE BeginLeaderPrepare(n)
        BY <3>2, CommittedKept
      <3>3. CASE \E b \in BOOLEAN : AbortPrepare(n, b)
                    /\ ctl[n].state \in {"LeaderPreparing", "FollowerPrepared"}
        BY <3>3, CommittedKept
      <3> HIDE DEF Kept
      <3> QED
        BY <2>1, <3>1, <3>2, <3>3
           DEF Tick, TickTrigger, LeaderTimeout, FollowerTimeout, SendPrepare, SendPrepared,
               SendCommit, Crash, Stop, Start, Accept
    <2>2. ASSUME NEW n \in Members, NEW f \in msgs, Handle(n, f)
          PROVE  Kept
      <3>1. CASE journal' = journal
        BY <3>1
      <3>2. CASE BeginLeaderPrepare(n) \/ HandlePrepare(n, f) \/ HandlePrepared(n, f)
        BY <3>2, CommittedKept
      <3>3. CASE \E b \in BOOLEAN : AbortPrepare(n, b)
                    /\ ctl[n].state \in {"LeaderPreparing", "FollowerPrepared"}
        BY <3>3, CommittedKept
      <3>4. CASE HandleCommit(n, f)
        <4> DEFINE rec == Record("Committed", f.term, f.counter, f.value)
        <4>1. /\ journal \in [Members -> Records] /\ journal[Leader] = rec
              /\ journal[n].phase = "Committed" => journal[n] = journal[Leader]
          <5>1. FrameOK(f) /\ f.type = "Commit"
            BY <2>2, <3>4 DEF HandleCommit, Receives, Handoff
          <5> QED
            BY <5>1, Facts DEF FrameOK, Adopted
        <4> HIDE DEF rec
        <4>2. journal' = journal \/ \E j \in {journal[n], rec} : journal' = [journal EXCEPT ![n] = j]
          <5>1. CASE journal' = journal
            BY <5>1
          <5>2. ASSUME NEW ok \in PersistOutcomes, PersistOver(n, {journal[n]}, rec, ok)
                PROVE  \E j \in {journal[n], rec} : journal' = [journal EXCEPT ![n] = j]
            <6>1. ok = TRUE \/ ok = FALSE
              BY Zenon DEF PersistOutcomes
            <6>2. CASE ok = TRUE
              BY <5>2, <6>2, Zenon DEF PersistOver
            <6>3. CASE ok = FALSE
              BY <5>2, <6>3, Zenon DEF PersistOver
            <6> QED
              BY <6>1, <6>2, <6>3, Zenon
          <5> QED
            BY <3>4, <5>1, <5>2 DEF HandleCommit, Persist, rec
        <4> QED
          BY <4>1, <4>2
      <3> HIDE DEF Kept
      <3> QED
        BY <2>2, <3>1, <3>2, <3>3, <3>4
           DEF Handle, HandleTrigger, HandleCommitAck, HandleAbort
    <2> QED
      BY <2>1, <2>2 DEF Next
  <1> QED
    BY <1>1

(* A commit is never rolled back: no prepare, abort, stop, restart or       *)
(* repeated commit changes a committed record.                              *)
THEOREM CommitIsNeverRolledBack == Spec => CommittedRecordStable
  <1>1. Handoff /\ [Next]_vars =>
          [\A n \in Members : journal[n].phase = "Committed" => journal'[n] = journal[n]]_vars
    BY CommittedRecordKept
  <1> QED
    BY <1>1, HandoffHolds, PTL DEF Spec, CommittedRecordStable

-----------------------------------------------------------------------------
(* Unsplit is inductive, given Handoff.                                    *)

(* Everything member n may do *)
StepOf(n) ==
    \/ \E d \in Deltas, k \in Counters : Accept(n, d, k)
    \/ Tick(n)
    \/ \E f \in msgs : Handle(n, f)
    \/ Crash(n) \/ Stop(n) \/ Start(n)

LEMMA StepSame ==
  ASSUME Handoff, NEW n \in Members, StepOf(n)
  PROVE  SameElsewhere(n)
  <1> USE DEF SameElsewhere
  <1>0. /\ eng \in [Members -> Engines] /\ ctl \in [Members -> Controllers]
        /\ journal \in [Members -> Records] /\ up \in [Members -> BOOLEAN]
    BY Facts
  <1>1. ASSUME NEW b, AbortPrepare(n, b), \A m \in Members \ {n} : up'[m] = up[m]
        PROVE  SameElsewhere(n)
    BY <1>0, <1>1 DEF AbortPrepare, Persist, PersistOver
  <1>2. ASSUME BeginLeaderPrepare(n), UNCHANGED up
        PROVE  SameElsewhere(n)
    BY <1>0, <1>2 DEF BeginLeaderPrepare, Persist, PersistOver
  <1>3. CASE \E d \in Deltas, k \in Counters : Accept(n, d, k)
    BY <1>0, <1>3 DEF Accept
  <1>4. CASE Tick(n)
    BY <1>1, <1>2, <1>4 DEF Tick, TickTrigger, LeaderTimeout, FollowerTimeout, SendPrepare,
                            SendPrepared, SendCommit
  <1>5. ASSUME NEW f \in msgs, Handle(n, f)
        PROVE  SameElsewhere(n)
    <2>1. CASE HandlePrepare(n, f)
      BY <1>0, <2>1 DEF HandlePrepare, PersistOver
    <2>2. CASE HandlePrepared(n, f)
      <3> DEFINE votes == [ctl[n].prepared EXCEPT ![f.from] =
                              [counter |-> f.counter, total |-> f.value]]
      <3>1. /\ UNCHANGED up
            /\ \/ ctl' = [ctl EXCEPT ![n].prepared = votes] /\ UNCHANGED <<eng, journal>>
               \/ AbortPrepare(n, TRUE)
               \/ BeginCommit(n, votes)
        BY <2>2 DEF HandlePrepared
      <3> HIDE DEF votes
      <3>2. CASE BeginCommit(n, votes)
        BY <1>0, <3>1, <3>2 DEF BeginCommit, Persist, PersistOver
      <3>3. CASE ctl' = [ctl EXCEPT ![n].prepared = votes] /\ UNCHANGED <<eng, journal>>
        BY <1>0, <3>1, <3>3
      <3> QED
        BY <1>1, <3>1, <3>2, <3>3
    <2>3. CASE HandleCommit(n, f)
      BY <1>0, <2>3 DEF HandleCommit, Persist, PersistOver
    <2>4. CASE HandleCommitAck(n, f)
      BY <1>0, <2>4 DEF HandleCommitAck
    <2> QED
      BY <1>1, <1>2, <1>5, <2>1, <2>2, <2>3, <2>4 DEF Handle, HandleTrigger, HandleAbort
  <1>6. CASE Crash(n)
    BY <1>0, <1>6 DEF Crash, Ends
  <1>7. CASE Stop(n)
    BY <1>0, <1>1, <1>7 DEF Stop, Ends
  <1>8. CASE Start(n)
    BY <1>0, <1>8 DEF Start
  <1> QED
    BY <1>3, <1>4, <1>5, <1>6, <1>7, <1>8 DEF StepOf

(* A committed record stays, and so does a strict mode. *)
LEMMA StepKeeps ==
  ASSUME Handoff, NEW n \in Members, StepOf(n)
  PROVE  \A m \in Members : journal[m].phase = "Committed" => journal'[m] = journal[m]
  BY CommittedRecordKept DEF StepOf, Next

(* What a step of a follower has to show *)
LEMMA FollowerFrame ==
  ASSUME Handoff, Handoff', NEW n \in Members, n # Leader, StepOf(n), Binding,
         Held /\ Bound(n) => Bound(n)',
         \A f \in msgs' \ msgs : f.type = "Prepared" =>
             f.from = n /\ ctl'[n].state = "FollowerPrepared" /\ ctl'[n].term = f.term,
         eng'[n].mode # "ReservedPeak" => Decided
  PROVE  Binding'
  <1>0. /\ SameElsewhere(n) /\ Leader \in Members /\ Leader # n
        /\ ctl'[Leader] = ctl[Leader] /\ up'[Leader] = up[Leader]
        /\ msgs \subseteq Frames /\ ctl[Leader] \in Controllers
    BY StepSame, Facts DEF SameElsewhere
  <1>1. \A m \in Members : Held /\ Bound(m) => Bound(m)'
    BY <1>0 DEF SameElsewhere, Bound
  <1>2. VotesBind'
    <2>1. SUFFICES ASSUME Held
                   PROVE  /\ \A f \in msgs' : f.type = "Prepared" /\ f.term = ctl[Leader].term
                                => Bound(f.from)'
                          /\ \A m \in Members \ {Leader} :
                                ctl[Leader].prepared[m] # NoVote => Bound(m)'
      BY <1>0 DEF VotesBind, Held
    <2>2. ASSUME NEW f \in msgs', f.type = "Prepared", f.term = ctl[Leader].term
          PROVE  Bound(f.from)'
      <3>1. CASE f \in msgs
        BY <1>0, <1>1, <2>1, <2>2, <3>1 DEF Binding, VotesBind, Frames
      <3>2. CASE f \notin msgs
        <4>1. f.from = n /\ ctl'[n].state = "FollowerPrepared" /\ ctl'[n].term = f.term
          BY <2>2, <3>2
        <4>2. journal'[n].phase = "Prepared"
          BY <4>1 DEF Handoff, JournalOK, JournalFits
        <4> QED
          BY <1>0, <2>2, <4>1, <4>2 DEF Bound, FollowerStates
      <3> QED
        BY <3>1, <3>2
    <2> QED
      BY <1>1, <2>1, <2>2 DEF Binding, VotesBind
  <1>3. DecisionBinds'
    <2>1. SUFFICES ASSUME Decided'
                   PROVE  \/ /\ up[Leader] /\ ctl[Leader].state = "LeaderCommitting"
                             /\ \A m \in Members \ {Leader} : Bound(m)'
                          \/ \A m \in Members : journal'[m].phase = "Committed"
      BY <1>0 DEF DecisionBinds
    <2>2. Decided
      BY <1>0, <2>1 DEF Decided, SameElsewhere
    <2>3. CASE /\ up[Leader] /\ ctl[Leader].state = "LeaderCommitting"
               /\ \A m \in Members \ {Leader} : Bound(m)
      BY <1>1, <2>3 DEF Held
    <2>4. CASE \A m \in Members : journal[m].phase = "Committed"
      BY <2>4, StepKeeps
    <2> QED
      BY <2>2, <2>3, <2>4 DEF Binding, DecisionBinds
  <1>4. LeaderStays'
    BY <1>0 DEF Binding, LeaderStays
  <1> QED
    BY <1>2, <1>3, <1>4 DEF Binding

(* What giving up a prepare does *)
LEMMA AbortEffect ==
  ASSUME Handoff, NEW n \in Members, NEW b, AbortPrepare(n, b)
  PROVE  /\ eng'[n].mode = eng[n].mode /\ eng'[n].used = eng[n].used
         /\ eng'[n].strict = eng[n].strict
         /\ ctl'[n].state = "Idle" /\ \A m \in Members : ctl'[n].prepared[m] = NoVote
         /\ \A f \in msgs' \ msgs : f.type = "Abort"
         /\ b = FALSE => msgs' = msgs
  <1>0. /\ eng \in [Members -> Engines] /\ ctl \in [Members -> Controllers]
        /\ eng[n] \in Engines /\ ctl[n] \in Controllers
    BY Facts
  <1>1. eng'[n] = Aborted(eng[n]) /\ ctl'[n] = IdleAgain(ctl[n])
    BY <1>0 DEF AbortPrepare
  <1>2. /\ Aborted(eng[n]).mode = eng[n].mode /\ Aborted(eng[n]).used = eng[n].used
        /\ Aborted(eng[n]).strict = eng[n].strict
    BY <1>0, AbortedIs
  <1>3. /\ IdleAgain(ctl[n]).state = "Idle"
        /\ \A m \in Members : IdleAgain(ctl[n]).prepared[m] = NoVote
    BY <1>0, IdleAgainIs
  <1>4. \A f \in msgs' \ msgs : f.type = "Abort"
    BY DEF AbortPrepare, Frame
  <1>5. b = FALSE => msgs' = msgs
    BY Zenon DEF AbortPrepare
  <1> QED
    BY <1>1, <1>2, <1>3, <1>4, <1>5

(* A prepared follower that the leader counts on is working on its term. *)
LEMMA HeldVote ==
  ASSUME Handoff, NEW n \in Members, n # Leader, Held, Bound(n), up[n],
         ctl[n].state \in FollowerStates
  PROVE  LeaderHolds(n) /\ ctl[n].term = ctl[Leader].term
  <1>1. eng[n].mode = "ReservedPeak" /\ ~ctl[n].fenced
    BY Facts DEF EngineFits, ClosedStates, FollowerStates
  <1> QED
    BY <1>1 DEF Bound, Held, LeaderHolds

LEMMA FollowerStep ==
  ASSUME Handoff, Handoff', NEW n \in Members, n # Leader, StepOf(n), ~lapsed', Binding
  PROVE  Binding'
  <1>0. /\ eng \in [Members -> Engines] /\ ctl \in [Members -> Controllers]
        /\ journal \in [Members -> Records] /\ up \in [Members -> BOOLEAN]
        /\ eng[n] \in Engines /\ ctl[n] \in Controllers /\ journal[n] \in Records
        /\ TermFits(n, eng[n], ctl[n], clock) /\ EngineFits(n, eng[n], ctl[n])
        /\ JournalFits(n, eng[n], ctl[n], journal[n]) /\ clock \in Nat /\ Leader \in Members
        /\ SameElsewhere(n) /\ ctl'[Leader] = ctl[Leader] /\ msgs \subseteq Frames
    BY StepSame, Facts DEF SameElsewhere
  <1>1. ctl[n].state \notin LeaderStates
    BY <1>0 DEF TermFits
  <1>2. eng[n].mode # "ReservedPeak" \/ eng[Leader].mode # "ReservedPeak" => Decided
    BY <1>0 DEF Decided
  <1> DEFINE Kept == Held /\ Bound(n) => Bound(n)'
             Sent == \A f \in msgs' \ msgs : f.type = "Prepared" =>
                f.from = n /\ ctl'[n].state = "FollowerPrepared" /\ ctl'[n].term = f.term
             Modes == eng'[n].mode # "ReservedPeak" => Decided
  <1>3. SUFFICES Kept /\ Sent /\ Modes
    BY FollowerFrame
  <1>4. ASSUME eng'[n].mode = eng[n].mode, UNCHANGED <<ctl, journal>>, up'[n] = up[n] \/ ~up'[n]
        PROVE  Kept /\ Modes
    BY <1>0, <1>2, <1>4 DEF Bound
  <1>5. CASE \E d \in Deltas, k \in Counters : Accept(n, d, k)
    <2>1. eng'[n].mode = eng[n].mode
      BY <1>0, <1>5 DEF Accept, Engines
    <2> QED
      BY <1>4, <1>5, <2>1 DEF Accept
  <1>6. CASE TickTrigger(n)
    <2>1. /\ msgs' = msgs \cup {Frame("Trigger", n, Leader, 0, 0, 0)}
          /\ UNCHANGED <<eng, ctl, journal, up>>
      BY <1>6 DEF TickTrigger, BeginLeaderPrepare
    <2>2. Sent
      BY <2>1 DEF Frame
    <2> QED
      BY <1>4, <2>1, <2>2
  <1>7. CASE FollowerTimeout(n)
    <2>1. eng'[n].mode = eng[n].mode /\ msgs' = msgs
      BY <1>7, AbortEffect DEF FollowerTimeout
    <2>2. ~(Held /\ Bound(n))
      <3>1. ~LeaderHolds(n)
        BY <1>7 DEF FollowerTimeout
      <3> QED
        BY <1>7, <3>1, HeldVote DEF FollowerTimeout, FollowerStates
    <2> QED
      BY <1>2, <2>1, <2>2
  <1>8. CASE SendPrepared(n)
    <2>1. UNCHANGED <<eng, ctl, journal, up>>
      BY <1>8 DEF SendPrepared
    <2>2. Sent
      BY <1>8, <2>1 DEF SendPrepared, PreparedFrame, Frame
    <2> QED
      BY <1>4, <2>1, <2>2
  <1>9. CASE LeaderTimeout(n) \/ SendPrepare(n) \/ SendCommit(n)
    BY <1>1, <1>9 DEF LeaderTimeout, SendPrepare, SendCommit, LeaderStates
  <1>10. CASE Crash(n)
    BY <1>0, <1>4, <1>10 DEF Crash, Ends
  <1>11. CASE Stop(n)
    <2>0. up[n] /\ ~up'[n]
      BY <1>0, <1>11 DEF Stop, Ends
    <2>1. CASE UNCHANGED <<eng, ctl, journal, msgs>>
      BY <1>4, <2>0, <2>1
    <2>2. CASE /\ ctl[n].state \in {"LeaderPreparing", "FollowerPrepared"}
               /\ AbortPrepare(n, FALSE)
      <3>1. eng'[n].mode = eng[n].mode /\ msgs' = msgs
        BY <2>2, AbortEffect
      <3>2. ~OwesVote(n) /\ ctl[n].state = "FollowerPrepared"
        BY <1>1, <1>11, <2>2 DEF Stop, LeaderStates
      <3>3. ~(Held /\ Bound(n))
        BY <2>0, <3>2, HeldVote DEF OwesVote, FollowerStates
      <3> QED
        BY <1>2, <3>1, <3>3
    <2> QED
      BY <1>11, <2>1, <2>2 DEF Stop
  <1>12. CASE Start(n)
    <2>1. CASE UNCHANGED <<eng, ctl, up>>
      BY <1>4, <1>12, <2>1 DEF Start
    <2>2. CASE /\ eng' = [eng EXCEPT ![n] = Recovered(n, journal[n]).engine]
               /\ ctl' = [ctl EXCEPT ![n] = Recovered(n, journal[n]).controller]
      <3>1. /\ eng'[n] = Recovered(n, journal[n]).engine
            /\ ctl'[n] = Recovered(n, journal[n]).controller
            /\ UNCHANGED <<journal, msgs>>
        BY <1>0, <1>12, <2>2 DEF Start
      <3>2. /\ journal[n].phase = "Prepared" =>
                  ctl'[n].fenced = TRUE /\ eng'[n].mode = "ReservedPeak"
            /\ journal[n].phase = "Committed" => eng'[n].mode = StrictMode(n)
            /\ journal[n].phase = "Idle" => eng'[n].mode = "ReservedPeak"
        BY <3>1, RecoveredIs
      <3>3. journal[n].phase \in {"Idle", "Prepared", "Committed"}
        BY <1>0 DEF Records, Phases
      <3>4. StrictMode(n) # "ReservedPeak"
        BY DEF StrictMode
      <3>5. Bound(n) => Bound(n)'
        BY <3>1, <3>2, <3>3, <3>4 DEF Bound
      <3>6. journal[n].phase = "Committed" => eng[Leader].mode # "ReservedPeak"
        BY DEF Handoff, LeaderOK, Adopted
      <3> QED
        BY <1>2, <3>1, <3>2, <3>3, <3>5, <3>6
    <2> QED
      BY <1>12, <2>1, <2>2 DEF Start, Load
  <1>13. ASSUME NEW f \in msgs, HandlePrepare(n, f)
         PROVE  Kept /\ Sent /\ Modes
    <2>0. /\ FrameOK(f) /\ f.term \in Nat /\ f.term <= clock /\ up'[n] = up[n] /\ up[n]
          /\ ~ctl[n].fenced
      BY <1>0, <1>13 DEF HandlePrepare, Receives, Handoff, FrameOK, Frames
    <2>1. CASE /\ ctl[n].state = "FollowerPrepared" /\ f.term = ctl[n].term
               /\ msgs' = msgs \cup {PreparedFrame(n, f.term, ctl[n].prepared[n])}
               /\ UNCHANGED <<eng, ctl, journal>>
      BY <1>4, <2>0, <2>1 DEF PreparedFrame, Frame
    <2> DEFINE idle == Aborted(eng[n])
    <2>2. ASSUME CanBegin(idle), ~(ctl[n].state = "FollowerPrepared" /\ f.term = ctl[n].term),
                 NEW ok,
                 IF ok
                 THEN /\ eng' = [eng EXCEPT ![n] = Begun(idle)]
                      /\ ctl' = [ctl EXCEPT
                            ![n].state = "FollowerPrepared", ![n].term = f.term,
                            ![n].prepared = [NoVotes EXCEPT ![n] = Vote(idle)]]
                      /\ msgs' = msgs \cup {PreparedFrame(n, f.term, Vote(idle))}
                 ELSE /\ eng' = [eng EXCEPT ![n] = idle] /\ UNCHANGED msgs
          PROVE  Kept /\ Sent /\ Modes
      <3>1. /\ idle \in Engines /\ idle.mode = eng[n].mode /\ eng[n].mode = "ReservedPeak"
            /\ Begun(idle).mode = "ReservedPeak"
        <4>1. idle \in Engines /\ idle.mode = eng[n].mode
          BY <1>0, AbortedIs
        <4> HIDE DEF idle
        <4> QED
          BY <2>2, <4>1, BegunIs DEF CanBegin
      <3> HIDE DEF idle
      <3>2. eng'[n].mode = "ReservedPeak"
        BY <1>0, <2>2, <3>1
      <3>3. ~(Held /\ Bound(n))
        <4>1. SUFFICES ASSUME Held, Bound(n) PROVE FALSE
          OBVIOUS
        <4>2. /\ ctl[n].state = "FollowerPrepared" /\ ctl[n].term = ctl[Leader].term
              /\ f.term >= ctl[n].term
          BY <1>13, <2>0, <3>1, <4>1 DEF Bound, FollowerStates, HandlePrepare, Acceptable
        <4>3. ctl[Leader].term = clock
          BY <1>0, <4>1, Facts DEF Held, TermFits, LeaderStates
        <4> QED
          BY <1>0, <2>0, <2>2, <4>2, <4>3
      <3>4. Sent
        <4>1. CASE ok
          <5>1. ctl'[n].state = "FollowerPrepared" /\ ctl'[n].term = f.term
            BY <1>0, <2>2, <4>1 DEF Controllers
          <5>2. msgs' = msgs \cup {PreparedFrame(n, f.term, Vote(idle))}
            BY <2>2, <4>1
          <5> QED
            BY <5>1, <5>2 DEF PreparedFrame, Frame
        <4>2. CASE ~ok
          BY <2>2, <4>2
        <4> QED
          BY <4>1, <4>2
      <3> QED
        BY <3>2, <3>3, <3>4
    <2> QED
      BY <1>13, <2>1, <2>2 DEF HandlePrepare
  <1>14. ASSUME NEW f \in msgs, HandleCommit(n, f)
         PROVE  Kept /\ Sent /\ Modes
    <2>0. /\ eng[Leader].mode # "ReservedPeak" /\ Decided
      BY <1>0, <1>2, <1>14 DEF HandleCommit, Receives, Handoff, FrameOK
    <2>1. Sent
      BY <1>14 DEF HandleCommit, CommitAckFrame, Frame
    <2>2. CASE UNCHANGED <<ctl, journal, eng>>
      BY <1>4, <1>14, <2>1, <2>2 DEF HandleCommit
    <2>3. CASE ctl' = [ctl EXCEPT ![n].state = "FollowerCommitting"]
               /\ ctl[n].state \in FollowerStates
      <3>1. ctl'[n].state = "FollowerCommitting" /\ ctl'[n].term = ctl[n].term
        BY <1>0, <2>3 DEF Controllers
      <3>2. journal'[n].phase # "Idle"
        BY <3>1 DEF Handoff, JournalOK, JournalFits, ClosedStates, FollowerStates
      <3>3. Kept
        BY <1>0, <1>14, <2>3, <3>1, <3>2, HeldVote
           DEF Bound, FollowerStates, HandleCommit, Receives
      <3> QED
        BY <2>0, <2>1, <3>3
    <2>4. CASE eng' = [eng EXCEPT ![n] = Committed(@, n, f.value)]
      <3>1. eng'[n].mode # "ReservedPeak"
        BY <1>0, <2>4 DEF Committed, StrictMode, Engines
      <3>2. journal'[n].phase = "Committed"
        BY <3>1 DEF Handoff, JournalOK, JournalFits
      <3> QED
        BY <2>0, <2>1, <3>1, <3>2 DEF Bound
    <2> QED
      BY <1>14, <2>2, <2>3, <2>4 DEF HandleCommit, FollowerStates
  <1>15. ASSUME NEW f \in msgs, HandleAbort(n, f)
         PROVE  Kept /\ Sent /\ Modes
    <2>1. eng'[n].mode = eng[n].mode /\ msgs' = msgs
      BY <1>15, AbortEffect DEF HandleAbort
    <2>2. ~(Held /\ Bound(n))
      <3>1. SUFFICES ASSUME Held, Bound(n) PROVE FALSE
        OBVIOUS
      <3>2. ctl[n].term = ctl[Leader].term
        BY <1>15, <3>1, HeldVote DEF HandleAbort, Receives, FollowerStates
      <3> QED
        BY <1>15, <3>1, <3>2 DEF HandleAbort, Receives, Handoff, FrameOK, Held, LeaderStates
    <2> QED
      BY <1>2, <2>1, <2>2
  <1> HIDE DEF Kept, Sent, Modes
  <1> QED
    BY <1>5, <1>6, <1>7, <1>8, <1>9, <1>10, <1>11, <1>12, <1>13, <1>14, <1>15
       DEF StepOf, Tick, Handle, HandleTrigger, BeginLeaderPrepare, HandlePrepared,
           HandleCommitAck

(* A step of the leader that keeps its state and its term *)
LEMMA LeaderKeeps ==
  ASSUME Handoff, StepOf(Leader), Binding,
         ctl'[Leader].state = ctl[Leader].state, ctl'[Leader].term = ctl[Leader].term,
         up'[Leader] = up[Leader], eng'[Leader].mode = eng[Leader].mode,
         \A f \in msgs' \ msgs : f.type # "Prepared",
         Held => \A m \in Members \ {Leader} : ctl'[Leader].prepared[m] # NoVote =>
                    ctl[Leader].prepared[m] # NoVote \/ Bound(m)
  PROVE  Binding'
  <1>0. /\ SameElsewhere(Leader) /\ Leader \in Members /\ msgs \subseteq Frames
        /\ \A f \in msgs : FrameOK(f)
    BY MembersAssumption, StepSame, Facts DEF Handoff
  <1>1. \A m \in Members \ {Leader} : Bound(m) => Bound(m)'
    BY <1>0 DEF Bound, SameElsewhere
  <1>2. VotesBind'
    <2>1. SUFFICES ASSUME Held
                   PROVE  /\ \A f \in msgs' : f.type = "Prepared" /\ f.term = ctl[Leader].term
                                => Bound(f.from)'
                          /\ \A m \in Members \ {Leader} :
                                ctl'[Leader].prepared[m] # NoVote => Bound(m)'
      BY DEF VotesBind, Held
    <2>2. ASSUME NEW f \in msgs', f.type = "Prepared", f.term = ctl[Leader].term
          PROVE  Bound(f.from)'
      <3>1. f \in msgs /\ f.from \in Members \ {Leader}
        BY <1>0, <2>2 DEF Frames, FrameOK
      <3> QED
        BY <1>1, <2>1, <2>2, <3>1 DEF Binding, VotesBind
    <2> QED
      BY <1>1, <2>1, <2>2 DEF Binding, VotesBind
  <1>3. DecisionBinds'
    <2>1. Decided' => Decided
      BY <1>0 DEF Decided, SameElsewhere
    <2>2. CASE /\ up[Leader] /\ ctl[Leader].state = "LeaderCommitting"
               /\ \A m \in Members \ {Leader} : Bound(m)
      BY <1>1, <2>2 DEF DecisionBinds
    <2>3. CASE \A m \in Members : journal[m].phase = "Committed"
      <3>1. \A m \in Members : journal'[m].phase = "Committed"
        BY <1>0, <2>3, StepKeeps
      <3> QED
        BY <3>1 DEF DecisionBinds
    <2>4. CASE ~Decided
      BY <2>1, <2>4 DEF DecisionBinds
    <2> QED
      BY <2>2, <2>3, <2>4 DEF Binding, DecisionBinds
  <1>4. LeaderStays'
    BY DEF Binding, LeaderStays
  <1> QED
    BY <1>2, <1>3, <1>4 DEF Binding

(* A leader that has not committed has decided nothing. *)
LEMMA Undecided ==
  ASSUME Handoff, StepOf(Leader), Binding, eng'[Leader].mode = eng[Leader].mode,
         ctl[Leader].state # "LeaderCommitting", journal[Leader].phase # "Committed"
  PROVE  ~Decided'
  <1>1. SameElsewhere(Leader) /\ Leader \in Members
    BY MembersAssumption, StepSame
  <1>2. ~Decided
    BY <1>1 DEF Binding, DecisionBinds
  <1> QED
    BY <1>1, <1>2 DEF Decided, SameElsewhere

LEMMA LeaderStep ==
  ASSUME Handoff, Handoff', StepOf(Leader), ~lapsed', Binding
  PROVE  Binding'
  <1>0. /\ eng \in [Members -> Engines] /\ ctl \in [Members -> Controllers]
        /\ journal \in [Members -> Records] /\ up \in [Members -> BOOLEAN]
        /\ eng[Leader] \in Engines /\ ctl[Leader] \in Controllers /\ journal[Leader] \in Records
        /\ TermFits(Leader, eng[Leader], ctl[Leader], clock)
        /\ EngineFits(Leader, eng[Leader], ctl[Leader])
        /\ JournalFits(Leader, eng[Leader], ctl[Leader], journal[Leader])
        /\ clock \in Nat /\ Leader \in Members /\ msgs \subseteq Frames
        /\ SameElsewhere(Leader)
    BY MembersAssumption, StepSame, Facts
  <1>1. ctl[Leader].state \notin FollowerStates
    BY <1>0 DEF TermFits
  <1>2. ASSUME UNCHANGED <<ctl, up>>, eng'[Leader].mode = eng[Leader].mode,
               \A f \in msgs' \ msgs : f.type # "Prepared"
        PROVE  Binding'
    BY <1>2, LeaderKeeps
  <1>3. ASSUME ctl'[Leader].state = "Idle", ~Decided'
        PROVE  Binding'
    BY <1>3 DEF Binding, VotesBind, DecisionBinds, LeaderStays, Held
  <1>4. CASE \E d \in Deltas, k \in Counters : Accept(Leader, d, k)
    <2>1. eng'[Leader].mode = eng[Leader].mode
      BY <1>0, <1>4 DEF Accept, Engines
    <2> QED
      BY <1>2, <1>4, <2>1 DEF Accept
  <1>5. ASSUME BeginLeaderPrepare(Leader), UNCHANGED <<msgs, up>>
        PROVE  Binding'
    <2>1. /\ ctl[Leader].state = "Idle" /\ eng[Leader].mode = "ReservedPeak"
          /\ journal[Leader].phase # "Committed" /\ NewTerm(Leader) = clock + 1
      BY <1>0, <1>5, NewTermIsNext DEF BeginLeaderPrepare, CanBegin, JournalFits
    <2>2. PICK ok \in BOOLEAN :
            IF ok
            THEN /\ eng' = [eng EXCEPT ![Leader] = Begun(@)]
                 /\ ctl' = [ctl EXCEPT
                       ![Leader].state = "LeaderPreparing", ![Leader].term = clock + 1,
                       ![Leader].prepared = [NoVotes EXCEPT ![Leader] = Vote(eng[Leader])]]
            ELSE /\ eng' = [eng EXCEPT ![Leader] = Aborted(Begun(@))]
                 /\ ctl' = [ctl EXCEPT ![Leader].term = 0]
      BY <1>5, <2>1 DEF BeginLeaderPrepare, PersistOutcomes
    <2>3. eng'[Leader].mode = eng[Leader].mode
      <3>1. Begun(eng[Leader]) \in Engines /\ Begun(eng[Leader]).mode = eng[Leader].mode
        BY <1>0, BegunIs
      <3>2. Aborted(Begun(eng[Leader])).mode = eng[Leader].mode
        BY <3>1, AbortedIs
      <3> QED
        BY <1>0, <2>2, <3>1, <3>2
    <2>4. ~Decided'
      BY <2>1, <2>3, Undecided
    <2>5. CASE ok
      <3>1. /\ ctl'[Leader].state = "LeaderPreparing" /\ ctl'[Leader].term = clock + 1
            /\ ctl'[Leader].prepared = [NoVotes EXCEPT ![Leader] = Vote(eng[Leader])]
        BY <1>0, <2>2, <2>5 DEF Controllers
      <3>2. \A m \in Members \ {Leader} : ctl'[Leader].prepared[m] = NoVote
        BY <1>0, <3>1, OwnVote
      <3>3. \A f \in msgs' : f.term # ctl'[Leader].term
        <4>1. \A f \in msgs : f.term \in Nat /\ f.term <= clock
          BY <1>0 DEF Handoff, FrameOK, Frames
        <4> QED
          BY <1>0, <1>5, <3>1, <4>1
      <3> QED
        BY <2>4, <3>1, <3>2, <3>3 DEF Binding, VotesBind, DecisionBinds, LeaderStays
    <2>6. CASE ~ok
      <3>1. ctl'[Leader].state = "Idle"
        BY <1>0, <2>1, <2>2, <2>6 DEF Controllers
      <3> QED
        BY <1>3, <2>4, <3>1
    <2> QED
      BY <2>5, <2>6
  <1>6. ASSUME NEW b, AbortPrepare(Leader, b), ctl[Leader].state = "LeaderPreparing"
        PROVE  Binding'
    <2>1. ctl'[Leader].state = "Idle" /\ eng'[Leader].mode = eng[Leader].mode
      BY <1>0, <1>6, AbortEffect
    <2>2. journal[Leader].phase # "Committed"
      BY <1>0, <1>6 DEF JournalFits
    <2> QED
      BY <1>3, <1>6, <2>1, <2>2, Undecided
  <1>7. CASE Tick(Leader)
    <2>1. CASE SendPrepare(Leader) \/ SendCommit(Leader)
      <3>1. \A f \in msgs' \ msgs : f.type # "Prepared"
        BY <2>1 DEF SendPrepare, SendCommit, Frame
      <3> QED
        BY <1>2, <2>1, <3>1 DEF SendPrepare, SendCommit
    <2> QED
      BY <1>1, <1>5, <1>6, <1>7, <2>1
         DEF Tick, TickTrigger, LeaderTimeout, FollowerTimeout, SendPrepared, FollowerStates
  <1>8. CASE Crash(Leader) \/ Stop(Leader)
    <2>1. /\ ~OwesCommit(Leader) /\ ~up'[Leader]
      BY <1>0, <1>8 DEF Crash, Stop, Ends
    <2>2. CASE UNCHANGED <<eng, ctl, journal, msgs>>
      <3>1. ~Held' /\ LeaderStays'
        BY <2>1, <2>2 DEF Held, LeaderStays, OwesCommit
      <3>2. DecisionBinds'
        BY <2>1, <2>2 DEF Binding, DecisionBinds, Decided, OwesCommit
      <3> QED
        BY <3>1, <3>2 DEF Binding, VotesBind
    <2> QED
      BY <1>1, <1>6, <1>8, <2>2 DEF Crash, Stop, FollowerStates
  <1>9. CASE Start(Leader)
    <2>1. ~up[Leader] /\ UNCHANGED journal
      BY <1>9 DEF Start
    <2>2. CASE UNCHANGED <<eng, ctl, up>>
      BY <1>2, <1>9, <2>2 DEF Start
    <2>3. CASE /\ eng' = [eng EXCEPT ![Leader] = Recovered(Leader, journal[Leader]).engine]
               /\ ctl' = [ctl EXCEPT ![Leader] = Recovered(Leader, journal[Leader]).controller]
      <3>1. /\ eng'[Leader] = Recovered(Leader, journal[Leader]).engine
            /\ ctl'[Leader] = Recovered(Leader, journal[Leader]).controller
        BY <1>0, <2>3
      <3>2. /\ ctl'[Leader].state = "Idle"
            /\ journal[Leader].phase = "Prepared" => eng'[Leader].mode = "ReservedPeak"
            /\ journal[Leader].phase = "Idle" => eng'[Leader].mode = "ReservedPeak"
        BY <1>0, <3>1, RecoveredIs
      <3>3. Decided' => Decided
        <4>1. journal[Leader].phase \in {"Idle", "Prepared", "Committed"}
          BY <1>0 DEF Records, Phases
        <4>2. journal[Leader].phase = "Committed" => eng[Leader].mode # "ReservedPeak"
          BY <1>0, <1>1, <2>1 DEF JournalFits, Binding, LeaderStays, FollowerStates
        <4>3. eng'[Leader].mode # "ReservedPeak" => eng[Leader].mode # "ReservedPeak"
          BY <3>2, <4>1, <4>2
        <4> QED
          BY <1>0, <4>3 DEF Decided, SameElsewhere
      <3>4. Decided => \A m \in Members : journal[m].phase = "Committed"
        BY <2>1 DEF Binding, DecisionBinds
      <3> QED
        BY <2>1, <3>2, <3>3, <3>4 DEF Binding, VotesBind, DecisionBinds, LeaderStays, Held
    <2> QED
      BY <1>9, <2>2, <2>3 DEF Start, Load
  <1>10. ASSUME NEW f \in msgs, HandlePrepared(Leader, f)
         PROVE  Binding'
    <2> DEFINE vote == [counter |-> f.counter, total |-> f.value]
               votes == [ctl[Leader].prepared EXCEPT ![f.from] = vote]
    <2>0. /\ ctl[Leader].state = "LeaderPreparing" /\ up[Leader] /\ UNCHANGED up
          /\ f.type = "Prepared" /\ f.term = ctl[Leader].term
      BY <1>10 DEF HandlePrepared, Receives
    <2>1. \/ /\ ctl' = [ctl EXCEPT ![Leader].prepared = votes]
             /\ UNCHANGED <<eng, journal, msgs>>
          \/ AbortPrepare(Leader, TRUE)
          \/ AllPrepared(votes) /\ BeginCommit(Leader, votes) /\ UNCHANGED msgs
      BY <1>10 DEF HandlePrepared
    <2>2. /\ Held /\ journal[Leader].phase = "Prepared" /\ f.from \in Members \ {Leader}
          /\ Bound(f.from)
      <3>1. Held
        BY <2>0 DEF Held
      <3>2. f \in Frames /\ FrameOK(f)
        BY <1>0 DEF Handoff
      <3> QED
        BY <1>0, <2>0, <3>1, <3>2 DEF Frames, FrameOK, JournalFits, Binding, VotesBind
    <2>3. \A m \in Members \ {Leader} : votes[m] # NoVote =>
             ctl[Leader].prepared[m] # NoVote \/ Bound(m)
      BY <1>0, <2>2 DEF Controllers
    <2> HIDE DEF votes
    <2>4. CASE /\ ctl' = [ctl EXCEPT ![Leader].prepared = votes]
               /\ UNCHANGED <<eng, journal, msgs>>
      <3>1. /\ ctl'[Leader].state = ctl[Leader].state /\ ctl'[Leader].term = ctl[Leader].term
            /\ ctl'[Leader].prepared = votes
        BY <1>0, <2>4 DEF Controllers
      <3> QED
        BY <2>0, <2>3, <2>4, <3>1, LeaderKeeps
    <2>5. CASE AllPrepared(votes) /\ BeginCommit(Leader, votes) /\ UNCHANGED msgs
      <3>1. \A m \in Members \ {Leader} : Bound(m)
        BY <2>2, <2>3, <2>5 DEF AllPrepared, Binding, VotesBind
      <3>2. PICK ok \in BOOLEAN :
               IF ok
               THEN ctl' = [ctl EXCEPT
                      ![Leader].state = "LeaderCommitting", ![Leader].prepared = votes,
                      ![Leader].acks = {Leader}, ![Leader].total = VotedTotal(votes),
                      ![Leader].counter = votes[Leader].counter]
               ELSE /\ ctl' = [ctl EXCEPT ![Leader].state = "LeaderCommitBlocked",
                                          ![Leader].prepared = votes]
                    /\ UNCHANGED eng
        BY <2>5 DEF BeginCommit, PersistOutcomes
      <3>3. CASE ok
        <4>1. /\ ctl'[Leader].state = "LeaderCommitting"
              /\ ctl'[Leader].term = ctl[Leader].term
          BY <1>0, <3>2, <3>3 DEF Controllers
        <4>2. \A m \in Members \ {Leader} : Bound(m)'
          BY <1>0, <3>1, <4>1 DEF Bound, SameElsewhere
        <4>3. \A g \in msgs' : g.type = "Prepared" => g.from \in Members \ {Leader}
          BY <1>0, <2>5 DEF Frames, Handoff, FrameOK
        <4> QED
          BY <2>0, <4>1, <4>2, <4>3 DEF Binding, VotesBind, DecisionBinds, LeaderStays
      <3>4. CASE ~ok
        <4>1. ctl'[Leader].state = "LeaderCommitBlocked" /\ UNCHANGED eng
          BY <1>0, <3>2, <3>4 DEF Controllers
        <4>2. ~Decided'
          BY <2>0, <2>2, <4>1, Undecided
        <4> QED
          BY <2>0, <4>1, <4>2 DEF Binding, VotesBind, DecisionBinds, LeaderStays, Held
      <3> QED
        BY <3>3, <3>4
    <2> QED
      BY <1>6, <2>0, <2>1, <2>4, <2>5
  <1>11. ASSUME NEW f \in msgs, HandleCommitAck(Leader, f)
         PROVE  Binding'
    <2> DEFINE acks == ctl[Leader].acks \cup {f.from}
    <2>0. /\ ctl[Leader].state = "LeaderCommitting" /\ up[Leader]
          /\ UNCHANGED <<eng, journal, up, msgs>> /\ f.type = "CommitAck"
          /\ ctl' = [ctl EXCEPT ![Leader] =
                IF AllAcked(acks)
                THEN [@ EXCEPT !.acks = acks, !.last = f.term, !.state = "Idle", !.term = 0]
                ELSE [@ EXCEPT !.acks = acks]]
      BY <1>11 DEF HandleCommitAck, Receives
    <2>1. \A m \in acks : journal[m].phase = "Committed"
      BY <2>0 DEF Handoff, LeaderOK, FrameOK
    <2> HIDE DEF acks
    <2>2. CASE AllAcked(acks)
      <3>1. ctl'[Leader].state = "Idle"
        BY <1>0, <2>0, <2>2 DEF Controllers
      <3>2. \A m \in Members : journal'[m].phase = "Committed"
        BY <2>0, <2>1, <2>2 DEF AllAcked
      <3> QED
        BY <3>1, <3>2 DEF Binding, VotesBind, DecisionBinds, LeaderStays, Held
    <2>3. CASE ~AllAcked(acks)
      <3>1. /\ ctl'[Leader].state = ctl[Leader].state /\ ctl'[Leader].term = ctl[Leader].term
            /\ ctl'[Leader].prepared = ctl[Leader].prepared
        BY <1>0, <2>0, <2>3 DEF Controllers
      <3> QED
        BY <2>0, <3>1, LeaderKeeps
    <2> QED
      BY <2>2, <2>3
  <1>12. ASSUME NEW f \in msgs,
                HandlePrepare(Leader, f) \/ HandleCommit(Leader, f) \/ HandleAbort(Leader, f)
         PROVE  FALSE
    BY <1>12 DEF HandlePrepare, HandleCommit, HandleAbort, Receives, Handoff, FrameOK
  <1> QED
    BY <1>4, <1>5, <1>7, <1>8, <1>9, <1>10, <1>11, <1>12
       DEF StepOf, Handle, HandleTrigger

LEMMA UnsplitNext == Handoff /\ Handoff' /\ Unsplit /\ [Next]_vars => Unsplit'
  <1> SUFFICES ASSUME Handoff, Handoff', Unsplit, [Next]_vars, ~lapsed' PROVE Binding'
    BY DEF Unsplit
  <1>1. CASE UNCHANGED vars
    BY <1>1 DEF vars, Unsplit, Binding, VotesBind, DecisionBinds, LeaderStays, Held, Bound,
                Decided
  <1>2. ASSUME NEW n \in Members, StepOf(n) PROVE Binding'
    <2>1. ~lapsed
      BY <1>2 DEF StepOf, Accept, Tick, TickTrigger, LeaderTimeout, FollowerTimeout,
                  SendPrepare, SendPrepared, SendCommit, Handle, HandleTrigger, HandlePrepare,
                  HandlePrepared, HandleCommit, HandleCommitAck, HandleAbort, Crash, Stop, Start
    <2> QED
      BY <1>2, <2>1, FollowerStep, LeaderStep DEF Unsplit
  <1> QED
    BY <1>1, <1>2 DEF Next, StepOf

LEMMA UnsplitInit == Init => Unsplit
  BY MembersAssumption
     DEF Init, Unsplit, Binding, VotesBind, DecisionBinds, LeaderStays, Held, Decided,
         FreshEngine, FreshController

LEMMA UnsplitHolds == Spec => []Unsplit
  BY UnsplitInit, UnsplitNext, HandoffHolds, PTL DEF Spec

(* As long as no vote was given up that the leader counts on, and the       *)
(* leader's process did not end on its decision, a strict member and an     *)
(* accepting peak member never coexist: whatever is lost, repeated or late, *)
(* whichever store fails, whoever else crashes and restarts.                *)
THEOREM SplitNeedsLapse == Spec => []SplitOnlyByLapse
  <1>1. Handoff /\ Unsplit => SplitOnlyByLapse
    <2> SUFFICES ASSUME Handoff, Binding, NEW n \in Members, eng[n].mode # "ReservedPeak",
                        NEW m \in Members, up[m], eng[m].mode = "ReservedPeak", eng[m].open
                 PROVE  FALSE
      BY DEF Unsplit, SplitOnlyByLapse, NoSplitCluster
    <2>1. /\ EngineFits(m, eng[m], ctl[m]) /\ JournalFits(m, eng[m], ctl[m], journal[m])
          /\ EngineFits(Leader, eng[Leader], ctl[Leader])
      BY MembersAssumption, Facts
    <2>2. ctl[m].state \notin ClosedStates /\ ~ctl[m].fenced
      BY <2>1 DEF EngineFits
    <2>3. CASE /\ ctl[Leader].state = "LeaderCommitting"
               /\ \A k \in Members \ {Leader} : Bound(k)
      BY <2>1, <2>2, <2>3 DEF EngineFits, Bound, ClosedStates
    <2>4. CASE \A k \in Members : journal[k].phase = "Committed"
      BY <2>1, <2>2, <2>4 DEF JournalFits, ClosedStates, FollowerStates
    <2> QED
      BY <2>3, <2>4 DEF Binding, DecisionBinds, Decided
  <1> QED
    BY <1>1, HandoffHolds, UnsplitHolds, PTL

-----------------------------------------------------------------------------
(* Accounts is inductive, given Handoff and Unsplit.                       *)

(* Once a member is strict, nobody accepts from its reservation, and no     *)
(* vote the leader counts on comes from a member that does.                 *)
LEMMA PeakAccepts ==
  ASSUME Handoff, Binding, NEW n \in Members, up[n],
         eng[n].mode = "ReservedPeak", eng[n].open
  PROVE  /\ ~Decided /\ ~ctl[n].fenced /\ ctl[n].state \notin ClosedStates
         /\ n # Leader => ~Bound(n)
         /\ Held => n # Leader
  <1>1. /\ EngineFits(n, eng[n], ctl[n]) /\ JournalFits(n, eng[n], ctl[n], journal[n])
        /\ EngineFits(Leader, eng[Leader], ctl[Leader]) /\ Leader \in Members
    BY MembersAssumption, Facts
  <1>2. ctl[n].state \notin ClosedStates /\ ~ctl[n].fenced
    BY <1>1 DEF EngineFits
  <1>3. n # Leader => ~Bound(n)
    BY <1>2 DEF Bound, ClosedStates
  <1>4. Held => n # Leader
    BY <1>1, <1>2 DEF Held, EngineFits, ClosedStates
  <1>5. ~Decided
    <2>1. CASE /\ ctl[Leader].state = "LeaderCommitting"
               /\ \A k \in Members \ {Leader} : Bound(k)
      BY <1>1, <1>3, <2>1 DEF EngineFits
    <2>2. CASE \A k \in Members : journal[k].phase = "Committed"
      BY <1>1, <1>2, <2>2 DEF JournalFits, ClosedStates, FollowerStates
    <2> QED
      BY <2>1, <2>2 DEF Binding, DecisionBinds
  <1> QED
    BY <1>2, <1>3, <1>4, <1>5

(* The vote of a member that is preparing or prepared is true. *)
LEMMA VoterTells ==
  ASSUME NEW n \in Members, NEW e, NEW c, NEW j, NEW t,
         TermFits(n, e, c, t), EngineFits(n, e, c), JournalFits(n, e, c, j),
         c.state \in {"LeaderPreparing", "FollowerPrepared"}
  PROVE  ~c.fenced /\ c.prepared[n].total = e.used /\ j.total = e.used
  BY DEF TermFits, EngineFits, JournalFits, ClosedStates, FollowerStates

(* What a step of member n has to show about the votes *)
LEMMA VotesFrame ==
  ASSUME Handoff, Handoff', NEW n \in Members, StepOf(n), Binding, VotesTrue,
         n # Leader /\ Held /\ Bound(n) =>
             \A v \in Nat : VoteTrue(n, v) => VoteFits(eng'[n], ctl'[n], journal'[n], v),
         \A f \in msgs' \ msgs : f.type = "Prepared" =>
             /\ f.from = n /\ ctl'[n].state = "FollowerPrepared"
             /\ f.value = ctl'[n].prepared[n].total,
         n = Leader /\ Held' =>
             \/ /\ Held /\ ctl'[n].term = ctl[n].term
                /\ \A m \in Members \ {n} : ctl'[n].prepared[m] # NoVote =>
                      \/ ctl'[n].prepared[m] = ctl[n].prepared[m]
                      \/ VoteTrue(m, ctl'[n].prepared[m].total)
             \/ /\ \A f \in msgs' : f.term # ctl'[n].term
                /\ \A m \in Members \ {n} : ctl'[n].prepared[m] = NoVote
  PROVE  VotesTrue'
  <1> SUFFICES ASSUME Held' PROVE
        /\ \A f \in msgs' : f.type = "Prepared" /\ f.term = ctl'[Leader].term =>
              VoteFits(eng'[f.from], ctl'[f.from], journal'[f.from], f.value)
        /\ \A m \in Members : ctl'[Leader].prepared[m] # NoVote =>
              VoteFits(eng'[m], ctl'[m], journal'[m], ctl'[Leader].prepared[m].total)
    BY DEF VotesTrue, VoteTrue
  <1>0. /\ SameElsewhere(n) /\ Leader \in Members
        /\ \A f \in msgs : f.from \in Members /\ f.value \in Nat /\ FrameOK(f)
    BY StepSame, Facts DEF Handoff, Frames
  <1>1. \A m \in Members \ {n} : \A v :
           VoteTrue(m, v) => VoteFits(eng'[m], ctl'[m], journal'[m], v)
    BY <1>0 DEF VoteTrue, SameElsewhere
  <1>2. n # Leader => Held /\ ctl'[Leader] = ctl[Leader]
    BY <1>0 DEF SameElsewhere, Held
  <1>3. ASSUME NEW m \in Members, ctl'[m].state \in {"LeaderPreparing", "FollowerPrepared"}
        PROVE  VoteFits(eng'[m], ctl'[m], journal'[m], ctl'[m].prepared[m].total)
    <2>1. /\ TermFits(m, eng'[m], ctl'[m], clock') /\ EngineFits(m, eng'[m], ctl'[m])
          /\ JournalFits(m, eng'[m], ctl'[m], journal'[m])
      BY DEF Handoff, TermOK, EngineOK, JournalOK
    <2> QED
      BY <1>3, <2>1, VoterTells DEF VoteFits
  <1>4. ASSUME NEW f \in msgs', f.type = "Prepared", f.term = ctl'[Leader].term
        PROVE  VoteFits(eng'[f.from], ctl'[f.from], journal'[f.from], f.value)
    <2>1. CASE f \in msgs
      <3>1. Held /\ f.term = ctl[Leader].term /\ f.from \in Members /\ f.from # Leader
        BY <1>0, <1>2, <1>4, <2>1 DEF FrameOK
      <3>2. VoteTrue(f.from, f.value) /\ Bound(f.from)
        BY <1>4, <2>1, <3>1 DEF VotesTrue, Binding, VotesBind
      <3> QED
        BY <1>0, <1>1, <2>1, <3>1, <3>2
    <2>2. CASE f \notin msgs
      BY <1>3, <1>4, <2>2
    <2> QED
      BY <2>1, <2>2
  <1>5. VoteFits(eng'[Leader], ctl'[Leader], journal'[Leader], ctl'[Leader].prepared[Leader].total)
    <2>1. CASE ctl'[Leader].state = "LeaderPreparing"
      BY <1>0, <1>3, <2>1
    <2>2. CASE ctl'[Leader].state = "LeaderCommitting"
      <3>1. eng'[Leader].mode # "ReservedPeak"
        BY <1>0, <2>2 DEF Handoff, EngineOK, EngineFits
      <3> QED
        BY <3>1 DEF VoteFits
    <2> QED
      BY <2>1, <2>2 DEF Held
  <1>6. ASSUME NEW m \in Members, m # Leader, ctl'[Leader].prepared[m] # NoVote
        PROVE  VoteFits(eng'[m], ctl'[m], journal'[m], ctl'[Leader].prepared[m].total)
    <2>1. CASE n # Leader
      <3>1. /\ VoteTrue(m, ctl[Leader].prepared[m].total) /\ Bound(m)
            /\ ctl[Leader].prepared[m].total \in Nat
        BY <1>2, <1>6, <2>1, Facts, MembersAssumption
           DEF VotesTrue, Binding, VotesBind, TermFits
      <3> QED
        BY <1>1, <1>2, <2>1, <3>1
    <2>2. CASE n = Leader
      <3>1. VoteTrue(m, ctl'[Leader].prepared[m].total)
        BY <1>6, <2>2 DEF VotesTrue
      <3> QED
        BY <1>1, <1>6, <2>2, <3>1
    <2> QED
      BY <2>1, <2>2
  <1> QED
    BY <1>4, <1>5, <1>6

LEMMA SharesNat ==
  ASSUME Handoff
  PROVE  /\ \A i \in 0..(N - 1) : Shares[i] \in Nat /\ Shares[i] = Share(i)
         /\ SumTo(Shares, N) \in Nat /\ N \in Nat /\ Members = 0..(N - 1)
  <1>1. N \in Nat /\ Members = 0..(N - 1)
    BY MembersAssumption DEF Members
  <1>2. \A i \in Members : Shares[i] = Share(i) /\ Share(i) \in Nat
    BY DEF Shares, Share, Handoff, TypeOK, Engines, Records
  <1>3. SumTo(Shares, N) \in Nat
    BY <1>1, <1>2, SumToNat
  <1> QED
    BY <1>1, <1>2, <1>3

(* A step of member n that grants nothing and installs nothing, and that    *)
(* writes no record of more than n has granted.                             *)
Quiet(n) ==
    /\ eng'[n].mode = eng[n].mode /\ eng'[n].used = eng[n].used
    /\ eng'[n].strict = eng[n].strict /\ ctl'[n].fenced = ctl[n].fenced
    /\ UNCHANGED <<granted, forgotten>>
    /\ \/ journal'[n] = journal[n]
       \/ /\ ~ctl[n].fenced
          /\ journal'[n].phase = "Committed" \/ journal'[n].total <= eng[n].used

LEMMA QuietBooks ==
  ASSUME Handoff, NEW n \in Members, StepOf(n), Quiet(n), Books
  PROVE  Books'
  <1>0. /\ SameElsewhere(n) /\ Leader \in Members /\ StrictOwner \in Members
        /\ JournalFits(n, eng[n], ctl[n], journal[n])
    BY StepSame, Facts
  <1>1. Share(n)' = Share(n)
    BY DEF Share, Quiet
  <1>2. \A m \in Members : Share(m)' = Share(m)
    BY <1>0, <1>1 DEF Share, SameElsewhere
  <1>3. Shares' = Shares
    BY <1>2 DEF Shares
  <1>4. eng[n].mode # "ReservedPeak" => journal'[n] = journal[n]
    BY <1>0, StepKeeps DEF JournalFits
  <1>5. RecordFits(n)'
    <2>1. journal'[n].phase # "Committed" => journal'[n].total <= Share(n)
      BY DEF Books, RecordFits, Quiet, Share
    <2> QED
      BY <1>1, <1>4, <2>1 DEF Books, RecordFits, Quiet
  <1>6. \A m \in Members \ {n} : RecordFits(m)'
    BY <1>0, <1>2 DEF Books, RecordFits, SameElsewhere
  <1>7. Accounted' = Accounted
    <2>1. \A m \in Members : eng'[m].mode = eng[m].mode /\ eng'[m].strict = eng[m].strict
      BY <1>0 DEF SameElsewhere, Quiet
    <2>2. eng[Leader].mode # "ReservedPeak" => journal'[Leader] = journal[Leader]
      BY <1>0, <1>4 DEF SameElsewhere
    <2>3. SumTo([m \in Members |-> Share(m)], N)' = SumTo([m \in Members |-> Share(m)], N)
      BY <1>3 DEF Shares
    <2> QED
      BY <1>0, <2>1, <2>2, <2>3 DEF Accounted
  <1> QED
    BY <1>5, <1>6, <1>7 DEF Books, Quiet

(* A quiet step of a follower does not disturb a vote it is bound by. *)
LEMMA QuietFollower ==
  ASSUME Handoff, Handoff', Binding, Tallied, NEW n \in Members, n # Leader, StepOf(n),
         Quiet(n),
         Held /\ Bound(n) => journal'[n] = journal[n] \/ journal'[n].phase = "Committed",
         \A f \in msgs' \ msgs : f.type = "Prepared" =>
             /\ f.from = n /\ ctl'[n].state = "FollowerPrepared"
             /\ f.value = ctl'[n].prepared[n].total
  PROVE  Tallied'
  <1>1. Held /\ Bound(n) =>
          \A v \in Nat : VoteTrue(n, v) => VoteFits(eng'[n], ctl'[n], journal'[n], v)
    BY DEF VoteTrue, VoteFits, Quiet
  <1>2. VotesTrue'
    BY <1>1, VotesFrame DEF Tallied
  <1>3. forgotten' \/ Books'
    BY QuietBooks DEF Tallied, Quiet
  <1> QED
    BY <1>2, <1>3 DEF Tallied

(* A prepare that is given up is quiet. *)
LEMMA AbortQuiet ==
  ASSUME Handoff, NEW n \in Members, NEW b, AbortPrepare(n, b),
         ctl[n].state \in {"LeaderPreparing", "FollowerPrepared"},
         UNCHANGED <<granted, forgotten>>
  PROVE  Quiet(n)
  <1>0. /\ eng[n] \in Engines /\ ctl[n] \in Controllers /\ ctl \in [Members -> Controllers]
        /\ journal \in [Members -> Records] /\ EngineFits(n, eng[n], ctl[n])
    BY Facts
  <1>1. /\ eng'[n].mode = eng[n].mode /\ eng'[n].used = eng[n].used
        /\ eng'[n].strict = eng[n].strict
    BY AbortEffect
  <1>2. ctl'[n] = IdleAgain(ctl[n])
    BY <1>0 DEF AbortPrepare
  <1>3. ctl'[n].fenced = ctl[n].fenced
    BY <1>0, <1>2, IdleAgainIs
  <1>4. ~ctl[n].fenced
    BY <1>0 DEF EngineFits
  <1>5. journal'[n] = journal[n] \/ journal'[n] = IdleRecord
    BY <1>0 DEF AbortPrepare, Persist, PersistOver
  <1>6. journal'[n] = journal[n] \/ journal'[n].total <= eng[n].used
    BY <1>0, <1>5 DEF IdleRecord, Record, Engines
  <1> QED
    BY <1>1, <1>3, <1>4, <1>6 DEF Quiet

(* A request is accepted: from a reservation only before the decision, by   *)
(* a member no vote binds; from the global counter by its owner.            *)
LEMMA AcceptTallied ==
  ASSUME Handoff, Handoff', Binding, Tallied, NEW n \in Members, NEW d \in Deltas,
         NEW k \in Counters, Accept(n, d, k)
  PROVE  Tallied'
  <1>0. /\ eng \in [Members -> Engines] /\ eng[n] \in Engines /\ d \in Nat /\ k \in Nat
        /\ EngineFits(n, eng[n], ctl[n]) /\ Leader \in Members /\ StrictOwner \in Members
        /\ granted \in Nat /\ Limit \in Nat /\ Reservation[n] \in Nat /\ msgs \subseteq Frames
        /\ StepOf(n) /\ SameElsewhere(n) /\ journal[n] \in Records
    BY Facts, HandoffAmountsAssumption, StepSame DEF StepOf
  <1>1. /\ UNCHANGED <<ctl, journal, up, refused, msgs, clock, restarts, lapsed, forgotten>>
        /\ granted' = granted + d /\ up[n] /\ eng[n].open
    BY DEF Accept
  <1>2. Held' <=> Held
    BY <1>1 DEF Held
  <1>3. CASE /\ eng[n].mode = "ReservedPeak" /\ d <= PeakRoom(n)
             /\ eng' = [eng EXCEPT ![n].used = @ + d, ![n].counter = k]
    <2>1. ~Decided /\ ~ctl[n].fenced /\ (n # Leader => ~Bound(n)) /\ (Held => n # Leader)
      BY <1>1, <1>3, PeakAccepts
    <2>2. eng'[n].used = eng[n].used + d /\ eng'[n].mode = "ReservedPeak"
      <3>1. PICK u \in Nat : u = eng[n].used + d
        BY <1>0 DEF Engines
      <3>2. eng' = [eng EXCEPT ![n] = [eng[n] EXCEPT !.used = u, !.counter = k]]
        BY <1>0, <1>3, <3>1
      <3>3. LET e == [eng[n] EXCEPT !.used = u, !.counter = k]
            IN  e.used = u /\ e.mode = eng[n].mode
        BY <1>0 DEF Engines
      <3> QED
        BY <1>0, <1>3, <3>1, <3>2, <3>3
    <2>3. VotesTrue'
      <3>1. \A f \in msgs' \ msgs : FALSE
        BY <1>1
      <3> QED
        BY <1>0, <1>2, <2>1, <3>1, VotesFrame DEF Tallied
    <2>4. ASSUME Books PROVE Books'
      <3>1. /\ Share(n) = eng[n].used /\ Share(n)' = eng[n].used + d
            /\ eng[n].used \in Nat /\ journal[n].total \in Nat
        BY <1>0, <1>1, <2>1, <2>2 DEF Share, Engines, Records
      <3>2. \A m \in Members \ {n} : Share(m)' = Share(m)
        BY <1>0 DEF Share, SameElsewhere
      <3>3. eng[n].used + d <= Reservation[n]
        BY <1>0, <1>3, <3>1 DEF PeakRoom
      <3>4. RecordFits(n)'
        <4>1. journal[n].phase # "Committed" => journal[n].total <= eng[n].used
          BY <2>4, <3>1 DEF Books, RecordFits
        <4>2. journal[n].phase # "Committed" => journal[n].total <= eng[n].used + d
          BY <1>0, <3>1, <4>1
        <4> QED
          BY <1>1, <2>2, <3>1, <3>3, <4>2 DEF RecordFits
      <3>5. \A m \in Members \ {n} : RecordFits(m)'
        BY <1>0, <2>4, <3>2 DEF Books, RecordFits, SameElsewhere
      <3>6. \A m \in Members : eng[m].mode = "ReservedPeak" /\ eng'[m].mode = "ReservedPeak"
        BY <1>0, <2>1, <2>2 DEF Decided, SameElsewhere
      <3>7. SumTo(Shares', N) = SumTo(Shares, N) + d
        <4>1. /\ \A i \in 0..(N - 1) : Shares[i] \in Nat /\ Shares[i] = Share(i)
              /\ SumTo(Shares, N) \in Nat /\ N \in Nat /\ Members = 0..(N - 1)
          BY SharesNat
        <4>2. \A m \in Members : Shares'[m] = Share(m)'
          BY DEF Shares
        <4>3. /\ \A i \in 0..(N - 1) : Shares[i] \in Int
              /\ \A i \in 0..(N - 1) : i # n => Shares'[i] = Shares[i]
              /\ n \in 0..(N - 1) /\ Shares'[n] = Shares[n] + d /\ Shares[n] \in Nat
          BY <3>1, <3>2, <4>1, <4>2
        <4>4. Shares'[n] \in Int
          BY <1>0, <4>3
        <4>5. SumTo(Shares', N) = SumTo(Shares, N) + (Shares'[n] - Shares[n])
          BY <4>1, <4>3, <4>4, SumToChange
        <4>6. Shares'[n] - Shares[n] = d
          BY <1>0, <4>3
        <4> QED
          BY <4>5, <4>6
      <3>8. granted = SumTo(Shares, N)
        BY <1>0, <2>4, <3>6 DEF Books, Accounted, Shares
      <3>9. Accounted' = SumTo(Shares', N)
        BY <1>0, <3>6 DEF Accounted, Shares
      <3>10. granted' = Accounted'
        BY <1>1, <3>7, <3>8, <3>9
      <3> QED
        BY <3>4, <3>5, <3>10 DEF Books
    <2> QED
      BY <1>1, <2>3, <2>4 DEF Tallied
  <1>4. CASE /\ eng[n].mode = "DangerStrict"
             /\ eng' = [eng EXCEPT ![n].strict = @ + d, ![n].counter = k]
    <2>1. n = StrictOwner
      BY <1>0, <1>4 DEF EngineFits, StrictMode
    <2>2. /\ eng'[n].used = eng[n].used /\ eng'[n].strict = eng[n].strict + d
          /\ eng'[n].mode = "DangerStrict"
      <3>1. PICK u \in Nat : u = eng[n].strict + d
        BY <1>0 DEF Engines
      <3>2. eng' = [eng EXCEPT ![n] = [eng[n] EXCEPT !.strict = u, !.counter = k]]
        BY <1>0, <1>4, <3>1
      <3>3. LET e == [eng[n] EXCEPT !.strict = u, !.counter = k]
            IN  e.used = eng[n].used /\ e.strict = u /\ e.mode = eng[n].mode
        BY <1>0 DEF Engines
      <3> QED
        BY <1>0, <1>4, <3>1, <3>2, <3>3
    <2>3. VotesTrue'
      <3>1. \A f \in msgs' \ msgs : FALSE
        BY <1>1
      <3>2. \A v \in Nat : VoteFits(eng'[n], ctl'[n], journal'[n], v)
        BY <2>2 DEF VoteFits
      <3> QED
        BY <1>0, <1>1, <1>2, <3>1, <3>2, VotesFrame DEF Tallied
    <2>4. ASSUME Books PROVE Books'
      <3>1. \A m \in Members : Share(m)' = Share(m)
        BY <1>0, <1>1, <2>2 DEF Share, SameElsewhere
      <3>2. RecordFits(n)'
        <4>1. journal[n].total <= eng[n].strict
          BY <1>4, <2>4 DEF Books, RecordFits
        <4>2. journal[n].total <= eng[n].strict + d
          BY <1>0, <4>1 DEF Engines, Records
        <4> QED
          BY <1>1, <2>2, <2>4, <3>1, <4>2 DEF Books, RecordFits
      <3>3. \A m \in Members \ {n} : RecordFits(m)'
        BY <1>0, <2>4, <3>1 DEF Books, RecordFits, SameElsewhere
      <3>4. granted' = Accounted'
        BY <1>1, <1>4, <2>1, <2>2, <2>4 DEF Books, Accounted
      <3> QED
        BY <3>2, <3>3, <3>4 DEF Books
    <2> QED
      BY <1>1, <2>3, <2>4 DEF Tallied
  <1> QED
    BY <1>3, <1>4 DEF Accept

(* A process starts: unless it forgets grants, it answers for exactly what  *)
(* it answered for before.                                                  *)
LEMMA StartTallied ==
  ASSUME Handoff, Handoff', Binding, Tallied, NEW n \in Members, Start(n)
  PROVE  Tallied'
  <1>0. /\ eng \in [Members -> Engines] /\ ctl \in [Members -> Controllers]
        /\ eng[n] \in Engines /\ ctl[n] \in Controllers /\ journal[n] \in Records
        /\ EngineFits(n, eng[n], ctl[n]) /\ JournalFits(n, eng[n], ctl[n], journal[n])
        /\ TermFits(n, eng[n], ctl[n], clock)
        /\ Leader \in Members /\ StrictOwner \in Members
        /\ StepOf(n) /\ SameElsewhere(n) /\ Reservation[n] \in Nat
        /\ journal[n].phase = "Committed" => n = Leader \/ Adopted(journal[n])
    BY Facts, StepSame DEF StepOf
  <1>1. /\ ~up[n] /\ UNCHANGED <<journal, msgs, granted>>
    BY DEF Start
  <1>2. CASE UNCHANGED <<eng, ctl, up, forgotten>>
    <2>1. VotesTrue'
      BY <1>1, <1>2 DEF Tallied, VotesTrue, VoteTrue, Held
    <2>2. Quiet(n)
      BY <1>1, <1>2 DEF Quiet
    <2> QED
      BY <1>0, <1>2, <2>1, <2>2, QuietBooks DEF Tallied
  <1>3. CASE /\ eng' = [eng EXCEPT ![n] = Recovered(n, journal[n]).engine]
             /\ ctl' = [ctl EXCEPT ![n] = Recovered(n, journal[n]).controller]
             /\ forgotten' = (forgotten \/ Forgets(n))
    <2>1. /\ eng'[n] = Recovered(n, journal[n]).engine
          /\ ctl'[n] = Recovered(n, journal[n]).controller
      BY <1>0, <1>3
    <2>2. /\ eng'[n].used = 0 /\ ctl'[n].state = "Idle"
          /\ journal[n].phase = "Prepared" =>
               eng'[n].mode = "ReservedPeak" /\ ctl'[n].fenced = TRUE
          /\ journal[n].phase = "Committed" =>
               /\ eng'[n].mode = StrictMode(n) /\ eng'[n].strict = journal[n].total
               /\ ctl'[n].fenced = FALSE
          /\ journal[n].phase = "Idle" =>
               eng'[n].mode = "ReservedPeak" /\ ctl'[n].fenced = FALSE
      BY <2>1, RecoveredIs
    <2>3. /\ journal[n].phase \in {"Idle", "Prepared", "Committed"}
          /\ journal[n].total \in Nat /\ StrictMode(n) # "ReservedPeak"
          /\ eng[n].used \in Nat /\ eng[n].strict \in Nat
      BY <1>0 DEF Records, Phases, StrictMode, Engines
    <2>4. VotesTrue'
      <3>1. \A f \in msgs' \ msgs : FALSE
        BY <1>1
      <3>2. n = Leader => ~Held'
        BY <2>2 DEF Held
      <3>3. Bound(n) => \A v \in Nat :
               VoteTrue(n, v) => VoteFits(eng'[n], ctl'[n], journal'[n], v)
        <4>1. eng[n].mode # "ReservedPeak" => journal[n].phase = "Committed"
          BY <1>0 DEF JournalFits
        <4> QED
          BY <1>1, <2>2, <2>3, <4>1 DEF Bound, VoteTrue, VoteFits
      <3> QED
        BY <1>0, <3>1, <3>2, <3>3, VotesFrame DEF Tallied
    <2>5. ASSUME Books, ~Forgets(n) PROVE Books'
      <3>0. RecordFits(n)
        BY <2>5 DEF Books
      <3>1. Share(n) \in Nat
        BY <2>3 DEF Share
      <3>2. \A m \in Members \ {n} : Share(m)' = Share(m)
        BY <1>0 DEF Share, SameElsewhere
      <3>3. \A m \in Members \ {n} : RecordFits(m)'
        BY <1>0, <2>5, <3>2 DEF Books, RecordFits, SameElsewhere
      <3>4. CASE journal[n].phase # "Committed"
        <4>1. eng[n].mode = "ReservedPeak" /\ eng'[n].mode = "ReservedPeak"
          BY <1>0, <2>2, <2>3, <3>4 DEF JournalFits
        <4>2. journal[n].total = Share(n)
          BY <2>3, <2>5, <3>0, <3>1, <3>4, <4>1 DEF Forgets, Load, RecordFits
        <4>3. journal[n].phase = "Idle" => journal[n].total = 0
          BY <1>0, <2>5 DEF JournalFits
        <4>4. Share(n)' = Share(n)
          BY <1>1, <2>2, <2>3, <3>4, <4>2, <4>3 DEF Share
        <4>5. RecordFits(n)'
          BY <1>1, <3>0, <4>1, <4>4 DEF RecordFits
        <4>6. Accounted' = Accounted
          <5>1. Shares' = Shares
            BY <3>2, <4>4 DEF Shares
          <5>2. \A m \in Members : eng'[m].mode = eng[m].mode
            BY <1>0, <4>1 DEF SameElsewhere
          <5>3. eng[StrictOwner].mode = "DangerStrict" =>
                   eng'[StrictOwner].strict = eng[StrictOwner].strict
            BY <1>0, <4>1 DEF SameElsewhere
          <5> QED
            BY <1>0, <1>1, <5>1, <5>2, <5>3 DEF Accounted, Shares
        <4> QED
          BY <1>1, <2>5, <3>3, <4>5, <4>6 DEF Books
      <3>5. CASE journal[n].phase = "Committed"
        <4>1. RecordFits(n)'
          <5>1. Share(n)' = 0
            BY <2>2, <3>5 DEF Share
          <5>2. eng'[n].strict = journal'[n].total /\ journal'[n].total <= eng'[n].strict
            BY <1>1, <2>2, <2>3, <3>5
          <5> QED
            BY <1>0, <1>1, <3>5, <5>1, <5>2 DEF RecordFits
        <4>2. n = Leader => eng[n].mode # "ReservedPeak"
          BY <1>0, <1>1, <3>5 DEF JournalFits, Binding, LeaderStays, TermFits, FollowerStates
        <4>3. eng[Leader].mode # "ReservedPeak" /\ eng'[Leader].mode # "ReservedPeak"
          BY <1>0, <2>2, <2>3, <3>5, <4>2 DEF Adopted, SameElsewhere
        <4>4. Accounted' = Accounted
          <5>1. CASE n # StrictOwner
            BY <1>0, <1>1, <4>3, <5>1 DEF Accounted, SameElsewhere
          <5>2. CASE n = StrictOwner
            <6>1. eng'[n].mode = "DangerStrict" /\ eng'[n].strict = journal[n].total
              BY <2>2, <3>5, <5>2 DEF StrictMode
            <6>2. CASE eng[n].mode # "ReservedPeak"
              <7>1. eng[n].mode = "DangerStrict"
                BY <1>0, <5>2, <6>2 DEF EngineFits, StrictMode
              <7>2. journal[n].total = eng[n].strict
                BY <2>3, <2>5, <3>0, <6>2 DEF Forgets, Load, RecordFits
              <7> QED
                BY <5>2, <6>1, <7>1, <7>2 DEF Accounted
            <6>3. CASE eng[n].mode = "ReservedPeak"
              <7>1. journal[n] = journal[Leader]
                BY <1>0, <3>5, <4>2, <6>3 DEF Adopted
              <7> QED
                BY <4>3, <5>2, <6>1, <6>3, <7>1 DEF Accounted
            <6> QED
              BY <6>2, <6>3
          <5> QED
            BY <5>1, <5>2
        <4> QED
          BY <1>1, <2>5, <3>3, <4>1, <4>4 DEF Books
      <3> QED
        BY <3>4, <3>5
    <2>6. forgotten' \/ Books'
      <3>1. CASE forgotten \/ Forgets(n)
        BY <1>3, <3>1, Zenon
      <3>2. CASE ~forgotten /\ ~Forgets(n)
        BY <2>5, <3>2 DEF Tallied
      <3> QED
        BY <3>1, <3>2
    <2> QED
      BY <2>4, <2>6 DEF Tallied
  <1> QED
    BY <1>2, <1>3 DEF Start, Load

LEMMA FollowerTallied ==
  ASSUME Handoff, Handoff', Binding, Tallied, NEW n \in Members, n # Leader, StepOf(n),
         ~lapsed'
  PROVE  Tallied'
  <1>0. /\ eng \in [Members -> Engines] /\ ctl \in [Members -> Controllers]
        /\ journal \in [Members -> Records] /\ up \in [Members -> BOOLEAN]
        /\ eng[n] \in Engines /\ ctl[n] \in Controllers /\ journal[n] \in Records
        /\ TermFits(n, eng[n], ctl[n], clock) /\ EngineFits(n, eng[n], ctl[n])
        /\ JournalFits(n, eng[n], ctl[n], journal[n]) /\ clock \in Nat /\ Leader \in Members
        /\ SameElsewhere(n) /\ msgs \subseteq Frames /\ StrictOwner \in Members
    BY StepSame, Facts
  <1>1. ctl[n].state \notin LeaderStates
    BY <1>0 DEF TermFits
  <1> DEFINE Sent == \A f \in msgs' \ msgs : f.type = "Prepared" =>
                        /\ f.from = n /\ ctl'[n].state = "FollowerPrepared"
                        /\ f.value = ctl'[n].prepared[n].total
  <1>2. ASSUME UNCHANGED <<eng, ctl, journal, granted, forgotten>>, Sent
        PROVE  Tallied'
    <2>1. Quiet(n)
      BY <1>2 DEF Quiet
    <2> QED
      BY <1>2, <2>1, QuietFollower
  <1>3. ASSUME AbortPrepare(n, FALSE), ctl[n].state = "FollowerPrepared",
               UNCHANGED <<granted, forgotten>>, ~(Held /\ Bound(n))
        PROVE  Tallied'
    <2>1. Quiet(n) /\ msgs' = msgs
      BY <1>3, AbortQuiet, AbortEffect
    <2> QED
      BY <1>3, <2>1, QuietFollower
  <1>4. CASE TickTrigger(n)
    <2>1. /\ msgs' = msgs \cup {Frame("Trigger", n, Leader, 0, 0, 0)}
          /\ UNCHANGED <<eng, ctl, journal, granted, forgotten>>
      BY <1>4 DEF TickTrigger, BeginLeaderPrepare
    <2>2. Sent
      BY <2>1 DEF Frame
    <2> QED
      BY <1>2, <2>1, <2>2
  <1>5. CASE FollowerTimeout(n)
    <2>1. ~(Held /\ Bound(n))
      <3>1. ~LeaderHolds(n)
        BY <1>5 DEF FollowerTimeout
      <3> QED
        BY <1>5, <3>1, HeldVote DEF FollowerTimeout, FollowerStates
    <2> QED
      BY <1>3, <1>5, <2>1 DEF FollowerTimeout
  <1>6. CASE SendPrepared(n)
    <2>1. UNCHANGED <<eng, ctl, journal, granted, forgotten>>
      BY <1>6 DEF SendPrepared
    <2>2. Sent
      BY <1>6, <2>1 DEF SendPrepared, PreparedFrame, Frame
    <2> QED
      BY <1>2, <2>1, <2>2
  <1>7. CASE LeaderTimeout(n) \/ SendPrepare(n) \/ SendCommit(n)
    BY <1>1, <1>7 DEF LeaderTimeout, SendPrepare, SendCommit, LeaderStates
  <1>8. CASE Crash(n)
    BY <1>2, <1>8 DEF Crash
  <1>9. CASE Stop(n)
    <2>0. up[n] /\ UNCHANGED <<granted, forgotten>>
      BY <1>9 DEF Stop, Ends
    <2>1. CASE UNCHANGED <<eng, ctl, journal, msgs>>
      BY <1>2, <2>0, <2>1
    <2>2. CASE /\ ctl[n].state \in {"LeaderPreparing", "FollowerPrepared"}
               /\ AbortPrepare(n, FALSE)
      <3>1. ~OwesVote(n) /\ ctl[n].state = "FollowerPrepared"
        BY <1>1, <1>9, <2>2 DEF Stop, LeaderStates
      <3>2. ~(Held /\ Bound(n))
        BY <2>0, <3>1, HeldVote DEF OwesVote, FollowerStates
      <3> QED
        BY <1>3, <2>0, <2>2, <3>1, <3>2
    <2> QED
      BY <1>9, <2>1, <2>2 DEF Stop
  <1>10. ASSUME NEW f \in msgs, HandlePrepare(n, f)
         PROVE  Tallied'
    <2>0. /\ FrameOK(f) /\ f.term \in Nat /\ f.term <= clock /\ up[n]
          /\ ~ctl[n].fenced /\ UNCHANGED <<granted, forgotten>>
      BY <1>0, <1>10 DEF HandlePrepare, Receives, Handoff, FrameOK, Frames
    <2>1. CASE /\ ctl[n].state = "FollowerPrepared" /\ f.term = ctl[n].term
               /\ msgs' = msgs \cup {PreparedFrame(n, f.term, ctl[n].prepared[n])}
               /\ UNCHANGED <<eng, ctl, journal>>
      BY <1>2, <2>0, <2>1 DEF PreparedFrame, Frame
    <2> DEFINE idle == Aborted(eng[n])
               old  == IF ctl[n].state = "Idle" THEN {journal[n]}
                       ELSE {journal[n], IdleRecord}
               rec  == Record("Prepared", f.term, idle.counter, idle.used)
               votes == [NoVotes EXCEPT ![n] = Vote(idle)]
    <2>2. ASSUME CanBegin(idle), ~(ctl[n].state = "FollowerPrepared" /\ f.term = ctl[n].term),
                 NEW ok, PersistOver(n, old, rec, ok),
                 IF ok
                 THEN /\ eng' = [eng EXCEPT ![n] = Begun(idle)]
                      /\ ctl' = [ctl EXCEPT
                            ![n].state = "FollowerPrepared", ![n].term = f.term,
                            ![n].prepared = votes]
                      /\ msgs' = msgs \cup {PreparedFrame(n, f.term, Vote(idle))}
                 ELSE /\ eng' = [eng EXCEPT ![n] = idle]
                      /\ ctl' = [ctl EXCEPT ![n] =
                            IF @.state = "Idle" THEN [@ EXCEPT !.term = 0] ELSE IdleAgain(@)]
                      /\ UNCHANGED msgs
          PROVE  Tallied'
      <3>1. /\ idle \in Engines /\ idle.mode = eng[n].mode /\ eng[n].mode = "ReservedPeak"
            /\ idle.used = eng[n].used /\ idle.strict = eng[n].strict
        <4>1. /\ idle \in Engines /\ idle.mode = eng[n].mode
              /\ idle.used = eng[n].used /\ idle.strict = eng[n].strict
          BY <1>0, AbortedIs
        <4> HIDE DEF idle
        <4> QED
          BY <2>2, <4>1 DEF CanBegin
      <3>2. votes[n].total = idle.used
        BY <3>1, OwnVote
      <3>3. \A j \in old \cup {rec} : j = journal[n] \/ j.total <= eng[n].used
        <4>1. IdleRecord.total = 0 /\ rec.total = eng[n].used /\ eng[n].used \in Nat
          BY <1>0, <3>1 DEF IdleRecord, Record, Engines
        <4> HIDE DEF rec
        <4> QED
          BY <4>1
      <3> HIDE DEF idle, old, rec, votes
      <3>4. journal'[n] = journal[n] \/ journal'[n].total <= eng[n].used
        <4>1. PICK j \in old \cup {rec} : journal' = [journal EXCEPT ![n] = j]
          BY <2>2, Zenon DEF PersistOver
        <4> QED
          BY <1>0, <3>3, <4>1
      <3>5. /\ Begun(idle).mode = eng[n].mode /\ Begun(idle).used = eng[n].used
            /\ Begun(idle).strict = eng[n].strict
        BY <3>1, BegunIs
      <3>6. /\ eng'[n].mode = eng[n].mode /\ eng'[n].used = eng[n].used
            /\ eng'[n].strict = eng[n].strict
        BY <1>0, <2>2, <3>1, <3>5
      <3>7. ctl'[n].fenced = ctl[n].fenced
        <4>1. IdleAgain(ctl[n]).fenced = ctl[n].fenced
          BY <1>0, IdleAgainIs
        <4>2. CASE ok
          BY <1>0, <2>2, <4>2 DEF Controllers
        <4>3. CASE ~ok
          BY <1>0, <2>2, <4>1, <4>3 DEF Controllers
        <4> QED
          BY <4>2, <4>3
      <3>8. Sent
        <4>1. CASE ok
          <5>1. ctl'[n].state = "FollowerPrepared" /\ ctl'[n].prepared = votes
            BY <1>0, <2>2, <4>1 DEF Controllers
          <5>2. msgs' = msgs \cup {PreparedFrame(n, f.term, Vote(idle))}
            BY <2>2, <4>1
          <5> QED
            BY <3>2, <5>1, <5>2 DEF PreparedFrame, Frame, Vote
        <4>2. CASE ~ok
          BY <2>2, <4>2
        <4> QED
          BY <4>1, <4>2
      <3>9. ~(Held /\ Bound(n))
        <4>1. SUFFICES ASSUME Held, Bound(n) PROVE FALSE
          OBVIOUS
        <4>2. /\ ctl[n].state = "FollowerPrepared" /\ ctl[n].term = ctl[Leader].term
              /\ f.term >= ctl[n].term
          BY <1>10, <2>0, <3>1, <4>1 DEF Bound, FollowerStates, HandlePrepare, Acceptable
        <4>3. ctl[Leader].term = clock
          BY <1>0, <4>1, Facts DEF Held, TermFits, LeaderStates
        <4> QED
          BY <1>0, <2>0, <2>2, <4>2, <4>3
      <3>10. Quiet(n)
        BY <2>0, <3>4, <3>6, <3>7 DEF Quiet
      <3> QED
        BY <3>8, <3>9, <3>10, QuietFollower
    <2> QED
      BY <1>10, <2>1, <2>2 DEF HandlePrepare
  <1>11. ASSUME NEW f \in msgs, HandleAbort(n, f)
         PROVE  Tallied'
    <2>1. ~(Held /\ Bound(n))
      <3>1. SUFFICES ASSUME Held, Bound(n) PROVE FALSE
        OBVIOUS
      <3>2. ctl[n].term = ctl[Leader].term
        BY <1>11, <3>1, HeldVote DEF HandleAbort, Receives, FollowerStates
      <3> QED
        BY <1>11, <3>1, <3>2 DEF HandleAbort, Receives, Handoff, FrameOK, Held, LeaderStates
    <2> QED
      BY <1>3, <1>11, <2>1 DEF HandleAbort
  <1>12. ASSUME NEW f \in msgs, HandleCommit(n, f)
         PROVE  Tallied'
    <2>0. /\ FrameOK(f) /\ f.value \in Nat /\ f.type = "Commit" /\ ~ctl[n].fenced
          /\ UNCHANGED <<granted, forgotten>> /\ eng[Leader].mode # "ReservedPeak"
          /\ journal[Leader].total = f.value
      BY <1>0, <1>12 DEF HandleCommit, Receives, Handoff, Frames, FrameOK, Record
    <2>1. Sent
      BY <1>12 DEF HandleCommit, CommitAckFrame, Frame
    <2>2. CASE UNCHANGED <<ctl, journal, eng>>
      BY <1>2, <2>0, <2>1, <2>2
    <2>3. ASSUME NEW ok, Persist(n, Record("Committed", f.term, f.counter, f.value), ok)
          PROVE  journal'[n] = journal[n] \/ journal'[n].phase = "Committed"
      <3>1. PICK j \in {journal[n], Record("Committed", f.term, f.counter, f.value)} :
               journal' = [journal EXCEPT ![n] = j]
        BY <2>3, Zenon DEF Persist, PersistOver
      <3> QED
        BY <1>0, <3>1 DEF Record
    <2>4. CASE /\ ctl' = [ctl EXCEPT ![n].state = "FollowerCommitting"] /\ UNCHANGED eng
               /\ journal'[n] = journal[n] \/ journal'[n].phase = "Committed"
      <3>1. ctl'[n].fenced = ctl[n].fenced
        BY <1>0, <2>4 DEF Controllers
      <3>2. Quiet(n)
        BY <2>0, <2>4, <3>1 DEF Quiet
      <3> QED
        BY <2>1, <2>4, <3>2, QuietFollower
    <2>5. CASE /\ ctl[n].state \in FollowerStates
               /\ eng' = [eng EXCEPT ![n] = Committed(@, n, f.value)]
               /\ ctl' = [ctl EXCEPT ![n].state = "Idle", ![n].term = 0, ![n].last = f.term]
      <3>1. /\ eng'[n].used = eng[n].used /\ eng'[n].strict = f.value
            /\ eng'[n].mode = StrictMode(n) /\ ctl'[n].fenced = ctl[n].fenced
            /\ StrictMode(n) # "ReservedPeak" /\ eng[n].mode = "ReservedPeak"
        <4>1. eng'[n] = Committed(eng[n], n, f.value)
          BY <1>0, <2>5
        <4>2. eng[n].mode = "ReservedPeak"
          BY <1>0, <2>5 DEF EngineFits, ClosedStates
        <4> QED
          BY <1>0, <2>5, <4>1, <4>2 DEF Committed, Engines, StrictMode, Controllers
      <3>2. VotesTrue'
        <4>1. \A v \in Nat : VoteFits(eng'[n], ctl'[n], journal'[n], v)
          BY <3>1 DEF VoteFits
        <4> QED
          BY <2>1, <4>1, VotesFrame DEF Tallied
      <3>3. ASSUME Books PROVE Books'
        <4>1. \A m \in Members : Share(m)' = Share(m)
          BY <1>0, <2>0, <3>1 DEF Share, SameElsewhere
        <4>2. journal'[n].phase = "Committed" /\ journal'[n] = journal'[Leader]
          BY <1>0, <3>1 DEF Handoff, JournalOK, JournalFits, LeaderOK, Adopted
        <4>3. journal'[n].total = f.value /\ journal'[n].total <= f.value
          BY <1>0, <2>0, <4>2 DEF SameElsewhere
        <4>4. RecordFits(n)'
          BY <3>1, <3>3, <4>1, <4>2, <4>3 DEF Books, RecordFits
        <4>5. \A m \in Members \ {n} : RecordFits(m)'
          BY <1>0, <3>3, <4>1 DEF Books, RecordFits, SameElsewhere
        <4>6. Accounted' = Accounted
          <5>1. CASE n # StrictOwner
            BY <1>0, <2>0, <5>1 DEF Accounted, SameElsewhere
          <5>2. CASE n = StrictOwner
            BY <2>0, <3>1, <5>2 DEF Accounted, StrictMode
          <5> QED
            BY <5>1, <5>2
        <4> QED
          BY <2>0, <3>3, <4>4, <4>5, <4>6 DEF Books
      <3> QED
        BY <2>0, <3>2, <3>3 DEF Tallied
    <2> HIDE DEF Sent
    <2> QED
      BY <1>12, <2>2, <2>3, <2>4, <2>5 DEF HandleCommit, FollowerStates
  <1>13. CASE \E d \in Deltas, k \in Counters : Accept(n, d, k)
    BY <1>13, AcceptTallied
  <1>14. CASE Start(n)
    BY <1>14, StartTallied
  <1> HIDE DEF Sent
  <1> QED
    BY <1>4, <1>5, <1>6, <1>7, <1>8, <1>9, <1>10, <1>11, <1>12, <1>13, <1>14
       DEF StepOf, Tick, Handle, HandleTrigger, BeginLeaderPrepare, HandlePrepared,
           HandleCommitAck

(* A quiet step of the leader: it works on the same term and counts only    *)
(* votes that are true, or it starts a term, or it works on none.           *)
LEMMA QuietLeader ==
  ASSUME Handoff, Handoff', Binding, Tallied, StepOf(Leader), Quiet(Leader),
         \A f \in msgs' \ msgs : f.type # "Prepared",
         Held' => \/ /\ Held /\ ctl'[Leader].term = ctl[Leader].term
                     /\ \A m \in Members \ {Leader} : ctl'[Leader].prepared[m] # NoVote =>
                           \/ ctl'[Leader].prepared[m] = ctl[Leader].prepared[m]
                           \/ VoteTrue(m, ctl'[Leader].prepared[m].total)
                  \/ /\ \A f \in msgs' : f.term # ctl'[Leader].term
                     /\ \A m \in Members \ {Leader} : ctl'[Leader].prepared[m] = NoVote
  PROVE  Tallied'
  <1>1. VotesTrue'
    BY VotesFrame, MembersAssumption DEF Tallied
  <1>2. forgotten' \/ Books'
    BY QuietBooks, MembersAssumption DEF Tallied, Quiet
  <1> QED
    BY <1>1, <1>2 DEF Tallied

(* True votes of all members in peak mode add up to their shares. *)
LEMMA VotesAddUp ==
  ASSUME NEW votes, \A m \in Members : votes[m].total = Share(m)
  PROVE  VotedTotal(votes) = SumTo(Shares, N)
  <1> DEFINE t == [m \in Members |-> votes[m].total]
  <1>1. \A i \in 0..(N - 1) : t[i] = Shares[i]
    BY DEF Members, Shares
  <1>2. SumTo(t, N) = SumTo(Shares, N)
    BY <1>1, MembersAssumption, SumToEqual
  <1> QED
    BY <1>2 DEF VotedTotal

(* The leader starts a prepare: nobody has voted for the new term yet. *)
LEMMA BeginTallied ==
  ASSUME Handoff, Handoff', Binding, Tallied, StepOf(Leader), BeginLeaderPrepare(Leader),
         ~ctl[Leader].fenced, UNCHANGED <<msgs, granted, forgotten>>
  PROVE  Tallied'
  <1>0. /\ eng \in [Members -> Engines] /\ ctl \in [Members -> Controllers]
        /\ eng[Leader] \in Engines /\ ctl[Leader] \in Controllers
        /\ journal \in [Members -> Records]
        /\ clock \in Nat /\ Leader \in Members /\ msgs \subseteq Frames
    BY MembersAssumption, Facts
  <1>1. NewTerm(Leader) = clock + 1 /\ ctl[Leader].state = "Idle"
    BY NewTermIsNext DEF BeginLeaderPrepare, CanBegin
  <1> DEFINE votes == [NoVotes EXCEPT ![Leader] = Vote(eng[Leader])]
             rec == Record("Prepared", clock + 1, eng[Leader].counter, eng[Leader].used)
  <1>2. PICK ok \in BOOLEAN :
          /\ Persist(Leader, rec, ok)
          /\ IF ok
             THEN /\ eng' = [eng EXCEPT ![Leader] = Begun(@)]
                  /\ ctl' = [ctl EXCEPT
                        ![Leader].state = "LeaderPreparing", ![Leader].term = clock + 1,
                        ![Leader].prepared = votes]
             ELSE /\ eng' = [eng EXCEPT ![Leader] = Aborted(Begun(@))]
                  /\ ctl' = [ctl EXCEPT ![Leader].term = 0]
    BY <1>1 DEF BeginLeaderPrepare, PersistOutcomes
  <1>3. /\ eng'[Leader].mode = eng[Leader].mode /\ eng'[Leader].used = eng[Leader].used
        /\ eng'[Leader].strict = eng[Leader].strict
    <2>1. /\ Begun(eng[Leader]) \in Engines /\ Begun(eng[Leader]).mode = eng[Leader].mode
          /\ Begun(eng[Leader]).used = eng[Leader].used
          /\ Begun(eng[Leader]).strict = eng[Leader].strict
      BY <1>0, BegunIs
    <2>2. LET a == Aborted(Begun(eng[Leader]))
          IN  /\ a.mode = eng[Leader].mode /\ a.used = eng[Leader].used
              /\ a.strict = eng[Leader].strict
      BY <2>1, AbortedIs
    <2> QED
      BY <1>0, <1>2, <2>1, <2>2
  <1>4. \A m \in Members \ {Leader} : votes[m] = NoVote
    BY <1>0, OwnVote
  <1>5. journal'[Leader] = journal[Leader] \/ journal'[Leader].total <= eng[Leader].used
    <2>1. rec.total = eng[Leader].used /\ eng[Leader].used \in Nat
      BY <1>0 DEF Record, Engines
    <2> HIDE DEF rec
    <2>2. PICK j \in {journal[Leader], rec} : journal' = [journal EXCEPT ![Leader] = j]
      BY <1>2, Zenon DEF Persist, PersistOver
    <2> QED
      BY <1>0, <2>1, <2>2
  <1> HIDE DEF votes, rec
  <1>6. /\ ctl'[Leader].state \in {"Idle", "LeaderPreparing"}
        /\ ctl'[Leader].fenced = ctl[Leader].fenced
        /\ ctl'[Leader].state = "LeaderPreparing" =>
              ctl'[Leader].term = clock + 1 /\ ctl'[Leader].prepared = votes
    <2>1. CASE ok
      BY <1>0, <1>2, <2>1 DEF Controllers
    <2>2. CASE ~ok
      BY <1>0, <1>1, <1>2, <2>2 DEF Controllers
    <2> QED
      BY <2>1, <2>2
  <1>7. Held' => ctl'[Leader].state = "LeaderPreparing"
    BY <1>6 DEF Held
  <1>8. Held' => \A f \in msgs' : f.term # ctl'[Leader].term
    <2>1. \A f \in msgs : f.term \in Nat /\ f.term <= clock
      BY <1>0 DEF Handoff, FrameOK, Frames
    <2> QED
      BY <1>0, <1>6, <1>7, <2>1
  <1>9. Quiet(Leader)
    BY <1>3, <1>5, <1>6 DEF Quiet
  <1> QED
    BY <1>4, <1>6, <1>7, <1>8, <1>9, QuietLeader

(* The leader counts a vote, and decides when it has the last one: the      *)
(* total it commits is what all members answer for.                         *)
LEMMA PreparedTallied ==
  ASSUME Handoff, Handoff', Binding, Tallied, NEW f \in msgs, HandlePrepared(Leader, f)
  PROVE  Tallied'
  <1>0. /\ eng \in [Members -> Engines] /\ ctl \in [Members -> Controllers]
        /\ eng[Leader] \in Engines /\ ctl[Leader] \in Controllers /\ Leader \in Members
        /\ journal \in [Members -> Records] /\ StrictOwner \in Members
        /\ EngineFits(Leader, eng[Leader], ctl[Leader]) /\ msgs \subseteq Frames
        /\ JournalFits(Leader, eng[Leader], ctl[Leader], journal[Leader])
    BY MembersAssumption, Facts
  <1>1. /\ ctl[Leader].state = "LeaderPreparing" /\ UNCHANGED <<granted, forgotten>>
        /\ f.type = "Prepared" /\ f.term = ctl[Leader].term /\ Held
        /\ f.from \in Members /\ StepOf(Leader)
    BY <1>0 DEF HandlePrepared, Receives, Held, Frames, StepOf, Handle
  <1>2. SameElsewhere(Leader)
    BY <1>0, <1>1, StepSame
  <1> DEFINE vote == [counter |-> f.counter, total |-> f.value]
             votes == [ctl[Leader].prepared EXCEPT ![f.from] = vote]
  <1>3. \A m \in Members : votes[m] # NoVote => VoteTrue(m, votes[m].total)
    <2>1. VoteTrue(f.from, vote.total)
      BY <1>1 DEF Tallied, VotesTrue
    <2>2. \A m \in Members : ctl[Leader].prepared[m] # NoVote =>
             VoteTrue(m, ctl[Leader].prepared[m].total)
      BY <1>1 DEF Tallied, VotesTrue
    <2>3. ctl[Leader].prepared \in [Members -> Votes]
      BY <1>0 DEF Controllers
    <2> HIDE DEF vote
    <2> QED
      BY <1>1, <2>1, <2>2, <2>3
  <1>4. \/ /\ ctl' = [ctl EXCEPT ![Leader].prepared = votes]
           /\ UNCHANGED <<eng, journal, msgs>>
        \/ AbortPrepare(Leader, TRUE)
        \/ AllPrepared(votes) /\ BeginCommit(Leader, votes) /\ UNCHANGED msgs
    BY DEF HandlePrepared
  <1> HIDE DEF votes
  <1>5. CASE /\ ctl' = [ctl EXCEPT ![Leader].prepared = votes]
             /\ UNCHANGED <<eng, journal, msgs>>
    <2>1. /\ ctl'[Leader].term = ctl[Leader].term
          /\ ctl'[Leader].prepared = votes /\ ctl'[Leader].fenced = ctl[Leader].fenced
      BY <1>0, <1>1, <1>5 DEF Controllers
    <2>2. Quiet(Leader)
      BY <1>1, <1>5, <2>1 DEF Quiet
    <2> QED
      BY <1>1, <1>3, <1>5, <2>1, <2>2, QuietLeader
  <1>6. CASE AbortPrepare(Leader, TRUE)
    <2>1. /\ ctl'[Leader].state = "Idle" /\ Quiet(Leader)
          /\ \A g \in msgs' \ msgs : g.type = "Abort"
      BY <1>0, <1>1, <1>6, AbortEffect, AbortQuiet
    <2>2. ~Held'
      BY <2>1 DEF Held
    <2> QED
      BY <1>1, <2>1, <2>2, QuietLeader
  <1>7. CASE AllPrepared(votes) /\ BeginCommit(Leader, votes) /\ UNCHANGED msgs
    <2>0. ~ctl[Leader].fenced /\ eng[Leader].mode = "ReservedPeak"
      BY <1>0, <1>1 DEF EngineFits, ClosedStates
    <2>1. PICK ok \in BOOLEAN :
             /\ Persist(Leader, Record("Committed", ctl[Leader].term, votes[Leader].counter,
                                       VotedTotal(votes)), ok)
             /\ IF ok
                THEN /\ eng' = [eng EXCEPT ![Leader] =
                                   Committed(@, Leader, VotedTotal(votes))]
                     /\ ctl' = [ctl EXCEPT
                           ![Leader].state = "LeaderCommitting", ![Leader].prepared = votes,
                           ![Leader].acks = {Leader}, ![Leader].total = VotedTotal(votes),
                           ![Leader].counter = votes[Leader].counter]
                ELSE /\ ctl' = [ctl EXCEPT ![Leader].state = "LeaderCommitBlocked",
                                           ![Leader].prepared = votes]
                     /\ UNCHANGED eng
      BY <1>7 DEF BeginCommit, PersistOutcomes
    <2>2. CASE ok
      <3>1. /\ ctl'[Leader].state = "LeaderCommitting"
            /\ ctl'[Leader].term = ctl[Leader].term
            /\ ctl'[Leader].prepared = votes /\ ctl'[Leader].fenced = ctl[Leader].fenced
            /\ ctl'[Leader].total = VotedTotal(votes)
        BY <1>0, <2>1, <2>2 DEF Controllers
      <3>2. /\ eng'[Leader].used = eng[Leader].used
            /\ eng'[Leader].strict = VotedTotal(votes)
            /\ eng'[Leader].mode = StrictMode(Leader) /\ StrictMode(Leader) # "ReservedPeak"
        <4>1. eng'[Leader] = Committed(eng[Leader], Leader, VotedTotal(votes))
          BY <1>0, <2>1, <2>2
        <4> QED
          BY <1>0, <4>1 DEF Committed, Engines, StrictMode
      <3>3. journal'[Leader].phase = "Committed" /\ journal'[Leader].total = VotedTotal(votes)
        <4>1. journal'[Leader] = Record("Committed", ctl'[Leader].term, ctl'[Leader].counter,
                                        ctl'[Leader].total)
          BY <1>0, <3>1 DEF Handoff, JournalOK, JournalFits
        <4> QED
          BY <3>1, <4>1 DEF Record
      <3>4. VotesTrue'
        <4>1. \A g \in msgs' \ msgs : FALSE
          BY <1>7
        <4> QED
          BY <1>0, <1>1, <1>3, <3>1, <4>1, VotesFrame DEF Tallied
      <3>5. ASSUME Books PROVE Books'
        <4>1. \A m \in Members : eng[m].mode = "ReservedPeak"
          <5>1. journal[Leader].phase = "Prepared"
            BY <1>0, <1>1 DEF JournalFits
          <5> QED
            BY <1>0, <1>1, <5>1 DEF Binding, DecisionBinds, Decided
        <4>2. \A m \in Members : votes[m].total = Share(m)
          BY <1>3, <1>7, <4>1 DEF AllPrepared, VoteTrue, VoteFits, Share
        <4>3. granted = VotedTotal(votes)
          <5>1. VotedTotal(votes) = SumTo(Shares, N)
            BY <4>2, VotesAddUp
          <5> QED
            BY <1>0, <3>5, <4>1, <5>1 DEF Books, Accounted, Shares
        <4>4. Accounted' = VotedTotal(votes)
          <5>1. CASE StrictOwner = Leader
            BY <3>2, <5>1 DEF Accounted, StrictMode
          <5>2. CASE StrictOwner # Leader
            BY <1>0, <1>2, <3>2, <3>3, <4>1, <5>2 DEF Accounted, SameElsewhere
          <5> QED
            BY <5>1, <5>2
        <4>5. \A m \in Members : Share(m)' = Share(m)
          BY <1>0, <1>2, <2>0, <3>1, <3>2 DEF Share, SameElsewhere
        <4>6. RecordFits(Leader)'
          <5>1. VotedTotal(votes) <= VotedTotal(votes)
            <6>1. journal'[Leader].total \in Nat
              BY <1>0 DEF Handoff, TypeOK, Records
            <6> QED
              BY <3>3, <6>1
          <5> QED
            BY <1>0, <3>2, <3>3, <3>5, <4>5, <5>1 DEF Books, RecordFits
        <4>7. \A m \in Members \ {Leader} : RecordFits(m)'
          BY <1>2, <3>5, <4>5 DEF Books, RecordFits, SameElsewhere
        <4>8. granted' = Accounted'
          BY <1>1, <4>3, <4>4
        <4> QED
          BY <4>6, <4>7, <4>8 DEF Books
      <3> QED
        BY <1>1, <3>4, <3>5 DEF Tallied
    <2>3. CASE ~ok
      <3>1. /\ ctl'[Leader].state = "LeaderCommitBlocked" /\ UNCHANGED eng
            /\ ctl'[Leader].fenced = ctl[Leader].fenced
        BY <1>0, <2>1, <2>3 DEF Controllers
      <3>2. ~Held'
        BY <3>1 DEF Held
      <3>3. journal'[Leader] = journal[Leader] \/ journal'[Leader].phase = "Committed"
        <4> DEFINE rec == Record("Committed", ctl[Leader].term, votes[Leader].counter,
                                 VotedTotal(votes))
        <4>1. rec.phase = "Committed"
          BY DEF Record
        <4> HIDE DEF rec
        <4>2. PICK j \in {journal[Leader], rec} : journal' = [journal EXCEPT ![Leader] = j]
          BY <2>1, Zenon DEF Persist, PersistOver, rec
        <4> QED
          BY <1>0, <4>1, <4>2
      <3>4. Quiet(Leader)
        BY <1>1, <2>0, <3>1, <3>3 DEF Quiet
      <3> QED
        BY <1>1, <1>7, <3>2, <3>4, QuietLeader
    <2> QED
      BY <2>2, <2>3
  <1> QED
    BY <1>4, <1>5, <1>6, <1>7

LEMMA LeaderTallied ==
  ASSUME Handoff, Handoff', Binding, Tallied, StepOf(Leader)
  PROVE  Tallied'
  <1>0. /\ ctl \in [Members -> Controllers] /\ ctl[Leader] \in Controllers
        /\ TermFits(Leader, eng[Leader], ctl[Leader], clock) /\ Leader \in Members
    BY MembersAssumption, Facts
  <1>1. ctl[Leader].state \notin FollowerStates
    BY <1>0 DEF TermFits
  <1>2. ASSUME UNCHANGED <<eng, ctl, journal, granted, forgotten>>, Held' => Held,
               \A f \in msgs' \ msgs : f.type # "Prepared"
        PROVE  Tallied'
    <2>1. Quiet(Leader)
      BY <1>2 DEF Quiet
    <2> QED
      BY <1>2, <2>1, QuietLeader
  <1>3. ASSUME NEW b, AbortPrepare(Leader, b), ctl[Leader].state = "LeaderPreparing",
               UNCHANGED <<granted, forgotten>>
        PROVE  Tallied'
    <2>1. /\ ctl'[Leader].state = "Idle" /\ Quiet(Leader)
          /\ \A g \in msgs' \ msgs : g.type = "Abort"
      BY <1>0, <1>3, AbortEffect, AbortQuiet
    <2>2. ~Held'
      BY <2>1 DEF Held
    <2> QED
      BY <2>1, <2>2, QuietLeader
  <1>4. CASE \E d \in Deltas, k \in Counters : Accept(Leader, d, k)
    BY <1>0, <1>4, AcceptTallied
  <1>5. CASE Start(Leader)
    BY <1>0, <1>5, StartTallied
  <1>6. CASE Crash(Leader) \/ Stop(Leader)
    <2>1. CASE UNCHANGED <<eng, ctl, journal, msgs>>
      <3>1. ~up'[Leader] /\ UNCHANGED <<granted, forgotten>>
        BY <1>0, <1>6, Facts DEF Crash, Stop, Ends
      <3>2. ~Held'
        BY <3>1 DEF Held
      <3> QED
        BY <1>2, <2>1, <3>1, <3>2
    <2> QED
      BY <1>1, <1>3, <1>6, <2>1 DEF Crash, Stop, FollowerStates
  <1>7. CASE Tick(Leader)
    <2>1. CASE SendPrepare(Leader) \/ SendCommit(Leader)
      <3>1. \A f \in msgs' \ msgs : f.type # "Prepared"
        BY <2>1 DEF SendPrepare, SendCommit, Frame
      <3>2. UNCHANGED <<eng, ctl, journal, up, granted, forgotten>>
        BY <2>1 DEF SendPrepare, SendCommit
      <3> QED
        BY <1>2, <3>1, <3>2 DEF Held
    <2>2. CASE TickTrigger(Leader)
      BY <2>2, BeginTallied DEF TickTrigger
    <2>3. CASE LeaderTimeout(Leader)
      BY <1>3, <2>3 DEF LeaderTimeout
    <2> QED
      BY <1>1, <1>7, <2>1, <2>2, <2>3 DEF Tick, FollowerTimeout, SendPrepared, FollowerStates
  <1>8. ASSUME NEW f \in msgs, HandleCommitAck(Leader, f)
        PROVE  Tallied'
    <2> DEFINE acks == ctl[Leader].acks \cup {f.from}
    <2>1. /\ UNCHANGED <<eng, journal, up, msgs, granted, forgotten>> /\ Held
          /\ ctl' = [ctl EXCEPT ![Leader] =
                IF AllAcked(acks)
                THEN [@ EXCEPT !.acks = acks, !.last = f.term, !.state = "Idle", !.term = 0]
                ELSE [@ EXCEPT !.acks = acks]]
      BY <1>8 DEF HandleCommitAck, Receives, Held
    <2> HIDE DEF acks
    <2>2. /\ ctl'[Leader].fenced = ctl[Leader].fenced
          /\ \/ ctl'[Leader].state = "Idle"
             \/ /\ ctl'[Leader].prepared = ctl[Leader].prepared
                /\ ctl'[Leader].term = ctl[Leader].term
      <3>1. CASE AllAcked(acks)
        BY <1>0, <2>1, <3>1 DEF Controllers
      <3>2. CASE ~AllAcked(acks)
        BY <1>0, <2>1, <3>2 DEF Controllers
      <3> QED
        BY <3>1, <3>2
    <2>3. Quiet(Leader)
      BY <2>1, <2>2 DEF Quiet
    <2>4. ctl'[Leader].state = "Idle" => ~Held'
      BY DEF Held
    <2> QED
      BY <2>1, <2>2, <2>3, <2>4, QuietLeader
  <1>9. ASSUME NEW f \in msgs, HandleTrigger(Leader, f)
        PROVE  Tallied'
    BY <1>9, BeginTallied DEF HandleTrigger, Receives
  <1>10. ASSUME NEW f \in msgs,
                HandlePrepare(Leader, f) \/ HandleCommit(Leader, f) \/ HandleAbort(Leader, f)
         PROVE  FALSE
    BY <1>10 DEF HandlePrepare, HandleCommit, HandleAbort, Receives, Handoff, FrameOK
  <1> QED
    BY <1>4, <1>5, <1>6, <1>7, <1>8, <1>9, <1>10, PreparedTallied DEF StepOf, Handle

LEMMA AccountsNext ==
  ASSUME Handoff, Handoff', Unsplit, Accounts, [Next]_vars
  PROVE  Accounts'
  <1> SUFFICES ASSUME ~lapsed' PROVE Tallied'
    BY DEF Accounts
  <1>1. CASE UNCHANGED vars
    BY <1>1 DEF vars, Accounts, Tallied, VotesTrue, VoteTrue, Held, Books, RecordFits, Share,
                Accounted
  <1>2. ASSUME NEW n \in Members, StepOf(n) PROVE Tallied'
    <2>1. ~lapsed
      BY <1>2 DEF StepOf, Accept, Tick, TickTrigger, LeaderTimeout, FollowerTimeout,
                  SendPrepare, SendPrepared, SendCommit, Handle, HandleTrigger, HandlePrepare,
                  HandlePrepared, HandleCommit, HandleCommitAck, HandleAbort, Crash, Stop, Start
    <2> QED
      BY <1>2, <2>1, FollowerTallied, LeaderTallied DEF Unsplit, Accounts
  <1> QED
    BY <1>1, <1>2 DEF Next, StepOf

LEMMA AccountsInit == Init => Accounts
  <1> SUFFICES ASSUME Init PROVE Tallied
    BY DEF Accounts
  <1>1. /\ Leader \in Members /\ StrictOwner \in Members /\ N \in Nat /\ Members = 0..(N - 1)
    BY MembersAssumption DEF Members
  <1>2. /\ \A m \in Members : eng[m] = FreshEngine /\ ctl[m] = FreshController
        /\ \A m \in Members : journal[m] = EmptyRecord
        /\ granted = 0
    BY DEF Init
  <1>3. ~Held
    BY <1>1, <1>2 DEF Held, FreshController
  <1>4. \A m \in Members : Share(m) = 0 /\ eng[m].mode = "ReservedPeak" /\ journal[m].total = 0
    BY <1>2 DEF Share, FreshController, FreshEngine, EmptyRecord
  <1>5. \A m \in Members : RecordFits(m)
    BY <1>4, HandoffAmountsAssumption DEF RecordFits
  <1>6. SumTo(Shares, N) = 0
    <2>1. \A i \in 0..(N - 1) : Shares[i] = 0
      BY <1>1, <1>4 DEF Shares
    <2> QED
      BY <1>1, <2>1, SumToZeros
  <1>7. granted = Accounted
    BY <1>1, <1>2, <1>4, <1>6 DEF Accounted, Shares
  <1> QED
    BY <1>3, <1>5, <1>7 DEF Tallied, VotesTrue, Books

LEMMA AccountsHold == Spec => []Accounts
  <1>1. Handoff /\ Handoff' /\ Unsplit /\ Accounts /\ [Next]_vars => Accounts'
    BY AccountsNext
  <1> QED
    BY <1>1, AccountsInit, HandoffHolds, UnsplitHolds, PTL DEF Spec

(* What the cluster has granted is accounted for exactly, in the members'   *)
(* shares before the leader's decision, in its committed record until the   *)
(* owner has installed it, and in the owner's strict word from then on,     *)
(* whatever is lost, late or repeated, whichever store fails, and whoever   *)
(* crashes, stops and restarts, until a vote or a decision lapses or a      *)
(* process starts from a record of less than it had granted.                *)
THEOREM EveryGrantIsCounted == Spec => []GrantsConserved
  <1>1. Accounts => GrantsConserved
    BY DEF Accounts, Tallied, Books, GrantsConserved
  <1> QED
    BY <1>1, AccountsHold, PTL

(* With the same two exceptions, and no assumption on deadlines, crashes or *)
(* stops, the cluster never grants more than the global limit.              *)
THEOREM ClusterKeepsLimit == Spec => []LimitKept
  <1>1. Handoff /\ Accounts => LimitKept
    <2> SUFFICES ASSUME Handoff, Books PROVE granted <= Limit
      BY DEF Accounts, Tallied, LimitKept, HardLimit
    <2>1. /\ \A i \in 0..(N - 1) : Shares[i] \in Nat /\ Shares[i] = Share(i)
          /\ SumTo(Shares, N) \in Nat /\ N \in Nat /\ Members = 0..(N - 1)
      BY SharesNat
    <2>2. \A i \in 0..(N - 1) : Reservation[i] \in Nat /\ Shares[i] <= Reservation[i]
      BY <2>1, HandoffAmountsAssumption DEF Books, RecordFits
    <2>3. SumTo(Shares, N) <= SumTo(Reservation, N)
      BY <2>1, <2>2, SumToMonotone
    <2>4. SumTo(Reservation, N) \in Nat /\ SumTo(Reservation, N) <= Limit /\ Limit \in Nat
      BY <2>1, <2>2, SumToNat, PlanAssumption, HandoffAmountsAssumption DEF ValidPlan
    <2>5. SumTo(Shares, N) <= Limit
      BY <2>1, <2>3, <2>4
    <2>6. eng[StrictOwner].strict <= Limit /\ journal[Leader].total <= Limit
      BY MembersAssumption, Facts DEF EngineFits, JournalFits
    <2>7. \/ granted = eng[StrictOwner].strict \/ granted = journal[Leader].total
          \/ granted = SumTo(Shares, N)
      BY DEF Books, Accounted, Shares
    <2> QED
      BY <2>5, <2>6, <2>7
  <1> QED
    BY <1>1, HandoffHolds, AccountsHold, PTL

(* A vote the leader holds stays true until the leader lets go of the term  *)
(* or a vote lapses: the member's gate is closed and its share is the total *)
(* it reported, through a crash of the member and its restart too.          *)
THEOREM HeldVotesAreFrozen == Spec => []FrozenVotes
  <1>1. Handoff /\ Unsplit /\ Accounts => FrozenVotes
    <2> SUFFICES ASSUME Handoff, Binding, Tallied, Held,
                        NEW m \in Members, ctl[Leader].prepared[m] # NoVote,
                        eng[m].mode = "ReservedPeak"
                 PROVE  /\ Share(m) = ctl[Leader].prepared[m].total
                        /\ up[m] => ~eng[m].open
      BY DEF FrozenVotes, Unsplit, Accounts, Held
    <2>1. Share(m) = ctl[Leader].prepared[m].total
      BY DEF Tallied, VotesTrue, VoteTrue, VoteFits, Share
    <2>2. m # Leader => Bound(m)
      BY DEF Binding, VotesBind
    <2>3. up[m] => ~eng[m].open
      BY <2>2, PeakAccepts
    <2> QED
      BY <2>1, <2>3
  <1> QED
    BY <1>1, HandoffHolds, UnsplitHolds, AccountsHold, PTL
=============================================================================
