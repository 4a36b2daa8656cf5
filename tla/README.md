# Formal verification of the hot counter

This directory holds TLA+ models of the C++ service in `cpp/`, the TLC
configurations that check them on small instances, and TLAPS proofs of results
that hold for every number of clients, shards and units. Paths such as
`cpp/src/engine.cpp` are relative to the repository. `PROJECT.json` maps every
definition that models code to the lines it models.

## 1. The system

A client sends `INCRNCHK(counter, delta)`; the service accepts it only if the
total stays within a hard limit. The parts and how they meet:

| Part | State it keeps | Operations | Meets |
| --- | --- | --- | --- |
| `AdmissionGate` | `open_`, `in_flight_` | `try_enter`, `leave`, `close`, `drained`, `open` | clients race the thread that moves the totals |
| `StrictCounter`, `ReservedCounter` | one atomic word; one word and one "announced" flag per shard | compare-exchange `apply`, `total`, seed after a quiescent point | the engine |
| `RoutingMap` | the mode: Strict, ReservedPeak, DangerStrict, RemoteStrict | `publish`, `mode` | clients load it once per request |
| `CounterEngine` | request flags, epoch, exhausted-shard tally, last published value | `apply`, `control_loop`, `begin/abort/commit_distributed_handoff`, `recover_committed_handoff` | client threads, one control thread, one handoff thread |
| `LimitReachedCache` | "exhausted" flag | `mark_exhausted`, `known_exhausted` | answers Rejected without touching the gate |
| `HotKeyDetector` | a queue of samples, a window count, `stop_` | `record`, `start`, `stop`, worker loop, callback | data-plane threads record, the worker sets `peak_requested_` |
| `DistributedHandoffController` | state, term, votes, acknowledgements, deadline; a one-record durable journal | `start`, `stop`, `handle_frame` (6 frame types), `tick` (6 branches) | its engine by calls, the other members by UDP frames |
| `ReliableUdpReplicator` | outbound queue, pending map, sequence number, per-component maxima | `publish`, worker loop: drain, receive, retry | fed by `control_loop`, the other nodes by UDP frames |
| `MpmcQueue` | ring of cells with sequence words | `try_push`, `try_pop` | detector and replicator |
| `ReservationPlan`, `make_runtime_config` | immutable after construction | validation | parameters of the engine and the controller |
| `CounterRuntime` | owns the engine, the replicator and the controller | `start`, `stop`, destruction | the transports' main functions; leaves a control and a handoff thread running |
| `TcpCounterServer` | a listener; per connection a buffer of 4096 bytes | `run`, one detached session per connection | sessions call the engine |
| DPDK daemon, `UdpCounterProtocol` | packet buffers in pool, queues and arrays; `g_stop` | port set-up, one polling loop per queue, signal handler | loops call the engine; the NIC owns buffers in between |
| HMAC, `GCounter`, transport seam, C prototype, benchmarks | - | - | see section 8 |

What is hard to get right, and therefore what the properties are about
(`PROJECT.json` lists each hazard with its line):

* a lock-free request path that races a control thread which must find a *real*
  quiescent point before it moves exact totals between counters;
* a modes-and-epochs protocol whose pieces (mode, epoch, value, flags) are
  separate atomics read one after the other;
* a two-phase commit over UDP whose followers have deadlines of their own, with a
  journal, crashes, orderly stops, restarts and failing writes;
* replication that coalesces, drops, retries and restarts;
* a lock-free ring whose cells are plain memory, ordered only by sequence words;
* a start that can fail half-way and a shutdown that must end threads before the
  objects they use, under two transports;
* lines cut anywhere by `read()`, bursts cut anywhere by the NIC.

What makes each part correct: the engine never grants past its limit, loses no
accepted delta in a transition, announces exhaustion exactly at the limit, and
always reopens the gate it closed. The handoff never lets two members grant the
same capacity, decides at most one outcome, keeps what it acknowledged, and
finishes what it decided. Replication loses nothing silently and counts nothing
twice. The queue is a FIFO and the detector counts each sample once or reports it
dropped. A process never comes up with a plan that overbooks the limit, ends its
threads before what they use, answers exactly the lines it was sent, loses no
packet buffer, and always finishes a shutdown.

## 2. Modules

| Module | Models | Grain of a step |
| --- | --- | --- |
| `LimitCounter` | the promise to a client: an abstract counter with a limit and a definitive "exhausted" state | an accepted request |
| `CounterEngine` | gate, counters, routing, engine, exhausted cache, in one process | one access to shared memory |
| `DistributedHandoff` | the controllers of all members, their journals and the network, over engines | one frame handler, one branch of `tick()`, one process start or end |
| `Replication` | the replicators of all nodes and the network | one pop, one drain-and-send, one frame, one retry |
| `BoundedFifo` | the promise of `MpmcQueue` to its callers | a push, a pop, a failure |
| `MpmcQueue` | `try_push`, `try_pop` | one access to shared memory |
| `HotKeyDetector` | recorders, worker, `start()` and `stop()` over `MpmcQueue` | the same; one window evaluation |
| `RuntimeConfig` | `ReservationPlan` and `make_runtime_config`, as operators | |
| `CounterRuntime` | `start()`, `stop()`, destruction, control and handoff thread | one call that can fail or that another thread can observe |
| `UdpCounterProtocol` | the datagram codec, as operators | |
| `TcpServer` | listener and sessions, over `CounterRuntime` | one read, one line, one write |
| `DpdkServer` | port, loops, packet buffers, signals, over `CounterRuntime` and `UdpCounterProtocol` | one burst, one packet |
| `Daemon` | a process: the runtime under one of the two transports | |
| `Sums` | finite sums, as a recursive function | |
| `SumsProofs` | lemmas about `Sums`: what a sum is, how one summand moves it, when it is tight | |
| `CounterEngineProofs` | types, gate and quiescent point of `CounterEngine`, proved | |
| `CounterTotalsProofs` | exact totals through mode transitions and monotone snapshots, proved | |
| `CounterExhaustionProofs` | the exhausted cache and the refinement of `LimitCounter`, proved | |
| `DistributedHandoffProofs` | agreement, durability, and what can split the cluster, lose a grant or pass the limit, proved | |
| `ReplicationProofs` | bounds, no silent loss, monotone merges, proved | |
| `HotKeyDetectorProofs` | the queue (`MpmcQueue`) and its refinement of `BoundedFifo`, the samples, proved | |
| `DaemonProofs` | lifecycle, reservation plan, packet buffers and TCP lines, proved | |
| `MC*` | small instances | |

`CounterEngine` refines `LimitCounter` (`ImplementsLimitCounter`: `total` is
mapped to the sum of the accepted deltas, `exhausted` to the cache).
`DistributedHandoff` uses the engine at a coarser grain: `Begun`, `Aborted` and
`Committed` are the effects of the three engine calls, taken as one step because
`CounterEngine` shows that the drained total is exact (`DrainedTotalExact`) and
that no request is inside between drain and reopening (`Quiescent`).
`MpmcQueue` refines `BoundedFifo` (`ImplementsFifo`); `Replication` uses the queue
through that contract. `Daemon` composes `TcpServer` and `DpdkServer`, which
share `CounterRuntime`.

### CounterEngine

Client threads (`pc`, locals `delta`, `shard`, `seen`, `current`) run `Apply`,
`TryEnter`, `Count`, `Recheck`, `LoadMode`, `LoadCell`, `CompareExchange`,
`Remember`, `ShardFull`, `Announce`, `Tally`, `PublishLimit`, `Leave`: the
loads, stores and read-modify-writes of `apply()` in the order of the code. The
control and the handoff thread (`tpc`, loop index `idx`, accumulator `acc`) share
`Close`, `Drained`, `ReadShard`, `SeedShard`, `SeedStrict`, `PublishMode`,
`ResetTally`, `BumpEpoch`, `Open`; the control thread also has the turn of
`control_loop()` (`ControlTop` ... `Decide`), the handoff thread
`BeginHandoff`, `AbortHandoff`, `CommitHandoff`, `ExhaustOnCommit`.

* `Distributed` is the code's own test, `local_peak_reservation_ != limit`: the
  same module is a standalone engine or a cluster node.
* **`CloseIsBuffered`.** `close()` is a release store to `open_`; `drained()` is
  an acquire load of `in_flight_`. C++ does not order a release store before a
  later acquire load of another object. On x86 the store may wait in the store
  buffer while the load executes; on AArch64, where these compile to `stlr` and
  `ldar`, it may not. `CloseIsBuffered = TRUE` is the first machine
  (`DrainStoreBuffer` makes the store visible; later stores of the mover wait for
  it), `FALSE` the second.
* One counter id: the engine keeps one counter per limit and the id only labels
  results and snapshots. The limit-reached publisher is a notification without
  effect on the state. `remember_counter()` is one step.
* `OnHot`, the detector's callback, may happen at any time.
* The controller may call abort and commit whenever it is not inside an engine
  call: after a begin, after the other one, or without either. What turns away
  the wrong calls is `distributed_handoff_active_` (`HandoffInProgress`), and the
  invariant `Claimed` says why: the flag is down wherever the node is not prepared.
* `OwnerRoles` are the roles a cluster node may have: the strict owner, or not.
* `recover_committed_handoff()` runs before there are requests; it is part of
  `Recovered` in `DistributedHandoff`.

### DistributedHandoff

Per member: `eng` (mode, gate, handoff flag, peak usage, strict word, counter),
`ctl` (the controller's members), `journal`, `up`. `msgs` is the set of all frames
ever sent; a frame in it can be delivered any number of times, at any time, or
never, which is loss, duplication and reordering at once. `clock` is the leader's
`monotonic_ns()`, from which terms are taken; it survives a process crash.

* A handler is one step, journal write included. A crash between its journal
  write and its other effects leaves what a crash right after the handler leaves,
  since all other effects except frames are volatile, and a frame that was not
  sent is a frame that was lost.
* `Persist` may report a failure before or after the rename took place, so the
  journal then holds the old record or the new one.
* A newer `Prepare` aborts the older one and begins again, in one step; a request
  accepted between the two is covered by the behaviour in which the deadline
  passes first.
* The epoch changes only at the commit, so in peak mode it is the same constant on
  every member and the leader's comparison of the votes' epochs always succeeds; it
  is left out. Frames carry valid tags and
  come from members, so the test of sender address and id is `f.from`.
* **`Timely`.** A prepared follower gives up at its own deadline, and nothing in
  the code orders that deadline with the leader's decision. `Timely = TRUE` states
  the ordering that the protocol would need: while the leader is still preparing
  or committing the term, the deadline does not pass. It is an assumption about
  clocks and latencies and not a fact about the code. The liveness run needs it
  (a follower that gives up its vote never commits), and so does the plain
  `HardLimit`; no proof assumes it.
* **`lapsed`** is a history variable: it becomes true when a promise is cut short,
  that is when a follower's deadline passes while the leader works on its term,
  when a leader goes down with a commit not yet acknowledged, or when a prepared
  follower is stopped in order while the leader may use its vote.
  `SplitOnlyByLapse` says that these are the *only* ways to split the cluster,
  whatever else crashes, fails or is delivered late.
* **`forgotten`** is a history variable as well: it becomes true when a process
  starts from a record of less than it had granted (`Forgets`). The journal holds
  the total of a vote or of a commit; peak grants without a vote and strict grants
  after the commit are lost with the process. `LimitKept` and `GrantsConserved` say
  that a lapse and this are the only ways to pass the limit or to lose a grant. A
  vote that was recorded before the crash is not forgotten: the fenced member still
  answers for it (`Share`), and `FrozenVotes` says that a vote the leader holds
  stays true across such a restart.
* A member restarted before its first handoff finds the idle record that it wrote
  itself, which names owner 0; `start()` compares the owner before the phase and
  refuses the record whenever the configured owner is another component.
  `RestartsAsRecorded` states this exactly: a restart is refused only with that
  record, and a member fenced by a prepared record stays closed.

### Replication

Per node: `outbound`, `coalesced`, `pending`, `next_sequence`, `components`,
`dropped` (whether `dropped_count` is not 0). A key is a (counter, epoch) pair.
Popping is a step of its own because `publish()` runs concurrently with it. The
map's iteration order is unspecified, hence a choice of order in `SendCoalesced`.
A restart makes a new object: sequence numbers begin at 1 while acknowledgements
for the previous process may still be on the network.

### MpmcQueue and HotKeyDetector

A thread is `at` the access it makes next, with its local `pos` and the element in
its hands (`item`). The value of a cell is written (`PushWrite`) and read
(`PopRead`) by plain accesses, so `NoRace` is the claim that makes the code free of
undefined behaviour. `compare_exchange_weak` may fail without a reason. Positions
are naturals; a 64-bit position does not wrap in the life of a process.

The refinement maps a won compare-exchange to `Push` or `Pop`: position `n` holds
what its producer is about to write until the write, and the cell's value after it.
`BoundedFifo` lets `try_push` fail while a consumer is still reading and `try_pop`
while a producer is still writing: the code does report a full or an empty queue
then, and both callers (samples and snapshots) treat that as a drop or retry later.

`HotKeyDetector` runs the worker's loop on the queue: `Check`, `Drain`,
`CountSample`, `Evaluate`. A window is hot from a tenth of the threshold on, in
integer division, as in the code.

### RuntimeConfig, CounterRuntime, TcpServer, DpdkServer, Daemon

`main` is where the main thread is: `configure`, the four stages of `start()`,
`started`, the transport's loop, then the stages of `stop()`, `stopped`,
`destroyed`, `exited`. A stage of `start()` that can throw has a failing
alternative, which enters the stages of `stop()`; the handler in `start()` makes
the same calls as `stop()`. The control thread is modelled where lifecycles matter:
it loads the publisher's pointer (`ControlTurn`) and calls it later
(`ControlPublish`), and it changes the mode. The engine is what a transport sees
of it: open or not, mode, total, and the set of decisions `apply()` may return.
`engine.alive` is FALSE before construction and after destruction.

* `RuntimeConfig` has amounts of `MaxAmount + 1` values, so that a sum of
  capacities can wrap; `PlanNeverOverbooks` compares with the true sum.
* A TCP session keeps the code's `buffer` and `begin`; a byte is a digit, a newline
  or something else. `read()` returns any non-empty part of what is left. The
  property's own notion of lines (`Line`, `Unfinished`) looks at positions in the
  whole stream and never at chunks.
* A session may outlive the engine: an accept error, or a session thread that
  cannot be created, leaves `run()` by an exception, and `main()` destroys the
  runtime while detached sessions may still call `apply()`. `tcp_server.hpp` says
  that `run()` "Blocks until the process is stopped". `EngineOutlivesCallers`
  holds for every other caller and for every other way to stop, and names this
  exception; the window closes when `main()` returns.
* A DPDK packet is an ARP request, a UDP datagram to our port with its 40-byte
  frame, or anything else; the header checks of `process_udp_request` decide which.
  Replies overwrite the request in place. The value that `apply()` reports in a
  reply is a token. `NicReceive`, `NicTransmit` and `Signal` are the environment.
  The NIC receives from the moment the port is started, before the runtime is.
* Before the handlers are installed a signal ends the process at once; the TCP
  daemon never installs any. Both are left out: nothing is persisted on that path.

## 3. Runs

Passing runs:

| Run | Instance | Shows |
| --- | --- | --- |
| `engine_standalone` | 2 clients, 2 shards, limit 3 (reserves 2 and 1), deltas 1 and 2, boot in Strict | `TypeOK` (no shard passes its reserve), `Quiescent`, `ConservesAccepts`, `ExhaustionAnnounced`, `SnapshotsMonotone`, and the refinement of `LimitCounter`, through all three modes |
| `engine_live` | 2 clients, 2 shards, limit 2, boot in peak, buffered `close()` | `GateReopens`, `DangerReached`: transitions end, and a nearly full engine gets to strict mode even on x86 |
| `engine_cluster` | 2 clients, 3 shards, reservation 2 of limit 3 (reserves 1, 1 and 0) | a node under begin, abort and commit in any order: `GateInvariant`, `DrainedTotalExact`, `ConservesAccepts`, `ExhaustedIsDefinitive`, with a shard that is exhausted from the start |
| `handoff_timely` | 3 members, reservations 2, 1, 1 of limit 5, 2 counter ids, 2 terms, strict owner is not the leader | with `Timely`: `CommitCompletes`, `GateReopens`, and `HardLimit` without exceptions |
| `handoff_chaos` | 2 members, reservations 2 and 1 of limit 4, crashes, stops and restarts of both (2 in all), failing stores, deadlines at any time, strict owner is not the leader | with no timing assumption: `CommitAgreement`, `AckImpliesDurable`, `CommittedRecordStable`, `RestartsAsRecorded`, `SplitOnlyByLapse`, `LimitKept`, `GrantsConserved`, `FrozenVotes` |
| `replication` | 3 nodes, 1 publisher, 2 keys, 2 values, 2 publications, queue of 2, 3 pending, 1 retry, 1 restart | `NoSilentLoss`, `NeverCountedTwice`, `ReplicaMonotone`, `RetryWorkEnds`, `SettlesOrDrops` |
| `detector` | 2 recorders, 1 worker, a ring of 2 cells, 2 counters, 3 samples, 2 starts | `NoRace`, `ImplementsFifo`, `SamplesAccounted`, `StopReturns` |
| `daemon` | both transports; 19 sets of launch options, 3 of them accepted; 1 connection with 4 streams and a buffer of 3 bytes; 2 queues, 2 packet buffers, 2 packets of 3 kinds, bursts of 2 | `PlanNeverOverbooks`, `LifecycleSafe`, `AnswersMatchLines`, `PacketsAccounted`, `ShutdownCompletes` |

Runs in which what the code does contradicts what it says (details and
quotations under `findings` in `PROJECT.json`):

| Run | Property | What TLC shows |
| --- | --- | --- |
| `engine_buffered_close` | `ConservesAccepts` | on x86 `drained()` may read 0 while `close()` is still buffered; a client passes both checks of `try_enter()`, is inside while the totals move, and its accepted delta is lost |
| `engine_epoch_race` | `SnapshotFromItsEpoch` | on a node that is not the strict owner (`OwnerRoles = {FALSE}`) the control loop reads a peak value, the handoff thread commits, and `publish_snapshot()` publishes the value under the new epoch |
| `handoff_late_commit` | `HardLimit` | without `Timely`, a follower times out, reopens in peak mode and ignores the commit; owner and follower grant the same capacity |
| `handoff_leader_crash` | `NoSplitCluster` | a leader restarted from its committed record never resends the commit; the followers time out and reopen beside a strict member |

An orderly stop has the same weakness as the late commit: `stop()` overwrites the
prepared record of a follower with an idle one although the leader may already
have committed with its vote. With `Stoppable = {1}` and `Crashable = {}` in the
instance of `handoff_leader_crash`, TLC finds `NoSplitCluster` violated: the
member restarts open in peak mode. It is listed as a hazard, and it is one of the
lapses of `SplitOnlyByLapse`.

### Bounds

Two clients are enough for every race between a request and another one on the
same word, and for one request to be at each point of `try_enter()` while another
holds the drain; the proofs cover any number. Limits and reserves are such that
shards fill at different times, a delta of 2 fits in one shard and not in the
other, and the limit is reached exactly. The engine has no counter without a
bound of its own: the epoch grows once per transition and modes never go back.
Three members make a vote of a majority different from a vote of all; two terms
let a frame of an old term meet a newer one; two counter ids reach the disagreeing
votes that abort. In `handoff_chaos` the plan leaves one unit of the limit
unreserved, so that the owner can grant in strict mode and forget it, and the leader
has two units, so that it can vote with one and grant the other after an abort.
`MaxTerm`, `MaxRestarts` and `MaxPublishes` bound terms, process
ends and publications. Three pending entries for two keys and two peers make the
pending map overflow part of the way through a snapshot, and one retry separates
the first transmission, the retry and the drop.

Three samples wrap a ring of two cells and find it full; two starts make a worker
meet what an earlier one left in the queue. Capacities up to 3 in words of 4 values
make a plan's sum wrap to one within the limit. Streams of four or five bytes over
a buffer of three have empty lines, lines that are no number, numbers out of range,
lines that span two and three reads, and a line that does not fit. Two packets in
one burst are what a partial transmit needs; a second queue makes the launch of a
worker, its failure and the wait for it happen.

Client symmetry is used only in runs without liveness properties.

### Deadlock

Four runs may stop: `handoff_chaos` (all members down or refused with no restart
left), `replication` (all publications delivered), `detector` (nobody records or
starts any more) and `daemon` (the process has exited). The other runs check
deadlock.

## 4. Fairness

* `CounterEngine`: every request that began, the control thread, an engine call
  of the handoff thread, and the processor's store buffer go on (weak fairness of
  each thread as a whole, not of a single instruction). Nothing is assumed of new
  requests, of hot-key callbacks, or of handoff calls.
* `DistributedHandoff`: the controller thread runs, so deadlines pass and retries
  are sent. A commit or its acknowledgement is delivered eventually only while
  the leader keeps retrying it: UDP loses some of infinitely many copies, not
  all. No fairness for `Prepare`, `Prepared`, `Abort` or `Trigger`.
* `Replication`: the worker runs and retry timers fire. A snapshot is delivered
  only while its sender keeps it pending; no acknowledgement is ever owed.
  `RetryWorkEnds` therefore holds even if no acknowledgement arrives, and
  `SettlesOrDrops` allows a counted drop.
* `HotKeyDetector`: threads inside `record()` and the worker go on, and a weak
  compare-exchange does not fail spuriously for ever (strong fairness of the
  successful one). Nobody has to record, start or stop. `StopReturns` rests on the
  bound on `record()` calls: it shows that the drain loop ends once the recorders
  pause. Under a load that never lets the queue run empty, `run()` neither
  evaluates a window nor looks at `stop_`.
* `Daemon`: the main thread, the control thread and the polling loops run. Nothing
  is assumed of peers, the NIC or signals, hence nothing of the sessions.

`SettlesOrDrops` is weaker than convergence on purpose: after `max_retries` the
last snapshot of a component that then falls silent is dropped and never sent
again, so its replicas may stay behind; the code counts that.

## 5. Proofs

`CounterEngineProofs` proves, for any finite set of clients, any number of shards,
any limit, any reservation up to it and any deltas:

* `TypeCorrect`: `Spec => []TypeOK`, on both kinds of machine. `TypeOK` contains
  the admission bounds: no shard passes its reserve and the strict word never
  passes the limit, whatever the interleaving of check and compare-exchange.
  `TypeOK` is not inductive: `leave()` subtracts from `in_flight_`, which stays a
  natural number only because it counts exactly the requests that have passed the
  `fetch_add` (`CountOK`), and a loop over the shards must stop at the last one
  (`IndexOK`). `TypeInv` is the conjunction of the three.
* `GateInvariantHolds`: `Spec => []GateInvariant`, assuming `~CloseIsBuffered`.
  The invariant says that the count is exact, that only one thread ever owns the
  gate (the control thread of a standalone engine, the handoff thread of a cluster
  node, since a cluster node never is in mode Strict), that an owner past `close()`
  keeps the gate shut, that only a prepared node can be made to open it by an abort
  or a commit (`Claimed`), and that nobody is admitted while an owner is past
  `drained()`. The step that matters is `Drained`: the count is 0 and exact, so no
  client is past its `fetch_add`, and those before it will find the gate shut.
* `QuiescentPoint`: `Spec => []Quiescent` from it, assuming `~CloseIsBuffered`:
  the sentence of `admission_gate.hpp:8` about "a real quiescent point". Without
  the assumption it is false (`engine_buffered_close`).

### Engine: totals and exhaustion

`CounterTotalsProofs` and `CounterExhaustionProofs`, for the same range of
constants and assuming `~CloseIsBuffered` (without it a request may slip in after
the shards were read, and `ConservesAccepts` is false: `engine_buffered_close`):

* `AcceptsConserved`, `PreparedTotalExact`: `ConservesAccepts` and
  `DrainedTotalExact`. The invariant `Totals` adds three things. A request that has
  loaded the mode works on the counter of that mode (`Routed`), because the mode is
  published only while nobody is inside; a mover's place in the code tells which
  transition it is in (`MoverModes`); and what it holds is the partial sum of the
  shards it has read, or what is left to spread over the shards (`InHand`). The
  gate invariant gives the rest: no shard moves while a mover sums it.
* `SnapshotsNeverGoBack`: `Spec => SnapshotsMonotone`, an action property. The
  control thread reads the shards one by one while requests add to them, so a
  snapshot is the value of no single moment; and on a cluster node the handoff
  thread may change the mode between the reading and the publication. The invariant
  `Snapshots` says that what was read lies between the last snapshot and the value
  of the counter (`Counted`), and that before the last shard is read the unread
  ones make up the difference (`Unread`). It is kept because the counter of the
  current mode is the accepted total plus what a commit brought in (`Totals`), which
  no transition lowers.
* `ExhaustedDefinitively`, `ExhaustionIsAnnounced`: `ExhaustedIsDefinitive` and
  `ExhaustionAnnounced`. The invariant `Exhaustion` says who still owes the
  announcement. On the strict word it is the request that took the last unit. In
  peak mode every full shard is announced or about to be, and the tally plus the
  requests about to add to it are exactly the announced shards; all shards are full
  exactly when the limit is granted, because the reserves add up to it
  (`SumToTight`). Between a transition's publication of the mode and its reset of
  the tally the tally is meaningless, and the invariant says so.
* `EngineImplementsLimitCounter`: `Spec => ImplementsLimitCounter`, also assuming
  `~Distributed`. Init maps to Init; of the steps only the successful
  compare-exchange moves `accepted` and only the publication of the limit sets the
  cache, and both are steps of the abstract counter; all others stutter.

### Distributed handoff

`DistributedHandoffProofs`, for any number of members, any valid plan, any leader
and strict owner, and any number of terms. Three invariants build on one another:

* `Handoff` holds whatever happens. Member by member it ties the controller to its
  engine (a member whose handoff is under way has closed its gate), to its
  journal (a vote is recorded before it is sent, a commit before it is installed)
  and to the leader's clock; frame by frame it says what must be in a journal for
  the frame to exist. It proves `HandoffTypeCorrect`, `CommitsAgree`,
  `AcknowledgedIsDurable`, `RestartFollowsRecord` and `CommitIsNeverRolledBack`
  (an action property), through crashes, restarts, failing stores and every loss,
  repetition and reordering of frames.
* `Unsplit` is `lapsed \/ Binding`: until a vote lapses, whoever voted, or will be
  counted as having voted because its frame is still on the way, cannot grant from
  its reservation before the leader has decided, even across a crash; and once
  anybody is strict, everybody is bound or committed. It proves `SplitNeedsLapse`:
  the lapses of `SplitOnlyByLapse`, which the code does allow
  (`handoff_late_commit`, `handoff_leader_crash`), are the only ways to split.
* `Accounts` adds the numbers. `VotesTrue`, until a vote lapses: a vote that the
  leader holds, or that is still on its way to it, carries the share of its member.
  `Books`, until a vote lapses or a restart forgets: no record claims more than its
  member has granted, no share exceeds its reservation, and what was granted is
  `Accounted`. The commit then seeds the sum of the shares, which is all there is,
  and the plan keeps it within the limit. It proves `EveryGrantIsCounted`
  (`GrantsConserved`), `ClusterKeepsLimit` (`LimitKept`) and `HeldVotesAreFrozen`
  (`FrozenVotes`). Nothing is assumed of deadlines, crashes or stops: the exceptions
  are in the statements, and the runs `handoff_late_commit` and
  `handoff_leader_crash` show that the first of them does happen.

### Replication

`ReplicationProofs`, for any number of nodes, keys, values, restarts and any
capacities: `ReplicationTypeCorrect`, `NothingLostSilently`, `NothingCountedTwice`
and the action property `ReplicasNeverGoBack`. The invariant `Replicas` needs the
origin of every value (`Origin`: whatever is queued, pending, in a frame or merged
was published by its component, or is older) and, while no process has restarted,
the meaning of a sequence number (`Numbered`: it names one snapshot for one peer,
and an acknowledgement that still matches a pending entry comes from a peer that
has merged it). The second part is guarded by `restarts = 0` because sequence
numbers begin at 1 again after a restart, and then an old acknowledgement can
confirm a snapshot that was never merged (a hazard in `PROJECT.json`).

### Queue and detector

`HotKeyDetectorProofs`, for any number of producers and consumers, any capacity of
at least two and any number of counters: `DetectorTypeCorrect`, `QueueIsRaceFree`,
`QueueIsFifo` (`Spec => ImplementsFifo`) and `SamplesStayAccounted`. The invariant
`QueueInv` relates each cell's sequence word to the positions that map to it: the
one of a claimed position, of a free one, and a lower bound for all old ones. That
lower bound is what makes a stale check harmless: a thread that compared a
sequence word and was overtaken finds its position moved on, so its
compare-exchange fails. Positions and sequence words are naturals; the 64-bit
counters of the code do not wrap in any run of the program.

### Daemon

`DaemonProofs`, for both transports, any launch options, any number of
connections, queues and packet buffers:

* `ShutdownIsOrderly`: `LifecycleSafe`, from the invariant `Life`, which gives for
  every place of the main thread what exists and who owns it: threads, objects,
  callers of the engine, and the engine with the journal's verdict.
* `AcceptedPlansFit`: `PlanNeverOverbooks`. `ReservationPlan` adds capacities as
  words; the lemma `SumsDoNotWrap` shows that its check before every addition makes
  the wrapped sum the true one, for a plan of any length.
* `NoBufferIsLost`: `PacketsAccounted`, for any number of queues, buffers and
  packets and any burst size. In the invariant `Buffers`, `OnePlace` says that there is a
  function from buffers to places (the pool, or one of the four arrays of one
  queue) that describes all the arrays at once, so a step is one change of that
  function and partition and disjointness come for free. To it belong: no array
  holds a buffer twice; what a loop can have in hand at each stage (`LoopHolds`);
  and that no loop runs before its launch (`NotLaunched`), which is why the
  endpoint of a redirection never changes under a reply that names it, and why
  `rte_eth_dev_close` finds every buffer in the pool or in the NIC.
* `LinesAreAnswered`: `AnswersMatchLines`, for streams of any length, any buffer
  size and any cuts by `read()`. The invariant `SessionOK` says of a session that
  its buffer is a window of the stream (`Window`), that the start of the current
  line is just after a newline of the stream with as many newlines up to it as
  lines were handled (`Marked`), and that nothing is left to scan when it reads
  again (`Scanned`). A line is then found by counting newlines, and two newlines
  with the same count are the same (`EndsStrict`), so no induction over the stream
  is needed.

### Assumptions and limits

The ASSUMEs are those of the components (`ClientsAssumption`, `AmountsAssumption`,
`ShardsAssumption`, `ModesAssumption`; `MembersAssumption`,
`HandoffAmountsAssumption`, `PlanAssumption`, `BoundsAssumption`;
`NodesAssumption`, `ValuesAssumption`, `LimitsAssumption`; `QueueAssumption`,
`DetectorAssumption`; `WidthAssumption`, `OptionsAssumption`,
`QueueCountAssumption`, `BufferAssumption`, `PacketsAssumption`,
`StreamsAssumption`). The constructors and
`make_runtime_config` enforce them, and the option parser that amounts are words
(`OptionsAssumption`); the last two only say what a packet and a stream of bytes
are. In the engine amounts are mathematical naturals: every
addition in `apply()` is guarded by a subtraction that cannot wrap, so 64-bit words
behave the same.

The bounds in the guards (`MaxTerm`, `MaxRestarts`, `MaxRecords` and the like) are
arbitrary naturals in the proofs, so a theorem covers every finite behaviour of the
system it models.

Statements over sums need induction, and the library's induction theorems take an
operator, which the provers cannot instantiate. `SumsProofs` proves the principle
for *sets* instead (`SetInduction`: a set of naturals that contains 0 and is closed
under successor is all of them), from it the existence and uniqueness of the
partial sums, and from these the lemmas that the other modules cite.

The inductive invariants were evaluated by TLC on the instances of the runs before
they were proved.

Every invariant that a passing run checks is proved, except the plain `HardLimit` of
`handoff_timely` (`LimitKept` is what holds of the code as it is); so are the three
action properties and both refinements. Only model-checked: everything under fairness
(`GateReopens`, `DangerReached`, `CommitCompletes`, `RetryWorkEnds`,
`SettlesOrDrops`, `StopReturns`, `ShutdownCompletes`), which is out of the
prover's reach. What `Value` computes from the digits of a line is a fold, so the
proofs treat `Parses` and `Value` as given; TLC evaluates them.

## 6. How to run

In this directory, with TLC and tlapm:

    tlc -config MCCounterEngine_standalone.cfg MCCounterEngine
    tlapm CounterEngineProofs.tla      # likewise the other *Proofs modules

and likewise for the other configurations; `PROJECT.json` names the module of
each. The longest run takes about two minutes on two workers.

## 7. Plan

1. Done: all modules of section 2; proofs of the invariants that the passing runs
   check (but for `HardLimit` under `Timely`), of three action properties and of both
   refinements.
2. A larger instance worth an occasional run by hand: four shards with limit 3 in
   `engine_standalone` (an empty reserve beside three of one unit, about two
   minutes). No run exercises the exhaustion tally with an empty reserve; the
   theorems `ExhaustionIsAnnounced` and `ExhaustedDefinitively` cover every split.

## 8. Not modelled

* HMAC-SHA-256 (`cpp/src/auth.cpp`): a fixed computation over bytes with no state
  between calls; the handoff model has only frames with valid tags.
* `GCounter`: used by the tests only; its merge is the one of `Replication`.
* Command-line parsing (`parse_runtime_option` and the two `parse_options`), the
  wording of answers and messages, packet header layout, the smoke client, metrics,
  benchmarks, and the C prototype that `cpp/` replaced.
* Over TCP and UDP alike a request has no identity that the service remembers, so a
  request sent again is applied again; the code does not promise otherwise.
* Journals that are unreadable or written by another host, and a host reboot that
  resets the monotonic clock (a hazard in `PROJECT.json`).
* Peak usage and the strict value after the commit are not in the journal, so a
  restarted member may grant capacity again; `docs/END_TO_END_TASKS.md` lists
  this as open work. `HardLimit` is therefore checked without restarts, and
  `LimitKept` and `GrantsConserved` name the case (`forgotten`).
