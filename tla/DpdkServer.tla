------------------------------ MODULE DpdkServer ------------------------------
(***************************************************************************)
(* The DPDK daemon (cpp/dpdk/main.cpp): port set-up, one polling loop per  *)
(* queue (queue 0 in the main thread), the packet buffers that travel      *)
(* between the pool, the NIC and the loops, and the shutdown by signal or  *)
(* by a worker that cannot be launched.                                    *)
(*                                                                         *)
(* A packet is what reply_arp and process_udp_request tell apart: an ARP   *)
(* request, a well-formed UDP datagram to our port with its payload, or    *)
(* anything else.  The NIC and the sender of signals are external.         *)
(***************************************************************************)
EXTENDS CounterRuntime, SequencesExt, UdpCounterProtocol

CONSTANTS Queues,      \* --queues; the launcher has checked the lcores
          Mbufs,       \* the buffers of the pool
          Packets,     \* what may arrive
          MaxPackets,  \* how many packets arrive (a bound on the NIC)
          Burst,       \* kBurstSize
          Endpoints    \* values of --strict-owner-endpoint

ASSUME QueueCountAssumption == Queues \in Nat \ {0} /\ Burst \in Nat \ {0}
ASSUME PacketsAssumption == \A p \in Packets : DOMAIN p = {"kind", "to", "frame"}

VARIABLES port,      \* "down", "started", "failed" or "closed"
          redirect,  \* the parsed endpoint
          g_stop,
          next,      \* the queue whose worker is launched next
          lcore,     \* the loops: "idle", "poll", "process", "transmit", "done"
          pool,      \* the free buffers
          rxq, txq,  \* the NIC's queues
          received, replies,  \* the arrays of the loops
          content,   \* the packet in a buffer
          arrived,   \* how many packets have arrived
          applied    \* history: the requests applied from a buffer's packet

dpdkVars == <<port, redirect, g_stop, next, lcore, pool, rxq, txq, received,
              replies, content, arrived, applied>>
bufferVars == <<lcore, pool, rxq, txq, received, replies, content, arrived, applied>>

QueueIds == 0..(Queues - 1)
(* given: the option is not empty; a port of 0 stands for every text that   *)
(* parse_redirect_endpoint refuses.                                         *)
NoEndpoint == [given |-> FALSE, ip |-> 0, port |-> 0]
Malformed(e) == e.given /\ e.port = 0
NoPacket == [kind |-> "none", to |-> "nobody", frame |-> ZeroFrame]
Empty == [q \in QueueIds |-> <<>>]
Observed == "observed"  \* the value that apply() reports, whatever it is

DpdkInit ==
    /\ port = "down" /\ redirect = NoEndpoint /\ g_stop = FALSE /\ next = 1
    /\ lcore = [q \in QueueIds |-> "idle"]
    /\ pool = Mbufs /\ rxq = Empty /\ txq = Empty /\ received = Empty /\ replies = Empty
    /\ content = [m \in Mbufs |-> NoPacket] /\ arrived = 0
    /\ applied = [m \in Mbufs |-> <<>>]

-----------------------------------------------------------------------------
(* main() before the runtime, and the release of the port.                 *)

(* A port that cannot be set up ends the process without a clean-up *)
SetupPort ==
    /\ main = "boot"
    /\ \/ port' = "started" /\ main' = "redirect"
       \/ port' = "failed" /\ main' = "exited"
    /\ UNCHANGED <<redirect, g_stop, next, bufferVars, transport, config, plan, engine,
                   replication, publisher, handoff, journal, control, detector,
                   stop_control>>

(* rte_eth_dev_stop and rte_eth_dev_close: the NIC gives its buffers back *)
Released(q) == ToSet(rxq[q]) \cup ToSet(txq[q])
PortReleased ==
    /\ port' = "closed"
    /\ pool' = pool \cup UNION {Released(q) : q \in QueueIds}
    /\ rxq' = Empty /\ txq' = Empty

ParseRedirect(e) ==
    /\ main = "redirect"
    /\ \/ /\ ~Malformed(e) /\ redirect' = e /\ main' = "configure"
          /\ UNCHANGED <<port, pool, rxq, txq>>
       \/ /\ Malformed(e) /\ main' = "port_closed"
          /\ PortReleased /\ UNCHANGED redirect
    /\ UNCHANGED <<g_stop, next, lcore, received, replies, content, arrived, applied,
                   transport, config, plan, engine, replication, publisher, handoff,
                   journal, control, detector, stop_control>>

(* After runtime->stop(), and after a start() that failed *)
ReleasePort ==
    /\ main = "stopped" /\ transport = "dpdk" /\ main' = "port_closed"
    /\ PortReleased
    /\ UNCHANGED <<redirect, g_stop, next, lcore, received, replies, content, arrived,
                   applied, transport, config, plan, engine, replication, publisher,
                   handoff, journal, control, detector, stop_control>>

-----------------------------------------------------------------------------
(* main() around the loops.                                                *)

InstallHandlers ==
    /\ main = "started" /\ transport = "dpdk" /\ main' = "launch"
    /\ UNCHANGED <<dpdkVars, transport, config, plan, engine, replication, publisher,
                   handoff, journal, control, detector, stop_control>>

(* A worker that cannot be launched stops the ones before it *)
LaunchWorker ==
    /\ main = "launch" /\ next < Queues
    /\ \/ /\ lcore' = [lcore EXCEPT ![next] = "poll"] /\ next' = next + 1
          /\ UNCHANGED <<main, g_stop>>
       \/ /\ g_stop' = TRUE /\ main' = "await" /\ UNCHANGED <<lcore, next>>
    /\ UNCHANGED <<port, redirect, pool, rxq, txq, received, replies, content, arrived,
                   applied, transport, config, plan, engine, replication, publisher,
                   handoff, journal, control, detector, stop_control>>

MainPolls ==
    /\ main = "launch" /\ next = Queues
    /\ \/ /\ ~g_stop /\ main' = "polling"
          /\ lcore' = [lcore EXCEPT ![0] = "poll"]
       \/ g_stop /\ main' = "await" /\ UNCHANGED lcore
    /\ UNCHANGED <<port, redirect, g_stop, next, pool, rxq, txq, received, replies,
                   content, arrived, applied, transport, config, plan, engine,
                   replication, publisher, handoff, journal, control, detector,
                   stop_control>>

MainPolled ==
    /\ main = "polling" /\ lcore[0] = "done"
    /\ main' = "await" /\ g_stop' = TRUE
    /\ UNCHANGED <<port, redirect, next, bufferVars, transport, config, plan, engine,
                   replication, publisher, handoff, journal, control, detector,
                   stop_control>>

(* rte_eal_wait_lcore for every worker, then runtime->stop() *)
WorkersEnded == \A q \in QueueIds : lcore[q] \in {"idle", "done"}
AwaitWorkers ==
    /\ main = "await" /\ WorkersEnded /\ main' = "stop"
    /\ UNCHANGED <<dpdkVars, transport, config, plan, engine, replication, publisher,
                   handoff, journal, control, detector, stop_control>>

DpdkMainStep ==
    \/ SetupPort \/ (\E e \in Endpoints : ParseRedirect(e)) \/ ReleasePort
    \/ InstallHandlers \/ LaunchWorker \/ MainPolls \/ MainPolled \/ AwaitWorkers

(* SIGINT or SIGTERM, once the handlers are installed *)
Signal ==
    /\ main \in {"launch", "polling", "await"} /\ ~g_stop /\ g_stop' = TRUE
    /\ UNCHANGED <<port, redirect, next, bufferVars, rtVars>>

-----------------------------------------------------------------------------
(* worker_main(q)                                                          *)

(* The condition of the loop; a mutated form polls on *)
KeepsPolling == TRUE
Polling == ~g_stop

RxBurst(q) ==
    /\ lcore[q] = "poll" /\ Polling
    /\ \E n \in 1..Burst :
          /\ n <= Len(rxq[q])
          /\ received' = [received EXCEPT ![q] = SubSeq(rxq[q], 1, n)]
          /\ rxq' = [rxq EXCEPT ![q] = SubSeq(@, n + 1, Len(@))]
    /\ lcore' = [lcore EXCEPT ![q] = "process"]
    /\ UNCHANGED <<port, redirect, g_stop, next, pool, txq, replies, content, arrived,
                   applied, rtVars>>

LoopEnds(q) ==
    /\ lcore[q] = "poll" /\ ~Polling
    /\ lcore' = [lcore EXCEPT ![q] = "done"]
    /\ UNCHANGED <<port, redirect, g_stop, next, pool, rxq, txq, received, replies,
                   content, arrived, applied, rtVars>>

reply_arp(p) == [p EXCEPT !.kind = "arp_reply", !.to = "peer"]

(* process_udp_request after the engine has answered *)
ReplyPacket(p, r, decision) ==
    [p EXCEPT !.to = "peer",
              !.frame = encode_reply([request_id |-> r.request_id, decision |-> decision,
                                      observed |-> Observed, counter |-> r.counter,
                                      ip |-> redirect.ip, port |-> redirect.port])]

Requests(p) == IF p.kind = "udp" THEN decode_request(p.frame) ELSE {}
Answered(q, m) == replies' = [replies EXCEPT ![q] = Append(@, m)]

(* One packet of the burst is answered in place or freed *)
ProcessPacket(q) ==
    /\ lcore[q] = "process" /\ received[q] # <<>>
    /\ LET m == Head(received[q])
           p == content[m]
       IN  \/ /\ p.kind = "arp_request" /\ Answered(q, m)
              /\ content' = [content EXCEPT ![m] = reply_arp(p)]
              /\ UNCHANGED <<engine, pool, applied>>
           \/ /\ \E r \in Requests(p) : \E decision \in Decisions(r.delta) :
                    /\ engine' = AppliedTo(engine, r.delta, decision)
                    /\ content' = [content EXCEPT ![m] = ReplyPacket(p, r, decision)]
                    /\ applied' = [applied EXCEPT ![m] =
                                     Append(@, [request |-> r, decision |-> decision])]
              /\ Answered(q, m) /\ UNCHANGED pool
           \/ /\ p.kind # "arp_request" /\ Requests(p) = {}
              /\ pool' = pool \cup {m}
              /\ UNCHANGED <<engine, content, applied, replies>>
    /\ received' = [received EXCEPT ![q] = Tail(@)]
    /\ UNCHANGED <<port, redirect, g_stop, next, lcore, rxq, txq, arrived, main,
                   transport, config, plan, replication, publisher, handoff, journal,
                   control, detector, stop_control>>

BurstProcessed(q) ==
    /\ lcore[q] = "process" /\ received[q] = <<>>
    /\ lcore' = [lcore EXCEPT ![q] = "transmit"]
    /\ UNCHANGED <<port, redirect, g_stop, next, pool, rxq, txq, received, replies,
                   content, arrived, applied, rtVars>>

(* The buffers the NIC did not take are freed; a mutated form forgets them *)
UnsentKept(q, n) == {}
UnsentFreed(q, n) == ToSet(SubSeq(replies[q], n + 1, Len(replies[q])))

TxBurst(q) ==
    /\ lcore[q] = "transmit"
    /\ \E n \in 0..Len(replies[q]) :
          /\ txq' = [txq EXCEPT ![q] = @ \o SubSeq(replies[q], 1, n)]
          /\ pool' = pool \cup UnsentFreed(q, n)
    /\ replies' = [replies EXCEPT ![q] = <<>>]
    /\ lcore' = [lcore EXCEPT ![q] = "poll"]
    /\ UNCHANGED <<port, redirect, g_stop, next, rxq, received, content, arrived,
                   applied, rtVars>>

LoopStep(q) ==
    RxBurst(q) \/ LoopEnds(q) \/ ProcessPacket(q) \/ BurstProcessed(q) \/ TxBurst(q)

-----------------------------------------------------------------------------
(* The NIC (external): it fills free buffers, chooses the queue by a hash,  *)
(* and frees what it has sent.                                              *)

NicReceive ==
    /\ port = "started" /\ arrived < MaxPackets /\ pool # {}
    /\ \E q \in QueueIds, p \in Packets :
          LET m == CHOOSE x \in pool : TRUE
          IN  /\ pool' = pool \ {m}
              /\ rxq' = [rxq EXCEPT ![q] = Append(@, m)]
              /\ content' = [content EXCEPT ![m] = p]
              /\ applied' = [applied EXCEPT ![m] = <<>>]
    /\ arrived' = arrived + 1
    /\ UNCHANGED <<port, redirect, g_stop, next, lcore, txq, received, replies, rtVars>>

NicTransmit(q) ==
    /\ txq[q] # <<>>
    /\ pool' = pool \cup {Head(txq[q])}
    /\ txq' = [txq EXCEPT ![q] = Tail(@)]
    /\ UNCHANGED <<port, redirect, g_stop, next, lcore, rxq, received, replies, content,
                   arrived, applied, rtVars>>

-----------------------------------------------------------------------------
Held(q) == rxq[q] \o received[q] \o replies[q] \o txq[q]
InUse == UNION {ToSet(Held(q)) : q \in QueueIds}

(* What the peer of a buffer's packet learns is what the engine decided *)
TellsDecision(m) ==
    /\ content[m].to = "peer"
    /\ content[m].kind = "udp" =>
          /\ Len(applied[m]) = 1
          /\ decode_reply(content[m].frame) =
                {[request_id |-> a.request.request_id, decision |-> a.decision,
                  observed |-> Observed, counter |-> a.request.counter,
                  ip |-> IF a.decision = "Moved" THEN redirect.ip ELSE 0,
                  port |-> IF a.decision = "Moved" THEN redirect.port ELSE 0] :
                    a \in ToSet(applied[m])}

(* Through bursts that are cut short, packets that are not ours and every   *)
(* way to stop, a packet buffer is in exactly one place: the pool, one      *)
(* queue of the NIC, or the array of one loop.  A packet is applied at most *)
(* once per arrival and not before it is processed; what is sent goes to    *)
(* the peer and decodes to the decision the engine made; and a port that    *)
(* was closed leaves every buffer in the pool.                              *)
PacketsAccounted ==
    /\ pool \cup InUse = Mbufs /\ pool \cap InUse = {}
    /\ \A q \in QueueIds :
          /\ IsInjective(Held(q))
          /\ \A other \in QueueIds \ {q} : ToSet(Held(q)) \cap ToSet(Held(other)) = {}
          /\ \A m \in ToSet(rxq[q] \o received[q]) : applied[m] = <<>>
          /\ \A m \in ToSet(replies[q] \o txq[q]) : TellsDecision(m)
    /\ port = "closed" => pool = Mbufs
=============================================================================
