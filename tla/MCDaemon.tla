------------------------------- MODULE MCDaemon -------------------------------
EXTENDS Daemon

O == [limit |-> 2, shards |-> 1, hot_threshold_tps |-> 1, component_id |-> 1,
      peak_reservation |-> 0, cluster_reservations |-> <<>>, start_peak |-> FALSE,
      replication |-> FALSE, handoff |-> "none"]
Part(i, n) == [component_id |-> i, capacity |-> n]
Member(p) == [O EXCEPT !.cluster_reservations = p, !.start_peak = TRUE,
                          !.handoff = "full", !.replication = TRUE]

(* Three that are accepted, and one for each reason to refuse *)
MCLaunchOptions ==
    {[O EXCEPT !.replication = TRUE],
     [O EXCEPT !.start_peak = TRUE, !.peak_reservation = 1],
     Member(<<Part(1, 1), Part(2, 1)>>),
     Member(<<Part(1, 3), Part(2, 2)>>),              \* the sum wraps
     Member(<<Part(1, 2), Part(2, 1)>>),              \* more than the limit
     Member(<<Part(1, 1), Part(1, 1)>>),              \* a component twice
     Member(<<Part(2, 1)>>),                          \* not a member
     Member(<<Part(1, 0), Part(2, 1)>>),              \* a member with nothing
     [Member(<<Part(1, 1)>>) EXCEPT !.peak_reservation = 2],
     [Member(<<Part(1, 1)>>) EXCEPT !.start_peak = FALSE],
     [O EXCEPT !.handoff = "full"], [O EXCEPT !.peak_reservation = 1],
     [O EXCEPT !.shards = 0], [O EXCEPT !.hot_threshold_tps = 0],
     [O EXCEPT !.component_id = 3], [O EXCEPT !.peak_reservation = 3]} \cup
    {[Member(<<Part(1, 1)>>) EXCEPT !.handoff = h] : h \in {"options", "bare", "no_key"}}

Other == 11  \* a byte that is neither a digit nor a newline
MCStreams ==
    {<<0, 1, NewLine, 1, NewLine>>, <<NewLine, Other, NewLine, 2>>, <<1, NewLine, 0, 0, 1>>,
     <<4, NewLine, 2, NewLine>>}

MCRequest == [request_id |-> 7, delta |-> 1, counter |-> 0]
Udp(f) == [kind |-> "udp", to |-> "us", frame |-> f]
MCPackets ==
    {Udp(encode_request(MCRequest)), Udp([encode_request(MCRequest) EXCEPT !.version = 2]),
     [kind |-> "arp_request", to |-> "us", frame |-> ZeroFrame]}
MCEndpoints == {[given |-> TRUE, ip |-> 1, port |-> n] : n \in {0, 1}}
=============================================================================
