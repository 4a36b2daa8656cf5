------------------------- MODULE UdpCounterProtocol -------------------------
(***************************************************************************)
(* The datagrams of the DPDK daemon (cpp/src/udp_counter_protocol.cpp).    *)
(* A frame is a record with one field for each field of the 40 bytes; the  *)
(* bytes in no field are zero.                                             *)
(***************************************************************************)
EXTENDS Integers

Magic == "HCP1"
Version == 1
RequestType == 1
ReplyType == 2

ZeroFrame == [magic |-> Magic, version |-> Version, type |-> 0, code |-> 0,
              id |-> 0, amount |-> 0, counter |-> 0, ip |-> 0, port |-> 0]

valid_prefix(f, type) == f.magic = Magic /\ f.version = Version /\ f.type = type

encode_request(r) ==
    [ZeroFrame EXCEPT !.type = RequestType, !.id = r.request_id,
                      !.amount = r.delta, !.counter = r.counter]

(* The requests a frame decodes to: one or none *)
decode_request(f) ==
    {r \in {[request_id |-> f.id, delta |-> f.amount, counter |-> f.counter]} :
        valid_prefix(f, RequestType)}

DecisionCode == [Rejected |-> 0, Accepted |-> 1, Moved |-> 2]

encode_reply(r) ==
    [ZeroFrame EXCEPT !.type = ReplyType, !.code = DecisionCode[r.decision],
                      !.id = r.request_id, !.amount = r.observed, !.counter = r.counter,
                      !.ip = IF r.decision = "Moved" THEN r.ip ELSE 0,
                      !.port = IF r.decision = "Moved" THEN r.port ELSE 0]

decode_reply(f) ==
    {[request_id |-> f.id, decision |-> d, observed |-> f.amount,
      counter |-> f.counter, ip |-> f.ip, port |-> f.port] :
        d \in {x \in DOMAIN DecisionCode :
                  valid_prefix(f, ReplyType) /\ DecisionCode[x] = f.code}}
=============================================================================
