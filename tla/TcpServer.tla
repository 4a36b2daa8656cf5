------------------------------ MODULE TcpServer ------------------------------
(***************************************************************************)
(* The TCP daemon (cpp/src/tcp_server.cpp): the accept loop in the main    *)
(* thread and one detached session per connection, which cuts a byte       *)
(* stream into lines, applies each line to the engine as it finds it and   *)
(* writes the answer before it looks for the next.                         *)
(*                                                                         *)
(* A byte is its digit, NewLine, or anything larger for any other byte.    *)
(* The peer's stream is fixed when it connects; read() returns any prefix  *)
(* of what has not been read.                                              *)
(***************************************************************************)
EXTENDS CounterRuntime, SequencesExt

CONSTANTS Connections,  \* the peers, each of which connects at most once
          Streams,      \* what a peer may send
          BufferSize    \* sizeof(buffer)

ASSUME BufferAssumption == BufferSize \in Nat \ {0}
ASSUME StreamsAssumption == Streams \subseteq Seq(Nat)

VARIABLES listener,  \* "closed", "listening" or "failed"
          conn       \* the sessions

tcpVars == <<listener, conn>>

NewLine == 10
Digits == 0..9

(* at: where run() is; sent: the peer's stream; rest: what of it is unread; *)
(* begin: where the current line starts; decision, end: of the line being   *)
(* answered; handled (a history): every line found with its decision.       *)
Session(at, stream) ==
    [at |-> at, sent |-> stream, rest |-> stream, buffer |-> <<>>, begin |-> 0,
     end |-> 0, handled |-> <<>>]

TcpInit == listener = "closed" /\ conn = [c \in Connections |-> Session("none", <<>>)]

-----------------------------------------------------------------------------
(* parse_and_apply                                                         *)

Value(line) == FoldLeft(LAMBDA n, digit : 10 * n + digit, 0, line)

(* std::from_chars over the whole line: digits only, at least one, in range *)
Parses(line) ==
    line # <<>> /\ ToSet(line) \subseteq Digits /\ Value(line) <= MaxAmount

LineDecisions(line) == IF Parses(line) THEN Decisions(Value(line)) ELSE {"Rejected"}

-----------------------------------------------------------------------------
(* TcpCounterServer::run                                                   *)

Listen ==
    /\ main = "started" /\ transport = "tcp"
    /\ \/ listener' = "listening" /\ main' = "serve"
       \/ listener' = listener /\ main' = "stop"
    /\ UNCHANGED <<transport, config, plan, engine, replication, publisher, handoff,
                   journal, control, detector, stop_control, conn>>

AcceptConnection(c) ==
    /\ main = "serve" /\ conn[c].at = "none"
    /\ \E stream \in Streams : conn' = [conn EXCEPT ![c] = Session("read", stream)]
    /\ UNCHANGED <<listener, rtVars>>

(* accept() fails for good, or the session's thread cannot be created: the  *)
(* exception leaves run() and destroys the runtime.  The sessions go on.    *)
AcceptFails ==
    /\ main = "serve" /\ main' = "stop"
    /\ listener' = "failed"
    /\ UNCHANGED <<transport, config, plan, engine, replication, publisher, handoff,
                   journal, control, detector, stop_control, conn>>

-----------------------------------------------------------------------------
(* ConnectionSession::run                                                  *)

Read(c) ==
    /\ conn[c].at = "read"
    /\ \E n \in 1..Len(conn[c].rest) :
          /\ n <= BufferSize - Len(conn[c].buffer)
          /\ conn' = [conn EXCEPT ![c].at = "scan",
                                  ![c].buffer = @ \o SubSeq(conn[c].rest, 1, n),
                                  ![c].rest = SubSeq(@, n + 1, Len(@))]
    /\ UNCHANGED <<listener, rtVars>>

(* read() returns 0 or an error *)
ReadEnds(c) ==
    /\ conn[c].at = "read"
    /\ conn' = [conn EXCEPT ![c].at = "closed"]
    /\ UNCHANGED <<listener, rtVars>>

LineEnds(s) == {i \in DOMAIN s : s[i] = NewLine}
NextLineEnds(s) == {i \in LineEnds(s.buffer) : i > s.begin}

(* The next newline: its line is applied *)
ApplyLine(c) ==
    /\ conn[c].at = "scan" /\ NextLineEnds(conn[c]) # {}
    /\ LET end == CHOOSE i \in NextLineEnds(conn[c]) :
                     \A j \in NextLineEnds(conn[c]) : i <= j
           line == SubSeq(conn[c].buffer, conn[c].begin + 1, end - 1)
       IN  \E decision \in LineDecisions(line) :
              /\ conn' = [conn EXCEPT ![c].at = "answer", ![c].end = end,
                             ![c].handled = Append(@, [line |-> line, decision |-> decision])]
              /\ engine' = IF Parses(line) THEN AppliedTo(engine, Value(line), decision)
                           ELSE engine
    /\ UNCHANGED <<main, transport, config, plan, replication, publisher, handoff,
                   journal, control, detector, stop_control, listener>>

WriteAnswer(c) ==
    /\ conn[c].at = "answer"
    /\ conn' = [conn EXCEPT ![c].at = "scan", ![c].begin = conn[c].end, ![c].end = 0]
    /\ UNCHANGED <<listener, rtVars>>

(* write_all fails: the line was applied and the peer is not told *)
WriteFails(c) ==
    /\ conn[c].at = "answer"
    /\ conn' = [conn EXCEPT ![c].at = "closed"]
    /\ UNCHANGED <<listener, rtVars>>

(* The bytes of the unfinished line move to the front of the buffer; a      *)
(* mutated form shortens the buffer but moves nothing.                      *)
KeptUnmoved(s) == SubSeq(s.buffer, 1, Len(s.buffer) - s.begin)
Kept(s) == SubSeq(s.buffer, s.begin + 1, Len(s.buffer))

(* No newline is left: compact, and give up on a line that fills the buffer *)
Compact(c) ==
    /\ conn[c].at = "scan" /\ NextLineEnds(conn[c]) = {}
    /\ conn' = [conn EXCEPT ![c].at = IF Len(Kept(conn[c])) = BufferSize
                                      THEN "overlong" ELSE "read",
                            ![c].buffer = Kept(conn[c]), ![c].begin = 0]
    /\ UNCHANGED <<listener, rtVars>>

SessionStep(c) ==
    /\ main # "exited"
    /\ \/ Read(c) \/ ReadEnds(c) \/ ApplyLine(c) \/ WriteAnswer(c) \/ WriteFails(c)
       \/ Compact(c)

-----------------------------------------------------------------------------
(* What a peer is told.                                                    *)

(* The k-th line of a stream, by position only *)
LineEnd(s, k) == CHOOSE i \in LineEnds(s) : Cardinality({j \in LineEnds(s) : j <= i}) = k
Line(s, k) ==
    SubSeq(s, IF k = 1 THEN 1 ELSE LineEnd(s, k - 1) + 1, LineEnd(s, k) - 1)
Received(s) == SubSeq(s.sent, 1, Len(s.sent) - Len(s.rest))

(* The bytes after the last complete line *)
Unfinished(s) == SubSeq(s, Cardinality({i \in DOMAIN s :
                              \E j \in LineEnds(s) : i <= j}) + 1, Len(s))

(* However read() cuts a stream, a session handles the lines of the stream, *)
(* in order and each once; it never accepts or redirects one that is not a  *)
(* number in range; when it reads again it has handled every complete line  *)
(* received and holds exactly the bytes of the unfinished one; and it gives *)
(* up only on a line that really does not fit in the buffer.                *)
AnswersMatchLines ==
    \A c \in Connections :
        LET s == conn[c]
            lines == Cardinality(LineEnds(Received(s)))
        IN  /\ Len(s.handled) <= lines
            /\ \A k \in DOMAIN s.handled :
                  /\ s.handled[k].line = Line(s.sent, k)
                  /\ ~Parses(s.handled[k].line) => s.handled[k].decision = "Rejected"
            /\ s.at \in {"read", "overlong"} =>
                  Len(s.handled) = lines /\ s.buffer = Unfinished(Received(s))
            /\ s.at = "overlong" => Len(Unfinished(Received(s))) >= BufferSize
=============================================================================
