------------------------------ MODULE TcpConn ------------------------------
(***************************************************************************)
(* The life of connections between two hosts: tcp_connect and the three-   *)
(* way handshake, demultiplexing by connection id, resets, the closing     *)
(* handshake, TIME_WAIT, and what tcp_slowtmr does to half-open, idle and  *)
(* closing connections.  The network loses, delays and reorders segments;  *)
(* copies of a SYN, SYN|ACK or FIN come from its retransmission.  The      *)
(* server may die at any time.                                             *)
(*                                                                         *)
(* Segments carry SYN, ACK, FIN and RST but no data (TcpSend, TcpReceive   *)
(* and TcpTransfer are about data), so every segment fits the windows and  *)
(* tcp_output sends whatever is queued; the fast retransmission of a FIN,  *)
(* which only resends it earlier, is left out.  One tick of the model is   *)
(* one retransmission time-out, and the other time-outs are counted in it. *)
(* A segment that is lost is one that is never delivered, or one that the  *)
(* network drops because too many are under way.                           *)
(***************************************************************************)
EXTENDS Integers, FiniteSets, FiniteSetsExt

CONSTANTS
    Client,               \* the host that calls tcp_connect
    Server,               \* the host with a listening PCB
    TCP_WND,              \* receive window
    TCP_MAXRTX,           \* retransmissions before a connection is given up
    TCP_SYNMAXRTX,        \* the same for a SYN
    SYN_RCVD_TIMEOUT,     \* time-outs, in ticks
    FIN_WAIT_TIMEOUT,
    TWO_MSL,
    KEEP_IDLE,            \* idle time before the first keepalive probe
    KEEP_INTVL,           \* and between probes
    KEEP_DUR,             \* how long an unanswered connection is probed
    IssSteps,             \* how far tcp_next_iss may advance
    MaxConnects,          \* bound: calls of tcp_connect
    MaxAccepts,           \* bound: PCBs the listener allocates
    MaxUnderWay           \* bound: segments under way, more are lost

Hosts == {Client, Server}
Peer(h) == CHOOSE g \in Hosts : g # h

\* The first tcp_port and tcp_server_id handed out.
FirstPort == 1
FirstId == 2
Ports == FirstPort..(FirstPort + MaxConnects - 1)
Ids == {FirstId + 2 * k : k \in 0..(MaxAccepts - 1)}

\* Beyond this age every time-out has struck.
MaxAge == Max({SYN_RCVD_TIMEOUT, FIN_WAIT_TIMEOUT, TWO_MSL, KEEP_IDLE + KEEP_DUR}) + 1

ASSUME ConnAssumption ==
    /\ Client # Server
    /\ {TCP_MAXRTX, TCP_SYNMAXRTX, TCP_WND, KEEP_INTVL} \subseteq Nat \ {0}
    /\ {SYN_RCVD_TIMEOUT, FIN_WAIT_TIMEOUT, TWO_MSL, KEEP_IDLE, KEEP_DUR} \subseteq Nat
    /\ IssSteps \subseteq Nat
    /\ {MaxConnects, MaxAccepts, MaxUnderWay} \subseteq Nat

VARIABLES
    pcbs,      \* the PCBs of each host, on the active and the TIME_WAIT list
    status,    \* of the host's process: "up", "dead", or "fault" by a bad access
    iss,       \* the static variable of tcp_next_iss, per host
    port,      \* tcp_port of the client
    serverId,  \* tcp_server_id of the server
    net,       \* segments under way
    made,      \* history: connections the client's application was told of
    closed     \* history: <<host, c1, c2>> closed by the application there

vars == <<pcbs, status, iss, port, serverId, net, made, closed>>

----------------------------------------------------------------------------
(* Segments and PCBs.                                                      *)

Flags == {"SYN", "ACK", "FIN", "RST"}
States == {"SYN_SENT", "SYN_RCVD", "ESTABLISHED", "FIN_WAIT_1", "FIN_WAIT_2",
           "CLOSE_WAIT", "CLOSING", "LAST_ACK", "TIME_WAIT"}

Segment(h, c1, c2, flags, seqno, ackno) ==
    [to |-> Peer(h), c1 |-> c1, c2 |-> c2, flags |-> flags, seqno |-> seqno, ackno |-> ackno]

\* SYN and FIN take one sequence number.
tcplen(m) == IF m.flags \cap {"SYN", "FIN"} # {} THEN 1 ELSE 0

\* tcp_output sends a queued SYN or FIN, with an ACK unless in SYN_SENT.
OutputSegment(h, p, q) ==
    Segment(h, q.c1, q.c2, {q.flag} \cup (IF p.st = "SYN_SENT" THEN {} ELSE {"ACK"}),
            q.seqno, IF p.st = "SYN_SENT" THEN 0 ELSE p.rcv_nxt)

Unacked(h, p) == {OutputSegment(h, p, q) : q \in p.unacked}

\* An empty ACK, and a keepalive probe, which lies one below snd_nxt.
EmptyAck(h, p) == Segment(h, p.c1, p.c2, {"ACK"}, p.snd_nxt, p.rcv_nxt)
Keepalive(h, p) == Segment(h, p.c1, p.c2, {"ACK"}, p.snd_nxt - 1, p.rcv_nxt)

\* tcp_rst: a reset with the connection id it is given.
Reset(h, c1, c2, seqno, ackno) == Segment(h, c1, c2, {"RST", "ACK"}, seqno, ackno)
ResetFor(h, p, m) == Reset(h, p.c1, p.c2, m.ackno, m.seqno + tcplen(m))

\* tcp_enqueue_flags: a SYN or FIN is queued with the id the PCB has now.
Enqueue(p, flag, seqno) ==
    [p EXCEPT !.unacked = @ \cup {[flag |-> flag, seqno |-> seqno, c1 |-> p.c1, c2 |-> p.c2]},
              !.snd_nxt = seqno + 1]

Between(x, a, b) == a <= x /\ x <= b

\* A PCB as tcp_alloc leaves it.
NewPcb(st, c1, c2, n) ==
    [st |-> st, c1 |-> c1, c2 |-> c2, snd_nxt |-> n, lastack |-> n, rcv_nxt |-> 0,
     unacked |-> {}, nrtx |-> 0, age |-> 0, keep |-> 0, rxclosed |-> FALSE]

Replace(h, p, q) == [pcbs EXCEPT ![h] = (@ \ {p}) \cup {q}]
Without(h, p) == [pcbs EXCEPT ![h] = @ \ {p}]

Active(h) == {p \in pcbs[h] : p.st # "TIME_WAIT"}
TimeWait(h) == pcbs[h] \ Active(h)

\* The network takes what it can hold of the segments under way and sent.
Carried(segments) ==
    IF Cardinality(segments) <= MaxUnderWay
      THEN {segments}
      ELSE {kept \in SUBSET segments : Cardinality(kept) = MaxUnderWay}

Sends(out) == net' \in Carried(net \cup out)

----------------------------------------------------------------------------
(* The applications.                                                       *)

Init ==
    /\ pcbs = [h \in Hosts |-> {}]
    /\ status = [h \in Hosts |-> "up"]
    /\ iss = [h \in Hosts |-> 1]
    /\ port = FirstPort
    /\ serverId = FirstId - 2
    /\ net = {}
    /\ made = {}
    /\ closed = {}

\* tcp_connect: a fresh port is the first half of the id, the second is 0
\* until the server has chosen it.  The SYN lies one below snd_nxt.
tcp_connect ==
    /\ status[Client] = "up"
    /\ port \in Ports
    /\ port' = port + 1
    /\ \E d \in IssSteps :
          LET n == iss[Client] + d
              p == Enqueue([NewPcb("SYN_SENT", port, 0, n) EXCEPT !.lastack = n - 1], "SYN", n - 1)
          IN /\ iss' = [iss EXCEPT ![Client] = n]
             /\ pcbs' = [pcbs EXCEPT ![Client] = @ \cup {p}]
             /\ Sends(Unacked(Client, p))
    /\ UNCHANGED <<status, serverId, made, closed>>

\* An application owns its PCB from tcp_connect, or from the accept callback,
\* until it closes or aborts it.
Owned(p) == ~p.rxclosed /\ p.st \notin {"SYN_RCVD", "TIME_WAIT"}

\* tcp_close: frees a PCB in SYN_SENT, otherwise queues a FIN and sends it.
tcp_close(h, p) ==
    /\ status[h] = "up"
    /\ Owned(p)
    /\ IF p.st = "SYN_SENT"
       THEN /\ pcbs' = Without(h, p)
            /\ UNCHANGED <<net, closed>>
       ELSE LET q == Enqueue([p EXCEPT !.rxclosed = TRUE,
                                       !.st = IF @ = "ESTABLISHED" THEN "FIN_WAIT_1" ELSE "LAST_ACK"],
                             "FIN", p.snd_nxt)
                fin == CHOOSE s \in q.unacked : s.flag = "FIN"
            IN /\ pcbs' = Replace(h, p, q)
               /\ Sends({OutputSegment(h, q, fin)})
               /\ closed' = closed \cup {<<h, p.c1, p.c2>>}
    /\ UNCHANGED <<status, iss, port, serverId, made>>

\* tcp_abort: frees the PCB and resets the peer.
tcp_abort(h, p) ==
    /\ status[h] = "up"
    /\ Owned(p)
    /\ pcbs' = Without(h, p)
    /\ Sends({Reset(h, p.c1, p.c2, p.snd_nxt, p.rcv_nxt)})
    /\ UNCHANGED <<status, iss, port, serverId, made, closed>>

\* The server's machine or process stops; its PCBs and what is sent to it are
\* gone.  (The client can die by its own fault, see InputNoMatch.)
Crash ==
    /\ status[Server] = "up"
    /\ status' = [status EXCEPT ![Server] = "dead"]
    /\ pcbs' = [pcbs EXCEPT ![Server] = {}]
    /\ net' = {m \in net : m.to # Server}
    /\ UNCHANGED <<iss, port, serverId, made, closed>>

----------------------------------------------------------------------------
(* tcp_input.                                                              *)

\* A segment arrives and the answers to it are under way.
Arrives(h, m) == status[h] = "up" /\ m \in net /\ m.to = h

Answers(m, out) == net' \in Carried((net \ {m}) \cup out)

\* Mutant of Matches: the second half of the id is not compared.
MatchesPort(p, m) == p.c1 = m.c1

\* The demultiplexing test.  A PCB in SYN_SENT does not know the second half
\* of its id yet.
Matches(p, m) == p.c1 = m.c1 /\ (p.st = "SYN_SENT" \/ p.c2 = m.c2)

Matching(h, m) == {p \in Active(h) : Matches(p, m)}
MatchingTimeWait(h, m) == {p \in TimeWait(h) : p.c1 = m.c1 /\ p.c2 = m.c2}

\* A reset must acknowledge the SYN, or lie in the receive window.
Acceptable(p, m) ==
    IF p.st = "SYN_SENT" THEN m.ackno = p.snd_nxt
                         ELSE Between(m.seqno, p.rcv_nxt, p.rcv_nxt + TCP_WND)

InputReset(h, p, m) ==
    /\ Arrives(h, m)
    /\ p \in Matching(h, m)
    /\ "RST" \in m.flags
    /\ pcbs' = IF Acceptable(p, m) THEN Without(h, p) ELSE pcbs
    /\ Answers(m, {})
    /\ UNCHANGED <<status, iss, port, serverId, made, closed>>

\* A SYN for a synchronised connection is only acknowledged.
InputStraySyn(h, p, m) ==
    /\ Arrives(h, m)
    /\ p \in Matching(h, m)
    /\ "RST" \notin m.flags /\ "SYN" \in m.flags
    /\ p.st \notin {"SYN_SENT", "SYN_RCVD"}
    /\ Answers(m, {EmptyAck(h, p)})
    /\ UNCHANGED <<pcbs, status, iss, port, serverId, made, closed>>

\* The part of tcp_process before the switch: the PCB has been active, unless
\* the application has closed it.
Touched(p) == [p EXCEPT !.age = IF p.rxclosed THEN @ ELSE 0, !.keep = 0]

AcksSyn(p, m) == \E s \in p.unacked : s.flag = "SYN" /\ m.ackno = s.seqno + 1

InputSynSent(h, p, m) ==
    /\ Arrives(h, m)
    /\ p \in Matching(h, m)
    /\ p.st = "SYN_SENT" /\ "RST" \notin m.flags
    /\ IF {"SYN", "ACK"} \subseteq m.flags /\ AcksSyn(p, m)
       THEN LET q == [Touched(p) EXCEPT !.st = "ESTABLISHED", !.c2 = m.c2, !.rcv_nxt = m.seqno + 1,
                                        !.lastack = m.ackno, !.unacked = {}]
            IN /\ pcbs' = Replace(h, p, q)
               /\ made' = made \cup {<<q.c1, q.c2>>}
               /\ Answers(m, {EmptyAck(h, q)})
       ELSE /\ pcbs' = Replace(h, p, Touched(p))
            /\ made' = made
            /\ Answers(m, IF "ACK" \in m.flags THEN {ResetFor(h, p, m)} ELSE {})
    /\ UNCHANGED <<status, iss, port, serverId, closed>>

\* tcp_receive: the ACK, then the FIN.  gotFin is recv_flags & TF_GOT_FIN, ack
\* tells whether an ACK is sent before tcp_input returns.
AckNew(p, m) == Between(m.ackno, p.lastack + 1, p.snd_nxt)

\* Mutant of FinTaken: a copy of the FIN is taken again.
FinTakenAgain(p, m) == "FIN" \in m.flags /\ m.seqno <= p.rcv_nxt

\* After the FIN the rest of the stream is ignored.
FinTaken(p, m) ==
    /\ "FIN" \in m.flags
    /\ p.st \in {"ESTABLISHED", "FIN_WAIT_1", "FIN_WAIT_2"}
    /\ m.seqno = p.rcv_nxt

Received(p, m) ==
    LET acked == IF AckNew(p, m)
                 THEN [p EXCEPT !.lastack = m.ackno, !.nrtx = 0,
                                !.unacked = {s \in @ : s.seqno + 1 > m.ackno}]
                 ELSE p
    IN [pcb    |-> IF FinTaken(p, m) THEN [acked EXCEPT !.rcv_nxt = @ + 1] ELSE acked,
        gotFin |-> FinTaken(p, m),
        ack    |-> \/ FinTaken(p, m)
                   \/ m.ackno > p.snd_nxt
                   \/ ~Between(m.seqno, p.rcv_nxt, p.rcv_nxt + TCP_WND - 1)]

\* The accept callback of the application takes the connection or refuses it,
\* and then the connection is reset.  The branch for another copy of the SYN is
\* not reached: a SYN carries 0 where this PCB has its second id.
InputSynRcvd(h, p, m) ==
    /\ Arrives(h, m)
    /\ p \in Matching(h, m)
    /\ p.st = "SYN_RCVD" /\ "RST" \notin m.flags /\ "ACK" \in m.flags
    /\ IF AckNew(p, m)
       THEN \/ LET r == Received([Touched(p) EXCEPT !.st = "ESTABLISHED"], m)
               IN /\ pcbs' = Replace(h, p, [r.pcb EXCEPT !.st = IF r.gotFin THEN "CLOSE_WAIT" ELSE @])
                  /\ Answers(m, IF r.ack THEN {EmptyAck(h, r.pcb)} ELSE {})
            \/ /\ pcbs' = Without(h, p)
               /\ Answers(m, {Reset(h, p.c1, p.c2, p.snd_nxt, p.rcv_nxt)})
       ELSE /\ pcbs' = Replace(h, p, Touched(p))
            /\ Answers(m, {ResetFor(h, p, m)})
    /\ UNCHANGED <<status, iss, port, serverId, made, closed>>

\* Mutant of NextState: the ACK of the FIN ends FIN_WAIT_1 for good.
NextStateEarly(st, gotFin, finAcked) ==
    CASE st = "ESTABLISHED" -> IF gotFin THEN "CLOSE_WAIT" ELSE st
      [] st = "CLOSE_WAIT"  -> st
      [] st = "FIN_WAIT_1"  -> IF finAcked THEN "TIME_WAIT" ELSE IF gotFin THEN "CLOSING" ELSE st
      [] st = "FIN_WAIT_2"  -> IF gotFin THEN "TIME_WAIT" ELSE st
      [] st = "CLOSING"     -> IF finAcked THEN "TIME_WAIT" ELSE st
      [] st = "LAST_ACK"    -> IF finAcked THEN "freed" ELSE st

\* The state a synchronised connection goes to; "freed" stands for TF_CLOSED.
NextState(st, gotFin, finAcked) ==
    CASE st = "ESTABLISHED" -> IF gotFin THEN "CLOSE_WAIT" ELSE st
      [] st = "CLOSE_WAIT"  -> st
      [] st = "FIN_WAIT_1"  -> IF gotFin THEN IF finAcked THEN "TIME_WAIT" ELSE "CLOSING"
                                         ELSE IF finAcked THEN "FIN_WAIT_2" ELSE st
      [] st = "FIN_WAIT_2"  -> IF gotFin THEN "TIME_WAIT" ELSE st
      [] st = "CLOSING"     -> IF finAcked THEN "TIME_WAIT" ELSE st
      [] st = "LAST_ACK"    -> IF finAcked THEN "freed" ELSE st

\* tcp_pcb_purge empties the queues on the way to TIME_WAIT.
InputReceive(h, p, m) ==
    /\ Arrives(h, m)
    /\ p \in Matching(h, m)
    /\ p.st \notin {"SYN_SENT", "SYN_RCVD"} /\ m.flags \cap {"RST", "SYN"} = {}
    /\ LET r == Received(Touched(p), m)
           st == NextState(p.st, r.gotFin, m.ackno = p.snd_nxt)
           q == [r.pcb EXCEPT !.st = st, !.unacked = IF st = "TIME_WAIT" THEN {} ELSE @]
       IN /\ pcbs' = IF st = "freed" THEN Without(h, p) ELSE Replace(h, p, q)
          /\ Answers(m, IF r.ack /\ st # "freed" THEN {EmptyAck(h, q)} ELSE {})
    /\ UNCHANGED <<status, iss, port, serverId, made, closed>>

\* tcp_timewait_input: a FIN restarts the wait.
InputTimeWait(h, p, m) ==
    /\ Arrives(h, m)
    /\ Matching(h, m) = {}
    /\ p \in MatchingTimeWait(h, m)
    /\ LET restarts == m.flags \cap {"RST", "SYN"} = {} /\ "FIN" \in m.flags
           bad == "SYN" \in m.flags /\ Between(m.seqno, p.rcv_nxt, p.rcv_nxt + TCP_WND)
       IN /\ pcbs' = IF restarts THEN Replace(h, p, [p EXCEPT !.age = 0]) ELSE pcbs
          /\ Answers(m, IF "RST" \in m.flags \/ tcplen(m) = 0 THEN {}
                        ELSE IF bad THEN {ResetFor(h, p, m)} ELSE {EmptyAck(h, p)})
    /\ UNCHANGED <<status, iss, port, serverId, made, closed>>

NoMatch(h, m) == Matching(h, m) = {} /\ MatchingTimeWait(h, m) = {}

\* tcp_new_server_id: looks for an unused id and returns the next one.
NewServerId == serverId + 2

\* The PCB tcp_listen_input makes for a SYN, its SYN|ACK queued.
HalfOpen(m, id, n) ==
    Enqueue([NewPcb("SYN_RCVD", m.c1, id, n) EXCEPT !.rcv_nxt = m.seqno + 1], "SYN", n)

\* tcp_listen_input: an ACK is reset, a SYN makes a half-open connection and
\* is answered by SYN|ACK, the rest is ignored.
InputListen(m) ==
    /\ Arrives(Server, m)
    /\ NoMatch(Server, m)
    /\ \/ /\ "RST" \in m.flags
          /\ Answers(m, {})
          /\ UNCHANGED <<pcbs, iss, serverId>>
       \/ /\ "RST" \notin m.flags /\ "ACK" \in m.flags
          /\ Answers(m, {Reset(Server, m.c1, m.c2, m.ackno, m.seqno + tcplen(m))})
          /\ UNCHANGED <<pcbs, iss, serverId>>
       \/ /\ m.flags = {"SYN"}
          /\ NewServerId \in Ids
          /\ serverId' = NewServerId
          /\ \E d \in IssSteps :
                LET n == iss[Server] + d
                    p == HalfOpen(m, NewServerId, n)
                IN /\ iss' = [iss EXCEPT ![Server] = n]
                   /\ pcbs' = [pcbs EXCEPT ![Server] = @ \cup {p}]
                   /\ Answers(m, Unacked(Server, p))
    /\ UNCHANGED <<status, port, made, closed>>

\* With no PCB and no listener tcp_input resets the sender, but takes the
\* connection id for tcp_rst from the PCB pointer, which is NULL.
InputNoMatch(m) ==
    /\ Arrives(Client, m)
    /\ NoMatch(Client, m)
    /\ Answers(m, {})
    /\ IF "RST" \in m.flags
       THEN UNCHANGED <<pcbs, status>>
       ELSE /\ status' = [status EXCEPT ![Client] = "fault"]
            /\ pcbs' = [pcbs EXCEPT ![Client] = {}]
    /\ UNCHANGED <<iss, port, serverId, made, closed>>

----------------------------------------------------------------------------
(* tcp_slowtmr, one PCB at a time and then all of them.                    *)

Older(p) == [p EXCEPT !.age = Min({@ + 1, MaxAge})]

\* Mutant of GivenUp: one retransmission too many.
GivenUpLate(p) == p.nrtx > TCP_MAXRTX \/ (p.st = "SYN_SENT" /\ p.nrtx = TCP_SYNMAXRTX)

GivenUp(p) == p.nrtx = TCP_MAXRTX \/ (p.st = "SYN_SENT" /\ p.nrtx = TCP_SYNMAXRTX)

Retransmits(p) == ~GivenUp(p) /\ p.unacked # {}

\* Mutant of IdleTooLong: an idle connection is ended only once the peer closed.
IdleTooLongHalf(p) == p.st = "CLOSE_WAIT" /\ p.age > KEEP_IDLE + KEEP_DUR

\* The connection has not been heard of for too long, for its state.
IdleTooLong(p) == p.st \in {"ESTABLISHED", "CLOSE_WAIT"} /\ p.age > KEEP_IDLE + KEEP_DUR

Stuck(p) ==
    \/ p.st = "FIN_WAIT_2" /\ p.rxclosed /\ p.age > FIN_WAIT_TIMEOUT
    \/ p.st = "SYN_RCVD" /\ p.age > SYN_RCVD_TIMEOUT
    \/ p.st \in {"LAST_ACK", "TIME_WAIT"} /\ p.age > TWO_MSL

Probes(p) ==
    /\ p.st \in {"ESTABLISHED", "CLOSE_WAIT"}
    /\ ~IdleTooLong(p)
    /\ p.age > KEEP_IDLE + p.keep * KEEP_INTVL

Removed(p) == GivenUp(p) \/ IdleTooLong(p) \/ Stuck(p)

\* What becomes of an old PCB p that stays, and what is sent for it.
Ticked(p) == [p EXCEPT !.nrtx = IF Retransmits(p) THEN @ + 1 ELSE @,
                       !.keep = IF Probes(p) THEN @ + 1 ELSE @]

TickSends(h, p) ==
    (IF Retransmits(p) THEN Unacked(h, p) ELSE {})
        \cup (IF Probes(p) THEN {Keepalive(h, p)} ELSE {})
        \cup (IF IdleTooLong(p) THEN {Reset(h, p.c1, p.c2, p.snd_nxt, p.rcv_nxt)} ELSE {})

tcp_slowtmr(h) ==
    /\ status[h] = "up"
    /\ pcbs[h] # {}
    /\ LET old == {Older(p) : p \in pcbs[h]}
       IN /\ pcbs' = [pcbs EXCEPT ![h] = {Ticked(p) : p \in {q \in old : ~Removed(q)}}]
          /\ Sends(UNION {TickSends(h, p) : p \in old})
    /\ UNCHANGED <<status, iss, port, serverId, made, closed>>

----------------------------------------------------------------------------
Input(h, m) ==
    \/ \E p \in pcbs[h] :
          \/ InputReset(h, p, m)
          \/ InputStraySyn(h, p, m)
          \/ InputSynSent(h, p, m)
          \/ InputSynRcvd(h, p, m)
          \/ InputReceive(h, p, m)
          \/ InputTimeWait(h, p, m)
    \/ h = Server /\ InputListen(m)
    \/ h = Client /\ InputNoMatch(m)

Next ==
    \/ tcp_connect
    \/ \E h \in Hosts :
          \/ \E p \in pcbs[h] : tcp_close(h, p) \/ tcp_abort(h, p)
          \/ \E m \in net : Input(h, m)
          \/ tcp_slowtmr(h)
    \/ Crash

\* The timer of a running host ticks; nothing obliges the network to deliver
\* a segment or an application to close a connection.
Fairness == \A h \in Hosts : WF_vars(tcp_slowtmr(h))

Spec == Init /\ [][Next]_vars /\ Fairness

----------------------------------------------------------------------------
(* Properties.                                                             *)

Pcb == [st : States, c1 : Ports, c2 : Ids \cup {0}, snd_nxt : Nat, lastack : Nat, rcv_nxt : Nat,
        unacked : SUBSET [flag : {"SYN", "FIN"}, seqno : Nat, c1 : Ports, c2 : Ids \cup {0}],
        nrtx : 0..TCP_MAXRTX, age : 0..MaxAge, keep : 0..(KEEP_DUR + 1), rxclosed : BOOLEAN]

\* Every variable has its type: the retransmissions and probes of a PCB stay
\* within the limits of tcp_slowtmr.
TypeOK ==
    /\ \A h \in Hosts : pcbs[h] \subseteq Pcb
    /\ status \in [Hosts -> {"up", "dead", "fault"}]
    /\ iss \in [Hosts -> Nat]
    /\ port \in Ports \cup {FirstPort + MaxConnects}
    /\ serverId \in Ids \cup {FirstId - 2}
    /\ \A m \in net : /\ m.to \in Hosts /\ m.c1 \in Ports /\ m.c2 \in Ids \cup {0}
                      /\ m.flags \subseteq Flags /\ m.seqno \in Nat /\ m.ackno \in Nat
    /\ made \subseteq Ports \X Ids
    /\ closed \subseteq Hosts \X Ports \X Ids

Synchronised(p) == p.st \notin {"SYN_SENT", "SYN_RCVD"}

\* The two ends of a connection agree on its sequence numbers: what one has
\* received lies between what the other knows to be acknowledged and what it
\* has sent, whichever copies of SYN and SYN|ACK arrived in which order.
Agreed ==
    \A h \in Hosts : \A p \in pcbs[h], q \in pcbs[Peer(h)] :
        (p.c1 = q.c1 /\ p.c2 = q.c2 /\ Synchronised(p)) => Between(p.rcv_nxt, q.lastack, q.snd_nxt)

\* The server's application is handed a connection only if the client's was:
\* the half-open PCBs that copies of a SYN leave behind are never accepted.
NoGhostAccept ==
    \A p \in pcbs[Server] : Synchronised(p) => <<p.c1, p.c2>> \in made

\* An application is told of the end of the stream only if the other one has
\* closed this very connection.
EofHonest ==
    \A h \in Hosts : \A p \in pcbs[h] :
        p.st \in {"CLOSE_WAIT", "CLOSING", "LAST_ACK", "TIME_WAIT"} => <<Peer(h), p.c1, p.c2>> \in closed

\* A connection is reset only when the other end has lost or given up its PCB:
\* no late or duplicated segment kills a connection that both ends still have.
ResetHonest ==
    [][\A h \in Hosts : \A p \in pcbs[h], m \in net :
          (InputReset(h, p, m) /\ Acceptable(p, m) /\ Synchronised(p))
             => ~\E q \in pcbs[Peer(h)] : q.c1 = p.c1 /\ q.c2 = p.c2]_vars

Has(h, c1, c2) == \E p \in pcbs[h] : p.c1 = c1 /\ p.c2 = c2

\* A PCB that the application has closed, or whose other end is gone (freed,
\* or its host dead), is freed in the end, whatever the network does: by the
\* closing handshake, a reset, or the keepalive and state time-outs.
AllEnd ==
    \A h \in Hosts, c1 \in Ports, c2 \in Ids :
        (\/ <<h, c1, c2>> \in closed
         \/ <<c1, c2>> \in made /\ ~Has(Peer(h), c1, c2)) ~> ~Has(h, c1, c2)

\* "If no matching PCB was found, send a TCP RST (reset) to the sender."
\* tcp_input survives a segment for no connection of a host without listener.
NoMatchSurvived == status[Client] # "fault"
=============================================================================
