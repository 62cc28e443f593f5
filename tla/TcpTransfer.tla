---------------------------- MODULE TcpTransfer -----------------------------
(***************************************************************************)
(* Two hosts and one direction of a connection between them: TcpSend on    *)
(* the one, TcpReceive on the other, and a network that loses, delays and  *)
(* reorders segments and ACKs.  Here the window probes, retransmissions    *)
(* and delayed ACKs of the two halves meet each other, and copies that     *)
(* retransmission has made of one segment arrive in any order.             *)
(*                                                                         *)
(* The hosts share nothing but the network, so that the steps of a handler *)
(* on the one commute with those on the other: one handler runs at a time. *)
(* Memory suffices and sends succeed here; TcpSend and TcpReceive have     *)
(* runs in which they do not.                                              *)
(***************************************************************************)
EXTENDS TcpSeq, Sequences, FiniteSets

CONSTANTS
  ISS,                         \* sequence number of the first byte
  TCP_MSS, TCP_WND, TCP_WND_UPDATE_THRESHOLD,
  TCP_SND_BUF, TCP_SND_QUEUELEN, TCP_MAXRTX, NrtxWidth, INITIAL_CWND,
  WriteLens,                   \* lengths the application passes to tcp_write
  MaxWritten,                  \* bound: bytes the application writes
  MaxSegments, MaxAcks         \* bounds: segments and ACKs in the network

ASSUME TransferAssumption == {MaxSegments, MaxAcks} \subseteq Nat \ {0}

VARIABLES
  \* the sender: TcpSend
  snd_state, snd_pc, unsent, unacked, snd_nxt, lastack, snd_lbb, snd_buf,
  unsent_oversize, misplaced, snd_wnd, snd_wl2, cwnd, ssthresh, dupacks, acked, nrtx,
  rtime, rtseq, flags, persist, written, reported, wire_end,
  \* the receiver: TcpReceive
  rcv_state, rcv_pc, rcv_nxt, rcv_wnd, rcv_ann_wnd, rcv_ann_right_edge, ooseq,
  refused_data, refused_fin, ackflags, inseg, recv_data, got_fin, delivered,
  unread, eof, last_ack,
  \* the network
  segments,                    \* data on its way
  acks                         \* ACKs on their way

sndVars == <<snd_state, snd_pc, unsent, unacked, snd_nxt, lastack, snd_lbb,
             snd_buf, unsent_oversize, misplaced, snd_wnd, snd_wl2, cwnd, ssthresh,
             dupacks, acked, nrtx, rtime, rtseq, flags, persist, written, reported, wire_end>>
rcvVars == <<rcv_state, rcv_pc, rcv_nxt, rcv_wnd, rcv_ann_wnd, rcv_ann_right_edge,
             ooseq, refused_data, refused_fin, ackflags, inseg, recv_data, got_fin,
             delivered, unread, eof, last_ack>>
vars == <<sndVars, rcvVars, segments, acks>>

S == INSTANCE TcpSend WITH
       state <- snd_state, pc <- snd_pc, SND_WND_MAX <- TCP_WND,
       MaxWnd <- Half - 1, NODELAY <- FALSE, SendErrors <- FALSE,
       StraySegments <- FALSE, PeerSends <- FALSE, PeerWnds <- 0 .. TCP_WND

R == INSTANCE TcpReceive WITH
       state <- rcv_state, pc <- rcv_pc, ISN <- ISS, N <- MaxWritten,
       SendErrors <- {}

-----------------------------------------------------------------------------
(***************************************************************************)
(* The network.  What does not fit is lost.                                *)
(***************************************************************************)
Sent(net, m, max) == IF Cardinality(net \cup {m}) <= max THEN net \cup {m} ELSE net

\* The segment as the receiver sees it: stream position, length and FIN.
OnWire(s) == R!StreamSegment(S!Offset(s.seqno), s.len, s.fin)

\* tcp_zero_window_probe: the first byte of the first segment, or its FIN.
Probe(s) == R!StreamSegment(S!Offset(s.seqno), S!LWIP_MIN(s.len, 1), s.len = 0)

Quiet == snd_pc = "idle" /\ rcv_pc = "idle"

Lose ==
  /\ Quiet
  /\ \/ \E m \in segments : segments' = segments \ {m} /\ UNCHANGED acks
     \/ \E m \in acks : acks' = acks \ {m} /\ UNCHANGED segments
  /\ UNCHANGED <<sndVars, rcvVars>>

-----------------------------------------------------------------------------
(***************************************************************************)
(* The sender.                                                             *)
(***************************************************************************)
SndOnly == UNCHANGED <<rcvVars, segments, acks>>

Write ==
  /\ rcv_pc = "idle"
  /\ \/ \E len \in WriteLens : S!tcp_write(len)
     \/ S!ShutdownPiggyback
     \/ S!ShutdownEnqueue
  /\ SndOnly

\* The application after a write, or the poll of tcp_slowtmr.
CallOutput == Quiet /\ S!tcp_output /\ SndOnly

OutputSegment ==
  /\ S!OutputSegment
  /\ segments' = Sent(segments, OnWire(unsent[1]), MaxSegments)
  /\ UNCHANGED <<rcvVars, acks>>

SndHandler ==
  \/ OutputSegment
  \/ (S!OutputDone \/ S!InputOutput) /\ SndOnly

DeliverAck(a) ==
  /\ Quiet /\ a \in acks
  /\ S!tcp_receive([ackno |-> a.ackno, wnd |-> a.wnd, age |-> "same", kind |-> "empty"])
  /\ UNCHANGED <<rcvVars, segments>>

ProbeWindow ==
  /\ Quiet
  /\ S!SlowtmrProbe
  /\ segments' = Sent(segments, Probe((unacked \o unsent)[1]), MaxSegments)
  /\ UNCHANGED <<rcvVars, acks>>

Rexmit == Quiet /\ S!SlowtmrRexmit /\ SndOnly

Remove == Quiet /\ S!SlowtmrRemove /\ SndOnly

-----------------------------------------------------------------------------
(***************************************************************************)
(* The receiver.  The steps in which an ACK leaves (tcp_send_empty_ack),   *)
(* and those in which none does.                                           *)
(***************************************************************************)
DeliverSegment(m) ==
  /\ Quiet /\ m \in segments
  /\ R!tcp_input(m)
  /\ UNCHANGED <<sndVars, acks>>

AckLeaves ==
  /\ acks' = Sent(acks, last_ack', MaxAcks)
  /\ UNCHANGED <<sndVars, segments>>

NoAckLeaves == UNCHANGED <<sndVars, segments, acks>>

RcvHandler ==
  \/ /\ \/ R!ReceiveOutOfWindow("ok")
        \/ R!QueueFirst("ok") \/ R!QueueInOrder("ok")
        \/ "NOW" \in ackflags /\ R!InputOutput("ok")
     /\ AckLeaves
  \/ /\ \/ R!ReceiveNoText \/ R!ReceiveInSequence
        \/ R!DrainOoseq \/ R!DrainAssertFails \/ R!DrainDone
        \/ R!RecvNothing \/ R!InputClosed
        \/ \E k \in 0 .. TCP_WND : R!RecvTaken(k)
        \/ "NOW" \notin ackflags /\ R!InputOutput("ok")
     /\ NoAckLeaves

DelayedAck == Quiet /\ R!FasttmrAck("ok") /\ AckLeaves

\* The application reports what it holds as processed; MCReceive has the
\* applications that do so piece by piece.
Recved ==
  /\ Quiet
  /\ R!tcp_recved(unread, "ok")
  /\ IF R!UpdateDue(unread) THEN AckLeaves ELSE NoAckLeaves

DropOoseq == Quiet /\ R!SlowtmrDropOoseq /\ NoAckLeaves

-----------------------------------------------------------------------------
Init ==
  /\ S!Init /\ snd_state = "ESTABLISHED"
  /\ R!Init
  /\ segments = {} /\ acks = {}

Arrives(m) == DeliverSegment(m) /\ segments' = segments \ {m}

AckArrives(a) == DeliverAck(a) /\ acks' = acks \ {a}

Next ==
  \/ Write \/ CallOutput \/ SndHandler \/ ProbeWindow \/ Rexmit \/ Remove
  \/ RcvHandler \/ DelayedAck \/ Recved \/ DropOoseq
  \/ Lose
  \/ \E m \in segments : Arrives(m)
  \/ \E a \in acks : AckArrives(a)

(***************************************************************************)
(* Handlers run to their end.  The two timers and the application come     *)
(* round again and again, and a network that is used again and again lets  *)
(* something through.  Nobody has to write, and no connection has to be    *)
(* removed but one that was retried TCP_MAXRTX times.                      *)
(***************************************************************************)
\* What tcp_slowtmr finds to do: give up, probe, retransmit, poll.
SlowTick ==
  IF ~S!Retrying THEN Remove
  ELSE IF persist THEN ProbeWindow
  ELSE IF rtime THEN Rexmit
  ELSE CallOutput

\* The delayed ACK of tcp_fasttmr; the application processes what it holds.
FastTick == IF "DELAY" \in ackflags THEN DelayedAck ELSE Recved

Fairness ==
  /\ WF_vars(SndHandler) /\ WF_vars(RcvHandler)
  /\ SF_vars(SlowTick) /\ SF_vars(FastTick)
  /\ SF_vars(\E m \in segments : Arrives(m))
  /\ SF_vars(\E a \in acks : AckArrives(a))

Spec == Init /\ [][Next]_vars /\ Fairness

-----------------------------------------------------------------------------
(***************************************************************************)
(* Properties.                                                             *)
(***************************************************************************)
\* What TcpReceive assumes of its peer is what TcpSend does over this network:
\* every segment on its way is a piece of the stream that ends within the
\* announced window, but for a probe and a FIN.  The sender itself never goes
\* past the window it has heard of: the ACKs of a receiver that sends no data
\* all have one seqno, so each new one updates the window.
PeerOfReceiver ==
  /\ \A m \in segments :
       /\ R!PeerMaySend(m)
       /\ m.off + m.len <= written
       /\ m.fin => m.off + m.len = written
  /\ S!SentWithinWindow

\* What TcpSend assumes of its peer is what TcpReceive does over this network:
\* an ACK, however late, acknowledges nothing that has not left, and does not
\* take back the window.
PeerOfSender ==
  \A a \in acks :
    /\ S!Offset(a.ackno) <= wire_end
    /\ S!PeerMaySend([ackno |-> a.ackno, wnd |-> a.wnd, age |-> "same", kind |-> "empty"])

Stream == INSTANCE ReliableStream WITH
            Last <- MaxWritten, closed <- "FIN" \in flags,
            arrived <- Len(delivered) + Len(recv_data), ended <- eof,
            givenUp <- snd_state = "ABORTED" \/ rcv_pc = "assert_failed"

\* The two halves over a network that loses and reorders make a reliable stream:
\* nothing is reported before it arrived, the end comes last, and everything
\* written arrives, is reported and, once the sender has closed, ends, unless
\* the connection is given up (tcp_slowtmr removes it, or the assertion of
\* AssertsHold stops the receiver).
IsReliableStream == Stream!Spec

\* What one host running this code sends never makes an assertion of the other
\* fail: "ooseq tcplen > rcv_wnd" of tcp_receive holds for every FIN.
AssertsHold == rcv_pc # "assert_failed"
=============================================================================
