--------------------------- MODULE TcpReceiveInv ----------------------------
(***************************************************************************)
(* The inductive invariant behind the theorems of TcpReceiveProof, as      *)
(* named parts that TLC checks too.  It looks at the PCB through stream    *)
(* positions: Received stands for rcv_nxt and Edge for the announced right *)
(* edge.                                                                   *)
(***************************************************************************)
EXTENDS TcpReceive

Edge == SeqSub(rcv_ann_right_edge, ISN)

\* Data bytes received in sequence.
Pos == Len(delivered) + Len(refused_data) + Len(recv_data)

\* A piece of the stream whose header tells the truth about its payload.
Truthful(s) ==
  /\ s \in Segment
  /\ ~s.syn
  /\ s.seqno = SeqAdd(ISN, s.off)
  /\ Genuine(s)

\* delivered, refused_data and recv_data cut the stream into three pieces.
Contents ==
  /\ \A i \in 1 .. Len(delivered) : delivered[i] = i
  /\ \A i \in 1 .. Len(refused_data) : refused_data[i] = Len(delivered) + i
  /\ \A i \in 1 .. Len(recv_data) :
       recv_data[i] = Len(delivered) + Len(refused_data) + i

\* The FIN is at one place at a time, and only when all data is there.
FinOnce ==
  /\ Pos <= N
  /\ eof \/ refused_fin \/ got_fin => Pos = N
  /\ ~(eof /\ refused_fin) /\ ~(eof /\ got_fin) /\ ~(refused_fin /\ got_fin)
  /\ eof \/ refused_fin => state = "CLOSE_WAIT"
  /\ eof => refused_data = <<>> /\ recv_data = <<>>

\* What the handler's place says about its local state.
Control ==
  /\ got_fin => pc \in {"drain", "recv", "closed", "assert_failed"}
  /\ got_fin /\ pc \in {"recv", "closed"} => state = "CLOSE_WAIT"
  /\ recv_data # <<>> => pc \in {"drain", "recv", "assert_failed"}
  /\ pc \in {"drain", "recv"} => refused_data = <<>> /\ ~eof /\ ~refused_fin
  /\ pc = "process" /\ TCP_TCPLEN(inseg) > 0 => refused_data = <<>>
  /\ inseg = SynSegment \/ Truthful(inseg)

\* The sequence numbers and windows of the PCB.
Numbers ==
  /\ rcv_nxt = SeqAdd(ISN, Received)
  /\ WindowConserved
  /\ Edge <= Received + rcv_ann_wnd
  /\ rcv_ann_wnd <= rcv_wnd
  /\ AckedBytesKept

\* A queue of pieces of the stream that all lie at or above low, in order,
\* without overlap, the FIN on the last one.
GoodQueue(q, low) ==
  /\ q \in Seq(Segment)
  /\ \A i \in 1 .. Len(q) :
       /\ Truthful(q[i])
       /\ TCP_TCPLEN(q[i]) > 0
       /\ q[i].fin => i = Len(q)
       /\ low <= q[i].off
  /\ \A i, j \in 1 .. Len(q) :
       i < j => q[i].off + TCP_TCPLEN(q[i]) <= q[j].off

\* Only while tcp_receive drains the queue may its head be in sequence.
QueueLow == IF pc \in {"drain", "assert_failed"} THEN Received ELSE Received + 1

Queue == GoodQueue(ooseq, QueueLow)

\* Inductive: every action of tcp_input, the timers and the application
\* preserves it.  It implies the safety properties of TcpReceive.
IInv == TypeOK /\ Contents /\ FinOnce /\ Control /\ Numbers /\ Queue
=============================================================================
