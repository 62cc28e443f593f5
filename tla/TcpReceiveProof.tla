-------------------------- MODULE TcpReceiveProof ---------------------------
(***************************************************************************)
(* TcpReceive keeps its safety properties for every stream length, window, *)
(* segment size and initial sequence number.                               *)
(***************************************************************************)
EXTENDS TcpReceiveLemmas

-----------------------------------------------------------------------------
(* Steps that leave the received stream alone. *)

\* No byte and no FIN moves between the network, the PCB and the application.
StreamKept ==
  /\ UNCHANGED <<delivered, refused_data, recv_data, got_fin, refused_fin, eof>>
  /\ state' \in {state, "CLOSE_WAIT"}

\* An ACK with window ann may have left, or may have been tried.
MayAck(ann) ==
  \/ UNCHANGED <<rcv_ann_right_edge, last_ack>>
  \/ \E res \in ResultsOfSend : AckOnWire(ann, res)

\* What StreamKept preserves.
LEMMA StreamKeptFacts ==
  ASSUME IInv, StreamKept
  PROVE  /\ Contents' /\ FinOnce'
         /\ Received' = Received /\ FinPending' = FinPending
<1>1. Pos' = Pos
  BY DEF StreamKept, Pos
<1>2. Received' = Received /\ FinPending' = FinPending
  BY DEF StreamKept, Received, FinPending
<1>3. Contents'
  BY DEF IInv, Contents, StreamKept
<1>4. FinOnce'
  BY <1>1 DEF IInv, FinOnce, StreamKept
<1>5. QED
  BY <1>2, <1>3, <1>4

\* Sending an ACK moves the announced edge forward, to the announced window.
LEMMA MayAckFacts ==
  ASSUME IInv, NEW ann \in 0 .. TCP_WND, Edge <= Received + ann, MayAck(ann),
         Received' = Received
  PROVE  /\ rcv_ann_right_edge' \in SeqNo
         /\ Edge' <= Received + ann /\ Edge <= Edge'
         /\ last_ack' \in [ackno : SeqNo, wnd : 0 .. TCP_WND]
         /\ AckedBytesKept'
<1> DEFINE r == Received
           e == r + ann
<1>1. /\ r \in Distance /\ r \in Nat /\ e \in Distance /\ e < Half /\ ann \in Distance
      /\ ISN \in SeqNo /\ rcv_nxt = SeqAdd(ISN, r) /\ Edge \in Nat
  BY NumberFacts, ReceiveAssumption, HalfAssumption DEF IInv, Numbers, Distance
<1>2. /\ rcv_ann_right_edge \in SeqNo
      /\ last_ack \in [ackno : SeqNo, wnd : 0 .. TCP_WND] /\ rcv_nxt \in SeqNo
      /\ SeqSub(last_ack.ackno, ISN) <= r
  BY DEF IInv, TypeOK, Numbers, AckedBytesKept
<1>3. SeqAdd(rcv_nxt, ann) = SeqAdd(ISN, e)
  BY <1>1, SeqAddAdd
<1> HIDE DEF e, r
<1>4. SeqAdd(ISN, e) \in SeqNo /\ SeqSub(SeqAdd(ISN, e), ISN) = e
  BY <1>1, SeqAddType, SeqSubBase
<1>5. SeqSub(rcv_nxt, ISN) = r
  BY <1>1, SeqSubBase
<1>6. CASE UNCHANGED <<rcv_ann_right_edge, last_ack>>
  <2>1. Edge' = Edge
    BY <1>6 DEF Edge
  <2>2. AckedBytesKept'
    BY <1>2, <1>6 DEF AckedBytesKept, r
  <2>3. QED
    BY <1>1, <1>2, <1>6, <2>1, <2>2
<1>7. ASSUME NEW res \in ResultsOfSend, AckOnWire(ann, res)
      PROVE  /\ rcv_ann_right_edge' \in SeqNo
             /\ Edge' <= Received + ann /\ Edge <= Edge'
             /\ last_ack' \in [ackno : SeqNo, wnd : 0 .. TCP_WND]
             /\ AckedBytesKept'
  <2>1. rcv_ann_right_edge' \in {rcv_ann_right_edge, SeqAdd(ISN, e)}
    BY <1>3, <1>7 DEF AckOnWire
  <2>2. Edge' \in {Edge, e}
    BY <1>4, <2>1 DEF Edge
  <2>3. last_ack' \in {last_ack, [ackno |-> rcv_nxt, wnd |-> ann]}
    BY <1>7 DEF AckOnWire
  <2>4. last_ack' \in [ackno : SeqNo, wnd : 0 .. TCP_WND]
    BY <1>2, <2>3
  <2>5. last_ack'.ackno \in {last_ack.ackno, rcv_nxt}
    BY <2>3
  <2>6. SeqSub(last_ack'.ackno, ISN) <= r
    BY <1>1, <1>2, <1>5, <2>5
  <2>7. AckedBytesKept'
    BY <2>6 DEF AckedBytesKept, r
  <2>8. Edge' <= e /\ Edge <= Edge'
    BY <1>1, <2>2 DEF e, r
  <2>9. QED
    BY <1>2, <1>4, <2>1, <2>4, <2>7, <2>8 DEF e, r
<1>8. QED
  BY <1>6, <1>7 DEF MayAck

\* A step that keeps the stream, the windows and rcv_nxt.
Quiet ==
  /\ StreamKept
  /\ UNCHANGED <<rcv_nxt, rcv_wnd, rcv_ann_wnd, delivered, unread>>
  /\ MayAck(rcv_ann_wnd)
  /\ ackflags' \subseteq {"DELAY", "NOW"}
  /\ pc' \in Places
  /\ inseg' \in Segment
  /\ ooseq' \in Seq(Segment)

\* All of the invariant but its parts about the handler and the queue.
LEMMA QuietStep ==
  ASSUME IInv, Quiet
  PROVE  /\ TypeOK' /\ Contents' /\ FinOnce' /\ Numbers'
         /\ Received' = Received /\ Edge <= Edge'
<1>1. Contents' /\ FinOnce' /\ Received' = Received /\ FinPending' = FinPending
  BY StreamKeptFacts DEF Quiet
<1>2. rcv_ann_wnd \in 0 .. TCP_WND /\ Edge <= Received + rcv_ann_wnd
  BY DEF IInv, TypeOK, Numbers
<1>3. /\ rcv_ann_right_edge' \in SeqNo
      /\ Edge' <= Received + rcv_ann_wnd /\ Edge <= Edge'
      /\ last_ack' \in [ackno : SeqNo, wnd : 0 .. TCP_WND]
      /\ AckedBytesKept'
  BY <1>1, <1>2, MayAckFacts DEF Quiet
<1>4. TypeOK'
  BY <1>3 DEF IInv, TypeOK, Quiet, StreamKept, States
<1>5. WindowConserved'
  BY <1>1 DEF IInv, Numbers, WindowConserved, Quiet, StreamKept
<1>6. Numbers'
  BY <1>1, <1>3, <1>5 DEF IInv, Numbers, Quiet
<1>7. QED
  BY <1>1, <1>3, <1>4, <1>6

\* The queue stays good when only its lower bound falls.
LEMMA QueueKept ==
  ASSUME IInv, Received' = Received, ooseq' = ooseq,
         pc \in {"drain", "assert_failed"} => pc' \in {"drain", "assert_failed"}
  PROVE  Queue'
<1>1. Received \in Nat
  BY NumberFacts
<1>2. \A i \in 1 .. Len(ooseq) : ooseq[i].off \in Nat
  BY QueuedFacts DEF SegmentFacts
<1>3. QueueLow \in Nat /\ QueueLow' \in Nat /\ QueueLow' <= QueueLow
  BY <1>1 DEF QueueLow
<1>4. GoodQueue(ooseq, QueueLow)
  BY DEF IInv, Queue
<1> DEFINE a == QueueLow
           b == QueueLow'
<1> HIDE DEF a, b
<1>5. a \in Nat /\ b \in Nat /\ b <= a /\ GoodQueue(ooseq, a)
  BY <1>3, <1>4 DEF a, b
<1>6. GoodQueue(ooseq, b)
  BY <1>2, <1>5 DEF GoodQueue
<1>7. Queue' = GoodQueue(ooseq', QueueLow')
  BY DEF Queue
<1>8. QED
  BY <1>6, <1>7 DEF b

\* Every segment the peer may send is the SYN or a piece of the stream.
LEMMA PeerFacts ==
  /\ SynSegment \in Segment
  /\ \A s \in PeerSegments : s \in Segment /\ (s = SynSegment \/ Truthful(s))
<1>1. SynSegment \in Segment
  <2>1. 1 \in SeqNo
    BY HalfAssumption DEF SeqNo, SeqMod
  <2>2. SeqSub(ISN, 1) \in SeqNo
    BY <2>1, ReceiveAssumption, SeqSubType
  <2>3. QED
    BY <2>2, ReceiveAssumption DEF SynSegment, Segment
<1>2. ASSUME NEW s \in StreamSegments, Genuine(s) PROVE Truthful(s)
  <2>1. PICK off \in 0 .. N + 1, len \in 0 .. TCP_MSS, fin \in BOOLEAN :
          s = StreamSegment(off, len, fin)
    BY DEF StreamSegments
  <2>2. off \in Distance
    BY ReceiveAssumption, HalfAssumption DEF Distance
  <2>3. SeqAdd(ISN, off) \in SeqNo
    BY <2>2, ReceiveAssumption, SeqAddType
  <2>4. /\ s \in Segment /\ s.syn = FALSE /\ s.seqno = SeqAdd(ISN, s.off)
    BY <2>1, <2>3, ReceiveAssumption DEF StreamSegment, Segment
  <2>5. QED
    BY <1>2, <2>4 DEF Truthful
<1>3. QED
  BY <1>1, <1>2 DEF PeerSegments, Truthful

-----------------------------------------------------------------------------
(* The invariant is inductive: one lemma per kind of step. *)

\* The steps that touch neither the stream nor the queue.
QuietAction ==
  \/ \E s \in PeerSegments : tcp_input(s)
  \/ InputRefusedAgain
  \/ ProcessSyn
  \/ ReceiveNoText
  \/ RecvNothing
  \/ ReceiveAssertFails
  \/ DrainAssertFails
  \/ FasttmrNoAck
  \/ FasttmrRefusedAgain
  \/ \E res \in ResultsOfSend :
       ReceiveOutOfWindow(res) \/ QueueNoMemory(res) \/ InputOutput(res)
         \/ FasttmrAck(res)

LEMMA QuietActionIsQuiet ==
  ASSUME IInv, QuietAction
  PROVE  /\ Quiet /\ ooseq' = ooseq /\ Control'
         /\ pc \in {"drain", "assert_failed"} => pc' \in {"drain", "assert_failed"}
<1> USE DEF Quiet, StreamKept, MayAck, pcbVars, appVars
<1>t. TypeOK /\ Control
  BY DEF IInv
<1>1. ASSUME NEW s \in PeerSegments, tcp_input(s)
      PROVE  /\ Quiet /\ ooseq' = ooseq /\ Control'
             /\ pc \in {"drain", "assert_failed"} => pc' \in {"drain", "assert_failed"}
  <2>1. recv_data = <<>> /\ ~got_fin
    BY <1>1, <1>t DEF tcp_input, Control
  <2>2. s \in Segment /\ (s = SynSegment \/ Truthful(s))
    BY PeerFacts
  <2>3. Quiet /\ ooseq' = ooseq
    BY <1>1, <1>t, <2>1, <2>2 DEF tcp_input, TypeOK, Places
  <2>4. Control'
    BY <1>1, <1>t, <2>2 DEF tcp_input, Control
  <2>5. QED
    BY <1>1, <2>3, <2>4 DEF tcp_input
<1>2. CASE InputRefusedAgain
  <2>1. Quiet /\ ooseq' = ooseq
    BY <1>2, <1>t, PeerFacts
       DEF InputRefusedAgain, RefusedAgain, NoSegment, TypeOK, Places
  <2>2. Control'
    BY <1>2, <1>t DEF InputRefusedAgain, RefusedAgain, NoSegment, Control
  <2>3. QED
    BY <1>2, <2>1, <2>2 DEF InputRefusedAgain
<1>3. CASE ProcessSyn
  <2>1. Quiet /\ ooseq' = ooseq
    BY <1>3, <1>t DEF ProcessSyn, tcp_ack_now, TypeOK, Places
  <2>2. Control'
    BY <1>3, <1>t DEF ProcessSyn, Control
  <2>3. QED
    BY <1>3, <2>1, <2>2 DEF ProcessSyn
<1>4. CASE ReceiveNoText
  <2>1. Quiet /\ ooseq' = ooseq
    BY <1>4, <1>t DEF ReceiveNoText, tcp_ack_now, TypeOK, Places
  <2>2. Control'
    BY <1>4, <1>t DEF ReceiveNoText, ToReceive, Control
  <2>3. QED
    BY <1>4, <2>1, <2>2 DEF ReceiveNoText, ToReceive
<1>5. CASE RecvNothing
  <2>1. Quiet /\ ooseq' = ooseq
    BY <1>5, <1>t DEF RecvNothing, TypeOK, Places
  <2>2. Control'
    BY <1>5, <1>t DEF RecvNothing, Control
  <2>3. QED
    BY <1>5, <2>1, <2>2 DEF RecvNothing
<1>6. CASE ReceiveAssertFails \/ DrainAssertFails
  <2>1. Quiet /\ ooseq' = ooseq
    BY <1>6, <1>t DEF ReceiveAssertFails, DrainAssertFails, TypeOK, Places
  <2>2. Control'
    BY <1>6, <1>t DEF ReceiveAssertFails, DrainAssertFails, Control
  <2>3. QED
    BY <1>6, <2>1, <2>2 DEF ReceiveAssertFails, DrainAssertFails
<1>7. CASE FasttmrNoAck \/ FasttmrRefusedAgain
  <2>1. Quiet /\ ooseq' = ooseq
    BY <1>7, <1>t DEF FasttmrNoAck, FasttmrRefusedAgain, RefusedAgain, TypeOK, Places
  <2>2. Control'
    BY <1>7, <1>t DEF FasttmrNoAck, FasttmrRefusedAgain, RefusedAgain, Control
  <2>3. QED
    BY <1>7, <2>1, <2>2 DEF FasttmrNoAck, FasttmrRefusedAgain
<1>8. ASSUME NEW res \in ResultsOfSend, ReceiveOutOfWindow(res) \/ QueueNoMemory(res)
      PROVE  /\ Quiet /\ ooseq' = ooseq /\ Control'
             /\ pc \in {"drain", "assert_failed"} => pc' \in {"drain", "assert_failed"}
  <2>1. Quiet /\ ooseq' = ooseq
    BY <1>8, <1>t DEF ReceiveOutOfWindow, QueueNoMemory, OutOfSequence,
          tcp_send_empty_ack, FlagsAfterSend, TypeOK, Places
  <2>2. Control'
    BY <1>8, <1>t DEF ReceiveOutOfWindow, QueueNoMemory, OutOfSequence, ToReceive, Control
  <2>3. QED
    BY <1>8, <2>1, <2>2 DEF ReceiveOutOfWindow, QueueNoMemory, OutOfSequence, ToReceive
<1>9. ASSUME NEW res \in ResultsOfSend, InputOutput(res)
      PROVE  /\ Quiet /\ ooseq' = ooseq /\ Control'
             /\ pc \in {"drain", "assert_failed"} => pc' \in {"drain", "assert_failed"}
  <2>1. Quiet /\ ooseq' = ooseq
    BY <1>9, <1>t, PeerFacts DEF InputOutput, tcp_output, NoSegment,
          tcp_send_empty_ack, FlagsAfterSend, TypeOK, Places
  <2>2. Control'
    BY <1>9, <1>t DEF InputOutput, NoSegment, Control
  <2>3. QED
    BY <1>9, <2>1, <2>2 DEF InputOutput
<1>10. ASSUME NEW res \in ResultsOfSend, FasttmrAck(res)
       PROVE  /\ Quiet /\ ooseq' = ooseq /\ Control'
              /\ pc \in {"drain", "assert_failed"} => pc' \in {"drain", "assert_failed"}
  <2>1. Quiet /\ ooseq' = ooseq
    BY <1>10, <1>t DEF FasttmrAck, TypeOK, Places
  <2>2. Control'
    BY <1>10, <1>t DEF FasttmrAck, Control
  <2>3. QED
    BY <1>10, <2>1, <2>2 DEF FasttmrAck
<1>11. QED
  BY <1>1, <1>2, <1>3, <1>4, <1>5, <1>6, <1>7, <1>8, <1>9, <1>10 DEF QuietAction

LEMMA QuietActionStep ==
  ASSUME IInv, QuietAction
  PROVE  IInv' /\ Edge <= Edge'
<1>1. /\ Quiet /\ ooseq' = ooseq /\ Control'
      /\ pc \in {"drain", "assert_failed"} => pc' \in {"drain", "assert_failed"}
  BY QuietActionIsQuiet
<1>2. /\ TypeOK' /\ Contents' /\ FinOnce' /\ Numbers'
      /\ Received' = Received /\ Edge <= Edge'
  BY <1>1, QuietStep
<1>3. Queue'
  BY <1>1, <1>2, QueueKept
<1>4. QED
  BY <1>1, <1>2, <1>3 DEF IInv

\* The end of the loop over ooseq: its head lies above rcv_nxt now.
LEMMA DrainDoneStep ==
  ASSUME IInv, DrainDone
  PROVE  IInv' /\ Edge <= Edge'
<1>t. TypeOK /\ Control
  BY DEF IInv
<1>1. Quiet
  BY <1>t DEF DrainDone, Quiet, StreamKept, MayAck, appVars, TypeOK, Places,
             tcp_ack, tcp_ack_now
<1>2. Control'
  BY <1>t DEF DrainDone, Control, appVars
<1>3. /\ TypeOK' /\ Contents' /\ FinOnce' /\ Numbers'
      /\ Received' = Received /\ Edge <= Edge'
  BY <1>1, QuietStep
<1>4. Received \in Nat /\ Received \in Distance /\ rcv_nxt = SeqAdd(ISN, Received)
      /\ ISN \in SeqNo
  BY NumberFacts, ReceiveAssumption DEF IInv, Numbers
<1>5. ooseq \in Seq(Segment) /\ Len(ooseq) \in Nat /\ GoodQueue(ooseq, Received)
  BY <1>t DEF TypeOK, IInv, Queue, QueueLow, DrainDone
<1>6. ASSUME NEW i \in 1 .. Len(ooseq)
      PROVE  Received + 1 <= ooseq[i].off
  <2>1. 1 \in 1 .. Len(ooseq) /\ ooseq # <<>>
    BY <1>5
  <2>2. /\ SegmentFacts(ooseq[1]) /\ Received <= ooseq[1].off
        /\ SegmentFacts(ooseq[i]) /\ TCP_TCPLEN(ooseq[1]) > 0
    BY <2>1, QueuedFacts
  <2>3. /\ ooseq[1].off \in Nat /\ ooseq[i].off \in Nat /\ TCP_TCPLEN(ooseq[1]) \in Nat
        /\ ooseq[1].off \in Distance /\ ooseq[1].seqno = SeqAdd(ISN, ooseq[1].off)
    BY <2>2 DEF SegmentFacts
  <2>4. ooseq[1].off # Received
    BY <1>4, <2>1, <2>3 DEF DrainDone, HeadInSequence
  <2>5. i # 1 => ooseq[1].off + TCP_TCPLEN(ooseq[1]) <= ooseq[i].off
    BY <1>5, <2>1 DEF GoodQueue
  <2>6. QED
    BY <1>4, <2>2, <2>3, <2>4, <2>5
<1>7. GoodQueue(ooseq, Received + 1)
  BY <1>5, <1>6 DEF GoodQueue
<1>8. Queue'
  BY <1>3, <1>7 DEF Queue, QueueLow, DrainDone
<1>9. QED
  BY <1>2, <1>3, <1>8 DEF IInv

\* A segment out of sequence is queued.
LEMMA QueueStep ==
  ASSUME IInv, NEW res \in ResultsOfSend, QueueFirst(res) \/ QueueInOrder(res)
  PROVE  IInv' /\ Edge <= Edge'
<1>t. TypeOK /\ Control
  BY DEF IInv
<1>1. OutOfSequence(res)
  BY DEF QueueFirst, QueueInOrder
<1>2. /\ Received \in Nat /\ rcv_nxt = SeqAdd(ISN, Received)
      /\ rcv_wnd \in Nat /\ Received + rcv_wnd \in Distance
  BY NumberFacts DEF IInv, Numbers
<1>3. /\ Truthful(Trimmed) /\ TCP_TCPLEN(Trimmed) > 0 /\ SegmentFacts(Trimmed)
      /\ Received < Trimmed.off /\ Trimmed.off < Received + rcv_wnd
  BY <1>1, OutOfSeqFacts DEF OutOfSequence
<1>4. Received + 1 <= Trimmed.off
  <2>1. Trimmed.off \in Nat
    BY <1>3 DEF SegmentFacts
  <2>2. QED
    BY <1>2, <1>3, <2>1
<1>5. GoodQueue(ooseq, Received + 1)
  BY <1>1 DEF IInv, Queue, QueueLow, OutOfSequence, ToReceive
<1>6. GoodQueue(ooseq', Received + 1)
  <2>1. CASE QueueFirst(res)
    <3>1. ooseq' = <<Trimmed>>
      BY <2>1 DEF QueueFirst
    <3> DEFINE low == Received + 1
               s == Trimmed
    <3>2. low \in Nat /\ Truthful(s) /\ TCP_TCPLEN(s) > 0 /\ low <= s.off
      BY <1>2, <1>3, <1>4
    <3> HIDE DEF low, s
    <3>3. GoodQueue(<<s>>, low)
      BY <3>2, GoodSingle
    <3>4. QED
      BY <3>1, <3>3 DEF low, s
  <2>2. CASE QueueInOrder(res)
    <3>1. PICK i \in 1 .. Len(ooseq) :
            /\ StopsFirstAt(Trimmed, i)
            /\ \E k \in 0 .. Len(ooseq) - i + 1 :
                 /\ CoversOoseq(Trimmed, DropFirst(ooseq, i - 1), k)
                 /\ ooseq' = QueueAt(Trimmed, i, k)
      BY <2>2 DEF QueueInOrder
    <3>2. PICK k \in 0 .. Len(ooseq) - i + 1 :
            /\ CoversOoseq(Trimmed, DropFirst(ooseq, i - 1), k)
            /\ ooseq' = QueueAt(Trimmed, i, k)
      BY <3>1
    <3>3. Received + 1 \in Nat /\ Received + 1 > 0
      BY <1>2
    <3>4. StopsAt(Trimmed, i)
      BY <3>1 DEF StopsFirstAt
    <3>5. WalkStops(Trimmed, i, k, Received + 1)
      BY <1>2, <1>3, <1>4, <1>5, <3>2, <3>3, <3>4 DEF WalkStops
    <3>6. GoodQueue(QueueAt(Trimmed, i, k), Received + 1)
      BY <3>5, QueueAtGood
    <3>7. QED
      BY <3>2, <3>6
  <2>3. QED
    BY <2>1, <2>2
<1>7. ooseq' \in Seq(Segment)
  BY <1>6 DEF GoodQueue
<1>8. Quiet
  BY <1>1, <1>7, <1>t DEF OutOfSequence, Quiet, StreamKept, MayAck, appVars,
        tcp_send_empty_ack, FlagsAfterSend, TypeOK, Places
<1>9. Control'
  BY <1>1, <1>t DEF OutOfSequence, ToReceive, Control, appVars
<1>10. /\ TypeOK' /\ Contents' /\ FinOnce' /\ Numbers'
       /\ Received' = Received /\ Edge <= Edge'
  BY <1>8, QuietStep
<1>11. Queue'
  BY <1>1, <1>6, <1>10 DEF Queue, QueueLow, OutOfSequence
<1>12. QED
  BY <1>9, <1>10, <1>11 DEF IInv

\* The slow timer drops the queue.
LEMMA SlowtmrStep ==
  ASSUME IInv, SlowtmrDropOoseq
  PROVE  IInv' /\ Edge <= Edge'
<1>t. TypeOK /\ Control
  BY DEF IInv
<1>1. Quiet
  BY <1>t DEF SlowtmrDropOoseq, Quiet, StreamKept, MayAck, appVars, inputVars, TypeOK
<1>2. Control'
  BY <1>t DEF SlowtmrDropOoseq, Control, appVars, inputVars
<1>3. /\ TypeOK' /\ Contents' /\ FinOnce' /\ Numbers' /\ Edge <= Edge'
  BY <1>1, QuietStep
<1>4. Queue'
  BY DEF SlowtmrDropOoseq, Queue, GoodQueue
<1>5. QED
  BY <1>2, <1>3, <1>4 DEF IInv

-----------------------------------------------------------------------------
(* Steps that move bytes. *)

\* tcp_receive appends a segment that begins at rcv_nxt to recv_data.
TakeSegment(s) ==
  /\ rcv_nxt' = SeqAdd(rcv_nxt, TCP_TCPLEN(s))
  /\ rcv_wnd' = rcv_wnd - TCP_TCPLEN(s)
  /\ rcv_ann_wnd' = AnnounceWnd(rcv_nxt', rcv_wnd')
  /\ recv_data' = recv_data \o Payload(s)
  /\ got_fin' = s.fin
  /\ UNCHANGED <<rcv_ann_right_edge, refused_data, refused_fin, appVars, last_ack>>

LEMMA TakeSegmentFacts ==
  ASSUME IInv, NEW s, Truthful(s), s.off = Received, TCP_TCPLEN(s) <= rcv_wnd,
         TakeSegment(s), refused_data = <<>>, ~eof, ~refused_fin, ~got_fin
  PROVE  /\ Contents' /\ FinOnce' /\ Numbers'
         /\ Received' = Received + TCP_TCPLEN(s)
         /\ rcv_nxt' \in SeqNo /\ rcv_wnd' \in 0 .. TCP_WND
         /\ rcv_ann_wnd' \in 0 .. TCP_WND
         /\ recv_data' \in Seq(Nat) /\ got_fin' \in BOOLEAN
         /\ Edge' = Edge
<1> DEFINE n == TCP_TCPLEN(s)
           l == s.len
           r == Received
           d == Len(delivered)
           v == Len(recv_data)
<1>1. SegmentFacts(s)
  BY TruthfulFacts
<1>2. /\ s \in Segment /\ l \in Nat /\ s.fin \in BOOLEAN /\ n \in Nat
      /\ r + n <= N + 1 /\ n = l + (IF s.fin THEN 1 ELSE 0)
      /\ r + l <= N + 1 /\ (l > 0 \/ s.fin => r + l <= N)
      /\ s.fin => r + l = N
  BY <1>1 DEF SegmentFacts
<1>3. /\ r \in Nat /\ d \in Nat /\ v \in Nat /\ Len(refused_data) = 0
      /\ rcv_wnd \in Nat /\ rcv_wnd <= TCP_WND
      /\ ISN \in SeqNo /\ rcv_nxt = SeqAdd(ISN, r)
      /\ Edge \in Nat /\ Edge <= r + rcv_wnd
      /\ r = d + v
  BY NumberFacts, ReceiveAssumption DEF IInv, Numbers, Distance, Received, FinPending
<1>4. /\ Payload(s) \in Seq(Nat) /\ Len(Payload(s)) = l
      /\ \A i \in 1 .. l : Payload(s)[i] = r + i
  BY <1>2, PayloadFacts
<1>5. recv_data \in Seq(Nat) /\ \A i \in 1 .. v : recv_data[i] = d + i
  BY <1>3 DEF IInv, TypeOK, Contents
<1>6. /\ recv_data' \in Seq(Nat) /\ Len(recv_data') = v + l
      /\ \A i \in 1 .. v : recv_data'[i] = recv_data[i]
      /\ \A i \in v + 1 .. v + l : recv_data'[i] = Payload(s)[i - v]
  <2> DEFINE p == Payload(s)
  <2>1. recv_data' = recv_data \o p
    BY DEF TakeSegment
  <2>2. p \in Seq(Nat) /\ Len(p) = l
    BY <1>4
  <2> HIDE DEF p, l
  <2>3. /\ recv_data \o p \in Seq(Nat) /\ Len(recv_data \o p) = v + Len(p)
        /\ \A i \in 1 .. v : (recv_data \o p)[i] = recv_data[i]
        /\ \A i \in v + 1 .. v + Len(p) : (recv_data \o p)[i] = p[i - v]
    BY <1>5, <2>2, ConcatFacts
  <2>4. QED
    BY <2>1, <2>2, <2>3 DEF p
<1>u. /\ delivered' = delivered /\ refused_data' = refused_data /\ unread' = unread
      /\ refused_fin' = refused_fin /\ eof' = eof /\ got_fin' = s.fin
      /\ last_ack' = last_ack /\ rcv_ann_right_edge' = rcv_ann_right_edge
      /\ rcv_wnd' = rcv_wnd - n
  BY DEF TakeSegment, appVars
<1> HIDE DEF l, n, r, d, v
<1>7. \A i \in 1 .. Len(recv_data') : recv_data'[i] = d + i
  <2> TAKE i \in 1 .. Len(recv_data')
  <2>1. CASE i <= v
    BY <1>3, <1>2, <1>5, <1>6, <2>1
  <2>2. CASE i > v
    <3>1. i \in v + 1 .. v + l /\ i - v \in 1 .. l
      BY <1>2, <1>3, <1>6, <2>2
    <3>2. recv_data'[i] = r + (i - v)
      BY <1>4, <1>6, <3>1
    <3>3. QED
      BY <1>3, <3>1, <3>2
  <2>3. QED
    BY <1>2, <1>3, <1>6, <2>1, <2>2
<1>8. Contents'
  <2>1. \A i \in 1 .. Len(delivered) : delivered[i] = i
    BY DEF IInv, Contents
  <2>2. QED
    BY <1>3, <1>7, <1>u, <2>1 DEF Contents, d
<1>9. Pos' = r + l
  BY <1>2, <1>3, <1>6, <1>u DEF Pos, d
<1>10. FinPending' = (IF s.fin THEN 1 ELSE 0) /\ FinPending = 0
  BY <1>u DEF FinPending
<1>11. Received' = r + n
  <2>1. Received' = Len(delivered') + Len(refused_data') + Len(recv_data') +
                      FinPending' + (IF eof' THEN 1 ELSE 0)
    BY DEF Received
  <2>2. Len(delivered') = d /\ Len(refused_data') = 0 /\ Len(recv_data') = v + l /\ ~eof'
    BY <1>3, <1>6, <1>u DEF d
  <2>3. QED
    BY <1>2, <1>3, <1>10, <2>1, <2>2
<1>12. FinOnce'
  <2>1. Pos' <= N
    <3>1. r <= N
      BY <1>3 DEF IInv, FinOnce, Pos, d, v
    <3>2. QED
      BY <1>2, <1>3, <1>9, <3>1, ReceiveAssumption
  <2>2. QED
    BY <1>2, <1>9, <1>u, <2>1 DEF FinOnce
<1>13. /\ n \in Distance /\ r \in Distance /\ r + n < Half /\ r + n \in 0 .. N + 1
       /\ r + n \in Distance
  BY <1>2, <1>3, ReceiveAssumption, HalfAssumption DEF Distance
<1>14. rcv_nxt' = SeqAdd(ISN, r + n) /\ SeqAdd(ISN, r + n) \in SeqNo
  BY <1>3, <1>13, SeqAddAdd, SeqAddType DEF TakeSegment, n
<1>15. n <= rcv_wnd
  BY DEF n
<1>16. rcv_wnd' \in 0 .. TCP_WND /\ Edge <= (r + n) + rcv_wnd'
  BY <1>2, <1>3, <1>15, <1>u, ReceiveAssumption
<1>17. /\ rcv_ann_wnd' \in 0 .. rcv_wnd' /\ Edge <= (r + n) + rcv_ann_wnd'
  <2> DEFINE m == r + n
             w == rcv_wnd'
  <2>1. m \in 0 .. N + 1 /\ w \in 0 .. TCP_WND /\ Edge <= m + w
    BY <1>13, <1>16
  <2>2. rcv_ann_wnd' = AnnounceWnd(SeqAdd(ISN, m), w)
    BY <1>14 DEF TakeSegment
  <2> HIDE DEF m, w
  <2>3. /\ AnnounceWnd(SeqAdd(ISN, m), w) \in 0 .. w
        /\ Edge <= m + AnnounceWnd(SeqAdd(ISN, m), w)
    BY <2>1, AnnounceFacts
  <2>4. QED
    BY <2>2, <2>3 DEF m, w
<1>18. Edge' = Edge
  BY <1>u DEF Edge
<1>19. WindowConserved'
  <2>1. rcv_wnd + unread + v = TCP_WND /\ unread \in Nat
    BY <1>3, <1>10 DEF IInv, TypeOK, Numbers, WindowConserved, v
  <2>2. rcv_wnd' + unread' + Len(refused_data') + Len(recv_data') + FinPending' = TCP_WND
    <3>1. PICK f \in {0, 1} : f = IF s.fin THEN 1 ELSE 0
      OBVIOUS
    <3>2. FinPending' = f /\ n = l + f
      BY <3>1, <1>2, <1>10
    <3>3. /\ rcv_wnd' = rcv_wnd - n /\ unread' = unread
          /\ Len(refused_data') = 0 /\ Len(recv_data') = v + l
      BY <1>3, <1>6, <1>u
    <3>4. (rcv_wnd - n) + unread + 0 + (v + l) + f = TCP_WND
      BY <3>1, <3>2, <1>2, <1>3, <2>1, ReceiveAssumption
    <3>5. QED
      BY <3>2, <3>3, <3>4
  <2>3. QED
    BY <2>2 DEF WindowConserved
<1>20. AckedBytesKept'
  <2>1. SeqSub(last_ack.ackno, ISN) <= r /\ SeqSub(last_ack.ackno, ISN) \in SeqNo
    <3>1. last_ack.ackno \in SeqNo
      BY DEF IInv, TypeOK
    <3>2. QED
      BY <1>3, <3>1, SeqSubType DEF IInv, Numbers, AckedBytesKept, r
  <2> DEFINE a == SeqSub(last_ack.ackno, ISN)
  <2>2. a \in Int /\ a <= r
    BY <2>1, HalfAssumption DEF SeqNo, SeqMod
  <2> HIDE DEF a
  <2>3. a <= r + n
    BY <1>2, <1>3, <2>2
  <2>4. QED
    BY <1>11, <1>u, <2>3 DEF AckedBytesKept, a
<1>21. Numbers'
  BY <1>11, <1>14, <1>16, <1>17, <1>18, <1>19, <1>20 DEF Numbers
<1>22. rcv_ann_wnd' \in 0 .. TCP_WND
  BY <1>16, <1>17, ReceiveAssumption
<1>23. got_fin' \in BOOLEAN
  BY <1>2, <1>u
<1>24. QED
  BY <1>6, <1>8, <1>11, <1>12, <1>14, <1>16, <1>18, <1>21, <1>22, <1>23 DEF r, n

\* A queue stays good when its lower bound moves up to its elements.
LEMMA GoodRaise ==
  ASSUME NEW q, NEW low, NEW high, GoodQueue(q, low),
         \A i \in 1 .. Len(q) : high <= q[i].off
  PROVE  GoodQueue(q, high)
BY DEF GoodQueue

\* The next segment in sequence.
LEMMA InSequenceStep ==
  ASSUME IInv, ReceiveInSequence
  PROVE  IInv' /\ Edge <= Edge'
<1>t. TypeOK /\ Control /\ FinOnce
  BY DEF IInv
<1>1. PICK k \in 0 .. Len(ooseq) :
        LET s   == InSeqSegment(k)
            nxt == SeqAdd(s.seqno, TCP_TCPLEN(s))
            wnd == rcv_wnd - TCP_TCPLEN(s)
        IN  /\ InSequence(k)
            /\ InSeqAsserts(k)
            /\ ooseq' = DropFirst(ooseq, k)
            /\ rcv_nxt' = nxt
            /\ rcv_wnd' = wnd
            /\ rcv_ann_wnd' = AnnounceWnd(nxt, wnd)
            /\ recv_data' = Payload(s)
            /\ got_fin' = s.fin
            /\ pc' = "drain"
            /\ UNCHANGED <<state, rcv_ann_right_edge, refused_data, refused_fin,
                           ackflags, inseg, appVars, last_ack>>
  BY DEF ReceiveInSequence
<1> DEFINE s == InSeqSegment(k)
<1>2. /\ Truthful(s) /\ s.off = Received /\ s.seqno = rcv_nxt
      /\ TCP_TCPLEN(s) <= rcv_wnd
      /\ \A i \in k + 1 .. Len(ooseq) : Received + TCP_TCPLEN(s) <= ooseq[i].off
  BY <1>1, InSeqFacts
<1>3. pc = "process" /\ state = "ESTABLISHED" /\ TCP_TCPLEN(inseg) > 0
  BY <1>1 DEF InSequence, ToReceive, HasText
<1>4. /\ recv_data = <<>> /\ got_fin = FALSE /\ refused_data = <<>>
      /\ ~eof /\ ~refused_fin
  BY <1>3, <1>t DEF Control, FinOnce, TypeOK
<1> HIDE DEF s
<1>5. Payload(s) \in Seq(Nat)
  <2>1. s \in Segment
    BY <1>2 DEF Truthful
  <2>2. QED
    BY <2>1, PayloadFacts
<1>6. TakeSegment(s)
  <2>1. recv_data \o Payload(s) = Payload(s)
    BY <1>4, <1>5
  <2>2. QED
    BY <1>1, <1>2, <2>1 DEF TakeSegment, s
<1>7. /\ Contents' /\ FinOnce' /\ Numbers'
      /\ Received' = Received + TCP_TCPLEN(s)
      /\ rcv_nxt' \in SeqNo /\ rcv_wnd' \in 0 .. TCP_WND
      /\ rcv_ann_wnd' \in 0 .. TCP_WND
      /\ recv_data' \in Seq(Nat) /\ got_fin' \in BOOLEAN
      /\ Edge' = Edge
  BY <1>2, <1>4, <1>6, TakeSegmentFacts
<1>8. /\ ooseq' = DropFirst(ooseq, k) /\ pc' = "drain"
      /\ UNCHANGED <<state, rcv_ann_right_edge, refused_data, refused_fin,
                     ackflags, inseg, appVars, last_ack>>
  BY <1>1
<1>9. ooseq \in Seq(Segment) /\ Len(ooseq) \in Nat /\ k \in 0 .. Len(ooseq)
  BY <1>t DEF TypeOK
<1>10. /\ DropFirst(ooseq, k) \in Seq(Segment)
       /\ Len(DropFirst(ooseq, k)) = Len(ooseq) - k
       /\ \A j \in 1 .. Len(ooseq) - k : DropFirst(ooseq, k)[j] = ooseq[j + k]
  BY <1>9, DropFirstFacts
<1>11. GoodQueue(ooseq', Received')
  <2> DEFINE q == DropFirst(ooseq, k)
             high == Received + TCP_TCPLEN(s)
             low == QueueLow
  <2>1. low \in Nat /\ GoodQueue(ooseq, low)
    BY NumberFacts DEF QueueLow, IInv, Queue
  <2> HIDE DEF low
  <2>2. GoodQueue(q, low)
    BY <1>9, <2>1, GoodDropFirst
  <2>3. \A i \in 1 .. Len(q) : high <= q[i].off
    <3> TAKE i \in 1 .. Len(q)
    <3>1. i + k \in k + 1 .. Len(ooseq) /\ q[i] = ooseq[i + k]
      BY <1>9, <1>10
    <3>2. QED
      BY <1>2, <3>1
  <2> HIDE DEF q, high
  <2>4. GoodQueue(q, high)
    BY <2>2, <2>3, GoodRaise
  <2>5. QED
    BY <1>7, <1>8, <2>4 DEF q, high
<1>12. Queue'
  BY <1>8, <1>11 DEF Queue, QueueLow
<1>13. TypeOK'
  BY <1>7, <1>8, <1>10, <1>t DEF TypeOK, Places, appVars
<1>14. Control'
  BY <1>3, <1>4, <1>8, <1>t DEF Control, appVars
<1>15. Edge <= Edge'
  BY <1>7, NumberFacts DEF Distance
<1>16. QED
  BY <1>7, <1>12, <1>13, <1>14, <1>15 DEF IInv

\* A queued segment that is now in sequence.
LEMMA DrainStep ==
  ASSUME IInv, DrainOoseq
  PROVE  IInv' /\ Edge <= Edge'
<1>t. TypeOK /\ Control /\ FinOnce
  BY DEF IInv
<1> DEFINE s == ooseq[1]
<1>1. /\ ooseq \in Seq(Segment) /\ Len(ooseq) \in Nat /\ ooseq # <<>>
      /\ 1 \in 1 .. Len(ooseq)
  BY <1>t DEF TypeOK, DrainOoseq, HeadInSequence
<1>2. /\ Truthful(s) /\ SegmentFacts(s) /\ TCP_TCPLEN(s) > 0
  BY <1>1, QueuedFacts
<1>3. /\ Received \in Nat /\ Received \in Distance /\ rcv_nxt = SeqAdd(ISN, Received)
      /\ ISN \in SeqNo
  BY NumberFacts, ReceiveAssumption DEF IInv, Numbers
<1>4. s.seqno = rcv_nxt /\ TCP_TCPLEN(s) <= rcv_wnd /\ pc = "drain"
  BY DEF DrainOoseq, HeadInSequence
<1>5. s.off = Received
  <2>1. s.seqno = SeqAdd(ISN, s.off) /\ s.off \in Distance
    BY <1>2 DEF SegmentFacts
  <2>2. QED
    BY <1>3, <1>4, <2>1, SeqInjective
<1>6. refused_data = <<>> /\ ~eof /\ ~refused_fin
  BY <1>4, <1>t DEF Control
<1>7. got_fin = FALSE
  <2>1. SUFFICES ASSUME got_fin PROVE FALSE
    BY <1>t DEF TypeOK
  <2>2. Received = N + 1
    BY <2>1, <1>6, <1>t, NumberFacts DEF FinOnce, FinPending
  <2>3. s.off + TCP_TCPLEN(s) <= N + 1 /\ TCP_TCPLEN(s) \in Nat
    BY <1>2 DEF SegmentFacts
  <2>4. QED
    BY <1>2, <1>3, <1>5, <2>2, <2>3, ReceiveAssumption
<1>8. TakeSegment(s)
  <2>1. s.fin \in BOOLEAN
    BY <1>2 DEF SegmentFacts
  <2>2. got_fin' = s.fin
    BY <1>7, <2>1 DEF DrainOoseq
  <2>3. QED
    BY <2>2 DEF TakeSegment, DrainOoseq
<1> HIDE DEF s
<1>9. /\ Contents' /\ FinOnce' /\ Numbers'
      /\ Received' = Received + TCP_TCPLEN(s)
      /\ rcv_nxt' \in SeqNo /\ rcv_wnd' \in 0 .. TCP_WND
      /\ rcv_ann_wnd' \in 0 .. TCP_WND
      /\ recv_data' \in Seq(Nat) /\ got_fin' \in BOOLEAN
      /\ Edge' = Edge
  BY <1>2, <1>4, <1>5, <1>6, <1>7, <1>8, TakeSegmentFacts
<1>10. /\ ooseq' = Tail(ooseq) /\ pc' = pc /\ ackflags' = ackflags /\ inseg' = inseg
       /\ state' = (IF s.fin THEN "CLOSE_WAIT" ELSE state)
       /\ UNCHANGED <<rcv_ann_right_edge, refused_data, refused_fin, appVars, last_ack>>
  BY DEF DrainOoseq, s
<1>11. /\ Tail(ooseq) \in Seq(Segment) /\ Len(Tail(ooseq)) = Len(ooseq) - 1
       /\ \A i \in 1 .. Len(ooseq) - 1 : Tail(ooseq)[i] = ooseq[i + 1]
  BY <1>1
<1>12. Tail(ooseq) = DropFirst(ooseq, 1)
  BY <1>1 DEF DropFirst
<1>13. GoodQueue(ooseq', Received')
  <2> DEFINE q == Tail(ooseq)
             high == Received + TCP_TCPLEN(s)
             low == QueueLow
  <2>1. low \in Nat /\ GoodQueue(ooseq, low)
    BY NumberFacts DEF QueueLow, IInv, Queue
  <2> HIDE DEF low
  <2>2. GoodQueue(q, low)
    <3>1. 1 \in 0 .. Len(ooseq)
      BY <1>1
    <3>2. GoodQueue(DropFirst(ooseq, 1), low)
      BY <2>1, <3>1, GoodDropFirst
    <3>3. QED
      BY <1>12, <3>2
  <2>3. \A i \in 1 .. Len(q) : high <= q[i].off
    <3> TAKE i \in 1 .. Len(q)
    <3>1. i + 1 \in 1 .. Len(ooseq) /\ q[i] = ooseq[i + 1] /\ 1 < i + 1
      BY <1>1, <1>11
    <3>2. ooseq[1].off + TCP_TCPLEN(ooseq[1]) <= ooseq[i + 1].off
      BY <1>1, <2>1, <3>1 DEF GoodQueue
    <3>3. QED
      BY <1>5, <3>1, <3>2 DEF s
  <2> HIDE DEF q, high
  <2>4. GoodQueue(q, high)
    BY <2>2, <2>3, GoodRaise
  <2>5. QED
    BY <1>9, <1>10, <2>4 DEF q, high
<1>14. Queue'
  BY <1>4, <1>10, <1>13 DEF Queue, QueueLow
<1>15. TypeOK'
  BY <1>9, <1>10, <1>11, <1>t DEF TypeOK, Places, States, appVars
<1>16. Control'
  BY <1>4, <1>6, <1>10, <1>t DEF Control, appVars
<1>17. Edge <= Edge'
  BY <1>9, NumberFacts DEF Distance
<1>18. QED
  BY <1>9, <1>14, <1>15, <1>16, <1>17 DEF IInv

\* tcp_recved for bytes that are held back: the window grows by just them
\* and the announcement stays between the old edge and the window.
LEMMA RecvedFacts ==
  ASSUME IInv, NEW k \in Nat, k <= unread + Len(refused_data) + Len(recv_data)
  PROVE  /\ WndAfterRecved(k) = rcv_wnd + k
         /\ WndAfterRecved(k) \in 0 .. TCP_WND
         /\ AnnAfterRecved(k) \in 0 .. WndAfterRecved(k)
         /\ AnnAfterRecved(k) \in 0 .. TCP_WND
         /\ Edge <= Received + AnnAfterRecved(k)
<1> DEFINE w == WndAfterRecved(k)
           n == Received
<1>1. /\ rcv_wnd \in Nat /\ unread \in Nat /\ TCP_WND \in Nat /\ FinPending \in 0 .. 1
      /\ Len(refused_data) \in Nat /\ Len(recv_data) \in Nat
      /\ rcv_wnd + unread + Len(refused_data) + Len(recv_data) + FinPending = TCP_WND
  BY NumberFacts, ReceiveAssumption
     DEF IInv, TypeOK, Numbers, WindowConserved, FinPending
<1>2. rcv_wnd + k <= TCP_WND
  BY <1>1
<1>3. w = rcv_wnd + k /\ w \in 0 .. TCP_WND
  BY <1>1, <1>2 DEF WndAfterRecved, LWIP_MIN
<1>4. /\ n \in Nat /\ n <= N + 1 /\ rcv_nxt = SeqAdd(ISN, n) /\ Edge \in Nat
      /\ Edge <= n + rcv_wnd
      /\ rcv_ann_wnd \in 0 .. TCP_WND /\ rcv_ann_wnd <= rcv_wnd /\ Edge <= n + rcv_ann_wnd
  BY NumberFacts DEF IInv, Numbers, TypeOK, Distance
<1> HIDE DEF w, n
<1>5. n \in 0 .. N + 1 /\ Edge <= n + w
  BY <1>1, <1>3, <1>4, ReceiveAssumption
<1>6. AnnounceWnd(SeqAdd(ISN, n), w) \in 0 .. w /\ Edge <= n + AnnounceWnd(SeqAdd(ISN, n), w)
  BY <1>3, <1>5, AnnounceFacts
<1>7. AnnAfterRecved(k) \in {AnnounceWnd(SeqAdd(ISN, n), w), rcv_ann_wnd}
  BY <1>4 DEF AnnAfterRecved, w
<1>8. AnnAfterRecved(k) \in 0 .. w /\ Edge <= n + AnnAfterRecved(k)
  BY <1>1, <1>3, <1>4, <1>6, <1>7
<1>9. QED
  BY <1>1, <1>3, <1>8 DEF w, n

\* Appending the next piece of the stream to what was delivered.
LEMMA DeliverFacts ==
  ASSUME NEW a \in Seq(Nat), NEW b \in Seq(Nat),
         \A i \in 1 .. Len(a) : a[i] = i, \A i \in 1 .. Len(b) : b[i] = Len(a) + i
  PROVE  /\ a \o b \in Seq(Nat) /\ Len(a \o b) = Len(a) + Len(b)
         /\ \A i \in 1 .. Len(a \o b) : (a \o b)[i] = i
OBVIOUS

\* Data that the application refused is kept in refused_data.
LEMMA RecvRefusedStep ==
  ASSUME IInv, RecvRefused
  PROVE  IInv' /\ Edge <= Edge'
<1>t. TypeOK /\ Control /\ FinOnce /\ Numbers /\ Contents
  BY DEF IInv
<1>1. refused_data = <<>> /\ pc = "recv"
  BY <1>t DEF RecvRefused, Control
<1>u. /\ refused_data' = recv_data /\ recv_data' = <<>> /\ pc' = "closed"
      /\ UNCHANGED <<state, rcv_nxt, rcv_wnd, rcv_ann_wnd, rcv_ann_right_edge, ooseq,
                     refused_fin, ackflags, inseg, got_fin, delivered, unread, eof,
                     last_ack>>
  BY DEF RecvRefused, appVars
<1>2. /\ Len(delivered) \in Nat /\ Len(recv_data) \in Nat
      /\ Len(refused_data) = 0 /\ Len(recv_data') = 0
  BY <1>1, <1>u, NumberFacts
<1>3. Pos' = Pos /\ FinPending' = FinPending
  BY <1>2, <1>u DEF Pos, FinPending
<1>4. Received' = Received
  <2>1. Received = Pos + FinPending + (IF eof THEN 1 ELSE 0)
    BY NumberFacts
  <2>2. Received' = Pos' + FinPending' + (IF eof' THEN 1 ELSE 0)
    BY DEF Received, Pos
  <2>3. QED
    BY <1>3, <1>u, <2>1, <2>2
<1>5. TypeOK'
  BY <1>t, <1>u DEF TypeOK, Places
<1>6. Contents'
  BY <1>2, <1>t, <1>u DEF Contents
<1>7. FinOnce'
  BY <1>3, <1>t, <1>u DEF FinOnce
<1>8. Control'
  BY <1>1, <1>t, <1>u DEF Control
<1>9. Edge' = Edge /\ AckedBytesKept'
  BY <1>4, <1>t, <1>u DEF Edge, AckedBytesKept, Numbers
<1>10. WindowConserved'
  <2>1. FinPending \in 0 .. 1 /\ TCP_WND \in Nat /\ rcv_wnd \in Nat /\ unread \in Nat
    BY <1>t, NumberFacts, ReceiveAssumption DEF FinPending, TypeOK
  <2>2. rcv_wnd + unread + Len(recv_data) + FinPending = TCP_WND
    BY <1>2, <1>t, <2>1 DEF Numbers, WindowConserved
  <2>3. /\ rcv_wnd' = rcv_wnd /\ unread' = unread /\ Len(refused_data') = Len(recv_data)
        /\ Len(recv_data') = 0 /\ FinPending' = FinPending
    BY <1>2, <1>3, <1>u
  <2>4. rcv_wnd' + unread' + Len(refused_data') + Len(recv_data') + FinPending' = TCP_WND
    BY <1>2, <2>1, <2>2, <2>3
  <2>5. QED
    BY <2>4 DEF WindowConserved
<1>11. Numbers'
  BY <1>4, <1>9, <1>10, <1>t, <1>u DEF Numbers
<1>12. Queue'
  BY <1>1, <1>4, <1>u, QueueKept
<1>13. Edge <= Edge'
  BY <1>9, NumberFacts DEF Distance
<1>14. QED
  BY <1>5, <1>6, <1>7, <1>8, <1>11, <1>12, <1>13 DEF IInv

\* The application takes the data at once.
LEMMA RecvTakenStep ==
  ASSUME IInv, NEW k, RecvTaken(k)
  PROVE  IInv' /\ Edge <= Edge'
<1>t. TypeOK /\ Control /\ FinOnce /\ Numbers /\ Contents
  BY DEF IInv
<1>1. /\ refused_data = <<>> /\ pc = "recv" /\ ~eof /\ ~refused_fin
  BY <1>t DEF RecvTaken, Control
<1>u. /\ recv_data' = <<>> /\ pc' = "closed"
      /\ delivered' = delivered \o recv_data
      /\ unread' = unread + Len(recv_data) - k
      /\ rcv_wnd' = WndAfterRecved(k)
      /\ rcv_ann_wnd' = AnnAfterRecved(k)
      /\ ackflags' = FlagsAfterRecved(k)
      /\ k \in 0 .. unread + Len(recv_data)
      /\ UNCHANGED <<state, rcv_nxt, rcv_ann_right_edge, ooseq, refused_data,
                     refused_fin, inseg, got_fin, eof, last_ack>>
  BY DEF RecvTaken, Accept
<1>2. /\ Len(delivered) \in Nat /\ Len(recv_data) \in Nat /\ unread \in Nat
      /\ Len(refused_data) = 0 /\ Len(recv_data') = 0 /\ Len(refused_data') = 0
      /\ delivered \in Seq(Nat) /\ recv_data \in Seq(Nat)
      /\ rcv_wnd \in Nat
  BY <1>1, <1>t, <1>u, NumberFacts DEF TypeOK
<1>3. /\ delivered' \in Seq(Nat) /\ Len(delivered') = Len(delivered) + Len(recv_data)
      /\ \A i \in 1 .. Len(delivered') : delivered'[i] = i
  <2>1. \A i \in 1 .. Len(recv_data) : recv_data[i] = Len(delivered) + i
    BY <1>2, <1>t DEF Contents
  <2>2. \A i \in 1 .. Len(delivered) : delivered[i] = i
    BY <1>t DEF Contents
  <2>3. QED
    BY <1>2, <1>u, <2>1, <2>2, DeliverFacts
<1>4. Pos' = Pos /\ FinPending' = FinPending
  BY <1>2, <1>3, <1>u DEF Pos, FinPending
<1>5. Received' = Received
  <2>1. Received = Pos + FinPending + (IF eof THEN 1 ELSE 0)
    BY NumberFacts
  <2>2. Received' = Pos' + FinPending' + (IF eof' THEN 1 ELSE 0)
    BY DEF Received, Pos
  <2>3. QED
    BY <1>4, <1>u, <2>1, <2>2
<1>6. /\ k \in Nat /\ k <= unread + Len(refused_data) + Len(recv_data)
  BY <1>2, <1>u
<1>7. /\ rcv_wnd' = rcv_wnd + k
      /\ rcv_wnd' \in 0 .. TCP_WND
      /\ rcv_ann_wnd' \in 0 .. rcv_wnd'
      /\ rcv_ann_wnd' \in 0 .. TCP_WND
      /\ Edge <= Received + rcv_ann_wnd'
  BY <1>6, <1>u, RecvedFacts
<1>8. WindowConserved' /\ unread' \in 0 .. TCP_WND
  <2>1. FinPending \in 0 .. 1 /\ TCP_WND \in Nat
    BY ReceiveAssumption DEF FinPending
  <2>2. rcv_wnd + unread + Len(recv_data) + FinPending = TCP_WND
    BY <1>2, <1>t, <2>1 DEF Numbers, WindowConserved
  <2>3. rcv_wnd' + unread' + FinPending = TCP_WND /\ unread' \in Nat
    <3>1. rcv_wnd' = rcv_wnd + k /\ unread' = unread + Len(recv_data) - k
      BY <1>7, <1>u
    <3>2. k \in Nat /\ k <= unread + Len(recv_data)
      BY <1>2, <1>u
    <3>3. PICK d, f : d = Len(recv_data) /\ f = FinPending
      OBVIOUS
    <3>4. /\ d \in Nat /\ f \in Nat /\ unread \in Nat /\ rcv_wnd \in Nat
          /\ rcv_wnd + unread + d + f = TCP_WND /\ k <= unread + d
          /\ rcv_wnd' = rcv_wnd + k /\ unread' = unread + d - k
      BY <1>2, <2>1, <2>2, <3>1, <3>2, <3>3
    <3>5. rcv_wnd' + unread' + f = TCP_WND /\ unread' \in Nat
      BY <3>2, <3>4
    <3>6. QED
      BY <3>3, <3>5
  <2>4. rcv_wnd' + unread' + Len(refused_data') + Len(recv_data') + FinPending' = TCP_WND
    BY <1>2, <1>4, <1>7, <2>1, <2>3
  <2>5. QED
    BY <1>7, <2>1, <2>3, <2>4 DEF WindowConserved
<1>9. ackflags' \subseteq {"DELAY", "NOW"}
  BY <1>t, <1>u DEF TypeOK, FlagsAfterRecved, tcp_ack_now
<1>10. TypeOK'
  BY <1>3, <1>7, <1>8, <1>9, <1>t, <1>u DEF TypeOK, Places
<1>11. Contents'
  BY <1>2, <1>3 DEF Contents
<1>12. FinOnce'
  BY <1>4, <1>t, <1>u DEF FinOnce
<1>13. Control'
  BY <1>1, <1>t, <1>u DEF Control
<1>14. Edge' = Edge /\ AckedBytesKept'
  BY <1>5, <1>t, <1>u DEF Edge, AckedBytesKept, Numbers
<1>15. rcv_ann_wnd' <= rcv_wnd'
  BY <1>7
<1>16. Numbers'
  BY <1>5, <1>7, <1>8, <1>14, <1>15, <1>t, <1>u DEF Numbers
<1>17. Queue'
  BY <1>1, <1>5, <1>u, QueueKept
<1>18. Edge <= Edge'
  BY <1>14, NumberFacts DEF Distance
<1>19. QED
  BY <1>10, <1>11, <1>12, <1>13, <1>16, <1>17, <1>18 DEF IInv

\* tcp_process_refused_data: the application takes what it refused before.
LEMMA RefusedTakenStep ==
  ASSUME IInv, NEW k, NEW res \in ResultsOfSend,
         InputRefusedTaken(k, res) \/ FasttmrRefusedTaken(k, res)
  PROVE  IInv' /\ Edge <= Edge'
<1>t. TypeOK /\ Control /\ FinOnce /\ Numbers /\ Contents
  BY DEF IInv
<1>a. RefusedTaken(k, res) /\ pc \in {"refused", "fast_refused"} /\ pc' \in {"process", "idle"}
  BY DEF InputRefusedTaken, FasttmrRefusedTaken
<1>1. recv_data = <<>> /\ got_fin = FALSE
  BY <1>a, <1>t DEF Control, TypeOK
<1>u. /\ refused_data' = <<>> /\ refused_fin' = FALSE /\ eof' = (eof \/ refused_fin)
      /\ delivered' = delivered \o refused_data
      /\ unread' = unread + Len(refused_data) - k
      /\ rcv_ann_wnd' = AnnAfterRecved(k)
      /\ rcv_wnd' = (IF refused_fin THEN WndAfterFin(WndAfterRecved(k))
                     ELSE WndAfterRecved(k))
      /\ k \in 0 .. unread + Len(refused_data)
      /\ UNCHANGED <<state, rcv_nxt, ooseq, inseg, recv_data, got_fin>>
  BY <1>a DEF RefusedTaken, Accept, InputRefusedTaken, FasttmrRefusedTaken
<1>b. MayAck(rcv_ann_wnd') /\ ackflags' \subseteq {"DELAY", "NOW"}
  BY <1>a, <1>t, <1>u DEF RefusedTaken, MayAck, tcp_send_empty_ack, FlagsAfterSend, TypeOK
<1>2. /\ Len(delivered) \in Nat /\ Len(refused_data) \in Nat /\ unread \in Nat
      /\ Len(recv_data) = 0 /\ Len(recv_data') = 0 /\ Len(refused_data') = 0
      /\ delivered \in Seq(Nat) /\ refused_data \in Seq(Nat)
      /\ rcv_wnd \in Nat
  BY <1>1, <1>t, <1>u, NumberFacts DEF TypeOK
<1>3. /\ delivered' \in Seq(Nat) /\ Len(delivered') = Len(delivered) + Len(refused_data)
      /\ \A i \in 1 .. Len(delivered') : delivered'[i] = i
  <2>1. \A i \in 1 .. Len(refused_data) : refused_data[i] = Len(delivered) + i
    BY <1>t DEF Contents
  <2>2. \A i \in 1 .. Len(delivered) : delivered[i] = i
    BY <1>t DEF Contents
  <2>3. QED
    BY <1>2, <1>u, <2>1, <2>2, DeliverFacts
<1>4. Pos' = Pos
  BY <1>2, <1>3, <1>u DEF Pos
<1>5. /\ FinPending = (IF refused_fin THEN 1 ELSE 0) /\ FinPending' = 0
      /\ ~(eof /\ refused_fin) /\ eof \in BOOLEAN /\ refused_fin \in BOOLEAN
      /\ FinPending \in 0 .. 1
  BY <1>1, <1>t, <1>u DEF FinPending, FinOnce, TypeOK
<1>6. Received' = Received
  <2>1. Received = Pos + FinPending + (IF eof THEN 1 ELSE 0) /\ Pos \in Nat
    BY NumberFacts
  <2>2. Received' = Pos' + FinPending' + (IF eof' THEN 1 ELSE 0)
    BY DEF Received, Pos
  <2>3. FinPending + (IF eof THEN 1 ELSE 0) = (IF eof' THEN 1 ELSE 0)
    BY <1>5, <1>u
  <2>4. QED
    BY <1>4, <1>5, <2>1, <2>2, <2>3
<1>7. k \in Nat /\ k <= unread + Len(refused_data) + Len(recv_data)
  BY <1>2, <1>u
<1>8. /\ WndAfterRecved(k) = rcv_wnd + k
      /\ WndAfterRecved(k) \in 0 .. TCP_WND
      /\ rcv_ann_wnd' \in 0 .. WndAfterRecved(k)
      /\ rcv_ann_wnd' \in 0 .. TCP_WND
      /\ Edge <= Received + rcv_ann_wnd'
  BY <1>7, <1>u, RecvedFacts
<1>9. rcv_wnd + unread + Len(refused_data) + FinPending = TCP_WND /\ TCP_WND \in Nat
  BY <1>2, <1>5, <1>t, ReceiveAssumption DEF Numbers, WindowConserved
<1>10. k <= unread + Len(refused_data)
  BY <1>2, <1>7
<1>11. rcv_wnd' = rcv_wnd + k + FinPending
  <2>1. CASE refused_fin
    <3>1. rcv_wnd + k # TCP_WND
      BY <1>2, <1>5, <1>7, <1>9, <1>10, <2>1
    <3>2. rcv_wnd' = rcv_wnd + k + 1
      BY <1>8, <1>u, <2>1, <3>1 DEF WndAfterFin
    <3>3. QED
      BY <1>5, <2>1, <3>2
  <2>2. CASE ~refused_fin
    BY <1>2, <1>5, <1>7, <1>8, <1>u, <2>2
  <2>3. QED
    BY <2>1, <2>2
<1>12. unread' = unread + Len(refused_data) - k
  BY <1>u
<1>13. /\ rcv_wnd' + unread' = TCP_WND /\ rcv_wnd' \in 0 .. TCP_WND
       /\ unread' \in 0 .. TCP_WND
  <2> DEFINE l == Len(refused_data)
             f == FinPending
  <2>1. /\ l \in Nat /\ f \in Nat /\ k <= unread + l /\ rcv_wnd + unread + l + f = TCP_WND
        /\ rcv_wnd' = rcv_wnd + k + f /\ unread' = unread + l - k
    BY <1>2, <1>5, <1>9, <1>10, <1>11, <1>12
  <2> HIDE DEF l, f
  <2>2. QED
    BY <1>2, <1>7, <2>1
<1>14. WindowConserved'
  <2>1. rcv_wnd' + unread' + Len(refused_data') + Len(recv_data') + FinPending' = TCP_WND
    BY <1>2, <1>5, <1>13
  <2>2. QED
    BY <2>1 DEF WindowConserved
<1>15. /\ rcv_ann_right_edge' \in SeqNo
       /\ Edge' <= Received + rcv_ann_wnd' /\ Edge <= Edge'
       /\ last_ack' \in [ackno : SeqNo, wnd : 0 .. TCP_WND]
       /\ AckedBytesKept'
  BY <1>6, <1>8, <1>b, MayAckFacts
<1>16. rcv_ann_wnd' <= rcv_wnd'
  BY <1>2, <1>5, <1>7, <1>8, <1>11
<1>17. TypeOK'
  <2>1. eof' \in BOOLEAN
    BY <1>u
  <2>2. /\ state' \in States /\ rcv_nxt' \in SeqNo /\ ooseq' \in Seq(Segment)
        /\ inseg' \in Segment /\ recv_data' \in Seq(Nat) /\ got_fin' \in BOOLEAN
    BY <1>t, <1>u DEF TypeOK
  <2>3. refused_data' \in Seq(Nat) /\ refused_fin' \in BOOLEAN /\ pc' \in Places
    <3>1. refused_data' = <<>> /\ refused_fin' = FALSE
      BY <1>u
    <3>2. refused_data' \in Seq(Nat)
      BY <3>1
    <3>3. refused_fin' \in BOOLEAN
      BY <3>1
    <3>4. pc' \in Places
      BY <1>a DEF Places
    <3>5. QED
      BY <3>2, <3>3, <3>4
  <2>4. QED
    BY <1>3, <1>8, <1>13, <1>15, <1>b, <2>1, <2>2, <2>3 DEF TypeOK
<1>18. Contents'
  BY <1>2, <1>3 DEF Contents
<1>19. FinOnce'
  BY <1>1, <1>4, <1>t, <1>u DEF FinOnce
<1>20. Control'
  BY <1>1, <1>a, <1>t, <1>u DEF Control
<1>21. Numbers'
  BY <1>6, <1>14, <1>15, <1>16, <1>t, <1>u DEF Numbers
<1>22. Queue'
  BY <1>6, <1>a, <1>u, QueueKept
<1>23. QED
  BY <1>15, <1>17, <1>18, <1>19, <1>20, <1>21, <1>22 DEF IInv

\* The end of the stream is reported, or noted on the refused data.
LEMMA InputClosedStep ==
  ASSUME IInv, InputClosed
  PROVE  IInv' /\ Edge <= Edge'
<1>t. TypeOK /\ Control /\ FinOnce /\ Numbers /\ Contents
  BY DEF IInv
<1>u. /\ got_fin' = FALSE /\ pc' = "output" /\ pc = "closed"
      /\ UNCHANGED <<state, rcv_nxt, rcv_ann_wnd, rcv_ann_right_edge, ooseq,
                     refused_data, ackflags, inseg, recv_data, delivered, unread,
                     last_ack>>
  BY DEF InputClosed
<1>1. Pos' = Pos
  BY <1>u DEF Pos
<1>2. /\ got_fin => ~eof /\ ~refused_fin /\ state = "CLOSE_WAIT" /\ Pos = N
      /\ got_fin \in BOOLEAN /\ eof \in BOOLEAN /\ refused_fin \in BOOLEAN
      /\ FinPending \in 0 .. 1 /\ FinPending' \in 0 .. 1
      /\ FinPending = (IF got_fin \/ refused_fin THEN 1 ELSE 0)
      /\ FinPending' = (IF refused_fin' THEN 1 ELSE 0)
  BY <1>t, <1>u DEF FinOnce, Control, TypeOK, FinPending
<1>3. /\ rcv_wnd \in Nat /\ rcv_wnd <= TCP_WND /\ TCP_WND \in Nat /\ unread \in Nat
      /\ Len(refused_data) \in Nat /\ Len(recv_data) \in Nat
      /\ rcv_wnd + unread + Len(refused_data) + Len(recv_data) + FinPending = TCP_WND
      /\ rcv_ann_wnd \in Nat /\ rcv_ann_wnd <= rcv_wnd
  BY <1>t, NumberFacts, ReceiveAssumption DEF Numbers, WindowConserved, TypeOK
<1>4. got_fin => rcv_wnd # TCP_WND
  BY <1>2, <1>3
<1>5. \/ /\ got_fin /\ refused_fin' = TRUE /\ rcv_wnd' = rcv_wnd /\ eof' = eof
      \/ /\ got_fin /\ refused_fin' = refused_fin /\ eof' = TRUE /\ rcv_wnd' = rcv_wnd + 1
         /\ refused_data = <<>>
      \/ /\ ~got_fin /\ refused_fin' = refused_fin /\ eof' = eof /\ rcv_wnd' = rcv_wnd
  BY <1>2, <1>4 DEF InputClosed, WndAfterFin
<1>6. Received' = Received
  <2>1. Received = Pos + FinPending + (IF eof THEN 1 ELSE 0) /\ Pos \in Nat
    BY NumberFacts
  <2>2. Received' = Pos' + FinPending' + (IF eof' THEN 1 ELSE 0)
    BY DEF Received, Pos
  <2>3. FinPending + (IF eof THEN 1 ELSE 0) = FinPending' + (IF eof' THEN 1 ELSE 0)
    BY <1>2, <1>5
  <2>4. QED
    BY <1>1, <1>2, <2>1, <2>2, <2>3
<1>7. rcv_wnd' + FinPending' = rcv_wnd + FinPending
  BY <1>2, <1>3, <1>5
<1>8. rcv_wnd' \in 0 .. TCP_WND /\ rcv_ann_wnd <= rcv_wnd'
  BY <1>3, <1>4, <1>5
<1>9. WindowConserved'
  <2>1. rcv_wnd' + unread + Len(refused_data) + Len(recv_data) + FinPending' = TCP_WND
    <3> DEFINE l == unread + Len(refused_data) + Len(recv_data)
               w == rcv_wnd'
               f == FinPending
               g == FinPending'
    <3>1. /\ l \in Nat /\ f \in Nat /\ g \in Nat /\ w \in Nat
          /\ rcv_wnd + l + f = TCP_WND /\ w + g = rcv_wnd + f
      <4>1. l \in Nat /\ f \in Nat /\ g \in Nat /\ w \in Nat
        BY <1>2, <1>3, <1>8
      <4>2. rcv_wnd + l + f = TCP_WND
        BY <1>2, <1>3
      <4>3. w + g = rcv_wnd + f
        BY <1>7
      <4>4. QED
        BY <4>1, <4>2, <4>3
    <3> HIDE DEF l, f, g, w
    <3>2. w + l + g = TCP_WND
      BY <1>3, <3>1
    <3>3. QED
      BY <1>2, <1>3, <1>8, <3>2 DEF w, l, g
  <2>2. QED
    BY <1>u, <2>1 DEF WindowConserved
<1>10. TypeOK'
  BY <1>2, <1>5, <1>8, <1>t, <1>u DEF TypeOK, Places
<1>11. Contents'
  BY <1>t, <1>u DEF Contents
<1>12. FinOnce'
  <2>1. recv_data = <<>>
    BY <1>t, <1>u DEF Control
  <2>2. QED
    BY <1>1, <1>2, <1>5, <1>t, <1>u, <2>1 DEF FinOnce
<1>13. Control'
  BY <1>t, <1>u DEF Control
<1>14. Edge' = Edge /\ AckedBytesKept'
  BY <1>6, <1>t, <1>u DEF Edge, AckedBytesKept, Numbers
<1>15. Numbers'
  BY <1>6, <1>8, <1>9, <1>14, <1>t, <1>u DEF Numbers
<1>16. Queue'
  BY <1>6, <1>u, QueueKept
<1>17. Edge <= Edge'
  BY <1>14, NumberFacts DEF Distance
<1>18. QED
  BY <1>10, <1>11, <1>12, <1>13, <1>15, <1>16, <1>17 DEF IInv

\* The application reports k bytes as processed.
LEMMA RecvedStep ==
  ASSUME IInv, NEW k, NEW res \in ResultsOfSend, tcp_recved(k, res)
  PROVE  IInv' /\ Edge <= Edge'
<1>t. TypeOK /\ Control /\ FinOnce /\ Numbers /\ Contents
  BY DEF IInv
<1>u. /\ k \in 1 .. unread /\ pc = "idle"
      /\ unread' = unread - k /\ rcv_wnd' = WndAfterRecved(k)
      /\ rcv_ann_wnd' = AnnAfterRecved(k)
      /\ UNCHANGED <<state, rcv_nxt, ooseq, refused_data, refused_fin, pc, inseg,
                     recv_data, got_fin, delivered, eof>>
  BY DEF tcp_recved, inputVars
<1>b. MayAck(rcv_ann_wnd') /\ ackflags' \subseteq {"DELAY", "NOW"}
  BY <1>t, <1>u DEF tcp_recved, MayAck, tcp_send_empty_ack, FlagsAfterSend, TypeOK
<1>1. /\ Contents' /\ FinOnce' /\ Received' = Received /\ FinPending' = FinPending
  BY <1>u, StreamKeptFacts DEF StreamKept
<1>2. /\ rcv_wnd \in Nat /\ TCP_WND \in Nat /\ unread \in Nat /\ FinPending \in 0 .. 1
      /\ Len(refused_data) \in Nat /\ Len(recv_data) \in Nat
      /\ rcv_wnd + unread + Len(refused_data) + Len(recv_data) + FinPending = TCP_WND
  BY <1>t, NumberFacts, ReceiveAssumption DEF Numbers, WindowConserved, TypeOK, FinPending
<1>3. k \in Nat /\ k <= unread /\ k <= unread + Len(refused_data) + Len(recv_data)
  BY <1>2, <1>u
<1>4. /\ rcv_wnd' = rcv_wnd + k
      /\ rcv_wnd' \in 0 .. TCP_WND
      /\ rcv_ann_wnd' \in 0 .. rcv_wnd'
      /\ rcv_ann_wnd' \in 0 .. TCP_WND
      /\ Edge <= Received + rcv_ann_wnd'
  BY <1>3, <1>u, RecvedFacts
<1>5. unread' = unread - k /\ unread' \in 0 .. TCP_WND
  BY <1>2, <1>3, <1>u
<1>6. WindowConserved'
  <2>1. rcv_wnd' + unread' + Len(refused_data) + Len(recv_data) + FinPending = TCP_WND
    BY <1>2, <1>3, <1>4, <1>5
  <2>2. QED
    BY <1>1, <1>u, <2>1 DEF WindowConserved
<1>7. /\ rcv_ann_right_edge' \in SeqNo
      /\ Edge' <= Received + rcv_ann_wnd' /\ Edge <= Edge'
      /\ last_ack' \in [ackno : SeqNo, wnd : 0 .. TCP_WND]
      /\ AckedBytesKept'
  BY <1>1, <1>4, <1>b, MayAckFacts
<1>8. TypeOK'
  BY <1>4, <1>5, <1>7, <1>b, <1>t, <1>u DEF TypeOK
<1>9. Control'
  BY <1>t, <1>u DEF Control
<1>10. rcv_ann_wnd' <= rcv_wnd'
  BY <1>4
<1>11. Numbers'
  BY <1>1, <1>6, <1>7, <1>10, <1>t, <1>u DEF Numbers
<1>12. Queue'
  BY <1>1, <1>u, QueueKept
<1>13. QED
  BY <1>1, <1>7, <1>8, <1>9, <1>11, <1>12 DEF IInv

-----------------------------------------------------------------------------
(* The theorems. *)

\* The state after the handshake satisfies the invariant.
LEMMA InitIInv ==
  ASSUME Init
  PROVE  IInv
<1> USE DEF Init
<1>1. /\ TCP_WND \in Distance /\ TCP_WND \in Nat /\ 0 \in Distance /\ ISN \in SeqNo
      /\ N \in Nat
  BY ReceiveAssumption, HalfAssumption DEF Distance
<1>2. SeqAdd(ISN, TCP_WND) \in SeqNo /\ SeqSub(SeqAdd(ISN, TCP_WND), ISN) = TCP_WND
  BY <1>1, SeqAddType, SeqSubBase
<1>3. SeqAdd(ISN, 0) = ISN
  BY <1>1, SeqAddZero
<1>4. SeqSub(ISN, ISN) = 0
  BY <1>1, <1>3, SeqSubBase
<1>5. Received = 0 /\ FinPending = 0 /\ Pos = 0
  BY DEF Received, FinPending, Pos
<1>6. TypeOK
  <2>1. /\ ooseq \in Seq(Segment) /\ refused_data \in Seq(Nat)
        /\ recv_data \in Seq(Nat) /\ delivered \in Seq(Nat)
    OBVIOUS
  <2>2. inseg \in Segment
    BY PeerFacts DEF NoSegment
  <2>3. state \in States /\ pc \in Places
    BY DEF States, Places
  <2>4. last_ack \in [ackno : SeqNo, wnd : 0 .. TCP_WND]
    BY <1>1
  <2>5. /\ rcv_nxt \in SeqNo /\ rcv_wnd \in 0 .. TCP_WND /\ rcv_ann_wnd \in 0 .. TCP_WND
        /\ rcv_ann_right_edge \in SeqNo /\ unread \in 0 .. TCP_WND
    BY <1>1, <1>2
  <2>6. refused_fin \in BOOLEAN /\ got_fin \in BOOLEAN /\ eof \in BOOLEAN
        /\ ackflags \subseteq {"DELAY", "NOW"}
    OBVIOUS
  <2>7. QED
    BY <2>1, <2>2, <2>3, <2>4, <2>5, <2>6 DEF TypeOK
<1>7. Contents /\ FinOnce
  BY <1>1, <1>5 DEF Contents, FinOnce
<1>8. Control
  BY DEF Control, NoSegment
<1>9. WindowConserved /\ AckedBytesKept
  BY <1>1, <1>4, <1>5 DEF WindowConserved, AckedBytesKept
<1>10. Numbers
  BY <1>1, <1>2, <1>3, <1>5, <1>9 DEF Numbers, Edge
<1>11. Queue
  BY DEF Queue, GoodQueue
<1>12. QED
  BY <1>6, <1>7, <1>8, <1>10, <1>11 DEF IInv

\* Every step keeps the invariant, and no step moves the announced edge back.
LEMMA NextIInv ==
  ASSUME IInv, [Next]_vars
  PROVE  IInv' /\ Edge <= Edge'
<1>1. CASE UNCHANGED vars
  <2>1. IInv'
    BY <1>1 DEF vars, pcbVars, inputVars, appVars, IInv, TypeOK, Contents, FinOnce, Pos,
          Control, Numbers, Edge, Received, FinPending, WindowConserved, AckedBytesKept,
          Queue, QueueLow
  <2>2. Edge' = Edge
    BY <1>1 DEF vars, pcbVars, Edge
  <2>3. QED
    BY <2>1, <2>2, NumberFacts DEF Distance
<1>2. CASE QuietAction
  BY <1>2, QuietActionStep
<1>3. CASE DrainDone
  BY <1>3, DrainDoneStep
<1>4. ASSUME NEW res \in ResultsOfSend, QueueFirst(res) \/ QueueInOrder(res)
      PROVE  IInv' /\ Edge <= Edge'
  BY <1>4, QueueStep
<1>5. CASE SlowtmrDropOoseq
  BY <1>5, SlowtmrStep
<1>6. CASE ReceiveInSequence
  BY <1>6, InSequenceStep
<1>7. CASE DrainOoseq
  BY <1>7, DrainStep
<1>8. CASE RecvRefused
  BY <1>8, RecvRefusedStep
<1>9. ASSUME NEW k \in 0 .. TCP_WND, RecvTaken(k)
      PROVE  IInv' /\ Edge <= Edge'
  BY <1>9, RecvTakenStep
<1>10. ASSUME NEW k \in 0 .. TCP_WND, NEW res \in ResultsOfSend,
              InputRefusedTaken(k, res) \/ FasttmrRefusedTaken(k, res)
       PROVE  IInv' /\ Edge <= Edge'
  BY <1>10, RefusedTakenStep
<1>11. CASE InputClosed
  BY <1>11, InputClosedStep
<1>12. ASSUME NEW k \in 1 .. TCP_WND, NEW res \in ResultsOfSend, tcp_recved(k, res)
       PROVE  IInv' /\ Edge <= Edge'
  BY <1>12, RecvedStep
<1>13. CASE Input
  BY <1>13, <1>2, <1>3, <1>4, <1>6, <1>7, <1>8, <1>9, <1>10, <1>11 DEF Input, QuietAction
<1>14. CASE Timers
  BY <1>14, <1>2, <1>5, <1>10 DEF Timers, QuietAction
<1>15. CASE Application
  BY <1>15, <1>12 DEF Application
<1>16. QED
  BY <1>1, <1>13, <1>14, <1>15 DEF Next

\* IInv is an inductive invariant of the receive half, for every stream
\* length N, window, segment size, initial sequence number and kind of send
\* error.
THEOREM ReceiveInductive == Spec => []IInv
<1>1. Init => IInv
  BY InitIInv
<1>2. IInv /\ [Next]_vars => IInv'
  BY NextIInv
<1>3. QED
  BY <1>1, <1>2, PTL DEF Spec

\* The fields of the PCB keep their types; rcv_wnd never wraps.
THEOREM ReceiveTypeOK == Spec => []TypeOK
<1>1. IInv => TypeOK
  BY DEF IInv
<1>2. QED
  BY <1>1, ReceiveInductive, PTL

\* What the recv callback gets is the peer's stream, byte by byte.
THEOREM ReceiveDeliveredPrefix == Spec => []DeliveredPrefix
<1>1. IInv => DeliveredPrefix
  BY DEF IInv, Contents, DeliveredPrefix
<1>2. QED
  BY <1>1, ReceiveInductive, PTL

\* The end of the stream is reported only after all of the stream.
THEOREM ReceiveEofAfterAllData == Spec => []EofAfterAllData
<1>1. ASSUME IInv, eof PROVE Len(delivered) = N
  <2>1. Pos = N /\ refused_data = <<>> /\ recv_data = <<>>
    BY <1>1 DEF IInv, FinOnce
  <2>2. Len(delivered) \in Nat /\ Len(refused_data) = 0 /\ Len(recv_data) = 0
    BY <1>1, <2>1, NumberFacts
  <2>3. QED
    BY <2>1, <2>2 DEF Pos
<1>2. QED
  BY <1>1, ReceiveInductive, PTL DEF EofAfterAllData

\* An ACK on the wire covers only bytes that are delivered or still held.
THEOREM ReceiveAckedBytesKept == Spec => []AckedBytesKept
<1>1. IInv => AckedBytesKept
  BY DEF IInv, Numbers
<1>2. QED
  BY <1>1, ReceiveInductive, PTL

\* The window and the bytes held back always add up to TCP_WND.
THEOREM ReceiveWindowConserved == Spec => []WindowConserved
<1>1. IInv => WindowConserved
  BY DEF IInv, Numbers
<1>2. QED
  BY <1>1, ReceiveInductive, PTL

\* The out of sequence queue is ordered, without overlap, above rcv_nxt,
\* with a FIN only at its end.
THEOREM ReceiveOoseqOrdered == Spec => []OoseqOrdered
<1>1. ASSUME IInv, NEW i \in 1 .. Len(ooseq)
      PROVE  /\ TCP_TCPLEN(ooseq[i]) > 0
             /\ IF pc \in {"drain", "assert_failed"} THEN TCP_SEQ_GEQ(ooseq[i].seqno, rcv_nxt)
                ELSE TCP_SEQ_GT(ooseq[i].seqno, rcv_nxt)
             /\ ooseq[i].fin => i = Len(ooseq)
             /\ i < Len(ooseq) =>
                  TCP_SEQ_LEQ(SeqAdd(ooseq[i].seqno, TCP_TCPLEN(ooseq[i])), ooseq[i+1].seqno)
  <2>1. /\ SegmentFacts(ooseq[i]) /\ TCP_TCPLEN(ooseq[i]) > 0
        /\ ooseq[i].fin => i = Len(ooseq)
    BY <1>1, QueuedFacts
  <2>2. /\ ooseq[i].seqno = SeqAdd(ISN, ooseq[i].off) /\ ooseq[i].off \in Distance
        /\ ooseq[i].off \in Nat
    BY <2>1 DEF SegmentFacts
  <2>3. /\ rcv_nxt = SeqAdd(ISN, Received) /\ Received \in Distance /\ Received \in Nat
        /\ ISN \in SeqNo
    BY <1>1, NumberFacts, ReceiveAssumption DEF IInv, Numbers
  <2>4. QueueLow <= ooseq[i].off
    BY <1>1 DEF IInv, Queue, GoodQueue
  <2>5. IF pc \in {"drain", "assert_failed"} THEN TCP_SEQ_GEQ(ooseq[i].seqno, rcv_nxt)
        ELSE TCP_SEQ_GT(ooseq[i].seqno, rcv_nxt)
    <3>1. CASE pc \in {"drain", "assert_failed"}
      <4>1. Received <= ooseq[i].off
        BY <2>4, <3>1 DEF QueueLow
      <4>2. QED
        BY <2>2, <2>3, <3>1, <4>1, SeqOrder
    <3>2. CASE pc \notin {"drain", "assert_failed"}
      <4>1. Received + 1 <= ooseq[i].off
        BY <2>4, <3>2 DEF QueueLow
      <4>2. Received < ooseq[i].off
        BY <2>2, <2>3, <4>1
      <4>3. QED
        BY <2>2, <2>3, <3>2, <4>2, SeqOrder
    <3>3. QED
      BY <3>1, <3>2
  <2>6. ASSUME i < Len(ooseq)
        PROVE  TCP_SEQ_LEQ(SeqAdd(ooseq[i].seqno, TCP_TCPLEN(ooseq[i])), ooseq[i+1].seqno)
    <3> DEFINE e == ooseq[i].off + TCP_TCPLEN(ooseq[i])
    <3>1. i + 1 \in 1 .. Len(ooseq) /\ i < i + 1
      BY <1>1, <2>6 DEF IInv, TypeOK
    <3>2. e <= ooseq[i+1].off
      BY <1>1, <3>1 DEF IInv, Queue, GoodQueue
    <3>3. SegmentFacts(ooseq[i+1])
      BY <1>1, <3>1, QueuedFacts
    <3>4. ooseq[i+1].seqno = SeqAdd(ISN, ooseq[i+1].off) /\ ooseq[i+1].off \in Distance
      BY <3>3 DEF SegmentFacts
    <3>5. SeqAdd(ooseq[i].seqno, TCP_TCPLEN(ooseq[i])) = SeqAdd(ISN, e) /\ e \in Distance
      BY <2>1 DEF SegmentFacts
    <3> HIDE DEF e
    <3>6. QED
      BY <2>3, <3>2, <3>4, <3>5, SeqOrder
  <2>7. QED
    BY <2>1, <2>5, <2>6
<1>2. IInv => OoseqOrdered
  BY <1>1 DEF OoseqOrdered
<1>3. QED
  BY <1>2, ReceiveInductive, PTL

\* The announced window fits into the window there is.
THEOREM ReceiveAnnouncedFits == Spec => []AnnouncedFits
<1>1. ASSUME IInv PROVE AnnouncedFits
  <2> DEFINE e == Received + rcv_wnd
  <2>1. /\ Received \in Distance /\ rcv_wnd \in Distance /\ e < Half /\ e \in Distance
        /\ rcv_nxt = SeqAdd(ISN, Received) /\ ISN \in SeqNo
        /\ rcv_ann_right_edge = SeqAdd(ISN, Edge) /\ Edge \in Distance /\ Edge <= e
    BY <1>1, NumberFacts, ReceiveAssumption, HalfAssumption DEF IInv, Numbers, Distance
  <2>2. SeqAdd(rcv_nxt, rcv_wnd) = SeqAdd(ISN, e)
    BY <2>1, SeqAddAdd
  <2> HIDE DEF e
  <2>3. QED
    BY <2>1, <2>2, SeqOrder DEF AnnouncedFits
<1>2. QED
  BY <1>1, ReceiveInductive, PTL

\* The announced right edge of the window never moves back.
THEOREM ReceiveEdgeNeverRetracts == Spec => RightEdgeNeverRetracts
<1>1. ASSUME IInv, [Next]_vars
      PROVE  TCP_SEQ_GEQ(rcv_ann_right_edge', rcv_ann_right_edge)
  <2>1. IInv' /\ Edge <= Edge'
    BY <1>1, NextIInv
  <2>2. rcv_ann_right_edge = SeqAdd(ISN, Edge) /\ Edge \in Distance /\ ISN \in SeqNo
    BY <1>1, NumberFacts, ReceiveAssumption
  <2>3. (rcv_ann_right_edge = SeqAdd(ISN, Edge) /\ Edge \in Distance)'
    BY <2>1, NumberFacts, PTL
  <2>4. QED
    BY <2>1, <2>2, <2>3, SeqOrder
<1>2. QED
  BY <1>1, ReceiveInductive, PTL DEF Spec, RightEdgeNeverRetracts

-----------------------------------------------------------------------------
(***************************************************************************)
(* Acknowledgements, when sending works.                                   *)
(***************************************************************************)
\* Outside the loop that takes segments, what is received is acknowledged or
\* a flag asks for an ACK; TF_ACK_NOW does not outlive tcp_output.
Owing ==
  /\ pc \in {"idle", "refused", "process", "fast_refused"} => "NOW" \notin ackflags
  /\ pc \notin {"drain", "assert_failed"} => last_ack.ackno = rcv_nxt \/ ackflags # {}

\* A successful send leaves nothing owed.
LEMMA SentOwesNothing ==
  ASSUME SendErrors = {}, NEW ann, NEW res \in ResultsOfSend, AckOnWire(ann, res)
  PROVE  last_ack'.ackno = rcv_nxt /\ FlagsAfterSend(res) = {}
<1>1. res = "ok"
  BY DEF ResultsOfSend
<1>2. last_ack' = [ackno |-> rcv_nxt, wnd |-> ann]
  BY <1>1 DEF AckOnWire
<1>3. QED
  BY <1>1, <1>2 DEF FlagsAfterSend

\* With working sends, data that is received and not acknowledged has an ACK
\* scheduled whenever the stack is idle, whatever the application's callbacks
\* and the timers did in between.
THEOREM ReceiveAckOwed == ASSUME SendErrors = {} PROVE Spec => []AckOwed
<1>1. Init => Owing
  BY DEF Init, Owing
<1>2. ASSUME Owing, TypeOK, [Next]_vars PROVE Owing'
  <2>1. CASE UNCHANGED vars
    BY <1>2, <2>1 DEF vars, pcbVars, inputVars, Owing
  <2>2. ASSUME NEW s \in PeerSegments, tcp_input(s) PROVE Owing'
    BY <1>2, <2>2 DEF tcp_input, pcbVars, Owing
  <2>3. CASE InputRefusedAgain
    BY <1>2, <2>3 DEF InputRefusedAgain, RefusedAgain, pcbVars, Owing
  <2>4. CASE ProcessSyn
    BY <1>2, <2>4 DEF ProcessSyn, tcp_ack_now, Owing
  <2>5. CASE ReceiveNoText
    BY <1>2, <2>5 DEF ReceiveNoText, ToReceive, tcp_ack_now, Owing
  <2>6. CASE ReceiveInSequence
    BY <2>6 DEF ReceiveInSequence, Owing
  <2>7. CASE DrainOoseq
    BY <2>7 DEF DrainOoseq, Owing
  <2>8. CASE DrainDone
    BY <2>8 DEF DrainDone, tcp_ack, tcp_ack_now, Owing
  <2>9. CASE RecvNothing
    BY <1>2, <2>9 DEF RecvNothing, pcbVars, Owing
  <2>10. CASE RecvRefused
    BY <1>2, <2>10 DEF RecvRefused, Owing
  <2>11. CASE InputClosed
    BY <1>2, <2>11 DEF InputClosed, Owing
  <2>12. CASE ReceiveAssertFails \/ DrainAssertFails
    BY <2>12 DEF ReceiveAssertFails, DrainAssertFails, Owing
  <2>13. ASSUME NEW k \in 0 .. TCP_WND, RecvTaken(k) PROVE Owing'
    BY <1>2, <2>13 DEF RecvTaken, FlagsAfterRecved, tcp_ack_now, Owing
  <2>14. ASSUME NEW k \in 0 .. TCP_WND, NEW res \in ResultsOfSend, RefusedTaken(k, res),
                pc \in {"refused", "fast_refused"}, pc' \in {"process", "idle"}
         PROVE  Owing'
    <3>1. CASE UpdateDue(k)
      <4>1. AckOnWire(AnnAfterRecved(k), res) /\ ackflags' = FlagsAfterSend(res) /\ rcv_nxt' = rcv_nxt
        BY <2>14, <3>1 DEF RefusedTaken, tcp_send_empty_ack
      <4>2. QED
        BY <4>1, SentOwesNothing DEF Owing
    <3>2. CASE ~UpdateDue(k)
      BY <1>2, <2>14, <3>2 DEF RefusedTaken, Owing
    <3>3. QED
      BY <3>1, <3>2
  <2>15. ASSUME NEW res \in ResultsOfSend, tcp_send_empty_ack(rcv_ann_wnd, res), rcv_nxt' = rcv_nxt
         PROVE  Owing'
    BY <2>15, SentOwesNothing DEF tcp_send_empty_ack, Owing
  <2>16. ASSUME NEW res \in ResultsOfSend,
                ReceiveOutOfWindow(res) \/ QueueFirst(res) \/ QueueInOrder(res) \/ QueueNoMemory(res)
         PROVE  Owing'
    BY <2>15, <2>16 DEF ReceiveOutOfWindow, QueueFirst, QueueInOrder, QueueNoMemory, OutOfSequence
  <2>17. ASSUME NEW res \in ResultsOfSend, InputOutput(res) PROVE Owing'
    <3>1. CASE "NOW" \in ackflags
      BY <2>15, <2>17, <3>1 DEF InputOutput, tcp_output
    <3>2. CASE "NOW" \notin ackflags
      BY <1>2, <2>17, <3>2 DEF InputOutput, tcp_output, Owing
    <3>3. QED
      BY <3>1, <3>2
  <2>18. ASSUME NEW k \in 0 .. TCP_WND, NEW res \in ResultsOfSend,
                InputRefusedTaken(k, res) \/ FasttmrRefusedTaken(k, res)
         PROVE  Owing'
    BY <2>14, <2>18 DEF InputRefusedTaken, FasttmrRefusedTaken
  <2>19. CASE FasttmrNoAck
    BY <1>2, <2>19 DEF FasttmrNoAck, pcbVars, Owing
  <2>20. CASE FasttmrRefusedAgain
    BY <1>2, <2>20 DEF FasttmrRefusedAgain, RefusedAgain, pcbVars, Owing
  <2>21. CASE SlowtmrDropOoseq
    BY <1>2, <2>21 DEF SlowtmrDropOoseq, inputVars, Owing
  <2>22. ASSUME NEW res \in ResultsOfSend, FasttmrAck(res) PROVE Owing'
    BY <2>22, SentOwesNothing DEF FasttmrAck, Owing
  <2>23. ASSUME NEW k \in 1 .. TCP_WND, NEW res \in ResultsOfSend, tcp_recved(k, res)
         PROVE  Owing'
    <3>1. CASE UpdateDue(k)
      <4>1. AckOnWire(AnnAfterRecved(k), res) /\ ackflags' = FlagsAfterSend(res) /\ rcv_nxt' = rcv_nxt
        BY <2>23, <3>1 DEF tcp_recved, tcp_send_empty_ack
      <4>2. QED
        BY <4>1, SentOwesNothing DEF Owing
    <3>2. CASE ~UpdateDue(k)
      BY <1>2, <2>23, <3>2 DEF tcp_recved, inputVars, Owing
    <3>3. QED
      BY <3>1, <3>2
  <2>24. CASE Input
    BY <2>2, <2>3, <2>4, <2>5, <2>6, <2>7, <2>8, <2>9, <2>10, <2>11, <2>12, <2>13, <2>16, <2>17,
       <2>18, <2>24 DEF Input
  <2>25. CASE Timers
    BY <2>18, <2>19, <2>20, <2>21, <2>22, <2>25 DEF Timers
  <2>26. CASE Application
    BY <2>23, <2>26 DEF Application
  <2>27. QED
    BY <1>2, <2>1, <2>24, <2>25, <2>26 DEF Next
<1>3. Owing /\ TypeOK => AckOwed
  BY DEF Owing, TypeOK, AckOwed
<1>4. QED
  BY <1>1, <1>2, <1>3, ReceiveTypeOK, PTL DEF Spec

-----------------------------------------------------------------------------
(***************************************************************************)
(* The assertions of tcp_receive.  The right end of the receive window,    *)
(* Top, never moves back; the bytes queued fitted it when they came and so *)
(* fit it when their turn comes.  Only the FIN after them may not fit.     *)
(***************************************************************************)
Top == Len(delivered) - unread + TCP_WND + (IF eof THEN 1 ELSE 0)

FitsIn(q, hi) == \A i \in 1 .. Len(q) : q[i].off + q[i].len <= hi

\* The bytes at hand were within the announced window, or are a probe.
Arrived == inseg.off + inseg.len <= Edge \/ TCP_TCPLEN(inseg) <= 1

Room ==
  /\ FitsIn(ooseq, Top)
  /\ pc \in {"refused", "process"} => Arrived
  /\ OnlyFinTripsAssert

\* The window ends at Top.
LEMMA TopIsWindow ==
  ASSUME IInv
  PROVE  /\ Top = Received + rcv_wnd /\ Top \in Nat /\ Top \in Distance
         /\ Len(delivered) \in Nat /\ unread \in Nat
<1>1. /\ Len(delivered) \in Nat /\ Len(refused_data) \in Nat /\ Len(recv_data) \in Nat
      /\ Received \in Nat /\ rcv_wnd \in Nat /\ Received + rcv_wnd \in Distance
  BY NumberFacts
<1>2. unread \in Nat /\ TCP_WND \in Nat
  BY ReceiveAssumption DEF IInv, TypeOK
<1>3. PICK f, e \in {0, 1} : f = FinPending /\ e = IF eof THEN 1 ELSE 0
  BY DEF FinPending
<1>4. /\ rcv_wnd + unread + Len(refused_data) + Len(recv_data) + f = TCP_WND
      /\ Received = Len(delivered) + Len(refused_data) + Len(recv_data) + f + e
  BY <1>3 DEF IInv, Numbers, WindowConserved, Received
<1>5. Len(delivered) - unread + TCP_WND + e = Received + rcv_wnd
  BY <1>1, <1>2, <1>3, <1>4
<1>6. QED
  BY <1>1, <1>2, <1>3, <1>5 DEF Top

\* The end of a queue's last segment bounds the whole queue.
LEMMA LastFits ==
  ASSUME NEW q, NEW low \in Nat, GoodQueue(q, low), NEW hi \in Nat,
         q # <<>> => q[Len(q)].off + q[Len(q)].len <= hi
  PROVE  FitsIn(q, hi)
<1>1. q \in Seq(Segment) /\ Len(q) \in Nat
  BY DEF GoodQueue
<1>2. ASSUME NEW i \in 1 .. Len(q) PROVE q[i].off + q[i].len <= hi
  <2>1. Len(q) \in 1 .. Len(q) /\ q # <<>>
    BY <1>1
  <2>2. SegmentFacts(q[i]) /\ SegmentFacts(q[Len(q)])
    BY <2>1, GoodElement
  <2>3. i < Len(q) => q[i].off + TCP_TCPLEN(q[i]) <= q[Len(q)].off
    BY <2>1 DEF GoodQueue
  <2>4. CASE i = Len(q)
    BY <2>1, <2>4
  <2>5. CASE i < Len(q)
    <3>1. PICK a, l, b, m : a = q[i].off /\ l = q[i].len /\ b = q[Len(q)].off /\ m = q[Len(q)].len
      OBVIOUS
    <3>2. a \in Nat /\ l \in Nat /\ b \in Nat /\ m \in Nat /\ b + m <= hi
      BY <2>1, <2>2, <3>1 DEF SegmentFacts
    <3>3. a + l <= b
      <4>1. PICK c \in Nat : c = TCP_TCPLEN(q[i])
        BY <2>2 DEF SegmentFacts
      <4>2. l <= c
        BY <2>2, <3>1, <4>1 DEF SegmentFacts
      <4>3. a + c <= b
        BY <2>3, <2>5, <3>1, <4>1
      <4>4. QED
        BY <3>2, <4>1, <4>2, <4>3
    <3>4. a + l <= hi
      BY <3>2, <3>3
    <3>5. QED
      BY <3>1, <3>4
  <2>6. QED
    BY <1>1, <2>4, <2>5
<1>3. QED
  BY <1>2 DEF FitsIn

\* Where a queue with the FIN fits, the whole stream does.
LEMMA TakenFinFits ==
  ASSUME NEW q, NEW low \in Nat, GoodQueue(q, low), NEW hi \in Nat, FitsIn(q, hi),
         NEW k \in 0 .. Len(q), SomeFin(q, k)
  PROVE  N <= hi /\ k = Len(q) /\ k \in 1 .. Len(q) /\ q[k].fin
<1>1. Len(q) \in Nat
  BY DEF GoodQueue
<1>2. PICK i \in 1 .. k : q[i].fin
  BY DEF SomeFin
<1>3. i \in 1 .. Len(q)
  BY <1>1
<1>4. SegmentFacts(q[i]) /\ i = Len(q)
  BY <1>2, <1>3, GoodElement
<1>5. q[i].off + q[i].len <= hi
  BY <1>3 DEF FitsIn
<1>6. q[i].off + q[i].len = N
  BY <1>2, <1>4 DEF SegmentFacts
<1>7. QED
  BY <1>1, <1>2, <1>4, <1>5, <1>6

\* A queued FIN, where the rest of the stream fills the window.
LEMMA FinAtTop ==
  ASSUME IInv, NEW i \in 1 .. Len(ooseq), ooseq[i].fin, N = Received + rcv_wnd
  PROVE  FinJustBeyond
<1>1. SegmentFacts(ooseq[i])
  BY QueuedFacts
<1>2. PICK r, w : r = Received /\ w = rcv_wnd
  OBVIOUS
<1>3. /\ r \in Nat /\ w \in Nat /\ r \in Distance /\ r + w \in Distance
      /\ rcv_nxt = SeqAdd(ISN, r) /\ ISN \in SeqNo
  BY <1>2, NumberFacts, ReceiveAssumption DEF IInv, Numbers
<1>4. w \in Distance /\ r + w < Half
  BY <1>3, HalfAssumption DEF Distance
<1>5. SeqAdd(rcv_nxt, w) = SeqAdd(ISN, r + w)
  BY <1>3, <1>4, SeqAddAdd
<1>6. SeqAdd(ooseq[i].seqno, ooseq[i].len) = SeqAdd(ISN, N)
  BY <1>1 DEF SegmentFacts
<1>7. QED
  BY <1>2, <1>5, <1>6 DEF FinJustBeyond

LEMMA DifferenceType ==
  ASSUME NEW a \in SeqNo, NEW b \in SeqNo
  PROVE  SeqSub(a, b) \in Nat
<1>1. SeqSub(a, b) \in SeqNo
  BY SeqSubType
<1>2. QED
  BY <1>1, HalfAssumption DEF SeqNo, SeqMod

\* The walk of tcp_receive queues nothing beyond what it was given.
LEMMA QueueAtFits ==
  ASSUME NEW low, NEW s, NEW i, NEW k, WalkStops(s, i, k, low), FitsIn(ooseq, Received + rcv_wnd),
         s.off + s.len <= Received + rcv_wnd
  PROVE  FitsIn(QueueAt(s, i, k), Received + rcv_wnd)
<1> DEFINE q == DropFirst(ooseq, i - 1)
           rest == DropFirst(q, k)
           v == TakeFin(s, q, k)
           new == tcp_oos_insert_segment(s, q, k)
<1>1. PICK hi : hi = Received + rcv_wnd
  OBVIOUS
<1>2. /\ low \in Nat /\ GoodQueue(ooseq, low) /\ rcv_nxt = SeqAdd(ISN, Received)
      /\ Received \in Nat /\ rcv_wnd \in Nat /\ hi \in Nat /\ hi \in Distance
      /\ Truthful(s) /\ i \in 1 .. Len(ooseq) /\ k \in 0 .. Len(ooseq) - i + 1
      /\ FitsIn(ooseq, hi) /\ s.off + s.len <= hi
  BY <1>1 DEF WalkStops
<1>3. SegmentFacts(s) /\ TCP_TCPLEN(s) > 0
  BY <1>2, TruthfulFacts DEF WalkStops
<1>4. ooseq \in Seq(Segment) /\ Len(ooseq) \in Nat /\ i - 1 \in 0 .. Len(ooseq)
  BY <1>2 DEF GoodQueue
<1>5. /\ q \in Seq(Segment) /\ Len(q) = Len(ooseq) - (i - 1)
      /\ \A j \in 1 .. Len(ooseq) - (i - 1) : q[j] = ooseq[j + (i - 1)]
  <2>1. PICK m : m = i - 1
    OBVIOUS
  <2>2. m \in 0 .. Len(ooseq)
    BY <2>1, <1>4
  <2>3. /\ DropFirst(ooseq, m) \in Seq(Segment)
        /\ Len(DropFirst(ooseq, m)) = Len(ooseq) - m
        /\ \A j \in 1 .. Len(ooseq) - m : DropFirst(ooseq, m)[j] = ooseq[j + m]
    BY <2>2, <1>4, DropFirstFacts
  <2>4. QED
    BY <2>1, <2>3
<1>6. Len(q) \in Nat /\ k \in 0 .. Len(q) /\ Len(q) > 0
  BY <1>2, <1>4, <1>5
<1>7. /\ rest \in Seq(Segment) /\ Len(rest) = Len(q) - k
      /\ \A j \in 1 .. Len(q) - k : rest[j] = q[j + k]
      /\ rest = <<>> <=> k = Len(q)
  BY <1>5, <1>6, DropFirstFacts
<1>8. GoodQueue(q, low)
  BY <1>2, <1>4, GoodDropFirst
<1>9. FitsIn(q, hi)
  <2>1. ASSUME NEW j \in 1 .. Len(q) PROVE q[j].off + q[j].len <= hi
    <3>1. j + (i - 1) \in 1 .. Len(ooseq) /\ q[j] = ooseq[j + (i - 1)]
      BY <1>2, <1>4, <1>5
    <3>2. QED
      BY <3>1, <1>2 DEF FitsIn
  <2>2. QED
    BY <2>1 DEF FitsIn
<1>10. v.off = s.off /\ v.len = s.len /\ v.fin = (s.fin \/ SomeFin(q, k)) /\ v.syn = FALSE /\ v \in Segment
  <2>1. s \in Segment /\ s.fin \in BOOLEAN /\ s.syn = FALSE
    BY <1>3 DEF SegmentFacts
  <2>2. SomeFin(q, k) \in BOOLEAN
    BY DEF SomeFin
  <2>3. QED
    BY <2>1, <2>2 DEF TakeFin, Segment
<1>11. v.off + v.len <= hi
  BY <1>2, <1>10
<1> HIDE DEF q, rest, v, new
<1>12. ASSUME NEW a, QueueAt(s, i, k) = a \o new, a \in Seq(Segment)
       PROVE  FitsIn(QueueAt(s, i, k), hi)
  <2>1. PICK r : r = QueueAt(s, i, k)
    OBVIOUS
  <2>2. GoodQueue(r, low)
    BY <2>1, QueueAtGood
  <2>3. r \in Seq(Segment) /\ Len(r) \in Nat
    BY <2>2 DEF GoodQueue
  <2>4. PICK x : x = TrimToNext(v, s.len, rest)
    OBVIOUS
  <2>5. new = <<x>> \o rest
    BY <2>4 DEF new, v, rest, tcp_oos_insert_segment
  <2>6. rest = <<>> => x = v
    BY <2>4 DEF TrimToNext
  <2>7. x \in Segment
    <3>1. CASE x = v
      BY <3>1, <1>10
    <3>2. CASE x # v
      <4>1. x = [v EXCEPT !.len = SeqSub(rest[1].seqno, v.seqno)]
        BY <2>4, <3>2 DEF TrimToNext
      <4>2. rest # <<>>
        BY <2>6, <3>2
      <4>3. rest[1] \in Segment
        BY <4>2, <1>7
      <4>4. rest[1].seqno \in SeqNo /\ v.seqno \in SeqNo
        BY <4>3, <1>10 DEF Segment
      <4>5. SeqSub(rest[1].seqno, v.seqno) \in Nat
        BY <4>4, DifferenceType
      <4>6. QED
        BY <4>1, <4>5, <1>10 DEF Segment
    <3>3. QED
      BY <3>1, <3>2
  <2>8. r = (a \o <<x>>) \o rest
    <3>1. <<x>> \in Seq(Segment)
      BY <2>7
    <3>2. r = a \o (<<x>> \o rest)
      BY <2>1, <2>5, <1>12
    <3>3. QED
      BY <3>1, <3>2, <1>7, <1>12, ConcatAssociative
  <2>9. PICK b : b = a \o <<x>>
    OBVIOUS
  <2>10. b \in Seq(Segment) /\ Len(b) = Len(a) + 1 /\ b[Len(b)] = x /\ Len(a) \in Nat
    BY <2>7, <2>9, <1>12
  <2>11. /\ Len(r) = Len(b) + Len(rest)
         /\ \A j \in Len(b) + 1 .. Len(b) + Len(rest) : r[j] = rest[j - Len(b)]
         /\ rest = <<>> => r = b
    <3>1. r = b \o rest /\ b \in Seq(Segment) /\ rest \in Seq(Segment)
      BY <2>8, <2>9, <2>10, <1>7
    <3>2. /\ Len(b \o rest) = Len(b) + Len(rest)
          /\ \A j \in Len(b) + 1 .. Len(b) + Len(rest) : (b \o rest)[j] = rest[j - Len(b)]
      BY <3>1, ConcatFacts
    <3>3. rest = <<>> => b \o rest = b
      BY <3>1
    <3>4. QED
      BY <3>1, <3>2, <3>3
  <2>12. CASE rest = <<>>
    <3>1. r[Len(r)] = v
      BY <2>12, <2>6, <2>10, <2>11
    <3>2. r[Len(r)].off + r[Len(r)].len <= hi
      BY <3>1, <1>11
    <3>3. QED
      BY <3>2, <2>1, <2>2, <1>2, LastFits
  <2>13. CASE rest # <<>>
    <3>1. Len(rest) \in Nat /\ Len(rest) > 0 /\ Len(rest) = Len(q) - k
      BY <2>13, <1>7
    <3>2. Len(r) \in Len(b) + 1 .. Len(b) + Len(rest) /\ Len(r) - Len(b) = Len(rest)
      BY <3>1, <2>10, <2>11
    <3>3. r[Len(r)] = rest[Len(rest)]
      BY <3>2, <2>11
    <3>4. rest[Len(rest)] = q[Len(rest) + k] /\ Len(rest) + k = Len(q)
      BY <3>1, <1>6, <1>7
    <3>5. r[Len(r)] = q[Len(q)] /\ Len(q) \in 1 .. Len(q)
      BY <3>3, <3>4, <1>6
    <3>6. r[Len(r)].off + r[Len(r)].len <= hi
      BY <3>5, <1>9 DEF FitsIn
    <3>7. QED
      BY <3>6, <2>1, <2>2, <1>2, LastFits
  <2>14. QED
    BY <2>12, <2>13
<1>13. CutToWindow(s) \in Segment /\ CutToWindow(s).off + CutToWindow(s).len <= hi
  <2>1. SeqAdd(rcv_nxt, rcv_wnd) = SeqAdd(ISN, hi)
    <3>1. Received \in Distance /\ rcv_wnd \in Distance /\ Received + rcv_wnd < Half /\ ISN \in SeqNo
      BY <1>1, <1>2, ReceiveAssumption, HalfAssumption DEF Distance
    <3>2. QED
      BY <3>1, <1>1, <1>2, SeqAddAdd
  <2>2. CASE CutToWindow(s) = s
    BY <2>2, <1>2, <1>3 DEF SegmentFacts
  <2>3. CASE CutToWindow(s) # s
    <3>1. CutToWindow(s) = [s EXCEPT !.fin = FALSE, !.len = SeqSub(SeqAdd(ISN, hi), s.seqno)]
      BY <2>1, <2>3 DEF CutToWindow
    <3>2. PICK o, l : o = s.off /\ l = s.len
      OBVIOUS
    <3>3. /\ o \in Nat /\ l \in Nat /\ o \in Distance /\ hi \in Distance /\ o <= hi
          /\ s.seqno = SeqAdd(ISN, o) /\ ISN \in SeqNo
      BY <3>2, <1>2, <1>3, ReceiveAssumption DEF SegmentFacts
    <3>4. SeqSub(SeqAdd(ISN, hi), SeqAdd(ISN, o)) = hi - o
      BY <3>3, SeqSubDistance DEF Distance
    <3>5. hi - o \in Nat /\ o + (hi - o) <= hi
      BY <3>3, <1>2
    <3>6. QED
      BY <3>1, <3>2, <3>3, <3>4, <3>5, <1>3 DEF Segment, SegmentFacts
  <2>4. QED
    BY <2>2, <2>3
<1>14. ASSUME NEW a, QueueAt(s, i, k) = a \o <<CutToWindow(s)>>, a \in Seq(Segment)
       PROVE  FitsIn(QueueAt(s, i, k), hi)
  <2>1. PICK r, c : r = QueueAt(s, i, k) /\ c = CutToWindow(s)
    OBVIOUS
  <2>2. GoodQueue(r, low)
    BY <2>1, QueueAtGood
  <2>3. r = a \o <<c>> /\ c \in Segment /\ c.off + c.len <= hi
    BY <2>1, <1>14, <1>13
  <2>4. r[Len(r)] = c
    BY <2>3, <1>14
  <2>5. QED
    BY <2>1, <2>2, <2>3, <2>4, <1>2, LastFits
<1>15. ASSUME NEW n \in 1 .. Len(ooseq) + 1 PROVE CutBefore(s, n) \in Seq(Segment)
  <2>1. ASSUME NEW j \in 1 .. n - 1 PROVE CutBefore(s, n)[j] \in Segment
    <3>1. j \in 1 .. Len(ooseq) /\ ooseq[j] \in Segment
      BY <1>4
    <3>2. ooseq[j].seqno \in SeqNo /\ s.seqno \in SeqNo
      BY <3>1, <1>3 DEF Segment, SegmentFacts
    <3>3. SeqSub(s.seqno, ooseq[j].seqno) \in Nat
      BY <3>2, DifferenceType
    <3>4. [ooseq[j] EXCEPT !.len = SeqSub(s.seqno, ooseq[j].seqno)] \in Segment
      BY <3>1, <3>3 DEF Segment
    <3>5. QED
      BY <3>1, <3>4 DEF CutBefore
  <2>2. n - 1 \in Nat
    BY <1>4
  <2>3. PICK c : c = CutBefore(s, n)
    OBVIOUS
  <2>4. c = [j \in 1 .. n - 1 |-> c[j]]
    BY <2>3 DEF CutBefore
  <2>5. \A j \in 1 .. n - 1 : c[j] \in Segment
    BY <2>1, <2>3
  <2>6. c \in Seq(Segment)
    BY <2>2, <2>4, <2>5, IsASeq
  <2>7. QED
    BY <2>3, <2>6
<1>16. SubSeq(ooseq, 1, i - 1) \in Seq(Segment)
  BY <1>2, <1>4
<1>17. i \in 1 .. Len(ooseq) + 1 /\ i + 1 \in 1 .. Len(ooseq) + 1
  BY <1>2, <1>4
<1>18. \/ QueueAt(s, i, k) = ooseq
       \/ QueueAt(s, i, k) = SubSeq(ooseq, 1, i - 1) \o new
       \/ QueueAt(s, i, k) = CutBefore(s, i) \o new
       \/ QueueAt(s, i, k) = CutBefore(s, i + 1) \o <<CutToWindow(s)>>
  BY DEF QueueAt, new, q
<1>19. FitsIn(QueueAt(s, i, k), hi)
  BY <1>2, <1>12, <1>14, <1>15, <1>16, <1>17, <1>18
<1>20. QED
  BY <1>1, <1>19

\* The in-sequence segment passes the assertions of tcp_receive, unless it
\* takes over the FIN.
LEMMA InSeqAssertsHold ==
  ASSUME IInv, FitsIn(ooseq, Top), NEW k \in 0 .. Len(ooseq), InSequence(k)
  PROVE  InSeqAsserts(k) \/ FinJustBeyond
<1>1. /\ ooseq \in Seq(Segment) /\ Len(ooseq) \in Nat
  BY DEF IInv, TypeOK
<1>2. PICK low \in Nat : GoodQueue(ooseq, low)
  BY NumberFacts DEF IInv, Queue, QueueLow
<1>3. Truthful(inseg) /\ TCP_TCPLEN(inseg) > 0
  BY DEF IInv, Control, InSequence, ToReceive, HasText, SynSegment
<1>4. PICK t : t = Trimmed
  OBVIOUS
<1>5. Truthful(t) /\ TCP_TCPLEN(t) > 0 /\ t.seqno = rcv_nxt
  BY <1>3, <1>4, TrimFrontFacts DEF InSequence, Trimmed
<1>6. SegmentFacts(t)
  BY <1>5, TruthfulFacts
<1>7. PICK r, w : r = Received /\ w = rcv_wnd
  OBVIOUS
<1>8. /\ r \in Nat /\ r \in Distance /\ w \in Nat /\ r + w \in Distance
      /\ rcv_nxt = SeqAdd(ISN, r) /\ ISN \in SeqNo /\ Top = r + w /\ Top \in Nat
  BY <1>7, NumberFacts, TopIsWindow, ReceiveAssumption DEF IInv, Numbers
<1>9. t.off = r
  <2>1. PICK o : o = t.off
    OBVIOUS
  <2>2. t.seqno = SeqAdd(ISN, o) /\ o \in Distance
    BY <2>1, <1>6 DEF SegmentFacts
  <2>3. SeqAdd(ISN, o) = SeqAdd(ISN, r) /\ o \in Distance /\ r \in Distance /\ ISN \in SeqNo
    BY <2>2, <1>5, <1>8
  <2>4. o = r
    BY ONLY <2>3, SeqInjective
  <2>5. QED
    BY <2>1, <2>4
<1>10. PICK l \in Nat : l = t.len
  BY <1>6 DEF SegmentFacts
<1>11. r + l <= N /\ t.fin \in BOOLEAN /\ t.syn = FALSE /\ t \in Segment
       /\ TCP_TCPLEN(t) = l + (IF t.fin THEN 1 ELSE 0)
  BY <1>5, <1>6, <1>9, <1>10 DEF SegmentFacts
<1>12. PICK u : u = TrimToWnd(t)
  OBVIOUS
<1>13. /\ u \in Segment /\ u.seqno = rcv_nxt /\ u.syn = FALSE /\ u.fin \in BOOLEAN
       /\ u.len \in Nat /\ u.len <= l /\ TCP_TCPLEN(u) <= w
       /\ TCP_TCPLEN(u) = u.len + (IF u.fin THEN 1 ELSE 0)
  <2>1. CASE TCP_TCPLEN(t) > rcv_wnd
    <3>1. u = [t EXCEPT !.fin = FALSE, !.len = rcv_wnd]
      BY <2>1, <1>12 DEF TrimToWnd
    <3>2. /\ u \in Segment /\ u.seqno = t.seqno /\ u.fin = FALSE /\ u.len = w /\ u.syn = FALSE
      BY <3>1, <1>7, <1>8, <1>11 DEF Segment
    <3>3. TCP_TCPLEN(u) = w
      BY <3>2, <1>8 DEF TCP_TCPLEN
    <3>4. w <= l
      BY <2>1, <1>7, <1>8, <1>10, <1>11
    <3>5. w = w + 0 /\ w <= w
      BY <1>8
    <3>6. QED
      BY <3>2, <3>3, <3>4, <3>5, <1>5, <1>8
  <2>2. CASE ~(TCP_TCPLEN(t) > rcv_wnd)
    <3>1. u = t
      BY <2>2, <1>12 DEF TrimToWnd
    <3>2. TCP_TCPLEN(t) <= w
      BY <2>2, <1>7, <1>8, <1>10, <1>11
    <3>3. QED
      BY <3>1, <3>2, <1>5, <1>10, <1>11
  <2>3. QED
    BY <2>1, <2>2
<1>14. PICK v, rest, x : /\ v = TakeFin(u, ooseq, k) /\ rest = DropFirst(ooseq, k)
                         /\ x = TrimToNext(v, TCP_TCPLEN(v), rest)
  OBVIOUS
<1>15. InSeqSegment(k) = x
  BY <1>4, <1>12, <1>14 DEF InSeqSegment
<1>16. /\ rest \in Seq(Segment) /\ Len(rest) = Len(ooseq) - k
       /\ \A j \in 1 .. Len(ooseq) - k : rest[j] = ooseq[j + k]
       /\ rest = <<>> <=> k = Len(ooseq)
  BY <1>1, <1>14, DropFirstFacts
<1>17. /\ v \in Segment /\ v.seqno = rcv_nxt /\ v.len = u.len /\ v.syn = FALSE
       /\ v.fin = (u.fin \/ SomeFin(ooseq, k))
  <2>1. SomeFin(ooseq, k) \in BOOLEAN
    BY DEF SomeFin
  <2>2. QED
    BY <2>1, <1>13, <1>14 DEF TakeFin, Segment
<1>18. rest = <<>> => x = v
  BY <1>14 DEF TrimToNext
<1>19. CASE SomeFin(ooseq, k)
  <2>1. N <= r + w /\ k = Len(ooseq) /\ k \in 1 .. Len(ooseq) /\ ooseq[k].fin
    BY <1>19, <1>2, <1>8, TakenFinFits
  <2>2. TCP_TCPLEN(v) = u.len + 1
    BY <1>17, <1>19 DEF TCP_TCPLEN
  <2>3. PICK m \in Nat : m = u.len
    BY <1>13
  <2>4. CASE N = r + w
    BY <2>1, <2>4, <1>7, FinAtTop
  <2>5. CASE N # r + w
    <3>1. m + 1 <= w
      BY <2>1, <2>3, <2>5, <1>8, <1>11, <1>13, ReceiveAssumption
    <3>2. QED
      BY <3>1, <2>1, <2>2, <2>3, <1>7, <1>14, <1>15, <1>16, <1>18 DEF InSeqAsserts
  <2>6. QED
    BY <2>4, <2>5
<1>20. CASE ~SomeFin(ooseq, k)
  <2>1. TCP_TCPLEN(v) = TCP_TCPLEN(u)
    BY <1>13, <1>17, <1>20 DEF TCP_TCPLEN
  <2>2. CASE rest = <<>>
    BY <2>1, <2>2, <1>7, <1>13, <1>14, <1>15, <1>18 DEF InSeqAsserts
  <2>3. CASE rest # <<>>
    <3>1. v.fin = FALSE
      <4>1. CoversInSeq(u, ooseq, k)
        BY <1>4, <1>12 DEF InSequence
      <4>2. ~u.fin
        BY <4>1, <2>3, <1>16 DEF CoversInSeq
      <4>3. QED
        BY <4>2, <1>17, <1>20
    <3>2. PICK m \in Nat : m = v.len
      BY <1>13, <1>17
    <3>3. TCP_TCPLEN(v) = m /\ m <= w
      BY <3>1, <3>2, <2>1, <1>8, <1>13, <1>17 DEF TCP_TCPLEN
    <3>4. 1 \in 1 .. Len(ooseq) - k /\ k + 1 \in 1 .. Len(ooseq)
      BY <2>3, <1>1, <1>16
    <3>5. rest[1] = ooseq[k + 1]
      BY <3>4, <1>16
    <3>6. SegmentFacts(ooseq[k + 1]) /\ Received <= ooseq[k + 1].off
      BY <3>4, QueuedFacts
    <3>7. PICK o : o = rest[1].off
      OBVIOUS
    <3>8. o \in Nat /\ o \in Distance /\ rest[1].seqno = SeqAdd(ISN, o) /\ r <= o
      BY <3>5, <3>6, <3>7, <1>7 DEF SegmentFacts
    <3>9. /\ m \in Distance /\ r + m \in Distance /\ r + m < Half
          /\ SeqAdd(rcv_nxt, m) = SeqAdd(ISN, r + m)
      <4>1. m \in Distance /\ r + m \in Distance /\ r + m < Half
        BY <3>2, <3>3, <1>8, HalfAssumption DEF Distance
      <4>2. QED
        BY <4>1, <1>8, SeqAddAdd
    <3>10. PICK e : e = r + m
      OBVIOUS
    <3>11. /\ TCP_SEQ_GT(SeqAdd(rcv_nxt, m), rest[1].seqno) <=> e > o
           /\ TCP_SEQ_LEQ(SeqAdd(rcv_nxt, m), rest[1].seqno) <=> e <= o
      BY <3>8, <3>9, <3>10, <1>8, SeqOrder
    <3>12. CASE e > o
      <4>1. x = [v EXCEPT !.len = SeqSub(rest[1].seqno, v.seqno)]
        BY <3>3, <3>11, <3>12, <2>3, <1>14, <1>17 DEF TrimToNext
      <4>2. SeqSub(rest[1].seqno, v.seqno) = o - r
        BY <3>8, <1>8, <1>17, SeqSubDistance DEF Distance
      <4>3. x.len = o - r /\ x.fin = FALSE /\ x.syn = FALSE /\ x.seqno = rcv_nxt
        BY <4>1, <4>2, <3>1, <1>17 DEF Segment
      <4>4. PICK d \in Nat : d = o - r
        BY <3>8, <1>8
      <4>5. TCP_TCPLEN(x) = d
        BY <4>3, <4>4 DEF TCP_TCPLEN
      <4>6. d <= w /\ r + d = o /\ d \in Distance /\ r + d < Half
        BY <4>4, <3>2, <3>3, <3>8, <3>9, <3>10, <3>12, <1>8, HalfAssumption DEF Distance
      <4>7. SeqAdd(rcv_nxt, d) = SeqAdd(ISN, o)
        BY <4>6, <1>8, SeqAddAdd
      <4>8. TCP_SEQ_LEQ(SeqAdd(ISN, o), SeqAdd(ISN, o))
        BY <3>8, <1>8, SeqOrder
      <4>9. QED
        BY <4>3, <4>5, <4>6, <4>7, <4>8, <3>8, <1>7, <1>14, <1>15 DEF InSeqAsserts
    <3>13. CASE ~(e > o)
      <4>1. x = v
        BY <3>3, <3>11, <3>13, <2>3, <1>14, <1>17 DEF TrimToNext
      <4>2. e <= o
        BY <3>2, <3>8, <3>10, <3>13, <1>8
      <4>3. QED
        BY <4>1, <4>2, <3>3, <3>11, <1>7, <1>14, <1>15, <1>17 DEF InSeqAsserts
    <3>14. QED
      BY <3>12, <3>13
  <2>4. QED
    BY <2>2, <2>3
<1>21. QED
  BY <1>19, <1>20

\* A queued segment whose turn has come passes the assertion of the loop,
\* unless it has the FIN.
LEMMA DrainAssertHolds ==
  ASSUME IInv, FitsIn(ooseq, Top), DrainAssertFails
  PROVE  FinJustBeyond
<1>1. /\ ooseq # <<>> /\ ooseq[1].seqno = rcv_nxt /\ TCP_TCPLEN(ooseq[1]) > rcv_wnd
  BY DEF DrainAssertFails, HeadInSequence
<1>2. ooseq \in Seq(Segment)
  BY DEF IInv, TypeOK
<1>3. 1 \in 1 .. Len(ooseq)
  BY <1>1, <1>2
<1>4. SegmentFacts(ooseq[1])
  BY <1>3, QueuedFacts
<1>5. PICK o, l, r, w : o = ooseq[1].off /\ l = ooseq[1].len /\ r = Received /\ w = rcv_wnd
  OBVIOUS
<1>6. /\ r \in Nat /\ r \in Distance /\ w \in Nat /\ rcv_nxt = SeqAdd(ISN, r) /\ ISN \in SeqNo
      /\ Top = r + w
  BY <1>5, NumberFacts, TopIsWindow, ReceiveAssumption DEF IInv, Numbers
<1>7. ooseq[1].seqno = SeqAdd(ISN, o) /\ o \in Distance /\ o \in Nat /\ l \in Nat
  BY <1>4, <1>5 DEF SegmentFacts
<1>8. o = r
  BY <1>1, <1>6, <1>7, SeqInjective
<1>9. o + l <= r + w
  BY <1>3, <1>5, <1>6 DEF FitsIn
<1>10. ~(l > w)
  BY <1>6, <1>7, <1>8, <1>9
<1>11. ooseq[1].fin /\ l + 1 > w
  BY <1>1, <1>4, <1>5, <1>10 DEF SegmentFacts
<1>12. l = w
  BY <1>6, <1>7, <1>10, <1>11
<1>13. o + l = N
  BY <1>4, <1>5, <1>11 DEF SegmentFacts
<1>14. N = Received + rcv_wnd
  BY <1>5, <1>8, <1>12, <1>13
<1>15. QED
  BY <1>3, <1>11, <1>14, FinAtTop

\* The right end of the window never moves back.
LEMMA TopGrows ==
  ASSUME IInv, [Next]_vars
  PROVE  Top <= Top'
<1>1. /\ Len(delivered) \in Nat /\ unread \in Nat /\ TCP_WND \in Nat
      /\ delivered \in Seq(Nat) /\ refused_data \in Seq(Nat) /\ recv_data \in Seq(Nat)
      /\ eof \in BOOLEAN /\ got_fin \in BOOLEAN /\ refused_fin \in BOOLEAN
  BY TopIsWindow, ReceiveAssumption DEF IInv, TypeOK
<1>2. ASSUME UNCHANGED <<delivered, unread>>, eof => eof' PROVE Top <= Top'
  BY <1>1, <1>2 DEF Top
<1>3. ASSUME NEW data \in Seq(Nat), NEW k, Accept(data, k), eof => eof'
      PROVE  Top <= Top'
  <2>1. PICK d, a, n, e, e2 :
          /\ d = Len(delivered) /\ a = Len(data) /\ n = Len(delivered')
          /\ e = (IF eof THEN 1 ELSE 0) /\ e2 = (IF eof' THEN 1 ELSE 0)
    OBVIOUS
  <2>2. d \in Nat /\ a \in Nat /\ n = d + a /\ k \in Nat /\ unread' = unread + a - k
    BY <2>1, <1>1, <1>3 DEF Accept
  <2>3. e \in Nat /\ e2 \in Nat /\ e <= e2
    BY <2>1, <1>3
  <2>4. d - unread + TCP_WND + e <= n - unread' + TCP_WND + e2
    BY <2>2, <2>3, <1>1
  <2>5. QED
    BY <2>1, <2>4 DEF Top
<1>4. CASE UNCHANGED vars
  BY <1>2, <1>4 DEF vars, appVars
<1>5. CASE QuietAction \/ DrainDone \/ SlowtmrDropOoseq \/ ReceiveInSequence \/ DrainOoseq \/ RecvRefused
  BY <1>2, <1>5 DEF QuietAction, tcp_input, InputRefusedAgain, RefusedAgain, ProcessSyn, ReceiveNoText,
       RecvNothing, ReceiveAssertFails, DrainAssertFails, ReceiveOutOfWindow, QueueNoMemory,
       OutOfSequence, InputOutput, FasttmrNoAck, FasttmrRefusedAgain, FasttmrAck,
       DrainDone, SlowtmrDropOoseq, ReceiveInSequence, DrainOoseq, RecvRefused, appVars
<1>6. ASSUME NEW res \in ResultsOfSend, QueueFirst(res) \/ QueueInOrder(res) PROVE Top <= Top'
  BY <1>2, <1>6 DEF QueueFirst, QueueInOrder, OutOfSequence, appVars
<1>7. CASE InputClosed
  BY <1>2, <1>7 DEF InputClosed
<1>8. ASSUME NEW k \in 0 .. TCP_WND, RecvTaken(k) PROVE Top <= Top'
  BY <1>1, <1>3, <1>8 DEF RecvTaken
<1>9. ASSUME NEW k \in 0 .. TCP_WND, NEW res \in ResultsOfSend,
             InputRefusedTaken(k, res) \/ FasttmrRefusedTaken(k, res)
      PROVE  Top <= Top'
  <2>1. Accept(refused_data, k) /\ (eof => eof')
    BY <1>9 DEF InputRefusedTaken, FasttmrRefusedTaken, RefusedTaken
  <2>2. QED
    BY <2>1, <1>1, <1>3
<1>10. ASSUME NEW k \in 1 .. TCP_WND, NEW res \in ResultsOfSend, tcp_recved(k, res)
       PROVE  Top <= Top'
  <2>1. delivered' = delivered /\ eof' = eof /\ unread' = unread - k
    BY <1>10 DEF tcp_recved
  <2>2. PICK d, e \in Nat : d = Len(delivered) /\ e = IF eof THEN 1 ELSE 0
    BY <1>1
  <2>3. d - unread + TCP_WND + e <= d - (unread - k) + TCP_WND + e
    BY <2>2, <1>1
  <2>4. QED
    BY <2>1, <2>2, <2>3 DEF Top
<1>11. CASE Input
  BY <1>11, <1>5, <1>6, <1>7, <1>8, <1>9 DEF Input, QuietAction
<1>12. CASE Timers
  BY <1>12, <1>5, <1>9 DEF Timers, QuietAction
<1>13. CASE Application
  BY <1>13, <1>10 DEF Application
<1>14. QED
  BY <1>4, <1>11, <1>12, <1>13 DEF Next

\* Where the window ends now, the queue of the next state fits.
LEMMA QueueStaysInside ==
  ASSUME IInv, Room, [Next]_vars
  PROVE  FitsIn(ooseq', Top)
<1>1. /\ ooseq \in Seq(Segment) /\ Len(ooseq) \in Nat /\ FitsIn(ooseq, Top)
  BY DEF IInv, TypeOK, Room
<1>2. ASSUME ooseq' = ooseq \/ ooseq' = <<>> PROVE FitsIn(ooseq', Top)
  BY <1>1, <1>2 DEF FitsIn
<1>3. CASE ReceiveInSequence
  <2>1. PICK k \in 0 .. Len(ooseq) : ooseq' = DropFirst(ooseq, k)
    BY <1>3 DEF ReceiveInSequence
  <2>2. /\ Len(ooseq') = Len(ooseq) - k
        /\ \A j \in 1 .. Len(ooseq) - k : ooseq'[j] = ooseq[j + k]
    BY <2>1, <1>1, DropFirstFacts
  <2>3. \A j \in 1 .. Len(ooseq) - k : j + k \in 1 .. Len(ooseq)
    BY <1>1
  <2>4. QED
    BY <2>2, <2>3, <1>1 DEF FitsIn
<1>4. CASE DrainOoseq
  <2>1. ooseq' = Tail(ooseq) /\ ooseq # <<>>
    BY <1>4 DEF DrainOoseq, HeadInSequence
  <2>2. /\ Len(ooseq') = Len(ooseq) - 1
        /\ \A j \in 1 .. Len(ooseq) - 1 : ooseq'[j] = ooseq[j + 1]
    BY <2>1, <1>1
  <2>3. \A j \in 1 .. Len(ooseq) - 1 : j + 1 \in 1 .. Len(ooseq)
    BY <1>1
  <2>4. QED
    BY <2>2, <2>3, <1>1 DEF FitsIn
<1>5. ASSUME NEW res \in ResultsOfSend, QueueFirst(res) \/ QueueInOrder(res)
      PROVE  FitsIn(ooseq', Top)
  <2>1. OutOfSequence(res)
    BY <1>5 DEF QueueFirst, QueueInOrder
  <2>2. PICK s : s = Trimmed
    OBVIOUS
  <2>3. /\ Truthful(s) /\ TCP_TCPLEN(s) > 0 /\ SegmentFacts(s)
        /\ Received < s.off /\ s.off < Received + rcv_wnd /\ s = inseg
    BY <2>1, <2>2, OutOfSeqFacts DEF OutOfSequence
  <2>4. /\ Received \in Nat /\ rcv_nxt = SeqAdd(ISN, Received)
        /\ rcv_wnd \in Nat /\ Received + rcv_wnd \in Distance
        /\ Edge <= Received + rcv_wnd /\ Edge \in Nat /\ Top = Received + rcv_wnd
    BY NumberFacts, TopIsWindow, HalfAssumption DEF IInv, Numbers, Distance
  <2>5. s.off + s.len <= Received + rcv_wnd
    <3>1. PICK o, n, r, w : o = s.off /\ n = s.len /\ r = Received /\ w = rcv_wnd
      OBVIOUS
    <3>2. /\ o \in Nat /\ n \in Nat /\ r \in Nat /\ w \in Nat /\ o < r + w
          /\ Edge <= r + w /\ Edge \in Nat
      BY <2>3, <2>4, <3>1 DEF SegmentFacts
    <3>3. o + n <= Edge \/ TCP_TCPLEN(s) <= 1
      BY <2>1, <2>3, <3>1 DEF Room, Arrived, OutOfSequence, ToReceive
    <3>4. TCP_TCPLEN(s) <= 1 => n <= 1
      BY <2>3, <3>1 DEF SegmentFacts
    <3>5. o + n <= r + w
      BY <3>2, <3>3, <3>4
    <3>6. QED
      BY <3>1, <3>5
  <2>6. CASE QueueFirst(res)
    <3>1. ooseq' = <<s>>
      BY <2>2, <2>6 DEF QueueFirst
    <3>2. Len(ooseq') = 1 /\ ooseq'[1] = s
      BY <3>1
    <3>3. \A i \in 1 .. Len(ooseq') : i = 1
      BY <3>2
    <3>4. QED
      BY <3>2, <3>3, <2>4, <2>5 DEF FitsIn
  <2>7. CASE QueueInOrder(res)
    <3>1. PICK i \in 1 .. Len(ooseq) :
            /\ StopsFirstAt(s, i)
            /\ \E k \in 0 .. Len(ooseq) - i + 1 :
                 CoversOoseq(s, DropFirst(ooseq, i - 1), k) /\ ooseq' = QueueAt(s, i, k)
      BY <2>2, <2>7 DEF QueueInOrder
    <3>2. PICK k \in 0 .. Len(ooseq) - i + 1 :
            CoversOoseq(s, DropFirst(ooseq, i - 1), k) /\ ooseq' = QueueAt(s, i, k)
      BY <3>1
    <3>3. PICK low : low = Received + 1
      OBVIOUS
    <3>4. low \in Nat /\ low > 0 /\ low <= s.off
      <4>1. s.off \in Nat
        BY <2>3 DEF SegmentFacts
      <4>2. QED
        BY <4>1, <3>3, <2>3, <2>4
    <3>5. GoodQueue(ooseq, low)
      BY <2>1, <3>3 DEF IInv, Queue, QueueLow, OutOfSequence, ToReceive
    <3>6. StopsAt(s, i)
      BY <3>1 DEF StopsFirstAt
    <3>7. WalkStops(s, i, k, low)
      BY <2>3, <2>4, <3>2, <3>3, <3>4, <3>5, <3>6 DEF WalkStops
    <3>8. FitsIn(QueueAt(s, i, k), Received + rcv_wnd)
      BY <3>7, <2>4, <2>5, <1>1, QueueAtFits
    <3>9. QED
      BY <3>2, <3>8, <2>4
  <2>8. QED
    BY <1>5, <2>6, <2>7
<1>6. CASE UNCHANGED vars
  BY <1>2, <1>6 DEF vars, pcbVars
<1>7. CASE QuietAction \/ DrainDone \/ SlowtmrDropOoseq \/ RecvRefused \/ InputClosed
  BY <1>2, <1>7 DEF QuietAction, tcp_input, InputRefusedAgain, RefusedAgain, ProcessSyn, ReceiveNoText,
       RecvNothing, ReceiveAssertFails, DrainAssertFails, ReceiveOutOfWindow, QueueNoMemory,
       InputOutput, FasttmrNoAck, FasttmrRefusedAgain, FasttmrAck,
       DrainDone, SlowtmrDropOoseq, RecvRefused, InputClosed, pcbVars
<1>8. ASSUME NEW k, NEW res, \/ RecvTaken(k) \/ tcp_recved(k, res)
                             \/ InputRefusedTaken(k, res) \/ FasttmrRefusedTaken(k, res)
      PROVE  FitsIn(ooseq', Top)
  BY <1>2, <1>8 DEF RecvTaken, InputRefusedTaken, FasttmrRefusedTaken, RefusedTaken, tcp_recved
<1>9. CASE Input
  BY <1>9, <1>3, <1>4, <1>5, <1>7, <1>8 DEF Input, QuietAction
<1>10. CASE Timers
  BY <1>10, <1>7, <1>8 DEF Timers, QuietAction
<1>11. CASE Application
  BY <1>11, <1>8 DEF Application
<1>12. QED
  BY <1>6, <1>9, <1>10, <1>11 DEF Next

\* A segment stays where it was announced to be until it is processed.
LEMMA ArrivedStep ==
  ASSUME IInv, Room, [Next]_vars, pc' \in {"refused", "process"}
  PROVE  Arrived'
<1>1. IInv' /\ Edge <= Edge'
  BY NextIInv
<1>2. inseg \in Segment /\ inseg' \in Segment /\ Edge \in Nat /\ Edge' \in Nat
  <2>1. Edge \in Distance
    BY NumberFacts
  <2>2. (Edge \in Distance)'
    BY <1>1, NumberFacts, PTL
  <2>3. QED
    BY <1>1, <2>1, <2>2, HalfAssumption DEF IInv, TypeOK, Distance
<1>3. ASSUME inseg' = inseg, Arrived PROVE Arrived'
  <2>1. PICK o, n, c : o = inseg.off /\ n = inseg.len /\ c = TCP_TCPLEN(inseg)
    OBVIOUS
  <2>2. o \in Nat /\ n \in Nat
    BY <2>1, <1>2, ReceiveAssumption DEF Segment
  <2>3. o + n <= Edge \/ c <= 1
    BY <2>1, <1>3 DEF Arrived
  <2>4. o + n <= Edge' \/ c <= 1
    BY <2>2, <2>3, <1>1, <1>2
  <2>5. TCP_TCPLEN(inseg)' = c /\ inseg'.off = o /\ inseg'.len = n
    BY <2>1, <1>3 DEF TCP_TCPLEN
  <2>6. QED
    BY <2>4, <2>5 DEF Arrived
<1>4. ASSUME NEW s \in PeerSegments, tcp_input(s) PROVE Arrived'
  <2>1. inseg' = s /\ rcv_ann_right_edge' = rcv_ann_right_edge
    BY <1>4 DEF tcp_input, pcbVars
  <2>2. Edge' = Edge
    BY <2>1 DEF Edge
  <2>3. s.off + s.len <= Edge \/ TCP_TCPLEN(s) <= 1
    <3>1. CASE s = SynSegment
      BY <3>1 DEF SynSegment, TCP_TCPLEN
    <3>2. CASE PeerMaySend(s)
      BY <3>2 DEF PeerMaySend, AnnouncedOffset, Edge
    <3>3. QED
      BY <3>1, <3>2, <1>4 DEF PeerSegments
  <2>4. QED
    BY <2>1, <2>2, <2>3 DEF Arrived, TCP_TCPLEN
<1>5. CASE UNCHANGED vars
  <2>1. pc' = pc /\ inseg' = inseg
    BY <1>5 DEF vars, inputVars
  <2>2. QED
    BY <2>1, <1>3 DEF Room
<1>6. CASE InputRefusedAgain
  <2>1. pc = "refused" /\ inseg' = inseg
    BY <1>6 DEF InputRefusedAgain
  <2>2. QED
    BY <2>1, <1>3 DEF Room
<1>7. ASSUME NEW k, NEW res, InputRefusedTaken(k, res) PROVE Arrived'
  <2>1. pc = "refused" /\ inseg' = inseg
    BY <1>7 DEF InputRefusedTaken
  <2>2. QED
    BY <2>1, <1>3 DEF Room
<1>8. CASE Input
  <2>1. /\ ~ProcessSyn /\ ~ReceiveNoText /\ ~ReceiveInSequence /\ ~DrainOoseq /\ ~DrainDone
        /\ ~RecvNothing /\ ~RecvRefused /\ ~InputClosed /\ ~ReceiveAssertFails /\ ~DrainAssertFails
    BY DEF ProcessSyn, ReceiveNoText, ReceiveInSequence, DrainOoseq, DrainDone, RecvNothing,
           RecvRefused, InputClosed, ReceiveAssertFails, DrainAssertFails
  <2>2. ASSUME NEW k PROVE ~RecvTaken(k)
    BY DEF RecvTaken
  <2>3. ASSUME NEW res
        PROVE  /\ ~ReceiveOutOfWindow(res) /\ ~QueueFirst(res) /\ ~QueueInOrder(res)
               /\ ~QueueNoMemory(res) /\ ~InputOutput(res)
    BY DEF ReceiveOutOfWindow, QueueFirst, QueueInOrder, QueueNoMemory, OutOfSequence, InputOutput
  <2>4. QED
    BY <1>4, <1>6, <1>7, <1>8, <2>1, <2>2, <2>3 DEF Input
<1>9. ~Timers
  BY DEF Timers, FasttmrNoAck, FasttmrRefusedAgain, SlowtmrDropOoseq, FasttmrAck,
         FasttmrRefusedTaken, inputVars
<1>10. ~Application
  BY DEF Application, tcp_recved, inputVars
<1>11. QED
  BY <1>5, <1>8, <1>9, <1>10 DEF Next

\* An assertion of tcp_receive fails only over a FIN that waits just past a
\* full window: whatever the peer sends that fits what was announced to it and
\* whatever fails on the way out, the bytes queued out of sequence fit the window
\* when the gap before them is closed.
THEOREM ReceiveOnlyFinTrips == Spec => []OnlyFinTripsAssert
<1>1. Init => Room
  BY DEF Init, Room, FitsIn, OnlyFinTripsAssert
<1>2. ASSUME IInv, Room, [Next]_vars PROVE Room'
  <2>1. IInv'
    BY <1>2, NextIInv
  <2>2. FitsIn(ooseq', Top) /\ Top <= Top'
    BY <1>2, QueueStaysInside, TopGrows
  <2>3. Top \in Nat /\ Top' \in Nat
    <3>1. (Top \in Nat)'
      BY <2>1, TopIsWindow, PTL
    <3>2. QED
      BY <3>1, <1>2, TopIsWindow
  <2>4. FitsIn(ooseq', Top')
    <3>1. ASSUME NEW i \in 1 .. Len(ooseq')
          PROVE  ooseq'[i].off + ooseq'[i].len <= Top'
      <4>1. ooseq'[i].off + ooseq'[i].len <= Top
        BY <2>2 DEF FitsIn
      <4>2. ooseq'[i] \in Segment
        BY <2>1 DEF IInv, TypeOK
      <4>3. PICK n : n = ooseq'[i].off + ooseq'[i].len
        OBVIOUS
      <4>4. n \in Nat
        BY <4>2, <4>3, ReceiveAssumption DEF Segment
      <4>5. QED
        BY <4>1, <4>3, <4>4, <2>2, <2>3
    <3>2. QED
      BY <3>1 DEF FitsIn
  <2>5. OnlyFinTripsAssert'
    <3>1. ASSUME FinJustBeyond, UNCHANGED pcbVars PROVE OnlyFinTripsAssert'
      BY <3>1 DEF pcbVars, FinJustBeyond, OnlyFinTripsAssert
    <3>2. CASE ReceiveAssertFails
      <4>1. FinJustBeyond
        BY <3>2, <1>2, InSeqAssertsHold DEF ReceiveAssertFails, Room
      <4>2. QED
        BY <3>1, <3>2, <4>1 DEF ReceiveAssertFails
    <3>3. CASE DrainAssertFails
      <4>1. FinJustBeyond
        BY <3>3, <1>2, DrainAssertHolds DEF Room
      <4>2. QED
        BY <3>1, <3>3, <4>1 DEF DrainAssertFails
    <3>4. CASE UNCHANGED vars
      BY <1>2, <3>4 DEF vars, pcbVars, inputVars, Room, OnlyFinTripsAssert, FinJustBeyond
    <3>5. ASSUME pc' # "assert_failed" PROVE OnlyFinTripsAssert'
      BY <3>5 DEF OnlyFinTripsAssert
    <3>6. CASE Input
      BY <3>2, <3>3, <3>5, <3>6 DEF Input, tcp_input, InputRefusedAgain, ProcessSyn, ReceiveNoText,
           ReceiveInSequence, DrainOoseq, DrainDone, RecvNothing, RecvRefused, InputClosed,
           RecvTaken, InputRefusedTaken, ReceiveOutOfWindow, QueueFirst, QueueInOrder,
           QueueNoMemory, OutOfSequence, InputOutput
    <3>7. CASE Timers
      BY <3>5, <3>7 DEF Timers, FasttmrNoAck, FasttmrRefusedAgain, SlowtmrDropOoseq, FasttmrAck,
           FasttmrRefusedTaken, inputVars
    <3>8. CASE Application
      BY <3>5, <3>8 DEF Application, tcp_recved, inputVars
    <3>9. QED
      BY <1>2, <3>4, <3>6, <3>7, <3>8 DEF Next
  <2>6. QED
    BY <1>2, <2>4, <2>5, ArrivedStep DEF Room
<1>3. Room => OnlyFinTripsAssert
  BY DEF Room
<1>4. Spec => []IInv
  BY ReceiveInductive
<1>5. QED
  BY <1>1, <1>2, <1>3, <1>4, PTL DEF Spec
=============================================================================
