-------------------------- MODULE TcpReceiveLemmas --------------------------
(***************************************************************************)
(* Facts about the operators of TcpReceive: what the trimming, merging and *)
(* queueing of tcp_receive make of pieces of the stream, and what          *)
(* tcp_update_rcv_ann_wnd announces.  TcpReceiveProof builds on them.      *)
(***************************************************************************)
EXTENDS TcpReceiveInv, TcpSeqTheorems, SequenceTheorems

-----------------------------------------------------------------------------
(* Sequences. *)

\* Dropping the first k elements.
LEMMA DropFirstFacts ==
  ASSUME NEW S, NEW q \in Seq(S), NEW k \in 0 .. Len(q)
  PROVE  /\ DropFirst(q, k) \in Seq(S)
         /\ Len(DropFirst(q, k)) = Len(q) - k
         /\ \A j \in 1 .. Len(q) - k : DropFirst(q, k)[j] = q[j + k]
         /\ DropFirst(q, k) = <<>> <=> k = Len(q)
<1>1. Len(q) \in Nat
  OBVIOUS
<1>2. k + 1 \in 1 .. Len(q) + 1
  BY <1>1
<1>3. Len(q) - (k + 1) + 1 = Len(q) - k
  BY <1>1
<1>4. \A j \in 1 .. Len(q) - k : DropFirst(q, k)[j] = q[j + k]
  BY <1>1 DEF DropFirst
<1>5. DropFirst(q, k) \in Seq(S) /\ Len(DropFirst(q, k)) = Len(q) - k
  BY <1>1 DEF DropFirst
<1>6. DropFirst(q, k) = <<>> <=> k = Len(q)
  BY <1>1, <1>5, EmptySeq
<1>7. QED
  BY <1>4, <1>5, <1>6

\* The bytes of a segment.
LEMMA PayloadFacts ==
  ASSUME NEW s \in Segment
  PROVE  /\ Payload(s) \in Seq(Nat)
         /\ Len(Payload(s)) = s.len
         /\ \A i \in 1 .. s.len : Payload(s)[i] = s.off + i
BY ReceiveAssumption DEF Payload, Segment

\* Joining two sequences.
LEMMA ConcatFacts ==
  ASSUME NEW S, NEW a \in Seq(S), NEW b \in Seq(S)
  PROVE  /\ a \o b \in Seq(S)
         /\ Len(a \o b) = Len(a) + Len(b)
         /\ \A i \in 1 .. Len(a) : (a \o b)[i] = a[i]
         /\ \A i \in Len(a) + 1 .. Len(a) + Len(b) : (a \o b)[i] = b[i - Len(a)]
OBVIOUS

-----------------------------------------------------------------------------
(* Positions and windows. *)

\* What the invariant says about the numbers, in terms of positions.
LEMMA NumberFacts ==
  ASSUME IInv
  PROVE  /\ Received \in Nat /\ Received <= N + 1
         /\ Received \in Distance
         /\ rcv_wnd \in Nat /\ rcv_wnd <= TCP_WND
         /\ Received + rcv_wnd \in Distance
         /\ Edge \in Distance
         /\ rcv_ann_right_edge = SeqAdd(ISN, Edge)
         /\ Edge <= Received + rcv_wnd
         /\ Len(delivered) \in Nat /\ Len(refused_data) \in Nat /\ Len(recv_data) \in Nat
         /\ Pos \in Nat
         /\ Received = Pos + FinPending + (IF eof THEN 1 ELSE 0)
<1>1. Len(delivered) \in Nat /\ Len(refused_data) \in Nat /\ Len(recv_data) \in Nat
  BY DEF IInv, TypeOK
<1>2. Pos \in Nat /\ Pos <= N
  BY <1>1 DEF IInv, FinOnce, Pos
<1>3. FinPending + (IF eof THEN 1 ELSE 0) \in 0 .. 1
  BY DEF IInv, TypeOK, FinOnce, FinPending
<1>4. Received = Pos + FinPending + (IF eof THEN 1 ELSE 0)
  BY <1>1, <1>3 DEF Received, Pos, FinPending
<1>5. Received \in Nat /\ Received <= N + 1
  BY <1>2, <1>3, <1>4, ReceiveAssumption DEF FinPending
<1>6. rcv_wnd \in Nat /\ rcv_wnd <= TCP_WND
  BY ReceiveAssumption DEF IInv, TypeOK
<1>7. Edge \in SeqNo /\ rcv_ann_right_edge = SeqAdd(ISN, Edge)
  BY SeqSubType, SeqAddSub, ReceiveAssumption DEF IInv, TypeOK, Edge
<1>8. Edge <= Received + rcv_wnd
  BY <1>5, <1>6, <1>7, HalfAssumption, ReceiveAssumption
     DEF IInv, TypeOK, Numbers, SeqNo, SeqMod
<1>9. QED
  BY <1>1, <1>2, <1>4, <1>5, <1>6, <1>7, <1>8, HalfAssumption, ReceiveAssumption
     DEF Distance, SeqNo, SeqMod

\* tcp_update_rcv_ann_wnd announces no more than there is and never less
\* than was announced before.
LEMMA AnnounceFacts ==
  ASSUME IInv, NEW n \in 0 .. N + 1, NEW w \in 0 .. TCP_WND, Edge <= n + w
  PROVE  /\ AnnounceWnd(SeqAdd(ISN, n), w) \in 0 .. w
         /\ Edge <= n + AnnounceWnd(SeqAdd(ISN, n), w)
<1> DEFINE step == LWIP_MIN(TCP_WND \div 2, TCP_MSS)
<1>1. step \in Nat /\ step <= TCP_MSS
  BY ReceiveAssumption DEF LWIP_MIN
<1> HIDE DEF step
<1>2. /\ n \in Distance /\ w \in Distance /\ n + w \in Distance /\ n + w < Half
      /\ Edge \in Distance /\ step \in Distance
      /\ Edge + step < Half /\ Edge + step \in Distance
      /\ Edge \in Nat /\ ISN \in SeqNo
      /\ rcv_ann_right_edge = SeqAdd(ISN, Edge)
  BY <1>1, NumberFacts, HalfAssumption, ReceiveAssumption DEF Distance
<1>3. SeqAdd(SeqAdd(ISN, n), w) = SeqAdd(ISN, n + w)
  BY <1>2, SeqAddAdd
<1>4. SeqAdd(rcv_ann_right_edge, step) = SeqAdd(ISN, Edge + step)
  BY <1>2, SeqAddAdd
<1>5. CanAnnounceMore(SeqAdd(ISN, n), w) <=> n + w >= Edge + step
  <2> DEFINE p == n + w
             q == Edge + step
  <2>1. p \in Distance /\ q \in Distance
    BY <1>2
  <2> HIDE DEF p, q
  <2>2. TCP_SEQ_GEQ(SeqAdd(ISN, p), SeqAdd(ISN, q)) <=> p >= q
    BY <1>2, <2>1, SeqOrder
  <2>3. QED
    BY <1>3, <1>4, <2>2 DEF CanAnnounceMore, step, p, q
<1>6. TCP_SEQ_GT(SeqAdd(ISN, n), rcv_ann_right_edge) <=> n > Edge
  BY <1>2, SeqOrder
<1>7. n <= Edge => SeqSub(rcv_ann_right_edge, SeqAdd(ISN, n)) = Edge - n
  BY <1>2, SeqSubDistance DEF Distance
<1>8. QED
  BY <1>1, <1>2, <1>5, <1>6, <1>7 DEF AnnounceWnd, Distance

-----------------------------------------------------------------------------
(* Segments. *)

\* The fields of a piece of the stream.
SegmentFacts(s) ==
  /\ s \in Segment
  /\ s.off \in Nat /\ s.len \in Nat /\ s.fin \in BOOLEAN /\ s.syn = FALSE
  /\ s.seqno = SeqAdd(ISN, s.off)
  /\ s.off <= N + 1 /\ s.off + s.len <= N + 1
  /\ s.len > 0 \/ s.fin => s.off + s.len <= N
  /\ s.fin => s.off + s.len = N
  /\ TCP_TCPLEN(s) = s.len + (IF s.fin THEN 1 ELSE 0)
  /\ TCP_TCPLEN(s) \in Nat
  /\ s.off + TCP_TCPLEN(s) <= N + 1
  /\ s.off \in Distance /\ s.len \in Distance
  /\ s.off + s.len \in Distance
  /\ s.off + TCP_TCPLEN(s) \in Distance
  /\ SeqAdd(s.seqno, s.len) = SeqAdd(ISN, s.off + s.len)
  /\ SeqAdd(s.seqno, TCP_TCPLEN(s)) = SeqAdd(ISN, s.off + TCP_TCPLEN(s))

\* A piece of the stream has a position and ends by the end of the stream.
LEMMA TruthfulFacts ==
  ASSUME NEW s, Truthful(s)
  PROVE  SegmentFacts(s)
<1>1. /\ s \in Segment
      /\ s.off \in Nat /\ s.len \in Nat /\ s.fin \in BOOLEAN /\ s.syn = FALSE
      /\ s.seqno = SeqAdd(ISN, s.off)
      /\ s.off <= N + 1
  BY ReceiveAssumption DEF Truthful, Segment
<1>2. /\ s.off + s.len <= N + 1
      /\ s.len > 0 \/ s.fin => s.off + s.len <= N
      /\ s.fin => s.off + s.len = N
  BY <1>1, ReceiveAssumption DEF Truthful, Genuine
<1>3. TCP_TCPLEN(s) = s.len + (IF s.fin THEN 1 ELSE 0) /\ TCP_TCPLEN(s) \in Nat
  BY <1>1 DEF TCP_TCPLEN
<1>4. s.off + TCP_TCPLEN(s) <= N + 1
  BY <1>1, <1>2, <1>3, ReceiveAssumption
<1>5. /\ s.off \in Distance /\ s.len \in Distance /\ TCP_TCPLEN(s) \in Distance
      /\ s.off + s.len < Half /\ s.off + TCP_TCPLEN(s) < Half
  BY <1>1, <1>2, <1>3, <1>4, HalfAssumption, ReceiveAssumption DEF Distance
<1>6. \A p, n \in Distance : p + n < Half => SeqAdd(SeqAdd(ISN, p), n) = SeqAdd(ISN, p + n)
  BY SeqAddAdd, ReceiveAssumption
<1>7. /\ SeqAdd(s.seqno, s.len) = SeqAdd(ISN, s.off + s.len)
      /\ SeqAdd(s.seqno, TCP_TCPLEN(s)) = SeqAdd(ISN, s.off + TCP_TCPLEN(s))
  BY <1>1, <1>5, <1>6
<1>8. QED
  BY <1>1, <1>2, <1>3, <1>4, <1>5, <1>7, HalfAssumption, ReceiveAssumption
     DEF Distance, SegmentFacts

\* A piece of the stream cut anywhere is a piece of the stream.
LEMMA TruthfulCut ==
  ASSUME NEW s, Truthful(s), NEW t \in Segment,
         t.seqno = SeqAdd(ISN, t.off), t.syn = FALSE,
         t.off + t.len <= s.off + s.len, t.off >= s.off,
         t.fin => s.fin /\ t.off + t.len = s.off + s.len
  PROVE  Truthful(t)
<1>1. t.off \in Nat /\ t.len \in Nat /\ t.off <= N + 1 /\ t.fin \in BOOLEAN
  BY ReceiveAssumption DEF Segment
<1> SegmentFacts(s)
  BY TruthfulFacts
<1>2. t.off + t.len <= IF t.len = 0 /\ ~t.fin THEN N + 1 ELSE N
  BY <1>1, ReceiveAssumption DEF SegmentFacts
<1>3. t.fin => t.off + t.len = N
  BY <1>1 DEF SegmentFacts
<1>4. QED
  BY <1>2, <1>3 DEF Truthful, Genuine

\* Cutting the front of a segment at rcv_nxt.
LEMMA TrimFrontFacts ==
  ASSUME IInv, NEW s, Truthful(s), TCP_TCPLEN(s) > 0
  PROVE  /\ Truthful(TrimFront(s))
         /\ TCP_TCPLEN(TrimFront(s)) > 0
         /\ TrimFront(s).off + TCP_TCPLEN(TrimFront(s)) = s.off + TCP_TCPLEN(s)
         /\ TrimFront(s).off # Received => TrimFront(s) = s
<1> DEFINE r == Received
           n == TCP_TCPLEN(s)
<1> SegmentFacts(s)
  BY TruthfulFacts
<1>1. /\ r \in Distance /\ r \in Nat /\ r <= N + 1
      /\ n \in Nat /\ n > 0
      /\ rcv_nxt = SeqAdd(ISN, r) /\ ISN \in SeqNo
  BY NumberFacts, ReceiveAssumption DEF IInv, Numbers, SegmentFacts
<1>2. /\ s.off \in Distance /\ n \in Distance /\ s.off + n < Half
      /\ s.seqno = SeqAdd(ISN, s.off) /\ s.off \in Nat
  BY <1>1, HalfAssumption, ReceiveAssumption DEF Distance, SegmentFacts
<1> HIDE DEF r, n
<1>5. StartsEarly(s) <=> s.off < r /\ r < s.off + n
  BY <1>1, <1>2, SeqStartsEarly DEF StartsEarly, n
<1>6. CASE StartsEarly(s)
  <2> DEFINE t == TrimFront(s)
             cut == r - s.off
  <2>1. SeqSub(rcv_nxt, s.seqno) = cut
    BY <1>1, <1>2, <1>5, <1>6, SeqSubDistance
  <2>2. cut \in Nat /\ cut <= s.len
    BY <1>1, <1>2, <1>5, <1>6 DEF n, SegmentFacts
  <2>3. t = [s EXCEPT !.seqno = rcv_nxt, !.off = s.off + cut, !.len = s.len - cut]
    BY <1>6, <2>1 DEF TrimFront
  <2> HIDE DEF t
  <2>4. rcv_nxt \in SeqNo /\ s.off + cut = r /\ s.off + cut \in 0 .. N + 1 /\ s.len - cut \in Nat
    BY <1>1, <1>2, <2>2, SeqAddType, ReceiveAssumption DEF SegmentFacts
  <2>5. /\ t.seqno = rcv_nxt /\ t.off = r /\ t.len = s.len - cut
        /\ t.fin = s.fin /\ t.syn = FALSE
        /\ t \in Segment
    BY <2>3, <2>4 DEF Segment, SegmentFacts
  <2>6. Truthful(t)
    <3>1. t.seqno = SeqAdd(ISN, t.off)
      BY <1>1, <2>5
    <3>2. /\ t.off + t.len = s.off + s.len
          /\ t.off + t.len <= s.off + s.len
          /\ t.off >= s.off
      BY <1>1, <1>2, <2>2, <2>4, <2>5 DEF SegmentFacts
    <3>3. t.fin => s.fin /\ t.off + t.len = s.off + s.len
      BY <2>5, <3>2
    <3>4. QED
      BY <2>5, <3>1, <3>2, <3>3, TruthfulCut
  <2>7. TCP_TCPLEN(t) = n - cut
    BY <1>1, <1>2, <2>2, <2>5 DEF n, SegmentFacts, TCP_TCPLEN
  <2>8. QED
    BY <1>1, <1>2, <1>5, <1>6, <2>2, <2>4, <2>5, <2>6, <2>7 DEF t, n, r
<1>7. CASE ~StartsEarly(s)
  BY <1>7 DEF TrimFront
<1>8. QED
  BY <1>6, <1>7

\* Shortening a piece of the stream, dropping its FIN.
LEMMA TruthfulShorten ==
  ASSUME NEW s, Truthful(s), NEW l \in Nat, l <= s.len
  PROVE  LET t == [s EXCEPT !.fin = FALSE, !.len = l]
         IN  /\ Truthful(t)
             /\ t.seqno = s.seqno /\ t.off = s.off /\ t.len = l /\ t.fin = FALSE
             /\ TCP_TCPLEN(t) = l
<1> DEFINE t == [s EXCEPT !.fin = FALSE, !.len = l]
<1> SegmentFacts(s)
  BY TruthfulFacts
<1>1. /\ t \in Segment
      /\ t.seqno = s.seqno /\ t.off = s.off /\ t.len = l /\ t.fin = FALSE /\ t.syn = FALSE
  BY DEF Segment, SegmentFacts
<1> HIDE DEF t
<1>2. t.off + t.len <= s.off + s.len /\ t.off >= s.off /\ t.seqno = SeqAdd(ISN, t.off)
  BY <1>1 DEF SegmentFacts
<1>3. Truthful(t)
  BY <1>1, <1>2, TruthfulCut
<1>4. TCP_TCPLEN(t) = l
  BY <1>1 DEF TCP_TCPLEN
<1>5. QED
  BY <1>1, <1>3, <1>4 DEF t

\* Shortening a piece of the stream without FIN.
LEMMA TruthfulShortenNoFin ==
  ASSUME NEW s, Truthful(s), ~s.fin, NEW l \in Nat, l <= s.len
  PROVE  LET t == [s EXCEPT !.len = l]
         IN  /\ Truthful(t)
             /\ t.seqno = s.seqno /\ t.off = s.off /\ t.len = l /\ t.fin = FALSE
             /\ TCP_TCPLEN(t) = l
<1> DEFINE t == [s EXCEPT !.len = l]
<1> SegmentFacts(s)
  BY TruthfulFacts
<1>1. /\ t \in Segment
      /\ t.seqno = s.seqno /\ t.off = s.off /\ t.len = l /\ t.fin = FALSE /\ t.syn = FALSE
  BY DEF Segment, SegmentFacts
<1> HIDE DEF t
<1>2. t.off + t.len <= s.off + s.len /\ t.off >= s.off /\ t.seqno = SeqAdd(ISN, t.off)
  BY <1>1 DEF SegmentFacts
<1>3. Truthful(t)
  BY <1>1, <1>2, TruthfulCut
<1>4. TCP_TCPLEN(t) = l
  BY <1>1 DEF TCP_TCPLEN
<1>5. QED
  BY <1>1, <1>3, <1>4 DEF t

\* What the invariant says about one queued segment.
LEMMA QueuedFacts ==
  ASSUME IInv, NEW i \in 1 .. Len(ooseq)
  PROVE  /\ Truthful(ooseq[i]) /\ SegmentFacts(ooseq[i])
         /\ TCP_TCPLEN(ooseq[i]) > 0
         /\ ooseq[i].fin => i = Len(ooseq)
         /\ Received <= ooseq[i].off
<1>1. /\ Truthful(ooseq[i])
      /\ TCP_TCPLEN(ooseq[i]) > 0
      /\ ooseq[i].fin => i = Len(ooseq)
      /\ QueueLow <= ooseq[i].off
  BY DEF IInv, Queue, GoodQueue
<1>2. SegmentFacts(ooseq[i])
  BY <1>1, TruthfulFacts
<1>3. Received <= ooseq[i].off
  BY <1>1, <1>2, NumberFacts DEF QueueLow, SegmentFacts
<1>4. QED
  BY <1>1, <1>2, <1>3

\* The in-sequence segment that tcp_receive accepts is the piece of the
\* stream that begins at rcv_nxt and ends before the queue that is left.
LEMMA InSeqFacts ==
  ASSUME IInv, NEW k \in 0 .. Len(ooseq), InSequence(k), InSeqAsserts(k)
  PROVE  /\ Truthful(InSeqSegment(k))
         /\ InSeqSegment(k).off = Received
         /\ InSeqSegment(k).seqno = rcv_nxt
         /\ TCP_TCPLEN(InSeqSegment(k)) <= rcv_wnd
         /\ \A i \in k + 1 .. Len(ooseq) :
              Received + TCP_TCPLEN(InSeqSegment(k)) <= ooseq[i].off
<1> DEFINE t == Trimmed
           u == TrimToWnd(t)
           v == TakeFin(u, ooseq, k)
           rest == DropFirst(ooseq, k)
           w == InSeqSegment(k)
<1>1. ooseq \in Seq(Segment) /\ Len(ooseq) \in Nat
  BY DEF IInv, TypeOK
<1>2. /\ rest \in Seq(Segment) /\ Len(rest) = Len(ooseq) - k
      /\ \A j \in 1 .. Len(ooseq) - k : rest[j] = ooseq[j + k]
      /\ rest = <<>> <=> k = Len(ooseq)
  BY <1>1, DropFirstFacts
<1>3. Truthful(inseg) /\ TCP_TCPLEN(inseg) > 0
  BY DEF IInv, Control, InSequence, ToReceive, HasText, SynSegment
<1>4. Truthful(t) /\ t.seqno = rcv_nxt
  BY <1>3, TrimFrontFacts DEF InSequence, Trimmed
<1>5. SegmentFacts(t)
  BY <1>4, TruthfulFacts
<1>6. /\ Received \in Distance /\ Received \in Nat
      /\ rcv_wnd \in Nat /\ rcv_nxt = SeqAdd(ISN, Received)
      /\ ISN \in SeqNo /\ rcv_wnd < Half
      /\ Received + rcv_wnd \in Distance
  BY NumberFacts, ReceiveAssumption, HalfAssumption DEF IInv, Numbers, Distance
<1> HIDE DEF t
<1>7. t.off = Received
  <2>1. t.seqno = SeqAdd(ISN, t.off) /\ t.off \in Distance
    BY <1>5 DEF SegmentFacts
  <2>2. QED
    BY <1>4, <1>6, <2>1, SeqInjective
<1>8. /\ Truthful(u) /\ u.off = Received /\ u.seqno = rcv_nxt
  <2>1. CASE TCP_TCPLEN(t) > rcv_wnd
    <3>1. rcv_wnd <= t.len
      BY <1>5, <1>6, <2>1 DEF SegmentFacts
    <3>2. u = [t EXCEPT !.fin = FALSE, !.len = rcv_wnd]
      BY <2>1 DEF TrimToWnd
    <3> DEFINE x == [t EXCEPT !.fin = FALSE, !.len = rcv_wnd]
    <3>3. Truthful(x) /\ x.off = t.off /\ x.seqno = t.seqno
      BY <1>4, <1>6, <3>1, TruthfulShorten
    <3> HIDE DEF x
    <3>4. QED
      BY <1>4, <1>7, <3>2, <3>3 DEF x
  <2>2. CASE ~(TCP_TCPLEN(t) > rcv_wnd)
    BY <1>4, <1>7, <2>2 DEF TrimToWnd
  <2>3. QED
    BY <2>1, <2>2
<1>9. CoversInSeq(u, ooseq, k)
  BY DEF InSequence, t
<1> HIDE DEF u
<1>10. SegmentFacts(u)
  BY <1>8, TruthfulFacts
<1>11. SomeFin(ooseq, k) => k = Len(ooseq) /\ (u.fin \/ u.off + u.len = N)
  <2> SUFFICES ASSUME SomeFin(ooseq, k), ~u.fin
               PROVE  k = Len(ooseq) /\ u.off + u.len = N
    BY <1>9 DEF CoversInSeq
  <2>1. PICK i \in 1 .. k : ooseq[i].fin
    BY DEF SomeFin
  <2>2. i \in 1 .. Len(ooseq)
    BY <1>1
  <2>3. i = Len(ooseq) /\ k = Len(ooseq)
    BY <1>1, <2>1, <2>2, QueuedFacts
  <2>4. ~SomeFin(ooseq, i - 1)
    BY <1>1, <2>3, QueuedFacts DEF SomeFin
  <2>5. CoveredInSeq(u, ooseq, i)
    BY <1>9, <2>1 DEF CoversInSeq
  <2>6. SegmentFacts(ooseq[i])
    BY <2>2, QueuedFacts
  <2>7. SeqAdd(ooseq[i].seqno, ooseq[i].len) = SeqAdd(ISN, N) /\ N \in Distance
    BY <2>1, <2>6, ReceiveAssumption DEF SegmentFacts, Distance
  <2>8. SeqAdd(u.seqno, u.len) = SeqAdd(ISN, u.off + u.len) /\ u.off + u.len \in Distance
    BY <1>10 DEF SegmentFacts
  <2>9. TCP_SEQ_GEQ(SeqAdd(ISN, u.off + u.len), SeqAdd(ISN, N))
    BY <1>10, <2>4, <2>5, <2>7, <2>8 DEF CoveredInSeq, SegmentFacts
  <2>10. u.off + u.len >= N
    <3> DEFINE e == u.off + u.len
    <3>1. e \in Distance
      BY <2>8
    <3> HIDE DEF e
    <3>2. TCP_SEQ_GEQ(SeqAdd(ISN, e), SeqAdd(ISN, N)) <=> e >= N
      BY <1>6, <2>7, <3>1, SeqOrder
    <3>3. QED
      BY <2>9, <3>2 DEF e
  <2>11. u.off + u.len <= N
    <3>1. Received <= N
      BY NumberFacts, ReceiveAssumption
         DEF IInv, FinOnce, Control, InSequence, ToReceive, HasText, FinPending
    <3>2. QED
      BY <1>6, <1>8, <1>10, <3>1, ReceiveAssumption DEF SegmentFacts
  <2>12. QED
    BY <1>10, <2>3, <2>10, <2>11, ReceiveAssumption DEF SegmentFacts
<1>12. /\ Truthful(v) /\ v.off = Received /\ v.seqno = rcv_nxt /\ v.len = u.len
       /\ v.fin = (u.fin \/ SomeFin(ooseq, k))
  <2>1. SomeFin(ooseq, k) \in BOOLEAN
    BY DEF SomeFin
  <2>2. /\ v \in Segment /\ v.off = u.off /\ v.seqno = u.seqno /\ v.len = u.len
        /\ v.syn = FALSE /\ v.fin = (u.fin \/ SomeFin(ooseq, k))
    BY <1>10, <2>1 DEF TakeFin, Segment, SegmentFacts
  <2>3. Genuine(v)
    BY <1>8, <1>10, <1>11, <2>2, ReceiveAssumption DEF Genuine, SegmentFacts
  <2>4. QED
    BY <1>8, <1>10, <2>2, <2>3 DEF Truthful, SegmentFacts
<1>13. v.fin => rest = <<>>
  BY <1>2, <1>9, <1>11, <1>12 DEF CoversInSeq
<1>14. w = TrimToNext(v, TCP_TCPLEN(v), rest)
  BY DEF InSeqSegment, t, u
<1> HIDE DEF v, rest, w
<1>15. SegmentFacts(v)
  BY <1>12, TruthfulFacts
<1>16. ASSUME rest # <<>>
       PROVE  /\ k + 1 \in 1 .. Len(ooseq) /\ rest[1] = ooseq[k + 1]
              /\ SegmentFacts(rest[1]) /\ Received <= rest[1].off /\ ~v.fin
  <2>1. k + 1 \in 1 .. Len(ooseq)
    BY <1>1, <1>2, <1>16
  <2>2. rest[1] = ooseq[k + 1]
    BY <1>1, <1>2, <2>1
  <2>3. SegmentFacts(ooseq[k + 1]) /\ Received <= ooseq[k + 1].off
    BY <2>1, QueuedFacts
  <2>4. QED
    BY <1>13, <1>16, <2>1, <2>2, <2>3
<1>17. Truthful(w) /\ w.off = Received /\ w.seqno = rcv_nxt
  <2> DEFINE cond == rest # <<>> /\ TCP_SEQ_GT(SeqAdd(v.seqno, TCP_TCPLEN(v)), rest[1].seqno)
  <2>1. CASE cond
    <3> DEFINE e == v.off + TCP_TCPLEN(v)
               l == rest[1].off - Received
    <3>1. e \in Distance /\ SeqAdd(v.seqno, TCP_TCPLEN(v)) = SeqAdd(ISN, e)
      BY <1>15 DEF SegmentFacts
    <3>2. rest[1].seqno = SeqAdd(ISN, rest[1].off) /\ rest[1].off \in Distance
      BY <1>16, <2>1 DEF SegmentFacts
    <3> HIDE DEF e
    <3>3. e > rest[1].off
      BY <1>6, <2>1, <3>1, <3>2, SeqOrder
    <3>a. Received <= rest[1].off /\ ~v.fin /\ rest[1].off \in Nat
      BY <1>16, <2>1 DEF SegmentFacts
    <3>4. SeqSub(rest[1].seqno, v.seqno) = l
      BY <1>6, <1>12, <3>2, <3>a, SeqSubDistance
    <3>5. l \in Nat /\ l <= v.len
      BY <1>6, <1>12, <1>15, <3>3, <3>a DEF SegmentFacts, e
    <3>6. w = [v EXCEPT !.len = l] /\ ~v.fin
      BY <1>14, <1>16, <2>1, <3>4 DEF TrimToNext
    <3> HIDE DEF l
    <3>7. QED
      BY <1>12, <3>5, <3>6, TruthfulShortenNoFin
  <2>2. CASE ~cond
    BY <1>12, <1>14, <2>2 DEF TrimToNext
  <2>3. QED
    BY <2>1, <2>2
<1>18. SegmentFacts(w)
  BY <1>17, TruthfulFacts
<1>19. TCP_TCPLEN(w) <= rcv_wnd
  BY DEF InSeqAsserts, w
<1>20. ASSUME rest # <<>> PROVE Received + TCP_TCPLEN(w) <= ooseq[k + 1].off
  <2> DEFINE e == w.off + TCP_TCPLEN(w)
  <2>1. e \in Distance /\ SeqAdd(w.seqno, TCP_TCPLEN(w)) = SeqAdd(ISN, e)
    BY <1>18 DEF SegmentFacts
  <2>2. TCP_SEQ_LEQ(SeqAdd(w.seqno, TCP_TCPLEN(w)), rest[1].seqno)
    BY <1>20 DEF InSeqAsserts, w, rest
  <2>3. rest[1].seqno = SeqAdd(ISN, rest[1].off) /\ rest[1].off \in Distance
    BY <1>16, <1>20 DEF SegmentFacts
  <2> HIDE DEF e
  <2>4. e <= rest[1].off
    BY <1>6, <2>1, <2>2, <2>3, SeqOrder
  <2>5. QED
    BY <1>16, <1>17, <1>20, <2>4 DEF e
<1>21. ASSUME NEW i \in k + 1 .. Len(ooseq)
       PROVE  Received + TCP_TCPLEN(w) <= ooseq[i].off
  <2>1. rest # <<>> /\ i \in 1 .. Len(ooseq) /\ k + 1 \in 1 .. Len(ooseq)
    BY <1>1, <1>2
  <2>2. Received + TCP_TCPLEN(w) <= ooseq[k + 1].off
    BY <1>20, <2>1
  <2>3. /\ i # k + 1 => ooseq[k + 1].off + TCP_TCPLEN(ooseq[k + 1]) <= ooseq[i].off
        /\ TCP_TCPLEN(ooseq[k + 1]) \in Nat /\ ooseq[k + 1].off \in Nat /\ ooseq[i].off \in Nat
    <3>1. SegmentFacts(ooseq[k + 1]) /\ SegmentFacts(ooseq[i])
      BY <2>1, QueuedFacts
    <3>2. i # k + 1 => k + 1 < i
      BY <1>1
    <3>3. QED
      BY <2>1, <3>1, <3>2 DEF IInv, Queue, GoodQueue, SegmentFacts
  <2>4. QED
    BY <1>6, <1>18, <2>2, <2>3 DEF SegmentFacts
<1>22. QED
  BY <1>17, <1>19, <1>21 DEF w

-----------------------------------------------------------------------------
(* The out-of-sequence queue. *)

\* One element of a good queue.
LEMMA GoodElement ==
  ASSUME NEW q, NEW low \in Nat, GoodQueue(q, low), NEW i \in 1 .. Len(q)
  PROVE  /\ Truthful(q[i]) /\ SegmentFacts(q[i]) /\ TCP_TCPLEN(q[i]) > 0
         /\ q[i].fin => i = Len(q)
         /\ low <= q[i].off
<1>1. Truthful(q[i]) /\ TCP_TCPLEN(q[i]) > 0 /\ (q[i].fin => i = Len(q)) /\ low <= q[i].off
  BY DEF GoodQueue
<1>2. QED
  BY <1>1, TruthfulFacts

\* A good queue without its first elements is good.
LEMMA GoodDropFirst ==
  ASSUME NEW q, NEW low \in Nat, GoodQueue(q, low), NEW k \in 0 .. Len(q)
  PROVE  GoodQueue(DropFirst(q, k), low)
<1>1. q \in Seq(Segment) /\ Len(q) \in Nat
  BY DEF GoodQueue
<1>2. /\ DropFirst(q, k) \in Seq(Segment)
      /\ Len(DropFirst(q, k)) = Len(q) - k
      /\ \A j \in 1 .. Len(q) - k : DropFirst(q, k)[j] = q[j + k]
  BY <1>1, DropFirstFacts
<1> DEFINE r == DropFirst(q, k)
<1> HIDE DEF r
<1>3. ASSUME NEW i \in 1 .. Len(r)
      PROVE  /\ Truthful(r[i]) /\ TCP_TCPLEN(r[i]) > 0
             /\ r[i].fin => i = Len(r)
             /\ low <= r[i].off
  <2>1. i + k \in 1 .. Len(q) /\ r[i] = q[i + k]
    BY <1>1, <1>2 DEF r
  <2>2. Len(r) = Len(q) - k /\ k \in Nat /\ i \in Nat
    BY <1>1, <1>2 DEF r
  <2>3. i + k = Len(q) => i = Len(r)
    BY <1>1, <2>2
  <2>4. QED
    BY <2>1, <2>3 DEF GoodQueue
<1>4. ASSUME NEW i \in 1 .. Len(r), NEW j \in 1 .. Len(r), i < j
      PROVE  r[i].off + TCP_TCPLEN(r[i]) <= r[j].off
  <2>1. /\ i + k \in 1 .. Len(q) /\ r[i] = q[i + k]
        /\ j + k \in 1 .. Len(q) /\ r[j] = q[j + k]
        /\ i + k < j + k
    BY <1>1, <1>2, <1>4 DEF r
  <2>2. QED
    BY <2>1 DEF GoodQueue
<1>5. QED
  BY <1>2, <1>3, <1>4 DEF GoodQueue, r

\* Two good queues, the second above the first.
LEMMA GoodJoin ==
  ASSUME NEW a, NEW b, NEW low \in Nat, GoodQueue(a, low), GoodQueue(b, low),
         \A i \in 1 .. Len(a), j \in 1 .. Len(b) :
            a[i].off + TCP_TCPLEN(a[i]) <= b[j].off,
         b # <<>> => \A i \in 1 .. Len(a) : ~a[i].fin
  PROVE  GoodQueue(a \o b, low)
<1> DEFINE c == a \o b
<1>1. a \in Seq(Segment) /\ b \in Seq(Segment) /\ Len(a) \in Nat /\ Len(b) \in Nat
  BY DEF GoodQueue
<1>2. /\ c \in Seq(Segment) /\ Len(c) = Len(a) + Len(b)
      /\ \A i \in 1 .. Len(a) : c[i] = a[i]
      /\ \A i \in Len(a) + 1 .. Len(a) + Len(b) : c[i] = b[i - Len(a)]
  BY <1>1, ConcatFacts
<1> HIDE DEF c
<1>3. ASSUME NEW i \in 1 .. Len(c)
      PROVE  /\ Truthful(c[i]) /\ TCP_TCPLEN(c[i]) > 0
             /\ c[i].fin => i = Len(c)
             /\ low <= c[i].off
  <2>1. CASE i <= Len(a)
    <3>1. i \in 1 .. Len(a) /\ c[i] = a[i]
      BY <1>1, <1>2, <2>1
    <3>2. c[i].fin => b = <<>> /\ i = Len(a)
      BY <3>1 DEF GoodQueue
    <3>3. b = <<>> => Len(b) = 0
      OBVIOUS
    <3>4. QED
      BY <1>1, <1>2, <3>1, <3>2, <3>3 DEF GoodQueue
  <2>2. CASE i > Len(a)
    <3>1. i \in Len(a) + 1 .. Len(a) + Len(b) /\ i - Len(a) \in 1 .. Len(b)
      BY <1>1, <1>2, <2>2
    <3>2. c[i] = b[i - Len(a)]
      BY <1>2, <3>1
    <3>3. QED
      BY <1>1, <1>2, <3>1, <3>2 DEF GoodQueue
  <2>3. QED
    BY <1>1, <1>2, <2>1, <2>2
<1>4. ASSUME NEW i \in 1 .. Len(c), NEW j \in 1 .. Len(c), i < j
      PROVE  c[i].off + TCP_TCPLEN(c[i]) <= c[j].off
  <2>1. CASE j <= Len(a)
    <3>1. i \in 1 .. Len(a) /\ j \in 1 .. Len(a)
      BY <1>1, <1>2, <1>4, <2>1
    <3>2. QED
      BY <1>2, <1>4, <3>1 DEF GoodQueue
  <2>2. CASE i <= Len(a) /\ j > Len(a)
    <3>1. i \in 1 .. Len(a) /\ j \in Len(a) + 1 .. Len(a) + Len(b) /\ j - Len(a) \in 1 .. Len(b)
      BY <1>1, <1>2, <2>2
    <3>2. QED
      BY <1>2, <3>1
  <2>3. CASE i > Len(a)
    <3>1. /\ i \in Len(a) + 1 .. Len(a) + Len(b) /\ i - Len(a) \in 1 .. Len(b)
          /\ j \in Len(a) + 1 .. Len(a) + Len(b) /\ j - Len(a) \in 1 .. Len(b)
          /\ i - Len(a) < j - Len(a)
      BY <1>1, <1>2, <1>4, <2>3
    <3>2. c[i] = b[i - Len(a)] /\ c[j] = b[j - Len(a)]
      BY <1>2, <3>1
    <3>3. QED
      BY <3>1, <3>2 DEF GoodQueue
  <2>4. QED
    BY <1>1, <1>2, <2>1, <2>2, <2>3
<1>5. QED
  BY <1>2, <1>3, <1>4 DEF GoodQueue, c

\* A queue of one segment.
LEMMA GoodSingle ==
  ASSUME NEW s, NEW low \in Nat, Truthful(s), TCP_TCPLEN(s) > 0, low <= s.off
  PROVE  GoodQueue(<<s>>, low)
<1>1. s \in Segment
  BY DEF Truthful
<1>2. <<s>> \in Seq(Segment) /\ Len(<<s>>) = 1 /\ <<s>>[1] = s
  BY <1>1
<1>3. 1 .. Len(<<s>>) = {1}
  BY <1>2
<1>4. QED
  BY <1>2, <1>3 DEF GoodQueue

\* tcp_oos_insert_segment in front of a queue that begins at or above it.
LEMMA GoodInsert ==
  ASSUME NEW q, NEW low \in Nat, GoodQueue(q, low),
         NEW s, Truthful(s), TCP_TCPLEN(s) > 0, low <= s.off,
         NEW k \in 0 .. Len(q), CoversOoseq(s, q, k),
         \A j \in k + 1 .. Len(q) : s.off < q[j].off
  PROVE  /\ GoodQueue(tcp_oos_insert_segment(s, q, k), low)
         /\ \A i \in 1 .. Len(tcp_oos_insert_segment(s, q, k)) :
              s.off <= tcp_oos_insert_segment(s, q, k)[i].off
<1> DEFINE v == TakeFin(s, q, k)
           rest == DropFirst(q, k)
           x == TrimToNext(v, s.len, rest)
           res == tcp_oos_insert_segment(s, q, k)
<1>1. q \in Seq(Segment) /\ Len(q) \in Nat /\ ISN \in SeqNo
  BY ReceiveAssumption DEF GoodQueue
<1>2. /\ rest \in Seq(Segment) /\ Len(rest) = Len(q) - k
      /\ \A j \in 1 .. Len(q) - k : rest[j] = q[j + k]
      /\ rest = <<>> <=> k = Len(q)
  BY <1>1, DropFirstFacts
<1>3. SegmentFacts(s)
  BY TruthfulFacts
<1>4. GoodQueue(rest, low)
  BY GoodDropFirst
<1>5. ASSUME NEW j \in 1 .. Len(rest)
      PROVE  /\ SegmentFacts(rest[j]) /\ TCP_TCPLEN(rest[j]) > 0 /\ s.off < rest[j].off
             /\ rest[1].off <= rest[j].off
  <2>1. SegmentFacts(rest[j]) /\ TCP_TCPLEN(rest[j]) > 0
    BY <1>4, GoodElement
  <2>2. rest[j] = q[j + k] /\ j + k \in k + 1 .. Len(q)
    BY <1>1, <1>2
  <2>3. 1 \in 1 .. Len(rest) /\ SegmentFacts(rest[1])
    BY <1>1, <1>2, <1>4, GoodElement
  <2>4. 1 < j => rest[1].off + TCP_TCPLEN(rest[1]) <= rest[j].off
    BY <1>4, <2>3 DEF GoodQueue
  <2>5. QED
    BY <2>1, <2>2, <2>3, <2>4 DEF SegmentFacts
<1>6. SomeFin(q, k) => k = Len(q) /\ s.off + s.len = N
  <2> SUFFICES ASSUME SomeFin(q, k)
               PROVE  k = Len(q) /\ s.off + s.len = N
    OBVIOUS
  <2>1. PICK i \in 1 .. k : q[i].fin
    BY DEF SomeFin
  <2>2. i \in 1 .. Len(q)
    BY <1>1
  <2>3. /\ SegmentFacts(q[i]) /\ i = Len(q) /\ k = Len(q)
    BY <1>1, <2>1, <2>2, GoodElement
  <2>4. CASE s.fin
    BY <1>3, <2>3, <2>4 DEF SegmentFacts
  <2>5. CASE ~s.fin
    <3> DEFINE e == s.off + s.len
    <3>1. CoveredOoseq(s, q, i)
      BY <2>1, <2>5 DEF CoversOoseq
    <3>2. SeqAdd(q[i].seqno, q[i].len) = SeqAdd(ISN, N) /\ N \in Distance
      BY <2>1, <2>3, ReceiveAssumption DEF SegmentFacts, Distance
    <3>3. SeqAdd(s.seqno, s.len) = SeqAdd(ISN, e) /\ e \in Distance
      BY <1>3 DEF SegmentFacts
    <3> HIDE DEF e
    <3>4. e >= N
      BY <1>1, <3>1, <3>2, <3>3, SeqOrder DEF CoveredOoseq
    <3>5. s.len > 0 /\ s.off + s.len <= N /\ s.off \in Nat /\ s.len \in Nat
      BY <1>3, <2>5 DEF SegmentFacts
    <3>6. QED
      BY <2>3, <3>4, <3>5, ReceiveAssumption DEF e
  <2>6. QED
    BY <2>4, <2>5
<1>7. /\ Truthful(v) /\ v.off = s.off /\ v.seqno = s.seqno /\ v.len = s.len
      /\ v.fin = (s.fin \/ SomeFin(q, k))
      /\ TCP_TCPLEN(v) > 0
  <2>1. SomeFin(q, k) \in BOOLEAN
    BY DEF SomeFin
  <2>2. /\ v \in Segment /\ v.off = s.off /\ v.seqno = s.seqno /\ v.len = s.len
        /\ v.syn = FALSE /\ v.fin = (s.fin \/ SomeFin(q, k))
    BY <1>3, <2>1 DEF TakeFin, Segment, SegmentFacts
  <2>3. Genuine(v)
    BY <1>3, <1>6, <2>2, ReceiveAssumption DEF Genuine, SegmentFacts
  <2>4. TCP_TCPLEN(v) > 0
    BY <1>3, <2>1, <2>2 DEF TCP_TCPLEN, SegmentFacts
  <2>5. QED
    BY <1>3, <2>2, <2>3, <2>4 DEF Truthful, SegmentFacts
<1>8. v.fin => rest = <<>>
  BY <1>2, <1>6, <1>7 DEF CoversOoseq
<1>9. res = <<x>> \o rest
  BY DEF tcp_oos_insert_segment
<1> HIDE DEF v, rest, x, res
<1>10. SegmentFacts(v)
  BY <1>7, TruthfulFacts
<1>11. /\ Truthful(x) /\ x.off = s.off /\ TCP_TCPLEN(x) > 0
       /\ x.fin => rest = <<>>
       /\ rest # <<>> => x.off + TCP_TCPLEN(x) <= rest[1].off
  <2>1. CASE rest = <<>>
    BY <1>7, <2>1 DEF x, TrimToNext
  <2>2. CASE rest # <<>>
    <3>1. 1 \in 1 .. Len(rest)
      BY <1>1, <1>2, <2>2
    <3> DEFINE e == s.off + s.len
               o == rest[1].off
    <3>2. SegmentFacts(rest[1]) /\ s.off < o
      BY <1>5, <3>1
    <3>3. /\ SeqAdd(v.seqno, s.len) = SeqAdd(ISN, e) /\ e \in Distance
          /\ v.seqno = SeqAdd(ISN, s.off) /\ s.off \in Distance /\ s.off \in Nat
          /\ e = s.off + s.len /\ s.len \in Nat
      BY <1>3, <1>7 DEF SegmentFacts
    <3>4. rest[1].seqno = SeqAdd(ISN, o) /\ o \in Distance /\ o \in Nat
      BY <3>2 DEF SegmentFacts
    <3>5. ~v.fin /\ v.fin \in BOOLEAN
      BY <1>8, <1>10, <2>2 DEF SegmentFacts
    <3> HIDE DEF e, o
    <3>6. TCP_SEQ_GT(SeqAdd(v.seqno, s.len), rest[1].seqno) <=> e > o
      BY <1>1, <3>3, <3>4, SeqOrder
    <3>7. SeqSub(rest[1].seqno, v.seqno) = o - s.off
      BY <1>1, <3>2, <3>3, <3>4, SeqSubDistance
    <3>8. CASE e > o
      <4> DEFINE l == o - s.off
      <4>1. l \in Nat /\ l > 0 /\ l <= v.len
        BY <1>7, <3>2, <3>3, <3>4, <3>8
      <4>2. x = [v EXCEPT !.len = l]
        BY <2>2, <3>6, <3>7, <3>8 DEF x, TrimToNext
      <4> HIDE DEF l
      <4>3. Truthful(x) /\ x.off = v.off /\ x.fin = FALSE /\ TCP_TCPLEN(x) = l
        BY <1>7, <3>5, <4>1, <4>2, TruthfulShortenNoFin
      <4>4. QED
        BY <1>7, <3>2, <3>3, <3>4, <4>1, <4>3 DEF l, o
    <3>9. CASE ~(e > o)
      <4>1. x = v
        BY <2>2, <3>6, <3>9 DEF x, TrimToNext
      <4>2. TCP_TCPLEN(x) = s.len
        BY <1>7, <1>10, <3>5, <4>1 DEF SegmentFacts
      <4>3. QED
        BY <1>7, <3>3, <3>4, <3>5, <3>9, <4>1, <4>2 DEF o
    <3>10. QED
      BY <3>8, <3>9
  <2>3. QED
    BY <2>1, <2>2
<1>12. SegmentFacts(x)
  BY <1>11, TruthfulFacts
<1>13. GoodQueue(<<x>>, low)
  BY <1>11, GoodSingle
<1>14. Len(<<x>>) = 1 /\ <<x>>[1] = x
  OBVIOUS
<1>15. \A j \in 1 .. Len(rest) : x.off + TCP_TCPLEN(x) <= rest[j].off /\ x.off <= rest[j].off
  <2> TAKE j \in 1 .. Len(rest)
  <2>1. rest # <<>> /\ 1 \in 1 .. Len(rest)
    BY <1>1, <1>2
  <2>2. /\ SegmentFacts(rest[j]) /\ SegmentFacts(rest[1]) /\ rest[1].off <= rest[j].off
    BY <1>5, <2>1
  <2>3. /\ x.off \in Nat /\ TCP_TCPLEN(x) \in Nat /\ rest[1].off \in Nat /\ rest[j].off \in Nat
    BY <1>12, <2>2 DEF SegmentFacts
  <2>4. x.off + TCP_TCPLEN(x) <= rest[1].off
    BY <1>11, <2>1
  <2>5. QED
    BY <2>2, <2>3, <2>4
<1>16. GoodQueue(res, low)
  <2>1. \A i \in 1 .. Len(<<x>>), j \in 1 .. Len(rest) :
          <<x>>[i].off + TCP_TCPLEN(<<x>>[i]) <= rest[j].off
    BY <1>14, <1>15
  <2>2. rest # <<>> => \A i \in 1 .. Len(<<x>>) : ~<<x>>[i].fin
    BY <1>11, <1>14
  <2>3. QED
    BY <1>4, <1>9, <1>13, <2>1, <2>2, GoodJoin
<1>17. \A i \in 1 .. Len(res) : s.off <= res[i].off
  <2> DEFINE one == <<x>>
  <2>1. one \in Seq(Segment) /\ Len(one) = 1 /\ one[1] = x
    BY <1>12 DEF SegmentFacts
  <2> HIDE DEF one
  <2>a. res = one \o rest
    BY <1>9 DEF one
  <2>2. /\ Len(res) = 1 + Len(rest)
        /\ res[1] = x
        /\ \A i \in 1 + 1 .. 1 + Len(rest) : res[i] = rest[i - 1]
    <3>1. rest \in Seq(Segment)
      BY <1>2
    <3>2. /\ Len(one \o rest) = Len(one) + Len(rest)
          /\ \A i \in 1 .. Len(one) : (one \o rest)[i] = one[i]
          /\ \A i \in Len(one) + 1 .. Len(one) + Len(rest) :
               (one \o rest)[i] = rest[i - Len(one)]
      BY <2>1, <3>1, ConcatFacts
    <3>3. QED
      BY <2>1, <2>a, <3>2
  <2>3. Len(rest) \in Nat /\ s.off \in Nat
    BY <1>1, <1>2, <1>3 DEF SegmentFacts
  <2> TAKE i \in 1 .. Len(res)
  <2>4. CASE i = 1
    BY <1>11, <2>2, <2>3, <2>4
  <2>5. CASE i # 1
    <3>1. i \in 1 + 1 .. 1 + Len(rest) /\ i - 1 \in 1 .. Len(rest)
      BY <2>2, <2>3, <2>5
    <3>2. res[i] = rest[i - 1]
      BY <2>2, <3>1
    <3>3. QED
      BY <1>11, <1>15, <3>1, <3>2
  <2>6. QED
    BY <2>4, <2>5
<1>18. QED
  BY <1>16, <1>17 DEF res

\* The segments before the new one, the last of them cut to where it begins.
LEMMA GoodCutBefore ==
  ASSUME NEW low \in Nat, GoodQueue(ooseq, low), NEW s, Truthful(s),
         NEW i \in 1 .. Len(ooseq) + 1,
         i > 1 => ooseq[i - 1].off < s.off /\ ~ooseq[i - 1].fin
  PROVE  /\ GoodQueue(CutBefore(s, i), low)
         /\ \A j \in 1 .. Len(CutBefore(s, i)) :
              /\ ~CutBefore(s, i)[j].fin
              /\ CutBefore(s, i)[j].off + TCP_TCPLEN(CutBefore(s, i)[j]) <= s.off
<1> DEFINE c == CutBefore(s, i)
<1>1. Len(ooseq) \in Nat /\ ISN \in SeqNo /\ SegmentFacts(s)
  BY ReceiveAssumption, TruthfulFacts DEF GoodQueue
<1>2. ASSUME NEW j \in 1 .. i - 1
      PROVE  /\ Truthful(c[j]) /\ SegmentFacts(c[j]) /\ SegmentFacts(ooseq[j])
             /\ TCP_TCPLEN(c[j]) > 0 /\ ~c[j].fin
             /\ c[j].off = ooseq[j].off
             /\ TCP_TCPLEN(c[j]) <= TCP_TCPLEN(ooseq[j])
             /\ low <= c[j].off
             /\ c[j].off + TCP_TCPLEN(c[j]) <= s.off
  <2>1. j \in 1 .. Len(ooseq)
    BY <1>1
  <2> DEFINE t == ooseq[j]
             e == t.off + t.len
  <2>2. /\ Truthful(t) /\ SegmentFacts(t) /\ TCP_TCPLEN(t) > 0
        /\ t.fin => j = Len(ooseq)
        /\ low <= t.off
    BY <2>1, GoodElement
  <2>3. /\ t.off \in Nat /\ t.len \in Nat /\ t.off \in Distance /\ t.seqno = SeqAdd(ISN, t.off)
        /\ e \in Distance /\ SeqAdd(t.seqno, t.len) = SeqAdd(ISN, e)
        /\ TCP_TCPLEN(t) \in Nat
        /\ ~t.fin => TCP_TCPLEN(t) = t.len
    BY <2>2 DEF SegmentFacts
  <2>4. /\ s.off \in Nat /\ s.off \in Distance /\ s.seqno = SeqAdd(ISN, s.off)
    BY <1>1 DEF SegmentFacts
  <2>5. ~t.fin /\ t.off < s.off
    <3>1. CASE j = i - 1
      BY <3>1
    <3>2. CASE j < i - 1
      <4>1. i - 1 \in 1 .. Len(ooseq) /\ j < i - 1 /\ i > 1
        BY <1>1, <3>2
      <4>2. t.off + TCP_TCPLEN(t) <= ooseq[i - 1].off /\ ooseq[i - 1].off < s.off
        BY <2>1, <4>1 DEF GoodQueue
      <4>3. SegmentFacts(ooseq[i - 1])
        BY <4>1, GoodElement
      <4>4. ooseq[i - 1].off \in Nat
        BY <4>3 DEF SegmentFacts
      <4>5. t.off < s.off
        BY <2>3, <2>4, <4>2, <4>4
      <4>6. ~t.fin
        BY <1>1, <2>2, <4>1
      <4>7. QED
        BY <4>5, <4>6
    <3>3. QED
      BY <1>1, <3>1, <3>2
  <2>6. c[j] = IF j = i - 1 /\ TCP_SEQ_GT(SeqAdd(t.seqno, t.len), s.seqno)
                 THEN [t EXCEPT !.len = SeqSub(s.seqno, t.seqno)]
                 ELSE t
    BY DEF CutBefore
  <2> HIDE DEF c, t, e
  <2>7. TCP_SEQ_GT(SeqAdd(t.seqno, t.len), s.seqno) <=> e > s.off
    BY <1>1, <2>3, <2>4, SeqOrder
  <2>8. SeqSub(s.seqno, t.seqno) = s.off - t.off
    BY <1>1, <2>3, <2>4, <2>5, SeqSubDistance
  <2>9. CASE j = i - 1 /\ e > s.off
    <3> DEFINE l == s.off - t.off
    <3>1. l \in Nat /\ l > 0 /\ l <= t.len
      BY <2>3, <2>4, <2>5, <2>9 DEF e
    <3>2. c[j] = [t EXCEPT !.len = l]
      BY <2>6, <2>7, <2>8, <2>9
    <3> DEFINE y == [t EXCEPT !.len = l]
    <3> HIDE DEF l
    <3>a. Truthful(y) /\ y.off = t.off /\ y.fin = FALSE /\ TCP_TCPLEN(y) = l
      BY <2>2, <2>5, <3>1, TruthfulShortenNoFin
    <3> HIDE DEF y
    <3>3. Truthful(c[j]) /\ c[j].off = t.off /\ c[j].fin = FALSE /\ TCP_TCPLEN(c[j]) = l
      BY <3>2, <3>a DEF y
    <3>4. SegmentFacts(c[j])
      BY <3>3, TruthfulFacts
    <3>5. QED
      BY <2>2, <2>3, <2>4, <2>5, <3>1, <3>3, <3>4 DEF l, t
  <2>10. CASE ~(j = i - 1 /\ e > s.off)
    <3>1. c[j] = t
      BY <2>6, <2>7, <2>10
    <3>2. t.off + TCP_TCPLEN(t) <= s.off
      <4>1. CASE j = i - 1
        BY <2>3, <2>4, <2>5, <2>10, <4>1 DEF e
      <4>2. CASE j < i - 1
        <5>1. i - 1 \in 1 .. Len(ooseq) /\ i > 1
          BY <1>1, <4>2
        <5>2. t.off + TCP_TCPLEN(t) <= ooseq[i - 1].off /\ ooseq[i - 1].off < s.off
          BY <2>1, <4>2, <5>1 DEF GoodQueue, t
        <5>3. SegmentFacts(ooseq[i - 1])
          BY <5>1, GoodElement
        <5>4. ooseq[i - 1].off \in Nat
          BY <5>3 DEF SegmentFacts
        <5>5. QED
          BY <2>3, <2>4, <5>2, <5>4
      <4>3. QED
        BY <1>1, <4>1, <4>2
    <3>3. QED
      BY <2>2, <2>3, <2>5, <3>1, <3>2 DEF t
  <2>11. QED
    BY <2>9, <2>10
<1>3. /\ c \in Seq(Segment) /\ Len(c) = i - 1
  <2>1. c = [j \in 1 .. i - 1 |-> c[j]] /\ i - 1 \in Nat
    BY <1>1 DEF CutBefore
  <2>2. \A j \in 1 .. i - 1 : c[j] \in Segment
    BY <1>2 DEF Truthful
  <2> HIDE DEF c
  <2>3. QED
    BY <2>1, <2>2
<1> HIDE DEF c
<1>4. \A j \in 1 .. i - 1 : j \in 1 .. Len(ooseq)
  BY <1>1
<1>5. ASSUME NEW a \in 1 .. i - 1, NEW b \in 1 .. i - 1, a < b
      PROVE  c[a].off + TCP_TCPLEN(c[a]) <= c[b].off
  <2>1. ooseq[a].off + TCP_TCPLEN(ooseq[a]) <= ooseq[b].off
    BY <1>4, <1>5 DEF GoodQueue
  <2>2. /\ SegmentFacts(c[a]) /\ SegmentFacts(ooseq[a]) /\ SegmentFacts(ooseq[b])
        /\ c[a].off = ooseq[a].off /\ c[b].off = ooseq[b].off
        /\ TCP_TCPLEN(c[a]) <= TCP_TCPLEN(ooseq[a])
    BY <1>2
  <2>3. /\ ooseq[a].off \in Nat /\ ooseq[b].off \in Nat
        /\ TCP_TCPLEN(ooseq[a]) \in Nat /\ TCP_TCPLEN(c[a]) \in Nat
    BY <2>2 DEF SegmentFacts
  <2>4. QED
    BY <2>1, <2>2, <2>3
<1>6. GoodQueue(c, low)
  BY <1>2, <1>3, <1>5 DEF GoodQueue
<1>7. QED
  BY <1>2, <1>3, <1>6 DEF c

\* The first elements of a good queue are a good queue.
LEMMA GoodFront ==
  ASSUME NEW q, NEW low \in Nat, GoodQueue(q, low), NEW n \in 0 .. Len(q), n < Len(q)
  PROVE  /\ GoodQueue(SubSeq(q, 1, n), low)
         /\ Len(SubSeq(q, 1, n)) = n
         /\ \A j \in 1 .. n : SubSeq(q, 1, n)[j] = q[j] /\ ~q[j].fin
<1> DEFINE f == SubSeq(q, 1, n)
<1>1. q \in Seq(Segment) /\ Len(q) \in Nat
  BY DEF GoodQueue
<1>2. f \in Seq(Segment) /\ Len(f) = n /\ \A j \in 1 .. n : f[j] = q[j]
  BY <1>1
<1> HIDE DEF f
<1>3. \A j \in 1 .. n : j \in 1 .. Len(q) /\ j # Len(q)
  BY <1>1
<1>4. \A j \in 1 .. n : ~q[j].fin
  BY <1>3 DEF GoodQueue
<1>5. GoodQueue(f, low)
  BY <1>2, <1>3, <1>4 DEF GoodQueue
<1>6. QED
  BY <1>2, <1>4, <1>5 DEF f

\* The segment that tcp_receive queues: above rcv_nxt, inside the window.
LEMMA OutOfSeqFacts ==
  ASSUME IInv, ToReceive, HasText, InWindow(Trimmed.seqno), Trimmed.seqno # rcv_nxt
  PROVE  /\ Truthful(Trimmed) /\ TCP_TCPLEN(Trimmed) > 0 /\ SegmentFacts(Trimmed)
         /\ Received < Trimmed.off /\ Trimmed.off < Received + rcv_wnd
         /\ Trimmed = inseg
<1> DEFINE t == Trimmed
<1>1. Truthful(inseg) /\ TCP_TCPLEN(inseg) > 0
  BY DEF IInv, Control, ToReceive, HasText, SynSegment
<1>2. Truthful(t) /\ TCP_TCPLEN(t) > 0 /\ (t.off # Received => t = inseg)
  BY <1>1, TrimFrontFacts DEF Trimmed
<1>3. SegmentFacts(t)
  BY <1>2, TruthfulFacts
<1> HIDE DEF t
<1>4. /\ t.seqno = SeqAdd(ISN, t.off) /\ t.off \in Distance /\ t.off \in Nat /\ t.off <= N + 1
  BY <1>3 DEF SegmentFacts
<1>5. /\ Received \in Distance /\ Received \in Nat /\ rcv_wnd \in Distance
      /\ Received + rcv_wnd < Half /\ t.off + 1 < Half
      /\ rcv_nxt = SeqAdd(ISN, Received) /\ ISN \in SeqNo
  BY <1>4, NumberFacts, ReceiveAssumption, HalfAssumption DEF IInv, Numbers, Distance
<1>6. InWindow(t.seqno) /\ t.seqno # rcv_nxt
  BY DEF t
<1>7. Received <= t.off /\ t.off < Received + rcv_wnd
  BY <1>4, <1>5, <1>6, SeqInWindow DEF InWindow
<1>8. t.off # Received
  BY <1>4, <1>5, <1>6
<1>9. QED
  BY <1>2, <1>3, <1>4, <1>5, <1>7, <1>8 DEF t

\* The queue after the walk of tcp_receive is good again.
WalkStops(s, i, k, low) ==
  /\ low \in Nat /\ low > 0 /\ GoodQueue(ooseq, low)
  /\ low = Received + 1 /\ rcv_nxt = SeqAdd(ISN, Received) /\ Received \in Nat
  /\ rcv_wnd \in Nat /\ Received + rcv_wnd \in Distance
  /\ Truthful(s) /\ TCP_TCPLEN(s) > 0
  /\ low <= s.off /\ s.off < Received + rcv_wnd
  /\ i \in 1 .. Len(ooseq) /\ StopsAt(s, i)
  /\ k \in 0 .. Len(ooseq) - i + 1 /\ CoversOoseq(s, DropFirst(ooseq, i - 1), k)

LEMMA QueueAtGood ==
  ASSUME NEW low, NEW s, NEW i, NEW k, WalkStops(s, i, k, low)
  PROVE  GoodQueue(QueueAt(s, i, k), low)
<1> DEFINE m == i - 1
           q == DropFirst(ooseq, m)
           new == tcp_oos_insert_segment(s, q, k)
<1>a. GoodQueue(ooseq, low) /\ low \in Nat /\ low > 0
  BY DEF WalkStops
<1>b. Truthful(s) /\ TCP_TCPLEN(s) > 0 /\ low <= s.off /\ s.off < Received + rcv_wnd
  BY DEF WalkStops
<1>c. /\ rcv_nxt = SeqAdd(ISN, Received) /\ Received \in Nat
      /\ rcv_wnd \in Nat /\ Received + rcv_wnd \in Distance
  BY DEF WalkStops
<1>d. i \in 1 .. Len(ooseq) /\ k \in 0 .. Len(ooseq) - i + 1
  BY DEF WalkStops
<1>e. StopsAt(s, i) /\ CoversOoseq(s, DropFirst(ooseq, i - 1), k)
  BY DEF WalkStops
<1>1. ooseq \in Seq(Segment) /\ Len(ooseq) \in Nat /\ ISN \in SeqNo
  BY <1>a, ReceiveAssumption DEF GoodQueue
<1>2. /\ s.off \in Nat /\ s.off \in Distance /\ s.seqno = SeqAdd(ISN, s.off) /\ s.len \in Nat
      /\ s.off + 1 < Half /\ SegmentFacts(s)
  <2>1. SegmentFacts(s)
    BY <1>b, TruthfulFacts
  <2>2. s.off \in Nat /\ s.off <= N + 1
    BY <2>1 DEF SegmentFacts
  <2>3. s.off + 1 < Half
    BY <2>2, ReceiveAssumption, HalfAssumption
  <2>4. QED
    BY <2>1, <2>3 DEF SegmentFacts
<1>3. ASSUME NEW j \in 1 .. Len(ooseq)
      PROVE  /\ ooseq[j].off \in Nat /\ ooseq[j].off \in Distance /\ ooseq[j].len \in Nat
             /\ ooseq[j].seqno = SeqAdd(ISN, ooseq[j].off)
             /\ ooseq[j].off + 1 < Half /\ ooseq[j].off > 0
             /\ SegmentFacts(ooseq[j])
             /\ ooseq[j].fin => j = Len(ooseq)
             /\ TCP_TCPLEN(ooseq[j]) \in Nat /\ TCP_TCPLEN(ooseq[j]) > 0
  <2>1. /\ SegmentFacts(ooseq[j]) /\ low <= ooseq[j].off /\ TCP_TCPLEN(ooseq[j]) > 0
        /\ ooseq[j].fin => j = Len(ooseq)
    BY <1>a, GoodElement
  <2>2. /\ ooseq[j].off \in Nat /\ ooseq[j].off \in Distance /\ ooseq[j].len \in Nat
        /\ ooseq[j].seqno = SeqAdd(ISN, ooseq[j].off)
        /\ TCP_TCPLEN(ooseq[j]) \in Nat /\ ooseq[j].off <= N + 1
    BY <2>1 DEF SegmentFacts
  <2>3. ooseq[j].off + 1 < Half /\ ooseq[j].off > 0
    <3> DEFINE o == ooseq[j].off
    <3>1. o \in Nat /\ o <= N + 1 /\ low <= o
      BY <2>1, <2>2
    <3> HIDE DEF o
    <3>2. o + 1 < Half
      BY <3>1, ReceiveAssumption, HalfAssumption
    <3>3. o > 0
      BY <1>a, <3>1
    <3>4. QED
      BY <3>2, <3>3 DEF o
  <2>4. QED
    BY <2>1, <2>2, <2>3
<1>4. ASSUME NEW a \in 1 .. Len(ooseq), NEW b \in 1 .. Len(ooseq), a < b
      PROVE  ooseq[a].off < ooseq[b].off /\ ooseq[a].off + TCP_TCPLEN(ooseq[a]) <= ooseq[b].off
  <2>1. ooseq[a].off + TCP_TCPLEN(ooseq[a]) <= ooseq[b].off
    BY <1>a, <1>4 DEF GoodQueue
  <2>2. /\ ooseq[a].off \in Nat /\ ooseq[b].off \in Nat
        /\ TCP_TCPLEN(ooseq[a]) \in Nat /\ TCP_TCPLEN(ooseq[a]) > 0
    BY <1>3
  <2>3. QED
    BY <2>1, <2>2
<1>5. m \in 0 .. Len(ooseq) /\ m < Len(ooseq) /\ i = m + 1 /\ m \in Nat
  BY <1>1, <1>d
<1> HIDE DEF m
<1>6. /\ q \in Seq(Segment) /\ Len(q) = Len(ooseq) - m
      /\ \A j \in 1 .. Len(ooseq) - m : q[j] = ooseq[j + m]
  BY <1>1, <1>5, DropFirstFacts
<1>7. GoodQueue(q, low) /\ k \in 0 .. Len(q) /\ CoversOoseq(s, q, k)
  <2>1. GoodQueue(q, low)
    BY <1>a, <1>5, GoodDropFirst
  <2>2. k \in 0 .. Len(q)
    BY <1>1, <1>5, <1>6, <1>d
  <2>3. CoversOoseq(s, q, k)
    BY <1>e DEF m
  <2>4. QED
    BY <2>1, <2>2, <2>3
<1>8. q[1] = ooseq[i] /\ 1 \in 1 .. Len(q) /\ Len(q) > 0
  BY <1>1, <1>5, <1>6, <1>d
<1> HIDE DEF q
<1>9. ASSUME s.off <= ooseq[i].off, k = 0 => s.off < ooseq[i].off
      PROVE  /\ GoodQueue(new, low)
             /\ \A j \in 1 .. Len(new) : s.off <= new[j].off
  <2>1. ASSUME NEW j \in k + 1 .. Len(q) PROVE s.off < q[j].off
    <3>1. /\ j + m \in 1 .. Len(ooseq) /\ q[j] = ooseq[j + m]
          /\ j = 1 => k = 0 /\ q[j] = ooseq[i]
          /\ j # 1 => i < j + m
      BY <1>1, <1>5, <1>6, <1>7, <1>8
    <3>2. CASE j = 1
      BY <1>7, <1>9, <3>1, <3>2
    <3>3. CASE j # 1
      <4>1. ooseq[i].off < ooseq[j + m].off
        BY <1>4, <1>d, <3>1, <3>3
      <4>2. ooseq[i].off \in Nat /\ ooseq[j + m].off \in Nat
        BY <1>3, <1>d, <3>1
      <4>3. QED
        BY <1>2, <1>9, <3>1, <4>1, <4>2
    <3>4. QED
      BY <3>2, <3>3
  <2>2. QED
    BY <1>7, <1>a, <1>b, <2>1, GoodInsert
<1> HIDE DEF new
<1>10. ASSUME NEW pre, GoodQueue(pre, low), GoodQueue(new, low),
              \A j \in 1 .. Len(new) : s.off <= new[j].off,
              \A j \in 1 .. Len(pre) :
                 ~pre[j].fin /\ pre[j].off + TCP_TCPLEN(pre[j]) <= s.off
       PROVE  GoodQueue(pre \o new, low)
  <2>1. ASSUME NEW a \in 1 .. Len(pre), NEW b \in 1 .. Len(new)
        PROVE  pre[a].off + TCP_TCPLEN(pre[a]) <= new[b].off
    <3>1. SegmentFacts(pre[a]) /\ SegmentFacts(new[b])
      BY <1>10, <1>a, GoodElement
    <3>2. pre[a].off \in Nat /\ TCP_TCPLEN(pre[a]) \in Nat /\ new[b].off \in Nat
      BY <3>1 DEF SegmentFacts
    <3>3. pre[a].off + TCP_TCPLEN(pre[a]) <= s.off /\ s.off <= new[b].off
      BY <1>10
    <3>4. QED
      BY <1>2, <3>2, <3>3
  <2>2. QED
    BY <1>10, <1>a, <2>1, GoodJoin
<1>11. CASE SamePlace(s, i)
  <2>1. s.off = ooseq[i].off
    <3>1. ooseq[i].seqno = SeqAdd(ISN, ooseq[i].off) /\ ooseq[i].off \in Distance
      BY <1>3, <1>d
    <3>2. QED
      BY <1>1, <1>2, <1>11, <3>1, SeqInjective DEF SamePlace
  <2>2. CASE s.len > ooseq[i].len
    <3> DEFINE pre == SubSeq(ooseq, 1, i - 1)
    <3>1. k # 0
      <4> SUFFICES ASSUME k = 0 PROVE FALSE
        OBVIOUS
      <4>1. CASE s.fin
        BY <1>7, <1>8, <4>1 DEF CoversOoseq
      <4>2. CASE ~s.fin
        <5> DEFINE e == s.off + s.len
                   d == ooseq[i].off + ooseq[i].len
        <5>1. ~CoveredOoseq(s, q, 0 + 1)
          BY <1>7, <1>8, <4>2 DEF CoversOoseq
        <5>2. ~TCP_SEQ_GEQ(SeqAdd(s.seqno, s.len), SeqAdd(ooseq[i].seqno, ooseq[i].len))
          BY <1>8, <5>1 DEF CoveredOoseq
        <5>3. /\ SeqAdd(s.seqno, s.len) = SeqAdd(ISN, e) /\ e \in Distance
              /\ SeqAdd(ooseq[i].seqno, ooseq[i].len) = SeqAdd(ISN, d) /\ d \in Distance
          BY <1>2, <1>3, <1>d DEF SegmentFacts
        <5>4. e >= d
          BY <1>2, <1>3, <1>d, <2>1, <2>2
        <5> HIDE DEF e, d
        <5>5. QED
          BY <1>1, <5>2, <5>3, <5>4, SeqOrder
      <4>3. QED
        BY <4>1, <4>2
    <3>2. GoodQueue(new, low) /\ \A j \in 1 .. Len(new) : s.off <= new[j].off
      BY <1>2, <1>9, <2>1, <3>1
    <3>3. /\ GoodQueue(pre, low) /\ Len(pre) = i - 1
          /\ \A j \in 1 .. i - 1 : pre[j] = ooseq[j] /\ ~ooseq[j].fin
      BY <1>5, <1>a, GoodFront DEF m
    <3> HIDE DEF pre
    <3>4. ASSUME NEW j \in 1 .. Len(pre)
          PROVE  ~pre[j].fin /\ pre[j].off + TCP_TCPLEN(pre[j]) <= s.off
      <4>1. j \in 1 .. Len(ooseq) /\ j < i /\ j \in 1 .. i - 1
        BY <1>1, <1>d, <3>3
      <4>2. ooseq[j].off + TCP_TCPLEN(ooseq[j]) <= ooseq[i].off
        BY <1>4, <1>d, <4>1
      <4>3. QED
        BY <2>1, <3>3, <4>1, <4>2
    <3>5. QueueAt(s, i, k) = pre \o new
      BY <1>11, <2>2 DEF QueueAt, pre, new, q, m
    <3>6. QED
      BY <1>10, <3>2, <3>3, <3>4, <3>5
  <2>3. CASE ~(s.len > ooseq[i].len)
    <3>1. QueueAt(s, i, k) = ooseq
      BY <1>11, <2>3 DEF QueueAt
    <3>2. QED
      BY <1>a, <3>1
  <2>4. QED
    BY <2>2, <2>3
<1>12. CASE ~SamePlace(s, i) /\ PlaceBefore(s, i)
  <2> DEFINE pre == CutBefore(s, i)
  <2>1. s.off < ooseq[i].off /\ (i > 1 => ooseq[i - 1].off < s.off)
    <3>1. CASE i = 1
      <4>1. TCP_SEQ_LT(s.seqno, ooseq[i].seqno)
        BY <1>12, <3>1 DEF PlaceBefore
      <4>2. s.off < ooseq[i].off
        BY <1>1, <1>2, <1>3, <1>d, <4>1, SeqOrder
      <4>3. QED
        BY <3>1, <4>2
    <3>2. CASE i # 1
      <4>1. i - 1 \in 1 .. Len(ooseq)
        BY <1>1, <1>d, <3>2
      <4>2. TCP_SEQ_BETWEEN(s.seqno, SeqAdd(ooseq[i-1].seqno, 1), SeqSub(ooseq[i].seqno, 1))
        BY <1>12, <3>2 DEF PlaceBefore
      <4>3. QED
        <5>1. /\ ooseq[i-1].seqno = SeqAdd(ISN, ooseq[i-1].off) /\ ooseq[i-1].off \in Distance
              /\ ooseq[i-1].off + 1 < Half
          BY <1>3, <4>1
        <5>2. /\ ooseq[i].seqno = SeqAdd(ISN, ooseq[i].off) /\ ooseq[i].off \in Distance
              /\ ooseq[i].off > 0
          BY <1>3, <1>d
        <5>3. QED
          BY <1>1, <1>2, <4>2, <5>1, <5>2, SeqStrictlyBetween
    <3>3. QED
      BY <3>1, <3>2
  <2>2. i > 1 => ~ooseq[i - 1].fin
    <3>1. i > 1 => i - 1 \in 1 .. Len(ooseq) /\ i - 1 # Len(ooseq)
      BY <1>1, <1>d
    <3>2. QED
      BY <1>3, <3>1
  <2>3. GoodQueue(new, low) /\ \A j \in 1 .. Len(new) : s.off <= new[j].off
    <3>1. s.off <= ooseq[i].off
      BY <1>2, <1>3, <1>d, <2>1
    <3>2. QED
      BY <1>9, <2>1, <3>1
  <2>4. /\ GoodQueue(pre, low)
        /\ \A j \in 1 .. Len(pre) : ~pre[j].fin /\ pre[j].off + TCP_TCPLEN(pre[j]) <= s.off
    <3>1. i \in 1 .. Len(ooseq) + 1
      BY <1>1, <1>d
    <3>2. QED
      BY <1>a, <1>b, <2>1, <2>2, <3>1, GoodCutBefore
  <2> HIDE DEF pre
  <2>5. QueueAt(s, i, k) = pre \o new
    BY <1>12 DEF QueueAt, pre, new, q, m
  <2>6. QED
    BY <1>10, <2>3, <2>4, <2>5
<1>13. CASE ~SamePlace(s, i) /\ ~PlaceBefore(s, i)
  <2>1. i = Len(ooseq) /\ TCP_SEQ_GT(s.seqno, ooseq[i].seqno)
    BY <1>13, <1>e DEF StopsAt, PlaceLast
  <2>2. ooseq[i].off < s.off
    BY <1>1, <1>2, <1>3, <1>d, <2>1, SeqOrder
  <2>3. CASE ooseq[i].fin
    <3>1. QueueAt(s, i, k) = ooseq
      BY <1>13, <2>3 DEF QueueAt
    <3>2. QED
      BY <1>a, <3>1
  <2>4. CASE ~ooseq[i].fin
    <3> DEFINE n == i + 1
               pre == CutBefore(s, n)
               x == CutToWindow(s)
    <3>1. n \in 1 .. Len(ooseq) + 1 /\ n - 1 = i
      BY <1>1, <1>d
    <3> HIDE DEF n
    <3>2. /\ GoodQueue(pre, low)
          /\ \A j \in 1 .. Len(pre) : ~pre[j].fin /\ pre[j].off + TCP_TCPLEN(pre[j]) <= s.off
      BY <1>a, <1>b, <2>2, <2>4, <3>1, GoodCutBefore
    <3>3. Truthful(x) /\ TCP_TCPLEN(x) > 0 /\ x.off = s.off
      <4> DEFINE edge == Received + rcv_wnd
                 e == s.off + TCP_TCPLEN(s)
                 l == edge - s.off
      <4>1. /\ SeqAdd(rcv_nxt, rcv_wnd) = SeqAdd(ISN, edge) /\ edge \in Distance /\ edge \in Nat
        <5>1. Received \in Distance /\ rcv_wnd \in Distance /\ Received + rcv_wnd < Half
          BY <1>c, HalfAssumption DEF Distance
        <5>2. SeqAdd(SeqAdd(ISN, Received), rcv_wnd) = SeqAdd(ISN, Received + rcv_wnd)
          BY <1>1, <5>1, SeqAddAdd
        <5>3. QED
          BY <1>c, <5>2 DEF Distance
      <4>2. /\ SeqAdd(s.seqno, TCP_TCPLEN(s)) = SeqAdd(ISN, e) /\ e \in Distance
            /\ TCP_TCPLEN(s) \in Nat /\ TCP_TCPLEN(s) <= s.len + 1
        BY <1>2 DEF SegmentFacts
      <4>3. s.off < edge
        BY <1>b
      <4> HIDE DEF edge
      <4>4. SeqSub(SeqAdd(ISN, edge), s.seqno) = l
        BY <1>1, <1>2, <4>1, <4>3, SeqSubDistance
      <4>5. CASE TCP_SEQ_GT(SeqAdd(s.seqno, TCP_TCPLEN(s)), SeqAdd(rcv_nxt, rcv_wnd))
        <5> DEFINE y == [s EXCEPT !.fin = FALSE, !.len = l]
        <5>1. e > edge
          <6> HIDE DEF e
          <6>1. QED
            BY <1>1, <4>1, <4>2, <4>5, SeqOrder
        <5>2. l \in Nat /\ l > 0 /\ l <= s.len
          <6>1. s.off + TCP_TCPLEN(s) > edge
            BY <5>1
          <6>2. QED
            BY <1>2, <4>1, <4>2, <4>3, <6>1
        <5>3. x = y
          BY <4>1, <4>4, <4>5 DEF CutToWindow
        <5> HIDE DEF l
        <5>4. Truthful(y) /\ y.off = s.off /\ TCP_TCPLEN(y) = l
          BY <1>b, <5>2, TruthfulShorten
        <5> HIDE DEF y, x
        <5>5. QED
          BY <5>2, <5>3, <5>4
      <4>6. CASE ~TCP_SEQ_GT(SeqAdd(s.seqno, TCP_TCPLEN(s)), SeqAdd(rcv_nxt, rcv_wnd))
        BY <1>b, <4>6 DEF CutToWindow
      <4>7. QED
        BY <4>5, <4>6
    <3>4. QueueAt(s, i, k) = pre \o <<x>>
      BY <1>13, <2>4 DEF QueueAt, n
    <3> HIDE DEF pre, x
    <3>5. GoodQueue(<<x>>, low)
      BY <1>a, <1>b, <3>3, GoodSingle
    <3>6. \A a \in 1 .. Len(pre), b \in 1 .. Len(<<x>>) :
             pre[a].off + TCP_TCPLEN(pre[a]) <= <<x>>[b].off
      <4>1. Len(<<x>>) = 1 /\ <<x>>[1] = x
        OBVIOUS
      <4>2. QED
        BY <3>2, <3>3, <4>1
    <3>7. QED
      BY <1>a, <3>2, <3>4, <3>5, <3>6, GoodJoin
  <2>5. QED
    BY <2>3, <2>4
<1>14. QED
  BY <1>11, <1>12, <1>13
=============================================================================
