---------------------------- MODULE TcpSendProof ----------------------------
(***************************************************************************)
(* What TcpSend promises, for every window, buffer and segment size.       *)
(*                                                                         *)
(* The argument does not look at the order of the two queues: with a peer  *)
(* that sends data, or with an output that fails, a retransmitted segment  *)
(* may stay anywhere on unsent.  As long as nothing has been appended in   *)
(* the middle of the stream, the queued segments tile it: no two overlap   *)
(* and none is missing from lastack to its end.  Sending and               *)
(* retransmitting only move segments from one place to another, an ACK     *)
(* drops segments that lie before the new lastack (Moves); tcp_write and   *)
(* tcp_send_fin lengthen the stream at its end.                            *)
(***************************************************************************)
EXTENDS TcpSend, TcpSeqTheorems, SequenceTheorems, NaturalsInduction,
        WellFoundedInduction, TLAPS

\* The congestion window set by tcp_rexmit_fast fits its C type.
WideWindow ==
  /\ SND_WND_MAX \div 2 + 3 * TCP_MSS <= MaxWnd
  /\ 5 * TCP_MSS <= MaxWnd

Start(s) == Offset(s.seqno)

End(s) == Start(s) + TCP_TCPLEN(s)

\* The FIN as a position of the stream.
FinLen == IF "FIN" \in flags THEN 1 ELSE 0

\* A segment of a stream of w bytes and f FINs.
Piece(s, w, f) ==
  /\ s \in Segment
  /\ TCP_TCPLEN(s) >= 1 /\ s.len <= MssLocal
  /\ Start(s) + s.len <= w
  /\ s.fin => f = 1

Pieces(q, w, f) ==
  /\ q \in Seq(Segment)
  /\ \A i \in 1 .. Len(q) : Piece(q[i], w, f)

\* No two segments overlap.
Apart(q) ==
  \A i, j \in 1 .. Len(q) : i # j => End(q[i]) <= Start(q[j]) \/ End(q[j]) <= Start(q[i])

\* q is the stream after position lo, each position once, in any order.
Tiles(q, lo, w, f) ==
  /\ Apart(q)
  /\ \A i \in 1 .. Len(q) : q[i].fin => End(q[i]) = w + 1
  /\ \A n \in lo + 1 .. w + f : \E i \in 1 .. Len(q) : Start(q[i]) < n /\ n <= End(q[i])

\* The FIN is queued behind the last byte.
FinHeld(q, w) == \E i \in 1 .. Len(q) : q[i].fin /\ End(q[i]) = w + 1

\* The queue q holds what is not acknowledged: the FIN, if it has been sent (n
\* is snd_nxt), and, if nothing is misplaced (~m), the whole stream.
Holds(q, lo, w, f, n, m) ==
  /\ Pieces(q, w, f)
  /\ lo <= w /\ w < n => FinHeld(q, w)
  /\ ~m => Tiles(q, lo, w, f)

Ascending(q) == \A i, j \in 1 .. Len(q) : i < j => Start(q[i]) < Start(q[j])

\* The types of TypeOK, but for the congestion window.
Types ==
  /\ state \in States
  /\ unsent \in Seq(Segment) /\ unacked \in Seq(Segment)
  /\ snd_nxt \in SeqNo /\ lastack \in SeqNo /\ snd_lbb \in SeqNo /\ snd_wl2 \in SeqNo
  /\ snd_buf \in 0 .. TCP_SND_BUF + 1 /\ unsent_oversize \in 0 .. TCP_MSS
  /\ snd_wnd \in 0 .. SND_WND_MAX
  /\ dupacks \in 0 .. 4 /\ acked \in 0 .. TCP_SND_BUF
  /\ nrtx \in 0 .. NrtxWidth - 1
  /\ misplaced \in BOOLEAN
  /\ rtime \in BOOLEAN /\ rtseq \in SeqNo \cup {NoRtt}
  /\ flags \subseteq {"INFR", "NAGLEMEMERR", "FIN"}
  /\ persist \in BOOLEAN
  /\ pc \in {"idle", "callback", "output", "sending"}
  /\ written \in 0 .. MaxWritten
  /\ reported \in Nat /\ wire_end \in Nat

\* The numbers of the PCB as positions of the stream.
Positions ==
  /\ Offset(lastack) <= Offset(snd_nxt) /\ Offset(snd_nxt) <= wire_end
  /\ wire_end <= written + FinLen
  /\ written <= Offset(snd_lbb) /\ Offset(snd_lbb) <= written + FinLen

Queues ==
  /\ Alive => Holds(Queued, Offset(lastack), written, FinLen, Offset(snd_nxt), misplaced)
  /\ Alive /\ ~misplaced => Ascending(unacked)
  /\ ~Alive => unsent = <<>> /\ unacked = <<>> /\ pc = "idle"

FinSent == Alive => ("FIN" \in flags <=> state \notin {"ESTABLISHED", "CLOSE_WAIT"})

IInv == Types /\ Positions /\ Queues /\ FinSent /\ OversizeFits /\ SndBufConserved

-----------------------------------------------------------------------------
(* Sequence numbers as positions. *)

\* The comparisons of tcp_impl.h order numbers of the stream like positions.
LEMMA PositionOrder ==
  ASSUME NEW a \in SeqNo, NEW b \in SeqNo, Offset(a) < Half, Offset(b) < Half
  PROVE  /\ Offset(a) \in Nat /\ Offset(b) \in Nat
         /\ TCP_SEQ_LT(a, b) <=> Offset(a) < Offset(b)
         /\ TCP_SEQ_LEQ(a, b) <=> Offset(a) <= Offset(b)
         /\ TCP_SEQ_GEQ(a, b) <=> Offset(a) >= Offset(b)
         /\ a = b <=> Offset(a) = Offset(b)
         /\ Offset(a) >= Offset(b) => SeqSub(a, b) = Offset(a) - Offset(b)
BY SendAssumption, HalfAssumption
   DEF Offset, SeqSub, SeqNo, SeqMod, TCP_SEQ_LT, TCP_SEQ_LEQ, TCP_SEQ_GEQ

\* u32_t addition moves a position.
LEMMA PositionAdd ==
  ASSUME NEW a \in SeqNo, NEW k \in Nat, Offset(a) + k < Half
  PROVE  /\ Offset(a) \in Nat
         /\ SeqAdd(a, k) \in SeqNo
         /\ Offset(SeqAdd(a, k)) = Offset(a) + k
BY SendAssumption, HalfAssumption DEF Offset, SeqSub, SeqAdd, SeqNo, SeqMod

\* The number at a position.
LEMMA PositionOf ==
  ASSUME NEW p \in Nat, p < Half
  PROVE  SeqAdd(ISS, p) \in SeqNo /\ Offset(SeqAdd(ISS, p)) = p
BY SendAssumption, HalfAssumption DEF Offset, SeqSub, SeqAdd, SeqNo, SeqMod

\* Every number has a position.
LEMMA PositionType ==
  ASSUME NEW a \in SeqNo
  PROVE  Offset(a) \in Nat /\ Offset(a) < SeqMod
BY SendAssumption, HalfAssumption DEF Offset, SeqSub, SeqNo, SeqMod

\* The constants, as the provers like them.
LEMMA SendConstants ==
  /\ TCP_MSS \in Nat /\ TCP_MSS >= 1 /\ TCP_SND_BUF \in Nat
  /\ SND_WND_MAX \in Nat /\ SND_WND_MAX >= 1 /\ MaxWnd \in Nat /\ MaxWnd >= 1
  /\ INITIAL_CWND \in Nat /\ INITIAL_CWND >= 1 /\ INITIAL_CWND <= MaxWnd
  /\ SND_WND_MAX <= MaxWnd /\ NrtxWidth \in Nat /\ NrtxWidth >= 1
  /\ MaxWritten \in Nat /\ MaxWritten + SND_WND_MAX + 2 < Half /\ Half \in Nat
  /\ MssLocal \in Nat /\ MssLocal >= 1 /\ MssLocal <= TCP_MSS
  /\ ISS \in SeqNo
<1>1. /\ TCP_MSS \in Nat /\ TCP_MSS >= 1 /\ SND_WND_MAX \in Nat /\ SND_WND_MAX >= 1
  BY SendAssumption
<1>2. MssLocal \in Nat /\ MssLocal >= 1 /\ MssLocal <= TCP_MSS
  BY <1>1 DEF MssLocal, LWIP_MIN
<1>3. QED
  BY <1>1, <1>2, SendAssumption, HalfAssumption

\* The parts of a segment.
LEMMA SegmentFacts ==
  ASSUME NEW s \in Segment
  PROVE  /\ s.seqno \in SeqNo /\ s.len \in Nat /\ s.fin \in BOOLEAN /\ s.bufs \in Nat
         /\ TCP_TCPLEN(s) \in Nat /\ Start(s) \in Nat /\ End(s) \in Nat
         /\ End(s) = Start(s) + TCP_TCPLEN(s)
         /\ TCP_TCPLEN(s) = (IF s.fin THEN s.len + 1 ELSE s.len)
<1>1. s.seqno \in SeqNo /\ s.len \in Nat /\ s.fin \in BOOLEAN /\ s.bufs \in Nat
  BY DEF Segment
<1>2. TCP_TCPLEN(s) = (IF s.fin THEN s.len + 1 ELSE s.len)
  BY <1>1 DEF TCP_TCPLEN
<1>3. Start(s) \in Nat
  BY <1>1, PositionType DEF Start
<1>4. QED
  BY <1>1, <1>2, <1>3 DEF End

\* The parts of a segment that is on a queue.
LEMMA PieceFacts ==
  ASSUME NEW s, NEW w \in Nat, NEW f \in {0, 1}, Piece(s, w, f), w <= MaxWritten
  PROVE  /\ s \in Segment /\ s.seqno \in SeqNo /\ s.len \in Nat /\ s.fin \in BOOLEAN
         /\ s.bufs \in Nat
         /\ Start(s) \in Nat /\ End(s) \in Nat /\ Start(s) < End(s) /\ End(s) <= w + f
         /\ Start(s) < Half /\ End(s) < Half /\ Start(s) + s.len <= w
         /\ s.len <= MssLocal
         /\ End(s) = (IF s.fin THEN Start(s) + s.len + 1 ELSE Start(s) + s.len)
         /\ SegEnd(s) \in SeqNo /\ Offset(SegEnd(s)) = End(s)
         /\ End(s) > w => s.fin
         /\ s.fin => f = 1
<1>1. s \in Segment
  BY DEF Piece
<1>2. /\ s.seqno \in SeqNo /\ s.len \in Nat /\ s.fin \in BOOLEAN /\ s.bufs \in Nat
      /\ TCP_TCPLEN(s) \in Nat /\ Start(s) \in Nat /\ End(s) \in Nat
      /\ End(s) = Start(s) + TCP_TCPLEN(s)
      /\ TCP_TCPLEN(s) = (IF s.fin THEN s.len + 1 ELSE s.len)
  BY <1>1, SegmentFacts
<1>3. /\ Start(s) < End(s) /\ End(s) <= w + f /\ s.len <= MssLocal
      /\ End(s) > w => s.fin
      /\ Start(s) + s.len <= w
      /\ s.fin => f = 1
      /\ End(s) = (IF s.fin THEN Start(s) + s.len + 1 ELSE Start(s) + s.len)
  BY <1>2, SendConstants DEF Piece
<1>4. Start(s) < Half /\ End(s) < Half
  BY <1>2, <1>3, SendConstants
<1>5. Offset(s.seqno) + TCP_TCPLEN(s) < Half
  BY <1>2, <1>4 DEF Start
<1>6. SegEnd(s) \in SeqNo /\ Offset(SegEnd(s)) = End(s)
  BY <1>2, <1>5, PositionAdd DEF SegEnd, End, Start
<1>7. QED
  BY <1>1, <1>2, <1>3, <1>4, <1>6

\* A segment of a stream without FIN is one of every longer stream.
LEMMA PieceGrows ==
  ASSUME NEW s, NEW w \in Nat, Piece(s, w, 0), w <= MaxWritten,
         NEW w2 \in Nat, w <= w2, NEW f
  PROVE  Piece(s, w2, f)
<1>1. s \in Segment /\ s.fin = FALSE /\ s.len \in Nat /\ Start(s) \in Nat
      /\ Start(s) + s.len <= w
  BY PieceFacts
<1>2. QED
  BY <1>1 DEF Piece

-----------------------------------------------------------------------------
(* Queues as sets of segments. *)

\* Dropping the first k elements.
LEMMA DropFirstFacts ==
  ASSUME NEW S, NEW q \in Seq(S), NEW k \in 0 .. Len(q)
  PROVE  /\ DropFirst(q, k) \in Seq(S)
         /\ Len(DropFirst(q, k)) = Len(q) - k
         /\ \A j \in 1 .. Len(q) - k : DropFirst(q, k)[j] = q[j + k]
         /\ DropFirst(q, k) = <<>> <=> k = Len(q)
<1>1. Len(q) \in Nat
  OBVIOUS
<1>2. \A j \in 1 .. Len(q) - k : DropFirst(q, k)[j] = q[j + k]
  BY <1>1 DEF DropFirst
<1>3. DropFirst(q, k) \in Seq(S) /\ Len(DropFirst(q, k)) = Len(q) - k
  BY <1>1 DEF DropFirst
<1>4. DropFirst(q, k) = <<>> <=> k = Len(q)
  BY <1>1, <1>3, EmptySeq
<1>5. QED
  BY <1>2, <1>3, <1>4

LEMMA JoinFacts ==
  ASSUME NEW c, c \in Seq(Segment), NEW d, d \in Seq(Segment), NEW g, g = c \o d
  PROVE  /\ g \in Seq(Segment) /\ Len(g) = Len(c) + Len(d)
         /\ \A i \in 1 .. Len(c) : g[i] = c[i]
         /\ \A i \in 1 .. Len(d) : g[i + Len(c)] = d[i]
<1>1. Len(c) \in Nat /\ Len(d) \in Nat
  OBVIOUS
<1>2. QED
  BY <1>1

\* The segments of two queues are those of both together.
LEMMA PiecesJoin ==
  ASSUME NEW c \in Seq(Segment), NEW d \in Seq(Segment), NEW w, NEW f
  PROVE  Pieces(c \o d, w, f) <=> Pieces(c, w, f) /\ Pieces(d, w, f)
<1>1. PICK g : g = c \o d
  OBVIOUS
<1>2. /\ g \in Seq(Segment) /\ Len(g) = Len(c) + Len(d)
      /\ \A i \in 1 .. Len(c) : g[i] = c[i]
      /\ \A i \in 1 .. Len(d) : g[i + Len(c)] = d[i]
  BY <1>1, JoinFacts
<1>3. Len(c) \in Nat /\ Len(d) \in Nat
  OBVIOUS
<1>4. ASSUME Pieces(g, w, f) PROVE Pieces(c, w, f) /\ Pieces(d, w, f)
  <2>1. ASSUME NEW i \in 1 .. Len(c) PROVE Piece(c[i], w, f)
    <3>1. i \in 1 .. Len(g) /\ g[i] = c[i]
      BY <1>2, <1>3
    <3>2. QED
      BY <3>1, <1>4 DEF Pieces
  <2>2. ASSUME NEW i \in 1 .. Len(d) PROVE Piece(d[i], w, f)
    <3>1. i + Len(c) \in 1 .. Len(g) /\ g[i + Len(c)] = d[i]
      BY <1>2, <1>3
    <3>2. QED
      BY <3>1, <1>4 DEF Pieces
  <2>3. QED
    BY <2>1, <2>2 DEF Pieces
<1>5. ASSUME Pieces(c, w, f), Pieces(d, w, f) PROVE Pieces(g, w, f)
  <2>1. ASSUME NEW i \in 1 .. Len(g) PROVE Piece(g[i], w, f)
    <3>1. CASE i <= Len(c)
      <4>1. i \in 1 .. Len(c) /\ g[i] = c[i]
        BY <3>1, <1>2, <1>3
      <4>2. QED
        BY <4>1, <1>5 DEF Pieces
    <3>2. CASE i > Len(c)
      <4>1. i - Len(c) \in 1 .. Len(d)
        BY <3>2, <1>2, <1>3
      <4>2. g[(i - Len(c)) + Len(c)] = d[i - Len(c)] /\ (i - Len(c)) + Len(c) = i
        BY <4>1, <1>2, <1>3
      <4>3. QED
        BY <4>1, <4>2, <1>5 DEF Pieces
    <3>3. QED
      BY <3>1, <3>2, <1>3
  <2>2. QED
    BY <2>1, <1>2 DEF Pieces
<1>6. QED
  BY <1>1, <1>4, <1>5

\* The segments of r are segments of q, each at most once; those that are not
\* in r end at position lo or before.
IndexMap(q, r, lo, m) ==
  /\ m \in [1 .. Len(r) -> 1 .. Len(q)]
  /\ \A i \in 1 .. Len(r) : r[i] = q[m[i]]
  /\ \A i, j \in 1 .. Len(r) : m[i] = m[j] => i = j
  /\ \A j \in 1 .. Len(q) : End(q[j]) <= lo \/ \E i \in 1 .. Len(r) : m[i] = j

Moves(q, r, lo) == r \in Seq(Segment) /\ \E m : IndexMap(q, r, lo, m)

LEMMA MovesNone ==
  ASSUME NEW q \in Seq(Segment), NEW lo
  PROVE  Moves(q, q, lo)
<1>1. PICK m : m = [i \in 1 .. Len(q) |-> i]
  OBVIOUS
<1>2. IndexMap(q, q, lo, m)
  BY <1>1 DEF IndexMap
<1>3. QED
  BY <1>2 DEF Moves

LEMMA MovesTwice ==
  ASSUME NEW q, NEW r, NEW s, NEW lo, Moves(q, r, lo), Moves(r, s, lo)
  PROVE  Moves(q, s, lo)
<1>1. PICK m : IndexMap(q, r, lo, m)
  BY DEF Moves
<1>2. PICK n : IndexMap(r, s, lo, n)
  BY DEF Moves
<1>3. PICK p : p = [i \in 1 .. Len(s) |-> m[n[i]]]
  OBVIOUS
<1>4. p \in [1 .. Len(s) -> 1 .. Len(q)]
  BY <1>1, <1>2, <1>3 DEF IndexMap
<1>5. \A i \in 1 .. Len(s) : s[i] = q[p[i]]
  BY <1>1, <1>2, <1>3 DEF IndexMap
<1>6. \A i, j \in 1 .. Len(s) : p[i] = p[j] => i = j
  <2>1. SUFFICES ASSUME NEW i \in 1 .. Len(s), NEW j \in 1 .. Len(s), p[i] = p[j]
                 PROVE  i = j
    OBVIOUS
  <2>2. n[i] \in 1 .. Len(r) /\ n[j] \in 1 .. Len(r) /\ m[n[i]] = m[n[j]]
    BY <2>1, <1>2, <1>3 DEF IndexMap
  <2>3. n[i] = n[j]
    BY <2>2, <1>1 DEF IndexMap
  <2>4. QED
    BY <2>3, <1>2 DEF IndexMap
<1>7. ASSUME NEW j \in 1 .. Len(q), ~(End(q[j]) <= lo)
      PROVE  \E i \in 1 .. Len(s) : p[i] = j
  <2>1. PICK k \in 1 .. Len(r) : m[k] = j
    BY <1>1, <1>7 DEF IndexMap
  <2>2. r[k] = q[j]
    BY <2>1, <1>1 DEF IndexMap
  <2>3. PICK i \in 1 .. Len(s) : n[i] = k
    BY <2>2, <1>2, <1>7 DEF IndexMap
  <2>4. QED
    BY <2>1, <2>3, <1>3
<1>8. IndexMap(q, s, lo, p)
  BY <1>4, <1>5, <1>6, <1>7 DEF IndexMap
<1>9. QED
  BY <1>8 DEF Moves

\* What a queue holds, it still holds after its segments have moved.
LEMMA MovesHold ==
  ASSUME NEW q, NEW r, NEW lo \in Nat, NEW lo2 \in Nat, lo <= lo2, Moves(q, r, lo2),
         NEW w \in Nat, w <= MaxWritten, NEW f \in {0, 1}, NEW n, NEW m,
         Holds(q, lo, w, f, n, m)
  PROVE  Holds(r, lo2, w, f, n, m)
<1>1. r \in Seq(Segment)
  BY DEF Moves
<1>2. PICK x : IndexMap(q, r, lo2, x)
  BY DEF Moves
<1>3. \A i \in 1 .. Len(r) : x[i] \in 1 .. Len(q) /\ r[i] = q[x[i]]
  BY <1>2 DEF IndexMap
<1>4. Pieces(r, w, f)
  BY <1>1, <1>3 DEF Holds, Pieces
<1>5. \A j \in 1 .. Len(q) : End(q[j]) \in Nat /\ Start(q[j]) \in Nat
  <2>1. SUFFICES ASSUME NEW j \in 1 .. Len(q)
                 PROVE  End(q[j]) \in Nat /\ Start(q[j]) \in Nat
    OBVIOUS
  <2>2. Piece(q[j], w, f)
    BY DEF Holds, Pieces
  <2>3. QED
    BY <2>2, PieceFacts
<1>6. ASSUME NEW j \in 1 .. Len(q), lo2 < End(q[j])
      PROVE  \E i \in 1 .. Len(r) : r[i] = q[j]
  <2>1. ~(End(q[j]) <= lo2)
    BY <1>5, <1>6
  <2>2. PICK i \in 1 .. Len(r) : x[i] = j
    BY <2>1, <1>2 DEF IndexMap
  <2>3. QED
    BY <2>2, <1>3
<1>7. ASSUME lo2 <= w, w < n PROVE FinHeld(r, w)
  <2>1. FinHeld(q, w)
    <3>1. lo <= w
      BY <1>7
    <3>2. QED
      BY <3>1, <1>7 DEF Holds
  <2>2. PICK j \in 1 .. Len(q) : q[j].fin /\ End(q[j]) = w + 1
    BY <2>1 DEF FinHeld
  <2>3. lo2 < End(q[j])
    BY <2>2, <1>7
  <2>4. QED
    BY <2>2, <2>3, <1>6 DEF FinHeld
<1>8. ASSUME Tiles(q, lo, w, f) PROVE Tiles(r, lo2, w, f)
  <2>1. Apart(r)
    <3>1. SUFFICES ASSUME NEW i \in 1 .. Len(r), NEW j \in 1 .. Len(r), i # j
                   PROVE  End(r[i]) <= Start(r[j]) \/ End(r[j]) <= Start(r[i])
      BY DEF Apart
    <3>2. x[i] # x[j]
      BY <3>1, <1>2 DEF IndexMap
    <3>3. QED
      BY <3>2, <1>3, <1>8 DEF Tiles, Apart
  <2>2. \A i \in 1 .. Len(r) : r[i].fin => End(r[i]) = w + 1
    BY <1>3, <1>8 DEF Tiles
  <2>3. ASSUME NEW p \in lo2 + 1 .. w + f
        PROVE  \E i \in 1 .. Len(r) : Start(r[i]) < p /\ p <= End(r[i])
    <3>1. p \in lo + 1 .. w + f
      OBVIOUS
    <3>2. PICK j \in 1 .. Len(q) : Start(q[j]) < p /\ p <= End(q[j])
      BY <3>1, <1>8 DEF Tiles
    <3>3. lo2 < End(q[j])
      BY <3>2, <1>5
    <3>4. QED
      BY <3>2, <3>3, <1>6
  <2>4. QED
    BY <2>1, <2>2, <2>3 DEF Tiles
<1>9. QED
  BY <1>4, <1>7, <1>8 DEF Holds

LEMMA DropNone ==
  ASSUME NEW q \in Seq(Segment)
  PROVE  DropFirst(q, 0) = q
<1>1. Len(q) \in Nat /\ 0 \in 0 .. Len(q)
  OBVIOUS
<1>2. /\ DropFirst(q, 0) \in Seq(Segment) /\ Len(DropFirst(q, 0)) = Len(q) - 0
      /\ \A j \in 1 .. Len(q) - 0 : DropFirst(q, 0)[j] = q[j + 0]
  BY <1>1, DropFirstFacts
<1>3. Len(DropFirst(q, 0)) = Len(q) /\ \A j \in 1 .. Len(q) : DropFirst(q, 0)[j] = q[j]
  BY <1>2, <1>1
<1>4. QED
  BY <1>2, <1>3, SeqEqual

\* The head of one queue moved to the end of another.
LEMMA MoveHead ==
  ASSUME NEW a \in Seq(Segment), NEW b \in Seq(Segment), b # <<>>
  PROVE  /\ Append(a, b[1]) \o Tail(b) = a \o b
         /\ b[1] \in Segment /\ Tail(b) \in Seq(Segment) /\ Len(Tail(b)) = Len(b) - 1
         /\ \A i \in 1 .. Len(b) - 1 : Tail(b)[i] = b[i + 1]
         /\ Len(b) \in Nat /\ Len(b) >= 1
         /\ Append(a, b[1]) \in Seq(Segment)
<1>1. Len(b) \in Nat /\ Len(b) >= 1 /\ Len(a) \in Nat
  BY EmptySeq
<1>2. /\ b[1] \in Segment /\ Tail(b) \in Seq(Segment) /\ Len(Tail(b)) = Len(b) - 1
      /\ \A i \in 1 .. Len(b) - 1 : Tail(b)[i] = b[i + 1]
  BY <1>1
<1>3. Append(a, b[1]) \in Seq(Segment) /\ Len(Append(a, b[1])) = Len(a) + 1
      /\ (\A i \in 1 .. Len(a) : Append(a, b[1])[i] = a[i])
      /\ Append(a, b[1])[Len(a) + 1] = b[1]
  BY <1>1, <1>2
<1>4. PICK c, d : c = Append(a, b[1]) \o Tail(b) /\ d = a \o b
  OBVIOUS
<1>5. c \in Seq(Segment) /\ d \in Seq(Segment) /\ Len(c) = Len(d)
      /\ Len(c) = Len(a) + Len(b)
  BY <1>1, <1>2, <1>3, <1>4
<1>6. \A i \in 1 .. Len(c) : c[i] = d[i]
  BY <1>1, <1>2, <1>3, <1>4, <1>5
<1>7. c = d
  BY <1>5, <1>6, SeqEqual
<1>8. QED
  BY <1>1, <1>2, <1>3, <1>4, <1>7

\* Dropping heads that are acknowledged.
LEMMA DropMoves ==
  ASSUME NEW u \in Seq(Segment), NEW v \in Seq(Segment),
         NEW k \in 0 .. Len(u), NEW m \in 0 .. Len(v), NEW lo,
         \A i \in 1 .. k : End(u[i]) <= lo,
         \A i \in 1 .. m : End(v[i]) <= lo
  PROVE  Moves(u \o v, DropFirst(u, k) \o DropFirst(v, m), lo)
<1>1. PICK x \in Nat, y \in Nat : x = Len(u) /\ y = Len(v)
  OBVIOUS
<1>2. PICK a, b : a = DropFirst(u, k) /\ b = DropFirst(v, m)
  OBVIOUS
<1>3. /\ a \in Seq(Segment) /\ Len(a) = x - k /\ \A j \in 1 .. x - k : a[j] = u[j + k]
      /\ b \in Seq(Segment) /\ Len(b) = y - m /\ \A j \in 1 .. y - m : b[j] = v[j + m]
  BY <1>1, <1>2, DropFirstFacts
<1>4. PICK q, r : q = u \o v /\ r = a \o b
  OBVIOUS
<1>5. /\ q \in Seq(Segment) /\ Len(q) = x + y
      /\ \A i \in 1 .. x : q[i] = u[i]
      /\ \A i \in 1 .. y : q[i + x] = v[i]
  BY <1>1, <1>4, JoinFacts
<1>6. /\ r \in Seq(Segment) /\ Len(r) = (x - k) + (y - m)
      /\ \A i \in 1 .. x - k : r[i] = a[i]
      /\ \A i \in 1 .. y - m : r[i + (x - k)] = b[i]
  <2>1. a \in Seq(Segment) /\ b \in Seq(Segment)
    BY <1>3
  <2>2. /\ r \in Seq(Segment) /\ Len(r) = Len(a) + Len(b)
        /\ \A i \in 1 .. Len(a) : r[i] = a[i]
        /\ \A i \in 1 .. Len(b) : r[i + Len(a)] = b[i]
    BY <2>1, <1>4, JoinFacts
  <2>3. QED
    BY <2>2, <1>3
<1>7. PICK f : f = [i \in 1 .. Len(r) |-> IF i <= x - k THEN i + k ELSE i + k + m]
  OBVIOUS
<1>8. f \in [1 .. Len(r) -> 1 .. Len(q)]
  <2>1. k \in 0 .. x /\ m \in 0 .. y
    BY <1>1
  <2>2. \A i \in 1 .. (x - k) + (y - m) :
          (IF i <= x - k THEN i + k ELSE i + k + m) \in 1 .. x + y
    BY <2>1
  <2>3. \A i \in 1 .. Len(r) : (IF i <= x - k THEN i + k ELSE i + k + m) \in 1 .. Len(q)
    BY <2>2, <1>5, <1>6
  <2>4. QED
    BY <2>3, <1>7
<1>9. ASSUME NEW i \in 1 .. Len(r) PROVE r[i] = q[f[i]]
  <2>1. CASE i <= x - k
    <3>1. i \in 1 .. x - k /\ i + k \in 1 .. x /\ f[i] = i + k
      BY <2>1, <1>1, <1>7
    <3>2. QED
      BY <3>1, <1>3, <1>5, <1>6
  <2>2. CASE ~(i <= x - k)
    <3>1. PICK j : j = i - (x - k)
      OBVIOUS
    <3>2. j \in 1 .. y - m /\ j + m \in 1 .. y /\ f[i] = (j + m) + x /\ i = j + (x - k)
      BY <2>2, <3>1, <1>1, <1>6, <1>7
    <3>3. r[i] = b[j] /\ b[j] = v[j + m] /\ q[(j + m) + x] = v[j + m]
      BY <3>2, <1>3, <1>5, <1>6
    <3>4. QED
      BY <3>2, <3>3
  <2>3. QED
    BY <2>1, <2>2
<1>10. \A i, j \in 1 .. Len(r) : f[i] = f[j] => i = j
  <2>1. SUFFICES ASSUME NEW i \in 1 .. Len(r), NEW j \in 1 .. Len(r), f[i] = f[j]
                 PROVE  i = j
    OBVIOUS
  <2>2. k \in 0 .. x /\ m \in 0 .. y /\ i \in Nat /\ j \in Nat
    BY <1>1
  <2>3. (IF i <= x - k THEN i + k ELSE i + k + m) = (IF j <= x - k THEN j + k ELSE j + k + m)
    BY <2>1, <1>7
  <2>4. QED
    BY <2>2, <2>3
<1>11. ASSUME NEW j \in 1 .. Len(q)
       PROVE  End(q[j]) <= lo \/ \E i \in 1 .. Len(r) : f[i] = j
  <2>1. CASE j <= k
    BY <2>1, <1>1, <1>5
  <2>2. CASE k < j /\ j <= x
    <3>1. j - k \in 1 .. Len(r) /\ f[j - k] = j
      BY <2>2, <1>1, <1>6, <1>7
    <3>2. QED
      BY <3>1
  <2>3. CASE x < j /\ j <= x + m
    <3>1. PICK i : i = j - x
      OBVIOUS
    <3>2. i \in 1 .. m /\ i \in 1 .. y /\ j = i + x
      BY <2>3, <3>1, <1>1, <1>5
    <3>3. q[i + x] = v[i]
      BY <3>2, <1>5
    <3>4. QED
      BY <3>2, <3>3
  <2>4. CASE x + m < j
    <3>1. j - k - m \in 1 .. Len(r) /\ f[j - k - m] = j
      BY <2>4, <1>1, <1>5, <1>6, <1>7
    <3>2. QED
      BY <3>1
  <2>5. QED
    BY <2>1, <2>2, <2>3, <2>4, <1>1
<1>12. IndexMap(q, r, lo, f)
  BY <1>8, <1>9, <1>10, <1>11 DEF IndexMap
<1>13. Moves(q, r, lo)
  BY <1>6, <1>12 DEF Moves
<1>14. QED
  BY <1>2, <1>4, <1>13

\* r is q with s at place k + 1.
Inserted(q, s, k, r) ==
  /\ k \in 0 .. Len(q)
  /\ r \in Seq(Segment) /\ Len(r) = Len(q) + 1
  /\ \A i \in 1 .. k : r[i] = q[i]
  /\ r[k + 1] = s
  /\ \A i \in k + 2 .. Len(q) + 1 : r[i] = q[i - 1]

LEMMA AppendInserts ==
  ASSUME NEW q \in Seq(Segment), NEW s \in Segment
  PROVE  Inserted(q, s, Len(q), Append(q, s))
<1>1. PICK r : r = Append(q, s)
  OBVIOUS
<1>2. Len(q) \in Nat /\ r \in Seq(Segment) /\ Len(r) = Len(q) + 1
  BY <1>1
<1>3. (\A i \in 1 .. Len(q) : r[i] = q[i]) /\ r[Len(q) + 1] = s
  BY <1>1
<1>4. Inserted(q, s, Len(q), r)
  BY <1>2, <1>3 DEF Inserted
<1>5. QED
  BY <1>1, <1>4

\* A set of naturals that is not empty has a least element.
LEMMA LeastPlace ==
  ASSUME NEW T \in SUBSET Nat, T # {}
  PROVE  \E x \in T : \A y \in T : x <= y
<1>1. IsWellFoundedOn(OpToRel(<, Nat), Nat)
  BY NatLessThanWellFounded, Zenon
<1>2. PICK x \in T : \A y \in T : ~ (<<y, x>> \in OpToRel(<, Nat))
  BY <1>1, WFMin, Zenon
<1>3. \A y \in T : ~(y < x)
  BY <1>2 DEF OpToRel
<1>4. QED
  BY <1>3

\* tcp_rexmit_fast and tcp_output find the place of a segment by its seqno.
PlaceOf(q, s, i) ==
  /\ \A j \in 1 .. i : TCP_SEQ_LT(q[j].seqno, s.seqno)
  /\ i < Len(q) => ~TCP_SEQ_LT(q[i + 1].seqno, s.seqno)

LEMMA InsertPlace ==
  ASSUME NEW q \in Seq(Segment), NEW s \in Segment
  PROVE  \E k \in 0 .. Len(q) : PlaceOf(q, s, k) /\ Inserted(q, s, k, InsertSorted(q, s))
<1>1. PICK x \in Nat : x = Len(q)
  OBVIOUS
<1>2. PICK T : T = {i \in 0 .. x : i < x => ~TCP_SEQ_LT(q[i + 1].seqno, s.seqno)}
  OBVIOUS
<1>3. T \in SUBSET Nat /\ x \in T
  BY <1>2
<1>4. PICK i \in T : \A y \in T : i <= y
  BY <1>3, LeastPlace
<1>5. PlaceOf(q, s, i) /\ i \in 0 .. Len(q)
  <2>1. i \in 0 .. x /\ (i < x => ~TCP_SEQ_LT(q[i + 1].seqno, s.seqno))
    BY <1>2
  <2>2. ASSUME NEW j \in 1 .. i PROVE TCP_SEQ_LT(q[j].seqno, s.seqno)
    <3>1. j - 1 \in 0 .. x /\ j - 1 < x /\ ~(i <= j - 1) /\ (j - 1) + 1 = j
      BY <2>1
    <3>2. j - 1 \notin T
      BY <3>1, <1>4
    <3>3. QED
      BY <3>1, <3>2, <1>2
  <2>3. QED
    BY <2>1, <2>2, <1>1 DEF PlaceOf
<1>6. PICK k : k = CHOOSE j \in 0 .. Len(q) : PlaceOf(q, s, j)
  OBVIOUS
<1>7. k \in 0 .. Len(q) /\ PlaceOf(q, s, k)
  BY <1>5, <1>6
<1>8. PICK a, b, r : a = SubSeq(q, 1, k) /\ b = DropFirst(q, k) /\ r = InsertSorted(q, s)
  OBVIOUS
<1>9. r = a \o <<s>> \o b
  <2>1. r = SubSeq(q, 1, k) \o <<s>> \o DropFirst(q, k)
    BY <1>6, <1>8 DEF InsertSorted, PlaceOf
  <2>2. QED
    BY <2>1, <1>8
<1>10. a \in Seq(Segment) /\ Len(a) = k /\ \A j \in 1 .. k : a[j] = q[j]
  BY <1>1, <1>7, <1>8
<1>11. b \in Seq(Segment) /\ Len(b) = x - k /\ \A j \in 1 .. x - k : b[j] = q[j + k]
  BY <1>1, <1>7, <1>8, DropFirstFacts
<1>12. PICK c : c = a \o <<s>>
  OBVIOUS
<1>13. c \in Seq(Segment) /\ Len(c) = k + 1 /\ c[k + 1] = s /\ \A j \in 1 .. k : c[j] = q[j]
  BY <1>7, <1>10, <1>12
<1>14. r = c \o b
  BY <1>9, <1>12
<1>15. /\ r \in Seq(Segment) /\ Len(r) = x + 1
       /\ \A j \in 1 .. k + 1 : r[j] = c[j]
       /\ \A j \in 1 .. x - k : r[j + (k + 1)] = b[j]
  <2>1. c \in Seq(Segment) /\ b \in Seq(Segment)
    BY <1>11, <1>13
  <2>2. /\ r \in Seq(Segment) /\ Len(r) = Len(c) + Len(b)
        /\ \A j \in 1 .. Len(c) : r[j] = c[j]
        /\ \A j \in 1 .. Len(b) : r[j + Len(c)] = b[j]
    BY <2>1, <1>14, JoinFacts
  <2>3. QED
    BY <2>2, <1>1, <1>7, <1>11, <1>13
<1>16. ASSUME NEW j \in k + 2 .. x + 1 PROVE r[j] = q[j - 1]
  <2>1. PICK m : m = j - (k + 1)
    OBVIOUS
  <2>2. m \in 1 .. x - k /\ j = m + (k + 1) /\ j - 1 = m + k
    BY <2>1, <1>1, <1>7
  <2>3. r[m + (k + 1)] = b[m] /\ b[m] = q[m + k]
    BY <2>2, <1>11, <1>15
  <2>4. QED
    BY <2>2, <2>3
<1>17. \A j \in 1 .. k : r[j] = q[j]
  BY <1>7, <1>13, <1>15
<1>18. r[k + 1] = s
  BY <1>7, <1>13, <1>15
<1>19. Inserted(q, s, k, r)
  BY <1>1, <1>7, <1>15, <1>16, <1>17, <1>18 DEF Inserted
<1>20. QED
  BY <1>7, <1>8, <1>19

\* tcp_output moves the head of unsent somewhere into unacked.
LEMMA SentMoves ==
  ASSUME NEW u \in Seq(Segment), NEW v \in Seq(Segment), v # <<>>, NEW k, NEW c,
         Inserted(u, v[1], k, c), NEW lo
  PROVE  Moves(u \o v, c \o Tail(v), lo)
<1>1. PICK x \in Nat, y \in Nat : x = Len(u) /\ y = Len(v) /\ y >= 1
  BY EmptySeq
<1>2. PICK t : t = Tail(v)
  OBVIOUS
<1>3. t \in Seq(Segment) /\ Len(t) = y - 1 /\ \A j \in 1 .. y - 1 : t[j] = v[j + 1]
  BY <1>1, <1>2, MoveHead
<1>4. /\ k \in 0 .. x /\ c \in Seq(Segment) /\ Len(c) = x + 1 /\ c[k + 1] = v[1]
      /\ \A i \in 1 .. k : c[i] = u[i]
      /\ \A i \in k + 2 .. x + 1 : c[i] = u[i - 1]
  BY <1>1 DEF Inserted
<1>5. PICK q, r : q = u \o v /\ r = c \o t
  OBVIOUS
<1>6. /\ Len(q) = x + y
      /\ \A i \in 1 .. x : q[i] = u[i]
      /\ \A i \in 1 .. y : q[i + x] = v[i]
  BY <1>1, <1>5, JoinFacts
<1>7. /\ r \in Seq(Segment) /\ Len(r) = x + y
      /\ \A i \in 1 .. x + 1 : r[i] = c[i]
      /\ \A i \in 1 .. y - 1 : r[i + (x + 1)] = t[i]
  <2>1. c \in Seq(Segment) /\ t \in Seq(Segment)
    BY <1>3, <1>4
  <2>2. /\ r \in Seq(Segment) /\ Len(r) = Len(c) + Len(t)
        /\ \A i \in 1 .. Len(c) : r[i] = c[i]
        /\ \A i \in 1 .. Len(t) : r[i + Len(c)] = t[i]
    BY <2>1, <1>5, JoinFacts
  <2>3. QED
    BY <2>2, <1>1, <1>3, <1>4
<1>8. PICK f : f = [i \in 1 .. x + y |-> IF i = k + 1 THEN x + 1
                                         ELSE IF i > k + 1 /\ i <= x + 1 THEN i - 1 ELSE i]
  OBVIOUS
<1>9. f \in [1 .. x + y -> 1 .. x + y]
  <2>1. \A i \in 1 .. x + y : (IF i = k + 1 THEN x + 1
                               ELSE IF i > k + 1 /\ i <= x + 1 THEN i - 1 ELSE i) \in 1 .. x + y
    BY <1>1, <1>4
  <2>2. QED
    BY <2>1, <1>8
<1>10. ASSUME NEW i \in 1 .. x + y PROVE r[i] = q[f[i]]
  <2>1. CASE i <= k
    <3>1. i \in 1 .. x /\ f[i] = i /\ i \in 1 .. k /\ i \in 1 .. x + 1
      BY <2>1, <1>4, <1>8
    <3>2. QED
      BY <3>1, <1>4, <1>6, <1>7
  <2>2. CASE i = k + 1
    <3>1. f[i] = 1 + x /\ i \in 1 .. x + 1 /\ 1 \in 1 .. y
      BY <2>2, <1>1, <1>4, <1>8
    <3>2. r[i] = v[1] /\ q[1 + x] = v[1]
      BY <2>2, <3>1, <1>4, <1>6, <1>7
    <3>3. QED
      BY <3>1, <3>2
  <2>3. CASE i > k + 1 /\ i <= x + 1
    <3>1. f[i] = i - 1 /\ i \in 1 .. x + 1 /\ i \in k + 2 .. x + 1 /\ i - 1 \in 1 .. x
      BY <2>3, <1>1, <1>4, <1>8
    <3>2. QED
      BY <3>1, <1>4, <1>6, <1>7
  <2>4. CASE i > x + 1
    <3>1. PICK j : j = i - (x + 1)
      OBVIOUS
    <3>2. j \in 1 .. y - 1 /\ i = j + (x + 1) /\ j + 1 \in 1 .. y /\ f[i] = (j + 1) + x
      BY <2>4, <3>1, <1>1, <1>4, <1>8
    <3>3. r[j + (x + 1)] = t[j] /\ t[j] = v[j + 1] /\ q[(j + 1) + x] = v[j + 1]
      BY <3>2, <1>3, <1>6, <1>7
    <3>4. QED
      BY <3>2, <3>3
  <2>5. QED
    BY <2>1, <2>2, <2>3, <2>4, <1>1, <1>4
<1>11. \A i, j \in 1 .. x + y : f[i] = f[j] => i = j
  BY <1>1, <1>4, <1>8
<1>12. ASSUME NEW j \in 1 .. x + y PROVE \E i \in 1 .. x + y : f[i] = j
  <2>1. CASE j <= k \/ j > x + 1
    BY <2>1, <1>1, <1>4, <1>8
  <2>2. CASE j = x + 1
    <3>1. k + 1 \in 1 .. x + y /\ f[k + 1] = j
      BY <2>2, <1>1, <1>4, <1>8
    <3>2. QED
      BY <3>1
  <2>3. CASE k < j /\ j <= x
    <3>1. j + 1 \in 1 .. x + y /\ f[j + 1] = j
      BY <2>3, <1>1, <1>4, <1>8
    <3>2. QED
      BY <3>1
  <2>4. QED
    BY <2>1, <2>2, <2>3, <1>1, <1>4
<1>13. IndexMap(q, r, lo, f)
  BY <1>6, <1>7, <1>9, <1>10, <1>11, <1>12 DEF IndexMap
<1>14. QED
  BY <1>2, <1>5, <1>7, <1>13 DEF Moves

\* tcp_rexmit_fast moves the head of unacked somewhere into unsent.
LEMMA RequeueMoves ==
  ASSUME NEW u \in Seq(Segment), NEW v \in Seq(Segment), u # <<>>, NEW k, NEW c,
         Inserted(v, u[1], k, c), NEW lo
  PROVE  Moves(u \o v, Tail(u) \o c, lo)
<1>1. PICK x \in Nat, y \in Nat : x = Len(u) /\ y = Len(v) /\ x >= 1
  BY EmptySeq
<1>2. PICK t : t = Tail(u)
  OBVIOUS
<1>3. t \in Seq(Segment) /\ Len(t) = x - 1 /\ \A j \in 1 .. x - 1 : t[j] = u[j + 1]
  BY <1>1, <1>2, MoveHead
<1>4. /\ k \in 0 .. y /\ c \in Seq(Segment) /\ Len(c) = y + 1 /\ c[k + 1] = u[1]
      /\ \A i \in 1 .. k : c[i] = v[i]
      /\ \A i \in k + 2 .. y + 1 : c[i] = v[i - 1]
  BY <1>1 DEF Inserted
<1>5. PICK q, r : q = u \o v /\ r = t \o c
  OBVIOUS
<1>6. /\ Len(q) = x + y
      /\ \A i \in 1 .. x : q[i] = u[i]
      /\ \A i \in 1 .. y : q[i + x] = v[i]
  BY <1>1, <1>5, JoinFacts
<1>7. /\ r \in Seq(Segment) /\ Len(r) = x + y
      /\ \A i \in 1 .. x - 1 : r[i] = t[i]
      /\ \A i \in 1 .. y + 1 : r[i + (x - 1)] = c[i]
  <2>1. c \in Seq(Segment) /\ t \in Seq(Segment)
    BY <1>3, <1>4
  <2>2. /\ r \in Seq(Segment) /\ Len(r) = Len(t) + Len(c)
        /\ \A i \in 1 .. Len(t) : r[i] = t[i]
        /\ \A i \in 1 .. Len(c) : r[i + Len(t)] = c[i]
    BY <2>1, <1>5, JoinFacts
  <2>3. QED
    BY <2>2, <1>1, <1>3, <1>4
<1>8. PICK f : f = [i \in 1 .. x + y |-> IF i < x + k THEN i + 1 ELSE IF i = x + k THEN 1 ELSE i]
  OBVIOUS
<1>9. f \in [1 .. x + y -> 1 .. x + y]
  <2>1. \A i \in 1 .. x + y :
          (IF i < x + k THEN i + 1 ELSE IF i = x + k THEN 1 ELSE i) \in 1 .. x + y
    BY <1>1, <1>4
  <2>2. QED
    BY <2>1, <1>8
<1>10. ASSUME NEW i \in 1 .. x + y PROVE r[i] = q[f[i]]
  <2>1. CASE i <= x - 1
    <3>1. i \in 1 .. x - 1 /\ f[i] = i + 1 /\ i + 1 \in 1 .. x
      BY <2>1, <1>1, <1>4, <1>8
    <3>2. QED
      BY <3>1, <1>3, <1>6, <1>7
  <2>2. CASE i > x - 1
    <3>1. PICK j : j = i - (x - 1)
      OBVIOUS
    <3>2. j \in 1 .. y + 1 /\ i = j + (x - 1)
      BY <2>2, <3>1, <1>1
    <3>3. r[i] = c[j]
      BY <3>2, <1>7
    <3>4. CASE j <= k
      <4>1. f[i] = j + x /\ j \in 1 .. k /\ j \in 1 .. y
        BY <3>2, <3>4, <1>1, <1>4, <1>8
      <4>2. QED
        BY <3>3, <4>1, <1>4, <1>6
    <3>5. CASE j = k + 1
      <4>1. f[i] = 1 /\ 1 \in 1 .. x
        BY <3>2, <3>5, <1>1, <1>4, <1>8
      <4>2. QED
        BY <3>3, <3>5, <4>1, <1>4, <1>6
    <3>6. CASE j > k + 1
      <4>1. f[i] = (j - 1) + x /\ j - 1 \in 1 .. y /\ j \in k + 2 .. y + 1
        BY <3>2, <3>6, <1>1, <1>4, <1>8
      <4>2. q[(j - 1) + x] = v[j - 1] /\ c[j] = v[j - 1]
        BY <4>1, <1>4, <1>6
      <4>3. QED
        BY <3>3, <4>1, <4>2
    <3>7. QED
      BY <3>2, <3>4, <3>5, <3>6, <1>4
  <2>3. QED
    BY <2>1, <2>2, <1>1
<1>11. \A i, j \in 1 .. x + y : f[i] = f[j] => i = j
  BY <1>1, <1>4, <1>8
<1>12. ASSUME NEW j \in 1 .. x + y PROVE \E i \in 1 .. x + y : f[i] = j
  <2>1. CASE j = 1
    <3>1. x + k \in 1 .. x + y /\ f[x + k] = j
      BY <2>1, <1>1, <1>4, <1>8
    <3>2. QED
      BY <3>1
  <2>2. CASE j > 1 /\ j <= x + k
    <3>1. j - 1 \in 1 .. x + y /\ f[j - 1] = j
      BY <2>2, <1>1, <1>4, <1>8
    <3>2. QED
      BY <3>1
  <2>3. CASE j > x + k
    BY <2>3, <1>1, <1>4, <1>8
  <2>4. QED
    BY <2>1, <2>2, <2>3, <1>1, <1>4
<1>13. IndexMap(q, r, lo, f)
  BY <1>6, <1>7, <1>9, <1>10, <1>11, <1>12 DEF IndexMap
<1>14. QED
  BY <1>2, <1>5, <1>7, <1>13 DEF Moves

-----------------------------------------------------------------------------
(* The stream grows at its end. *)

\* The segments of a stream without FIN are segments of every longer one.
LEMMA PiecesGrow ==
  ASSUME NEW q, NEW w \in Nat, Pieces(q, w, 0), NEW w2 \in Nat, w <= w2, w2 <= MaxWritten,
         NEW f
  PROVE  Pieces(q, w2, f)
<1>1. w <= MaxWritten
  BY SendConstants
<1>2. ASSUME NEW i \in 1 .. Len(q) PROVE Piece(q[i], w2, f)
  <2>1. Piece(q[i], w, 0)
    BY DEF Pieces
  <2>2. QED
    BY <2>1, <1>1, PieceGrows
<1>3. QED
  BY <1>2 DEF Pieces

\* The line r behind the stream of w bytes, up to the end of one of w2 bytes and f FINs.
Continues(r, w, w2, f) ==
  /\ w <= w2 /\ w2 <= MaxWritten
  /\ Pieces(r, w2, f)
  /\ \A i \in 1 .. Len(r) : w <= Start(r[i]) /\ (r[i].fin => End(r[i]) = w2 + 1)
  /\ \A i, j \in 1 .. Len(r) : i < j => End(r[i]) <= Start(r[j])
  /\ \A n \in w + 1 .. w2 + f : \E i \in 1 .. Len(r) : Start(r[i]) < n /\ n <= End(r[i])

LEMMA TilesAppend ==
  ASSUME NEW q, NEW lo \in Nat, NEW w \in Nat, Pieces(q, w, 0), Tiles(q, lo, w, 0),
         NEW w2 \in Nat, NEW f \in {0, 1}, NEW r, Continues(r, w, w2, f)
  PROVE  Tiles(q \o r, lo, w2, f)
<1>1. q \in Seq(Segment) /\ r \in Seq(Segment) /\ Len(q) \in Nat /\ Len(r) \in Nat
      /\ w <= MaxWritten /\ w2 <= MaxWritten
  BY SendConstants DEF Pieces, Continues
<1>2. PICK a : a = q \o r
  OBVIOUS
<1>3. /\ a \in Seq(Segment) /\ Len(a) = Len(q) + Len(r)
      /\ \A i \in 1 .. Len(q) : i \in 1 .. Len(a) /\ a[i] = q[i]
      /\ \A i \in 1 .. Len(r) : i + Len(q) \in 1 .. Len(a) /\ a[i + Len(q)] = r[i]
      /\ \A i \in 1 .. Len(a) : i \in 1 .. Len(q) \/ i - Len(q) \in 1 .. Len(r)
  BY <1>1, <1>2
<1>4. ASSUME NEW i \in 1 .. Len(q)
      PROVE  /\ End(q[i]) <= w /\ ~q[i].fin
             /\ End(q[i]) \in Nat /\ Start(q[i]) \in Nat
  <2>1. Piece(q[i], w, 0)
    BY DEF Pieces
  <2>2. QED
    BY <2>1, <1>1, PieceFacts
<1>5. ASSUME NEW i \in 1 .. Len(r)
      PROVE  /\ w <= Start(r[i]) /\ (r[i].fin => End(r[i]) = w2 + 1)
             /\ End(r[i]) \in Nat /\ Start(r[i]) \in Nat
  <2>1. Piece(r[i], w2, f)
    BY DEF Pieces, Continues
  <2>2. QED
    BY <2>1, <1>1, PieceFacts DEF Continues
<1>6. ASSUME NEW i \in 1 .. Len(a)
      PROVE  a[i].fin => End(a[i]) = w2 + 1
  <2>1. CASE i \in 1 .. Len(q)
    BY <2>1, <1>3, <1>4
  <2>2. CASE i - Len(q) \in 1 .. Len(r)
    <3>1. a[(i - Len(q)) + Len(q)] = r[i - Len(q)] /\ (i - Len(q)) + Len(q) = i
      BY <2>2, <1>1, <1>3
    <3>2. QED
      BY <3>1, <2>2, <1>5
  <2>3. QED
    BY <2>1, <2>2, <1>3
<1>7. ASSUME NEW i \in 1 .. Len(a), NEW j \in 1 .. Len(a), i < j
      PROVE  End(a[i]) <= Start(a[j]) \/ End(a[j]) <= Start(a[i])
  <2>1. CASE j \in 1 .. Len(q)
    <3>1. i \in 1 .. Len(q) /\ a[i] = q[i] /\ a[j] = q[j] /\ i # j
      BY <2>1, <1>1, <1>3, <1>7
    <3>2. QED
      BY <3>1, <2>1 DEF Tiles, Apart
  <2>2. CASE j - Len(q) \in 1 .. Len(r)
    <3>1. a[(j - Len(q)) + Len(q)] = r[j - Len(q)] /\ (j - Len(q)) + Len(q) = j
      BY <2>2, <1>1, <1>3
    <3>2. CASE i \in 1 .. Len(q)
      <4>1. End(q[i]) <= w /\ End(q[i]) \in Nat /\ a[i] = q[i]
        BY <3>2, <1>3, <1>4
      <4>2. w <= Start(r[j - Len(q)]) /\ Start(r[j - Len(q)]) \in Nat
        BY <2>2, <1>5
      <4>3. QED
        BY <4>1, <4>2, <3>1
    <3>3. CASE i - Len(q) \in 1 .. Len(r)
      <4>1. a[(i - Len(q)) + Len(q)] = r[i - Len(q)] /\ (i - Len(q)) + Len(q) = i
            /\ i - Len(q) < j - Len(q)
        BY <3>3, <1>1, <1>3, <1>7
      <4>2. End(r[i - Len(q)]) <= Start(r[j - Len(q)])
        BY <4>1, <3>3, <2>2 DEF Continues
      <4>3. QED
        BY <4>1, <4>2, <3>1
    <3>4. QED
      BY <3>2, <3>3, <1>3
  <2>3. QED
    BY <2>1, <2>2, <1>3
<1>8. Apart(a)
  <2>1. SUFFICES ASSUME NEW i \in 1 .. Len(a), NEW j \in 1 .. Len(a), i # j
                 PROVE  End(a[i]) <= Start(a[j]) \/ End(a[j]) <= Start(a[i])
    BY DEF Apart
  <2>2. i < j \/ j < i
    BY <2>1
  <2>3. QED
    BY <2>2, <1>7
<1>9. ASSUME NEW n \in lo + 1 .. w2 + f
      PROVE  \E i \in 1 .. Len(a) : Start(a[i]) < n /\ n <= End(a[i])
  <2>1. CASE n <= w
    <3>1. n \in lo + 1 .. w + 0
      BY <2>1
    <3>2. PICK i \in 1 .. Len(q) : Start(q[i]) < n /\ n <= End(q[i])
      BY <3>1 DEF Tiles
    <3>3. QED
      BY <3>2, <1>3
  <2>2. CASE n > w
    <3>1. n \in w + 1 .. w2 + f
      BY <2>2
    <3>2. PICK i \in 1 .. Len(r) : Start(r[i]) < n /\ n <= End(r[i])
      BY <3>1 DEF Continues
    <3>3. QED
      BY <3>2, <1>3
  <2>3. QED
    BY <2>1, <2>2
<1>10. QED
  BY <1>2, <1>6, <1>8, <1>9 DEF Tiles

\* c is b but for its last element.
SameButLast(b, c) == Len(c) = Len(b) /\ \A i \in 1 .. Len(b) - 1 : c[i] = b[i]

\* The new last segment s takes the place of t.
TakesPlace(t, s, w, w2, f) ==
  /\ w <= w2 /\ w2 <= MaxWritten
  /\ Piece(s, w2, f) /\ Start(s) = Start(t)

\* The last segment takes bytes, or the FIN.
LEMMA PiecesGrowLast ==
  ASSUME NEW q, NEW w \in Nat, Pieces(q, w, 0), q # <<>>,
         NEW r \in Seq(Segment), SameButLast(q, r),
         NEW w2 \in Nat, NEW f \in {0, 1}, TakesPlace(q[Len(q)], r[Len(q)], w, w2, f)
  PROVE  Pieces(r, w2, f)
<1>1. /\ Len(r) = Len(q) /\ \A i \in 1 .. Len(q) - 1 : r[i] = q[i]
      /\ q \in Seq(Segment) /\ Len(q) \in Nat
      /\ w <= w2 /\ w2 <= MaxWritten /\ Piece(r[Len(q)], w2, f)
  BY DEF SameButLast, TakesPlace, Pieces
<1>2. Pieces(q, w2, f)
  BY <1>1, PiecesGrow
<1>3. ASSUME NEW i \in 1 .. Len(r) PROVE Piece(r[i], w2, f)
  <2>1. CASE i = Len(q)
    BY <2>1, <1>1
  <2>2. CASE i # Len(q)
    <3>1. i \in 1 .. Len(q) - 1 /\ i \in 1 .. Len(q)
      BY <2>2, <1>1
    <3>2. QED
      BY <3>1, <1>1, <1>2 DEF Pieces
  <2>3. QED
    BY <2>1, <2>2
<1>4. QED
  BY <1>3 DEF Pieces

\* It grows the stream if it is the end of it.
LEMMA TilesGrowLast ==
  ASSUME NEW q, NEW lo \in Nat, NEW w \in Nat, Pieces(q, w, 0), Tiles(q, lo, w, 0), q # <<>>,
         NEW r \in Seq(Segment), SameButLast(q, r),
         NEW w2 \in Nat, NEW f \in {0, 1}, TakesPlace(q[Len(q)], r[Len(q)], w, w2, f),
         End(q[Len(q)]) = w, End(r[Len(q)]) = w2 + f
  PROVE  Tiles(r, lo, w2, f)
<1>0. /\ Len(r) = Len(q) /\ \A i \in 1 .. Len(q) - 1 : r[i] = q[i]
      /\ w <= w2 /\ w2 <= MaxWritten /\ w <= MaxWritten
      /\ Piece(r[Len(q)], w2, f) /\ Start(r[Len(q)]) = Start(q[Len(q)])
  BY SendConstants DEF SameButLast, TakesPlace
<1>1. q \in Seq(Segment) /\ Len(q) \in Nat /\ Len(q) >= 1
  BY EmptySeq DEF Pieces
<1>2. PICK l \in 1 .. Len(q) : l = Len(q)
  BY <1>1
<1>3. ASSUME NEW i \in 1 .. Len(q)
      PROVE  /\ Start(q[i]) \in Nat /\ End(q[i]) \in Nat /\ Start(q[i]) < End(q[i])
             /\ End(q[i]) <= w /\ ~q[i].fin
  <2>1. Piece(q[i], w, 0)
    BY DEF Pieces
  <2>2. QED
    BY <2>1, <1>0, PieceFacts
<1>4. /\ Start(r[l]) = Start(q[l]) /\ End(r[l]) = w2 + f /\ End(q[l]) = w
      /\ (r[l].fin => f = 1) /\ l \in 1 .. Len(r)
  BY <1>0, <1>2, PieceFacts
<1>5. ASSUME NEW i \in 1 .. Len(r), i # l
      PROVE  r[i] = q[i] /\ i \in 1 .. Len(q) /\ End(q[i]) <= Start(r[l])
  <2>1. r[i] = q[i] /\ i \in 1 .. Len(q)
    BY <1>0, <1>1, <1>2, <1>5
  <2>2. End(q[i]) <= Start(q[l]) \/ End(q[l]) <= Start(q[i])
    BY <2>1, <1>5 DEF Tiles, Apart
  <2>3. ~(End(q[l]) <= Start(q[i]))
    BY <2>1, <1>3, <1>4
  <2>4. QED
    BY <2>1, <2>2, <2>3, <1>4
<1>6. Apart(r)
  <2>1. SUFFICES ASSUME NEW i \in 1 .. Len(r), NEW j \in 1 .. Len(r), i # j
                 PROVE  End(r[i]) <= Start(r[j]) \/ End(r[j]) <= Start(r[i])
    BY DEF Apart
  <2>2. CASE i = l
    BY <2>1, <2>2, <1>5
  <2>3. CASE j = l
    BY <2>1, <2>3, <1>5
  <2>4. CASE i # l /\ j # l
    BY <2>1, <2>4, <1>5 DEF Tiles, Apart
  <2>5. QED
    BY <2>2, <2>3, <2>4
<1>7. \A i \in 1 .. Len(r) : r[i].fin => End(r[i]) = w2 + 1
  BY <1>3, <1>4, <1>5
<1>8. ASSUME NEW n \in lo + 1 .. w2 + f
      PROVE  \E i \in 1 .. Len(r) : Start(r[i]) < n /\ n <= End(r[i])
  <2>1. CASE n <= Start(q[l])
    <3>1. n \in lo + 1 .. w + 0
      BY <2>1, <1>3, <1>4
    <3>2. PICK i \in 1 .. Len(q) : Start(q[i]) < n /\ n <= End(q[i])
      BY <3>1 DEF Tiles
    <3>3. i # l
      BY <3>2, <2>1, <1>3
    <3>4. QED
      BY <3>2, <3>3, <1>0, <1>5
  <2>2. CASE n > Start(q[l])
    <3>1. Start(r[l]) < n /\ n <= End(r[l])
      BY <2>2, <1>4
    <3>2. QED
      BY <3>1, <1>4
  <2>3. QED
    BY <2>1, <2>2, <1>3
<1>9. QED
  BY <1>6, <1>7, <1>8 DEF Tiles

\* d is the queue b with another last segment, behind the queue a.
LastReplaced(a, b, d) ==
  /\ a \in Seq(Segment) /\ b \in Seq(Segment) /\ d \in Seq(Segment)
  /\ b # <<>> /\ SameButLast(b, d)

\* q and r are the lines that end in b and in d.
LinesOf(a, b, d, q, r) == q = a \o b /\ r = a \o d

\* A queue whose last segment changes, at the end of a line.
LEMMA ReplaceLast ==
  ASSUME NEW a, NEW b, NEW c, LastReplaced(a, b, c), NEW q, NEW r, LinesOf(a, b, c, q, r)
  PROVE  /\ r \in Seq(Segment) /\ q # <<>> /\ Len(q) \in Nat /\ Len(q) >= 1
         /\ SameButLast(q, r)
         /\ r[Len(q)] = c[Len(b)] /\ q[Len(q)] = b[Len(b)]
<1>0. /\ a \in Seq(Segment) /\ b \in Seq(Segment) /\ c \in Seq(Segment) /\ b # <<>>
      /\ q = a \o b /\ r = a \o c
      /\ Len(c) = Len(b) /\ \A i \in 1 .. Len(b) - 1 : c[i] = b[i]
  BY DEF SameButLast, LastReplaced, LinesOf
<1>1. Len(a) \in Nat /\ Len(b) \in Nat /\ Len(b) >= 1
  BY <1>0, EmptySeq
<1>2. /\ r \in Seq(Segment) /\ Len(r) = Len(a) + Len(b) /\ Len(q) = Len(a) + Len(b)
      /\ q \in Seq(Segment)
  <2>1. a \o c \in Seq(Segment) /\ Len(a \o c) = Len(a) + Len(c)
    BY <1>0, ConcatProperties
  <2>2. a \o b \in Seq(Segment) /\ Len(a \o b) = Len(a) + Len(b)
    BY <1>0, ConcatProperties
  <2>3. QED
    BY <2>1, <2>2, <1>0
<1>3. \A i \in 1 .. Len(q) - 1 : r[i] = q[i]
  <2>1. SUFFICES ASSUME NEW i \in 1 .. Len(q) - 1 PROVE r[i] = q[i]
    OBVIOUS
  <2>2. CASE i <= Len(a)
    BY <2>2, <1>0, <1>1, <1>2
  <2>3. CASE i > Len(a)
    <3>1. i - Len(a) \in 1 .. Len(b) - 1
      BY <2>3, <1>1, <1>2
    <3>2. r[i] = c[i - Len(a)] /\ q[i] = b[i - Len(a)]
      BY <2>3, <1>0, <1>1, <1>2
    <3>3. QED
      BY <3>1, <3>2, <1>0
  <2>4. QED
    BY <2>2, <2>3, <1>1, <1>2
<1>4. r[Len(q)] = c[Len(b)] /\ q[Len(q)] = b[Len(b)]
  BY <1>0, <1>1, <1>2
<1>5. q # <<>>
  BY <1>1, <1>2, EmptySeq
<1>6. QED
  BY <1>1, <1>2, <1>3, <1>4, <1>5 DEF SameButLast

\* The same for the last segment of a queue behind another.
LEMMA Replaced ==
  ASSUME NEW a, NEW b, NEW d, LastReplaced(a, b, d),
         NEW lo \in Nat, NEW w \in Nat, Pieces(a \o b, w, 0),
         NEW w2 \in Nat, NEW f \in {0, 1}, TakesPlace(b[Len(b)], d[Len(b)], w, w2, f)
  PROVE  /\ Pieces(a \o d, w2, f)
         /\ Tiles(a \o b, lo, w, 0) /\ End(b[Len(b)]) = w /\ End(d[Len(b)]) = w2 + f
              => Tiles(a \o d, lo, w2, f)
<1>1. PICK q : q = a \o b
  OBVIOUS
<1>2. PICK r : r = a \o d
  OBVIOUS
<1>3. /\ r \in Seq(Segment) /\ q # <<>> /\ SameButLast(q, r)
      /\ r[Len(q)] = d[Len(b)] /\ q[Len(q)] = b[Len(b)]
  <2>1. LinesOf(a, b, d, q, r)
    BY <1>1, <1>2 DEF LinesOf
  <2>2. QED
    BY <2>1, ReplaceLast
<1>4. Pieces(q, w, 0) /\ TakesPlace(q[Len(q)], r[Len(q)], w, w2, f)
  BY <1>1, <1>3
<1>5. Pieces(r, w2, f)
  BY <1>3, <1>4, PiecesGrowLast
<1>6. ASSUME Tiles(q, lo, w, 0), End(q[Len(q)]) = w, End(r[Len(q)]) = w2 + f
      PROVE  Tiles(r, lo, w2, f)
  BY <1>3, <1>4, <1>6, TilesGrowLast
<1>7. QED
  BY <1>1, <1>2, <1>3, <1>5, <1>6

\* i whole segments before the one that holds byte n.
LEMMA Rounding ==
  ASSUME NEW M \in Nat, M >= 1, NEW x \in Nat
  PROVE  /\ (x + M - 1) \div M \in Nat
         /\ ((x + M - 1) \div M) * M >= x
         /\ ((x + M - 1) \div M) * M <= x + M - 1
         /\ x \div M \in Nat
         /\ (x \div M) * M <= x /\ x < (x \div M) * M + M
<1>1. \A y \in Nat : /\ y \div M \in Nat /\ (y \div M) * M <= y /\ y < (y \div M) * M + M
  <2>1. SUFFICES ASSUME NEW y \in Nat
                 PROVE  y \div M \in Nat /\ (y \div M) * M <= y /\ y < (y \div M) * M + M
    OBVIOUS
  <2>2. y = M * (y \div M) + (y % M) /\ y % M \in 0 .. M - 1 /\ y \div M \in Nat
    OBVIOUS
  <2>3. PICK d \in Nat, m \in 0 .. M - 1 : d = y \div M /\ y = M * d + m
    BY <2>2
  <2>4. d * M = M * d
    OBVIOUS
  <2>5. d * M <= y /\ y < d * M + M
    BY <2>3, <2>4
  <2>6. QED
    BY <2>3, <2>5
<1>2. x + M - 1 \in Nat
  OBVIOUS
<1>3. PICK y \in Nat : y = x + M - 1
  BY <1>2
<1>4. PICK d \in Nat : d = y \div M
  BY <1>1
<1>5. d * M \in Nat /\ d * M <= y /\ y < d * M + M
  BY <1>1, <1>4
<1>6. d * M >= x /\ d * M <= x + M - 1
  BY <1>5, <1>3
<1>7. QED
  BY <1>1, <1>3, <1>4, <1>6

\* A product grows with its factor.
LEMMA Multiples ==
  ASSUME NEW M \in Nat, NEW i \in Nat, NEW j \in Nat, i < j
  PROVE  i * M + M <= j * M /\ i * M \in Nat /\ j * M \in Nat /\ (i + 1) * M = i * M + M
<1>1. PICK d \in Nat : j = i + 1 + d
  <2>1. j - i - 1 \in Nat
    OBVIOUS
  <2>2. QED
    BY <2>1
<1>2. (i + 1 + d) * M = i * M + M + d * M /\ d * M \in Nat /\ i * M \in Nat
  OBVIOUS
<1>3. QED
  BY <1>1, <1>2

\* r is the stream from position lo to position w, cut into segments.
NewLine(r, lo, w) ==
  /\ r \in Seq(Segment)
  /\ \A i \in 1 .. Len(r) : Piece(r[i], w, 0) /\ lo <= Start(r[i])
  /\ \A i, j \in 1 .. Len(r) : i < j => End(r[i]) <= Start(r[j])
  /\ \A n \in lo + 1 .. w : \E i \in 1 .. Len(r) : Start(r[i]) < n /\ n <= End(r[i])

\* The segments tcp_write makes of the bytes after its first pos.
LEMMA NewSegmentsFacts ==
  ASSUME NEW pos \in Nat, NEW len \in Nat, pos <= len, NEW w \in Nat, w + len <= MaxWritten,
         snd_lbb \in SeqNo, Offset(snd_lbb) = w,
         NEW r, r = NewSegments(pos, len)
  PROVE  /\ NewLine(r, w + pos, w + len)
         /\ r = <<>> <=> pos = len
<1> DEFINE M == MssLocal
           x == len - pos
           N == (x + M - 1) \div M
<1>1. M \in Nat /\ M >= 1 /\ x \in Nat
  BY SendConstants
<1>2. N \in Nat /\ N * M >= x /\ N * M <= x + M - 1
  BY <1>1, Rounding
<1> DEFINE P(i) == (i - 1) * M
<1>3. ASSUME NEW i \in 1 .. N
      PROVE  P(i) \in Nat /\ P(i) < x /\ i * M = P(i) + M
  <2>1. i - 1 \in Nat /\ i - 1 < N
    BY <1>2
  <2>2. (i - 1) * M + M <= N * M /\ (i - 1) * M \in Nat /\ N * M \in Nat
        /\ ((i - 1) + 1) * M = (i - 1) * M + M
    BY <2>1, <1>1, <1>2, Multiples
  <2>3. QED
    BY <2>2, <1>1, <1>2
<1>4. ASSUME NEW i \in 1 .. N, NEW j \in 1 .. N, i < j
      PROVE  P(i) + M <= P(j)
  <2>1. i - 1 \in Nat /\ j - 1 \in Nat /\ i - 1 < j - 1
    BY <1>2, <1>4
  <2>2. QED
    BY <2>1, <1>1, Multiples
<1>5. ASSUME NEW n \in 1 .. x
      PROVE  \E i \in 1 .. N : P(i) < n /\ n <= P(i) + M
  <2>1. PICK y \in Nat : y = n - 1
    BY <1>1
  <2>2. PICK d \in Nat : d = y \div M
    BY <1>1, Rounding
  <2>3. d * M \in Nat /\ d * M <= y /\ y < d * M + M
    BY <2>2, <1>1, Rounding
  <2>4. d < N
    <3>1. SUFFICES ASSUME N <= d PROVE FALSE
      BY <1>2
    <3>2. N * M <= d * M
      <4>1. CASE N = d
        BY <4>1, <2>3
      <4>2. CASE N < d
        BY <4>2, <1>1, <1>2, Multiples
      <4>3. QED
        BY <3>1, <4>1, <4>2, <1>2
    <3>3. N * M \in Nat
      BY <1>1, <1>2
    <3>4. QED
      BY <3>2, <3>3, <2>1, <2>3, <1>1, <1>2
  <2>5. d + 1 \in 1 .. N /\ P(d + 1) = d * M
    BY <2>4, <1>1, <1>2
  <2>6. P(d + 1) < n /\ n <= P(d + 1) + M
    BY <2>1, <2>3, <2>5, <1>1
  <2>7. QED
    BY <2>5, <2>6
<1> HIDE DEF P
<1>6. /\ r = [i \in 1 .. N |->
            [seqno |-> SeqAdd(snd_lbb, pos + P(i)), len |-> LWIP_MIN(M, len - (pos + P(i))),
             fin |-> FALSE, bufs |-> 1]]
  BY DEF NewSegments, P
<1> HIDE DEF N, x, M
<1>7. ASSUME NEW i \in 1 .. N
      PROVE  /\ r[i] \in Segment /\ Start(r[i]) = w + pos + P(i) /\ ~r[i].fin
             /\ r[i].len \in Nat /\ r[i].len >= 1 /\ r[i].len <= M
             /\ r[i].len = LWIP_MIN(M, x - P(i))
             /\ End(r[i]) = Start(r[i]) + r[i].len
             /\ Start(r[i]) + r[i].len <= w + len
  <2>1. PICK sq, ln : /\ sq = SeqAdd(snd_lbb, pos + P(i))
                      /\ ln = LWIP_MIN(M, len - (pos + P(i)))
    OBVIOUS
  <2>2. r[i] = [seqno |-> sq, len |-> ln, fin |-> FALSE, bufs |-> 1]
    BY <1>6, <2>1
  <2>3. pos + P(i) \in Nat /\ w + (pos + P(i)) < Half /\ x = len - pos
    BY <1>1, <1>3, SendConstants DEF x
  <2>4. sq \in SeqNo /\ Offset(sq) = w + (pos + P(i))
    BY <2>1, <2>3, PositionAdd
  <2>5. ln \in Nat /\ ln >= 1 /\ ln <= M /\ ln = LWIP_MIN(M, x - P(i))
        /\ w + pos + P(i) + ln <= w + len
    BY <2>1, <2>3, <1>1, <1>3 DEF LWIP_MIN
  <2>6. r[i] \in Segment
    BY <2>2, <2>4, <2>5 DEF Segment
  <2>7. r[i].seqno = sq /\ r[i].len = ln /\ r[i].fin = FALSE
    BY <2>2
  <2>8. Start(r[i]) = w + pos + P(i)
    BY <2>4, <2>7, <1>3 DEF Start
  <2>9. End(r[i]) = Start(r[i]) + ln
    BY <2>6, <2>7, <2>5, <2>8, <1>3, SegmentFacts
  <2>10. QED
    BY <2>5, <2>6, <2>7, <2>8, <2>9
<1>8. r \in Seq(Segment) /\ Len(r) = N
  BY <1>2, <1>6, <1>7
<1>9. ASSUME NEW i \in 1 .. N
      PROVE  Piece(r[i], w + len, 0) /\ w + pos <= Start(r[i])
  <2>1. TCP_TCPLEN(r[i]) >= 1
    BY <1>7, SegmentFacts
  <2>2. QED
    BY <2>1, <1>3, <1>7 DEF Piece, M
<1>10. ASSUME NEW i \in 1 .. N, NEW j \in 1 .. N, i < j
       PROVE  End(r[i]) <= Start(r[j])
  <2>1. P(i) + M <= P(j) /\ P(i) \in Nat /\ P(j) \in Nat
    BY <1>3, <1>4, <1>10
  <2>2. QED
    BY <2>1, <1>1, <1>7
<1>11. ASSUME NEW n \in w + pos + 1 .. w + len
       PROVE  \E i \in 1 .. N : Start(r[i]) < n /\ n <= End(r[i])
  <2>1. n - w - pos \in 1 .. x
    BY <1>1 DEF x
  <2>2. PICK i \in 1 .. N : P(i) < n - w - pos /\ n - w - pos <= P(i) + M
    BY <2>1, <1>5
  <2>3. PICK p \in Nat : p = P(i) /\ p < x
    BY <1>3
  <2>4. Start(r[i]) = w + pos + p /\ End(r[i]) = w + pos + p + LWIP_MIN(M, x - p)
    BY <1>7, <2>3
  <2>5. x = len - pos
    BY DEF x
  <2>6. Start(r[i]) < n /\ n <= End(r[i])
    BY <2>2, <2>3, <2>4, <2>5, <1>1 DEF LWIP_MIN
  <2>7. QED
    BY <2>6
<1>12. r = <<>> <=> pos = len
  <2>1. r = <<>> <=> N = 0
    BY <1>2, <1>8, EmptySeq
  <2>2. CASE N = 0
    <3>1. N * M = 0
      BY <2>2, <1>1
    <3>2. x = 0
      BY <3>1, <1>1, <1>2
    <3>3. QED
      BY <3>2, <2>1, <2>2 DEF x
  <2>3. CASE N # 0
    <3>1. 1 \in 1 .. N
      BY <2>3, <1>2
    <3>2. 0 < x
      BY <3>1, <1>1, <1>3
    <3>3. QED
      BY <3>2, <2>1, <2>3 DEF x
  <2>4. QED
    BY <2>2, <2>3
<1>13. QED
  BY <1>2, <1>7, <1>8, <1>9, <1>10, <1>11, <1>12 DEF M, NewLine

-----------------------------------------------------------------------------
(* The state. *)

\* The numbers of a state that satisfies the invariant.
LEMMA Numbers ==
  ASSUME IInv
  PROVE  /\ lastack \in SeqNo /\ snd_nxt \in SeqNo /\ snd_wl2 \in SeqNo /\ snd_lbb \in SeqNo
         /\ Offset(lastack) \in Nat /\ Offset(snd_nxt) \in Nat /\ Offset(snd_lbb) \in Nat
         /\ Offset(lastack) < Half /\ Offset(snd_nxt) < Half /\ Offset(snd_lbb) < Half
         /\ written \in Nat /\ written <= MaxWritten /\ FinLen \in {0, 1}
         /\ wire_end \in Nat /\ wire_end < Half /\ snd_wnd \in Nat /\ snd_wnd <= SND_WND_MAX
         /\ Offset(lastack) <= Offset(snd_nxt) /\ Offset(snd_nxt) <= wire_end
         /\ wire_end <= written + FinLen
         /\ written <= Offset(snd_lbb) /\ Offset(snd_lbb) <= written + FinLen
         /\ unsent \in Seq(Segment) /\ unacked \in Seq(Segment)
         /\ Len(unsent) \in Nat /\ Len(unacked) \in Nat
         /\ snd_buf \in Nat /\ unsent_oversize \in Nat
         /\ written + FinLen + 1 < Half
<1>1. /\ lastack \in SeqNo /\ snd_nxt \in SeqNo /\ snd_wl2 \in SeqNo /\ snd_lbb \in SeqNo
      /\ written \in Nat /\ written <= MaxWritten
      /\ wire_end \in Nat /\ snd_wnd \in Nat /\ snd_wnd <= SND_WND_MAX
      /\ unsent \in Seq(Segment) /\ unacked \in Seq(Segment)
      /\ Len(unsent) \in Nat /\ Len(unacked) \in Nat
      /\ snd_buf \in Nat /\ unsent_oversize \in Nat
  BY SendConstants DEF IInv, Types
<1>2. Offset(lastack) \in Nat /\ Offset(snd_nxt) \in Nat /\ Offset(snd_lbb) \in Nat
  BY <1>1, PositionType
<1>3. FinLen \in {0, 1}
  BY DEF FinLen
<1>4. QED
  BY <1>1, <1>2, <1>3, SendConstants DEF IInv, Positions

\* The segments on the two queues.
LEMMA QueuedPieces ==
  ASSUME IInv
  PROVE  /\ Pieces(Queued, written, FinLen)
         /\ Pieces(unacked, written, FinLen) /\ Pieces(unsent, written, FinLen)
<1>1. unsent \in Seq(Segment) /\ unacked \in Seq(Segment)
  BY Numbers
<1>2. CASE Alive
  <2>1. Pieces(unacked \o unsent, written, FinLen)
    BY <1>2 DEF IInv, Queues, Holds, Queued
  <2>2. QED
    BY <2>1, <1>1, PiecesJoin DEF Queued
<1>3. CASE ~Alive
  <2>1. unsent = <<>> /\ unacked = <<>>
    BY <1>3 DEF IInv, Queues
  <2>2. Pieces(unacked, written, FinLen) /\ Pieces(unsent, written, FinLen)
    BY <2>1, <1>1 DEF Pieces
  <2>3. QED
    BY <2>2, <1>1, PiecesJoin DEF Queued
<1>4. QED
  BY <1>2, <1>3

\* A step that leaves queues and positions alone.
QuietStep ==
  /\ UNCHANGED <<state, queueVars, lastack, written, wire_end>>
  /\ pc' # pc => Alive
  /\ "FIN" \in flags' <=> "FIN" \in flags

LEMMA QuietKeeps ==
  ASSUME IInv, QuietStep, Types'
  PROVE  IInv'
<1>1. /\ unsent' = unsent /\ unacked' = unacked /\ snd_nxt' = snd_nxt /\ lastack' = lastack
      /\ snd_lbb' = snd_lbb /\ snd_buf' = snd_buf /\ unsent_oversize' = unsent_oversize
      /\ misplaced' = misplaced /\ written' = written
      /\ wire_end' = wire_end /\ state' = state
  BY DEF QuietStep, queueVars
<1>2. FinLen' = FinLen /\ Alive' = Alive /\ Queued' = Queued
  BY <1>1 DEF QuietStep, FinLen, Alive, Queued
<1>3. Positions'
  BY <1>1, <1>2 DEF IInv, Positions
<1>4. ~Alive' => unsent' = <<>> /\ unacked' = <<>> /\ pc' = "idle"
  BY <1>1, <1>2 DEF IInv, Queues, QuietStep
<1>5. Queues'
  BY <1>1, <1>2, <1>4 DEF IInv, Queues
<1>6. FinSent' /\ OversizeFits' /\ SndBufConserved'
  BY <1>1, <1>2 DEF IInv, QuietStep, FinSent, OversizeFits, LastUnsent, SndBufConserved
<1>7. QED
  BY <1>3, <1>5, <1>6 DEF IInv

\* The steps that change neither queues nor positions.
QuietAction ==
  \/ WriteFails \/ ShutdownFails \/ tcp_output
  \/ OutputFails \/ OutputDone \/ OutputEmptyAck \/ InputStray \/ InputOutput

LEMMA QuietActionKeeps ==
  ASSUME IInv, QuietAction
  PROVE  IInv'
<1>1. UNCHANGED <<state, queueVars, ackVars, ccVars, nrtx, written, wire_end>>
  BY DEF QuietAction, WriteFails, ShutdownFails, tcp_output, OutputFails, OutputDone,
         OutputEmptyAck, InputStray, InputOutput, rtxVars
<1>2. Alive
  <2>1. CASE pc = "idle"
    BY <2>1 DEF QuietAction, WriteFails, ShutdownFails, tcp_output, InputStray, InputOutput,
                OutputFails, OutputDone, OutputEmptyAck, InOutput, MayWrite, Alive
  <2>2. CASE pc # "idle"
    BY <2>2 DEF IInv, Queues
  <2>3. QED
    BY <2>1, <2>2
<1>3. "FIN" \in flags' <=> "FIN" \in flags
  BY DEF QuietAction, WriteFails, ShutdownFails, tcp_output, OutputFails, OutputDone,
         OutputEmptyAck, InputStray, InputOutput
<1>4. rtime' \in BOOLEAN /\ rtseq' \in SeqNo \cup {NoRtt}
  <2>1. rtime \in BOOLEAN /\ rtseq \in SeqNo \cup {NoRtt}
    BY DEF IInv, Types
  <2>2. CASE OutputFails
    <3>1. unsent # <<>> /\ StartTimers(unsent[1])
      BY <2>2 DEF OutputFails, Sendable
    <3>2. unsent[1].seqno \in SeqNo
      <4>1. 1 \in 1 .. Len(unsent)
        BY <3>1, Numbers, EmptySeq
      <4>2. unsent[1] \in Segment
        BY <4>1, Numbers
      <4>3. QED
        BY <4>2, SegmentFacts
    <3>3. QED
      BY <2>1, <3>1, <3>2 DEF StartTimers
  <2>3. CASE ~OutputFails
    <3>1. UNCHANGED rtxVars
      BY <2>3 DEF QuietAction, WriteFails, ShutdownFails, tcp_output, OutputDone,
                  OutputEmptyAck, InputStray, InputOutput
    <3>2. QED
      BY <2>1, <3>1 DEF rtxVars
  <2>4. QED
    BY <2>2, <2>3
<1>5. Types'
  <2>1. /\ flags \subseteq {"INFR", "NAGLEMEMERR", "FIN"}
        /\ pc \in {"idle", "callback", "output", "sending"}
        /\ reported \in Nat /\ acked \in Nat
    BY SendConstants DEF IInv, Types
  <2>2. /\ flags' \subseteq {"INFR", "NAGLEMEMERR", "FIN"}
        /\ pc' \in {"idle", "callback", "output", "sending"}
        /\ reported' \in Nat
    <3>1. \/ flags' = flags \/ flags' = flags \cup {"NAGLEMEMERR"}
          \/ flags' = flags \ {"NAGLEMEMERR"}
      BY DEF QuietAction, WriteFails, ShutdownFails, tcp_output, OutputFails, OutputDone,
             OutputEmptyAck, InputStray, InputOutput
    <3>2. pc' \in {"idle", "callback", "output", pc}
      BY DEF QuietAction, WriteFails, ShutdownFails, tcp_output, OutputFails, OutputDone,
             OutputEmptyAck, InputStray, InputOutput
    <3>3. reported' = reported \/ reported' = reported + acked
      BY DEF QuietAction, WriteFails, ShutdownFails, tcp_output, OutputFails, OutputDone,
             OutputEmptyAck, InputStray, InputOutput
    <3>4. flags' \subseteq {"INFR", "NAGLEMEMERR", "FIN"}
      BY <2>1, <3>1
    <3>5. QED
      BY <2>1, <3>2, <3>3, <3>4
  <2>3. QED
    BY <2>2, <1>1, <1>4 DEF IInv, Types, queueVars, ackVars
<1>6. QED
  BY <1>1, <1>2, <1>3, <1>5, QuietKeeps DEF QuietStep, ackVars

-----------------------------------------------------------------------------
(* tcp_output and the timers: the segments stay queued. *)

\* A sent segment starts where none on unacked does.
LEMMA SentApart ==
  ASSUME NEW u \in Seq(Segment), NEW v \in Seq(Segment), v # <<>>,
         NEW w \in Nat, w <= MaxWritten, NEW f \in {0, 1},
         Pieces(u \o v, w, f), Apart(u \o v)
  PROVE  \A j \in 1 .. Len(u) : Start(u[j]) # Start(v[1])
<1>1. PICK q : q = u \o v
  OBVIOUS
<1>2. /\ q \in Seq(Segment) /\ Len(q) = Len(u) + Len(v)
      /\ \A i \in 1 .. Len(u) : q[i] = u[i]
      /\ \A i \in 1 .. Len(v) : q[i + Len(u)] = v[i]
  BY <1>1, JoinFacts
<1>3. Len(u) \in Nat /\ Len(v) \in Nat /\ Len(v) >= 1
  BY EmptySeq
<1>4. SUFFICES ASSUME NEW j \in 1 .. Len(u) PROVE Start(u[j]) # Start(v[1])
  OBVIOUS
<1>5. j \in 1 .. Len(q) /\ 1 + Len(u) \in 1 .. Len(q) /\ j # 1 + Len(u)
      /\ q[j] = u[j] /\ q[1 + Len(u)] = v[1]
  BY <1>2, <1>3
<1>6. Piece(u[j], w, f) /\ Piece(v[1], w, f)
      /\ (End(u[j]) <= Start(v[1]) \/ End(v[1]) <= Start(u[j]))
  BY <1>1, <1>5 DEF Pieces, Apart
<1>7. /\ Start(u[j]) \in Nat /\ End(u[j]) \in Nat /\ Start(u[j]) < End(u[j])
      /\ Start(v[1]) \in Nat /\ End(v[1]) \in Nat /\ Start(v[1]) < End(v[1])
  BY <1>6, PieceFacts
<1>8. QED
  BY <1>6, <1>7

\* It is put where it belongs.
LEMMA InsertAscends ==
  ASSUME NEW q \in Seq(Segment), NEW s \in Segment, NEW k, NEW r, Inserted(q, s, k, r),
         Ascending(q),
         \A j \in 1 .. k : Start(q[j]) < Start(s),
         k < Len(q) => Start(s) < Start(q[k + 1])
  PROVE  Ascending(r)
<1>1. PICK x \in Nat : x = Len(q)
  OBVIOUS
<1>2. /\ k \in 0 .. x /\ Len(r) = x + 1
      /\ \A i \in 1 .. k : r[i] = q[i]
      /\ r[k + 1] = s
      /\ \A i \in k + 2 .. x + 1 : r[i] = q[i - 1]
  BY <1>1 DEF Inserted
<1>3. Start(s) \in Nat /\ \A i \in 1 .. x : Start(q[i]) \in Nat
  BY <1>1, SegmentFacts
<1>4. ASSUME NEW j \in k + 1 .. x PROVE Start(s) < Start(q[j])
  <2>1. k < Len(q) /\ Start(s) < Start(q[k + 1]) /\ k + 1 \in 1 .. x /\ j \in 1 .. x
    BY <1>1, <1>2
  <2>2. CASE j = k + 1
    BY <2>1, <2>2
  <2>3. CASE j # k + 1
    <3>1. Start(q[k + 1]) < Start(q[j])
      BY <2>1, <2>3, <1>1 DEF Ascending
    <3>2. QED
      BY <2>1, <3>1, <1>3
  <2>4. QED
    BY <2>2, <2>3
<1>5. SUFFICES ASSUME NEW i \in 1 .. x + 1, NEW j \in 1 .. x + 1, i < j
               PROVE  Start(r[i]) < Start(r[j])
  BY <1>2 DEF Ascending
<1>6. CASE j <= k
  <2>1. i \in 1 .. k /\ j \in 1 .. k /\ i \in 1 .. Len(q) /\ j \in 1 .. Len(q)
    BY <1>1, <1>2, <1>5, <1>6
  <2>2. QED
    BY <2>1, <1>2, <1>5 DEF Ascending
<1>7. CASE j = k + 1
  <2>1. i \in 1 .. k
    BY <1>2, <1>5, <1>7
  <2>2. QED
    BY <2>1, <1>2, <1>7
<1>8. CASE j > k + 1
  <2>1. j \in k + 2 .. x + 1 /\ j - 1 \in k + 1 .. x /\ j - 1 \in 1 .. Len(q)
    BY <1>1, <1>2, <1>8
  <2>2. r[j] = q[j - 1]
    BY <2>1, <1>2
  <2>3. CASE i <= k
    <3>1. i \in 1 .. k /\ i \in 1 .. Len(q) /\ i < j - 1
      BY <2>3, <1>1, <1>2, <1>8
    <3>2. QED
      BY <3>1, <2>1, <2>2, <1>2 DEF Ascending
  <2>4. CASE i = k + 1
    BY <2>1, <2>2, <2>4, <1>2, <1>4
  <2>5. CASE i > k + 1
    <3>1. i \in k + 2 .. x + 1 /\ i - 1 \in 1 .. Len(q) /\ i - 1 < j - 1
      BY <2>5, <1>1, <1>2, <1>5
    <3>2. r[i] = q[i - 1]
      BY <3>1, <1>2
    <3>3. QED
      BY <3>1, <3>2, <2>1, <2>2 DEF Ascending
  <2>6. QED
    BY <2>3, <2>4, <2>5, <1>2
<1>9. QED
  BY <1>6, <1>7, <1>8, <1>2

\* tcp_output finds that place.
LEMMA SentPlace ==
  ASSUME IInv, OutputSegment
  PROVE  /\ unsent # <<>> /\ Alive
         /\ \E k : /\ Inserted(unacked, unsent[1], k, unacked')
                   /\ ~misplaced => Ascending(unacked')
<1>1. PICK s : s = unsent[1]
  OBVIOUS
<1>2. unsent # <<>> /\ InOutput
  BY DEF OutputSegment, Sendable
<1>3. Alive
  BY <1>2 DEF InOutput, IInv, Queues
<1>4. unsent \in Seq(Segment) /\ unacked \in Seq(Segment) /\ Len(unacked) \in Nat
      /\ 1 \in 1 .. Len(unsent)
  BY <1>2, Numbers, EmptySeq
<1>5. Piece(s, written, FinLen) /\ \A j \in 1 .. Len(unacked) : Piece(unacked[j], written, FinLen)
  BY <1>1, <1>4, QueuedPieces DEF Pieces
<1>6. s \in Segment /\ s.seqno \in SeqNo /\ Start(s) \in Nat /\ Start(s) < Half
  BY <1>5, Numbers, PieceFacts
<1>7. \A j \in 1 .. Len(unacked) :
        /\ unacked[j].seqno \in SeqNo /\ Start(unacked[j]) \in Nat
        /\ TCP_SEQ_LT(unacked[j].seqno, s.seqno) <=> Start(unacked[j]) < Start(s)
        /\ TCP_SEQ_LT(s.seqno, unacked[j].seqno) <=> Start(s) < Start(unacked[j])
  <2>1. SUFFICES ASSUME NEW j \in 1 .. Len(unacked)
                 PROVE
        /\ unacked[j].seqno \in SeqNo /\ Start(unacked[j]) \in Nat
        /\ TCP_SEQ_LT(unacked[j].seqno, s.seqno) <=> Start(unacked[j]) < Start(s)
        /\ TCP_SEQ_LT(s.seqno, unacked[j].seqno) <=> Start(s) < Start(unacked[j])
    OBVIOUS
  <2>2. unacked[j].seqno \in SeqNo /\ Start(unacked[j]) \in Nat /\ Start(unacked[j]) < Half
    BY <1>5, Numbers, PieceFacts
  <2>3. QED
    BY <2>2, <1>6, PositionOrder DEF Start
<1>8. ~misplaced =>
        Ascending(unacked) /\ \A j \in 1 .. Len(unacked) : Start(unacked[j]) # Start(s)
  <2>1. SUFFICES ASSUME ~misplaced
                 PROVE  Ascending(unacked)
                        /\ \A j \in 1 .. Len(unacked) : Start(unacked[j]) # Start(s)
    OBVIOUS
  <2>2. Pieces(unacked \o unsent, written, FinLen) /\ Apart(unacked \o unsent)
    BY <2>1, <1>3 DEF IInv, Queues, Holds, Tiles, Queued
  <2>3. \A j \in 1 .. Len(unacked) : Start(unacked[j]) # Start(s)
    BY <2>2, <1>1, <1>2, <1>4, Numbers, SentApart
  <2>4. QED
    BY <2>1, <2>3, <1>3 DEF IInv, Queues
<1>9. CASE unacked # <<>> /\ TCP_SEQ_LT(s.seqno, unacked[Len(unacked)].seqno)
  <2>1. unacked' = InsertSorted(unacked, s)
    BY <1>1, <1>9 DEF OutputSegment
  <2>2. PICK k \in 0 .. Len(unacked) :
          PlaceOf(unacked, s, k) /\ Inserted(unacked, s, k, unacked')
    BY <2>1, <1>4, <1>6, InsertPlace
  <2>3. \A j \in 1 .. k : Start(unacked[j]) < Start(s)
    BY <2>2, <1>4, <1>7 DEF PlaceOf
  <2>4. ASSUME ~misplaced, k < Len(unacked) PROVE Start(s) < Start(unacked[k + 1])
    <3>1. k + 1 \in 1 .. Len(unacked)
      BY <2>4, <1>4
    <3>2. ~(Start(unacked[k + 1]) < Start(s)) /\ Start(unacked[k + 1]) \in Nat
      BY <2>2, <2>4, <3>1, <1>7 DEF PlaceOf
    <3>3. QED
      BY <2>4, <3>1, <3>2, <1>6, <1>8
  <2>5. ASSUME ~misplaced PROVE Ascending(unacked')
    BY <2>2, <2>3, <2>4, <2>5, <1>4, <1>6, <1>8, InsertAscends
  <2>6. QED
    BY <2>2, <2>5, <1>1, <1>2, <1>3
<1>10. CASE ~(unacked # <<>> /\ TCP_SEQ_LT(s.seqno, unacked[Len(unacked)].seqno))
  <2>1. unacked' = Append(unacked, s)
    BY <1>1, <1>10 DEF OutputSegment
  <2>2. Inserted(unacked, s, Len(unacked), unacked')
    BY <2>1, <1>4, <1>6, AppendInserts
  <2>3. ASSUME ~misplaced, NEW j \in 1 .. Len(unacked) PROVE Start(unacked[j]) < Start(s)
    <3>1. unacked # <<>> /\ Len(unacked) \in 1 .. Len(unacked)
      BY <1>4, EmptySeq
    <3>2. ~(Start(s) < Start(unacked[Len(unacked)])) /\ Start(unacked[Len(unacked)]) \in Nat
          /\ Start(unacked[Len(unacked)]) # Start(s)
      BY <2>3, <3>1, <1>7, <1>8, <1>10
    <3>3. Start(unacked[j]) <= Start(unacked[Len(unacked)])
      <4>1. CASE j = Len(unacked)
        BY <4>1, <3>2
      <4>2. CASE j # Len(unacked)
        <5>1. Start(unacked[j]) < Start(unacked[Len(unacked)])
          BY <2>3, <3>1, <4>2, <1>4, <1>8 DEF Ascending
        <5>2. QED
          BY <5>1, <3>2, <1>7
      <4>3. QED
        BY <4>1, <4>2
    <3>4. QED
      BY <3>2, <3>3, <1>6, <1>7
  <2>4. ASSUME ~misplaced PROVE Ascending(unacked')
    <3>1. \A j \in 1 .. Len(unacked) : Start(unacked[j]) < Start(s)
      BY <2>3, <2>4
    <3>2. ~(Len(unacked) < Len(unacked))
      BY <1>4
    <3>3. QED
      BY <3>1, <3>2, <2>2, <2>4, <1>4, <1>6, <1>8, InsertAscends
  <2>5. QED
    BY <2>2, <2>4, <1>1, <1>2, <1>3
<1>11. QED
  BY <1>9, <1>10

\* What is left on unsent keeps the free bytes of its last pbuf.
LEMMA TailOversize ==
  ASSUME NEW q \in Seq(Segment), q # <<>>, NEW spare,
         q[Len(q)].len + spare <= MssLocal, unsent' = Tail(q),
         unsent_oversize' = OversizeOf(unsent', spare)
  PROVE  OversizeFits'
<1>1. CASE unsent' = <<>>
  BY <1>1 DEF OversizeFits, OversizeOf
<1>2. CASE unsent' # <<>>
  <2>1. /\ Len(unsent') = Len(q) - 1 /\ Len(q) \in Nat /\ unsent' \in Seq(Segment)
        /\ \A i \in 1 .. Len(q) - 1 : unsent'[i] = q[i + 1]
    BY MoveHead
  <2>2. Len(unsent') >= 1
    BY <2>1, <1>2, EmptySeq
  <2>3. unsent'[Len(unsent')] = q[Len(q)]
    BY <2>1, <2>2
  <2>4. unsent_oversize' = spare
    BY <1>2 DEF OversizeOf
  <2>5. QED
    BY <1>2, <2>3, <2>4 DEF OversizeFits, LastUnsent
<1>3. QED
  BY <1>1, <1>2

LEMMA OutputKeeps ==
  ASSUME IInv, OutputSegment
  PROVE  IInv'
<1>1. PICK s : s = unsent[1]
  OBVIOUS
<1>2. /\ pc' = "sending" /\ rtime' = TRUE /\ unsent' = Tail(unsent)
      /\ rtseq' = (IF rtseq = NoRtt THEN s.seqno ELSE rtseq)
      /\ snd_nxt' = (IF TCP_SEQ_LT(snd_nxt, SegEnd(s)) THEN SegEnd(s) ELSE snd_nxt)
      /\ unsent_oversize' = OversizeOf(unsent', unsent_oversize)
      /\ wire_end' = LWIP_MAX(wire_end, Offset(SegEnd(s)))
      /\ UNCHANGED <<state, snd_lbb, snd_buf, misplaced, ackVars, nrtx, flags, written,
                     reported>>
  BY <1>1 DEF OutputSegment, StartTimers
<1>3. UNCHANGED <<lastack, snd_wnd, snd_wl2, dupacks, acked, persist>>
  BY <1>2 DEF ackVars
<1>4. PICK k : /\ unsent # <<>> /\ Alive
               /\ Inserted(unacked, s, k, unacked')
               /\ ~misplaced => Ascending(unacked')
  BY <1>1, SentPlace
<1>5. /\ unsent \in Seq(Segment) /\ unacked \in Seq(Segment) /\ Len(unacked) \in Nat
      /\ 1 \in 1 .. Len(unsent)
      /\ unacked' \in Seq(Segment) /\ k \in 0 .. Len(unacked) /\ unacked'[k + 1] = s
      /\ Len(unacked') = Len(unacked) + 1
      /\ unsent' \in Seq(Segment)
  BY <1>2, <1>4, Numbers, EmptySeq, MoveHead DEF Inserted
<1>6. Piece(s, written, FinLen)
  BY <1>1, <1>5, QueuedPieces DEF Pieces
<1>7. /\ s \in Segment /\ s.seqno \in SeqNo /\ s.fin \in BOOLEAN
      /\ Start(s) \in Nat /\ End(s) \in Nat /\ End(s) <= written + FinLen
      /\ SegEnd(s) \in SeqNo /\ Offset(SegEnd(s)) = End(s) /\ End(s) < Half
      /\ End(s) > written => s.fin
  BY <1>6, Numbers, PieceFacts
<1>8. /\ lastack \in SeqNo /\ snd_nxt \in SeqNo
      /\ Offset(lastack) \in Nat /\ Offset(snd_nxt) \in Nat /\ Offset(snd_nxt) < Half
      /\ written \in Nat /\ written <= MaxWritten /\ FinLen \in {0, 1} /\ wire_end \in Nat
      /\ Offset(lastack) <= Offset(snd_nxt) /\ Offset(snd_nxt) <= wire_end
      /\ wire_end <= written + FinLen
  BY Numbers
<1>9. snd_nxt' \in SeqNo /\ Offset(snd_nxt') = LWIP_MAX(Offset(snd_nxt), End(s))
  <2>1. TCP_SEQ_LT(snd_nxt, SegEnd(s)) <=> Offset(snd_nxt) < End(s)
    BY <1>7, <1>8, PositionOrder
  <2>2. CASE Offset(snd_nxt) < End(s)
    BY <2>1, <2>2, <1>2, <1>7, <1>8 DEF LWIP_MAX
  <2>3. CASE ~(Offset(snd_nxt) < End(s))
    BY <2>1, <2>3, <1>2, <1>7, <1>8 DEF LWIP_MAX
  <2>4. QED
    BY <2>2, <2>3
<1>10. FinLen' = FinLen /\ Alive' = Alive
  BY <1>2 DEF FinLen, Alive
<1>11. Positions'
  <2>1. wire_end' = LWIP_MAX(wire_end, End(s))
    BY <1>2, <1>7
  <2>2. /\ wire_end' <= written + FinLen /\ Offset(snd_nxt') <= wire_end'
        /\ Offset(lastack) <= Offset(snd_nxt')
    BY <2>1, <1>7, <1>8, <1>9 DEF LWIP_MAX
  <2>3. written <= Offset(snd_lbb) /\ Offset(snd_lbb) <= written + FinLen
    BY Numbers
  <2>4. QED
    BY <2>2, <2>3, <1>2, <1>3, <1>10 DEF Positions
<1>12. Queues'
  <2>1. Holds(Queued, Offset(lastack), written, FinLen, Offset(snd_nxt), misplaced)
    BY <1>4 DEF IInv, Queues
  <2>2. Moves(Queued, Queued', Offset(lastack))
    BY <1>1, <1>2, <1>4, <1>5, SentMoves DEF Queued
  <2>3. Holds(Queued', Offset(lastack), written, FinLen, Offset(snd_nxt), misplaced)
    BY <2>1, <2>2, <1>8, MovesHold
  <2>4. ASSUME Offset(lastack) <= written, written < Offset(snd_nxt')
        PROVE  FinHeld(Queued', written)
    <3>1. CASE written < Offset(snd_nxt)
      BY <2>3, <2>4, <3>1 DEF Holds
    <3>2. CASE ~(written < Offset(snd_nxt))
      <4>1. s.fin /\ End(s) = written + 1
        BY <2>4, <3>2, <1>7, <1>8, <1>9 DEF LWIP_MAX
      <4>2. k + 1 \in 1 .. Len(Queued') /\ Queued'[k + 1] = s
        <5>1. PICK a \in Seq(Segment), b \in Seq(Segment) : a = unacked' /\ b = unsent'
          BY <1>5
        <5>2. PICK q : q = a \o b
          OBVIOUS
        <5>3. Len(q) = Len(a) + Len(b) /\ \A i \in 1 .. Len(a) : q[i] = a[i]
          BY <5>2, JoinFacts
        <5>4. k + 1 \in 1 .. Len(a) /\ a[k + 1] = s /\ Len(a) \in Nat /\ Len(b) \in Nat
          BY <5>1, <1>5
        <5>5. k + 1 \in 1 .. Len(q) /\ q[k + 1] = s
          BY <5>3, <5>4
        <5>6. q = Queued'
          BY <5>1, <5>2 DEF Queued
        <5>7. QED
          BY <5>5, <5>6
      <4>3. QED
        BY <4>1, <4>2 DEF FinHeld
    <3>3. QED
      BY <3>1, <3>2
  <2>5. Holds(Queued', Offset(lastack), written, FinLen, Offset(snd_nxt'), misplaced)
    BY <2>3, <2>4 DEF Holds
  <2>6. QED
    BY <2>5, <1>2, <1>3, <1>4, <1>10 DEF Queues
<1>13. FinSent' /\ SndBufConserved'
  BY <1>2, <1>3, <1>10 DEF IInv, FinSent, SndBufConserved
<1>14. OversizeFits'
  <2>1. unsent[Len(unsent)].len + unsent_oversize <= MssLocal
    BY <1>4 DEF IInv, OversizeFits, LastUnsent
  <2>2. QED
    BY <2>1, <1>2, <1>4, <1>5, TailOversize
<1>15. Types'
  <2>1. rtseq' \in SeqNo \cup {NoRtt}
    BY <1>2, <1>7 DEF IInv, Types
  <2>2. unsent_oversize' \in 0 .. TCP_MSS
    BY <1>2, SendConstants DEF IInv, Types, OversizeOf
  <2>3. wire_end' \in Nat
    BY <1>2, <1>7, <1>8 DEF LWIP_MAX
  <2>4. QED
    BY <2>1, <2>2, <2>3, <1>2, <1>3, <1>5, <1>9 DEF IInv, Types
<1>16. QED
  BY <1>11, <1>12, <1>13, <1>14, <1>15 DEF IInv

\* The PCB is removed with its queues.
LEMMA RemoveKeeps ==
  ASSUME IInv, SlowtmrRemove
  PROVE  IInv'
<1>1. /\ state' = "ABORTED" /\ unsent' = <<>> /\ unacked' = <<>> /\ rtime' = FALSE
      /\ unsent_oversize' = 0 /\ pc' = pc /\ pc = "idle"
      /\ UNCHANGED <<snd_nxt, snd_lbb, snd_buf, misplaced, ackVars, nrtx, rtseq, flags,
                     written, reported, wire_end>>
  BY DEF SlowtmrRemove
<1>2. ~Alive' /\ FinLen' = FinLen
  BY <1>1 DEF Alive, FinLen
<1>3. Types'
  <2>1. /\ state' \in States /\ unsent' \in Seq(Segment) /\ unacked' \in Seq(Segment)
        /\ unsent_oversize' \in 0 .. TCP_MSS
    BY <1>1, SendConstants DEF States
  <2>2. rtime' \in BOOLEAN
    BY <1>1
  <2>3. QED
    BY <2>1, <2>2, <1>1 DEF IInv, Types, ackVars
<1>4. Positions'
  BY <1>1, <1>2 DEF IInv, Positions, ackVars
<1>5. Queues'
  BY <1>1, <1>2 DEF Queues
<1>6. FinSent' /\ OversizeFits' /\ SndBufConserved'
  BY <1>1, <1>2 DEF IInv, FinSent, OversizeFits, SndBufConserved, ackVars
<1>7. QED
  BY <1>3, <1>4, <1>5, <1>6 DEF IInv

\* The probe's byte is in the stream.
LEMMA ProbeKeeps ==
  ASSUME IInv, SlowtmrProbe
  PROVE  IInv'
<1>1. PICK s : s = Queued[1]
  OBVIOUS
<1>2. /\ pc = "idle" /\ Alive /\ Queued # <<>>
      /\ wire_end' = LWIP_MAX(wire_end, Offset(SeqAdd(s.seqno, 1)))
      /\ UNCHANGED <<state, queueVars, ackVars, ccVars, rtxVars, flags, pc, written, reported>>
  BY <1>1 DEF SlowtmrProbe, Queued
<1>3. Piece(s, written, FinLen)
  <2>1. Pieces(Queued, written, FinLen)
    BY QueuedPieces
  <2>2. 1 \in 1 .. Len(Queued)
    BY <2>1, <1>2, EmptySeq DEF Pieces
  <2>3. QED
    BY <2>1, <2>2, <1>1 DEF Pieces
<1>4. /\ s.seqno \in SeqNo /\ Start(s) \in Nat /\ End(s) \in Nat /\ Start(s) < End(s)
      /\ End(s) <= written + FinLen /\ End(s) < Half
  BY <1>3, Numbers, PieceFacts
<1>5. Offset(SeqAdd(s.seqno, 1)) = Start(s) + 1
  BY <1>4, SendConstants, PositionAdd DEF Start
<1>6. /\ written \in Nat /\ FinLen \in {0, 1} /\ wire_end \in Nat
      /\ wire_end <= written + FinLen /\ Offset(snd_nxt) <= wire_end /\ Offset(snd_nxt) \in Nat
  BY Numbers
<1>7. wire_end' \in Nat /\ wire_end' <= written + FinLen /\ Offset(snd_nxt) <= wire_end'
  BY <1>2, <1>4, <1>5, <1>6 DEF LWIP_MAX
<1>8. /\ unsent' = unsent /\ unacked' = unacked /\ snd_nxt' = snd_nxt /\ lastack' = lastack
      /\ snd_lbb' = snd_lbb /\ snd_buf' = snd_buf /\ unsent_oversize' = unsent_oversize
      /\ misplaced' = misplaced /\ written' = written
      /\ state' = state /\ pc' = pc /\ flags' = flags
  BY <1>2 DEF queueVars, ackVars
<1>9. FinLen' = FinLen /\ Alive' = Alive /\ Queued' = Queued
  BY <1>8 DEF FinLen, Alive, Queued
<1>10. Positions'
  BY <1>7, <1>8, <1>9 DEF IInv, Positions
<1>11. Queues'
  BY <1>8, <1>9 DEF IInv, Queues
<1>12. Types'
  BY <1>2, <1>7 DEF IInv, Types, queueVars, ackVars, rtxVars
<1>13. FinSent' /\ OversizeFits' /\ SndBufConserved'
  BY <1>8, <1>9 DEF IInv, FinSent, OversizeFits, LastUnsent, SndBufConserved
<1>14. QED
  BY <1>10, <1>11, <1>12, <1>13 DEF IInv

\* tcp_rexmit_rto puts unacked before unsent again.
LEMMA RexmitKeeps ==
  ASSUME IInv, SlowtmrRexmit
  PROVE  IInv'
<1>1. /\ pc = "idle" /\ Alive /\ unacked # <<>>
      /\ unsent' = unacked \o unsent /\ unacked' = <<>>
      /\ nrtx' = (nrtx + 1) % NrtxWidth /\ rtseq' = NoRtt /\ pc' = "output"
      /\ UNCHANGED <<state, snd_nxt, snd_lbb, snd_buf, unsent_oversize, misplaced, ackVars,
                     rtime, flags, written, reported, wire_end>>
  BY DEF SlowtmrRexmit
<1>2. UNCHANGED <<lastack, snd_wnd, snd_wl2, dupacks, acked, persist>>
  BY <1>1 DEF ackVars
<1>3. FinLen' = FinLen /\ Alive' = Alive
  BY <1>1, <1>2 DEF FinLen, Alive
<1>4. unsent \in Seq(Segment) /\ unacked \in Seq(Segment) /\ unsent' \in Seq(Segment)
      /\ Len(unsent) \in Nat /\ Len(unacked) \in Nat /\ Len(unacked) >= 1
  BY <1>1, Numbers, EmptySeq
<1>5. Queued' = Queued
  <2>1. Queued' = <<>> \o (unacked \o unsent)
    BY <1>1 DEF Queued
  <2>2. unacked \o unsent \in Seq(Segment)
    BY <1>4
  <2>3. QED
    BY <2>1, <2>2 DEF Queued
<1>6. Queues'
  <2>1. Ascending(unacked')
    BY <1>1 DEF Ascending
  <2>2. QED
    BY <2>1, <1>1, <1>2, <1>3, <1>5 DEF IInv, Queues
<1>7. Positions'
  BY <1>1, <1>2, <1>3 DEF IInv, Positions
<1>8. FinSent' /\ SndBufConserved'
  BY <1>1, <1>2, <1>3 DEF IInv, FinSent, SndBufConserved
<1>9. OversizeFits'
  <2>1. PICK l : l = Len(unsent')
    OBVIOUS
  <2>2. l = Len(unacked) + Len(unsent) /\ l >= 1 /\ unsent' # <<>>
    BY <2>1, <1>1, <1>4
  <2>3. CASE unsent = <<>>
    <3>1. unsent_oversize' = 0
      BY <2>3, <1>1 DEF IInv, OversizeFits
    <3>2. Piece(unsent'[l], written, FinLen)
      <4>1. l \in 1 .. Len(unsent') /\ unsent' = Queued
        BY <2>1, <2>2, <1>1, <1>4 DEF Queued
      <4>2. QED
        BY <4>1, QueuedPieces DEF Pieces
    <3>3. unsent'[l].len <= MssLocal /\ unsent'[l].len \in Nat
      BY <3>2, Numbers, PieceFacts
    <3>4. unsent'[l].len + unsent_oversize' <= MssLocal
      BY <3>1, <3>3
    <3>5. QED
      BY <3>4, <2>1, <2>2 DEF OversizeFits, LastUnsent
  <2>4. CASE unsent # <<>>
    <3>1. unsent'[l] = unsent[Len(unsent)]
      <4>1. Len(unsent) >= 1
        BY <2>4, <1>4, EmptySeq
      <4>2. QED
        BY <4>1, <2>2, <1>1, <1>4
    <3>2. unsent[Len(unsent)].len + unsent_oversize <= MssLocal
      BY <2>4 DEF IInv, OversizeFits, LastUnsent
    <3>3. unsent'[Len(unsent')].len + unsent_oversize' <= MssLocal
      BY <3>1, <3>2, <2>1, <1>1
    <3>4. QED
      BY <3>3, <2>2 DEF OversizeFits, LastUnsent
  <2>5. QED
    BY <2>3, <2>4
<1>10. Types'
  <2>1. nrtx \in Nat
    BY SendConstants DEF IInv, Types
  <2>2. nrtx' \in 0 .. NrtxWidth - 1
    BY <2>1, <1>1, SendConstants
  <2>3. unacked' \in Seq(Segment) /\ rtseq' \in SeqNo \cup {NoRtt}
    BY <1>1
  <2>4. pc' \in {"idle", "callback", "output", "sending"}
    BY <1>1
  <2>5. QED
    BY <2>2, <2>3, <2>4, <1>1, <1>2, <1>4 DEF IInv, Types
<1>11. QED
  BY <1>6, <1>7, <1>8, <1>9, <1>10 DEF IInv

-----------------------------------------------------------------------------
(* The application: the stream grows at its end. *)

\* While the application may write, there is no FIN.
LEMMA WritingFacts ==
  ASSUME IInv, MayWrite
  PROVE  /\ Alive /\ "FIN" \notin flags /\ FinLen = 0
         /\ Pieces(unacked \o unsent, written, 0)
         /\ ~misplaced => Tiles(unacked \o unsent, Offset(lastack), written, 0)
         /\ Offset(snd_lbb) = written /\ Offset(lastack) <= written
         /\ Offset(snd_nxt) <= written /\ wire_end <= written
<1>1. Alive
  BY DEF MayWrite, InApplication, Alive
<1>2. "FIN" \notin flags
  BY <1>1 DEF MayWrite, IInv, FinSent
<1>3. FinLen = 0
  BY <1>2 DEF FinLen
<1>4. /\ Offset(snd_lbb) = written /\ Offset(lastack) <= written
      /\ Offset(snd_nxt) <= written /\ wire_end <= written
  BY <1>3, Numbers
<1>5. QED
  BY <1>1, <1>2, <1>3, <1>4 DEF IInv, Queues, Holds, Queued

\* The last unsent segment, and whether it is the end of the stream.
LEMMA LastPiece ==
  ASSUME IInv, MayWrite, unsent # <<>>
  PROVE  /\ Piece(unsent[Len(unsent)], written, 0)
         /\ LastIsEnd <=> End(unsent[Len(unsent)]) = written
<1>1. PICK t : t = unsent[Len(unsent)]
  OBVIOUS
<1>2. Len(unsent) \in 1 .. Len(unsent)
  BY Numbers, EmptySeq
<1>3. Piece(t, written, 0)
  BY <1>1, <1>2, QueuedPieces, WritingFacts DEF Pieces
<1>4. SegEnd(t) \in SeqNo /\ Offset(SegEnd(t)) = End(t) /\ End(t) < Half
  BY <1>3, Numbers, PieceFacts
<1>5. snd_lbb \in SeqNo /\ Offset(snd_lbb) = written /\ Offset(snd_lbb) < Half
  BY Numbers, WritingFacts
<1>6. SegEnd(t) = snd_lbb <=> End(t) = written
  BY <1>4, <1>5, PositionOrder
<1>7. QED
  BY <1>1, <1>3, <1>6 DEF LastIsEnd, LastUnsent

\* tcp_send_fin on the last unsent segment.
LEMMA PiggybackKeeps ==
  ASSUME IInv, ShutdownPiggyback
  PROVE  IInv'
<1>1. /\ MayWrite /\ unsent # <<>> /\ unsent' = [unsent EXCEPT ![Len(unsent)].fin = TRUE]
      /\ flags' = flags \cup {"FIN"} /\ state' = AfterFin /\ pc' = OutputUnlessInput
      /\ misplaced' = (misplaced \/ ~LastIsEnd)
      /\ UNCHANGED <<unacked, snd_nxt, snd_lbb, snd_buf, unsent_oversize, ackVars, ccVars,
                     rtxVars, written, reported, wire_end>>
  BY DEF ShutdownPiggyback
<1>2. UNCHANGED <<lastack, snd_wnd, snd_wl2, dupacks, acked, persist>>
  BY <1>1 DEF ackVars
<1>3. /\ Alive /\ "FIN" \notin flags /\ FinLen = 0
      /\ Pieces(unacked \o unsent, written, 0)
      /\ ~misplaced => Tiles(unacked \o unsent, Offset(lastack), written, 0)
      /\ Offset(snd_lbb) = written /\ Offset(lastack) <= written
      /\ Offset(snd_nxt) <= written /\ wire_end <= written
  BY <1>1, WritingFacts
<1>4. FinLen' = 1 /\ Alive' /\ state' \in {"FIN_WAIT_1", "LAST_ACK"}
  BY <1>1 DEF FinLen, Alive, AfterFin
<1>5. PICK l : l = Len(unsent)
  OBVIOUS
<1>6. l \in Nat /\ l >= 1 /\ unsent \in Seq(Segment) /\ unacked \in Seq(Segment)
      /\ misplaced \in BOOLEAN
  BY <1>1, <1>5, Numbers, EmptySeq DEF IInv, Types
<1>7. /\ Piece(unsent[l], written, 0) /\ unsent[l] \in Segment
      /\ LastIsEnd <=> End(unsent[l]) = written
  BY <1>1, <1>5, LastPiece DEF Piece
<1>8. PICK s : s = [unsent[l] EXCEPT !.fin = TRUE]
  OBVIOUS
<1>9. /\ unsent' \in Seq(Segment) /\ Len(unsent') = l /\ unsent'[l] = s /\ s \in Segment
      /\ \A i \in 1 .. l - 1 : unsent'[i] = unsent[i]
  <2>1. s \in Segment
    BY <1>7, <1>8 DEF Segment
  <2>2. unsent' = [unsent EXCEPT ![l] = s]
    BY <1>1, <1>5, <1>8
  <2>3. QED
    BY <2>1, <2>2, <1>5, <1>6
<1>10. /\ s.len = unsent[l].len /\ Start(s) = Start(unsent[l])
       /\ End(s) = End(unsent[l]) + 1 /\ Piece(s, written, 1)
  <2>1. s.len = unsent[l].len /\ s.seqno = unsent[l].seqno /\ s.fin = TRUE
    BY <1>7, <1>8 DEF Segment
  <2>2. /\ Start(unsent[l]) + unsent[l].len <= written /\ unsent[l].len <= MssLocal
        /\ Start(unsent[l]) \in Nat /\ unsent[l].len \in Nat
        /\ End(unsent[l]) = Start(unsent[l]) + unsent[l].len
    BY <1>7, Numbers, PieceFacts
  <2>3. Start(s) = Start(unsent[l])
    BY <2>1 DEF Start
  <2>4. TCP_TCPLEN(s) = s.len + 1 /\ End(s) = Start(s) + TCP_TCPLEN(s)
    BY <2>1, <1>9, SegmentFacts
  <2>5. written \in Nat /\ s.len \in Nat /\ s \in Segment
    BY <2>1, <2>2, <1>9, Numbers
  <2>6. TCP_TCPLEN(s) >= 1 /\ s.len <= MssLocal /\ Start(s) + s.len <= written
    BY <2>1, <2>2, <2>3, <2>4, <2>5
  <2>7. Piece(s, written, 1)
    BY <2>5, <2>6 DEF Piece
  <2>8. QED
    BY <2>1, <2>2, <2>3, <2>4, <2>7
<1>11. /\ Pieces(unacked' \o unsent', written, 1)
       /\ ~misplaced' => Tiles(unacked' \o unsent', Offset(lastack), written, 1)
  <2>1. PICK d : d = unsent'
    OBVIOUS
  <2>2. LastReplaced(unacked, unsent, d)
    <3>1. SameButLast(unsent, d)
      BY <2>1, <1>5, <1>9 DEF SameButLast
    <3>2. QED
      BY <3>1, <2>1, <1>1, <1>6, <1>9 DEF LastReplaced
  <2>3. PICK one \in {0, 1} : one = 1
    OBVIOUS
  <2>4. /\ Offset(lastack) \in Nat /\ written \in Nat /\ written <= MaxWritten
        /\ written <= written
    BY Numbers
  <2>5. unsent[Len(unsent)] = unsent[l] /\ d[Len(unsent)] = s
    BY <2>1, <1>5, <1>9
  <2>6. TakesPlace(unsent[Len(unsent)], d[Len(unsent)], written, written, one)
    BY <2>3, <2>4, <2>5, <1>10 DEF TakesPlace
  <2>7. /\ Pieces(unacked \o d, written, one)
        /\ /\ Tiles(unacked \o unsent, Offset(lastack), written, 0)
           /\ End(unsent[Len(unsent)]) = written
           /\ End(d[Len(unsent)]) = written + one
           => Tiles(unacked \o d, Offset(lastack), written, one)
    BY <2>2, <2>4, <2>6, <1>3, Replaced
  <2>8. ASSUME ~misplaced' PROVE Tiles(unacked \o d, Offset(lastack), written, one)
    <3>1. ~misplaced /\ End(unsent[l]) = written
      BY <2>8, <1>1, <1>7
    <3>2. QED
      BY <3>1, <2>3, <2>5, <2>7, <1>3, <1>10
  <2>9. QED
    BY <2>1, <2>3, <2>7, <2>8, <1>1
<1>12. Queues'
  <2>1. ~(written < Offset(snd_nxt))
    BY <1>3, Numbers
  <2>2. Holds(Queued', Offset(lastack'), written', FinLen', Offset(snd_nxt'), misplaced')
    BY <2>1, <1>1, <1>2, <1>4, <1>11 DEF Holds, Queued
  <2>3. ~misplaced' => Ascending(unacked')
    BY <1>1, <1>3 DEF IInv, Queues
  <2>4. QED
    BY <2>2, <2>3, <1>4 DEF Queues
<1>13. Positions'
  <2>1. wire_end <= written + 1 /\ Offset(snd_lbb) <= written + 1
    BY <1>3, Numbers
  <2>2. QED
    BY <2>1, <1>1, <1>2, <1>4 DEF IInv, Positions
<1>14. FinSent' /\ SndBufConserved'
  BY <1>1, <1>2, <1>4 DEF IInv, FinSent, SndBufConserved
<1>15. OversizeFits'
  <2>1. unsent[l].len + unsent_oversize <= MssLocal
    BY <1>1, <1>5 DEF IInv, OversizeFits, LastUnsent
  <2>2. unsent' # <<>>
    BY <1>6, <1>9, EmptySeq
  <2>3. unsent'[Len(unsent')].len = unsent[l].len
    BY <1>9, <1>10
  <2>4. QED
    BY <2>1, <2>2, <2>3, <1>1 DEF OversizeFits, LastUnsent
<1>16. Types'
  <2>1. flags' \subseteq {"INFR", "NAGLEMEMERR", "FIN"}
    BY <1>1 DEF IInv, Types
  <2>2. pc' \in {"idle", "callback", "output", "sending"}
    BY <1>1 DEF IInv, Types, OutputUnlessInput
  <2>3. state' \in States /\ misplaced' \in BOOLEAN
    BY <1>1, <1>4 DEF States
  <2>4. QED
    BY <2>1, <2>2, <2>3, <1>1, <1>2, <1>9 DEF IInv, Types, rtxVars
<1>17. QED
  BY <1>12, <1>13, <1>14, <1>15, <1>16 DEF IInv

\* tcp_send_fin with a segment of its own.
LEMMA EnqueueKeeps ==
  ASSUME IInv, ShutdownEnqueue
  PROVE  IInv'
<1>1. PICK s : s = [seqno |-> snd_lbb, len |-> 0, fin |-> TRUE, bufs |-> 1]
  OBVIOUS
<1>2. /\ MayWrite /\ unsent = <<>> /\ snd_buf > 0 /\ unsent' = <<s>>
      /\ unsent_oversize' = 0 /\ snd_lbb' = SeqAdd(snd_lbb, 1) /\ snd_buf' = snd_buf - 1
      /\ flags' = flags \cup {"FIN"} /\ state' = AfterFin /\ pc' = OutputUnlessInput
      /\ UNCHANGED <<unacked, snd_nxt, misplaced, ackVars, ccVars, rtxVars, written,
                     reported, wire_end>>
  BY <1>1 DEF ShutdownEnqueue
<1>3. UNCHANGED <<lastack, snd_wnd, snd_wl2, dupacks, acked, persist>>
  BY <1>2 DEF ackVars
<1>4. /\ Alive /\ "FIN" \notin flags /\ FinLen = 0
      /\ Pieces(unacked \o unsent, written, 0)
      /\ ~misplaced => Tiles(unacked \o unsent, Offset(lastack), written, 0)
      /\ Offset(snd_lbb) = written /\ Offset(lastack) <= written
      /\ Offset(snd_nxt) <= written /\ wire_end <= written
  BY <1>2, WritingFacts
<1>5. FinLen' = 1 /\ Alive' /\ state' \in {"FIN_WAIT_1", "LAST_ACK"}
  BY <1>2 DEF FinLen, Alive, AfterFin
<1>6. /\ unacked \in Seq(Segment) /\ snd_lbb \in SeqNo /\ written \in Nat
      /\ Offset(lastack) \in Nat /\ written <= MaxWritten /\ written + 1 < Half
      /\ Offset(snd_lbb) \in Nat /\ snd_buf \in Nat
  BY <1>4, Numbers
<1>7. snd_lbb' \in SeqNo /\ Offset(snd_lbb') = written + 1
  BY <1>2, <1>4, <1>6, PositionAdd
<1>8. s \in Segment /\ Start(s) = written /\ s.len = 0 /\ s.fin
  BY <1>1, <1>4, <1>6 DEF Segment, Start
<1>9. End(s) = written + 1 /\ Piece(s, written, 1)
  <2>1. TCP_TCPLEN(s) = 1 /\ End(s) = Start(s) + TCP_TCPLEN(s)
    BY <1>8, SegmentFacts
  <2>2. QED
    BY <2>1, <1>6, <1>8, SendConstants DEF Piece
<1>10. unsent' \in Seq(Segment) /\ Len(unsent') = 1 /\ unsent'[1] = s
  BY <1>2, <1>8
<1>11. /\ Pieces(unacked' \o unsent', written, 1)
       /\ ~misplaced => Tiles(unacked' \o unsent', Offset(lastack), written, 1)
  <2>1. PICK r \in Seq(Segment) : r = unsent'
    BY <1>10
  <2>2. /\ Len(r) = 1 /\ r[1] = s
    BY <2>1, <1>10
  <2>3. PICK one \in {0, 1} : one = 1
    OBVIOUS
  <2>4. Pieces(r, written, one)
    BY <2>2, <2>3, <1>9 DEF Pieces
  <2>5. \A n \in written + 1 .. written + one :
          \E i \in 1 .. Len(r) : Start(r[i]) < n /\ n <= End(r[i])
    <3>1. \A n \in written + 1 .. written + one : Start(r[1]) < n /\ n <= End(r[1])
      BY <2>2, <2>3, <1>6, <1>8, <1>9
    <3>2. 1 \in 1 .. Len(r)
      BY <2>2
    <3>3. QED
      BY <3>1, <3>2
  <2>6. \A i \in 1 .. Len(r) : written <= Start(r[i]) /\ (r[i].fin => End(r[i]) = written + 1)
    BY <2>2, <1>6, <1>8, <1>9
  <2>7. \A i, j \in 1 .. Len(r) : i < j => End(r[i]) <= Start(r[j])
    BY <2>2
  <2>8. Continues(r, written, written, one)
    BY <2>4, <2>5, <2>6, <2>7, <1>6 DEF Continues
  <2>9. unacked \o unsent = unacked
    BY <1>2, <1>6, ConcatEmptySeq
  <2>10. Pieces(unacked, written, 0)
    BY <2>9, <1>4
  <2>11. Pieces(unacked \o r, written, one)
    <3>1. Pieces(unacked, written, one)
      BY <2>10, <1>6, PiecesGrow
    <3>2. QED
      BY <3>1, <2>4, <1>6, PiecesJoin
  <2>12. ASSUME ~misplaced PROVE Tiles(unacked \o r, Offset(lastack), written, one)
    <3>1. Tiles(unacked, Offset(lastack), written, 0)
      BY <2>9, <2>12, <1>4
    <3>2. QED
      BY <3>1, <2>8, <2>10, <1>6, TilesAppend
  <2>13. QED
    BY <2>1, <2>3, <2>11, <2>12, <1>2
<1>12. Queues'
  <2>1. ~(written < Offset(snd_nxt))
    BY <1>4, Numbers
  <2>2. Holds(Queued', Offset(lastack'), written', FinLen', Offset(snd_nxt'), misplaced')
    BY <2>1, <1>2, <1>3, <1>5, <1>11 DEF Holds, Queued
  <2>3. ~misplaced' => Ascending(unacked')
    BY <1>2, <1>4 DEF IInv, Queues
  <2>4. QED
    BY <2>2, <2>3, <1>5 DEF Queues
<1>13. Positions'
  <2>1. wire_end <= written + 1 /\ written <= Offset(snd_lbb') /\ Offset(snd_lbb') <= written + 1
    BY <1>4, <1>6, <1>7, Numbers
  <2>2. QED
    BY <2>1, <1>2, <1>3, <1>5 DEF IInv, Positions
<1>14. FinSent'
  BY <1>2, <1>5 DEF FinSent
<1>15. SndBufConserved'
  <2>1. snd_buf + Offset(snd_lbb) = TCP_SND_BUF + Offset(lastack)
    BY DEF IInv, SndBufConserved
  <2>2. snd_buf' + Offset(snd_lbb') = TCP_SND_BUF + Offset(lastack')
    BY <2>1, <1>2, <1>3, <1>4, <1>6, <1>7
  <2>3. QED
    BY <2>2 DEF SndBufConserved
<1>16. OversizeFits'
  <2>1. unsent' # <<>> /\ unsent'[Len(unsent')].len + unsent_oversize' <= MssLocal
    BY <1>2, <1>8, <1>10, SendConstants
  <2>2. QED
    BY <2>1 DEF OversizeFits, LastUnsent
<1>17. Types'
  <2>1. flags' \subseteq {"INFR", "NAGLEMEMERR", "FIN"}
    BY <1>2 DEF IInv, Types
  <2>2. pc' \in {"idle", "callback", "output", "sending"}
    BY <1>2 DEF IInv, Types, OutputUnlessInput
  <2>3. state' \in States
    BY <1>5 DEF States
  <2>4. snd_buf' \in 0 .. TCP_SND_BUF + 1 /\ unsent_oversize' \in 0 .. TCP_MSS
    BY <1>2, <1>6, SendConstants DEF IInv, Types
  <2>5. QED
    BY <2>1, <2>2, <2>3, <2>4, <1>2, <1>3, <1>7, <1>10 DEF IInv, Types, rtxVars
<1>18. QED
  BY <1>12, <1>13, <1>14, <1>15, <1>16, <1>17 DEF IInv

\* What phase 1 and phase 2 of tcp_write take fits the last unsent segment.
LEMMA PhaseFacts ==
  ASSUME IInv, MayWrite, NEW len \in Nat, len >= 1
  PROVE  /\ Phase1(len) \in Nat /\ Phase2(len) \in Nat
         /\ Phase1(len) + Phase2(len) <= len
         /\ unsent # <<>> =>
              LastUnsent.len + Phase1(len) + Phase2(len) <= MssLocal
         /\ unsent = <<>> => Phase1(len) = 0 /\ Phase2(len) = 0
         /\ Phase1(len) <= unsent_oversize
<1>1. unsent_oversize \in Nat /\ MssLocal \in Nat
  BY Numbers, SendConstants
<1>2. CASE unsent = <<>>
  <2>1. unsent_oversize = 0
    BY <1>2 DEF IInv, OversizeFits
  <2>2. Phase1(len) = 0 /\ Phase2(len) = 0
    BY <2>1, <1>2 DEF Phase1, Phase2, LWIP_MIN
  <2>3. QED
    BY <2>1, <2>2, <1>2
<1>3. CASE unsent # <<>>
  <2>1. LastUnsent.len + unsent_oversize <= MssLocal
    BY <1>3 DEF IInv, OversizeFits
  <2>2. PICK l \in 1 .. Len(unsent) : LastUnsent = unsent[l]
    BY <1>3, Numbers, EmptySeq DEF LastUnsent
  <2>4. Piece(unsent[l], written, 0)
    BY WritingFacts, QueuedPieces DEF Pieces
  <2>5. LastUnsent.len \in Nat /\ LastUnsent.len >= 1
    <3>1. PICK s : s = unsent[l]
      OBVIOUS
    <3>2. Piece(s, written, 0) /\ written \in Nat /\ written <= MaxWritten
      BY <3>1, <2>4, Numbers
    <3>3. /\ s.len \in Nat /\ Start(s) \in Nat /\ Start(s) < End(s) /\ ~s.fin
          /\ End(s) = (IF s.fin THEN Start(s) + s.len + 1 ELSE Start(s) + s.len)
      BY <3>2, PieceFacts
    <3>4. QED
      BY <3>1, <3>3, <2>2
  <2>6. PICK m \in Nat : m = LastUnsent.len /\ m >= 1 /\ m + unsent_oversize <= MssLocal
    BY <2>1, <2>5
  <2>7. Phase1(len) = LWIP_MIN(unsent_oversize, len)
    BY DEF Phase1
  <2>8. Phase2(len) = LWIP_MIN(MssLocal - m, len) - LWIP_MIN(unsent_oversize, len)
    BY <2>6, <2>7, <1>3 DEF Phase2
  <2>9. PICK p1, p2 : p1 = Phase1(len) /\ p2 = Phase2(len)
    OBVIOUS
  <2>10. p1 \in Nat /\ p1 <= unsent_oversize /\ p1 <= len
         /\ p1 = LWIP_MIN(unsent_oversize, len)
    BY <2>7, <2>9, <1>1 DEF LWIP_MIN
  <2>11. p2 \in Nat /\ p1 + p2 <= len /\ m + p1 + p2 <= MssLocal
    <3>1. p2 = LWIP_MIN(MssLocal - m, len) - p1 /\ MssLocal - m >= unsent_oversize
          /\ MssLocal - m \in Nat
      BY <2>6, <2>8, <2>9, <2>10, <1>1
    <3>2. CASE len <= unsent_oversize
      BY <3>1, <3>2, <2>6, <2>10, <1>1 DEF LWIP_MIN
    <3>3. CASE len > unsent_oversize
      <4>1. p1 = unsent_oversize
        BY <3>3, <2>10, <1>1 DEF LWIP_MIN
      <4>2. CASE MssLocal - m < len
        <5>1. p2 = (MssLocal - m) - unsent_oversize
          BY <4>1, <4>2, <3>1 DEF LWIP_MIN
        <5>2. QED
          <6>1. PICK M \in Nat, o \in Nat : M = MssLocal /\ o = unsent_oversize
            BY <1>1
          <6>2. p2 = (M - m) - o /\ p1 = o /\ m + o <= M /\ M - m < len
            BY <5>1, <4>1, <4>2, <2>6, <6>1
          <6>3. p2 \in Nat /\ p1 + p2 <= len /\ m + p1 + p2 <= M
            BY <6>2
          <6>4. QED
            BY <6>1, <6>3
      <4>3. CASE ~(MssLocal - m < len)
        BY <4>1, <4>3, <3>1, <3>3, <2>6, <1>1 DEF LWIP_MIN
      <4>4. QED
        BY <4>2, <4>3
    <3>4. QED
      BY <3>2, <3>3, <1>1
  <2>12. QED
    BY <2>6, <2>9, <2>10, <2>11, <1>3
<1>4. QED
  BY <1>2, <1>3

\* s is t with k bytes and c pbufs more.
Extends(s, t, k, c) == s = [t EXCEPT !.len = t.len + k, !.bufs = t.bufs + c]

\* The last segment of a line and what it is with k bytes and c pbufs more.
LEMMA ExtendSegment ==
  ASSUME NEW t \in Segment, NEW k \in Nat, NEW c \in Nat,
         NEW s, Extends(s, t, k, c)
  PROVE  s \in Segment /\ s.len = t.len + k /\ s.seqno = t.seqno /\ s.fin = t.fin
<1>1. t.len \in Nat /\ t.bufs \in Nat
  BY SegmentFacts
<1>2. PICK ln \in Nat, bf \in Nat : ln = t.len + k /\ bf = t.bufs + c
  BY <1>1
<1>3. s = [t EXCEPT !.len = ln, !.bufs = bf]
  BY <1>2 DEF Extends
<1>4. QED
  BY <1>2, <1>3 DEF Segment

LEMMA ExtendPlace ==
  ASSUME NEW w \in Nat, NEW k \in Nat, w + k <= MaxWritten,
         NEW t, Piece(t, w, 0),
         NEW s \in Segment, s.len = t.len + k, s.seqno = t.seqno, s.fin = t.fin,
         s.len <= MssLocal
  PROVE  TakesPlace(t, s, w, w + k, 0) /\ End(s) = End(t) + k
<1>1. w <= MaxWritten
  BY SendConstants
<1>2. /\ t.len \in Nat /\ ~t.fin /\ Start(t) \in Nat /\ Start(t) < End(t)
      /\ End(t) = (IF t.fin THEN Start(t) + t.len + 1 ELSE Start(t) + t.len)
      /\ Start(t) + t.len <= w
  BY <1>1, PieceFacts
<1>3. Start(s) = Start(t)
  BY DEF Start
<1>4. End(s) = Start(s) + s.len /\ TCP_TCPLEN(s) = s.len
  <2>1. ~s.fin
    BY <1>2
  <2>2. QED
    BY <2>1, SegmentFacts
<1>5. PICK a \in Nat, b \in Nat : a = Start(t) /\ b = t.len /\ a + b <= w /\ b >= 1
                                  /\ End(t) = a + b
  BY <1>2
<1>6. End(s) = End(t) + k /\ Start(s) + s.len <= w + k /\ TCP_TCPLEN(s) >= 1
  BY <1>3, <1>4, <1>5
<1>7. ~s.fin
  BY <1>2
<1>8. Piece(s, w + k, 0)
  BY <1>6, <1>7 DEF Piece
<1>9. QED
  BY <1>3, <1>6, <1>8 DEF TakesPlace

\* The last segment of a line takes k bytes more.
LEMMA ExtendTiles ==
  ASSUME NEW a \in Seq(Segment), NEW b \in Seq(Segment), b # <<>>,
         NEW k \in Nat, NEW c \in Nat, NEW d, d = ExtendLast(b, k, c)
  PROVE  /\ LastReplaced(a, b, d) /\ d # <<>> /\ Len(d) = Len(b)
         /\ b[Len(b)] \in Segment /\ d[Len(b)] \in Segment
         /\ d[Len(b)].len = b[Len(b)].len + k
         /\ d[Len(b)].seqno = b[Len(b)].seqno /\ d[Len(b)].fin = b[Len(b)].fin
<1>1. PICK l \in 1 .. Len(b) : l = Len(b)
  BY EmptySeq
<1>2. PICK t \in Segment : t = b[l]
  OBVIOUS
<1>3. PICK s : Extends(s, t, k, c)
  BY DEF Extends
<1>4. s \in Segment /\ s.len = t.len + k /\ s.seqno = t.seqno /\ s.fin = t.fin
  BY <1>3, ExtendSegment
<1>5. d = [b EXCEPT ![l] = s]
  <2>1. d = [b EXCEPT ![l].len = @ + k, ![l].bufs = @ + c]
    BY <1>1 DEF ExtendLast
  <2>2. QED
    BY <2>1, <1>2, <1>3 DEF Extends
<1>6. d \in Seq(Segment) /\ Len(d) = Len(b)
  BY <1>4, <1>5
<1>7. d[l] = s
  BY <1>4, <1>5
<1>8. \A i \in 1 .. Len(b) - 1 : d[i] = b[i]
  BY <1>1, <1>4, <1>5
<1>9. d # <<>>
  BY <1>1, <1>6, EmptySeq
<1>10. LastReplaced(a, b, d)
  BY <1>6, <1>8 DEF LastReplaced, SameButLast
<1>11. QED
  BY <1>1, <1>2, <1>4, <1>6, <1>7, <1>9, <1>10

\* Phase 1 and phase 2 of tcp_write lengthen the last unsent segment.
LEMMA ExtendedLine ==
  ASSUME IInv, MayWrite, NEW len \in Nat, len >= 1, written + len <= MaxWritten,
         NEW pos \in Nat, pos = Phase1(len) + Phase2(len), NEW c \in Nat,
         NEW mid, mid = (IF pos = 0 THEN unsent ELSE ExtendLast(unsent, pos, c))
  PROVE  /\ mid \in Seq(Segment)
         /\ Pieces(unacked \o mid, written + pos, 0)
         /\ ~misplaced /\ (pos = 0 \/ LastIsEnd) =>
              Tiles(unacked \o mid, Offset(lastack), written + pos, 0)
         /\ unsent # <<>> => /\ mid # <<>>
                             /\ mid[Len(mid)].len = LastUnsent.len + pos
         /\ unsent = <<>> => mid = <<>> /\ pos = 0
<1>1. /\ unsent \in Seq(Segment) /\ unacked \in Seq(Segment) /\ written \in Nat
      /\ Offset(lastack) \in Nat /\ written <= MaxWritten /\ Len(unsent) \in Nat
  BY Numbers
<1>2. /\ Pieces(unacked \o unsent, written, 0)
      /\ ~misplaced => Tiles(unacked \o unsent, Offset(lastack), written, 0)
  BY WritingFacts
<1>3. /\ Phase1(len) \in Nat /\ Phase2(len) \in Nat /\ pos <= len
      /\ unsent # <<>> => LastUnsent.len + Phase1(len) + Phase2(len) <= MssLocal
      /\ unsent = <<>> => Phase1(len) = 0 /\ Phase2(len) = 0
  BY PhaseFacts
<1>4. unsent # <<>> => LastUnsent.len \in Nat
  <2>1. SUFFICES ASSUME unsent # <<>> PROVE LastUnsent \in Segment
    BY SegmentFacts
  <2>2. Len(unsent) \in 1 .. Len(unsent)
    BY <2>1, <1>1, EmptySeq
  <2>3. QED
    BY <2>2, <1>1 DEF LastUnsent
<1>5. CASE pos = 0
  <2>1. mid = unsent /\ written + pos = written
    BY <1>1, <1>5
  <2>2. unsent # <<>> => mid[Len(mid)].len = LastUnsent.len + pos
    BY <2>1, <1>4, <1>5 DEF LastUnsent
  <2>3. QED
    BY <2>1, <2>2, <1>1, <1>2, <1>5
<1>6. CASE pos # 0
  <2>1. unsent # <<>> /\ mid = ExtendLast(unsent, pos, c)
    BY <1>3, <1>6
  <2>2. LastUnsent.len + pos <= MssLocal /\ written + pos <= MaxWritten
    <3>1. PICK m, p1, p2 : m = LastUnsent.len /\ p1 = Phase1(len) /\ p2 = Phase2(len)
      OBVIOUS
    <3>2. m \in Nat /\ p1 \in Nat /\ p2 \in Nat /\ pos = p1 + p2 /\ m + p1 + p2 <= MssLocal
      BY <3>1, <2>1, <1>3, <1>4
    <3>3. m + pos <= MssLocal
      BY <3>2, SendConstants
    <3>4. written + pos <= MaxWritten
      BY <1>1, <1>3, SendConstants
    <3>5. QED
      BY <3>1, <3>3, <3>4
  <2>3. PICK t : t = unsent[Len(unsent)]
    OBVIOUS
  <2>4. PICK s : s = mid[Len(unsent)]
    OBVIOUS
  <2>5. /\ LastReplaced(unacked, unsent, mid) /\ mid # <<>> /\ Len(mid) = Len(unsent)
        /\ s \in Segment /\ s.len = t.len + pos /\ s.seqno = t.seqno /\ s.fin = t.fin
    BY <2>1, <2>3, <2>4, <1>1, ExtendTiles
  <2>6. Piece(t, written, 0) /\ (LastIsEnd <=> End(t) = written)
    BY <2>1, <2>3, LastPiece
  <2>7. s.len <= MssLocal
    BY <2>2, <2>3, <2>5 DEF LastUnsent
  <2>8. TakesPlace(t, s, written, written + pos, 0) /\ End(s) = End(t) + pos
    BY <2>2, <2>5, <2>6, <2>7, <1>1, ExtendPlace
  <2>9. PICK w2 \in Nat, f \in {0, 1} : w2 = written + pos /\ f = 0
    BY <1>1
  <2>10. TakesPlace(unsent[Len(unsent)], mid[Len(unsent)], written, w2, f)
    BY <2>3, <2>4, <2>8, <2>9
  <2>11. /\ Pieces(unacked \o mid, w2, f)
         /\ Tiles(unacked \o unsent, Offset(lastack), written, 0)
            /\ End(t) = written /\ End(s) = w2 + f
              => Tiles(unacked \o mid, Offset(lastack), w2, f)
    BY <2>3, <2>4, <2>5, <2>10, <1>1, <1>2, Replaced
  <2>14. ASSUME ~misplaced, LastIsEnd
         PROVE  Tiles(unacked \o mid, Offset(lastack), written + pos, 0)
    <3>1. End(t) = written /\ End(s) = w2 + f
      BY <2>6, <2>8, <2>9, <2>14, <1>1
    <3>2. QED
      BY <3>1, <2>9, <2>11, <2>14, <1>2
  <2>12. mid \in Seq(Segment)
    BY <2>5 DEF LastReplaced
  <2>13. QED
    BY <2>1, <2>3, <2>4, <2>5, <2>9, <2>11, <2>12, <2>14, <1>6 DEF LastUnsent
<1>7. QED
  BY <1>5, <1>6

\* The queues of a write: mid after phases 1 and 2, new of phase 3, r together.
Written(len, pos, mid, new, r) ==
  /\ pos \in Nat /\ pos = Phase1(len) + Phase2(len)
  /\ mid \in Seq(Segment) /\ Pieces(unacked \o mid, written + pos, 0)
  /\ new = NewSegments(pos, len)
  /\ r = mid \o new

\* Phase 3 appends the segments it makes.
LEMMA WrittenLine ==
  ASSUME IInv, MayWrite, NEW len \in Nat, len >= 1, written + len <= MaxWritten,
         NEW pos, NEW mid, NEW new, NEW r, Written(len, pos, mid, new, r)
  PROVE  /\ r \in Seq(Segment) /\ new \in Seq(Segment)
         /\ Pieces(unacked \o r, written + len, 0)
         /\ Tiles(unacked \o mid, Offset(lastack), written + pos, 0) =>
              Tiles(unacked \o r, Offset(lastack), written + len, 0)
         /\ new # <<>> => /\ Len(new) \in 1 .. Len(new)
                          /\ new[Len(new)].len \in Nat /\ new[Len(new)].len <= MssLocal
         /\ new = <<>> => pos = len
<1>1. /\ unacked \in Seq(Segment) /\ written \in Nat /\ snd_lbb \in SeqNo
      /\ Offset(lastack) \in Nat /\ pos \in Nat /\ mid \in Seq(Segment)
      /\ new = NewSegments(pos, len)
  BY Numbers DEF Written
<1>2. Offset(snd_lbb) = written /\ Offset(lastack) <= written
  BY WritingFacts
<1>3. pos <= len
  BY PhaseFacts DEF Written
<1>4. PICK w \in Nat, w2 \in Nat, f \in {0, 1} : w = written + pos /\ w2 = written + len /\ f = 0
  BY <1>1
<1>5. w <= w2 /\ w2 <= MaxWritten /\ w <= MaxWritten
      /\ w + f <= w2 + f
  BY <1>1, <1>2, <1>3, <1>4, SendConstants
<1>6. new \in Seq(Segment) /\ Continues(new, w, w2, f) /\ (new = <<>> => pos = len)
  <2>1. NewLine(new, written + pos, written + len) /\ (new = <<>> <=> pos = len)
    BY <1>1, <1>2, <1>3, NewSegmentsFacts
  <2>2. NewLine(new, w, w2) /\ w2 + f = w2 /\ f = 0
    BY <2>1, <1>4
  <2>3. new \in Seq(Segment) /\ Len(new) \in Nat
    BY <2>2 DEF NewLine
  <2>4. Pieces(new, w2, f)
    BY <2>2, <2>3 DEF NewLine, Pieces
  <2>5. ASSUME NEW i \in 1 .. Len(new)
        PROVE  w <= Start(new[i]) /\ (new[i].fin => End(new[i]) = w2 + 1)
    <3>1. Piece(new[i], w2, f)
      BY <2>4 DEF Pieces
    <3>2. new[i].fin => f = 1
      BY <3>1 DEF Piece
    <3>3. QED
      BY <3>2, <2>2 DEF NewLine
  <2>6. QED
    BY <2>1, <2>2, <2>3, <2>4, <2>5, <1>5 DEF NewLine, Continues
<1>7. PICK q : q = unacked \o mid
  OBVIOUS
<1>8. Pieces(q, w, 0)
  BY <1>4, <1>7 DEF Written
<1>9. Pieces(q \o new, w2, f)
  <2>1. Pieces(q, w2, f) /\ q \in Seq(Segment)
    BY <1>5, <1>8, PiecesGrow DEF Pieces
  <2>2. QED
    BY <2>1, <1>6, PiecesJoin DEF Continues
<1>12. Tiles(q, Offset(lastack), w, 0) => Tiles(q \o new, Offset(lastack), w2, f)
  BY <1>1, <1>6, <1>8, TilesAppend
<1>10. unacked \o r = q \o new /\ r \in Seq(Segment)
  <2>1. unacked \in Seq(Segment) /\ mid \in Seq(Segment) /\ new \in Seq(Segment)
    BY <1>1, <1>6
  <2>2. (unacked \o mid) \o new = unacked \o (mid \o new)
    BY <2>1, ConcatAssociative
  <2>3. mid \o new \in Seq(Segment)
    BY <2>1, ConcatProperties
  <2>4. QED
    BY <2>2, <2>3, <1>7 DEF Written
<1>11. new # <<>> => /\ Len(new) \in 1 .. Len(new)
                     /\ new[Len(new)].len \in Nat /\ new[Len(new)].len <= MssLocal
  <2>1. SUFFICES ASSUME new # <<>>
                 PROVE  /\ Len(new) \in 1 .. Len(new)
                        /\ new[Len(new)].len \in Nat /\ new[Len(new)].len <= MssLocal
    OBVIOUS
  <2>2. Len(new) \in 1 .. Len(new)
    BY <2>1, <1>6, EmptySeq
  <2>3. new[Len(new)] \in Segment
    BY <2>2, <1>6
  <2>4. new[Len(new)].len <= MssLocal
    BY <2>2, <1>6 DEF Piece, Pieces, Continues
  <2>5. QED
    BY <2>2, <2>3, <2>4, SegmentFacts
<1>13. QED
  BY <1>4, <1>6, <1>7, <1>9, <1>10, <1>11, <1>12

\* The free bytes a write leaves in the last pbuf fit its segment.
LEMMA OversizeFacts ==
  ASSUME IInv, MayWrite, NEW len \in Nat, len >= 1, NEW new,
         new # <<>> => new[Len(new)].len \in Nat /\ new[Len(new)].len <= MssLocal,
         new = <<>> => Phase1(len) + Phase2(len) = len,
         NEW o, o = Oversize(len, new)
  PROVE  /\ o \in Nat /\ o <= MssLocal
         /\ new # <<>> => new[Len(new)].len + o <= MssLocal
         /\ new = <<>> => /\ unsent # <<>>
                          /\ LastUnsent.len + Phase1(len) + Phase2(len) + o <= MssLocal
<1>1. /\ Phase1(len) \in Nat /\ Phase2(len) \in Nat
      /\ unsent # <<>> => LastUnsent.len + Phase1(len) + Phase2(len) <= MssLocal
      /\ unsent = <<>> => Phase1(len) = 0 /\ Phase2(len) = 0
      /\ Phase1(len) <= unsent_oversize
  BY PhaseFacts
<1>2. unsent_oversize \in Nat /\ MssLocal \in Nat
  BY Numbers, SendConstants
<1>3. CASE new # <<>>
  <2>1. PICK m \in Nat : m = new[Len(new)].len /\ m <= MssLocal
    BY <1>3
  <2>2. o = MssLocal - m \/ o = 0
    BY <2>1, <1>3 DEF Oversize, tcp_pbuf_prealloc
  <2>3. o \in Nat /\ m + o <= MssLocal
    BY <2>1, <2>2, <1>2
  <2>4. QED
    BY <2>1, <2>3, <1>2, <1>3
<1>4. CASE new = <<>>
  <2>1. unsent # <<>>
    BY <1>1, <1>4
  <2>2. LastUnsent.len \in Nat
    <3>1. Piece(LastUnsent, written, 0)
      BY <2>1, LastPiece DEF LastUnsent
    <3>2. QED
      BY <3>1, SegmentFacts DEF Piece
  <2>3. PICK L \in Nat, p1 \in Nat, p2 \in Nat, M \in Nat, v \in Nat :
          /\ L = LastUnsent.len /\ p1 = Phase1(len) /\ p2 = Phase2(len)
          /\ M = MssLocal /\ v = unsent_oversize
    BY <2>2, <1>1, <1>2
  <2>4. L + p1 + p2 <= M /\ p1 <= v
    BY <2>1, <2>3, <1>1
  <2>5. L + v <= M
    BY <2>1, <2>3 DEF IInv, OversizeFits
  <2>6. CASE p2 > 0
    <3>1. o = M - L - p1 - p2 \/ o = 0
      BY <2>3, <2>6, <1>4 DEF Oversize, tcp_pbuf_prealloc
    <3>2. o \in Nat /\ L + p1 + p2 + o <= M
      BY <3>1, <2>4
    <3>3. QED
      BY <3>2, <2>1, <2>3, <1>4
  <2>7. CASE p2 = 0
    <3>1. o = v - p1
      BY <2>3, <2>7, <1>4 DEF Oversize
    <3>2. o \in Nat /\ L + p1 + p2 + o <= M
      BY <3>1, <2>4, <2>5, <2>7
    <3>3. QED
      BY <3>2, <2>1, <2>3, <1>4
  <2>8. QED
    BY <2>6, <2>7
<1>5. QED
  BY <1>3, <1>4

\* tcp_write.
LEMMA WriteKeeps ==
  ASSUME IInv, NEW len \in Nat, len >= 1, tcp_write(len)
  PROVE  IInv'
<1>1. PICK pos, c, new, mid :
        /\ pos = Phase1(len) + Phase2(len)
        /\ c = (IF Phase2(len) > 0 THEN 1 ELSE 0)
        /\ new = NewSegments(pos, len)
        /\ mid = (IF pos = 0 THEN unsent ELSE ExtendLast(unsent, pos, c))
  OBVIOUS
<1>2. /\ MayWrite /\ written + len <= MaxWritten /\ len <= snd_buf
      /\ unsent' = mid \o new /\ unsent_oversize' = Oversize(len, new)
      /\ snd_lbb' = SeqAdd(snd_lbb, len) /\ snd_buf' = snd_buf - len
      /\ written' = written + len
      /\ misplaced' = (misplaced \/ (pos > 0 /\ ~LastIsEnd))
      /\ UNCHANGED <<state, unacked, snd_nxt, ackVars, ccVars, rtxVars, flags, pc, reported,
                     wire_end>>
  BY <1>1 DEF tcp_write
<1>3. UNCHANGED <<lastack, snd_wnd, snd_wl2, dupacks, acked, persist>>
  BY <1>2 DEF ackVars
<1>4. /\ Alive /\ FinLen = 0 /\ Offset(snd_lbb) = written
      /\ Offset(lastack) <= written /\ Offset(snd_nxt) <= written /\ wire_end <= written
  BY <1>2, WritingFacts
<1>5. FinLen' = FinLen /\ Alive' = Alive
  BY <1>2 DEF FinLen, Alive
<1>6. pos \in Nat /\ c \in Nat
  BY <1>1, <1>2, PhaseFacts
<1>7. /\ mid \in Seq(Segment)
      /\ Pieces(unacked \o mid, written + pos, 0)
      /\ ~misplaced /\ (pos = 0 \/ LastIsEnd) =>
           Tiles(unacked \o mid, Offset(lastack), written + pos, 0)
      /\ unsent # <<>> => mid # <<>> /\ mid[Len(mid)].len = LastUnsent.len + pos
  BY <1>1, <1>2, <1>6, ExtendedLine
<1>8. PICK r : r = unsent'
  OBVIOUS
<1>9. /\ r \in Seq(Segment) /\ new \in Seq(Segment)
      /\ Pieces(unacked \o r, written + len, 0)
      /\ Tiles(unacked \o mid, Offset(lastack), written + pos, 0) =>
           Tiles(unacked \o r, Offset(lastack), written + len, 0)
      /\ new # <<>> => /\ Len(new) \in 1 .. Len(new)
                       /\ new[Len(new)].len \in Nat /\ new[Len(new)].len <= MssLocal
      /\ new = <<>> => pos = len
  <2>1. Written(len, pos, mid, new, r)
    BY <1>1, <1>2, <1>6, <1>7, <1>8 DEF Written
  <2>2. QED
    BY <2>1, <1>2, WrittenLine
<1>10. PICK o : o = unsent_oversize'
  OBVIOUS
<1>11. /\ o \in Nat /\ o <= MssLocal
       /\ new # <<>> => new[Len(new)].len + o <= MssLocal
       /\ new = <<>> => /\ unsent # <<>>
                        /\ LastUnsent.len + Phase1(len) + Phase2(len) + o <= MssLocal
  BY <1>1, <1>2, <1>9, <1>10, OversizeFacts
<1>12. /\ snd_lbb \in SeqNo /\ written \in Nat /\ snd_buf \in Nat /\ Offset(lastack) \in Nat
       /\ unacked \in Seq(Segment) /\ wire_end \in Nat /\ Offset(snd_nxt) \in Nat
         BY Numbers
<1>13. snd_lbb' \in SeqNo /\ Offset(snd_lbb') = written + len
  <2>1. Offset(snd_lbb) + len < Half
    BY <1>2, <1>4, <1>12, SendConstants
  <2>2. QED
    BY <2>1, <1>2, <1>4, <1>12, PositionAdd
<1>14. Queues'
  <2>1. Queued' = unacked \o r
    BY <1>2, <1>8 DEF Queued
  <2>2. ~(written' < Offset(snd_nxt'))
    BY <1>2, <1>4, <1>12
  <2>3. ASSUME ~misplaced'
        PROVE  Tiles(unacked \o r, Offset(lastack), written + len, 0)
    <3>1. pos = 0 \/ pos > 0
      BY <1>6
    <3>2. ~(misplaced \/ (pos > 0 /\ ~LastIsEnd))
      BY <2>3, <1>2
    <3>3. ~misplaced /\ (pos = 0 \/ LastIsEnd)
      BY <3>1, <3>2
    <3>4. QED
      BY <3>3, <1>7, <1>9
  <2>4. Holds(Queued', Offset(lastack'), written', FinLen', Offset(snd_nxt'), misplaced')
    BY <2>1, <2>2, <2>3, <1>2, <1>3, <1>4, <1>5, <1>9 DEF Holds
  <2>5. ~misplaced' => Ascending(unacked')
    BY <1>2, <1>4 DEF IInv, Queues
  <2>6. QED
    BY <2>4, <2>5, <1>4, <1>5 DEF Queues
<1>15. Positions'
  <2>1. wire_end <= written + len + 0 /\ Offset(snd_nxt) <= wire_end
        /\ Offset(lastack) <= Offset(snd_nxt)
    BY <1>4, <1>12, Numbers
  <2>2. written + len <= Offset(snd_lbb') /\ Offset(snd_lbb') <= written + len + 0
    BY <1>12, <1>13
  <2>3. QED
    BY <2>1, <2>2, <1>2, <1>3, <1>4, <1>5 DEF Positions
<1>16. FinSent'
  BY <1>2, <1>5 DEF IInv, FinSent
<1>17. SndBufConserved'
  <2>1. snd_buf + Offset(snd_lbb) = TCP_SND_BUF + Offset(lastack)
    BY DEF IInv, SndBufConserved
  <2>2. snd_buf' + Offset(snd_lbb') = TCP_SND_BUF + Offset(lastack')
    BY <2>1, <1>2, <1>3, <1>4, <1>12, <1>13
  <2>3. QED
    BY <2>2 DEF SndBufConserved
<1>18. OversizeFits'
  <2>1. unsent' = mid \o new
    BY <1>2
  <2>2. CASE new # <<>>
    <3>1. unsent' # <<>> /\ unsent'[Len(unsent')] = new[Len(new)]
      <4>1. LastReplaced(mid, new, new)
        BY <2>2, <1>7, <1>9 DEF LastReplaced, SameButLast
      <4>2. LinesOf(mid, new, new, r, r)
        BY <2>1, <1>8 DEF LinesOf
      <4>3. QED
        BY <4>1, <4>2, <1>8, ReplaceLast
    <3>2. QED
      BY <3>1, <2>2, <1>10, <1>11 DEF OversizeFits, LastUnsent
  <2>3. CASE new = <<>>
    <3>1. unsent' = mid
      BY <2>1, <2>3, <1>7, ConcatEmptySeq
    <3>2. unsent # <<>> /\ LastUnsent.len + Phase1(len) + Phase2(len) + o <= MssLocal
      BY <2>3, <1>11
    <3>3. mid # <<>> /\ mid[Len(mid)].len = LastUnsent.len + pos
      BY <3>2, <1>7
    <3>4. mid[Len(mid)].len + o <= MssLocal
      <4>1. Phase1(len) \in Nat /\ Phase2(len) \in Nat
        BY <1>2, PhaseFacts
      <4>2. LastUnsent.len \in Nat
        <5>1. Piece(LastUnsent, written, 0)
          BY <3>2, <1>2, LastPiece DEF LastUnsent
        <5>2. QED
          BY <5>1, SegmentFacts DEF Piece
      <4>3. PICK L \in Nat, p1 \in Nat, p2 \in Nat :
              L = LastUnsent.len /\ p1 = Phase1(len) /\ p2 = Phase2(len)
        BY <4>1, <4>2
      <4>4. L + p1 + p2 + o <= MssLocal /\ mid[Len(mid)].len = L + (p1 + p2)
        BY <4>3, <3>2, <3>3, <1>1
      <4>5. QED
        BY <4>4, <1>11, SendConstants
    <3>5. QED
      BY <3>1, <3>3, <3>4, <1>10 DEF OversizeFits, LastUnsent
  <2>4. QED
    BY <2>2, <2>3
<1>19. Types'
  <2>1. snd_buf' \in 0 .. TCP_SND_BUF + 1
    BY <1>2, <1>12, SendConstants DEF IInv, Types
  <2>2. unsent_oversize' \in 0 .. TCP_MSS
    BY <1>10, <1>11, SendConstants
  <2>3. written' \in 0 .. MaxWritten /\ misplaced' \in BOOLEAN
    BY <1>2, <1>12, SendConstants DEF IInv, Types
  <2>4. unsent' \in Seq(Segment)
    BY <1>8, <1>9
  <2>5. QED
    BY <2>1, <2>2, <2>3, <2>4, <1>2, <1>3, <1>13 DEF IInv, Types, rtxVars
<1>20. QED
  BY <1>14, <1>15, <1>16, <1>17, <1>18, <1>19 DEF IInv

-----------------------------------------------------------------------------
(* tcp_receive: the queues lose what is acknowledged. *)

\* An acknowledgement of the peer, before the segments it covers are freed.
Receiving(a) ==
  /\ a \in PeerAcks
  /\ pc = "idle" /\ Alive /\ UpdateWindow(a)

\* The acknowledged position has been on the wire.
LEMMA AckFacts ==
  ASSUME IInv, NEW a, a \in PeerAcks
  PROVE  /\ a.ackno \in SeqNo /\ Offset(a.ackno) \in Nat /\ Offset(a.ackno) <= wire_end
         /\ Offset(a.ackno) < Half
         /\ a.wnd \in 0 .. SND_WND_MAX
<1>1. a.ackno \in {SeqAdd(ISS, o) : o \in 0 .. wire_end} /\ a.wnd \in PeerWnds
  BY DEF PeerAcks
<1>2. PICK o \in 0 .. wire_end : a.ackno = SeqAdd(ISS, o)
  BY <1>1
<1>3. wire_end \in Nat /\ wire_end < Half /\ Half \in Nat
  BY Numbers, SendConstants
<1>4. o \in Nat /\ o < Half /\ o <= wire_end
  BY <1>2, <1>3
<1>5. a.ackno \in SeqNo /\ Offset(a.ackno) = o
  BY <1>2, <1>4, PositionOf
<1>6. a.wnd \in 0 .. SND_WND_MAX
  BY <1>1, SendAssumption
<1>7. QED
  BY <1>4, <1>5, <1>6

LEMMA WindowType ==
  ASSUME IInv, NEW a, Receiving(a)
  PROVE  snd_wl2' \in SeqNo /\ snd_wnd' \in 0 .. SND_WND_MAX /\ persist' \in BOOLEAN
<1>1. UpdateWindow(a) /\ a.ackno \in SeqNo /\ a.wnd \in 0 .. SND_WND_MAX
  BY AckFacts DEF Receiving
<1>2. snd_wl2 \in SeqNo /\ snd_wnd \in 0 .. SND_WND_MAX /\ persist \in BOOLEAN
  BY DEF IInv, Types
<1>3. QED
  BY <1>1, <1>2 DEF UpdateWindow

\* A connection in good order that ends is purged.
Finished(a) == NextState(a) \in {"TIME_WAIT", "CLOSED"}

\* tcp_process leaves the queues u and v, and reports sent bytes.
Leaves(a, u, v, spare, sent) ==
  /\ state' = NextState(a)
  /\ unacked' = IF Finished(a) THEN <<>> ELSE u
  /\ unsent' = IF Finished(a) THEN <<>> ELSE v
  /\ unsent_oversize' = OversizeOf(unsent', spare)
  /\ acked' = sent /\ reported' = reported + sent
  /\ pc' = IF Finished(a) THEN "idle"
           ELSE IF sent > 0 \/ a.kind # "empty" THEN "callback" ELSE "output"
  /\ UNCHANGED <<snd_nxt, snd_lbb, misplaced, written, wire_end>>

LEMMA FinishLeaves ==
  ASSUME NEW a, NEW sentq, NEW unsentq, NEW spare, NEW bytes, NEW timer,
         Finish(a, sentq, unsentq, spare, bytes, timer)
  PROVE  /\ \E k \in 0 .. Len(unsentq) :
              /\ CoversUnsent(unsentq, k, a.ackno)
              /\ Leaves(a, sentq, DropFirst(unsentq, k), spare,
                        IF bytes # 0 /\ FinIn(unsentq, k) THEN bytes - 1 ELSE bytes)
         /\ rtime' \in BOOLEAN
         /\ rtime' <=> timer /\ ~Finished(a)
BY DEF Finish, Leaves, Finished

\* The states of tcp_process: the FIN stays sent, and what ends is finished.
LEMMA FinishStates ==
  ASSUME IInv, NEW a, Receiving(a), NEW u, NEW v, NEW spare, NEW sent,
         Leaves(a, u, v, spare, sent), "FIN" \in flags' <=> "FIN" \in flags
  PROVE  /\ FinSent' /\ state' \in States
         /\ ~Alive' <=> Finished(a)
         /\ ~Alive' => unsent' = <<>> /\ unacked' = <<>> /\ pc' = "idle"
         /\ FinLen' = FinLen
<1>1. state \in States /\ Alive
  BY DEF IInv, Types, Receiving
<1>2. state' = NextState(a)
  BY DEF Leaves
<1>3. state' \in States /\ state' # "ABORTED"
  BY <1>1, <1>2 DEF NextState, States, Alive
<1>4. ~Alive' <=> Finished(a)
  BY <1>2, <1>3 DEF Alive, Finished
<1>5. Alive' => (state' \in {"ESTABLISHED", "CLOSE_WAIT"}
                   <=> state \in {"ESTABLISHED", "CLOSE_WAIT"})
  BY <1>1, <1>2 DEF NextState, States, Alive
<1>6. FinSent'
  BY <1>1, <1>5 DEF IInv, FinSent
<1>7. QED
  BY <1>3, <1>4, <1>6 DEF Leaves, FinLen

\* The variables that only have a type.
Counters ==
  /\ dupacks \in 0 .. 4 /\ nrtx \in 0 .. NrtxWidth - 1
  /\ rtseq \in SeqNo \cup {NoRtt}
  /\ flags \subseteq {"INFR", "NAGLEMEMERR", "FIN"}
  /\ rtime \in BOOLEAN

\* The queues u and v that an ACK leaves, if lo is the new lastack.
QueuesLeft(u, v, spare, lo) ==
  /\ u \in Seq(Segment) /\ v \in Seq(Segment)
  /\ Moves(Queued, u \o v, lo)
  /\ ~misplaced => Ascending(u)
  /\ spare \in 0 .. TCP_MSS
  /\ v # <<>> => v[Len(v)].len + spare <= MssLocal

\* What is left to show of a received ACK.
LEMMA FinishKeeps ==
  ASSUME IInv, NEW a, Receiving(a), NEW u, NEW v, NEW spare,
         QueuesLeft(u, v, spare, Offset(lastack')),
         NEW sent \in Nat, sent <= TCP_SND_BUF, Leaves(a, u, v, spare, sent),
         Counters', lastack' \in SeqNo, snd_buf' \in Nat,
         "FIN" \in flags' <=> "FIN" \in flags,
         Offset(lastack) <= Offset(lastack'), Offset(lastack') <= Offset(snd_nxt),
         SndBufConserved'
  PROVE  IInv'
<1>1. /\ FinSent' /\ state' \in States
      /\ ~Alive' <=> Finished(a)
      /\ ~Alive' => unsent' = <<>> /\ unacked' = <<>> /\ pc' = "idle"
      /\ FinLen' = FinLen
  BY FinishStates
<1>2. /\ unacked' = <<>> \/ unacked' = u
      /\ unsent' = <<>> \/ unsent' = v
      /\ unsent_oversize' = OversizeOf(unsent', spare)
      /\ acked' = sent /\ reported' = reported + sent
      /\ pc' \in {"idle", "callback", "output", "sending"}
      /\ UNCHANGED <<snd_nxt, snd_lbb, misplaced, written, wire_end>>
      /\ Alive' => unacked' = u /\ unsent' = v
  BY <1>1 DEF Leaves
<1>3. unacked' \in Seq(Segment) /\ unsent' \in Seq(Segment)
  <2>1. u \in Seq(Segment) /\ v \in Seq(Segment) /\ <<>> \in Seq(Segment)
    BY DEF QueuesLeft
  <2>2. QED
    BY <2>1, <1>2
<1>4. Offset(lastack') \in Nat
  BY PositionType
<1>5. Queues'
  <2>1. Holds(Queued, Offset(lastack), written, FinLen, Offset(snd_nxt), misplaced)
    BY DEF IInv, Queues, Receiving
  <2>2. Holds(u \o v, Offset(lastack'), written, FinLen, Offset(snd_nxt), misplaced)
    <3>1. PICK lo, lo2, n, m, w, f :
            /\ lo = Offset(lastack) /\ lo2 = Offset(lastack') /\ n = Offset(snd_nxt)
            /\ m = misplaced /\ w = written /\ f = FinLen
      OBVIOUS
    <3>2. lo \in Nat /\ lo2 \in Nat /\ lo <= lo2 /\ w \in Nat /\ w <= MaxWritten /\ f \in {0, 1}
      BY <3>1, <1>4, Numbers
    <3>3. Moves(Queued, u \o v, lo2)
      BY <3>1 DEF QueuesLeft
    <3>4. Holds(Queued, lo, w, f, n, m)
      BY <3>1, <2>1
    <3>5. Holds(u \o v, lo2, w, f, n, m)
      BY <3>2, <3>3, <3>4, MovesHold
    <3>6. QED
      BY <3>1, <3>5
  <2>3. Alive' =>
          Holds(Queued', Offset(lastack'), written', FinLen', Offset(snd_nxt'), misplaced')
    BY <2>2, <1>1, <1>2 DEF Queued
  <2>4. Alive' /\ ~misplaced' => Ascending(unacked')
    BY <1>2 DEF QueuesLeft
  <2>5. QED
    BY <2>3, <2>4, <1>1 DEF Queues
<1>6. OversizeFits'
  BY <1>2 DEF QueuesLeft, OversizeFits, LastUnsent, OversizeOf
<1>7. Positions'
  BY <1>1, <1>2 DEF IInv, Positions
<1>8. Types'
  <2>1. snd_buf' \in 0 .. TCP_SND_BUF + 1
    <3>1. PICK la, w, f, lb :
            la = Offset(lastack') /\ w = written' /\ f = FinLen' /\ lb = Offset(snd_lbb')
      OBVIOUS
    <3>2. w \in Nat /\ f \in {0, 1} /\ lb \in Nat /\ la \in Nat
      BY <3>1, <1>1, <1>2, <1>4, Numbers
    <3>3. la <= w + f /\ w <= lb
      <4>1. /\ Offset(snd_nxt) <= wire_end /\ wire_end <= written + FinLen
            /\ written <= Offset(snd_lbb) /\ Offset(snd_nxt) \in Nat /\ wire_end \in Nat
        BY Numbers
      <4>2. QED
        BY <4>1, <3>1, <3>2, <1>1, <1>2
    <3>4. snd_buf' + lb = TCP_SND_BUF + la
      BY <3>1 DEF SndBufConserved
    <3>5. PICK b \in Nat, B \in Nat : b = snd_buf' /\ B = TCP_SND_BUF
      BY SendConstants
    <3>6. b + lb = B + la
      BY <3>4, <3>5
    <3>7. b <= B + 1
      BY <3>2, <3>3, <3>6
    <3>8. QED
      BY <3>5, <3>7
  <2>2. unsent_oversize' \in 0 .. TCP_MSS
    BY <1>2, SendConstants DEF QueuesLeft, OversizeOf
  <2>3. acked' \in 0 .. TCP_SND_BUF /\ reported' \in Nat
    BY <1>2, SendConstants DEF IInv, Types
  <2>4. snd_wl2' \in SeqNo /\ snd_wnd' \in 0 .. SND_WND_MAX /\ persist' \in BOOLEAN
    BY WindowType
  <2>5. snd_nxt' \in SeqNo /\ snd_lbb' \in SeqNo
    BY <1>2, Numbers
  <2>6. written' \in 0 .. MaxWritten /\ wire_end' \in Nat /\ misplaced' \in BOOLEAN
    BY <1>2 DEF IInv, Types
  <2>7. QED
    BY <2>1, <2>2, <2>3, <2>4, <2>5, <2>6, <1>1, <1>2, <1>3 DEF Types, Counters
<1>9. QED
  BY <1>1, <1>5, <1>6, <1>7, <1>8 DEF IInv

\* The test of tcp_receive, in positions.
LEMMA CoversPosition ==
  ASSUME IInv, NEW a, a \in PeerAcks, NEW s, Piece(s, written, FinLen)
  PROVE  /\ TCP_SEQ_LEQ(SegEnd(s), a.ackno) <=> End(s) <= Offset(a.ackno)
         /\ End(s) \in Nat /\ Start(s) \in Nat /\ s \in Segment
<1>1. /\ SegEnd(s) \in SeqNo /\ Offset(SegEnd(s)) = End(s) /\ End(s) < Half
      /\ End(s) \in Nat /\ Start(s) \in Nat /\ s \in Segment
  BY Numbers, PieceFacts
<1>2. a.ackno \in SeqNo /\ Offset(a.ackno) < Half
  BY AckFacts
<1>3. QED
  BY <1>1, <1>2, PositionOrder

\* The k first segments of q end at position o or before, the next one after it.
HeadCovered(q, k, o) ==
  /\ k \in 0 .. Len(q)
  /\ \A i \in 1 .. k : End(q[i]) <= o
  /\ k < Len(q) => o < End(q[k + 1])

LEMMA CoveredHead ==
  ASSUME IInv, NEW a, a \in PeerAcks, NEW q, Pieces(q, written, FinLen), NEW k,
         CoversHead(q, k, a.ackno)
  PROVE  HeadCovered(q, k, Offset(a.ackno))
<1>1. q \in Seq(Segment) /\ Len(q) \in Nat /\ k \in 0 .. Len(q)
  BY DEF Pieces, CoversHead
<1>2. Offset(a.ackno) \in Nat
  BY AckFacts
<1>3. \A i \in 1 .. k : End(q[i]) <= Offset(a.ackno)
  <2>1. SUFFICES ASSUME NEW i \in 1 .. k PROVE End(q[i]) <= Offset(a.ackno)
    OBVIOUS
  <2>2. i \in 1 .. Len(q) /\ TCP_SEQ_LEQ(SegEnd(q[i]), a.ackno)
    BY <1>1 DEF CoversHead
  <2>3. Piece(q[i], written, FinLen)
    BY <2>2 DEF Pieces
  <2>4. QED
    BY <2>2, <2>3, CoversPosition
<1>4. k < Len(q) => Offset(a.ackno) < End(q[k + 1])
  <2>1. SUFFICES ASSUME k < Len(q) PROVE Offset(a.ackno) < End(q[k + 1])
    OBVIOUS
  <2>2. k + 1 \in 1 .. Len(q) /\ ~TCP_SEQ_LEQ(SegEnd(q[k + 1]), a.ackno)
    BY <2>1, <1>1 DEF CoversHead
  <2>3. Piece(q[k + 1], written, FinLen)
    BY <2>2 DEF Pieces
  <2>4. ~(End(q[k + 1]) <= Offset(a.ackno)) /\ End(q[k + 1]) \in Nat
    BY <2>2, <2>3, CoversPosition
  <2>5. QED
    BY <2>4, <1>2
<1>5. QED
  BY <1>1, <1>3, <1>4 DEF HeadCovered

\* The same for unsent: only what has been sent counts.
LEMMA CoveredUnsent ==
  ASSUME IInv, NEW a, a \in PeerAcks, NEW q, Pieces(q, written, FinLen), NEW k,
         CoversUnsent(q, k, a.ackno)
  PROVE  /\ Offset(a.ackno) <= Offset(snd_nxt) => HeadCovered(q, k, Offset(a.ackno))
         /\ Offset(snd_nxt) < Offset(a.ackno) => 1 .. k = {}
<1>1. TCP_SEQ_LEQ(a.ackno, snd_nxt) <=> Offset(a.ackno) <= Offset(snd_nxt)
  BY Numbers, AckFacts, PositionOrder
<1>2. CASE Offset(a.ackno) <= Offset(snd_nxt)
  <2>1. CoversHead(q, k, a.ackno)
    BY <1>1, <1>2 DEF CoversUnsent
  <2>2. HeadCovered(q, k, Offset(a.ackno))
    BY <2>1, CoveredHead
  <2>3. ~(Offset(snd_nxt) < Offset(a.ackno))
    BY <1>2, Numbers, AckFacts
  <2>4. QED
    BY <2>2, <2>3
<1>3. CASE ~(Offset(a.ackno) <= Offset(snd_nxt))
  <2>1. k = 0
    BY <1>1, <1>3 DEF CoversUnsent
  <2>2. QED
    BY <2>1, <1>3
<1>4. Offset(snd_nxt) \in Nat /\ Offset(a.ackno) \in Nat
  BY Numbers, AckFacts
<1>5. QED
  BY <1>2, <1>3, <1>4

\* Moved segments are the segments they were.
LEMMA MovesPieces ==
  ASSUME NEW q, NEW r, NEW lo, Moves(q, r, lo), NEW w, NEW f, Pieces(q, w, f)
  PROVE  Pieces(r, w, f)
<1>1. r \in Seq(Segment)
  BY DEF Moves
<1>2. PICK x : IndexMap(q, r, lo, x)
  BY DEF Moves
<1>3. \A i \in 1 .. Len(r) : x[i] \in 1 .. Len(q) /\ r[i] = q[x[i]]
  BY <1>2 DEF IndexMap
<1>4. QED
  BY <1>1, <1>3 DEF Pieces

\* Finish takes the acknowledged segments off the head of unsent.
LEMMA FinishDrops ==
  ASSUME IInv, NEW a, Receiving(a), NEW u, NEW v, NEW spare, NEW lo,
         QueuesLeft(u, v, spare, lo), lo \in Nat,
         Offset(a.ackno) <= lo \/ Offset(snd_nxt) < Offset(a.ackno),
         NEW k \in 0 .. Len(v), CoversUnsent(v, k, a.ackno)
  PROVE  QueuesLeft(u, DropFirst(v, k), spare, lo)
<1>1. u \in Seq(Segment) /\ v \in Seq(Segment) /\ Len(v) \in Nat
  BY DEF QueuesLeft
<1>2. Pieces(v, written, FinLen)
  <2>1. Pieces(u \o v, written, FinLen)
    BY QueuedPieces, MovesPieces DEF QueuesLeft
  <2>2. QED
    BY <2>1, <1>1, PiecesJoin
<1>3. Offset(a.ackno) \in Nat /\ Offset(snd_nxt) \in Nat /\ a \in PeerAcks
  BY Numbers, AckFacts DEF Receiving
<1>4. /\ Offset(a.ackno) <= Offset(snd_nxt) => HeadCovered(v, k, Offset(a.ackno))
      /\ Offset(snd_nxt) < Offset(a.ackno) => 1 .. k = {}
  <2>1. a \in PeerAcks
    BY <1>3
  <2>2. Pieces(v, written, FinLen)
    BY <1>2
  <2>3. CoversUnsent(v, k, a.ackno)
    OBVIOUS
  <2>4. Offset(a.ackno) <= Offset(snd_nxt) => HeadCovered(v, k, Offset(a.ackno))
    BY <2>1, <2>2, <2>3, CoveredUnsent, Zenon
  <2>5. Offset(snd_nxt) < Offset(a.ackno) => 1 .. k = {}
    BY <2>1, <2>2, <2>3, CoveredUnsent, Zenon
  <2>6. QED
    BY <2>4, <2>5
<1>5. \A i \in 1 .. k : End(v[i]) <= lo
  <2>1. SUFFICES ASSUME NEW i \in 1 .. k PROVE End(v[i]) <= lo
    OBVIOUS
  <2>2. Offset(a.ackno) <= Offset(snd_nxt) /\ HeadCovered(v, k, Offset(a.ackno))
    <3>1. 1 .. k # {}
      OBVIOUS
    <3>2. Offset(a.ackno) <= Offset(snd_nxt)
      BY <3>1, <1>3, <1>4
    <3>3. QED
      BY <3>2, <1>4
  <2>3. End(v[i]) <= Offset(a.ackno) /\ Offset(a.ackno) <= lo
    BY <2>2, <1>3 DEF HeadCovered
  <2>4. i \in 1 .. Len(v)
    BY <1>1
  <2>5. End(v[i]) \in Nat
    <3>1. v[i] \in Segment
      BY <2>4, <1>1
    <3>2. QED
      BY <3>1, SegmentFacts
  <2>6. QED
    BY <2>3, <2>5, <1>3
<1>6. DropFirst(u, 0) = u
  BY <1>1, DropNone
<1>7. Moves(u \o v, u \o DropFirst(v, k), lo)
  <2>1. 0 \in 0 .. Len(u) /\ \A i \in 1 .. 0 : End(u[i]) <= lo
    BY <1>1
  <2>2. Moves(u \o v, DropFirst(u, 0) \o DropFirst(v, k), lo)
    BY <2>1, <1>1, <1>5, DropMoves
  <2>3. QED
    BY <2>2, <1>6
<1>8. Moves(Queued, u \o DropFirst(v, k), lo)
  BY <1>7, MovesTwice DEF QueuesLeft
<1>9. PICK d : d = DropFirst(v, k)
  OBVIOUS
<1>10. d \in Seq(Segment) /\ Len(d) = Len(v) - k /\ \A j \in 1 .. Len(v) - k : d[j] = v[j + k]
  BY <1>1, <1>9, DropFirstFacts
<1>11. d # <<>> => d[Len(d)].len + spare <= MssLocal
  <2>1. SUFFICES ASSUME d # <<>> PROVE d[Len(d)].len + spare <= MssLocal
    OBVIOUS
  <2>2. Len(d) \in 1 .. Len(v) - k
    BY <2>1, <1>1, <1>10, EmptySeq
  <2>3. d[Len(d)] = v[Len(v)]
    BY <2>2, <1>1, <1>10
  <2>4. v # <<>>
    BY <2>2, <1>1, EmptySeq
  <2>5. QED
    BY <2>3, <2>4 DEF QueuesLeft
<1>12. QED
  BY <1>1, <1>8, <1>9, <1>10, <1>11 DEF QueuesLeft

\* The three cases of tcp_receive, in positions.
LEMMA AckCases ==
  ASSUME IInv, NEW a, a \in PeerAcks
  PROVE  /\ TCP_SEQ_LEQ(a.ackno, lastack) <=> Offset(a.ackno) <= Offset(lastack)
         /\ TCP_SEQ_BETWEEN(a.ackno, SeqAdd(lastack, 1), snd_nxt) <=>
              Offset(lastack) < Offset(a.ackno) /\ Offset(a.ackno) <= Offset(snd_nxt)
         /\ Offset(lastack) <= Offset(a.ackno) =>
              AckedBytes(a) = Offset(a.ackno) - Offset(lastack)
<1>1. a.ackno \in SeqNo /\ Offset(a.ackno) \in Nat /\ Offset(a.ackno) < Half
  BY AckFacts
<1>2. /\ lastack \in SeqNo /\ Offset(lastack) \in Nat /\ Offset(lastack) < Half
      /\ snd_nxt \in SeqNo /\ Offset(snd_nxt) \in Nat /\ Offset(snd_nxt) < Half
      /\ Offset(lastack) + 1 < Half
  <2>1. /\ Offset(lastack) <= Offset(snd_nxt) /\ Offset(snd_nxt) <= wire_end
        /\ wire_end <= written + FinLen /\ written + FinLen + 1 < Half
        /\ wire_end \in Nat /\ Offset(snd_nxt) \in Nat /\ written \in Nat /\ FinLen \in {0, 1} /\ Offset(lastack) \in Nat
    BY Numbers
  <2>2. Offset(lastack) + 1 < Half
    BY <2>1, SendConstants
  <2>3. QED
    BY <2>2, Numbers
<1>3. SeqAdd(lastack, 1) \in SeqNo /\ Offset(SeqAdd(lastack, 1)) = Offset(lastack) + 1
  BY <1>2, PositionAdd
<1>4. TCP_SEQ_LEQ(a.ackno, lastack) <=> Offset(a.ackno) <= Offset(lastack)
  BY <1>1, <1>2, PositionOrder
<1>5. TCP_SEQ_GEQ(a.ackno, SeqAdd(lastack, 1)) <=> Offset(a.ackno) >= Offset(lastack) + 1
  BY <1>1, <1>2, <1>3, PositionOrder
<1>6. TCP_SEQ_LEQ(a.ackno, snd_nxt) <=> Offset(a.ackno) <= Offset(snd_nxt)
  BY <1>1, <1>2, PositionOrder
<1>7. Offset(lastack) <= Offset(a.ackno) =>
        AckedBytes(a) = Offset(a.ackno) - Offset(lastack)
  BY <1>1, <1>2, PositionOrder DEF AckedBytes
<1>8. Offset(a.ackno) >= Offset(lastack) + 1 <=> Offset(lastack) < Offset(a.ackno)
  BY <1>1, <1>2
<1>9. QED
  BY <1>4, <1>5, <1>6, <1>7, <1>8 DEF TCP_SEQ_BETWEEN

\* What is left when nothing but the head of unsent may be acknowledged.
LEMMA NothingCovered ==
  ASSUME IInv, NEW a, Receiving(a), NEW u, NEW v, NEW spare,
         QueuesLeft(u, v, spare, Offset(lastack)), NEW timer, Finish(a, u, v, spare, 0, timer),
         Offset(a.ackno) <= Offset(lastack) \/ Offset(snd_nxt) < Offset(a.ackno),
         Counters', UNCHANGED <<lastack, snd_buf>>, "FIN" \in flags' <=> "FIN" \in flags
  PROVE  IInv'
<1>1. PICK k \in 0 .. Len(v) :
        /\ CoversUnsent(v, k, a.ackno)
        /\ Leaves(a, u, DropFirst(v, k), spare,
                  IF 0 # 0 /\ FinIn(v, k) THEN 0 - 1 ELSE 0)
  BY FinishLeaves
<1>2. PICK z \in Nat : z = 0
  OBVIOUS
<1>3. PICK d : d = DropFirst(v, k)
  OBVIOUS
<1>4. Leaves(a, u, d, spare, z)
  BY <1>1, <1>2, <1>3
<1>5. PICK lo \in Nat : lo = Offset(lastack)
  BY Numbers
<1>6. QueuesLeft(u, v, spare, lo)
      /\ (Offset(a.ackno) <= lo \/ Offset(snd_nxt) < Offset(a.ackno))
  BY <1>5
<1>7. QueuesLeft(u, DropFirst(v, k), spare, lo)
  BY <1>1, <1>6, FinishDrops
<1>8. lastack' = lastack
  OBVIOUS
<1>9. QueuesLeft(u, d, spare, Offset(lastack'))
  BY <1>3, <1>5, <1>7, <1>8
<1>10. /\ z <= TCP_SND_BUF /\ snd_buf' \in Nat /\ lastack' \in SeqNo
       /\ Offset(lastack) <= Offset(lastack') /\ Offset(lastack') <= Offset(snd_nxt)
  BY <1>2, <1>8, Numbers, SendConstants
<1>11. SndBufConserved'
  BY <1>4 DEF IInv, SndBufConserved, Leaves
<1>12. QED
  BY <1>4, <1>9, <1>10, <1>11, FinishKeeps

\* The queues as they are.
LEMMA QueuesAsTheyAre ==
  ASSUME IInv, NEW a, Receiving(a)
  PROVE  /\ QueuesLeft(unacked, unsent, unsent_oversize, Offset(lastack))
         /\ rtseq \in SeqNo \cup {NoRtt} /\ dupacks \in 0 .. 4
         /\ nrtx \in 0 .. NrtxWidth - 1 /\ rtime \in BOOLEAN
         /\ flags \subseteq {"INFR", "NAGLEMEMERR", "FIN"}
         /\ RttAfter(a) \in SeqNo \cup {NoRtt}
<1>1. unacked \in Seq(Segment) /\ unsent \in Seq(Segment) /\ Queued \in Seq(Segment)
  BY QueuedPieces, Numbers DEF Pieces
<1>2. Moves(Queued, unacked \o unsent, Offset(lastack))
  BY <1>1, MovesNone DEF Queued
<1>3. ~misplaced => Ascending(unacked)
  BY DEF IInv, Queues, Receiving
<1>4. unsent_oversize \in 0 .. TCP_MSS
  BY DEF IInv, Types
<1>5. unsent # <<>> => unsent[Len(unsent)].len + unsent_oversize <= MssLocal
  BY DEF IInv, OversizeFits, LastUnsent
<1>6. QueuesLeft(unacked, unsent, unsent_oversize, Offset(lastack))
  BY <1>1, <1>2, <1>3, <1>4, <1>5 DEF QueuesLeft
<1>7. /\ rtseq \in SeqNo \cup {NoRtt} /\ dupacks \in 0 .. 4
      /\ nrtx \in 0 .. NrtxWidth - 1 /\ rtime \in BOOLEAN
      /\ flags \subseteq {"INFR", "NAGLEMEMERR", "FIN"}
  BY DEF IInv, Types
<1>8. RttAfter(a) \in SeqNo \cup {NoRtt}
  BY <1>7 DEF RttAfter
<1>9. QED
  BY <1>6, <1>7, <1>8

\* An ACK of nothing new that does not start a fast retransmit.
LEMMA DupAckKeeps ==
  ASSUME IInv, NEW a, Receiving(a), Offset(a.ackno) <= Offset(lastack),
         dupacks' = (IF IsDupAck(a) THEN LWIP_MIN(dupacks + 1, 4) ELSE 0),
         DupAck(a), UNCHANGED <<lastack, snd_buf>>
  PROVE  IInv'
<1>1. /\ UNCHANGED <<flags, nrtx>> /\ rtseq' = RttAfter(a)
      /\ Finish(a, unacked, unsent, unsent_oversize, 0, rtime)
  BY DEF DupAck
<1>2. dupacks' \in 0 .. 4
  <2>1. dupacks \in 0 .. 4
    BY QueuesAsTheyAre
  <2>2. LWIP_MIN(dupacks + 1, 4) \in 0 .. 4
    BY <2>1 DEF LWIP_MIN
  <2>3. QED
    BY <2>2
<1>3. rtime' \in BOOLEAN
  BY <1>1, FinishLeaves
<1>4. Counters'
  BY <1>1, <1>2, <1>3, QueuesAsTheyAre DEF Counters
<1>5. "FIN" \in flags' <=> "FIN" \in flags
  BY <1>1
<1>6. QueuesLeft(unacked, unsent, unsent_oversize, Offset(lastack))
  BY QueuesAsTheyAre
<1>7. QED
  BY <1>1, <1>4, <1>5, <1>6, NothingCovered

\* An ACK of what has not been sent.
LEMMA AckBeyondKeeps ==
  ASSUME IInv, NEW a, Receiving(a), ReceiveAckBeyond(a)
  PROVE  IInv'
<1>1. /\ UNCHANGED <<flags, nrtx, snd_buf, dupacks, lastack>> /\ rtseq' = RttAfter(a)
      /\ Finish(a, unacked, unsent, unsent_oversize, 0, rtime)
  BY DEF ReceiveAckBeyond
<1>2. rtime' \in BOOLEAN
  BY <1>1, FinishLeaves
<1>3. Counters'
  BY <1>1, <1>2, QueuesAsTheyAre DEF Counters
<1>4. "FIN" \in flags' <=> "FIN" \in flags
  BY <1>1
<1>5. QueuesLeft(unacked, unsent, unsent_oversize, Offset(lastack))
  BY QueuesAsTheyAre
<1>6. Offset(a.ackno) <= Offset(lastack) \/ Offset(snd_nxt) < Offset(a.ackno)
  <2>1. a \in PeerAcks
    BY DEF Receiving
  <2>2. ~(Offset(lastack) < Offset(a.ackno) /\ Offset(a.ackno) <= Offset(snd_nxt))
    BY <2>1, AckCases DEF ReceiveAckBeyond
  <2>3. Offset(lastack) \in Nat /\ Offset(a.ackno) \in Nat /\ Offset(snd_nxt) \in Nat
    BY <2>1, Numbers, AckFacts
  <2>4. QED
    BY <2>2, <2>3
<1>7. QED
  BY <1>1, <1>3, <1>4, <1>5, <1>6, NothingCovered

\* tcp_rexmit puts the first unacknowledged segment back on unsent, where its
\* seqno places it; the free bytes stay with the last segment they belong to.
LEMMA RequeueFits ==
  ASSUME NEW v \in Seq(Segment), NEW s \in Segment, s.len <= MssLocal, NEW spare \in Nat,
         v # <<>> => v[Len(v)].len + spare <= MssLocal,
         NEW k, NEW c, Inserted(v, s, k, c),
         NEW sp, sp = (IF c[Len(c)] = s THEN 0 ELSE spare)
  PROVE  c # <<>> /\ c[Len(c)].len + sp <= MssLocal
<1>1. /\ k \in 0 .. Len(v) /\ Len(v) \in Nat /\ c \in Seq(Segment) /\ Len(c) = Len(v) + 1
      /\ c[k + 1] = s
      /\ \A i \in k + 2 .. Len(v) + 1 : c[i] = v[i - 1]
  BY DEF Inserted
<1>2. c # <<>> /\ Len(c) \in 1 .. Len(c)
  BY <1>1
<1>3. s.len \in Nat
  BY SegmentFacts
<1>4. CASE c[Len(c)] = s
  BY <1>2, <1>3, <1>4
<1>5. CASE c[Len(c)] # s
  <2>1. k # Len(v)
    BY <1>1, <1>5
  <2>2. Len(c) \in k + 2 .. Len(v) + 1 /\ Len(c) - 1 = Len(v)
    BY <2>1, <1>1
  <2>3. c[Len(c)] = v[Len(v)]
    BY <2>2, <1>1
  <2>4. v # <<>>
    BY <2>2, <1>1
  <2>5. QED
    BY <2>3, <2>4, <1>2, <1>5
<1>6. QED
  BY <1>4, <1>5

LEMMA TailAscends ==
  ASSUME NEW u \in Seq(Segment), u # <<>>, Ascending(u)
  PROVE  Ascending(Tail(u))
<1>1. PICK t : t = Tail(u)
  OBVIOUS
<1>2. /\ Len(u) \in Nat /\ t \in Seq(Segment) /\ Len(t) = Len(u) - 1
      /\ \A i \in 1 .. Len(u) - 1 : t[i] = u[i + 1]
  BY <1>1, MoveHead
<1>3. SUFFICES ASSUME NEW i \in 1 .. Len(t), NEW j \in 1 .. Len(t), i < j
               PROVE  Start(t[i]) < Start(t[j])
  BY <1>1 DEF Ascending
<1>4. i + 1 \in 1 .. Len(u) /\ j + 1 \in 1 .. Len(u) /\ i + 1 < j + 1
      /\ t[i] = u[i + 1] /\ t[j] = u[j + 1]
  BY <1>2, <1>3
<1>5. QED
  BY <1>4 DEF Ascending

\* The third duplicate ACK.
LEMMA FastRexmitKeeps ==
  ASSUME IInv, NEW a, Receiving(a), Offset(a.ackno) <= Offset(lastack),
         dupacks' = (IF IsDupAck(a) THEN LWIP_MIN(dupacks + 1, 4) ELSE 0),
         FastRexmit(a), tcp_rexmit_fast(a), UNCHANGED <<lastack, snd_buf>>
  PROVE  IInv'
<1>1. PICK q : q = InsertSorted(unsent, unacked[1])
  OBVIOUS
<1>2. PICK sp : sp = (IF q[Len(q)] = unacked[1] THEN 0 ELSE unsent_oversize)
  OBVIOUS
<1>3. PICK t : t = Tail(unacked)
  OBVIOUS
<1>4. /\ flags' = flags \cup {"INFR"} /\ nrtx' = (nrtx + 1) % NrtxWidth /\ rtseq' = NoRtt
      /\ Finish(a, t, q, sp, 0, rtime)
  BY <1>1, <1>2, <1>3 DEF tcp_rexmit_fast
<1>5. unacked # <<>> /\ unacked \in Seq(Segment) /\ unsent \in Seq(Segment)
  BY Numbers DEF FastRexmit
<1>6. PICK s : s = unacked[1]
  OBVIOUS
<1>7. s \in Segment /\ s.len <= MssLocal
  <2>1. 1 \in 1 .. Len(unacked)
    BY <1>5, EmptySeq
  <2>2. Piece(unacked[1], written, FinLen)
    BY <2>1, QueuedPieces DEF Pieces
  <2>3. QED
    BY <2>2, <1>6 DEF Piece
<1>8. PICK k \in 0 .. Len(unsent) : Inserted(unsent, s, k, q)
  BY <1>1, <1>5, <1>6, <1>7, InsertPlace
<1>9. q \in Seq(Segment) /\ t \in Seq(Segment)
  BY <1>3, <1>5, <1>8, MoveHead DEF Inserted
<1>10. Moves(Queued, t \o q, Offset(lastack))
  <2>1. Inserted(unsent, unacked[1], k, q)
    BY <1>6, <1>8
  <2>2. Moves(unacked \o unsent, Tail(unacked) \o q, Offset(lastack))
    BY <2>1, <1>5, RequeueMoves
  <2>3. QED
    BY <2>2, <1>3 DEF Queued
<1>11. ~misplaced => Ascending(t)
  <2>1. ~misplaced => Ascending(unacked)
    BY DEF IInv, Queues, Receiving
  <2>2. QED
    BY <2>1, <1>3, <1>5, TailAscends
<1>12. unsent_oversize \in 0 .. TCP_MSS /\ TCP_MSS \in Nat
  BY SendConstants DEF IInv, Types
<1>13. sp \in 0 .. TCP_MSS
  BY <1>2, <1>12
<1>14. q # <<>> /\ q[Len(q)].len + sp <= MssLocal
  <2>1. unsent # <<>> => unsent[Len(unsent)].len + unsent_oversize <= MssLocal
    BY DEF IInv, OversizeFits, LastUnsent
  <2>2. sp = (IF q[Len(q)] = s THEN 0 ELSE unsent_oversize) /\ unsent_oversize \in Nat
    BY <1>2, <1>6, <1>12
  <2>3. QED
    BY <2>1, <2>2, <1>5, <1>7, <1>8, RequeueFits
<1>15. QueuesLeft(t, q, sp, Offset(lastack))
  BY <1>9, <1>10, <1>11, <1>13, <1>14 DEF QueuesLeft
<1>16. Counters'
  <2>1. dupacks' \in 0 .. 4
    <3>1. dupacks \in 0 .. 4
      BY QueuesAsTheyAre
    <3>2. LWIP_MIN(dupacks + 1, 4) \in 0 .. 4
      BY <3>1 DEF LWIP_MIN
    <3>3. QED
      BY <3>2
  <2>2. nrtx' \in 0 .. NrtxWidth - 1
    <3>1. nrtx \in 0 .. NrtxWidth - 1
      BY QueuesAsTheyAre
    <3>2. QED
      BY <3>1, <1>4, SendConstants
  <2>3. flags' \subseteq {"INFR", "NAGLEMEMERR", "FIN"}
    BY <1>4, QueuesAsTheyAre
  <2>4. rtime' \in BOOLEAN
    BY <1>4, FinishLeaves
  <2>5. QED
    BY <2>1, <2>2, <2>3, <2>4, <1>4 DEF Counters
<1>17. "FIN" \in flags' <=> "FIN" \in flags
  BY <1>4
<1>18. QED
  BY <1>4, <1>15, <1>16, <1>17, NothingCovered

-----------------------------------------------------------------------------
(* tcp_receive: new data is acknowledged. *)

\* What the sent callback reports, from the FINs that tcp_receive finds.
SentBytes(u, k, v, m, bytes) ==
  LET c == IF FinIn(u, k) THEN bytes - 1 ELSE bytes
  IN  IF c # 0 /\ FinIn(v, m) THEN c - 1 ELSE c

\* An ACK from lo to o of the queues u and v, that covers k and m segments.
Acknowledges(u, k, v, m, lo, o, w, f) ==
  /\ u \in Seq(Segment) /\ v \in Seq(Segment)
  /\ Pieces(u \o v, w, f)
  /\ HeadCovered(u, k, o) /\ HeadCovered(v, m, o)
  /\ lo \in Nat /\ o \in Nat /\ w \in Nat /\ f \in {0, 1} /\ w <= MaxWritten
  /\ lo < o /\ o <= w + f

LEMMA AcknowledgesFacts ==
  ASSUME NEW u, NEW k, NEW v, NEW m, NEW lo, NEW o, NEW w, NEW f,
         Acknowledges(u, k, v, m, lo, o, w, f)
  PROVE  /\ k \in 0 .. Len(u) /\ m \in 0 .. Len(v) /\ Len(u) \in Nat /\ Len(v) \in Nat
         /\ \A i \in 1 .. k : i \in 1 .. Len(u) /\ Piece(u[i], w, f) /\ End(u[i]) <= o
         /\ \A i \in 1 .. m : i \in 1 .. Len(v) /\ Piece(v[i], w, f) /\ End(v[i]) <= o
         /\ w < o => f = 1 /\ o = w + 1 /\ k = Len(u) /\ m = Len(v)
<1>1. /\ u \in Seq(Segment) /\ v \in Seq(Segment) /\ Len(u) \in Nat /\ Len(v) \in Nat
      /\ k \in 0 .. Len(u) /\ m \in 0 .. Len(v)
      /\ lo \in Nat /\ o \in Nat /\ w \in Nat /\ f \in {0, 1} /\ w <= MaxWritten
      /\ lo < o /\ o <= w + f
  BY DEF Acknowledges, HeadCovered
<1>2. Pieces(u, w, f) /\ Pieces(v, w, f)
  BY <1>1, PiecesJoin DEF Acknowledges
<1>3. \A i \in 1 .. k : i \in 1 .. Len(u) /\ Piece(u[i], w, f) /\ End(u[i]) <= o
  BY <1>1, <1>2 DEF Pieces, Acknowledges, HeadCovered
<1>4. \A i \in 1 .. m : i \in 1 .. Len(v) /\ Piece(v[i], w, f) /\ End(v[i]) <= o
  BY <1>1, <1>2 DEF Pieces, Acknowledges, HeadCovered
<1>5. ASSUME w < o PROVE f = 1 /\ o = w + 1 /\ k = Len(u) /\ m = Len(v)
  <2>1. f = 1 /\ o = w + 1
    BY <1>1, <1>5
  <2>2. k = Len(u)
    <3>1. SUFFICES ASSUME k < Len(u) PROVE FALSE
      BY <1>1
    <3>2. k + 1 \in 1 .. Len(u) /\ o < End(u[k + 1])
      BY <3>1, <1>1 DEF Acknowledges, HeadCovered
    <3>3. Piece(u[k + 1], w, f)
      BY <3>2, <1>2 DEF Pieces
    <3>4. End(u[k + 1]) <= w + f /\ End(u[k + 1]) \in Nat
      BY <3>3, <1>1, PieceFacts
    <3>5. QED
      BY <3>2, <3>4, <2>1
  <2>3. m = Len(v)
    <3>1. SUFFICES ASSUME m < Len(v) PROVE FALSE
      BY <1>1
    <3>2. m + 1 \in 1 .. Len(v) /\ o < End(v[m + 1])
      BY <3>1, <1>1 DEF Acknowledges, HeadCovered
    <3>3. Piece(v[m + 1], w, f)
      BY <3>2, <1>2 DEF Pieces
    <3>4. End(v[m + 1]) <= w + f /\ End(v[m + 1]) \in Nat
      BY <3>3, <1>1, PieceFacts
    <3>5. QED
      BY <3>2, <3>4, <2>1
  <2>4. QED
    BY <2>1, <2>2, <2>3
<1>6. QED
  BY <1>1, <1>3, <1>4, <1>5

\* A FIN on a queue that is acknowledged as a whole is found.
LEMMA FinFound ==
  ASSUME NEW u \in Seq(Segment), NEW v \in Seq(Segment), NEW i \in 1 .. Len(u \o v),
         (u \o v)[i].fin
  PROVE  FinIn(u, Len(u)) \/ FinIn(v, Len(v))
<1>1. PICK q : q = u \o v
  OBVIOUS
<1>2. /\ Len(u) \in Nat /\ Len(v) \in Nat /\ Len(q) = Len(u) + Len(v)
      /\ \A j \in 1 .. Len(u) : q[j] = u[j]
      /\ \A j \in 1 .. Len(v) : q[j + Len(u)] = v[j]
  <2>1. u \in Seq(Segment) /\ v \in Seq(Segment)
    OBVIOUS
  <2>2. QED
    BY <2>1, <1>1, JoinFacts
<1>3. i \in 1 .. Len(q) /\ q[i].fin
  BY <1>1
<1>4. CASE i <= Len(u)
  <2>1. i \in 1 .. Len(u) /\ u[i].fin
    BY <1>2, <1>3, <1>4
  <2>2. QED
    BY <2>1 DEF FinIn
<1>5. CASE i > Len(u)
  <2>1. PICK j \in 1 .. Len(v) : j + Len(u) = i
    <3>1. i - Len(u) \in 1 .. Len(v) /\ (i - Len(u)) + Len(u) = i
      BY <1>2, <1>3, <1>5
    <3>2. QED
      BY <3>1
  <2>2. v[j].fin
    BY <2>1, <1>2, <1>3
  <2>3. QED
    BY <2>2 DEF FinIn
<1>6. QED
  BY <1>2, <1>3, <1>4, <1>5

\* No more than what is acknowledged is reported, and not the FIN if it is queued.
LEMMA SentBounds ==
  ASSUME NEW u, NEW k, NEW v, NEW m, NEW lo, NEW o, NEW w, NEW f,
         Acknowledges(u, k, v, m, lo, o, w, f)
  PROVE  /\ SentBytes(u, k, v, m, o - lo) \in Nat
         /\ SentBytes(u, k, v, m, o - lo) <= o - lo
         /\ w < o /\ FinHeld(u \o v, w) => SentBytes(u, k, v, m, o - lo) <= w - lo
<1>1. lo \in Nat /\ o \in Nat /\ w \in Nat /\ lo < o
      /\ u \in Seq(Segment) /\ v \in Seq(Segment)
  BY DEF Acknowledges
<1>2. PICK c : c = (IF FinIn(u, k) THEN (o - lo) - 1 ELSE o - lo)
  OBVIOUS
<1>3. PICK b : b = (IF c # 0 /\ FinIn(v, m) THEN c - 1 ELSE c)
  OBVIOUS
<1>4. SentBytes(u, k, v, m, o - lo) = b
  BY <1>2, <1>3 DEF SentBytes
<1>5. c \in Nat /\ c <= o - lo /\ (FinIn(u, k) => c = o - lo - 1)
  BY <1>1, <1>2
<1>6. b \in Nat /\ b <= c
  BY <1>3, <1>5
<1>7. ASSUME w < o, FinHeld(u \o v, w) PROVE b <= w - lo
  <2>1. o = w + 1 /\ k = Len(u) /\ m = Len(v)
    BY <1>7, AcknowledgesFacts
  <2>2. PICK i \in 1 .. Len(u \o v) : (u \o v)[i].fin
    BY <1>7 DEF FinHeld
  <2>3. FinIn(u, k) \/ FinIn(v, m)
    BY <2>1, <2>2, <1>1, FinFound
  <2>4. CASE FinIn(u, k)
    BY <2>1, <2>4, <1>1, <1>5, <1>6
  <2>5. CASE FinIn(v, m)
    <3>1. c # 0 => b = c - 1
      BY <2>5, <1>3
    <3>2. c = 0 => b = 0
      BY <1>3
    <3>3. QED
      BY <3>1, <3>2, <2>1, <1>1, <1>5
  <2>6. QED
    BY <2>3, <2>4, <2>5
<1>8. QED
  BY <1>1, <1>4, <1>5, <1>6, <1>7

\* Two FINs of a queue whose segments do not overlap are one.
LEMMA OneFin ==
  ASSUME NEW u \in Seq(Segment), NEW v \in Seq(Segment),
         NEW lo, NEW w \in Nat, NEW f \in {0, 1}, w <= MaxWritten,
         Pieces(u \o v, w, f), Tiles(u \o v, lo, w, f),
         NEW k \in 0 .. Len(u), NEW m \in 0 .. Len(v)
  PROVE  ~(FinIn(u, k) /\ FinIn(v, m))
<1>1. SUFFICES ASSUME FinIn(u, k), FinIn(v, m) PROVE FALSE
  OBVIOUS
<1>2. PICK q : q = u \o v
  OBVIOUS
<1>3. /\ Len(u) \in Nat /\ Len(v) \in Nat /\ Len(q) = Len(u) + Len(v)
      /\ \A j \in 1 .. Len(u) : q[j] = u[j]
      /\ \A j \in 1 .. Len(v) : q[j + Len(u)] = v[j]
  <2>1. u \in Seq(Segment) /\ v \in Seq(Segment)
    OBVIOUS
  <2>2. QED
    BY <2>1, <1>2, JoinFacts
<1>4. Pieces(q, w, f) /\ Tiles(q, lo, w, f)
  BY <1>2
<1>5. PICK i \in 1 .. k : u[i].fin
  BY <1>1 DEF FinIn
<1>6. PICK j \in 1 .. m : v[j].fin
  BY <1>1 DEF FinIn
<1>7. i \in 1 .. Len(q) /\ q[i].fin
  <2>1. i \in 1 .. Len(u)
    BY <1>3, <1>5
  <2>2. q[i] = u[i]
    BY <2>1, <1>3
  <2>3. QED
    BY <2>1, <2>2, <1>3, <1>5
<1>8. j + Len(u) \in 1 .. Len(q) /\ q[j + Len(u)].fin /\ j + Len(u) # i
  BY <1>3, <1>5, <1>6
<1>9. PICK x : x = j + Len(u)
  OBVIOUS
<1>10. End(q[i]) = w + 1 /\ End(q[x]) = w + 1
  BY <1>4, <1>7, <1>8, <1>9 DEF Tiles
<1>11. Piece(q[i], w, f) /\ Piece(q[x], w, f)
  BY <1>4, <1>7, <1>8, <1>9 DEF Pieces
<1>12. Start(q[i]) \in Nat /\ Start(q[x]) \in Nat /\ Start(q[i]) < End(q[i])
       /\ Start(q[x]) < End(q[x])
  BY <1>11, PieceFacts
<1>13. End(q[i]) <= Start(q[x]) \/ End(q[x]) <= Start(q[i])
  BY <1>4, <1>7, <1>8, <1>9 DEF Tiles, Apart
<1>14. QED
  BY <1>10, <1>12, <1>13

\* Of a stream that is whole, exactly the bytes are reported.
LEMMA SentExactly ==
  ASSUME NEW u, NEW k, NEW v, NEW m, NEW lo, NEW o, NEW w, NEW f,
         Acknowledges(u, k, v, m, lo, o, w, f), Tiles(u \o v, lo, w, f)
  PROVE  SentBytes(u, k, v, m, o - lo) = LWIP_MIN(o, w) - LWIP_MIN(lo, w)
<1>1. /\ u \in Seq(Segment) /\ v \in Seq(Segment)
      /\ lo \in Nat /\ o \in Nat /\ w \in Nat /\ f \in {0, 1} /\ w <= MaxWritten
      /\ lo < o /\ o <= w + f
      /\ Pieces(u \o v, w, f)
  BY DEF Acknowledges
<1>2. k \in 0 .. Len(u) /\ m \in 0 .. Len(v)
  BY AcknowledgesFacts
<1>3. LWIP_MIN(lo, w) = lo
  BY <1>1 DEF LWIP_MIN
<1>4. PICK q : q = u \o v
  OBVIOUS
<1>5. Pieces(q, w, f) /\ Tiles(q, lo, w, f)
  BY <1>1, <1>4
<1>6. /\ Len(u) \in Nat /\ Len(v) \in Nat /\ Len(q) = Len(u) + Len(v)
      /\ \A j \in 1 .. Len(u) : q[j] = u[j]
      /\ \A j \in 1 .. Len(v) : q[j + Len(u)] = v[j]
  BY <1>1, <1>4, JoinFacts
<1>7. CASE o <= w
  <2>1. ~FinIn(u, k)
    <3>1. SUFFICES ASSUME NEW i \in 1 .. k, u[i].fin PROVE FALSE
      BY DEF FinIn
    <3>2. i \in 1 .. Len(q) /\ q[i] = u[i]
      BY <1>2, <1>6
    <3>3. End(u[i]) = w + 1
      BY <3>1, <3>2, <1>5 DEF Tiles
    <3>4. End(u[i]) <= o
      BY AcknowledgesFacts
    <3>5. QED
      BY <3>3, <3>4, <1>1, <1>7
  <2>2. ~FinIn(v, m)
    <3>1. SUFFICES ASSUME NEW i \in 1 .. m, v[i].fin PROVE FALSE
      BY DEF FinIn
    <3>2. i + Len(u) \in 1 .. Len(q) /\ q[i + Len(u)] = v[i]
      BY <1>2, <1>6
    <3>3. End(v[i]) = w + 1
      BY <3>1, <3>2, <1>5 DEF Tiles
    <3>4. End(v[i]) <= o
      BY AcknowledgesFacts
    <3>5. QED
      BY <3>3, <3>4, <1>1, <1>7
  <2>3. SentBytes(u, k, v, m, o - lo) = o - lo
    BY <2>1, <2>2 DEF SentBytes
  <2>4. LWIP_MIN(o, w) = o
    BY <1>1, <1>7 DEF LWIP_MIN
  <2>5. QED
    BY <2>3, <2>4, <1>3
<1>8. CASE w < o
  <2>1. f = 1 /\ o = w + 1 /\ k = Len(u) /\ m = Len(v)
    BY <1>8, AcknowledgesFacts
  <2>2. LWIP_MIN(o, w) = w
    BY <2>1, <1>1 DEF LWIP_MIN
  <2>3. FinIn(u, k) \/ FinIn(v, m)
    <3>1. w + 1 \in lo + 1 .. w + f
      BY <2>1, <1>1
    <3>2. PICK i \in 1 .. Len(q) : Start(q[i]) < w + 1 /\ w + 1 <= End(q[i])
      BY <3>1, <1>5 DEF Tiles
    <3>3. Piece(q[i], w, f)
      BY <1>5 DEF Pieces
    <3>4. End(q[i]) \in Nat /\ (End(q[i]) > w => q[i].fin)
      BY <3>3, <1>1, PieceFacts
    <3>5. End(q[i]) > w
      BY <3>2, <3>4, <1>1
    <3>6. i \in 1 .. Len(u \o v) /\ (u \o v)[i].fin
      BY <3>4, <3>5, <1>4
    <3>7. QED
      BY <3>6, <2>1, <1>1, FinFound
  <2>4. ~(FinIn(u, k) /\ FinIn(v, m))
    BY <1>1, <1>2, OneFin
  <2>5. o - lo # 0
    BY <1>1
  <2>6. SentBytes(u, k, v, m, o - lo) = (o - lo) - 1
    BY <2>3, <2>4, <2>5 DEF SentBytes
  <2>7. QED
    BY <2>1, <2>2, <2>6, <1>1, <1>3
<1>9. QED
  BY <1>1, <1>7, <1>8

\* The queues that a new ACK leaves, and the bytes it reports.
LEMMA NewAckQueues ==
  ASSUME IInv, NEW a, Receiving(a), ReceiveNewAck(a)
  PROVE  /\ Offset(lastack) < Offset(a.ackno) /\ Offset(a.ackno) <= Offset(snd_nxt)
         /\ AckedBytes(a) = Offset(a.ackno) - Offset(lastack)
         /\ rtime' \in BOOLEAN
         /\ \E u, v, sent :
              /\ QueuesLeft(u, v, unsent_oversize, Offset(a.ackno))
              /\ Leaves(a, u, v, unsent_oversize, sent)
              /\ sent \in Nat
              /\ sent <= Offset(a.ackno) - Offset(lastack)
              /\ written < Offset(a.ackno) => sent <= written - Offset(lastack)
              /\ ~misplaced =>
                   sent = LWIP_MIN(Offset(a.ackno), written)
                          - LWIP_MIN(Offset(lastack), written)
<1>1. a \in PeerAcks
  BY DEF Receiving
<1>2. /\ unacked \in Seq(Segment) /\ unsent \in Seq(Segment)
      /\ Len(unacked) \in Nat /\ Len(unsent) \in Nat
  BY Numbers
<1>3. PICK o, lo, w, f, n, x :
        /\ o = Offset(a.ackno) /\ lo = Offset(lastack) /\ w = written /\ f = FinLen
        /\ n = Offset(snd_nxt) /\ x = unsent_oversize
  OBVIOUS
<1>4. /\ o \in Nat /\ lo \in Nat /\ w \in Nat /\ f \in {0, 1} /\ n \in Nat
      /\ w <= MaxWritten /\ n <= w + f
  <2>1. /\ o \in Nat /\ lo \in Nat /\ w \in Nat /\ f \in {0, 1} /\ n \in Nat
        /\ w <= MaxWritten
    BY <1>1, <1>3, Numbers, AckFacts
  <2>2. n <= wire_end /\ wire_end <= w + f /\ wire_end \in Nat
    BY <1>3, Numbers
  <2>3. QED
    BY <2>1, <2>2
<1>5. lo < o /\ o <= n
  BY <1>1, <1>3, AckCases DEF ReceiveNewAck
<1>6. AckedBytes(a) = o - lo
  BY <1>1, <1>3, <1>4, <1>5, AckCases
<1>7. PICK bytes : bytes = AckedBytes(a)
  OBVIOUS
<1>8. PICK k \in 0 .. Len(unacked) :
        /\ CoversHead(unacked, k, a.ackno)
        /\ Finish(a, DropFirst(unacked, k), unsent, unsent_oversize,
                  IF FinIn(unacked, k) THEN bytes - 1 ELSE bytes,
                  DropFirst(unacked, k) # <<>>)
  BY <1>7 DEF ReceiveNewAck
<1>9. PICK u : u = DropFirst(unacked, k)
  OBVIOUS
<1>10. PICK c : c = (IF FinIn(unacked, k) THEN bytes - 1 ELSE bytes)
  OBVIOUS
<1>11. Finish(a, u, unsent, x, c, u # <<>>)
  BY <1>3, <1>8, <1>9, <1>10
<1>12. PICK m \in 0 .. Len(unsent) :
         /\ CoversUnsent(unsent, m, a.ackno)
         /\ Leaves(a, u, DropFirst(unsent, m), x,
                   IF c # 0 /\ FinIn(unsent, m) THEN c - 1 ELSE c)
  BY <1>11, FinishLeaves
<1>13. rtime' \in BOOLEAN
  BY <1>11, FinishLeaves
<1>14. PICK v : v = DropFirst(unsent, m)
  OBVIOUS
<1>15. PICK sent : sent = (IF c # 0 /\ FinIn(unsent, m) THEN c - 1 ELSE c)
  OBVIOUS
<1>16. Leaves(a, u, v, x, sent)
  BY <1>12, <1>14, <1>15
<1>17. sent = SentBytes(unacked, k, unsent, m, o - lo)
  BY <1>6, <1>7, <1>10, <1>15 DEF SentBytes
<1>18. HeadCovered(unacked, k, o) /\ HeadCovered(unsent, m, o)
  <2>1. Pieces(unacked, written, FinLen) /\ Pieces(unsent, written, FinLen)
    BY QueuedPieces
  <2>2. HeadCovered(unacked, k, Offset(a.ackno))
    BY <2>1, <1>1, <1>8, CoveredHead
  <2>3. Offset(a.ackno) <= Offset(snd_nxt)
    BY <1>3, <1>5
  <2>4. CoversUnsent(unsent, m, a.ackno)
    BY <1>12
  <2>5. HeadCovered(unsent, m, Offset(a.ackno))
    BY <2>1, <2>3, <2>4, <1>1, CoveredUnsent
  <2>6. QED
    BY <2>2, <2>5, <1>3
<1>19. Acknowledges(unacked, k, unsent, m, lo, o, w, f)
  <2>1. Pieces(unacked \o unsent, w, f)
    BY <1>3, QueuedPieces DEF Queued
  <2>2. o <= w + f
    BY <1>4, <1>5
  <2>3. QED
    BY <2>1, <2>2, <1>2, <1>4, <1>5, <1>18 DEF Acknowledges
<1>20. Holds(unacked \o unsent, lo, w, f, n, misplaced)
  BY <1>3 DEF IInv, Queues, Queued, Receiving
<1>21. sent \in Nat /\ sent <= o - lo
  BY <1>17, <1>19, SentBounds
<1>22. w < o => sent <= w - lo
  <2>1. SUFFICES ASSUME w < o PROVE sent <= w - lo
    OBVIOUS
  <2>2. lo <= w /\ w < n
    BY <2>1, <1>4, <1>5, <1>19 DEF Acknowledges
  <2>3. FinHeld(unacked \o unsent, w)
    BY <2>2, <1>20 DEF Holds
  <2>4. QED
    BY <2>1, <2>3, <1>17, <1>19, SentBounds
<1>23. ~misplaced => sent = LWIP_MIN(o, w) - LWIP_MIN(lo, w)
  <2>1. ~misplaced => Tiles(unacked \o unsent, lo, w, f)
    BY <1>20 DEF Holds
  <2>2. QED
    BY <2>1, <1>17, <1>19, SentExactly
<1>24. /\ u \in Seq(Segment) /\ Len(u) = Len(unacked) - k
       /\ \A j \in 1 .. Len(unacked) - k : u[j] = unacked[j + k]
  BY <1>2, <1>9, DropFirstFacts
<1>25. /\ v \in Seq(Segment) /\ Len(v) = Len(unsent) - m
       /\ \A j \in 1 .. Len(unsent) - m : v[j] = unsent[j + m]
  BY <1>2, <1>14, DropFirstFacts
<1>26. Moves(Queued, u \o v, o)
  <2>1. /\ \A i \in 1 .. k : End(unacked[i]) <= o
        /\ \A i \in 1 .. m : End(unsent[i]) <= o
    BY <1>18 DEF HeadCovered
  <2>2. Moves(unacked \o unsent, DropFirst(unacked, k) \o DropFirst(unsent, m), o)
    BY <2>1, <1>2, DropMoves
  <2>3. QED
    BY <2>2, <1>9, <1>14 DEF Queued
<1>27. ~misplaced => Ascending(u)
  <2>1. SUFFICES ASSUME ~misplaced, NEW i \in 1 .. Len(u), NEW j \in 1 .. Len(u), i < j
                 PROVE  Start(u[i]) < Start(u[j])
    BY DEF Ascending
  <2>2. Ascending(unacked)
    BY <2>1 DEF IInv, Queues, Receiving
  <2>3. /\ i + k \in 1 .. Len(unacked) /\ j + k \in 1 .. Len(unacked) /\ i + k < j + k
        /\ u[i] = unacked[i + k] /\ u[j] = unacked[j + k]
    BY <2>1, <1>2, <1>24
  <2>4. QED
    BY <2>2, <2>3 DEF Ascending
<1>28. v # <<>> => v[Len(v)].len + x <= MssLocal
  <2>1. SUFFICES ASSUME v # <<>> PROVE v[Len(v)].len + x <= MssLocal
    OBVIOUS
  <2>2. Len(v) \in 1 .. Len(unsent) - m /\ Len(v) + m = Len(unsent)
    BY <2>1, <1>2, <1>25, EmptySeq
  <2>3. v[Len(v)] = unsent[Len(unsent)]
    BY <2>2, <1>25
  <2>4. unsent # <<>>
    BY <2>2, <1>2, EmptySeq
  <2>5. QED
    BY <2>3, <2>4, <1>3 DEF IInv, OversizeFits, LastUnsent
<1>29. x \in 0 .. TCP_MSS
  BY <1>3 DEF IInv, Types
<1>30. QueuesLeft(u, v, x, o)
  BY <1>24, <1>25, <1>26, <1>27, <1>28, <1>29 DEF QueuesLeft
<1>31. \E uu, vv, ss :
         /\ QueuesLeft(uu, vv, x, o) /\ Leaves(a, uu, vv, x, ss)
         /\ ss \in Nat /\ ss <= o - lo
         /\ w < o => ss <= w - lo
         /\ ~misplaced => ss = LWIP_MIN(o, w) - LWIP_MIN(lo, w)
  BY <1>16, <1>21, <1>22, <1>23, <1>30, Zenon
<1>32. QED
  BY <1>3, <1>5, <1>6, <1>13, <1>31

\* New data is acknowledged.
LEMMA NewAckKeeps ==
  ASSUME IInv, NEW a, Receiving(a), ReceiveNewAck(a)
  PROVE  IInv'
<1>1. /\ flags' = flags \ {"INFR"} /\ nrtx' = 0
      /\ snd_buf' = SndBufAfterAck(a) /\ dupacks' = 0 /\ lastack' = a.ackno
      /\ rtseq' = RttAfter(a)
  BY DEF ReceiveNewAck
<1>2. a \in PeerAcks
  BY DEF Receiving
<1>3. PICK o, lo, w : o = Offset(a.ackno) /\ lo = Offset(lastack) /\ w = written
  OBVIOUS
<1>4. /\ lo < o /\ o <= Offset(snd_nxt) /\ AckedBytes(a) = o - lo /\ rtime' \in BOOLEAN
  BY <1>3, NewAckQueues
<1>5. PICK u, v, sent :
        /\ QueuesLeft(u, v, unsent_oversize, o)
        /\ Leaves(a, u, v, unsent_oversize, sent)
        /\ sent \in Nat /\ sent <= o - lo
        /\ w < o => sent <= w - lo
  BY <1>3, NewAckQueues
<1>6. o \in Nat /\ a.ackno \in SeqNo
  BY <1>2, <1>3, AckFacts
<1>7. lastack' \in SeqNo /\ Offset(lastack') = o
  BY <1>1, <1>3, <1>6
<1>8. PICK lb \in Nat, b \in Nat, B \in Nat :
        lb = Offset(snd_lbb) /\ b = snd_buf /\ B = TCP_SND_BUF
  BY Numbers, SendConstants
<1>9. b + lb = B + lo /\ w <= lb /\ lo \in Nat /\ w \in Nat
  <2>1. w <= Offset(snd_lbb) /\ lo \in Nat /\ w \in Nat
    BY <1>3, Numbers
  <2>2. snd_buf + Offset(snd_lbb) = TCP_SND_BUF + Offset(lastack)
    BY DEF IInv, SndBufConserved
  <2>3. QED
    BY <2>1, <2>2, <1>3, <1>8
<1>10. snd_buf' = b + (o - lo)
  BY <1>1, <1>4, <1>8 DEF SndBufAfterAck
<1>11. snd_buf' \in Nat
  BY <1>4, <1>6, <1>9, <1>10
<1>12. SndBufConserved'
  <2>1. snd_lbb' = snd_lbb
    BY <1>5 DEF Leaves
  <2>2. (b + (o - lo)) + lb = B + o
    BY <1>6, <1>9
  <2>3. QED
    BY <2>1, <2>2, <1>7, <1>8, <1>10 DEF SndBufConserved
<1>13. sent <= TCP_SND_BUF
  <2>1. sent <= w - lo
    BY <1>5, <1>6, <1>9
  <2>2. sent <= B
    BY <2>1, <1>5, <1>9
  <2>3. QED
    BY <2>2, <1>8
<1>14. Counters'
  <2>1. rtseq' \in SeqNo \cup {NoRtt}
    BY <1>1, QueuesAsTheyAre
  <2>2. flags' \subseteq {"INFR", "NAGLEMEMERR", "FIN"}
    BY <1>1, QueuesAsTheyAre
  <2>3. nrtx' \in 0 .. NrtxWidth - 1 /\ dupacks' \in 0 .. 4
    BY <1>1, SendConstants
  <2>4. QED
    BY <2>1, <2>2, <2>3, <1>4 DEF Counters
<1>15. "FIN" \in flags' <=> "FIN" \in flags
  BY <1>1
<1>16. QueuesLeft(u, v, unsent_oversize, Offset(lastack'))
  BY <1>5, <1>7
<1>17. Offset(lastack) <= Offset(lastack') /\ Offset(lastack') <= Offset(snd_nxt)
  BY <1>3, <1>4, <1>6, <1>7, <1>9
<1>18. sent \in Nat /\ Leaves(a, u, v, unsent_oversize, sent)
  BY <1>5
<1>19. QED
  BY <1>7, <1>11, <1>12, <1>13, <1>14, <1>15, <1>16, <1>17, <1>18, FinishKeeps

LEMMA ReceiveKeeps ==
  ASSUME IInv, NEW a, a \in PeerAcks, tcp_receive(a)
  PROVE  IInv'
<1>1. Receiving(a)
  BY DEF Receiving, tcp_receive
<1>2. CASE ReceiveOldAck(a)
  <2>1. Offset(a.ackno) <= Offset(lastack)
    BY <1>2, AckCases DEF ReceiveOldAck
  <2>2. /\ dupacks' = (IF IsDupAck(a) THEN LWIP_MIN(dupacks + 1, 4) ELSE 0)
        /\ UNCHANGED <<lastack, snd_buf>>
        /\ IF FastRexmit(a) THEN tcp_rexmit_fast(a) ELSE DupAck(a)
    BY <1>2 DEF ReceiveOldAck
  <2>3. CASE FastRexmit(a)
    <3>1. tcp_rexmit_fast(a)
      BY <2>2, <2>3
    <3>2. QED
      BY <3>1, <2>1, <2>2, <2>3, <1>1, FastRexmitKeeps
  <2>4. CASE ~FastRexmit(a)
    <3>1. DupAck(a)
      BY <2>2, <2>4
    <3>2. QED
      BY <3>1, <2>1, <2>2, <1>1, DupAckKeeps
  <2>5. QED
    BY <2>3, <2>4
<1>3. CASE ReceiveNewAck(a)
  BY <1>1, <1>3, NewAckKeeps
<1>4. CASE ReceiveAckBeyond(a)
  BY <1>1, <1>4, AckBeyondKeeps
<1>5. QED
  BY <1>2, <1>3, <1>4 DEF tcp_receive

-----------------------------------------------------------------------------
(* The invariant. *)

LEMMA InitIInv ==
  ASSUME Init
  PROVE  IInv
<1>1. /\ state \in {"ESTABLISHED", "CLOSE_WAIT"} /\ unsent = <<>> /\ unacked = <<>>
      /\ snd_nxt = ISS /\ lastack = ISS /\ snd_lbb = ISS /\ snd_wl2 = ISS
      /\ snd_buf = TCP_SND_BUF /\ unsent_oversize = 0 /\ snd_wnd = SND_WND_MAX
      /\ misplaced = FALSE
      /\ dupacks = 0 /\ acked = 0 /\ nrtx = 0 /\ rtseq = NoRtt
      /\ flags = {} /\ pc = "idle" /\ written = 0 /\ reported = 0 /\ wire_end = 0
  BY DEF Init
<1>2. rtime \in BOOLEAN /\ persist \in BOOLEAN /\ misplaced \in BOOLEAN
  BY DEF Init
<1>3. Offset(ISS) = 0
  BY SendAssumption, HalfAssumption DEF Offset, SeqSub, SeqNo, SeqMod
<1>4. Types
  <2>1. /\ state \in States /\ unsent \in Seq(Segment) /\ unacked \in Seq(Segment)
        /\ flags \subseteq {"INFR", "NAGLEMEMERR", "FIN"}
        /\ pc \in {"idle", "callback", "output", "sending"}
    BY <1>1 DEF States
  <2>2. snd_nxt \in SeqNo /\ lastack \in SeqNo /\ snd_lbb \in SeqNo /\ snd_wl2 \in SeqNo
    BY <1>1, SendConstants
  <2>3. /\ snd_buf \in 0 .. TCP_SND_BUF + 1 /\ unsent_oversize \in 0 .. TCP_MSS
        /\ snd_wnd \in 0 .. SND_WND_MAX
        /\ dupacks \in 0 .. 4 /\ acked \in 0 .. TCP_SND_BUF
        /\ nrtx \in 0 .. NrtxWidth - 1
        /\ written \in 0 .. MaxWritten /\ reported \in Nat /\ wire_end \in Nat
    BY <1>1, SendConstants
  <2>4. QED
    BY <2>1, <2>2, <2>3, <1>1, <1>2 DEF Types
<1>5. FinLen = 0 /\ Alive
  BY <1>1 DEF FinLen, Alive
<1>6. Positions
  BY <1>1, <1>3, <1>5 DEF Positions
<1>7. Queues
  <2>1. Queued = <<>> /\ Len(Queued) = 0
    BY <1>1 DEF Queued
  <2>2. Holds(Queued, Offset(lastack), written, FinLen, Offset(snd_nxt), misplaced)
    BY <2>1, <1>1, <1>3, <1>5 DEF Holds, Pieces, Tiles, Apart
  <2>3. Ascending(unacked)
    BY <1>1 DEF Ascending
  <2>4. QED
    BY <2>2, <2>3, <1>1, <1>5 DEF Queues
<1>8. FinSent /\ OversizeFits /\ SndBufConserved
  BY <1>1, <1>3, SendConstants DEF FinSent, OversizeFits, SndBufConserved
<1>9. QED
  BY <1>4, <1>6, <1>7, <1>8 DEF IInv

LEMMA NextIInv ==
  ASSUME IInv, Next
  PROVE  IInv'
<1>1. CASE Application
  <2>1. ASSUME NEW len \in WriteLens, tcp_write(len) PROVE IInv'
    <3>1. len \in Nat /\ len >= 1
      BY SendAssumption
    <3>2. QED
      BY <3>1, <2>1, WriteKeeps
  <2>2. CASE ShutdownPiggyback
    BY <2>2, PiggybackKeeps
  <2>3. CASE ShutdownEnqueue
    BY <2>3, EnqueueKeeps
  <2>4. CASE WriteFails \/ ShutdownFails \/ tcp_output
    BY <2>4, QuietActionKeeps DEF QuietAction
  <2>5. QED
    BY <2>1, <2>2, <2>3, <2>4, <1>1 DEF Application
<1>2. CASE Output
  <2>1. CASE OutputSegment
    BY <2>1, OutputKeeps
  <2>2. CASE OutputFails \/ OutputDone \/ OutputEmptyAck
    BY <2>2, QuietActionKeeps DEF QuietAction
  <2>3. QED
    BY <2>1, <2>2, <1>2 DEF Output
<1>3. CASE Input
  <2>1. ASSUME NEW a \in PeerAcks, tcp_receive(a) PROVE IInv'
    BY <2>1, ReceiveKeeps
  <2>2. CASE InputStray \/ InputOutput
    BY <2>2, QuietActionKeeps DEF QuietAction
  <2>3. QED
    BY <2>1, <2>2, <1>3 DEF Input
<1>4. CASE Timers
  BY <1>4, RemoveKeeps, ProbeKeeps, RexmitKeeps DEF Timers
<1>5. QED
  BY <1>1, <1>2, <1>3, <1>4 DEF Next

LEMMA StutterIInv ==
  ASSUME IInv, UNCHANGED vars
  PROVE  IInv'
BY DEF vars, queueVars, ackVars, ccVars, rtxVars, IInv, Types, Positions, Queues, FinSent,
       OversizeFits, SndBufConserved, FinLen, Queued, Alive, LastUnsent

LEMMA SendInvariant == Spec => []IInv
<1>1. Init => IInv
  BY InitIInv
<1>2. IInv /\ [Next]_vars => IInv'
  BY NextIInv, StutterIInv
<1>3. QED
  BY <1>1, <1>2, PTL DEF Spec

\* The free bytes that tcp_write fills first fit the last unsent segment,
\* failed sends and requeued segments included.
THEOREM SendOversizeFits == Spec => []OversizeFits
<1>1. IInv => OversizeFits
  BY DEF IInv
<1>2. QED
  BY <1>1, SendInvariant, PTL

-----------------------------------------------------------------------------
(* The queues. *)

\* The segments of Queued, if nothing is misplaced.
LEMMA QueuedTiles ==
  ASSUME IInv, ~misplaced, Alive
  PROVE  /\ Tiles(Queued, Offset(lastack), written, FinLen)
         /\ \A i \in 1 .. Len(Queued) :
              /\ Start(Queued[i]) \in Nat /\ End(Queued[i]) \in Nat /\ Queued[i].len \in Nat
              /\ Start(Queued[i]) + Queued[i].len <= End(Queued[i])
              /\ Queued[i].fin => Start(Queued[i]) + Queued[i].len = written
              /\ ~Queued[i].fin => End(Queued[i]) = Start(Queued[i]) + Queued[i].len
              /\ End(Queued[i]) > written => Queued[i].fin
<1>1. Tiles(Queued, Offset(lastack), written, FinLen)
  BY DEF IInv, Queues, Holds
<1>2. ASSUME NEW i \in 1 .. Len(Queued)
      PROVE  /\ Start(Queued[i]) \in Nat /\ End(Queued[i]) \in Nat /\ Queued[i].len \in Nat
             /\ Start(Queued[i]) + Queued[i].len <= End(Queued[i])
             /\ Queued[i].fin => Start(Queued[i]) + Queued[i].len = written
             /\ ~Queued[i].fin => End(Queued[i]) = Start(Queued[i]) + Queued[i].len
             /\ End(Queued[i]) > written => Queued[i].fin
  <2>1. PICK s : s = Queued[i]
    OBVIOUS
  <2>2. Piece(s, written, FinLen)
    BY <2>1, QueuedPieces DEF Pieces
  <2>3. written \in Nat /\ FinLen \in {0, 1} /\ written <= MaxWritten
    BY Numbers
  <2>4. /\ Start(s) \in Nat /\ End(s) \in Nat /\ s.len \in Nat /\ s.fin \in BOOLEAN
        /\ End(s) = (IF s.fin THEN Start(s) + s.len + 1 ELSE Start(s) + s.len)
        /\ End(s) > written => s.fin
    BY <2>2, <2>3, PieceFacts
  <2>5. s.fin => End(s) = written + 1
    BY <2>1, <1>1 DEF Tiles
  <2>6. QED
    BY <2>1, <2>3, <2>4, <2>5
<1>3. QED
  BY <1>1, <1>2

\* Every byte is in one segment.
LEMMA TilesStream ==
  ASSUME IInv, ~misplaced
  PROVE  StreamQueued
<1>1. SUFFICES ASSUME Alive, NEW n \in Offset(lastack) + 1 .. written
               PROVE  \E i \in 1 .. Len(Queued) :
                        /\ Carries(Queued[i], n)
                        /\ \A j \in 1 .. Len(Queued) : Carries(Queued[j], n) => j = i
  BY DEF StreamQueued
<1>2. /\ Offset(lastack) \in Nat /\ written \in Nat /\ FinLen \in {0, 1}
      /\ n \in Nat /\ n <= written
  <2>1. Offset(lastack) \in Nat /\ written \in Nat /\ FinLen \in {0, 1}
    BY Numbers
  <2>2. QED
    BY <2>1
<1>3. PICK i \in 1 .. Len(Queued) : Start(Queued[i]) < n /\ n <= End(Queued[i])
  <2>1. Tiles(Queued, Offset(lastack), written, FinLen)
    BY <1>1, QueuedTiles
  <2>2. n \in Offset(lastack) + 1 .. written + FinLen
    BY <1>2
  <2>3. QED
    BY <2>1, <2>2 DEF Tiles
<1>4. Carries(Queued[i], n)
  <2>1. /\ Start(Queued[i]) \in Nat /\ Queued[i].len \in Nat
        /\ Queued[i].fin => Start(Queued[i]) + Queued[i].len = written
        /\ ~Queued[i].fin => End(Queued[i]) = Start(Queued[i]) + Queued[i].len
    BY <1>1, QueuedTiles
  <2>2. n <= Start(Queued[i]) + Queued[i].len
    BY <2>1, <1>2, <1>3
  <2>3. QED
    BY <2>2, <1>3 DEF Carries, Start
<1>5. ASSUME NEW j \in 1 .. Len(Queued), Carries(Queued[j], n) PROVE j = i
  <2>1. SUFFICES ASSUME j # i PROVE FALSE
    OBVIOUS
  <2>2. Start(Queued[j]) < n /\ n <= Start(Queued[j]) + Queued[j].len
    BY <1>5 DEF Carries, Start
  <2>3. /\ Start(Queued[j]) \in Nat /\ Queued[j].len \in Nat /\ End(Queued[j]) \in Nat
        /\ Start(Queued[j]) + Queued[j].len <= End(Queued[j])
        /\ Start(Queued[i]) \in Nat /\ End(Queued[i]) \in Nat
    BY <1>1, QueuedTiles
  <2>4. Apart(Queued)
    BY <1>1, QueuedTiles DEF Tiles
  <2>5. End(Queued[i]) <= Start(Queued[j]) \/ End(Queued[j]) <= Start(Queued[i])
    BY <2>1, <2>4 DEF Apart
  <2>6. QED
    BY <2>2, <2>3, <2>5, <1>2, <1>3
<1>6. QED
  BY <1>4, <1>5

LEMMA TilesFin ==
  ASSUME IInv, ~misplaced
  PROVE  FinAfterStream
<1>1. CASE ~Alive
  <2>1. unacked = <<>> /\ unsent = <<>>
    BY <1>1 DEF IInv, Queues
  <2>2. Len(Queued) = 0
    BY <2>1 DEF Queued
  <2>3. QED
    BY <2>2, <1>1 DEF FinAfterStream
<1>2. CASE Alive
  <2>1. ASSUME NEW i \in 1 .. Len(Queued), Queued[i].fin
        PROVE  Offset(Queued[i].seqno) + Queued[i].len = written
    BY <2>1, <1>2, QueuedTiles DEF Start
  <2>2. ASSUME "FIN" \in flags, Offset(lastack) <= written
        PROVE  \E i \in 1 .. Len(Queued) : Queued[i].fin
    <3>1. FinLen = 1
      BY <2>2 DEF FinLen
    <3>2. Tiles(Queued, Offset(lastack), written, FinLen)
      BY <1>2, QueuedTiles
    <3>3. written \in Nat /\ Offset(lastack) \in Nat
      BY Numbers
    <3>4. written + 1 \in Offset(lastack) + 1 .. written + FinLen
      BY <3>1, <3>3, <2>2
    <3>5. PICK i \in 1 .. Len(Queued) : written + 1 <= End(Queued[i])
      BY <3>2, <3>4 DEF Tiles
    <3>6. End(Queued[i]) \in Nat /\ (End(Queued[i]) > written => Queued[i].fin)
      BY <1>2, QueuedTiles
    <3>7. Queued[i].fin
      BY <3>3, <3>5, <3>6
    <3>8. QED
      BY <3>7
  <2>3. QED
    BY <2>1, <2>2 DEF FinAfterStream
<1>3. QED
  BY <1>1, <1>2

LEMMA AscendingSorted ==
  ASSUME IInv, ~misplaced
  PROVE  Sorted(unacked)
<1>1. SUFFICES ASSUME NEW i \in 1 .. Len(unacked) - 1
               PROVE  TCP_SEQ_LT(unacked[i].seqno, unacked[i + 1].seqno)
  BY DEF Sorted
<1>2. Len(unacked) \in Nat /\ written \in Nat /\ written <= MaxWritten /\ FinLen \in {0, 1}
  BY Numbers
<1>3. i \in 1 .. Len(unacked) /\ i + 1 \in 1 .. Len(unacked) /\ i < i + 1
  BY <1>2
<1>4. unacked # <<>>
  BY <1>3, <1>2
<1>5. Ascending(unacked)
  BY <1>4 DEF IInv, Queues
<1>6. Start(unacked[i]) < Start(unacked[i + 1])
  BY <1>3, <1>5 DEF Ascending
<1>7. Piece(unacked[i], written, FinLen) /\ Piece(unacked[i + 1], written, FinLen)
  BY <1>3, QueuedPieces DEF Pieces
<1>8. /\ unacked[i].seqno \in SeqNo /\ Start(unacked[i]) < Half
      /\ unacked[i + 1].seqno \in SeqNo /\ Start(unacked[i + 1]) < Half
  BY <1>2, <1>7, PieceFacts
<1>9. QED
  BY <1>6, <1>8, PositionOrder DEF Start

\* The send queues hold the unacknowledged stream and its FIN once, and unacked
\* in order, whatever was sent, lost, acknowledged or retransmitted before and
\* whichever sends failed, until something is appended in the middle of the
\* stream (MCSendMisplaced.cfg).
THEOREM SendQueuesSound == Spec => []QueuesSound
<1>1. IInv => QueuesSound
  BY TilesStream, TilesFin, AscendingSorted DEF QueuesSound
<1>2. QED
  BY <1>1, SendInvariant, PTL

-----------------------------------------------------------------------------
(* The types, and the congestion window that does not wrap. *)

CwndOK == cwnd \in 1 .. MaxWnd /\ ssthresh \in 1 .. MaxWnd

\* The slow start threshold after a loss.
LEMMA HalfWindowType ==
  ASSUME WideWindow, cwnd \in Nat, NEW wnd \in Nat, wnd <= SND_WND_MAX
  PROVE  /\ HalfWindow(wnd) \in 1 .. MaxWnd
         /\ HalfWindow(wnd) >= 2 * TCP_MSS
         /\ HalfWindow(wnd) + 3 * TCP_MSS <= MaxWnd
<1>1. PICK m \in Nat : m = LWIP_MIN(cwnd, wnd) /\ m <= SND_WND_MAX
  BY SendConstants DEF LWIP_MIN
<1>2. m \div 2 \in Nat /\ m \div 2 <= SND_WND_MAX \div 2
  BY <1>1, SendConstants
<1>3. HalfWindow(wnd) = LWIP_MAX(m \div 2, 2 * TCP_MSS)
  BY <1>1 DEF HalfWindow
<1>4. QED
  BY <1>2, <1>3, SendConstants DEF LWIP_MAX, WideWindow

\* The window grows without a wrap.
LEMMA GrowType ==
  ASSUME NEW w \in 1 .. MaxWnd, NEW k \in Nat
  PROVE  Grow(w, k) \in 1 .. MaxWnd
<1>1. PICK M \in Nat : M = MaxWnd /\ M >= 1
  BY SendConstants
<1>2. WndAdd(w, k) \in 0 .. M
  BY <1>1 DEF WndAdd
<1>3. QED
  BY <1>1, <1>2 DEF Grow

\* The congestion window after new data is acknowledged.
LEMMA CwndAfterAckType ==
  ASSUME cwnd \in 1 .. MaxWnd, ssthresh \in 1 .. MaxWnd
  PROVE  CwndAfterAck \in 1 .. MaxWnd
<1>1. PICK w \in 1 .. MaxWnd : w = (IF "INFR" \in flags THEN ssthresh ELSE cwnd)
  OBVIOUS
<1>2. CwndAfterAck = (IF w < ssthresh THEN Grow(w, TCP_MSS)
                        ELSE Grow(w, (TCP_MSS * TCP_MSS) \div w))
  BY <1>1 DEF CwndAfterAck
<1>3. (TCP_MSS * TCP_MSS) \div w \in Nat
  <2>1. PICK p \in Nat : p = TCP_MSS * TCP_MSS
    BY SendConstants
  <2>2. w \in Nat /\ w >= 1
    BY <1>1, SendConstants
  <2>3. p \div w \in Nat
    BY <2>1, <2>2
  <2>4. QED
    BY <2>1, <2>3
<1>4. Grow(w, TCP_MSS) \in 1 .. MaxWnd /\ Grow(w, (TCP_MSS * TCP_MSS) \div w) \in 1 .. MaxWnd
  BY <1>1, <1>3, SendConstants, GrowType
<1>5. QED
  BY <1>2, <1>4

LEMMA RexmitCwnd ==
  ASSUME WideWindow, CwndOK, NEW wnd \in Nat, wnd <= SND_WND_MAX
  PROVE  /\ HalfWindow(wnd) \in 1 .. MaxWnd
         /\ WndAdd(HalfWindow(wnd), 3 * TCP_MSS) \in 1 .. MaxWnd
<1>1. PICK h : h = HalfWindow(wnd)
  OBVIOUS
<1>2. h \in 1 .. MaxWnd /\ h + 3 * TCP_MSS <= MaxWnd
  <2>1. cwnd \in Nat
    BY SendConstants DEF CwndOK
  <2>2. QED
    BY <2>1, <1>1, HalfWindowType
<1>3. PICK t \in Nat, N \in Nat : t = h + 3 * TCP_MSS /\ N = MaxWnd /\ t <= N /\ t >= 1
  BY <1>2, SendConstants
<1>4. t % (N + 1) = t
  BY <1>3
<1>5. WndAdd(h, 3 * TCP_MSS) = t
  BY <1>3, <1>4 DEF WndAdd
<1>6. WndAdd(h, 3 * TCP_MSS) \in 1 .. MaxWnd
  BY <1>3, <1>5
<1>7. QED
  BY <1>1, <1>2, <1>6

LEMMA CwndNext ==
  ASSUME IInv, CwndOK, Next, WideWindow
  PROVE  CwndOK'
<1>1. cwnd \in 1 .. MaxWnd /\ ssthresh \in 1 .. MaxWnd
  BY DEF CwndOK
<1>2. CASE Application \/ Output \/ InputStray \/ InputOutput
  BY <1>2 DEF CwndOK, Application, tcp_write, WriteFails, ShutdownPiggyback, ShutdownEnqueue,
       ShutdownFails, tcp_output, Output, OutputSegment, OutputFails, OutputDone,
       OutputEmptyAck, InputStray, InputOutput, ccVars
<1>3. CASE Timers
  <2>1. CASE SlowtmrRemove \/ SlowtmrProbe
    BY <2>1 DEF CwndOK, SlowtmrRemove, SlowtmrProbe, ccVars
  <2>2. CASE SlowtmrRexmit
    <3>1. ssthresh' = HalfWindow(snd_wnd) /\ cwnd' = TCP_MSS
      BY <2>2 DEF SlowtmrRexmit
    <3>2. snd_wnd \in Nat /\ snd_wnd <= SND_WND_MAX
      BY Numbers
    <3>3. ssthresh' \in 1 .. MaxWnd
      BY <3>1, <3>2, RexmitCwnd
    <3>4. TCP_MSS \in 1 .. MaxWnd
      BY SendConstants DEF WideWindow
    <3>5. QED
      BY <3>1, <3>3, <3>4 DEF CwndOK
  <2>3. QED
    BY <2>1, <2>2, <1>3 DEF Timers
<1>4. ASSUME NEW a \in PeerAcks, tcp_receive(a) PROVE CwndOK'
  <2>1. Receiving(a)
    BY <1>4 DEF Receiving, tcp_receive
  <2>2. CASE ReceiveOldAck(a)
    <3>1. CASE FastRexmit(a)
      <4>1. ssthresh' = HalfWindow(snd_wnd') /\ cwnd' = WndAdd(ssthresh', 3 * TCP_MSS)
        BY <2>2, <3>1 DEF ReceiveOldAck, tcp_rexmit_fast
      <4>2. PICK wnd : wnd = snd_wnd'
        OBVIOUS
      <4>3. wnd \in Nat /\ wnd <= SND_WND_MAX
        <5>1. wnd \in 0 .. SND_WND_MAX
          BY <2>1, <4>2, WindowType
        <5>2. QED
          BY <5>1, SendConstants
      <4>4. HalfWindow(wnd) \in 1 .. MaxWnd
            /\ WndAdd(HalfWindow(wnd), 3 * TCP_MSS) \in 1 .. MaxWnd
        BY <4>3, RexmitCwnd
      <4>5. QED
        BY <4>1, <4>2, <4>4 DEF CwndOK
    <3>2. CASE ~FastRexmit(a)
      <4>1. /\ ssthresh' = ssthresh
            /\ cwnd' = cwnd \/ cwnd' = Grow(cwnd, TCP_MSS)
        BY <2>2, <3>2 DEF ReceiveOldAck, DupAck
      <4>2. Grow(cwnd, TCP_MSS) \in 1 .. MaxWnd
        BY <1>1, SendConstants, GrowType
      <4>3. QED
        BY <4>1, <4>2, <1>1 DEF CwndOK
    <3>3. QED
      BY <3>1, <3>2
  <2>3. CASE ReceiveNewAck(a)
    <3>1. cwnd' = CwndAfterAck /\ ssthresh' = ssthresh
      BY <2>3 DEF ReceiveNewAck
    <3>2. QED
      BY <3>1, <1>1, CwndAfterAckType DEF CwndOK
  <2>4. CASE ReceiveAckBeyond(a)
    BY <2>4, <1>1 DEF ReceiveAckBeyond, CwndOK
  <2>5. QED
    BY <2>2, <2>3, <2>4, <1>4 DEF tcp_receive
<1>5. QED
  BY <1>2, <1>3, <1>4 DEF Next, Input

LEMMA TypesTogether ==
  ASSUME IInv, CwndOK
  PROVE  TypeOK
<1>1. Types
  BY DEF IInv
<1>2. snd_nxt \in SeqNo /\ lastack \in SeqNo /\ snd_lbb \in SeqNo /\ snd_wl2 \in SeqNo
  BY <1>1 DEF Types
<1>3. {snd_nxt, lastack, snd_lbb, snd_wl2} \subseteq SeqNo
  BY <1>2
<1>4. /\ state \in States
      /\ unsent \in Seq(Segment) /\ unacked \in Seq(Segment)
      /\ snd_buf \in 0 .. TCP_SND_BUF + 1 /\ unsent_oversize \in 0 .. TCP_MSS
      /\ snd_wnd \in 0 .. SND_WND_MAX
      /\ dupacks \in 0 .. 4 /\ acked \in 0 .. TCP_SND_BUF
      /\ nrtx \in 0 .. NrtxWidth - 1
  BY <1>1 DEF Types
<1>5. /\ misplaced \in BOOLEAN
      /\ rtime \in BOOLEAN /\ rtseq \in SeqNo \cup {NoRtt}
      /\ flags \subseteq {"INFR", "NAGLEMEMERR", "FIN"}
      /\ persist \in BOOLEAN
      /\ pc \in {"idle", "callback", "output", "sending"}
      /\ written \in 0 .. MaxWritten
      /\ reported \in Nat /\ wire_end \in Nat
  BY <1>1 DEF Types
<1>6. QED
  BY <1>3, <1>4, <1>5 DEF CwndOK, TypeOK

\* With a congestion window that fits its C type after a fast retransmit, every
\* variable keeps its type: cwnd and ssthresh never wrap or reach 0, snd_buf
\* never exceeds the buffer by more than the FIN, acked never exceeds the buffer.
THEOREM SendTypeOK ==
  ASSUME WideWindow
  PROVE  Spec => []TypeOK
<1>1. Init => CwndOK
  BY SendConstants DEF Init, CwndOK
<1>2. IInv /\ CwndOK /\ UNCHANGED vars => CwndOK'
  BY DEF vars, ccVars, CwndOK
<1>3. IInv /\ CwndOK /\ [Next]_vars => CwndOK'
  BY <1>2, CwndNext
<1>4. IInv /\ CwndOK => TypeOK
  BY TypesTogether
<1>5. Spec => []IInv
  BY SendInvariant
<1>6. QED
  BY <1>1, <1>3, <1>4, <1>5, PTL DEF Spec

-----------------------------------------------------------------------------
(* The retransmission timer and the accounts. *)

\* At every point of the handlers, not only between two calls.
Timed == unacked # <<>> => rtime

LEMMA FinishTimed ==
  ASSUME NEW a, NEW sentq, NEW unsentq, NEW spare, NEW bytes, NEW timer,
         Finish(a, sentq, unsentq, spare, bytes, timer), sentq # <<>> => timer
  PROVE  Timed'
<1>1. PICK k \in 0 .. Len(unsentq) :
        Leaves(a, sentq, DropFirst(unsentq, k), spare,
               IF bytes # 0 /\ FinIn(unsentq, k) THEN bytes - 1 ELSE bytes)
  BY FinishLeaves
<1>2. unacked' = IF Finished(a) THEN <<>> ELSE sentq
  BY <1>1 DEF Leaves
<1>3. rtime' <=> timer /\ ~Finished(a)
  BY FinishLeaves
<1>4. QED
  BY <1>2, <1>3 DEF Timed

LEMMA TimedNext ==
  ASSUME Timed, Next
  PROVE  Timed'
<1>1. CASE Application
  BY <1>1 DEF Timed, Application, tcp_write, WriteFails, ShutdownPiggyback, ShutdownEnqueue,
              ShutdownFails, tcp_output, queueVars, rtxVars
<1>2. CASE Output
  BY <1>2 DEF Timed, Output, OutputSegment, OutputFails, OutputDone, OutputEmptyAck,
              StartTimers, queueVars, rtxVars
<1>3. CASE Input
  <2>1. ASSUME NEW a \in PeerAcks, tcp_receive(a) PROVE Timed'
    <3>1. CASE ReceiveOldAck(a)
      <4>1. CASE FastRexmit(a)
        <5>1. unacked # <<>>
          BY <4>1 DEF FastRexmit
        <5>2. rtime
          BY <5>1 DEF Timed
        <5>3. PICK q, spare : Finish(a, Tail(unacked), q, spare, 0, rtime)
          BY <3>1, <4>1 DEF ReceiveOldAck, tcp_rexmit_fast
        <5>4. QED
          BY <5>2, <5>3, FinishTimed
      <4>2. CASE ~FastRexmit(a)
        <5>1. Finish(a, unacked, unsent, unsent_oversize, 0, rtime)
          BY <3>1, <4>2 DEF ReceiveOldAck, DupAck
        <5>2. QED
          BY <5>1, FinishTimed DEF Timed
      <4>3. QED
        BY <4>1, <4>2
    <3>2. CASE ReceiveNewAck(a)
      <4>1. PICK k \in 0 .. Len(unacked) :
              Finish(a, DropFirst(unacked, k), unsent, unsent_oversize,
                     IF FinIn(unacked, k) THEN AckedBytes(a) - 1 ELSE AckedBytes(a),
                     DropFirst(unacked, k) # <<>>)
        BY <3>2 DEF ReceiveNewAck
      <4>2. QED
        BY <4>1, FinishTimed
    <3>3. CASE ReceiveAckBeyond(a)
      <4>1. Finish(a, unacked, unsent, unsent_oversize, 0, rtime)
        BY <3>3 DEF ReceiveAckBeyond
      <4>2. QED
        BY <4>1, FinishTimed DEF Timed
    <3>4. QED
      BY <2>1, <3>1, <3>2, <3>3 DEF tcp_receive
  <2>2. CASE InputStray \/ InputOutput
    BY <2>2 DEF Timed, InputStray, InputOutput, queueVars, rtxVars
  <2>3. QED
    BY <2>1, <2>2, <1>3 DEF Input
<1>4. CASE Timers
  BY <1>4 DEF Timed, Timers, SlowtmrRemove, SlowtmrProbe, SlowtmrRexmit, queueVars, rtxVars
<1>5. QED
  BY <1>1, <1>2, <1>3, <1>4 DEF Next

\* Data in flight always has a retransmission timer, failed sends, stray
\* segments and all retransmissions included: no ACK, no output and no timer
\* leaves a segment on unacked with the timer stopped.
THEOREM SendTimerRuns == Spec => []TimerRuns
<1>1. Init => Timed
  BY DEF Init, Timed
<1>2. Timed /\ UNCHANGED vars => Timed'
  BY DEF Timed, vars, queueVars, rtxVars
<1>3. Timed /\ [Next]_vars => Timed'
  BY <1>2, TimedNext
<1>4. Timed => TimerRuns
  BY DEF Timed, TimerRuns
<1>5. QED
  BY <1>1, <1>3, <1>4, PTL DEF Spec

Reported == misplaced \/ ReportedExactly

\* An acknowledgement is reported once, without the FIN.
LEMMA ReceiveReports ==
  ASSUME IInv, Reported, NEW a, a \in PeerAcks, tcp_receive(a)
  PROVE  Reported'
<1>1. Receiving(a)
  BY DEF Receiving, tcp_receive
<1>2. ASSUME NEW u, NEW v, NEW spare, Finish(a, u, v, spare, 0, rtime), UNCHANGED lastack
      PROVE  Reported'
  <2>1. PICK k \in 0 .. Len(v) : Leaves(a, u, DropFirst(v, k), spare, 0)
    BY <1>2, FinishLeaves
  <2>2. reported' = reported + 0 /\ written' = written /\ misplaced' = misplaced
    BY <2>1 DEF Leaves
  <2>3. reported \in Nat
    BY DEF IInv, Types
  <2>4. reported' = reported
    BY <2>2, <2>3
  <2>5. QED
    BY <2>2, <2>4, <1>2 DEF Reported, ReportedExactly
<1>3. CASE ReceiveOldAck(a)
  <2>1. UNCHANGED lastack
    BY <1>3 DEF ReceiveOldAck
  <2>2. PICK u, v, spare : Finish(a, u, v, spare, 0, rtime)
    BY <1>3 DEF ReceiveOldAck, tcp_rexmit_fast, DupAck
  <2>3. QED
    BY <2>1, <2>2, <1>2
<1>4. CASE ReceiveAckBeyond(a)
  BY <1>4, <1>2 DEF ReceiveAckBeyond
<1>5. CASE ReceiveNewAck(a)
  <2>1. PICK o, lo, w : o = Offset(a.ackno) /\ lo = Offset(lastack) /\ w = written
    OBVIOUS
  <2>2. PICK u, v, sent :
          /\ Leaves(a, u, v, unsent_oversize, sent)
          /\ ~misplaced => sent = LWIP_MIN(o, w) - LWIP_MIN(lo, w)
    BY <1>1, <1>5, <2>1, NewAckQueues
  <2>3. /\ reported' = reported + sent /\ written' = written /\ lastack' = a.ackno
        /\ misplaced' = misplaced
    BY <2>2, <1>5 DEF Leaves, ReceiveNewAck
  <2>4. CASE misplaced
    BY <2>3, <2>4 DEF Reported
  <2>5. CASE ~misplaced
    <3>1. PICK x, y : x = LWIP_MIN(o, w) /\ y = LWIP_MIN(lo, w)
      OBVIOUS
    <3>2. reported = y
      BY <2>1, <2>5, <3>1 DEF Reported, ReportedExactly
    <3>3. x \in Nat /\ y \in Nat
      <4>1. o \in Nat /\ lo \in Nat /\ w \in Nat
        BY <2>1, Numbers, AckFacts
      <4>2. QED
        BY <3>1, <4>1 DEF LWIP_MIN
    <3>4. sent = x - y
      BY <2>2, <2>5, <3>1
    <3>5. reported' = x
      BY <2>3, <3>2, <3>3, <3>4
    <3>6. QED
      BY <2>1, <2>3, <3>1, <3>5 DEF Reported, ReportedExactly
  <2>6. QED
    BY <2>4, <2>5
<1>6. QED
  BY <1>3, <1>4, <1>5 DEF tcp_receive

LEMMA ReportedNext ==
  ASSUME IInv, Reported, Next, StraySegments = FALSE
  PROVE  Reported'
<1>1. ASSUME NEW len \in WriteLens, tcp_write(len) PROVE Reported'
  <2>1. /\ MayWrite /\ written' = written + len /\ reported' = reported
        /\ lastack' = lastack /\ (misplaced => misplaced')
    BY <1>1 DEF tcp_write, ackVars
  <2>2. PICK lo, w : lo = Offset(lastack) /\ w = written
    OBVIOUS
  <2>3. lo \in Nat /\ w \in Nat /\ lo <= w
    BY <2>1, <2>2, WritingFacts, Numbers
  <2>4. len \in Nat
    BY SendAssumption
  <2>5. LWIP_MIN(lo, w) = lo /\ LWIP_MIN(lo, w + len) = lo
    BY <2>3, <2>4 DEF LWIP_MIN
  <2>6. QED
    BY <2>1, <2>2, <2>5 DEF Reported, ReportedExactly
<1>2. ASSUME UNCHANGED <<reported, lastack, written>>, misplaced => misplaced'
      PROVE  Reported'
  BY <1>2 DEF Reported, ReportedExactly
<1>3. CASE \/ WriteFails \/ ShutdownPiggyback \/ ShutdownEnqueue \/ ShutdownFails \/ tcp_output
           \/ Output \/ InputOutput \/ Timers
  BY <1>2, <1>3 DEF WriteFails, ShutdownPiggyback, ShutdownEnqueue, ShutdownFails, tcp_output,
       Output, OutputSegment, OutputFails, OutputDone, OutputEmptyAck, InputOutput,
       Timers, SlowtmrRemove, SlowtmrProbe, SlowtmrRexmit, ackVars, queueVars
<1>4. ~InputStray
  BY DEF InputStray
<1>5. QED
  BY <1>1, <1>3, <1>4, ReceiveReports DEF Next, Application, Input

\* What is acknowledged goes back to the send buffer, and until something is
\* appended in the middle of the stream the sent callback reports it, each byte
\* once and not the FIN, while every segment reaches tcp_receive (what comes
\* before a stray one is reported twice: MCSendAcked.cfg).
THEOREM SendAccountsExact ==
  ASSUME StraySegments = FALSE
  PROVE  Spec => []AccountsExact
<1>1. Init => Reported
  <2>1. ASSUME Init PROVE Reported
    <3>1. IInv
      BY <2>1, InitIInv
    <3>2. Offset(lastack) \in Nat
      BY <3>1, Numbers
    <3>3. QED
      BY <2>1, <3>2 DEF Init, Reported, ReportedExactly, LWIP_MIN
  <2>2. QED
    BY <2>1
<1>2. IInv /\ Reported /\ UNCHANGED vars => Reported'
  BY DEF vars, ackVars, queueVars, Reported, ReportedExactly
<1>3. IInv /\ Reported /\ [Next]_vars => Reported'
  BY <1>2, ReportedNext
<1>4. IInv /\ Reported => AccountsExact
  BY DEF IInv, AccountsExact, Reported
<1>5. Spec => []IInv
  BY SendInvariant
<1>6. QED
  BY <1>1, <1>3, <1>4, <1>5, PTL DEF Spec
=============================================================================
