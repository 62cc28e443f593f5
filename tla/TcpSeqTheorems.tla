--------------------------- MODULE TcpSeqTheorems ---------------------------
(***************************************************************************)
(* What the wrapping comparisons of tcp_impl.h mean.  Numbers are looked   *)
(* at relative to some base (an initial sequence number); as long as two   *)
(* of them lie less than 2^31 above it, the macros order them the way the  *)
(* plain distances are ordered, wherever the wrap falls.                   *)
(***************************************************************************)
EXTENDS TcpSeq, TLAPS

\* Distances from the base for which the comparisons are meaningful.
Distance == 0 .. Half - 1

\* u32_t addition stays in the sequence space.
LEMMA SeqAddType ==
  ASSUME NEW b \in SeqNo, NEW p \in Distance
  PROVE  SeqAdd(b, p) \in SeqNo
BY HalfAssumption DEF SeqNo, SeqMod, SeqAdd, Distance

\* u32_t subtraction stays in the sequence space.
LEMMA SeqSubType ==
  ASSUME NEW a \in SeqNo, NEW b \in SeqNo
  PROVE  SeqSub(a, b) \in SeqNo
BY HalfAssumption DEF SeqNo, SeqMod, SeqSub

\* Adding twice is adding the sum.
LEMMA SeqAddAdd ==
  ASSUME NEW b \in SeqNo, NEW p \in Distance, NEW r \in Distance, p + r < Half
  PROVE  SeqAdd(SeqAdd(b, p), r) = SeqAdd(b, p + r)
BY HalfAssumption DEF SeqNo, SeqMod, SeqAdd, Distance

\* Every sequence number is its own base plus zero.
LEMMA SeqAddZero ==
  ASSUME NEW b \in SeqNo
  PROVE  SeqAdd(b, 0) = b
BY HalfAssumption DEF SeqNo, SeqMod, SeqAdd

\* Adding back the distance from the base gives the number again.
LEMMA SeqAddSub ==
  ASSUME NEW b \in SeqNo, NEW a \in SeqNo
  PROVE  SeqAdd(b, SeqSub(a, b)) = a
BY HalfAssumption DEF SeqNo, SeqMod, SeqAdd, SeqSub

\* The difference of two numbers is the difference of their distances.
LEMMA SeqSubDistance ==
  ASSUME NEW b \in SeqNo, NEW p \in Distance, NEW q \in Distance
  PROVE  SeqSub(SeqAdd(b, p), SeqAdd(b, q)) =
           IF p >= q THEN p - q ELSE p - q + SeqMod
BY HalfAssumption DEF SeqNo, SeqMod, SeqAdd, SeqSub, Distance

\* The distance from the base itself.
LEMMA SeqSubBase ==
  ASSUME NEW b \in SeqNo, NEW p \in Distance
  PROVE  SeqSub(SeqAdd(b, p), b) = p
BY HalfAssumption DEF SeqNo, SeqMod, SeqAdd, SeqSub, Distance

\* The "- 1" of the window tests is a step down while there is room.
LEMMA SeqSubOne ==
  ASSUME NEW b \in SeqNo, NEW p \in Distance, p > 0
  PROVE  SeqSub(SeqAdd(b, p), 1) = SeqAdd(b, p - 1)
BY HalfAssumption DEF SeqNo, SeqMod, SeqAdd, SeqSub, Distance

\* Two numbers are equal exactly when their distances are.
THEOREM SeqInjective ==
  ASSUME NEW b \in SeqNo, NEW p \in Distance, NEW q \in Distance
  PROVE  SeqAdd(b, p) = SeqAdd(b, q) <=> p = q
BY HalfAssumption DEF SeqNo, SeqMod, SeqAdd, Distance

\* The comparison macros of tcp_impl.h order wrapped sequence numbers like
\* their distances from the base.
THEOREM SeqOrder ==
  ASSUME NEW b \in SeqNo, NEW p \in Distance, NEW q \in Distance
  PROVE  /\ TCP_SEQ_LT(SeqAdd(b, p), SeqAdd(b, q))  <=> p < q
         /\ TCP_SEQ_LEQ(SeqAdd(b, p), SeqAdd(b, q)) <=> p <= q
         /\ TCP_SEQ_GT(SeqAdd(b, p), SeqAdd(b, q))  <=> p > q
         /\ TCP_SEQ_GEQ(SeqAdd(b, p), SeqAdd(b, q)) <=> p >= q
BY SeqSubDistance, HalfAssumption
   DEF TCP_SEQ_LT, TCP_SEQ_LEQ, TCP_SEQ_GT, TCP_SEQ_GEQ, SeqMod, Distance

\* TCP_SEQ_BETWEEN with both ends above the base.
LEMMA SeqBetween ==
  ASSUME NEW b \in SeqNo, NEW p \in Distance, NEW q \in Distance, NEW r \in Distance
  PROVE  TCP_SEQ_BETWEEN(SeqAdd(b, p), SeqAdd(b, q), SeqAdd(b, r))
           <=> q <= p /\ p <= r
BY SeqOrder DEF TCP_SEQ_BETWEEN

\* The window test of tcp_receive: seqno in rcv_nxt .. rcv_nxt + rcv_wnd - 1,
\* which no number satisfies when the window is closed.
LEMMA SeqInWindow ==
  ASSUME NEW b \in SeqNo, NEW p \in Distance, NEW n \in Distance, NEW w \in Distance,
         n + w < Half, p + 1 < Half
  PROVE  TCP_SEQ_BETWEEN(SeqAdd(b, p), SeqAdd(b, n), SeqSub(SeqAdd(SeqAdd(b, n), w), 1))
           <=> n <= p /\ p < n + w
<1>1. n + w \in Distance
  BY HalfAssumption DEF Distance
<1>2. SeqAdd(SeqAdd(b, n), w) = SeqAdd(b, n + w)
  BY SeqAddAdd
<1>3. CASE n + w > 0
  <2>1. n + w - 1 \in Distance
    BY <1>3, HalfAssumption DEF Distance
  <2>2. SeqSub(SeqAdd(b, n + w), 1) = SeqAdd(b, n + w - 1)
    BY <1>1, <1>3, HalfAssumption DEF SeqNo, SeqMod, SeqAdd, SeqSub, Distance
  <2>3. QED
    BY <1>2, <2>1, <2>2, SeqBetween DEF Distance
<1>4. CASE n + w = 0
  <2>1. SeqAdd(b, n + w) = b
    BY <1>4, SeqAddZero
  <2>2. ~TCP_SEQ_LEQ(SeqAdd(b, p), SeqSub(b, 1))
    BY HalfAssumption DEF TCP_SEQ_LEQ, SeqNo, SeqMod, SeqAdd, SeqSub, Distance
  <2>3. QED
    BY <1>2, <1>4, <2>1, <2>2 DEF TCP_SEQ_BETWEEN, Distance
<1>5. QED
  BY <1>3, <1>4, HalfAssumption DEF Distance

\* The first-edge test of tcp_receive: a segment of n > 0 numbers at distance
\* o begins before the number at distance r and does not end before it.
LEMMA SeqStartsEarly ==
  ASSUME NEW b \in SeqNo, NEW o \in Distance, NEW n \in Distance, NEW r \in Distance,
         n > 0, o + n < Half
  PROVE  TCP_SEQ_BETWEEN(SeqAdd(b, r), SeqAdd(SeqAdd(b, o), 1),
                         SeqSub(SeqAdd(SeqAdd(b, o), n), 1))
           <=> o < r /\ r < o + n
<1> DEFINE lo == o + 1
           hi == o + n - 1
<1>1. lo \in Distance /\ hi \in Distance
  BY HalfAssumption DEF Distance
<1>2. SeqAdd(SeqAdd(b, o), 1) = SeqAdd(b, lo)
  BY HalfAssumption DEF SeqNo, SeqMod, SeqAdd, Distance
<1>3. SeqSub(SeqAdd(SeqAdd(b, o), n), 1) = SeqAdd(b, hi)
  BY HalfAssumption DEF SeqNo, SeqMod, SeqAdd, SeqSub, Distance
<1> HIDE DEF lo, hi
<1>4. TCP_SEQ_BETWEEN(SeqAdd(b, r), SeqAdd(b, lo), SeqAdd(b, hi)) <=> lo <= r /\ r <= hi
  BY <1>1, SeqBetween
<1>5. QED
  BY <1>2, <1>3, <1>4 DEF lo, hi, Distance

\* The test of the ooseq walk: strictly between two queued segments.
LEMMA SeqStrictlyBetween ==
  ASSUME NEW b \in SeqNo, NEW p \in Distance, NEW q \in Distance, NEW r \in Distance,
         q + 1 < Half, r > 0
  PROVE  TCP_SEQ_BETWEEN(SeqAdd(b, p), SeqAdd(SeqAdd(b, q), 1), SeqSub(SeqAdd(b, r), 1))
           <=> q < p /\ p < r
<1> DEFINE lo == q + 1
           hi == r - 1
<1>1. lo \in Distance /\ hi \in Distance
  BY HalfAssumption DEF Distance
<1>2. SeqAdd(SeqAdd(b, q), 1) = SeqAdd(b, lo)
  BY HalfAssumption DEF SeqNo, SeqMod, SeqAdd, Distance
<1>3. SeqSub(SeqAdd(b, r), 1) = SeqAdd(b, hi)
  BY HalfAssumption DEF SeqNo, SeqMod, SeqAdd, SeqSub, Distance
<1> HIDE DEF lo, hi
<1>4. TCP_SEQ_BETWEEN(SeqAdd(b, p), SeqAdd(b, lo), SeqAdd(b, hi)) <=> lo <= p /\ p <= hi
  BY <1>1, SeqBetween
<1>5. QED
  BY <1>2, <1>3, <1>4 DEF lo, hi, Distance
=============================================================================
