------------------------------ MODULE PbufData ------------------------------
(***************************************************************************)
(* The functions of pbuf.c that read and write the bytes of a packet, as   *)
(* the walks over the chain that they are.  A byte is its address, so that *)
(* what a walk reads or writes shows which byte it touched.                *)
(***************************************************************************)
EXTENDS Pbuf

ZERO == <<>>

RECURSIVE pbuf_skip(_, _)
RECURSIVE pbuf_copy_partial(_, _, _)
RECURSIVE TakeFrom(_, _)
RECURSIVE CopyFrom(_, _, _, _)

\* Byte i of the payload of q, counted from 0.
ByteAt(q, i) == <<q, mem[q].room + i + 1>>

BytesOf(q, from, n) == [j \in 1 .. n |-> ByteAt(q, from + j - 1)]

\* The pbuf that holds position off, and the position in it.
pbuf_skip(q, off) ==
  IF q = NULL \/ mem[q].len > off THEN [q |-> q, off |-> off]
  ELSE pbuf_skip(mem[q].next, off - mem[q].len)

pbuf_get_at(p, off) ==
  LET s == pbuf_skip(p, off) IN IF s.q = NULL THEN ZERO ELSE ByteAt(s.q, s.off)

\* Mutant: the offset is used in every pbuf.
PartialOffset(off) == off

\* the offset applies to the first pbuf that is copied from only
OffsetAfterFirst(off) == 0

pbuf_copy_partial(p, len, off) ==
  IF len = 0 \/ p = NULL THEN <<>>
  ELSE IF off # 0 /\ off >= mem[p].len
    THEN pbuf_copy_partial(mem[p].next, len, off - mem[p].len)
  ELSE LET n == LWIP_MIN(mem[p].len - off, len)
       IN  BytesOf(p, off, n) \o
             pbuf_copy_partial(mem[p].next, len - n, OffsetAfterFirst(off))

\* The addresses pbuf_take writes n bytes to.
TakeFrom(p, n) ==
  IF n = 0 THEN <<>>
  ELSE LET k == LWIP_MIN(mem[p].len, n)
       IN  BytesOf(p, 0, k) \o TakeFrom(mem[p].next, n - k)

pbuf_take(p, n) ==
  IF mem[p].tot_len < n THEN [err |-> "ARG", to |-> <<>>]
  ELSE [err |-> "OK", to |-> TakeFrom(p, n)]

FirstPart(s, n) == LWIP_MIN(mem[s.q].len - s.off, n)

pbuf_take_at(p, n, off) ==
  LET s == pbuf_skip(p, off)
      first == FirstPart(s, n)
  IN  IF s.q = NULL \/ mem[s.q].tot_len < s.off + n THEN [err |-> "MEM", to |-> <<>>]
      ELSE [err |-> "OK",
            to |-> BytesOf(s.q, s.off, first) \o
                   (IF n > first THEN pbuf_take(mem[s.q].next, n - first).to
                    ELSE <<>>)]

\* The end-of-packet checks of pbuf_copy.
QueueAhead(q) == q # NULL /\ mem[q].len = mem[q].tot_len /\ mem[q].next # NULL

ToAdvances(to, ot, from, of, n) == ot + n = mem[to].len

\* The loop of pbuf_copy: pairs of target and source byte.
CopyFrom(to, ot, from, of) ==
  LET n == LWIP_MIN(mem[to].len - ot, mem[from].len - of)
      moved == [j \in 1 .. n |-> <<ByteAt(to, ot + j - 1), ByteAt(from, of + j - 1)>>]
      fromDone == of + n >= mem[from].len
      toDone == ToAdvances(to, ot, from, of, n)
      from2 == IF fromDone THEN mem[from].next ELSE from
      to2 == IF toDone THEN mem[to].next ELSE to
      rest == CopyFrom(to2, IF toDone THEN 0 ELSE ot + n,
                       from2, IF fromDone THEN 0 ELSE of + n)
  IN  IF toDone /\ to2 = NULL /\ from2 # NULL THEN [err |-> "ARG", moved |-> moved]
      ELSE IF QueueAhead(from2) \/ QueueAhead(to2) THEN [err |-> "VAL", moved |-> moved]
      ELSE IF from2 = NULL THEN [err |-> "OK", moved |-> moved]
      ELSE [err |-> rest.err, moved |-> moved \o rest.moved]

pbuf_copy(to, from) ==
  IF mem[to].tot_len < mem[from].tot_len THEN [err |-> "ARG", moved |-> <<>>]
  ELSE CopyFrom(to, 0, from, 0)

-----------------------------------------------------------------------------
(***************************************************************************)
(* Properties: the walks against the bytes of the packet in one sequence.  *)
(***************************************************************************)
Total(p) == Len(Bytes(p))

Readable == {p \in Used : Predecessors(p) = {} /\ Total(p) < U16}

\* pbuf_get_at and pbuf_copy_partial read the bytes of the packet at the
\* offset given, wherever the packet is cut into pbufs, and nothing past it.
ReadsExact ==
  \A p \in Readable : \A off \in 0 .. Total(p) + 1 :
    /\ pbuf_get_at(p, off) = IF off < Total(p) THEN Bytes(p)[off + 1] ELSE ZERO
    /\ \A n \in 0 .. Total(p) + 1 :
         pbuf_copy_partial(p, n, off) =
           SubSeq(Bytes(p), off + 1, LWIP_MIN(off + n, Total(p)))

\* pbuf_take and pbuf_take_at write the bytes of the packet from the offset
\* on, or refuse to write when they do not all fit.
WritesExact ==
  \A p \in Readable : \A n \in 0 .. Total(p) + 1 :
    /\ pbuf_take(p, n) =
         IF n <= Total(p) THEN [err |-> "OK", to |-> SubSeq(Bytes(p), 1, n)]
         ELSE [err |-> "ARG", to |-> <<>>]
    /\ \A off \in 0 .. Total(p) + 1 :
         pbuf_take_at(p, n, off) =
           IF off < Total(p) /\ off + n <= Total(p)
             THEN [err |-> "OK", to |-> SubSeq(Bytes(p), off + 1, off + n)]
             ELSE [err |-> "MEM", to |-> <<>>]

\* pbuf_copy copies byte i of one packet to byte i of the other, however the
\* two are cut, whenever the target is at least as long (so the assertion
\* "pbuf_copy failed" of pbuf_coalesce holds).
CopiesExact ==
  \A to, from \in Readable :
    /\ Range(Chain(to)) \cap Range(Chain(from)) = {}
    /\ ~LooksLikeQueue(to) /\ ~LooksLikeQueue(from)
    /\ Total(to) >= Total(from)
    => pbuf_copy(to, from) =
         [err |-> "OK",
          moved |-> [i \in 1 .. Total(from) |-> <<Bytes(to)[i], Bytes(from)[i]>>]]

\* The functions of pbuf.c that read, write and copy packets treat a chain as
\* the one sequence of bytes it stands for.
DataExact == ReadsExact /\ WritesExact /\ CopiesExact
=============================================================================
