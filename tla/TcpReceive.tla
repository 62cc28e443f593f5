----------------------------- MODULE TcpReceive -----------------------------
(***************************************************************************)
(* The receive half of one PCB: tcp_input, tcp_process and the data part   *)
(* of tcp_receive in tcp_in.c, tcp_recved, tcp_fasttmr and the ooseq       *)
(* timeout of tcp_slowtmr in tcp.c, tcp_send_empty_ack in tcp_out.c, for a *)
(* PCB that is ESTABLISHED or CLOSE_WAIT and has nothing to send itself.   *)
(*                                                                         *)
(* The peer sends a stream of N bytes, numbered 1 .. N, and a FIN.  A      *)
(* segment is its header (seqno, fin, syn) and its payload, the bytes      *)
(* off+1 .. off+len of the stream: the code sees only seqno and len, and   *)
(* the properties compare what it delivers with off.                       *)
(*                                                                         *)
(* tcp_input runs to completion, so the steps of one call (pc) interleave  *)
(* with nothing; they are separate because the application's callbacks run *)
(* between them and call back into the stack.                              *)
(***************************************************************************)
EXTENDS TcpSeq, Sequences

CONSTANTS
  N,                          \* bytes the peer will send before its FIN
  ISN,                        \* rcv_nxt after the handshake
  TCP_MSS,                    \* pcb->mss
  TCP_WND,                    \* size of the receive window
  TCP_WND_UPDATE_THRESHOLD,   \* window growth worth an explicit update
  SendErrors                  \* how sending an ACK may fail

ASSUME ReceiveAssumption ==
  /\ N \in Nat
  /\ ISN \in SeqNo
  /\ TCP_MSS \in Nat \ {0}
  /\ TCP_WND \in Nat \ {0}
  /\ TCP_WND_UPDATE_THRESHOLD \in Nat
  /\ SendErrors \subseteq {"nobuf", "senderr"}
  /\ N + TCP_WND + TCP_MSS + 2 < Half

VARIABLES
  state,                \* pcb->state
  rcv_nxt,              \* next sequence number expected
  rcv_wnd,              \* receive window available
  rcv_ann_wnd,          \* receive window to announce
  rcv_ann_right_edge,   \* announced right edge of the window
  ooseq,                \* received out of sequence segments
  refused_data,         \* data the application refused (<<>> is NULL)
  refused_fin,          \* PBUF_FLAG_TCP_FIN on refused_data
  ackflags,             \* TF_ACK_DELAY and TF_ACK_NOW of pcb->flags
  pc,                   \* where the running handler stands
  inseg,                \* the segment being processed
  recv_data,            \* in-sequence data for the application
  got_fin,              \* TF_GOT_FIN of recv_flags
  delivered,            \* the bytes the application has accepted
  unread,               \* how many of them it has not tcp_recved yet
  eof,                  \* the application has seen the end of the stream
  last_ack              \* the last ACK that left: its ackno and wnd

pcbVars == <<state, rcv_nxt, rcv_wnd, rcv_ann_wnd, rcv_ann_right_edge,
             ooseq, refused_data, refused_fin, ackflags>>
inputVars == <<pc, inseg, recv_data, got_fin>>
appVars == <<delivered, unread, eof>>
vars == <<pcbVars, inputVars, appVars, last_ack>>

LWIP_MIN(a, b) == IF a < b THEN a ELSE b

(***************************************************************************)
(* Segments.  off = N + 1 is the position after the FIN: an empty segment  *)
(* (a pure ACK) may carry it.                                              *)
(***************************************************************************)
Segment == [seqno : SeqNo, off : 0 .. N + 1, len : Nat,
            fin : BOOLEAN, syn : BOOLEAN]

TCP_TCPLEN(s) == s.len + (IF s.fin \/ s.syn THEN 1 ELSE 0)

Payload(s) == [i \in 1 .. s.len |-> s.off + i]

\* The stream's segment of len bytes from position off.
StreamSegment(off, len, fin) ==
  [seqno |-> SeqAdd(ISN, off), off |-> off, len |-> len,
   fin |-> fin, syn |-> FALSE]

\* A late copy of the SYN|ACK of the handshake.
SynSegment ==
  [seqno |-> SeqSub(ISN, 1), off |-> 0, len |-> 0, fin |-> FALSE, syn |-> TRUE]

\* inseg is dead between two calls of tcp_input.
NoSegment == SynSegment

ResultsOfSend == {"ok"} \cup SendErrors

-----------------------------------------------------------------------------
(***************************************************************************)
(* tcp_update_rcv_ann_wnd: the window to announce, and the growth that an  *)
(* update sent now would announce.                                         *)
(***************************************************************************)
CanAnnounceMore(nxt, wnd) ==
  TCP_SEQ_GEQ(SeqAdd(nxt, wnd),
              SeqAdd(rcv_ann_right_edge, LWIP_MIN(TCP_WND \div 2, TCP_MSS)))

\* Mutants: no test for nxt beyond the edge; the update is forgotten; the
\* right edge is not kept constant.
AnnounceWndWraps(nxt, wnd) ==
  IF CanAnnounceMore(nxt, wnd) THEN wnd ELSE SeqSub(rcv_ann_right_edge, nxt)

AnnounceWndForgotten(nxt, wnd) == rcv_ann_wnd

AnnounceWndCloses(nxt, wnd) == IF CanAnnounceMore(nxt, wnd) THEN wnd ELSE 0

AnnounceWnd(nxt, wnd) ==
  IF CanAnnounceMore(nxt, wnd) THEN wnd
  ELSE IF TCP_SEQ_GT(nxt, rcv_ann_right_edge) THEN 0
  ELSE SeqSub(rcv_ann_right_edge, nxt)

WndInflation(nxt, wnd) ==
  IF CanAnnounceMore(nxt, wnd) THEN SeqSub(SeqAdd(nxt, wnd), rcv_ann_right_edge)
  ELSE 0

(***************************************************************************)
(* tcp_send_empty_ack.  Building the header moves the announced right      *)
(* edge, even when the send fails afterwards; a failure asks tcp_fasttmr   *)
(* to try again.                                                           *)
(***************************************************************************)
AckOnWire(ann, res) ==
  /\ rcv_ann_right_edge' =
       IF res = "nobuf" THEN rcv_ann_right_edge ELSE SeqAdd(rcv_nxt, ann)
  /\ last_ack' =
       IF res = "ok" THEN [ackno |-> rcv_nxt, wnd |-> ann] ELSE last_ack

FlagsAfterSend(res) == IF res = "ok" THEN {} ELSE {"DELAY", "NOW"}

tcp_send_empty_ack(ann, res) ==
  /\ AckOnWire(ann, res)
  /\ ackflags' = FlagsAfterSend(res)

(***************************************************************************)
(* tcp_output for a PCB without unsent data, given the flags and window    *)
(* the caller has just set.                                                *)
(***************************************************************************)
tcp_output(flags, ann, res) ==
  IF "NOW" \in flags
    THEN tcp_send_empty_ack(ann, res)
    ELSE /\ ackflags' = flags
         /\ UNCHANGED <<rcv_ann_right_edge, last_ack>>

\* Mutant: the second segment clears TF_ACK_DELAY without setting TF_ACK_NOW.
tcp_ack_drops(flags) ==
  IF "DELAY" \in flags THEN flags \ {"DELAY"} ELSE flags \cup {"DELAY"}

\* The tcp_ack macro: every second segment is acknowledged at once.
tcp_ack(flags) ==
  IF "DELAY" \in flags THEN (flags \ {"DELAY"}) \cup {"NOW"}
  ELSE flags \cup {"DELAY"}

tcp_ack_now(flags) == flags \cup {"NOW"}

-----------------------------------------------------------------------------
(***************************************************************************)
(* tcp_recved(k).  When the window grew enough (UpdateDue), tcp_ack_now    *)
(* and tcp_output follow: an empty ACK, unless tcp_input is running.       *)
(***************************************************************************)
WndAfterRecved(k) == LWIP_MIN(rcv_wnd + k, TCP_WND)

UpdateDue(k) ==
  k > 0 /\ WndInflation(rcv_nxt, WndAfterRecved(k)) >= TCP_WND_UPDATE_THRESHOLD

AnnAfterRecved(k) ==
  IF k > 0 THEN AnnounceWnd(rcv_nxt, WndAfterRecved(k)) ELSE rcv_ann_wnd

FlagsAfterRecved(k) ==
  IF UpdateDue(k) THEN tcp_ack_now(ackflags) ELSE ackflags

(***************************************************************************)
(* The application takes the bytes it is offered and, in its callback or   *)
(* later, reports k of the bytes it holds as processed.                    *)
(***************************************************************************)
Accept(data, k) ==
  /\ k \in 0 .. unread + Len(data)
  /\ delivered' = delivered \o data
  /\ unread' = unread + Len(data) - k
  /\ rcv_ann_wnd' = AnnAfterRecved(k)

\* Mutant: the window is not corrected for the FIN.
WndAfterFinForgotten(wnd) == wnd

\* correct rcv_wnd as the application won't call tcp_recved for the FIN
WndAfterFin(wnd) == IF wnd # TCP_WND THEN wnd + 1 ELSE wnd

(***************************************************************************)
(* tcp_process_refused_data: offer the refused data again.  The callback   *)
(* runs outside tcp_input_pcb, so a window update it causes is sent here.  *)
(***************************************************************************)
\* Mutant: data refused again is not put back.
RefusedAgainLost ==
  /\ refused_data' = <<>>
  /\ UNCHANGED <<state, rcv_nxt, rcv_wnd, rcv_ann_wnd, rcv_ann_right_edge,
                 ooseq, refused_fin, ackflags, appVars, last_ack>>

RefusedAgain == UNCHANGED <<pcbVars, appVars, last_ack>>

RefusedTaken(k, res) ==
  /\ Accept(refused_data, k)
  /\ rcv_wnd' = IF refused_fin THEN WndAfterFin(WndAfterRecved(k))
                ELSE WndAfterRecved(k)
  /\ eof' = (eof \/ refused_fin)
  /\ refused_data' = <<>>
  /\ refused_fin' = FALSE
  /\ IF UpdateDue(k)
       THEN tcp_send_empty_ack(AnnAfterRecved(k), res)
       ELSE UNCHANGED <<ackflags, rcv_ann_right_edge, last_ack>>
  /\ UNCHANGED <<state, rcv_nxt, ooseq>>

-----------------------------------------------------------------------------
(***************************************************************************)
(* tcp_input: a segment for this PCB arrives.                              *)
(***************************************************************************)
tcp_input(seg) ==
  /\ pc = "idle"
  /\ inseg' = seg
  /\ recv_data' = <<>>
  /\ got_fin' = FALSE
  /\ pc' = IF refused_data # <<>> THEN "refused" ELSE "process"
  /\ UNCHANGED <<pcbVars, appVars, last_ack>>

\* Still refused: only a segment without data is processed further.
InputRefusedAgain ==
  /\ pc = "refused"
  /\ RefusedAgain
  /\ IF TCP_TCPLEN(inseg) > 0
       THEN pc' = "idle" /\ inseg' = NoSegment
       ELSE pc' = "process" /\ UNCHANGED inseg
  /\ UNCHANGED <<recv_data, got_fin>>

InputRefusedTaken(k, res) ==
  /\ pc = "refused"
  /\ RefusedTaken(k, res)
  /\ pc' = "process"
  /\ UNCHANGED <<inseg, recv_data, got_fin>>

(***************************************************************************)
(* tcp_process in ESTABLISHED and CLOSE_WAIT: a SYN is only acknowledged,  *)
(* everything else goes to tcp_receive.                                    *)
(***************************************************************************)
ProcessSyn ==
  /\ pc = "process"
  /\ inseg.syn
  /\ ackflags' = tcp_ack_now(ackflags)
  /\ pc' = "output"
  /\ UNCHANGED <<state, rcv_nxt, rcv_wnd, rcv_ann_wnd, rcv_ann_right_edge,
                 ooseq, refused_data, refused_fin, inseg, recv_data, got_fin,
                 appVars, last_ack>>

InWindow(seqno) ==
  TCP_SEQ_BETWEEN(seqno, rcv_nxt, SeqSub(SeqAdd(rcv_nxt, rcv_wnd), 1))

ToReceive == pc = "process" /\ ~inseg.syn

HasText == TCP_TCPLEN(inseg) > 0 /\ state = "ESTABLISHED"

\* Nothing to receive: acknowledge it if it falls out of the window.
ReceiveNoText ==
  /\ ToReceive /\ ~HasText
  /\ ackflags' = IF InWindow(inseg.seqno) THEN ackflags ELSE tcp_ack_now(ackflags)
  /\ pc' = "output"
  /\ UNCHANGED <<state, rcv_nxt, rcv_wnd, rcv_ann_wnd, rcv_ann_right_edge,
                 ooseq, refused_data, refused_fin, inseg, recv_data, got_fin,
                 appVars, last_ack>>

(***************************************************************************)
(* The first edge: a segment that begins before rcv_nxt and ends after it  *)
(* loses what was received already.                                        *)
(***************************************************************************)
StartsEarly(s) ==
  TCP_SEQ_BETWEEN(rcv_nxt, SeqAdd(s.seqno, 1),
                  SeqSub(SeqAdd(s.seqno, TCP_TCPLEN(s)), 1))

\* Mutant: the header moves to rcv_nxt, the payload stays where it was.
TrimFrontKeepsPayload(s) ==
  IF StartsEarly(s)
    THEN [s EXCEPT !.seqno = rcv_nxt, !.len = s.len - SeqSub(rcv_nxt, s.seqno)]
    ELSE s

TrimFront(s) ==
  IF StartsEarly(s)
    THEN LET cut == SeqSub(rcv_nxt, s.seqno)
         IN  [s EXCEPT !.seqno = rcv_nxt, !.off = s.off + cut, !.len = s.len - cut]
    ELSE s

Trimmed == TrimFront(inseg)

\* Outside the window: acknowledged at once, whatever flags it leaves.
ReceiveOutOfWindow(res) ==
  /\ ToReceive /\ HasText
  /\ ~InWindow(Trimmed.seqno)
  /\ tcp_send_empty_ack(rcv_ann_wnd, res)
  /\ pc' = "output"
  /\ UNCHANGED <<state, rcv_nxt, rcv_wnd, rcv_ann_wnd, ooseq, refused_data,
                 refused_fin, inseg, recv_data, got_fin, appVars>>

(***************************************************************************)
(* The next segment in sequence.  It is cut to the window (losing its      *)
(* FIN), takes over the FIN of the k queued segments it covers, and is cut *)
(* to the first queued segment that is left.                               *)
(***************************************************************************)
\* Mutant: a segment cut to the window keeps its FIN.
TrimToWndKeepsFin(s) ==
  IF TCP_TCPLEN(s) > rcv_wnd
    THEN [s EXCEPT !.len = IF s.fin THEN rcv_wnd - 1 ELSE rcv_wnd]
    ELSE s

TrimToWnd(s) ==
  IF TCP_TCPLEN(s) > rcv_wnd THEN [s EXCEPT !.fin = FALSE, !.len = rcv_wnd] ELSE s

SomeFin(q, k) == \E i \in 1 .. k : q[i].fin

\* The loop looks at q[i] after copying the FIN, if any, of those before it.
CoveredInSeq(s, q, i) ==
  TCP_SEQ_GEQ(SeqAdd(s.seqno, s.len + (IF SomeFin(q, i - 1) THEN 1 ELSE 0)),
              SeqAdd(q[i].seqno, q[i].len))

CoversInSeq(s, q, k) ==
  IF s.fin THEN k = Len(q)
  ELSE /\ \A i \in 1 .. k : CoveredInSeq(s, q, i)
       /\ k < Len(q) => ~CoveredInSeq(s, q, k + 1)

TakeFin(s, q, k) == [s EXCEPT !.fin = s.fin \/ SomeFin(q, k)]

\* Mutant: the overlap with the next queued segment stays.
TrimToNextForgotten(s, len, q) == s

TrimToNext(s, len, q) ==
  IF q # <<>> /\ TCP_SEQ_GT(SeqAdd(s.seqno, len), q[1].seqno)
    THEN [s EXCEPT !.len = SeqSub(q[1].seqno, s.seqno)]
    ELSE s

DropFirst(q, k) == SubSeq(q, k + 1, Len(q))

InSeqSegment(k) ==
  LET s == TakeFin(TrimToWnd(Trimmed), ooseq, k)
  IN  TrimToNext(s, TCP_TCPLEN(s), DropFirst(ooseq, k))

InSequence(k) ==
  /\ ToReceive /\ HasText
  /\ InWindow(Trimmed.seqno)
  /\ Trimmed.seqno = rcv_nxt
  /\ CoversInSeq(TrimToWnd(Trimmed), ooseq, k)

\* "tcplen > rcv_wnd" and "segment not trimmed correctly to ooseq queue"
InSeqAsserts(k) ==
  LET s    == InSeqSegment(k)
      rest == DropFirst(ooseq, k)
  IN  /\ TCP_TCPLEN(s) <= rcv_wnd
      /\ rest # <<>> => TCP_SEQ_LEQ(SeqAdd(s.seqno, TCP_TCPLEN(s)), rest[1].seqno)

\* LWIP_PLATFORM_ASSERT ends the program.
ReceiveAssertFails ==
  /\ \E k \in 0 .. Len(ooseq) : InSequence(k) /\ ~InSeqAsserts(k)
  /\ pc' = "assert_failed"
  /\ UNCHANGED <<pcbVars, inseg, recv_data, got_fin, appVars, last_ack>>

ReceiveInSequence ==
  \E k \in 0 .. Len(ooseq) :
    LET s   == InSeqSegment(k)
        nxt == SeqAdd(s.seqno, TCP_TCPLEN(s))
        wnd == rcv_wnd - TCP_TCPLEN(s)
    IN  /\ InSequence(k)
        /\ InSeqAsserts(k)
        /\ ooseq' = DropFirst(ooseq, k)
        /\ rcv_nxt' = nxt
        /\ rcv_wnd' = wnd
        /\ rcv_ann_wnd' = AnnounceWnd(nxt, wnd)
        /\ recv_data' = Payload(s)
        /\ got_fin' = s.fin
        /\ pc' = "drain"
        /\ UNCHANGED <<state, rcv_ann_right_edge, refused_data, refused_fin,
                       ackflags, inseg, appVars, last_ack>>

(***************************************************************************)
(* The loop over the queued segments that are now in sequence.             *)
(***************************************************************************)
HeadInSequence == ooseq # <<>> /\ ooseq[1].seqno = rcv_nxt

DrainAssertFails ==
  /\ pc = "drain" /\ HeadInSequence
  /\ TCP_TCPLEN(ooseq[1]) > rcv_wnd
  /\ pc' = "assert_failed"
  /\ UNCHANGED <<pcbVars, inseg, recv_data, got_fin, appVars, last_ack>>

DrainOoseq ==
  LET cseg == ooseq[1]
      nxt  == SeqAdd(rcv_nxt, TCP_TCPLEN(cseg))
      wnd  == rcv_wnd - TCP_TCPLEN(cseg)
  IN  /\ pc = "drain" /\ HeadInSequence
      /\ TCP_TCPLEN(cseg) <= rcv_wnd
      /\ rcv_nxt' = nxt
      /\ rcv_wnd' = wnd
      /\ rcv_ann_wnd' = AnnounceWnd(nxt, wnd)
      /\ recv_data' = recv_data \o Payload(cseg)
      /\ got_fin' = (got_fin \/ cseg.fin)
      /\ state' = IF cseg.fin THEN "CLOSE_WAIT" ELSE state
      /\ ooseq' = Tail(ooseq)
      /\ UNCHANGED <<rcv_ann_right_edge, refused_data, refused_fin, ackflags,
                     pc, inseg, appVars, last_ack>>

\* tcp_ack ends tcp_receive; back in tcp_process a FIN is a passive close.
DrainDone ==
  /\ pc = "drain" /\ ~HeadInSequence
  /\ ackflags' = IF got_fin THEN tcp_ack_now(tcp_ack(ackflags)) ELSE tcp_ack(ackflags)
  /\ state' = IF got_fin THEN "CLOSE_WAIT" ELSE state
  /\ pc' = "recv"
  /\ UNCHANGED <<rcv_nxt, rcv_wnd, rcv_ann_wnd, rcv_ann_right_edge, ooseq,
                 refused_data, refused_fin, inseg, recv_data, got_fin,
                 appVars, last_ack>>

-----------------------------------------------------------------------------
(***************************************************************************)
(* Out of sequence: tcp_oos_insert_segment puts cseg in front of q,        *)
(* deleting the k segments of q it covers.                                 *)
(***************************************************************************)
CoveredOoseq(s, q, i) ==
  TCP_SEQ_GEQ(SeqAdd(s.seqno, s.len), SeqAdd(q[i].seqno, q[i].len))

CoversOoseq(s, q, k) ==
  IF s.fin THEN k = Len(q)
  ELSE /\ \A i \in 1 .. k : CoveredOoseq(s, q, i)
       /\ k < Len(q) => ~CoveredOoseq(s, q, k + 1)

\* Mutant: the new segment is not cut to the one after it.
InsertUntrimmed(cseg, q, k) == <<TakeFin(cseg, q, k)>> \o DropFirst(q, k)

tcp_oos_insert_segment(cseg, q, k) ==
  <<TrimToNext(TakeFin(cseg, q, k), cseg.len, DropFirst(q, k))>> \o DropFirst(q, k)

\* What the walk does at position i of the queue, where it stops first.
SamePlace(s, i) == s.seqno = ooseq[i].seqno

PlaceBefore(s, i) ==
  IF i = 1 THEN TCP_SEQ_LT(s.seqno, ooseq[1].seqno)
  ELSE TCP_SEQ_BETWEEN(s.seqno, SeqAdd(ooseq[i-1].seqno, 1), SeqSub(ooseq[i].seqno, 1))

PlaceLast(s, i) == i = Len(ooseq) /\ TCP_SEQ_GT(s.seqno, ooseq[i].seqno)

StopsAt(s, i) == SamePlace(s, i) \/ PlaceBefore(s, i) \/ PlaceLast(s, i)

StopsFirstAt(s, i) == StopsAt(s, i) /\ \A j \in 1 .. i - 1 : ~StopsAt(s, j)

\* Mutant: the segment before the new one keeps its overlap with it.
CutBeforeForgotten(s, i) == SubSeq(ooseq, 1, i - 1)

\* The i - 1 segments before the new one, the last of them cut to it.
CutBefore(s, i) ==
  [j \in 1 .. i - 1 |->
     IF j = i - 1 /\ TCP_SEQ_GT(SeqAdd(ooseq[j].seqno, ooseq[j].len), s.seqno)
       THEN [ooseq[j] EXCEPT !.len = SeqSub(s.seqno, ooseq[j].seqno)]
       ELSE ooseq[j]]

\* check if the remote side overruns our receive window
CutToWindow(s) ==
  LET edge == SeqAdd(rcv_nxt, rcv_wnd)
  IN  IF TCP_SEQ_GT(SeqAdd(s.seqno, TCP_TCPLEN(s)), edge)
        THEN [s EXCEPT !.fin = FALSE, !.len = SeqSub(edge, s.seqno)]
        ELSE s

\* The queue after the walk stopped at i.
QueueAt(s, i, k) ==
  IF SamePlace(s, i) THEN
    IF s.len > ooseq[i].len
      THEN SubSeq(ooseq, 1, i - 1) \o
             tcp_oos_insert_segment(s, DropFirst(ooseq, i - 1), k)
      ELSE ooseq
  ELSE IF PlaceBefore(s, i) THEN
    CutBefore(s, i) \o tcp_oos_insert_segment(s, DropFirst(ooseq, i - 1), k)
  ELSE IF ooseq[i].fin THEN ooseq
  ELSE CutBefore(s, i + 1) \o <<CutToWindow(s)>>

OutOfSequence(res) ==
  /\ ToReceive /\ HasText
  /\ InWindow(Trimmed.seqno)
  /\ Trimmed.seqno # rcv_nxt
  /\ tcp_send_empty_ack(rcv_ann_wnd, res)
  /\ pc' = "output"
  /\ UNCHANGED <<state, rcv_nxt, rcv_wnd, rcv_ann_wnd, refused_data,
                 refused_fin, inseg, recv_data, got_fin, appVars>>

QueueFirst(res) ==
  /\ OutOfSequence(res)
  /\ ooseq = <<>>
  /\ ooseq' = <<Trimmed>>

QueueInOrder(res) ==
  /\ OutOfSequence(res)
  /\ \E i \in 1 .. Len(ooseq) :
       /\ StopsFirstAt(Trimmed, i)
       /\ \E k \in 0 .. Len(ooseq) - i + 1 :
            /\ CoversOoseq(Trimmed, DropFirst(ooseq, i - 1), k)
            /\ ooseq' = QueueAt(Trimmed, i, k)

\* tcp_seg_copy found no memory, on an empty queue or in the walk.
QueueNoMemory(res) ==
  /\ OutOfSequence(res)
  /\ UNCHANGED ooseq

-----------------------------------------------------------------------------
(***************************************************************************)
(* The rest of tcp_input: the recv callback with the data, the recv        *)
(* callback with NULL at the end of the stream, and tcp_output.  While     *)
(* tcp_input_pcb is this PCB, tcp_output called by a callback does nothing.*)
(***************************************************************************)
RecvNothing ==
  /\ pc = "recv" /\ recv_data = <<>>
  /\ pc' = "closed"
  /\ UNCHANGED <<pcbVars, inseg, recv_data, got_fin, appVars, last_ack>>

RecvRefused ==
  /\ pc = "recv" /\ recv_data # <<>>
  /\ refused_data' = recv_data
  /\ recv_data' = <<>>
  /\ pc' = "closed"
  /\ UNCHANGED <<state, rcv_nxt, rcv_wnd, rcv_ann_wnd, rcv_ann_right_edge,
                 ooseq, refused_fin, ackflags, inseg, got_fin, appVars, last_ack>>

RecvTaken(k) ==
  /\ pc = "recv" /\ recv_data # <<>>
  /\ Accept(recv_data, k)
  /\ rcv_wnd' = WndAfterRecved(k)
  /\ ackflags' = FlagsAfterRecved(k)
  /\ recv_data' = <<>>
  /\ pc' = "closed"
  /\ UNCHANGED <<state, rcv_nxt, rcv_ann_right_edge, ooseq, refused_data,
                 refused_fin, inseg, got_fin, eof, last_ack>>

InputClosed ==
  /\ pc = "closed"
  /\ IF got_fin /\ refused_data # <<>>
       THEN refused_fin' = TRUE /\ UNCHANGED <<rcv_wnd, eof>>
       ELSE /\ rcv_wnd' = IF got_fin THEN WndAfterFin(rcv_wnd) ELSE rcv_wnd
            /\ eof' = (eof \/ got_fin)
            /\ UNCHANGED refused_fin
  /\ got_fin' = FALSE
  /\ pc' = "output"
  /\ UNCHANGED <<state, rcv_nxt, rcv_ann_wnd, rcv_ann_right_edge, ooseq,
                 refused_data, ackflags, inseg, recv_data, delivered, unread,
                 last_ack>>

InputOutput(res) ==
  /\ pc = "output"
  /\ tcp_output(ackflags, rcv_ann_wnd, res)
  /\ pc' = "idle"
  /\ inseg' = NoSegment
  /\ UNCHANGED <<state, rcv_nxt, rcv_wnd, rcv_ann_wnd, ooseq, refused_data,
                 refused_fin, recv_data, got_fin, appVars>>

-----------------------------------------------------------------------------
(***************************************************************************)
(* Between segments: the application processes k more bytes, the fast      *)
(* timer sends the delayed ACK and offers refused data again, and the slow *)
(* timer throws the ooseq queue away when nothing arrived for 6 RTOs       *)
(* (pcb->tmr is not modelled: it may happen at any time).                  *)
(***************************************************************************)
tcp_recved(k, res) ==
  /\ pc = "idle"
  /\ k \in 1 .. unread
  /\ unread' = unread - k
  /\ rcv_wnd' = WndAfterRecved(k)
  /\ rcv_ann_wnd' = AnnAfterRecved(k)
  /\ IF UpdateDue(k)
       THEN tcp_send_empty_ack(AnnAfterRecved(k), res)
       ELSE UNCHANGED <<ackflags, rcv_ann_right_edge, last_ack>>
  /\ UNCHANGED <<state, rcv_nxt, ooseq, refused_data, refused_fin, inputVars,
                 delivered, eof>>

\* The flags are cleared after tcp_output whether or not the ACK was sent.
FasttmrAck(res) ==
  /\ pc = "idle"
  /\ "DELAY" \in ackflags
  /\ AckOnWire(rcv_ann_wnd, res)
  /\ ackflags' = {}
  /\ pc' = IF refused_data # <<>> THEN "fast_refused" ELSE "idle"
  /\ UNCHANGED <<state, rcv_nxt, rcv_wnd, rcv_ann_wnd, ooseq, refused_data,
                 refused_fin, inseg, recv_data, got_fin, appVars>>

FasttmrNoAck ==
  /\ pc = "idle"
  /\ "DELAY" \notin ackflags
  /\ refused_data # <<>>
  /\ pc' = "fast_refused"
  /\ UNCHANGED <<pcbVars, inseg, recv_data, got_fin, appVars, last_ack>>

FasttmrRefusedAgain ==
  /\ pc = "fast_refused"
  /\ RefusedAgain
  /\ pc' = "idle"
  /\ UNCHANGED <<inseg, recv_data, got_fin>>

FasttmrRefusedTaken(k, res) ==
  /\ pc = "fast_refused"
  /\ RefusedTaken(k, res)
  /\ pc' = "idle"
  /\ UNCHANGED <<inseg, recv_data, got_fin>>

SlowtmrDropOoseq ==
  /\ pc = "idle"
  /\ ooseq # <<>>
  /\ ooseq' = <<>>
  /\ UNCHANGED <<state, rcv_nxt, rcv_wnd, rcv_ann_wnd, rcv_ann_right_edge,
                 refused_data, refused_fin, ackflags, inputVars, appVars, last_ack>>

-----------------------------------------------------------------------------
(***************************************************************************)
(* The peer.  Any piece of the stream may arrive at any time and any       *)
(* number of times, as long as its bytes end within the window announced   *)
(* so far.  The FIN may lie one past it: the sender of this code compares  *)
(* seg->len, which does not count the FIN, with the window (tcp_output).   *)
(* A window probe may carry the one byte just past it.                     *)
(***************************************************************************)
AnnouncedOffset == SeqSub(rcv_ann_right_edge, ISN)

PeerMaySend(s) ==
  \/ s.off + s.len <= AnnouncedOffset
  \/ s.off <= AnnouncedOffset /\ TCP_TCPLEN(s) <= 1

StreamSegments ==
  {StreamSegment(off, len, fin) :
     off \in 0 .. N + 1, len \in 0 .. TCP_MSS, fin \in BOOLEAN}

Genuine(s) ==
  /\ s.off + s.len <= IF s.len = 0 /\ ~s.fin THEN N + 1 ELSE N
  /\ s.fin => s.off + s.len = N

PeerSegments ==
  {s \in StreamSegments : Genuine(s) /\ PeerMaySend(s)} \cup {SynSegment}

Init ==
  /\ state = "ESTABLISHED"
  /\ rcv_nxt = ISN
  /\ rcv_wnd = TCP_WND
  /\ rcv_ann_wnd = TCP_WND
  /\ rcv_ann_right_edge = SeqAdd(ISN, TCP_WND)
  /\ ooseq = <<>>
  /\ refused_data = <<>>
  /\ refused_fin = FALSE
  /\ ackflags = {}
  /\ pc = "idle"
  /\ inseg = NoSegment
  /\ recv_data = <<>>
  /\ got_fin = FALSE
  /\ delivered = <<>>
  /\ unread = 0
  /\ eof = FALSE
  /\ last_ack = [ackno |-> ISN, wnd |-> TCP_WND]

Input ==
  \/ \E s \in PeerSegments : tcp_input(s)
  \/ InputRefusedAgain
  \/ ProcessSyn
  \/ ReceiveNoText
  \/ ReceiveInSequence
  \/ DrainOoseq
  \/ DrainDone
  \/ RecvNothing
  \/ RecvRefused
  \/ InputClosed
  \/ ReceiveAssertFails
  \/ DrainAssertFails
  \/ \E k \in 0 .. TCP_WND : RecvTaken(k)
  \/ \E res \in ResultsOfSend :
       \/ \E k \in 0 .. TCP_WND : InputRefusedTaken(k, res)
       \/ ReceiveOutOfWindow(res)
       \/ QueueFirst(res)
       \/ QueueInOrder(res)
       \/ QueueNoMemory(res)
       \/ InputOutput(res)

Timers ==
  \/ FasttmrNoAck
  \/ FasttmrRefusedAgain
  \/ SlowtmrDropOoseq
  \/ \E res \in ResultsOfSend :
       \/ FasttmrAck(res)
       \/ \E k \in 0 .. TCP_WND : FasttmrRefusedTaken(k, res)

Application ==
  \E res \in ResultsOfSend, k \in 1 .. TCP_WND : tcp_recved(k, res)

Next == Input \/ Timers \/ Application

Spec == Init /\ [][Next]_vars

-----------------------------------------------------------------------------
(***************************************************************************)
(* Properties.                                                             *)
(***************************************************************************)
States == {"ESTABLISHED", "CLOSE_WAIT"}

Places == {"idle", "refused", "process", "drain", "recv", "closed", "output",
           "fast_refused", "assert_failed"}

\* Every field keeps its type; the windows never leave 0 .. TCP_WND, so the
\* subtractions in tcp_receive never wrap the u16_t rcv_wnd.
TypeOK ==
  /\ state \in States
  /\ rcv_nxt \in SeqNo
  /\ rcv_wnd \in 0 .. TCP_WND
  /\ rcv_ann_wnd \in 0 .. TCP_WND
  /\ rcv_ann_right_edge \in SeqNo
  /\ ooseq \in Seq(Segment)
  /\ refused_data \in Seq(Nat)
  /\ refused_fin \in BOOLEAN
  /\ ackflags \subseteq {"DELAY", "NOW"}
  /\ pc \in Places
  /\ inseg \in Segment
  /\ recv_data \in Seq(Nat)
  /\ got_fin \in BOOLEAN
  /\ delivered \in Seq(Nat)
  /\ unread \in 0 .. TCP_WND
  /\ eof \in BOOLEAN
  /\ last_ack \in [ackno : SeqNo, wnd : 0 .. TCP_WND]

\* What tcp_input hands to the recv callback is the peer's stream: no byte
\* is lost, repeated or out of place, whatever order the segments came in
\* and however tcp_receive trimmed and merged them.
DeliveredPrefix == \A i \in 1 .. Len(delivered) : delivered[i] = i

\* The recv callback is told of the end of the stream (TCP_EVENT_CLOSED)
\* only after it has accepted every byte before the FIN, also when the data
\* was refused first (PBUF_FLAG_TCP_FIN).
EofAfterAllData == eof => Len(delivered) = N

\* 1 when the FIN has been received and the application does not know yet.
FinPending == IF got_fin \/ refused_fin THEN 1 ELSE 0

\* Bytes received in sequence, with the FIN: what rcv_nxt stands for.
Received ==
  Len(delivered) + Len(refused_data) + Len(recv_data) +
    FinPending + (IF eof THEN 1 ELSE 0)

\* An ACK that left the machine (tcp_send_empty_ack) covers only bytes that
\* the application has or that the PCB still holds for it.
AckedBytesKept == SeqSub(last_ack.ackno, ISN) <= Received

\* The window accounting of tcp_receive, tcp_recved and the two corrections
\* for the FIN leaks nothing: the window and what is held back add up.
WindowConserved ==
  rcv_wnd + unread + Len(refused_data) + Len(recv_data) + FinPending = TCP_WND

\* ->ooseq is "ordered by sequence number" (tcp_receive), its segments are
\* not empty, do not overlap, lie above rcv_nxt, and a FIN is on the last.
OoseqOrdered ==
  \A i \in 1 .. Len(ooseq) :
    /\ TCP_TCPLEN(ooseq[i]) > 0
    /\ IF pc \in {"drain", "assert_failed"} THEN TCP_SEQ_GEQ(ooseq[i].seqno, rcv_nxt)
       ELSE TCP_SEQ_GT(ooseq[i].seqno, rcv_nxt)
    /\ ooseq[i].fin => i = Len(ooseq)
    /\ i < Len(ooseq) =>
         TCP_SEQ_LEQ(SeqAdd(ooseq[i].seqno, TCP_TCPLEN(ooseq[i])), ooseq[i+1].seqno)

\* The announced window fits into the window there is: a peer that fills it
\* is never refused (tcp_update_rcv_ann_wnd keeps the right edge constant
\* until there is room to move it).
AnnouncedFits ==
  TCP_SEQ_LEQ(rcv_ann_right_edge, SeqAdd(rcv_nxt, rcv_wnd))

\* The announced right edge never moves back, although tcp_receive lowers
\* rcv_ann_wnd and failed sends move the edge as well (RFC 1122, 4.2.2.16).
RightEdgeNeverRetracts ==
  [][TCP_SEQ_GEQ(rcv_ann_right_edge', rcv_ann_right_edge)]_vars

\* Between calls, data that is received and not acknowledged has an ACK
\* scheduled: "let tcp_fasttmr retry sending this ACK" (tcp_send_empty_ack).
AckOwed ==
  pc = "idle" /\ last_ack.ackno # rcv_nxt => "DELAY" \in ackflags

\* A FIN that came out of sequence waits in ooseq, just past a window that the
\* bytes before it fill to the last one.
FinJustBeyond ==
  \E i \in 1 .. Len(ooseq) :
    /\ ooseq[i].fin
    /\ SeqAdd(ooseq[i].seqno, ooseq[i].len) = SeqAdd(rcv_nxt, rcv_wnd)

\* An LWIP_ASSERT of tcp_receive fails only over such a FIN.  Queued data always
\* fits when its turn comes, and what is trimmed to the window or to the queue
\* is trimmed enough.
OnlyFinTripsAssert == pc = "assert_failed" => FinJustBeyond
=============================================================================
