------------------------------ MODULE TcpSend -------------------------------
(***************************************************************************)
(* The send half of one PCB: tcp_write, tcp_send_fin, tcp_output and the   *)
(* retransmissions of tcp_out.c, the ACK part of tcp_receive and the       *)
(* synchronized states of tcp_process in tcp_in.c, the retransmission and  *)
(* persist timers of tcp_slowtmr and the half-close of tcp_shutdown in     *)
(* tcp.c.                                                                  *)
(*                                                                         *)
(* The application writes bytes 1 .. written; byte n has sequence number   *)
(* ISS + n - 1.  A queued segment is its seqno, its length, its FIN flag   *)
(* and the number of pbufs that hold it: where the bytes of one tcp_write  *)
(* go is decided by the seqno of the segment they are appended to.  What   *)
(* the peer sends is abstracted to its acknowledgement: an input is an     *)
(* ACK, the receive half is TcpReceive.                                    *)
(*                                                                         *)
(* tcp_output is a loop that nothing interrupts: pc = "output" is its      *)
(* start, "sending" the loop once a segment has left.  pc = "callback" is  *)
(* tcp_input between tcp_process and its final tcp_output, where the sent  *)
(* and recv callbacks run.                                                 *)
(***************************************************************************)
EXTENDS TcpSeq, Sequences, Functions

CONSTANTS
  ISS,                 \* sequence number of the first byte
  TCP_MSS,             \* pcb->mss
  TCP_SND_BUF,         \* send buffer, in bytes
  TCP_SND_QUEUELEN,    \* send buffer, in segments
  SND_WND_MAX,         \* the peer's whole receive window
  TCP_MAXRTX,          \* retransmissions before the connection is given up
  INITIAL_CWND,        \* LWIP_TCP_CALC_INITIAL_CWND(mss)
  MaxWnd,              \* largest tcpwnd_size_t: 2^16 - 1 in the code
  NODELAY,             \* TF_NODELAY: Nagle switched off
  SendErrors,          \* can ip_output_if fail?
  StraySegments,       \* do SYNs and bad resets arrive for the connection?
  PeerSends,           \* does the peer send data or a FIN of its own?
  PeerWnds,            \* windows the peer announces
  WriteLens,           \* lengths the application passes to tcp_write
  MaxWritten,          \* bound: bytes the application writes, and has reported
  NrtxWidth            \* number of values of nrtx: 2^8 in the code

ASSUME SendAssumption ==
  /\ ISS \in SeqNo
  /\ {TCP_MSS, TCP_SND_BUF, TCP_SND_QUEUELEN, SND_WND_MAX, TCP_MAXRTX,
      INITIAL_CWND, MaxWnd, NrtxWidth} \subseteq Nat \ {0}
  /\ {NODELAY, SendErrors, StraySegments, PeerSends} \subseteq BOOLEAN
  /\ PeerWnds \subseteq 0 .. SND_WND_MAX
  /\ WriteLens \subseteq Nat \ {0}
  /\ MaxWritten \in Nat
  /\ SND_WND_MAX <= MaxWnd /\ INITIAL_CWND <= MaxWnd
  /\ TCP_MAXRTX < NrtxWidth
  /\ MaxWritten + SND_WND_MAX + 2 < Half

VARIABLES
  state,             \* pcb->state
  unsent,            \* segments to send
  unacked,           \* segments sent and not acknowledged
  snd_nxt,           \* next new sequence number to send
  lastack,           \* highest acknowledged sequence number
  snd_lbb,           \* sequence number of the next byte to be buffered
  snd_buf,           \* free send buffer
  unsent_oversize,   \* free bytes in the last pbuf of unsent
  misplaced,         \* has something been appended in the middle of the stream?
  snd_wnd, snd_wl2,  \* the peer's window and the ACK it came with
  cwnd, ssthresh,    \* congestion control
  dupacks,           \* duplicate ACKs in a row
  acked,             \* what the last ACK acknowledged, for the sent callback
  nrtx,              \* retransmissions since the last progress
  rtime,             \* is the retransmission timer running (rtime # -1)?
  rtseq,             \* the segment being timed (NoRtt is rttest = 0)
  flags,             \* TF_INFR, TF_NAGLEMEMERR and TF_FIN of pcb->flags
  persist,           \* is the persist timer running (persist_backoff > 0)?
  pc,                \* where the running handler stands
  written,           \* bytes tcp_write has accepted
  reported,          \* bytes reported by the sent callback
  wire_end           \* how much of the stream has ever left, FIN included

queueVars == <<unsent, unacked, snd_nxt, snd_lbb, snd_buf, unsent_oversize,
               misplaced>>
ackVars == <<lastack, snd_wnd, snd_wl2, dupacks, acked, persist>>
ccVars == <<cwnd, ssthresh>>
rtxVars == <<nrtx, rtime, rtseq>>
vars == <<state, queueVars, ackVars, ccVars, rtxVars, flags, pc,
          written, reported, wire_end>>

LWIP_MIN(a, b) == IF a < b THEN a ELSE b
LWIP_MAX(a, b) == IF a > b THEN a ELSE b

NoRtt == -1

Segment == [seqno : SeqNo, len : Nat, fin : BOOLEAN, bufs : Nat]

TCP_TCPLEN(s) == s.len + (IF s.fin THEN 1 ELSE 0)

SegEnd(s) == SeqAdd(s.seqno, TCP_TCPLEN(s))

\* A sequence number as a position in the stream.
Offset(n) == SeqSub(n, ISS)

DropFirst(q, k) == SubSeq(q, k + 1, Len(q))

\* q with s before the first segment that does not start before s.
InsertSorted(q, s) ==
  LET k == CHOOSE i \in 0 .. Len(q) :
             /\ \A j \in 1 .. i : TCP_SEQ_LT(q[j].seqno, s.seqno)
             /\ i < Len(q) => ~TCP_SEQ_LT(q[i + 1].seqno, s.seqno)
  IN  SubSeq(q, 1, k) \o <<s>> \o DropFirst(q, k)

Alive == state \notin {"TIME_WAIT", "CLOSED", "ABORTED"}

-----------------------------------------------------------------------------
(***************************************************************************)
(* tcp_write, with TCP_WRITE_FLAG_COPY as rudp_send calls it: fill up the  *)
(* last pbuf of unsent (phase 1), chain a pbuf to the last segment (phase  *)
(* 2), cut the rest into new segments (phase 3).  It does not send.        *)
(***************************************************************************)
MssLocal ==
  LET m == LWIP_MIN(TCP_MSS, SND_WND_MAX \div 2) IN IF m = 0 THEN TCP_MSS ELSE m

\* snd_queuelen: the pbufs of all queued segments.
Clen(q) == SumFunction([i \in 1 .. Len(q) |-> q[i].bufs])

QueueLen == Clen(unacked) + Clen(unsent)

LastUnsent == unsent[Len(unsent)]

\* The bytes of a write that phase 1 and phase 2 take.
Phase1(len) == LWIP_MIN(unsent_oversize, len)

Phase2(len) ==
  IF unsent = <<>> \/ LastUnsent.len = 0 THEN 0
  ELSE LWIP_MIN(MssLocal - LastUnsent.len, len) - Phase1(len)

\* The free bytes of a pbuf allocated for length of at most max_length bytes:
\* it gets the whole max_length if Nagle will hold it back.
tcp_pbuf_prealloc(length, max_length, first_seg) ==
  IF ~NODELAY /\ (~first_seg \/ unacked # <<>> \/ unsent # <<>>)
    THEN max_length - length ELSE 0

ExtendLast(q, k, bufs) ==
  [q EXCEPT ![Len(q)].len = @ + k, ![Len(q)].bufs = @ + bufs]

\* Segments for the bytes of one write after its first pos bytes.
NewSegments(pos, len) ==
  [i \in 1 .. (len - pos + MssLocal - 1) \div MssLocal |->
     LET p == pos + (i - 1) * MssLocal
     IN  [seqno |-> SeqAdd(snd_lbb, p), len |-> LWIP_MIN(MssLocal, len - p),
          fin |-> FALSE, bufs |-> 1]]

\* unsent_oversize after a write that made the segments new.
Oversize(len, new) ==
  IF new # <<>> THEN tcp_pbuf_prealloc(new[Len(new)].len, MssLocal, Len(new) = 1)
  ELSE IF Phase2(len) > 0
    THEN tcp_pbuf_prealloc(Phase2(len), MssLocal - LastUnsent.len - Phase1(len), TRUE)
  ELSE unsent_oversize - Phase1(len)

\* What is appended to the last unsent segment goes where the stream ends,
\* unless a retransmission has left an earlier segment there.
LastIsEnd == SegEnd(LastUnsent) = snd_lbb

InApplication == pc \in {"idle", "callback"}

MayWrite == InApplication /\ state \in {"ESTABLISHED", "CLOSE_WAIT"}

tcp_write(len) ==
  LET pos == Phase1(len) + Phase2(len)
      chained == IF Phase2(len) > 0 THEN 1 ELSE 0
      new == NewSegments(pos, len)
  IN  /\ MayWrite
      /\ written + len <= MaxWritten
      /\ len <= snd_buf
      /\ QueueLen < TCP_SND_QUEUELEN
      /\ QueueLen + chained + Len(new) <= TCP_SND_QUEUELEN
      /\ unsent' = (IF pos = 0 THEN unsent ELSE ExtendLast(unsent, pos, chained)) \o new
      /\ unsent_oversize' = Oversize(len, new)
      /\ snd_lbb' = SeqAdd(snd_lbb, len)
      /\ snd_buf' = snd_buf - len
      /\ written' = written + len
      /\ misplaced' = (misplaced \/ (pos > 0 /\ ~LastIsEnd))
      /\ UNCHANGED <<state, unacked, snd_nxt, ackVars, ccVars, rtxVars, flags,
                     pc, reported, wire_end>>

\* No buffer, no queue space or no memory: nothing but the flag changes.
WriteFails ==
  /\ MayWrite
  /\ flags' = flags \cup {"NAGLEMEMERR"}
  /\ UNCHANGED <<state, queueVars, ackVars, ccVars, rtxVars, pc, written,
                 reported, wire_end>>

(***************************************************************************)
(* tcp_shutdown of the sending side: tcp_send_fin puts the FIN on the last *)
(* unsent segment, or queues a segment of its own with tcp_enqueue_flags.  *)
(* The tcp_output that follows does nothing inside a callback.             *)
(***************************************************************************)
AfterFin == IF state = "ESTABLISHED" THEN "FIN_WAIT_1" ELSE "LAST_ACK"

OutputUnlessInput == IF pc = "idle" THEN "output" ELSE pc

ShutdownPiggyback ==
  /\ MayWrite
  /\ unsent # <<>> /\ ~LastUnsent.fin
  /\ unsent' = [unsent EXCEPT ![Len(unsent)].fin = TRUE]
  /\ flags' = flags \cup {"FIN"}
  /\ state' = AfterFin
  /\ pc' = OutputUnlessInput
  /\ misplaced' = (misplaced \/ ~LastIsEnd)
  /\ UNCHANGED <<unacked, snd_nxt, snd_lbb, snd_buf, unsent_oversize, ackVars, ccVars,
                 rtxVars, written, reported, wire_end>>

ShutdownEnqueue ==
  /\ MayWrite
  /\ unsent = <<>>
  /\ snd_buf > 0
  /\ unsent' = <<[seqno |-> snd_lbb, len |-> 0, fin |-> TRUE, bufs |-> 1]>>
  /\ unsent_oversize' = 0
  /\ snd_lbb' = SeqAdd(snd_lbb, 1)
  /\ snd_buf' = snd_buf - 1
  /\ flags' = flags \cup {"FIN"}
  /\ state' = AfterFin
  /\ pc' = OutputUnlessInput
  /\ UNCHANGED <<unacked, snd_nxt, misplaced, ackVars, ccVars, rtxVars, written,
                 reported, wire_end>>

\* tcp_enqueue_flags finds no memory; without send buffer it only returns.
ShutdownFails ==
  /\ MayWrite
  /\ unsent = <<>>
  /\ flags' = IF snd_buf = 0 THEN flags ELSE flags \cup {"NAGLEMEMERR"}
  /\ UNCHANGED <<state, queueVars, ackVars, ccVars, rtxVars, pc, written,
                 reported, wire_end>>

-----------------------------------------------------------------------------
(***************************************************************************)
(* tcp_output.  A segment goes out when it fits the smaller of the peer's  *)
(* and the congestion window and Nagle's algorithm lets it.                *)
(***************************************************************************)
\* Mutant: the peer's window is not asked.
FitsCwnd(s) == SeqAdd(SeqSub(s.seqno, lastack), s.len) <= cwnd

Fits(s) ==
  SeqAdd(SeqSub(s.seqno, lastack), s.len) <= LWIP_MIN(snd_wnd, cwnd)

tcp_do_output_nagle ==
  \/ unacked = <<>>
  \/ NODELAY \/ "INFR" \in flags
  \/ Len(unsent) > 1 \/ unsent[1].len >= TCP_MSS
  \/ snd_buf = 0 \/ QueueLen >= TCP_SND_QUEUELEN

Sendable ==
  /\ unsent # <<>>
  /\ Fits(unsent[1])
  /\ tcp_do_output_nagle \/ flags \cap {"NAGLEMEMERR", "FIN"} # {}

InOutput == pc \in {"output", "sending"}

\* The application, or the poll of tcp_slowtmr, calls tcp_output.
tcp_output ==
  /\ pc = "idle" /\ Alive
  /\ pc' = "output"
  /\ UNCHANGED <<state, queueVars, ackVars, ccVars, rtxVars, flags, written,
                 reported, wire_end>>

\* Mutant: the retransmission timer is not started.
StartTimersRttOnly(s) ==
  /\ UNCHANGED rtime
  /\ rtseq' = IF rtseq = NoRtt THEN s.seqno ELSE rtseq

\* tcp_output_segment starts the timers before it sends.
StartTimers(s) ==
  /\ rtime' = TRUE
  /\ rtseq' = IF rtseq = NoRtt THEN s.seqno ELSE rtseq

\* Mutant: the free bytes outlive the segment they belong to.
OversizeOfStale(q, spare) == spare

\* An empty queue has no last pbuf.
OversizeOf(q, spare) == IF q = <<>> THEN 0 ELSE spare

OutputSegment ==
  LET s == unsent[1]
  IN  /\ InOutput /\ Sendable
      /\ pc' = "sending"
      /\ StartTimers(s)
      /\ unsent' = Tail(unsent)
      /\ unacked' =
           IF unacked # <<>> /\ TCP_SEQ_LT(s.seqno, unacked[Len(unacked)].seqno)
             THEN InsertSorted(unacked, s)
             ELSE Append(unacked, s)
      /\ snd_nxt' = IF TCP_SEQ_LT(snd_nxt, SegEnd(s)) THEN SegEnd(s) ELSE snd_nxt
      /\ unsent_oversize' = OversizeOf(unsent', unsent_oversize)
      /\ wire_end' = LWIP_MAX(wire_end, Offset(SegEnd(s)))
      /\ UNCHANGED <<state, snd_lbb, snd_buf, misplaced, ackVars, ccVars, nrtx, flags,
                     written, reported>>

\* Mutant: the segment that could not be sent is gone.
OutputFailsDrops ==
  /\ SendErrors
  /\ InOutput /\ Sendable
  /\ StartTimers(unsent[1])
  /\ flags' = flags \cup {"NAGLEMEMERR"}
  /\ unsent' = Tail(unsent)
  /\ pc' = "idle"
  /\ UNCHANGED <<state, unacked, snd_nxt, snd_lbb, snd_buf, unsent_oversize, misplaced,
                 ackVars, ccVars, nrtx, written, reported, wire_end>>

OutputFails ==
  /\ SendErrors
  /\ InOutput /\ Sendable
  /\ StartTimers(unsent[1])
  /\ flags' = flags \cup {"NAGLEMEMERR"}
  /\ pc' = "idle"
  /\ UNCHANGED <<state, queueVars, ackVars, ccVars, nrtx, written, reported,
                 wire_end>>

OutputDone ==
  /\ InOutput /\ ~Sendable
  /\ flags' = flags \ {"NAGLEMEMERR"}
  /\ pc' = "idle"
  /\ UNCHANGED <<state, queueVars, ackVars, ccVars, rtxVars, written, reported,
                 wire_end>>

\* TF_ACK_NOW, set by the receive half, and nothing fits: an empty ACK leaves.
OutputEmptyAck ==
  /\ pc = "output"
  /\ unsent # <<>> => ~Fits(unsent[1])
  /\ pc' = "idle"
  /\ UNCHANGED <<state, queueVars, ackVars, ccVars, rtxVars, flags, written,
                 reported, wire_end>>

-----------------------------------------------------------------------------
(***************************************************************************)
(* An incoming segment, as the send half sees it: its ACK and window, how  *)
(* its seqno compares with snd_wl1 (age), and whether it is empty, has     *)
(* text, or completes the peer's stream with its FIN (kind).               *)
(***************************************************************************)
Ack == [ackno : SeqNo, wnd : 0 .. SND_WND_MAX, age : {"old", "same", "new"},
        kind : {"empty", "text", "fin"}]

UpdatesWindow(a) ==
  \/ a.age = "new"
  \/ a.age = "same" /\ TCP_SEQ_LT(snd_wl2, a.ackno)
  \/ snd_wl2 = a.ackno /\ a.wnd > snd_wnd

\* The persist timer starts with a zero window and stops with any other.
UpdateWindow(a) ==
  IF UpdatesWindow(a)
    THEN snd_wnd' = a.wnd /\ snd_wl2' = a.ackno /\ persist' = (a.wnd = 0)
    ELSE UNCHANGED <<snd_wnd, snd_wl2, persist>>

IsDupAck(a) ==
  /\ a.kind = "empty"
  /\ SeqAdd(snd_wl2', snd_wnd') = SeqAdd(snd_wl2, snd_wnd)
  /\ rtime
  /\ lastack = a.ackno

\* tcpwnd_size_t arithmetic, and an increase that must not wrap.
WndAdd(a, b) == (a + b) % (MaxWnd + 1)

\* Mutant: no test for the wrap.
GrowWraps(w, k) == WndAdd(w, k)

Grow(w, k) == IF WndAdd(w, k) > w THEN WndAdd(w, k) ELSE w

HalfWindow(wnd) ==
  LWIP_MAX(LWIP_MIN(cwnd, wnd) \div 2, 2 * TCP_MSS)

\* Mutant: a segment that is only partly acknowledged counts.
CoversHeadPartly(q, k, ackno) ==
  /\ k \in 0 .. Len(q)
  /\ \A i \in 1 .. k : TCP_SEQ_LT(q[i].seqno, ackno)
  /\ k < Len(q) => ~TCP_SEQ_LT(q[k + 1].seqno, ackno)

\* k is the number of segments at the head of q that ackno covers.
CoversHead(q, k, ackno) ==
  /\ k \in 0 .. Len(q)
  /\ \A i \in 1 .. k : TCP_SEQ_LEQ(SegEnd(q[i]), ackno)
  /\ k < Len(q) => ~TCP_SEQ_LEQ(SegEnd(q[k + 1]), ackno)

\* The same for unsent, where ackno must also have been sent.
CoversUnsent(q, k, ackno) ==
  IF TCP_SEQ_LEQ(ackno, snd_nxt) THEN CoversHead(q, k, ackno) ELSE k = 0

\* The timed segment is acknowledged: the measurement ends.
RttAfter(a) ==
  IF rtseq # NoRtt /\ TCP_SEQ_LT(rtseq, a.ackno) THEN NoRtt ELSE rtseq

\* Mutant: the FIN is counted as a byte.
FinInIgnored(q, k) == FALSE

FinIn(q, k) == \E i \in 1 .. k : q[i].fin

(***************************************************************************)
(* The states of tcp_process, by what the segment acknowledges.            *)
(***************************************************************************)
AllAcked(a) == a.ackno = snd_nxt

NextState(a) ==
  IF state \in {"ESTABLISHED", "CLOSE_WAIT"}
    THEN IF a.kind = "fin" THEN "CLOSE_WAIT" ELSE state
  ELSE IF state = "FIN_WAIT_1"
    THEN IF a.kind = "fin" THEN IF AllAcked(a) THEN "TIME_WAIT" ELSE "CLOSING"
         ELSE IF AllAcked(a) THEN "FIN_WAIT_2" ELSE state
  ELSE IF state = "FIN_WAIT_2" THEN IF a.kind = "fin" THEN "TIME_WAIT" ELSE state
  ELSE IF ~AllAcked(a) THEN state
  ELSE IF state = "CLOSING" THEN "TIME_WAIT" ELSE "CLOSED"

(***************************************************************************)
(* The end of tcp_receive's ACK part and the rest of tcp_process and       *)
(* tcp_input: acknowledged segments leave unsent, a finished connection is *)
(* purged, and the sent callback reports acked bytes without the FIN.      *)
(***************************************************************************)
Finish(a, sentq, unsentq, spare, bytes, timer) ==
  \E k \in 0 .. Len(unsentq) :
    LET finished == NextState(a) \in {"TIME_WAIT", "CLOSED"}
        sent == IF bytes # 0 /\ FinIn(unsentq, k) THEN bytes - 1 ELSE bytes
    IN  /\ CoversUnsent(unsentq, k, a.ackno)
        /\ state' = NextState(a)
        /\ unsent' = IF finished THEN <<>> ELSE DropFirst(unsentq, k)
        /\ unsent_oversize' = OversizeOf(unsent', spare)
        /\ unacked' = IF finished THEN <<>> ELSE sentq
        /\ rtime' = (timer /\ ~finished)
        /\ acked' = sent
        /\ reported' = reported + sent
        /\ pc' = IF finished THEN "idle"
                 ELSE IF sent > 0 \/ a.kind # "empty" THEN "callback" ELSE "output"
        /\ UNCHANGED <<snd_nxt, snd_lbb, misplaced, written, wire_end>>

(***************************************************************************)
(* Nothing new is acknowledged: count a duplicate, and retransmit the      *)
(* first unacknowledged segment on the third (tcp_rexmit_fast).  dupacks   *)
(* stops at 4, as the code only asks whether it is 3 or more.              *)
(***************************************************************************)
FastRexmit(a) ==
  IsDupAck(a) /\ dupacks = 2 /\ unacked # <<>> /\ "INFR" \notin flags

tcp_rexmit_fast(a) ==
  LET q == InsertSorted(unsent, unacked[1])
      spare == IF q[Len(q)] = unacked[1] THEN 0 ELSE unsent_oversize
  IN  /\ ssthresh' = HalfWindow(snd_wnd')
      /\ cwnd' = WndAdd(ssthresh', 3 * TCP_MSS)
      /\ flags' = flags \cup {"INFR"}
      /\ nrtx' = (nrtx + 1) % NrtxWidth
      /\ rtseq' = NoRtt
      /\ Finish(a, Tail(unacked), q, spare, 0, rtime)

DupAck(a) ==
  /\ cwnd' = IF IsDupAck(a) /\ dupacks >= 3 THEN Grow(cwnd, TCP_MSS) ELSE cwnd
  /\ UNCHANGED <<ssthresh, flags, nrtx>>
  /\ rtseq' = RttAfter(a)
  /\ Finish(a, unacked, unsent, unsent_oversize, 0, rtime)

ReceiveOldAck(a) ==
  /\ TCP_SEQ_LEQ(a.ackno, lastack)
  /\ dupacks' = IF IsDupAck(a) THEN LWIP_MIN(dupacks + 1, 4) ELSE 0
  /\ IF FastRexmit(a) THEN tcp_rexmit_fast(a) ELSE DupAck(a)
  /\ UNCHANGED <<lastack, snd_buf>>

(***************************************************************************)
(* New data is acknowledged: buffer space, congestion window and timer.    *)
(***************************************************************************)
AckedBytes(a) == SeqSub(a.ackno, lastack)

CwndAfterAck ==
  LET w == IF "INFR" \in flags THEN ssthresh ELSE cwnd
  IN  IF w < ssthresh THEN Grow(w, TCP_MSS)
      ELSE Grow(w, (TCP_MSS * TCP_MSS) \div w)

SndBufAfterAck(a) == snd_buf + AckedBytes(a)

ReceiveNewAck(a) ==
  /\ TCP_SEQ_BETWEEN(a.ackno, SeqAdd(lastack, 1), snd_nxt)
  /\ \E k \in 0 .. Len(unacked) :
       LET bytes == AckedBytes(a)
           rest == DropFirst(unacked, k)
       IN  /\ CoversHead(unacked, k, a.ackno)
           /\ Finish(a, rest, unsent, unsent_oversize,
                     IF FinIn(unacked, k) THEN bytes - 1 ELSE bytes, rest # <<>>)
  /\ flags' = flags \ {"INFR"}
  /\ cwnd' = CwndAfterAck
  /\ nrtx' = 0
  /\ snd_buf' = SndBufAfterAck(a)
  /\ dupacks' = 0
  /\ lastack' = a.ackno
  /\ rtseq' = RttAfter(a)
  /\ UNCHANGED ssthresh

\* An ACK of something not sent (a probe's byte): answered, else ignored.
ReceiveAckBeyond(a) ==
  /\ ~TCP_SEQ_LEQ(a.ackno, lastack)
  /\ ~TCP_SEQ_BETWEEN(a.ackno, SeqAdd(lastack, 1), snd_nxt)
  /\ Finish(a, unacked, unsent, unsent_oversize, 0, rtime)
  /\ rtseq' = RttAfter(a)
  /\ UNCHANGED <<flags, cwnd, ssthresh, nrtx, snd_buf, dupacks, lastack>>

tcp_receive(a) ==
  /\ pc = "idle" /\ Alive
  /\ UpdateWindow(a)
  /\ ReceiveOldAck(a) \/ ReceiveNewAck(a) \/ ReceiveAckBeyond(a)

\* tcp_process returns before tcp_receive on a SYN and on a reset that is not
\* acceptable: tcp_input then finds acked as the segment before left it.
InputStray ==
  /\ StraySegments
  /\ pc = "idle" /\ Alive
  /\ reported <= MaxWritten
  /\ reported' = reported + acked
  /\ pc' = IF acked > 0 THEN "callback" ELSE "output"
  /\ UNCHANGED <<state, queueVars, ackVars, ccVars, rtxVars, flags, written,
                 wire_end>>

\* tcp_input: the callbacks are done, try to send something.
InputOutput ==
  /\ pc = "callback"
  /\ pc' = "output"
  /\ UNCHANGED <<state, queueVars, ackVars, ccVars, rtxVars, flags, written,
                 reported, wire_end>>

-----------------------------------------------------------------------------
(***************************************************************************)
(* tcp_slowtmr for this PCB.                                               *)
(***************************************************************************)
Retrying == nrtx # TCP_MAXRTX

\* The PCB is removed: too many retransmissions, or one of the inactivity
\* timeouts of these states.
SlowtmrRemove ==
  /\ pc = "idle" /\ Alive
  /\ ~Retrying \/ state \in {"ESTABLISHED", "CLOSE_WAIT", "LAST_ACK"}
  /\ state' = "ABORTED"
  /\ unsent' = <<>> /\ unacked' = <<>> /\ rtime' = FALSE
  /\ unsent_oversize' = 0
  /\ UNCHANGED <<snd_nxt, snd_lbb, snd_buf, misplaced, ackVars, ccVars, nrtx, rtseq,
                 flags, pc, written, reported, wire_end>>

(***************************************************************************)
(* tcp_zero_window_probe sends one byte, or the FIN, of the first segment  *)
(* and leaves snd_nxt alone.                                               *)
(***************************************************************************)
SlowtmrProbe ==
  LET q == unacked \o unsent
  IN  /\ pc = "idle" /\ Alive /\ Retrying /\ persist
      /\ q # <<>>
      /\ wire_end' = LWIP_MAX(wire_end, Offset(SeqAdd(q[1].seqno, 1)))
      /\ UNCHANGED <<state, queueVars, ackVars, ccVars, rtxVars, flags, pc,
                     written, reported>>

SlowtmrRexmit ==
  /\ pc = "idle" /\ Alive /\ Retrying /\ ~persist
  /\ rtime /\ unacked # <<>>
  /\ ssthresh' = HalfWindow(snd_wnd)
  /\ cwnd' = TCP_MSS
  /\ unsent' = unacked \o unsent
  /\ unacked' = <<>>
  /\ nrtx' = (nrtx + 1) % NrtxWidth
  /\ rtseq' = NoRtt
  /\ pc' = "output"
  /\ UNCHANGED <<state, snd_nxt, snd_lbb, snd_buf, unsent_oversize, misplaced, ackVars,
                 rtime, flags, written, reported, wire_end>>

-----------------------------------------------------------------------------
(***************************************************************************)
(* The peer, as far as its ACKs show it: it acknowledges what has left,    *)
(* and never takes back the right edge of the window it has announced      *)
(* (RightEdgeNeverRetracts of TcpReceive).  The network delivers its       *)
(* segments in any order and any number of times: one that left after the  *)
(* segment of the last window update acknowledges no less and ends no      *)
(* earlier, one that left before it no more and no later.  Its age says    *)
(* nothing of that: a retransmission carries an old seqno with the newest  *)
(* ackno and window, as tcp_output_segment fills them in at every          *)
(* transmission.  A peer that sends nothing has empty ACKs only, all with  *)
(* the same seqno.                                                         *)
(***************************************************************************)
RightEdge == Offset(snd_wl2) + snd_wnd

PeerAcks ==
  [ackno : {SeqAdd(ISS, o) : o \in 0 .. wire_end}, wnd : PeerWnds,
   age : IF PeerSends THEN {"old", "same", "new"} ELSE {"same"},
   kind : IF PeerSends THEN {"empty", "text", "fin"} ELSE {"empty"}]

PeerMaySend(a) ==
  LET o == Offset(a.ackno)
  IN  /\ \/ o >= Offset(snd_wl2) /\ o + a.wnd >= RightEdge
         \/ o <= Offset(snd_wl2) /\ o + a.wnd <= RightEdge
      /\ a.kind = "fin" => state \in {"ESTABLISHED", "FIN_WAIT_1", "FIN_WAIT_2"}

Init ==
  /\ state \in {"ESTABLISHED", "CLOSE_WAIT"}
  /\ unsent = <<>> /\ unacked = <<>>
  /\ snd_nxt = ISS /\ lastack = ISS /\ snd_lbb = ISS
  /\ snd_buf = TCP_SND_BUF /\ unsent_oversize = 0 /\ misplaced = FALSE
  /\ snd_wnd = SND_WND_MAX /\ snd_wl2 = ISS
  /\ cwnd = INITIAL_CWND /\ ssthresh = SND_WND_MAX
  /\ dupacks = 0 /\ acked = 0 /\ nrtx = 0 /\ rtime = FALSE /\ rtseq = NoRtt
  /\ flags = {} /\ persist = FALSE
  /\ pc = "idle"
  /\ written = 0 /\ reported = 0 /\ wire_end = 0

Application ==
  \/ \E len \in WriteLens : tcp_write(len)
  \/ WriteFails
  \/ ShutdownPiggyback
  \/ ShutdownEnqueue
  \/ ShutdownFails
  \/ tcp_output

Output == OutputSegment \/ OutputFails \/ OutputDone \/ OutputEmptyAck

Input ==
  \/ \E a \in PeerAcks : PeerMaySend(a) /\ tcp_receive(a)
  \/ InputStray
  \/ InputOutput

Timers == SlowtmrRemove \/ SlowtmrProbe \/ SlowtmrRexmit

Next == Application \/ Output \/ Input \/ Timers

Spec == Init /\ [][Next]_vars

-----------------------------------------------------------------------------
(***************************************************************************)
(* Properties.                                                             *)
(***************************************************************************)
States == {"ESTABLISHED", "CLOSE_WAIT", "FIN_WAIT_1", "FIN_WAIT_2", "CLOSING",
           "LAST_ACK", "TIME_WAIT", "CLOSED", "ABORTED"}

\* Every variable has its type; counters stay within their C width.
TypeOK ==
  /\ state \in States
  /\ unsent \in Seq(Segment) /\ unacked \in Seq(Segment)
  /\ {snd_nxt, lastack, snd_lbb, snd_wl2} \subseteq SeqNo
  /\ snd_buf \in 0 .. TCP_SND_BUF + 1 /\ unsent_oversize \in 0 .. TCP_MSS
  /\ snd_wnd \in 0 .. SND_WND_MAX
  /\ cwnd \in 1 .. MaxWnd /\ ssthresh \in 1 .. MaxWnd
  /\ dupacks \in 0 .. 4 /\ acked \in 0 .. TCP_SND_BUF
  /\ nrtx \in 0 .. NrtxWidth - 1
  /\ misplaced \in BOOLEAN
  /\ rtime \in BOOLEAN /\ rtseq \in SeqNo \cup {NoRtt}
  /\ flags \subseteq {"INFR", "NAGLEMEMERR", "FIN"}
  /\ persist \in BOOLEAN
  /\ pc \in {"idle", "callback", "output", "sending"}
  /\ written \in 0 .. MaxWritten
  /\ reported \in Nat /\ wire_end \in Nat

Queued == unacked \o unsent

Carries(s, n) == Offset(s.seqno) < n /\ n <= Offset(s.seqno) + s.len

\* Every byte written and not yet acknowledged is in exactly one queued
\* segment: the moves between unsent and unacked (tcp_output, tcp_rexmit,
\* tcp_rexmit_rto) and the removals by tcp_receive lose and double nothing.
StreamQueued ==
  Alive =>
    \A n \in Offset(lastack) + 1 .. written :
      \E i \in 1 .. Len(Queued) :
        /\ Carries(Queued[i], n)
        /\ \A j \in 1 .. Len(Queued) : Carries(Queued[j], n) => j = i

\* A FIN follows the last byte written, whichever way tcp_send_fin queued it,
\* and stays queued until it is acknowledged.
FinAfterStream ==
  /\ \A i \in 1 .. Len(Queued) :
       Queued[i].fin => Offset(Queued[i].seqno) + Queued[i].len = written
  /\ Alive /\ "FIN" \in flags /\ Offset(lastack) <= written =>
       \E i \in 1 .. Len(Queued) : Queued[i].fin

Sorted(q) == \A i \in 1 .. Len(q) - 1 : TCP_SEQ_LT(q[i].seqno, q[i + 1].seqno)

\* Nothing is ever appended in the middle of the stream.  It does not hold
\* (MCSendMisplaced.cfg): a retransmitted segment that does not fit the window,
\* or whose send failed, may be the last of unsent, where tcp_write and
\* tcp_send_fin "find the tail".
NothingMisplaced == ~misplaced

\* The send queues are sound: the moves and cuts of tcp_output, tcp_rexmit,
\* tcp_rexmit_rto and tcp_receive keep the unacknowledged stream and its FIN in
\* them, each byte once, and unacked in the order tcp_receive takes it off,
\* unless something has been appended in the middle of the stream.
QueuesSound ==
  misplaced \/ (StreamQueued /\ FinAfterStream /\ Sorted(unacked))

\* The free bytes tcp_write fills first are bytes of the last unsent segment
\* and fit it: the asserts "unsent_oversize mismatch" and "mss_local is too
\* small" of tcp_write hold.
OversizeFits ==
  IF unsent = <<>> THEN unsent_oversize = 0
  ELSE LastUnsent.len + unsent_oversize <= MssLocal

\* tcp_output_segment "actually sends a TCP segment over IP": the network
\* output takes the payload of one pbuf, so a sent segment is one pbuf.
SentWhole == \A i \in 1 .. Len(unacked) : unacked[i].bufs = 1

\* The send buffer is what is not written or acknowledged (tcp_write takes,
\* tcp_receive gives back).
SndBufConserved ==
  snd_buf + Offset(snd_lbb) = TCP_SND_BUF + Offset(lastack)

\* The sent callback reports every acknowledged byte once, and not the FIN.
ReportedExactly == reported = LWIP_MIN(Offset(lastack), written)

\* What tcp_receive takes for acknowledged is given back to the send buffer and
\* reported to the application, each once, whichever way the FIN was queued,
\* unless something has been appended in the middle of the stream.
AccountsExact == SndBufConserved /\ (misplaced \/ ReportedExactly)

\* Between two calls, data in flight has a retransmission timer (or the
\* persist timer's rtime, frozen while the window is closed).
TimerRuns == pc = "idle" /\ unacked # <<>> => rtime

\* What has been sent lies within the window of the last window update, though
\* tcp_output measures it from lastack and not from snd_wl2.  That is right for
\* a peer that sends nothing: then every new ACK updates the window.  A segment
\* with an old seqno and a new ackno, as a peer's retransmission has, moves
\* lastack alone, and tcp_output sends past the window (MCSendWindow.cfg).
SentWithinWindow == LWIP_MIN(Offset(snd_nxt), written) <= RightEdge

\* A connection that ends in an orderly way has had every byte acknowledged:
\* data unsent at tcp_close is still sent afterwards.
ClosedAfterAll ==
  state \in {"TIME_WAIT", "CLOSED"} => Offset(lastack) >= written

\* Data that waits for the window is probed for, so that a lost window update
\* cannot stall the connection.
NeverStalled ==
  pc = "idle" /\ unacked = <<>> /\ unsent # <<>> => persist \/ Fits(unsent[1])
=============================================================================
