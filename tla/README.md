# A TLA+ model of rudp

rudp carries TCP over UDP: the TCP core of lwIP (`src/src/tcp.c`, `tcp_in.c`,
`tcp_out.c`) with the IP layer replaced by one UDP socket
(`src/test/udp/rudp.c`), and connections told apart by a connection id instead of
addresses. The shipped configuration runs it in one thread: the event loop calls
`tcp_input` for each datagram and `tcp_tmr` from a timer. The sources also hold
lwIP's threaded build (`sys_arch.c`, `timers.c`): a thread of the stack that fetches
messages from a mailbox and runs timeouts while it waits. What makes it hard is the
network (loss, duplication, reordering, overlap), callbacks that re-enter the stack
while a handler is half way, failing sends and allocations, 16- and 32-bit numbers
that wrap, timers that race late answers, buffers with several owners, and, in the
threaded build, posters and the fetcher of a bounded mailbox.

## Inventory

| Component | State | Operations | Hard behaviour | What makes it correct |
|---|---|---|---|---|
| Sequence arithmetic (`tcp_impl.h`) | – | `TCP_SEQ_*` | wrap-around | orders like stream positions |
| Receive path (`tcp_in.c`, `tcp.c`) | `rcv_nxt`, windows, `ooseq`, `refused_data`, ACK flags | `tcp_input`, `tcp_receive`, `tcp_recved`, `tcp_fasttmr`, ooseq timeout | reordering, overlap, refusal, failed ACKs | stream delivered once and in order; window conserved; edge never retracts |
| Send path (`tcp_out.c`, `tcp_in.c`) | `unsent`, `unacked`, `snd_*`, `cwnd`, timers | `tcp_write`, `tcp_shutdown`, `tcp_output`, ACK part of `tcp_receive`, `tcp_rexmit*`, `tcp_zero_window_probe` | retransmission against late ACKs, partial ACKs, failed sends | queues hold the unacknowledged stream exactly; timer runs; window respected |
| Both paths together | – | – | a lossy network between them | what is written arrives, or the connection is given up |
| Connection management (`tcp_in.c`, `tcp.c`) | `state`, connection ids, listener | handshake, close, RST, keepalive, TIME_WAIT | copies of a SYN, half-open connections, a dead peer | both ends agree; everything ends |
| PCB lists and timers (`tcp.c`) | active / TIME_WAIT / listen / bound lists, `tcp_timer_ctr` | `tcp_slowtmr`, `tcp_fasttmr`, `tcp_alloc`, `tcp_pcb_remove` | callbacks change the list under the walk | lists stay well formed; each PCB visited once |
| pbufs, pools (`pbuf.c`, `memp.c`) | chains, reference counts, pools | alloc, free, ref, cat, chain, dechain, realloc, header, split, copy, take | shared chains, a pool that runs dry, `u16_t` lengths | counts and lengths exact, no leak, the right bytes |
| Timeouts (`timers.c`) | delta list, `tcpip_tcp_timer_active` | `sys_timeout`, `sys_untimeout`, `sys_timeouts_mbox_fetch` | handlers that re-arm, time spent in fetches | due times exact, TCP timer on while needed |
| OS layer (`sys_arch.c`) | mailbox ring, semaphores | post, trypost, fetch | threads | a bounded FIFO without lost wake-ups |
| rudp descriptors (`rudp.c`) | `rudp_fd`, `is_closing` | `rudp_send`, `rudp_close`, callbacks | close that fails and is retried | no use of a freed PCB |

Components interact by direct calls. The two halves of a PCB share `tcp_receive`
(an incoming segment first updates the send half, then the receive half) and
`tcp_output` (which sends ACKs for the receive half). The PCB lists own the PCBs
and drive both halves' timers; registering the first PCB starts the TCP timer in the
timeout list. Segments hold pbufs; an empty pbuf pool makes the stack give up an
`ooseq` queue. In the threaded build other threads reach the stack only by its
mailbox, and timeouts fire inside the fetch.

## Modules

| Module | What it is |
|---|---|
| `TcpSeq` | u32 arithmetic and comparisons over a space of `2 * Half` numbers |
| `TcpSeqTheorems` | they order like stream positions (proved) |
| `TcpReceive` | the receive half of one PCB, its actions and properties |
| `TcpReceiveInv` | its inductive invariant `IInv` |
| `TcpReceiveLemmas`, `TcpReceiveProof` | proof that `IInv` is inductive and implies the properties |
| `TcpSend` | the send half of one PCB, its actions and properties |
| `TcpSendProof` | its inductive invariant, and proof that it implies the properties |
| `ReliableStream` | abstract: what one direction of a connection promises |
| `TcpTransfer` | composes `TcpSend` and `TcpReceive` over a lossy network; implements `ReliableStream` |
| `TcpConn` | connections between two hosts, from SYN to TIME_WAIT |
| `TcpConnProof` | its inductive invariant, and proof that it implies the properties |
| `TcpPcbs` | the PCBs of one host, the lists that hold them, the timer walks, and `tcp_input` with its callbacks |
| `TcpPcbsProof` | its inductive invariant, and proof that it implies the properties |
| `Pbuf` | pbuf chains, reference counts, the pools |
| `PbufProof` | its inductive invariant, and proof that it implies the properties |
| `PbufData` | the functions of `pbuf.c` that read and write the bytes of a chain, as operators |
| `BoundedFifo` | abstract: what a mailbox promises |
| `Mailbox` | the mailbox, step by step; implements `BoundedFifo` |
| `Timeouts` | the timeout list and the TCP timer's switch |
| `Tcpip` | the stack's thread: composes `Mailbox` and `Timeouts` |
| `TcpipProof` | proofs about both: lock, ring, wake-ups, the step simulation of `BoundedFifo`, the timeout list |
| `MCReceive`, `MCSend`, `MCTransfer`, `MCConn`, `MCPcbs`, `MCPbuf`, `MCTcpip` | the modules TLC runs |

**TcpReceive.** The peer sends `N` bytes and a FIN. A segment is its header
(`seqno`, `fin`, `syn`) and a payload, the bytes `off+1 .. off+len`; the code looks at
`seqno` and `len` only, the properties at what `off` says was really delivered, so
a cut that moves one without the other shows. `tcp_input` is one action per stage
(`pc`): refused data, `tcp_process`, the in-sequence part of `tcp_receive`, the loop
over `ooseq`, the recv callback, the end-of-stream callback, `tcp_output`. The stages
are separate because callbacks run between them. Sending an ACK can fail in two
ways: no buffer, or an error of the socket after the header was built.

**TcpSend.** Byte `n` written has number `ISS + n - 1`. A queued segment is `seqno`,
`len`, `fin` and its number of pbufs. `tcp_output`'s loop is one action per segment;
`tcp_receive` applies a whole ACK in one action (window update, duplicate-ACK
counting or new-ACK processing, removal from both queues, state change, sent
report). How an ACK's segment compares with `snd_wl1` is its `age`. `rtime` and the
persist timer are Booleans: that a timer runs matters, when it fires is any time.
The peer acknowledges anything that has left, in any order, and by `TcpReceive`'s
`RightEdgeNeverRetracts` never takes its window back: what acknowledges more has no lower
right edge. It may send data and a FIN itself (`PeerSends`), and then an ACK of any
content comes with a segment of any `age`: a retransmission has an old `seqno` and, since
`tcp_output_segment` fills the header in anew, the newest `ackno` and window. `misplaced`
is a history variable: bytes or the FIN were put on a segment that is not the end of the
stream (see the disagreements); from then on a queued segment no longer says which bytes it holds.

`tcp_process` returns before `tcp_receive` on a SYN or a bad reset (`InputStray`,
where `StraySegments` lets such segments arrive).

**TcpPcbs.** A pool `PCBS`, the state of each PCB, the active list as a sequence, the
TIME_WAIT and bound lists as sets. A handler that runs a callback is cut there: `pc`
names the callback, and while it runs the API actions are enabled, as far as
`Allowed` lists the pair of callback and call. So a callback closes, aborts, opens
and kills connections under `tcp_slowtmr`, `tcp_fasttmr` or `tcp_input`, which then go on
with the pointers `pcb`, `prev` and `cur` they kept. What a segment brings is a set of
events (`ACKED`, `DATA`, `FIN`, `CLOSED`), which PCBs are due a choice. `owned` is what the
application may still use: it drops a handle when it closes or aborts, in the error
callback, and, as the comments in `tcp.h` and `tcp.c` ask, when a PCB is shut down both
ways. `freed` is what has been freed since the callback was called.

**TcpTransfer.** `S == INSTANCE TcpSend` and `R == INSTANCE TcpReceive`, each with
variables of its own, and two sets of messages under way. A segment that leaves in
`S!OutputSegment` is what `R!tcp_input` takes later; the ACK that leaves in a step of
`R` is what `S!tcp_receive` takes. What does not fit in a set is lost, `Lose` drops
anything, order is arbitrary, and copies come from retransmission. One handler runs
at a time on each side (`Quiet`). The refinement mapping to `ReliableStream`: `closed` is
the sender's FIN flag, `arrived` the bytes delivered or about to be, `ended` the end of
stream, `givenUp` the removal of the sender's PCB, or a failed assertion of the receiver,
which stops the program (see the disagreements).

**TcpConn.** A host has a set of PCBs (active and TIME_WAIT), a segment a connection id
`(c1, c2)`, flags and numbers, and no data. `tcp_input` is one action per kind of match
(active PCB by state, TIME_WAIT PCB, listener, nothing). A tick of the model is one
retransmission time-out; the other time-outs are counted in ticks, and `tcp_slowtmr`
serves all PCBs of a host in one step (`TcpPcbs` has the walk itself). The server may
die (`Crash`). `made` and `closed` record what applications were told and did.
Left out: `tcp_shutdown`, data, fast retransmission of a FIN, the back-off of the RTO.

**Pbuf.** `mem` maps each used pbuf to its record (next, len, tot_len, ref, room in front,
type), `held` counts the references that callers hold, `ooseq` is the queue a PCB
holds. An action is one whole function of `pbuf.c`; callers change a packet only
through its first pbuf. `U16` is the size of the `u16_t` space, so sums that would wrap do. `PbufData` gives each
chain symbolic bytes and compares each copying function, for every offset and length, with the
plain sequence definition of what it should move (`DataExact`).

**Mailbox.** One action per step between two points where another thread can run: the
lock, the test and wait, the wake-up, the second lock, the store, the signal, the
unlock. A semaphore is its count. `first` and `last` of the ring are kept as they are, as growing
counters (bounded by `MaxPosts`). The messages from `first` to `last` are the queue of
`BoundedFifo`.

**Timeouts, Tcpip.** `next_timeout` is the list of handlers and differences.
`Tcpip`'s fetcher loops as `sys_timeouts_mbox_fetch` does: wait for the first
difference, fire it or take what was waited off it, process the message. `left` is
the time really left of each timeout, `owed` the time left had no time passed but
what the list was told of.

## Runs

| Run | Result | States | Shows |
|---|---|---|---|
| `receive` | pass | 237,018 | delivery, end of stream, kept bytes, window accounting, ooseq order, edge, the inductive invariant, and that only a FIN just past a full window trips an assertion (`OnlyFinTripsAssert`) |
| `receive_ack` | pass | 13,258 | with working sends an ACK is always scheduled |
| `send` | pass | 239,187 | with a peer that sends data: `QueuesSound` (the queues hold the unacknowledged stream, each byte once, FIN last), `AccountsExact` (buffer, sent reports), spare bytes |
| `send_errors` | pass | 306,560 | the timer runs and `QueuesSound` holds with failing sends, stray segments and a peer that sends data |
| `transfer` | pass | 218,686 | each half is the peer the other assumes, and nothing is sent past the announced window (`PeerOfReceiver`, `PeerOfSender`); together they implement `ReliableStream`, liveness included |
| `conn` | pass | 93,947 | ends agree on numbers, no ghost of a copied SYN is accepted, end of stream and resets are honest, everything closed or bereft of its peer ends (`AllEnd`) |
| `pcbs` | pass | 644,354 | two PCBs, all calls: lists hold every PCB once (`ListsHold`), no dangling handle or pointer |
| `pcbs_timers` | pass | 433,480 | three PCBs: each walk serves every connection once, across restarts |
| `pbuf` | pass | 82,924 | counts, lengths, leaks, the bytes of packets that are cut or joined (`PacketsKept`) and of copies |
| `tcpip` | pass | 75,116 | mailbox implements `BoundedFifo`, also where two messages share a signal, posters get through, timeout list exact, TCP timer served |
| `send_closed` | violation | | connection closes with data and FIN unsent |
| `conn_reset` | violation | | a segment without a PCB is answered from a NULL pointer |

`OthersKept` of `Pbuf` (no operation changes the bytes behind a pbuf of another holder) is a
theorem; to evaluate it at every step of `pbuf` takes TLC too long for a regular run, and
`MCPbuf` / `MCPbufShared.cfg` checks it with other bounds (pass, 5,888 states).

### Disagreements between code and comments

Two are runs (`send_closed`, `conn_reset`). The others have a configuration of their own, which is not
part of the regular runs; TLC finds each in seconds:

| Configuration | Property | What happens |
|---|---|---|
| `MCSend` / `MCSendWhole.cfg` | `SentWhole` | a second write chained to a waiting segment never reaches the wire, since `ip_output_if` sends the first pbuf only |
| `MCSend` / `MCSendStall.cfg` | `NeverStalled` | data that waits for a small, nonzero window has no timer |
| `MCSend` / `MCSendAcked.cfg` | `ReportedExactly` | a SYN or bad reset makes the bytes of the last ACK be reported again |
| `MCSend` / `MCSendWindow.cfg` | `SentWithinWindow` | a peer's retransmission (old `seqno`, new `ackno`) moves `lastack` but not `snd_wnd`, so bytes leave past the announced right edge |
| `MCSend` / `MCSendMisplaced.cfg` | `NothingMisplaced` | bytes or the FIN are put on a retransmitted segment from the middle of the stream, which is the last of `unsent` |
| `MCPcbs` / `MCPcbsAssert.cfg` | `NoAssertFails` | a restarted walk takes a PCB behind a skipped one for the head of the list |
| `MCPcbs` / `MCPcbsLeak.cfg` | `NoPcbLost` | `tcp_close` with unread data in the end-of-stream callback leaks the PCB |
| `MCPcbs` / `MCPcbsWrap.cfg` | `NoPcbLost` | a PCB connected long after `tcp_new` is skipped as already processed, and unlinked with the PCB behind it |
| `MCTransfer` / `MCTransferAssert.cfg` | `AssertsHold` | a FIN one past the window waits in `ooseq` and trips `ooseq tcplen > rcv_wnd` when the gap closes |

### Remarks

Met while modelling, not turned into runs:

- TCP: for `NothingMisplaced` to fail, a fast retransmission must stay on `unsent` while
  its successors are in `unacked`: its send failed, or the segment no longer fits the window.
  The latter takes segments of the peer that move `lastack` or `snd_wnd` alone, so a peer that sends data;
  with a silent peer and working sends `NothingMisplaced` holds on the bounds of `MCSend.cfg`.
  It takes segments with room left, so an `MSS` of one does not show it.
  An ACK whose send fails inside `tcp_fasttmr` loses the flags that
  should retry it (`tcp.c:1166`). A fast retransmission can step `nrtx` over the limit
  `tcp_slowtmr` compares with `==` (`tcp.c:921`); then `tcp_backoff` is read past its end
  (`tcp.c:955`) until the counter wraps (`NrtxWidth`). A FIN put on the last unsent segment takes no buffer but gives a byte back
  (`tcp_out.c:146`). `tcp_rexmit_rto` forbids a round-trip measurement that
  `tcp_output` then starts (`tcp_out.c:1168`).
- Connections: a SYN carries 0 as its second id, so a copy never matches a PCB in
  SYN_RCVD: the branch for it (`tcp_in.c:769`) is dead, and each copy makes a half-open PCB
  of its own, which `SYN_RCVD_TIMEOUT` removes. The reset sent from SYN_SENT carries `(port, 0)` and matches
  nothing, though the comment at `tcp_in.c:718` wants it to bring the other side down. `tcp_new_server_id` returns the id after the
  one it checked (`tcp.c:746`).
- pbufs: `pbuf_copy` and `pbuf_coalesce` take a chain whose tail is an empty pbuf for a packet queue (`LooksLikeQueue`) and refuse it;
  `pbuf_take` returns `ERR_ARG` where its comment says `ERR_MEM`; rudp never calls
  `PBUF_CHECK_FREE_OOSEQ`, so `pbuf_free_ooseq` is pending for ever there.
- Threads: two fetchers of one mailbox could lose a wake-up (there is one), and a timeout
  of 0 ms that re-arms itself starves the mailbox (excluded by an assumption). With `NO_SYS = 1` `sys_timeout` compares and
  subtracts `msecs` while it stores `msecs + diff`, so a later entry is due `diff` late.
- rudp: `on_recv` never frees the pbuf it is given, though its comment says "it must
  free the pbuf" (`rudp.c:259`); `rudp_free` (`rudp.c:519`) and `rudp_error` (`rudp.c:422`) write callbacks
  into a PCB that may be freed already; `is_closing` is not initialised.

### Bounds

`Half = 16` and an initial number of 30 make numbers wrap inside every
stream. The receive runs use six bytes, segments of two and a window of four: more
data than window, several holes in `ooseq`, and cuts on both sides. The send runs
have two-byte segments, a queue of four and a peer that sends data, so ACKs of any age.
`send` writes three bytes by one and three (a segment with room left, and one write of two
segments) with a buffer of three and peer windows 0 and 4, closed and whole; `cwnd` wraps
(`MaxWnd = 5`). `send_errors` writes two bytes by one and two, as failing sends multiply the
queue's shapes. `TCP_MAXRTX = 1` and an `NrtxWidth` of two
replace 12 and 256: the counter passes the limit and wraps. `MaxWritten` bounds the stream.
Configurations of the disagreements write up to five bytes and have more windows.

`transfer` writes three one-byte segments and a FIN into a window of two, with two
segments and one ACK under way: the window closes and reopens, probes are sent, and
segments overtake each other and are lost at every place.

`conn` has one `tcp_connect` whose SYN is retransmitted once, so that two half-open PCBs
compete, and two segments under way. The initial numbers are equal (`IssSteps = {0}`), so
only ids tell the two apart. The time-outs are one tick, `KEEP_IDLE` 0: each of them strikes before,
between and after the others' segments.

The PCB runs use a pool of two and of three, so that allocation has to kill and a
walk has a middle. `CtrMod = 2` replaces the 256 values of `tcp_timer_ctr`: two values
tell this tick from the last one, and the counter wraps in every second tick. PCBs
are symmetric. `SafeCalls` is every call from everywhere except those `TcpPcbs` lists as
`Unsafe`; with each of them the properties fail, and they are the
limits of what the stack survives: `tcp_new` in a callback of `tcp_input` may kill the
PCB that `tcp_input` works on (`PointersValid`); `tcp_close` with unread data in the
callbacks of received data or end of stream leaks the PCB or leaves it freed under
the handler (`NoPcbLost`, `PointersValid`); data refused in a closing state, and the end of
stream with it, is dropped with the PCB in TIME_WAIT, and the PCB is freed without a
word to its owner (`HandlesValid`); and a PCB connected in a later tick than `tcp_new`
(`connect_old`) comes to the front of the list with an old stamp, so that the next
removal may unlink PCBs between it and `prev` as well (`NoPcbLost`, with three PCBs;
`MCPcbsWrap.cfg`). Between two PCBs nothing can be skipped, and `pcbs` (`PairCalls`) allows that
too, except in callbacks of the timers. `pcbs_timers` uses `FewCalls`, the calls
that change the active list. `pcbs_timers` does not check `NoAssertFails`; where the
assertion fails the run stops, as the program does.

`pbuf` has two pool pbufs of two bytes and one on the heap, requests of one and three bytes, header
room of one and up to two references held by callers: chains of one to three pbufs of mixed
type, a pool that runs dry half way, and with `U16 = 4` sums that wrap, which
`pbuf_split_64k` is about. Pbufs of one pool are symmetric. `MCPbufShared.cfg` has three references
instead of two and no header room, so that callers and a queue share chains of up to three pbufs.

`tcpip` has a ring of three slots, of which two are usable: two messages wait together
and share the signal of the first, and the third post finds the ring full. It has two posters, one with
two messages (two posters asleep at once are left to the theorem `WakeUpsKept`); two handlers beside the TCP timer; and an interval of one and a timeout of two, so
that entries go in front of, behind and between others.

### Fairness

- `TcpTransfer`: a handler runs to its end (WF). The two timers come round (SF, because
  a handler may be running when one is due), and the application processes what it is
  given. Each direction of the network delivers something if it always has something again (SF): without that no
  protocol makes progress. Nobody has to write or close.
- `TcpConn`: only `tcp_slowtmr` of a running host (WF). `AllEnd` holds for a network that
  delivers nothing at all.
- `Tcpip`: a thread that can run does (WF), and one that finds the lock or a slot free
  again and again gets it (SF): `sys_sem_signal` wakes all waiters, and which of them wins is up to the
  scheduler. Nobody has to post.

The other specifications state none; their properties are safety properties.
Deadlock checking is off where the system may stop: a connection that has ended, an
assertion that failed, a stack with nothing to do.

## Proofs

Every theorem below holds for all values of the constants that the named assumptions
allow. Each module has an inductive invariant, TLC has checked it on the module's run
constants, and the proof that a step keeps it has one step per action.

**Receive half** (`TcpReceiveInv`, `TcpReceiveLemmas`, `TcpReceiveProof`). For every `N`,
`ISN`, `TCP_MSS`, `TCP_WND`, threshold and kind of send error: `TypeOK`,
`DeliveredPrefix`, `EofAfterAllData`, `AckedBytesKept`, `WindowConserved`,
`OoseqOrdered`, `AnnouncedFits` and `RightEdgeNeverRetracts`. The assumption is
`ReceiveAssumption`: stream and window fit in half the sequence space. None of these is
inductive. `DeliveredPrefix` needs to know that `recv_data`, `refused_data` and every
segment in `ooseq` tell the truth about their payload (`Contents`, `Queue`); that needs
`rcv_nxt` to stand for the number of bytes received (`Numbers`), which needs the FIN to
be counted at one place only (`FinOnce`) and the handler's locals to be empty between
handlers (`Control`). Their conjunction is `IInv`. `TcpSeqTheorems` turns the wrapping
comparisons into comparisons of positions once, `TcpReceiveLemmas` states what each cut
and queue operation preserves.

Two more rest on `IInv` and an invariant of their own. `AckOwed` (`Owing`: what each
stage of the handler still owes) is proved for `SendErrors = {}`; with failing sends it
does not hold (remarks). `OnlyFinTripsAssert` has no hypothesis: whatever fails, and for
every peer that keeps its bytes (not its FIN) within what was announced, an assertion fails only
over a FIN that ends one past the window, which does happen (`MCTransferAssert.cfg`). Its
invariant `Room` says that the bytes of every segment in `ooseq` end at or before `Top`, the right
end of the receive window, which no step moves back: what fits when it is queued still
fits when the gap in front of it closes, but for the FIN.

**Send half** (`TcpSendProof`). `QueuesSound`, `OversizeFits` and `TimerRuns` (`Timed`) have no
hypothesis: sends may fail, stray segments arrive, the peer send data, and any window be announced.
`TypeOK` holds where the congestion window of `tcp_rexmit_fast` fits its type
(`WideWindow`; the shipped `MSS` of 536 and window of ten segments do, `MCSend.cfg` on
purpose does not, so that TLC sees the window wrap), `AccountsExact` where no
stray segment arrives (else it does not: `MCSendAcked.cfg`). The invariant does not look at
the order of the queues, as a retransmitted segment may stay anywhere on `unsent`, and
uses no window. It says that the queued segments, in any order, tile the stream from `lastack`
to its end (`Tiles`: none overlaps another, none is missing), as long as nothing is `misplaced`.
Output and retransmission only move segments between places; an ACK drops those that end
before the new `lastack`; `tcp_write` and `tcp_send_fin` lengthen the stream at its end,
or set `misplaced`. What holds even then is that a FIN that has been sent is still queued until
it is acknowledged (`Holds`), which keeps `lastack` and `snd_buf` in range. `unacked` is in
order (`Ascending`), which makes the removal by `tcp_receive` stop at the right place.

**Connections** (`TcpConnProof`). For any time-outs, any number of connections and segments
under way: `TypeOK`, `Agreed`, `NoGhostAccept`, `EofHonest` and the action
property `ResetHonest`, from `ConnAssumption`. The invariant says of each PCB and each
segment under way what must be true at the other host (`PairsOK`, `NetOK`), that segments
under way do not contradict each other (`TwinsOK`) and ids are not given twice (`IdsUnique`).
A step changes the PCBs of one host and sends segments; lemma `HostStep` reduces the
invariant to three facts about such a step, which each action then shows. By-products: the
ACK that a half-open PCB gets is always new, and no SYN lies in the window of
a TIME_WAIT PCB.

**Mailbox and timeouts** (`TcpipProof`). For any number of posters, messages and slots:
one holder of the lock and a bounded ring (`MailboxExclusive`), no sleeper without a
wake-up on the way (`WakeUpsKept`), and the step simulation of `BoundedFifo`
(`MailboxIsFifo`, the safety half of `IsFifo`). For any handlers and times:
`ListExact`. Its assumptions are `MailboxAssumption`, `TimeoutsAssumption` and
`MsecsBounded` (there is a longest timeout: `msecs` is a `u32_t`). The sums along the
timeout list are a recursive function; what insertion, removal and waiting do to them is shown
with well-founded induction in its set form (a least counterexample).

**PCB lists** (`TcpPcbsProof`). For any pool, any range of `tcp_timer_ctr` of at least two
values (`PcbsAssumption`) and any application that keeps the rules (`Rules`: `Allowed` is
part of `SafeCalls`): `ListsHold`, `HandlesValid`, `PointersValid`, `AllServed` and
`VisitedOnce`. `NoAssertFails` does not hold (`MCPcbsAssert.cfg`); that the lists hold
does not rest on it, only on the walk stopping there. The heart of the
invariant is the order of the active list: PCBs with the stamp of the current tick come
before the others (`Ordered`). New PCBs go to the front with that stamp, and the walk
stamps from the front. So a walk that has set `prev` meets no PCB to skip, `prev` is the
predecessor of `pcb` (`Walk`), and what `tcp_slowtmr` unlinks is that one PCB
(`UnlinkFacts`). Between ticks every PCB in the list has the current stamp (`Timed`), which is
why a PCB connected in a later tick than allocated breaks the order; the attempt
to prove it brought up `MCPcbsWrap.cfg`. For `tcp_input` the invariant says at each stage
what is known of its PCB (`CurOK`), and names the one PCB that may be allocated and in no
list: closed with unread data in the `sent` callback, to be freed a step later (`Doomed`).

**Pbufs** (`PbufProof`). For pools of any size, any lengths and any number of holders:
`TypeOK`, `RefsExact`, `TotLenExact`, `NothingLeaks`, and the action properties `PacketsKept`
and `OthersKept`, from `PbufAssumption` and `NullAssumption` (NULL is not a pbuf). The
invariant `Good` is about a memory, the references of callers, the queues, and one pbuf
`x` whose count is one too high: an operation writes an intermediate memory in which
the last pointer to `x` is gone but still counted, and then frees the chain of `x`. Between
operations `x` is NULL. Its parts are `Shape` (a pbuf has at most one pbuf in front of it, and there is no
cycle, said without paths: every set of pbufs that is not empty has one whose `next` is not in
the set), `Totals` and `Counts`. The heart is `FreeKeeps`: `pbuf_free` of `x`, which
frees some pbufs of the chain and takes one from the count of the next, makes all counts exact
again. It needs that a pbuf freed on the way was pointed to by the one before it only.
`NothingLeaks` follows: a pbuf in use without a holder has a pbuf in front of it, and without
a cycle going back ends at one that has. For the bytes, `Apart` says what a step leaves
as it was outside a set of pbufs, and that no other pbuf is in front of one of that set; by
`PacketApart` that is so for the chain of a packet whose first pbuf nobody points to.
`BytesIn` sums the bytes along a chain, and well-founded induction in its set
form shows what cutting and joining chains does to them.

**Only model-checked.** `SentWithinWindow` is part of `PeerOfReceiver`: it is false for a peer
that sends data, and holds where every ACK is empty, which `transfer` shows. `TcpTransfer`'s `PeerOfReceiver` and `PeerOfSender`, and the safety half of `IsReliableStream`:
they would follow from the theorems about the two halves, but the prover does not offer the
theorems of a module that is instantiated, and the two modules, which share the
names of most operators, cannot both be extended. Liveness (`IsReliableStream`, the liveness half of `IsFifo`, `PosterServed`,
`TcpTimerServed`, `AllEnd`) is out of the prover's reach. `DataExact` compares recursive
operators with sequence definitions, which only TLC can evaluate.

## Plan

One proof is still worth doing: `PeerOfReceiver` and `PeerOfSender` of `TcpTransfer`, once
theorems of an instantiated module can be used.

## Not modelled

RTO values and back-off, urgent data, timestamps, window scaling and
`TCP_OOSEQ_MAX_*` (the last three are off in this configuration); header layout and
checksums; statistics, debug output, start-up checks. Of `pbuf.c`: custom pbufs,
`pbuf_fill_chksum`, `pbuf_memcmp`, `pbuf_memfind`, `pbuf_strstr`. Of `timers.c`:
`sys_check_timeouts` (`NO_SYS = 1`; the shipped event loop calls `tcp_tmr` itself) and a
pool of timeouts that runs dry, which is an assertion. Of `sys_arch.c`: `sys_mbox_free`,
`tryfetch`, the protection mutex, the clock. Of `memp.c`: the layout of the free lists.
The rudp descriptors and the demo programs: the descriptor layer breaks the rules the
stack sets for applications (remarks), so the properties that would be worth stating
about it are those of `TcpPcbs`.
