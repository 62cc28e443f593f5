------------------------------- MODULE Tcpip --------------------------------
(***************************************************************************)
(* The thread that runs the stack when there is an operating system: it    *)
(* calls sys_timeouts_mbox_fetch, which waits on a Mailbox no longer than  *)
(* the first of the Timeouts allows, and then acts on the message.  What a *)
(* message makes the stack do is one call that matters here: set or clear  *)
(* a timeout, register or remove a PCB, or nothing.                        *)
(***************************************************************************)
EXTENDS Mailbox, Timeouts

VARIABLES
  left,     \* time until each timeout that is set is really due
  owed      \* the same, had no time passed but what the list was told of

clockVars == <<left, owed>>
allVars == <<vars, timeoutVars, clockVars>>

NotSet == 0

\* Times are u32_t: one of them is the longest.
ASSUME MsecsBounded ==
  \E m \in Msecs \cup {TCP_TMR_INTERVAL} :
    \A n \in Msecs \cup {TCP_TMR_INTERVAL} : n <= m

MaxMs == CHOOSE m \in Msecs \cup {TCP_TMR_INTERVAL} :
           \A n \in Msecs \cup {TCP_TMR_INTERVAL} : n <= m

\* d milliseconds pass on clock c.
Pass(c, d) == [h \in DOMAIN c |-> IF c[h] > d THEN c[h] - d ELSE 0]

\* Timeout h is set on both clocks, or taken off them.
Set(h, msecs) ==
  /\ left' = [left EXCEPT ![h] = msecs]
  /\ owed' = [owed EXCEPT ![h] = msecs]

-----------------------------------------------------------------------------
(***************************************************************************)
(* sys_timeouts_mbox_fetch.                                                *)
(***************************************************************************)
Again ==
  /\ At(Fetcher, "idle")
  /\ IF next_timeout # <<>> /\ next_timeout[1].time = 0
       THEN Go(Fetcher, "timeout") /\ UNCHANGED <<mboxVars, call, posted, got>>
       ELSE StartFetch(next_timeout # <<>>)
  /\ UNCHANGED <<timeoutVars, clockVars>>

FetchStep ==
  /\ Fetch
  /\ UNCHANGED <<timeoutVars, clockVars>>

\* The first timeout has expired: it leaves the list and its handler runs.
FireTimeout ==
  /\ At(Fetcher, "timeout")
  /\ next_timeout' = Tail(next_timeout)
  /\ left' = Pass(left, next_timeout[1].time)
  /\ owed' = Pass(owed, next_timeout[1].time)
  /\ Go(Fetcher, IF next_timeout[1].h = "tcp" THEN "tcp_tmr" ELSE "process")
  /\ UNCHANGED <<mboxVars, call, posted, got, tcpip_tcp_timer_active, pcbs>>

RunTcpTimer ==
  /\ At(Fetcher, "tcp_tmr")
  /\ \E more \in BOOLEAN : tcpip_tcp_timer(more)
  /\ Set("tcp", IF pcbs' THEN TCP_TMR_INTERVAL ELSE NotSet)
  /\ Go(Fetcher, "idle")
  /\ UNCHANGED <<mboxVars, call, posted, got>>

Remaining(time, waited) == IF waited < time THEN time - waited ELSE 0

\* A message came first: what was waited for it is taken off the first timeout.
\* That is the time of the last wait only; more may have passed.
MessageFetched ==
  /\ At(Fetcher, "fetched")
  /\ IF call[Fetcher] = "timed"
       THEN \E waited \in 0 .. MaxMs : \E more \in 0 .. 1 :
              /\ next_timeout' =
                   [next_timeout EXCEPT ![1].time = Remaining(@, waited)]
              /\ left' = Pass(left, waited + more)
              /\ owed' = Pass(owed, IF waited < next_timeout[1].time
                                      THEN waited ELSE next_timeout[1].time)
       ELSE UNCHANGED <<next_timeout, clockVars>>
  /\ Go(Fetcher, "process")
  /\ UNCHANGED <<mboxVars, call, posted, got, tcpip_tcp_timer_active, pcbs>>

-----------------------------------------------------------------------------
(***************************************************************************)
(* The message, or a handler other than the TCP timer's.                   *)
(***************************************************************************)
Process(act) ==
  /\ At(Fetcher, "process")
  /\ act
  /\ Go(Fetcher, "idle")
  /\ UNCHANGED <<mboxVars, call, posted, got>>

SetTimeout(h, msecs) ==
  /\ ~Armed(h)
  /\ next_timeout' = sys_timeout(next_timeout, h, msecs)
  /\ Set(h, msecs)
  /\ UNCHANGED <<tcpip_tcp_timer_active, pcbs>>

ClearTimeout(h) ==
  /\ next_timeout' = sys_untimeout(next_timeout, h)
  /\ Set(h, NotSet)
  /\ UNCHANGED <<tcpip_tcp_timer_active, pcbs>>

RegisterPcb ==
  /\ tcp_timer_needed
  /\ IF tcpip_tcp_timer_active THEN UNCHANGED clockVars
     ELSE Set("tcp", TCP_TMR_INTERVAL)

\* TCP_RMV of the last PCB: the timer runs once more and finds none.
RemovePcb ==
  /\ pcbs' = FALSE
  /\ UNCHANGED <<next_timeout, tcpip_tcp_timer_active, clockVars>>

ProcessMessage ==
  \/ \E h \in Handlers :
       \/ \E msecs \in Msecs : Process(SetTimeout(h, msecs))
       \/ Process(ClearTimeout(h))
  \/ Process(RegisterPcb)
  \/ Process(RemovePcb)
  \/ Process(UNCHANGED <<timeoutVars, clockVars>>)

PosterStep(t) ==
  /\ Post(t)
  /\ UNCHANGED <<timeoutVars, clockVars>>

PosterStarts ==
  /\ \E t \in Posters, blocking \in BOOLEAN : StartPost(t, blocking)
  /\ UNCHANGED <<timeoutVars, clockVars>>

FetcherStep ==
  \/ Again \/ FetchStep \/ FireTimeout \/ RunTcpTimer \/ MessageFetched
  \/ ProcessMessage

Init ==
  /\ MboxInit
  /\ TimeoutsInit
  /\ left = [h \in Handlers \cup {"tcp"} |-> NotSet]
  /\ owed = left

Next ==
  \/ FetcherStep
  \/ PosterStarts
  \/ \E t \in Posters : PosterStep(t)

(***************************************************************************)
(* Every thread that can go on does, also one that finds the mutex or a    *)
(* free slot again and again but not all the time: sys_sem_signal wakes    *)
(* all who wait, and the scheduler lets each of them win sometimes.  Timed *)
(* waits end.  Nobody has to post.                                         *)
(***************************************************************************)
Fairness ==
  /\ WF_allVars(FetcherStep)
  /\ SF_allVars(FetchLock /\ UNCHANGED <<timeoutVars, clockVars>>)
  /\ \A t \in Posters : /\ WF_allVars(PosterStep(t))
                        /\ SF_allVars((PostLock(t) \/ PostWoken(t) \/ PostRelock(t))
                                        /\ UNCHANGED <<timeoutVars, clockVars>>)

Spec == Init /\ [][Next]_allVars /\ Fairness

-----------------------------------------------------------------------------
(***************************************************************************)
(* Properties.                                                             *)
(***************************************************************************)
\* No timeout fires early: whatever was set, cleared and fetched in between,
\* the list never has an entry due before it really is.
NeverEarly ==
  \A k \in 1 .. Len(next_timeout) :
    Due(next_timeout, k) >= left[next_timeout[k].h]

\* Setting and clearing timeouts in any order keeps the differences right: an
\* entry is due when the time it was set for has been taken off, no later.
DeltasExact ==
  \A k \in 1 .. Len(next_timeout) :
    Due(next_timeout, k) = owed[next_timeout[k].h]

Entries(h) == {k \in 1 .. Len(next_timeout) : next_timeout[k].h = h}

\* The TCP timer is in the list once while tcpip_tcp_timer_active is set (or
\* its handler is running), never otherwise, and it is set while there are
\* PCBs: no PCB is left without a timer and no timer is started twice.
TcpTimerArmed ==
  /\ Cardinality(Entries("tcp")) +
       (IF At(Fetcher, "tcp_tmr") THEN 1 ELSE 0) =
     (IF tcpip_tcp_timer_active THEN 1 ELSE 0)
  /\ pcbs => tcpip_tcp_timer_active

\* The timeout list is right: nothing in it is due early or late, and the TCP
\* timer is in it exactly when timers.c thinks so.
ListExact == NeverEarly /\ DeltasExact /\ TcpTimerArmed

\* While there is a PCB, tcp_tmr is called again, whatever the mailbox brings.
TcpTimerServed == pcbs ~> (At(Fetcher, "tcp_tmr") \/ ~pcbs)
=============================================================================
