------------------------------ MODULE Timeouts ------------------------------
(***************************************************************************)
(* The timeout list of timers.c, as built with an operating system (NO_SYS *)
(* = 0): a list sorted by due time in which each entry holds the time that *)
(* remains after the entry before it.                                      *)
(***************************************************************************)
EXTENDS Naturals, Sequences

CONSTANTS
  Handlers,            \* handlers of one-shot timeouts
  TCP_TMR_INTERVAL,
  Msecs                \* times passed to sys_timeout; a handler that sets itself
                       \* again for 0 ms would keep the thread from its mailbox

ASSUME TimeoutsAssumption ==
  /\ "tcp" \notin Handlers
  /\ TCP_TMR_INTERVAL \in Nat \ {0}
  /\ Msecs \subseteq Nat \ {0}

VARIABLES
  next_timeout,             \* the list
  tcpip_tcp_timer_active,
  pcbs                      \* tcp_active_pcbs || tcp_tw_pcbs

timeoutVars == <<next_timeout, tcpip_tcp_timer_active, pcbs>>

\* Time until entry k of list q is due.
Due(q, k) ==
  LET sum[i \in 0 .. k] == IF i = 0 THEN 0 ELSE sum[i - 1] + q[i].time
  IN  sum[k]

\* The new entry goes behind the first k entries of q.
GoesBehind(q, msecs, k) ==
  /\ \A i \in 1 .. k : Due(q, i) <= msecs
  /\ k < Len(q) => Due(q, k + 1) > msecs

\* Mutant: the entry behind the new one keeps its time.
InsertOnly(q, e, k) == SubSeq(q, 1, k) \o <<e>> \o SubSeq(q, k + 1, Len(q))

\* The entry behind the new one waits that much less after it.
InsertBehind(q, e, k) ==
  SubSeq(q, 1, k) \o <<e>> \o
    [i \in 1 .. Len(q) - k |->
       IF i = 1 THEN [q[k + 1] EXCEPT !.time = @ - e.time] ELSE q[k + i]]

sys_timeout(q, h, msecs) ==
  LET k == CHOOSE j \in 0 .. Len(q) : GoesBehind(q, msecs, j)
  IN  InsertBehind(q, [h |-> h, time |-> msecs - Due(q, k)], k)

\* Entry k goes; the one behind it gets its time.
RemoveEntry(q, k) ==
  SubSeq(q, 1, k - 1) \o
    [i \in 1 .. Len(q) - k |->
       IF i = 1 THEN [q[k + 1] EXCEPT !.time = @ + q[k].time] ELSE q[k + i]]

\* The first entry of h goes, if there is one.
sys_untimeout(q, h) ==
  IF \E k \in 1 .. Len(q) : q[k].h = h
    THEN RemoveEntry(q, CHOOSE k \in 1 .. Len(q) :
                          q[k].h = h /\ \A j \in 1 .. k - 1 : q[j].h # h)
    ELSE q

Armed(h) == \E k \in 1 .. Len(next_timeout) : next_timeout[k].h = h

\* Mutant: a timer that has just stopped is not started.
NeedsTimerLate(active) == FALSE

NeedsTimer(active) == ~active

\* TCP_REG and tcp_timer_needed: a PCB is registered, the timer started.
tcp_timer_needed ==
  /\ pcbs' = TRUE
  /\ tcpip_tcp_timer_active' = (tcpip_tcp_timer_active \/ NeedsTimer(tcpip_tcp_timer_active))
  /\ next_timeout' = IF NeedsTimer(tcpip_tcp_timer_active)
                       THEN sys_timeout(next_timeout, "tcp", TCP_TMR_INTERVAL)
                       ELSE next_timeout

\* tcpip_tcp_timer: tcp_tmr may remove the last PCB (left is FALSE); the timer
\* goes on while there is one.
tcpip_tcp_timer(left) ==
  /\ pcbs' = (pcbs /\ left)
  /\ tcpip_tcp_timer_active' = pcbs'
  /\ next_timeout' = IF pcbs' THEN sys_timeout(next_timeout, "tcp", TCP_TMR_INTERVAL)
                     ELSE next_timeout

TimeoutsInit ==
  /\ next_timeout = <<>>
  /\ tcpip_tcp_timer_active = FALSE
  /\ pcbs = FALSE
=============================================================================
