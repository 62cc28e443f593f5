------------------------------ MODULE TcpPcbs -------------------------------
(***************************************************************************)
(* The PCBs of the stack and the lists that hold them: allocation and      *)
(* closing in tcp.c, the walks of tcp_slowtmr and tcp_fasttmr over the     *)
(* active list, and tcp_input from the match of a segment with a PCB to    *)
(* its last callback, with the states of tcp_process in tcp_in.c.          *)
(*                                                                         *)
(* The stack is single-threaded, but it runs callbacks in the middle of    *)
(* tcp_input and of the timer walks, and a callback may call the API: it   *)
(* changes the lists under a walk and frees PCBs a handler still uses.  pc *)
(* is "main" between handlers, the name of the callback that is running,   *)
(* or the place where a handler goes on.  Allowed says which API calls     *)
(* each callback makes.                                                    *)
(*                                                                         *)
(* Segments and data are abstracted to what tcp_process and tcp_receive    *)
(* make of them, timeouts to the choice which PCBs are due.  Every PCB has *)
(* TCP_PRIO_NORMAL, and a listening PCB (not one of PCBS) exists.          *)
(***************************************************************************)
EXTENDS Naturals, SequencesExt

CONSTANTS
  PCBS,      \* the pool MEMP_TCP_PCB
  NULL,      \* no PCB
  CtrMod,    \* size of tcp_timer_ctr's range: 2^8 in the code
  Allowed    \* which calls are made where: pairs <<pc, call>>

ASSUME PcbsAssumption ==
  /\ NULL \notin PCBS
  /\ CtrMod \in Nat \ {0, 1}

VARIABLES
  state,            \* pcb->state, "FREE" for a slot of the pool
  local_port,       \* PCBs with a local port
  rxclosed,         \* PCBs with TF_RXCLOSED
  held,             \* what the PCB holds of the peer's data
  last_timer,       \* pcb->last_timer
  active, tw, bound,  \* tcp_active_pcbs, tcp_tw_pcbs, tcp_bound_pcbs
  tcp_timer_ctr,
  changed,          \* tcp_active_pcbs_changed
  pc,
  handler,          \* the handler that is running
  pcb, prev,        \* the walk's pointers
  cur,              \* the PCB a callback or tcp_input is about
  events,           \* what tcp_input has still to report about cur
  owned,            \* PCBs the application has a handle of
  freed,            \* PCBs freed since the running callback was called
  served            \* PCBs the running timer has visited

pcbVars == <<state, local_port, rxclosed, held, last_timer>>
listVars == <<active, tw, bound, changed>>
walkVars == <<tcp_timer_ctr, pcb, prev, served>>
runVars == <<pc, handler, cur, events>>
vars == <<pcbVars, listVars, walkVars, runVars, owned, freed>>

ActiveStates == {"SYN_SENT", "SYN_RCVD", "ESTABLISHED", "CLOSE_WAIT", "FIN_WAIT_1",
                 "FIN_WAIT_2", "CLOSING", "LAST_ACK"}

InState(S) == {p \in PCBS : state[p] \in S}

SetState(p, s) == [state EXCEPT ![p] = s]

-----------------------------------------------------------------------------
(***************************************************************************)
(* TCP_REG and TCP_RMV on the active list, and its links.                  *)
(***************************************************************************)
First == IF active = <<>> THEN NULL ELSE active[1]

\* pcb->next; TCP_RMV leaves NULL there.
NextOf(p) ==
  IF \E i \in 1 .. Len(active) - 1 : active[i] = p
    THEN active[1 + CHOOSE i \in 1 .. Len(active) - 1 : active[i] = p]
    ELSE NULL

\* TCP_RMV: the list without p, if p is in it.
Without(p) ==
  IF p \in ToSet(active)
    THEN RemoveAt(active, CHOOSE i \in DOMAIN active : active[i] = p)
    ELSE active

\* Mutant: the walk is not told.
RmvActiveSilent(p) == active' = Without(p) /\ UNCHANGED changed

TCP_RMV_ACTIVE(p) == active' = Without(p) /\ changed' = TRUE

TCP_REG_ACTIVE(p) == active' = <<p>> \o active /\ changed' = TRUE

memp_free(p) ==
  /\ state' = SetState(p, "FREE")
  /\ held' = [held EXCEPT ![p] = "none"]
  /\ rxclosed' = rxclosed \ {p}
  /\ local_port' = local_port \ {p}
  /\ last_timer' = [last_timer EXCEPT ![p] = 0]

\* A running callback frees p.
Free(p) ==
  /\ memp_free(p)
  /\ freed' = IF pc = "main" THEN {} ELSE freed \cup {p}

\* Mutant: the application is not told.
TcpEventErrLost(p) == UNCHANGED owned

\* The error callback: the application forgets its handle.
TCP_EVENT_ERR(p) == owned' = owned \ {p}

\* tcp_pcb_purge, off the active list, onto the TIME_WAIT list.
ToTimeWait(p) ==
  /\ TCP_RMV_ACTIVE(p)
  /\ tw' = tw \cup {p}
  /\ state' = SetState(p, "TIME_WAIT")

\* tcp_abandon takes a PCB off the list of its state.
OffLists(p) ==
  /\ IF p \in tw \/ (state[p] = "CLOSED" /\ p \in local_port)
       THEN UNCHANGED <<active, changed>> ELSE TCP_RMV_ACTIVE(p)
  /\ tw' = tw \ {p}
  /\ bound' = bound \ {p}

-----------------------------------------------------------------------------
(***************************************************************************)
(* The API.  The application calls it from its main loop or, as far as     *)
(* Allowed says, from a callback.  A callback that has aborted its own PCB *)
(* returns at once.                                                        *)
(***************************************************************************)
Callbacks == {"poll", "timeout", "refused", "refused_eof", "connected", "accept",
              "sent", "recv", "closed", "reset"}

\* Callbacks of tcp_input and of refused data.
OfInput == Callbacks \ {"poll", "timeout"}

AllCalls == {"new", "bind", "connect", "connect_old", "close", "close_unread", "shutdown_tx",
             "shutdown_rx", "recved", "abort", "refuse", "refuse_closing"}

\* What the stack does not survive.
Unsafe ==
  (({"main"} \cup Callbacks) \X {"connect_old"})
    \cup (OfInput \X {"new"})
    \cup ({"recv", "closed", "refused", "refused_eof"} \X {"close_unread"})
    \cup (Callbacks \X {"refuse_closing"})

\* The calls of an application that keeps the rules.
SafeCalls == (({"main"} \cup Callbacks) \X AllCalls) \ Unsafe

Aborted == pc \in Callbacks /\ "ABRT" \in events

Calls(name) == <<pc, name>> \in Allowed /\ ~Aborted

\* tcp_alloc without a free PCB kills a connection: in TIME_WAIT, LAST_ACK,
\* CLOSING, else any active one (the oldest; ages are not modelled).
Victims ==
  IF tw # {} THEN tw
  ELSE IF InState({"LAST_ACK"}) \cap ToSet(active) # {} THEN InState({"LAST_ACK"}) \cap ToSet(active)
  ELSE IF InState({"CLOSING"}) \cap ToSet(active) # {} THEN InState({"CLOSING"}) \cap ToSet(active)
  ELSE ToSet(active)

\* The PCB p is allocated, after tcp_abandon if it is a victim, in state s.  It
\* is not due before the next tick.
tcp_alloc(p, s) ==
  /\ p \in IF InState({"FREE"}) # {} THEN InState({"FREE"}) ELSE Victims
  /\ tw' = tw \ {p}
  /\ state' = SetState(p, s)
  /\ held' = [held EXCEPT ![p] = "none"]
  /\ rxclosed' = rxclosed \ {p}
  /\ last_timer' = [last_timer EXCEPT ![p] = tcp_timer_ctr]
  /\ freed' = IF pc = "main" \/ state[p] = "FREE" THEN freed ELSE freed \cup {p}

tcp_new ==
  \E p \in PCBS :
    /\ Calls("new")
    /\ tcp_alloc(p, "CLOSED")
    /\ local_port' = local_port \ {p}
    /\ IF p \in ToSet(active) THEN TCP_RMV_ACTIVE(p) ELSE UNCHANGED <<active, changed>>
    /\ owned' = owned \cup {p}
    /\ UNCHANGED <<bound, walkVars, runVars>>

\* The application does not bind a bound PCB again: the code would link it to
\* itself.
tcp_bind(p) ==
  /\ Calls("bind")
  /\ p \in owned \ bound /\ state[p] = "CLOSED"
  /\ local_port' = local_port \cup {p}
  /\ bound' = bound \cup {p}
  /\ UNCHANGED <<state, rxclosed, held, last_timer, active, tw, changed, walkVars,
                 runVars, owned, freed>>

tcp_connect(p) ==
  /\ Calls(IF last_timer[p] = tcp_timer_ctr THEN "connect" ELSE "connect_old")
  /\ p \in owned /\ state[p] = "CLOSED"
  /\ local_port' = local_port \cup {p}
  /\ state' = SetState(p, "SYN_SENT")
  /\ bound' = bound \ {p}
  /\ TCP_REG_ACTIVE(p)
  /\ UNCHANGED <<rxclosed, held, last_timer, tw, walkVars, runVars, owned, freed>>

\* tcp_enqueue_flags finds no memory for the SYN.
ConnectFails(p) ==
  /\ Calls("connect")
  /\ p \in owned /\ state[p] = "CLOSED"
  /\ local_port' = local_port \cup {p}
  /\ UNCHANGED <<state, rxclosed, held, last_timer, listVars, walkVars, runVars,
                 owned, freed>>

(***************************************************************************)
(* tcp_close, and tcp_shutdown of the sending side.                        *)
(***************************************************************************)
Refused(p) == held[p] \in {"refused", "refused_fin"}

\* The window is not whole: unread data, or a FIN that is not yet reported.
Unread(p) ==
  /\ state[p] \in {"ESTABLISHED", "CLOSE_WAIT"}
  /\ held[p] # "none" \/ (p = cur /\ pc \in {"refused", "sent", "recv"} /\ "FIN" \in events)

InTcpInput(p) == handler = "input" /\ p = cur /\ pc # "refused" /\ pc # "refused_eof"

\* Unread data: RST, and TIME_WAIT or, after the peer's FIN, deallocation,
\* which is left to tcp_input if it is at work on the PCB.
CloseUnread(p) ==
  /\ Calls("close_unread")
  /\ p \in owned /\ Unread(p)
  /\ owned' = owned \ {p}
  /\ UNCHANGED <<bound, walkVars, pc, handler, cur>>
  /\ \/ /\ state[p] = "ESTABLISHED"
        /\ ToTimeWait(p)
        /\ rxclosed' = rxclosed \cup {p}
        /\ held' = [held EXCEPT ![p] = "none"]
        /\ UNCHANGED <<local_port, last_timer, freed, events>>
     \/ /\ state[p] = "CLOSE_WAIT"
        /\ TCP_RMV_ACTIVE(p)
        /\ UNCHANGED tw
        /\ IF InTcpInput(p)
             THEN /\ events' = events \cup {"CLOSED"}
                  /\ rxclosed' = rxclosed \cup {p}
                  /\ held' = [held EXCEPT ![p] = "none"]
                  /\ UNCHANGED <<state, local_port, last_timer, freed>>
             ELSE Free(p) /\ UNCHANGED events

\* Mutant: the PCB is taken off its list and forgotten.
CloseFreeForgotten(p) ==
  /\ state' = SetState(p, "CLOSED")
  /\ UNCHANGED <<held, rxclosed, local_port, last_timer, freed>>

\* A PCB without a connection is deallocated.
CloseFree(p) == Free(p)

CloseUnconnected(p) ==
  /\ Calls("close")
  /\ p \in owned
  /\ \/ state[p] = "CLOSED" /\ UNCHANGED <<active, changed>>
     \/ state[p] = "SYN_SENT" /\ TCP_RMV_ACTIVE(p)
  /\ bound' = bound \ {p}
  /\ CloseFree(p)
  /\ owned' = owned \ {p}
  /\ UNCHANGED <<tw, walkVars, runVars>>

AfterFin(p) == IF state[p] = "CLOSE_WAIT" THEN "LAST_ACK" ELSE "FIN_WAIT_1"

SendsFin(p) == state[p] \in {"SYN_RCVD", "ESTABLISHED", "CLOSE_WAIT"}

\* tcp_send_fin may find no memory: then only the receiving side is closed.
CloseConnected(p) ==
  /\ Calls("close")
  /\ p \in owned /\ ~Unread(p)
  /\ state[p] \notin {"CLOSED", "SYN_SENT"}
  /\ rxclosed' = rxclosed \cup {p}
  /\ \/ SendsFin(p) /\ UNCHANGED <<state, owned>>
     \/ /\ state' = IF SendsFin(p) THEN SetState(p, AfterFin(p)) ELSE state
        /\ owned' = owned \ {p}
  /\ UNCHANGED <<local_port, held, last_timer, listVars, walkVars, runVars, freed>>

\* A PCB that is shut down both ways "should not be referenced any more".
ShutdownTx(p) ==
  /\ Calls("shutdown_tx")
  /\ p \in owned /\ SendsFin(p)
  /\ state' = SetState(p, AfterFin(p))
  /\ owned' = IF p \in rxclosed THEN owned \ {p} ELSE owned
  /\ UNCHANGED <<local_port, rxclosed, held, last_timer, listVars, walkVars,
                 runVars, freed>>

\* Refused data is freed, but stays unread in the window.
ShutdownRx(p) ==
  /\ Calls("shutdown_rx")
  /\ p \in owned
  /\ rxclosed' = rxclosed \cup {p}
  /\ held' = IF Refused(p) THEN [held EXCEPT ![p] = "unread"] ELSE held
  /\ owned' = IF SendsFin(p) \/ state[p] \in {"CLOSED", "SYN_SENT"} THEN owned ELSE owned \ {p}
  /\ UNCHANGED <<state, local_port, last_timer, listVars, walkVars, runVars, freed>>

\* The application has read all of it.
tcp_recved(p) ==
  /\ Calls("recved")
  /\ p \in owned /\ held[p] = "unread"
  /\ held' = [held EXCEPT ![p] = "none"]
  /\ UNCHANGED <<state, local_port, rxclosed, last_timer, listVars, walkVars,
                 runVars, owned, freed>>

tcp_abort(p) ==
  /\ Calls("abort")
  /\ p \in owned
  /\ OffLists(p)
  /\ Free(p)
  /\ owned' = owned \ {p}
  /\ events' = IF p = cur THEN events \cup {"ABRT"} ELSE events
  /\ UNCHANGED <<walkVars, pc, handler, cur>>

Api ==
  \/ tcp_new
  \/ \E p \in PCBS :
       tcp_bind(p) \/ tcp_connect(p) \/ ConnectFails(p) \/ CloseUnread(p)
         \/ CloseUnconnected(p) \/ CloseConnected(p) \/ ShutdownTx(p) \/ ShutdownRx(p)
         \/ tcp_recved(p) \/ tcp_abort(p)

-----------------------------------------------------------------------------
(***************************************************************************)
(* tcp_slowtmr walks the active list.  After a callback that changed the   *)
(* list it starts over, and skips what it has dealt with: PCBs stamped     *)
(* with the current count.  The skip does not move prev.                   *)
(***************************************************************************)
NextTick == (tcp_timer_ctr + 1) % CtrMod

\* Start, or start over, at the head of the list.
FromFirst == pcb' = (IF active' = <<>> THEN NULL ELSE active'[1]) /\ prev' = NULL

Start(h) ==
  /\ pc = "main"
  /\ pc' = h /\ handler' = h
  /\ tcp_timer_ctr' = NextTick
  /\ served' = {}
  /\ UNCHANGED <<pcbVars, listVars, cur, events, owned, freed>>
  /\ FromFirst

Due == pcb # NULL /\ last_timer[pcb] # tcp_timer_ctr

Skip ==
  /\ pc \in {"slow", "fast"}
  /\ pcb # NULL /\ ~Due
  /\ pcb' = NextOf(pcb)
  /\ UNCHANGED <<pcbVars, listVars, tcp_timer_ctr, prev, served, runVars, owned, freed>>

\* Mutant: the visit leaves no stamp.
StampForgotten ==
  /\ UNCHANGED last_timer
  /\ served' = served \cup {pcb}
  /\ pcb' = NextOf(pcb)

Stamp ==
  /\ last_timer' = [last_timer EXCEPT ![pcb] = tcp_timer_ctr]
  /\ served' = served \cup {pcb}
  /\ pcb' = NextOf(pcb)

Callback(name, p) == pc' = name /\ cur' = p /\ freed' = {}

\* The PCB stays.  Its retransmissions are TcpSend's.
SlowtmrKeep ==
  /\ pc = "slow" /\ Due
  /\ Stamp
  /\ prev' = pcb
  /\ UNCHANGED <<state, local_port, rxclosed, held, active, tw, bound, tcp_timer_ctr,
                 handler, events, owned>>
  /\ \/ Callback("poll", pcb) /\ changed' = FALSE
     \/ UNCHANGED <<pc, cur, changed, freed>>

Behind(p) == SubSeq(active, 1 + CHOOSE i \in DOMAIN active : active[i] = p, Len(active))

\* What prev->next = pcb->next, or the move of the head, leaves of the list.
Unlinked ==
  IF prev = NULL THEN Behind(pcb)
  ELSE SubSeq(active, 1, CHOOSE i \in DOMAIN active : active[i] = prev) \o Behind(pcb)

\* The PCB has had its retransmissions or stayed too long in its state.
SlowtmrRemove ==
  /\ pc = "slow" /\ Due
  /\ (prev = NULL) = (pcb = First)
  /\ active' = Unlinked
  /\ memp_free(pcb)
  /\ pcb' = NextOf(pcb)
  /\ TCP_EVENT_ERR(pcb)
  /\ Callback("timeout", NULL) /\ changed' = FALSE
  /\ served' = served \cup {pcb}
  /\ UNCHANGED <<tw, bound, tcp_timer_ctr, prev, handler, events>>

\* "first pcb == tcp_active_pcbs" or "middle tcp != tcp_active_pcbs" fails.
SlowtmrAssertFails ==
  /\ pc = "slow" /\ Due
  /\ (prev = NULL) # (pcb = First)
  /\ pc' = "assert"
  /\ UNCHANGED <<pcbVars, listVars, walkVars, handler, cur, events, owned, freed>>

\* Mutant: the walk ends where it should start over.
GoOnEnds(h) ==
  /\ pc' = h /\ cur' = NULL /\ events' = {} /\ freed' = {}
  /\ UNCHANGED <<tcp_timer_ctr, served, handler, listVars, prev>>
  /\ pcb' = IF changed THEN NULL ELSE pcb

\* The callback of a walk returns.
GoOn(h) ==
  /\ pc' = h /\ cur' = NULL /\ events' = {} /\ freed' = {}
  /\ UNCHANGED <<tcp_timer_ctr, served, handler>>
  /\ IF changed THEN UNCHANGED listVars /\ FromFirst ELSE UNCHANGED <<listVars, pcb, prev>>

\* The poll or error callback returns; tcp_output follows a poll.
SlowtmrGoOn ==
  /\ pc \in {"poll", "timeout"}
  /\ GoOn("slow")
  /\ UNCHANGED <<pcbVars, owned>>

\* The end of the walk, and the TIME_WAIT PCBs that have had two lifetimes.
SlowtmrDone ==
  /\ pc = "slow" /\ pcb = NULL
  /\ \E old \in SUBSET tw :
       /\ tw' = tw \ old
       /\ state' = [p \in PCBS |-> IF p \in old THEN "FREE" ELSE state[p]]
       /\ held' = [p \in PCBS |-> IF p \in old THEN "none" ELSE held[p]]
       /\ last_timer' = [p \in PCBS |-> IF p \in old THEN 0 ELSE last_timer[p]]
       /\ rxclosed' = rxclosed \ old /\ local_port' = local_port \ old
  /\ pc' = "main" /\ handler' = "none"
  /\ served' = {} /\ prev' = NULL
  /\ UNCHANGED <<active, bound, changed, tcp_timer_ctr, pcb, cur, events, owned, freed>>

(***************************************************************************)
(* tcp_fasttmr offers refused data again.  It has no prev.                 *)
(***************************************************************************)
\* tcp_process_refused_data: refused_data is NULL while the callback runs.
Offer(p) ==
  /\ Callback("refused", p)
  /\ held' = [held EXCEPT ![p] = "unread"]
  /\ events' = IF held[p] = "refused_fin" THEN {"FIN"} ELSE {}

FasttmrVisit ==
  /\ pc = "fast" /\ Due
  /\ Stamp
  /\ UNCHANGED <<state, local_port, rxclosed, active, tw, bound, tcp_timer_ctr, prev,
                 handler, owned>>
  /\ IF Refused(pcb) THEN Offer(pcb) /\ changed' = FALSE
     ELSE UNCHANGED <<held, pc, cur, changed, freed, events>>

FasttmrDone ==
  /\ pc = "fast" /\ pcb = NULL
  /\ pc' = "main" /\ handler' = "none"
  /\ served' = {}
  /\ UNCHANGED <<pcbVars, listVars, tcp_timer_ctr, pcb, prev, cur, events, owned, freed>>

Timers ==
  \/ Start("slow") \/ Start("fast") \/ Skip
  \/ SlowtmrKeep \/ SlowtmrRemove \/ SlowtmrAssertFails \/ SlowtmrGoOn \/ SlowtmrDone
  \/ FasttmrVisit \/ FasttmrDone

-----------------------------------------------------------------------------
(***************************************************************************)
(* tcp_input.  events is what recv_flags, pcb->acked and recv_data say:    *)
(* ACKED, DATA, FIN, CLOSED; ABRT is the callback's return value.          *)
(***************************************************************************)
Finish ==
  /\ pc' = "main" /\ handler' = "none" /\ cur' = NULL /\ events' = {} /\ freed' = {}

At(stage) == pc' = stage /\ UNCHANGED <<handler, cur, freed>>

\* The segment's PCB moves to the front of the list.
tcp_input ==
  \E p \in ToSet(active) :
    /\ pc = "main"
    /\ active' = <<p>> \o Without(p)
    /\ handler' = "input"
    /\ IF Refused(p) THEN Offer(p)
       ELSE pc' = "process" /\ cur' = p /\ UNCHANGED <<held, events, freed>>
    /\ UNCHANGED <<state, local_port, rxclosed, last_timer, tw, bound, changed, walkVars,
                   owned>>


(***************************************************************************)
(* tcp_process_refused_data after the recv callback: tcp_fasttmr goes on   *)
(* with its walk, tcp_input with the segment.                              *)
(***************************************************************************)
AfterOffer ==
  IF handler = "fast" THEN GoOn("fast")
  ELSE At("process") /\ events' = {} /\ UNCHANGED <<listVars, walkVars>>

RefusedAborted ==
  /\ pc \in {"refused", "refused_eof"} /\ Aborted
  /\ IF handler = "fast" THEN GoOn("fast") ELSE Finish /\ UNCHANGED <<listVars, walkVars>>
  /\ UNCHANGED <<pcbVars, owned>>

RefusedTaken ==
  /\ pc = "refused" /\ ~Aborted
  /\ UNCHANGED <<pcbVars, owned>>
  /\ IF "FIN" \in events
       THEN /\ Callback("refused_eof", cur) /\ events' = {}
            /\ UNCHANGED <<listVars, walkVars, handler>>
       ELSE AfterOffer

\* The segment is dropped if it has text.
RefusedAgain ==
  /\ pc = "refused" /\ ~Aborted
  /\ held' = [held EXCEPT ![cur] = IF "FIN" \in events THEN "refused_fin" ELSE "refused"]
  /\ \/ AfterOffer
     \/ handler = "input" /\ Finish /\ UNCHANGED <<listVars, walkVars>>
  /\ UNCHANGED <<state, local_port, rxclosed, last_timer, owned>>

\* A PCB that is shut down and at the end of its stream is not used any more.
OwnedAfterEof == IF SendsFin(cur) THEN owned ELSE owned \ {cur}

RefusedEof ==
  /\ pc = "refused_eof" /\ ~Aborted
  /\ AfterOffer
  /\ owned' = OwnedAfterEof
  /\ UNCHANGED pcbVars

(***************************************************************************)
(* tcp_process.                                                            *)
(***************************************************************************)
\* A reset: the error callback, while the PCB is still in its list.
ProcessReset ==
  /\ pc = "process"
  /\ TCP_EVENT_ERR(cur)
  /\ Callback("reset", cur)
  /\ UNCHANGED <<pcbVars, listVars, walkVars, handler, events>>

\* The connection ends inside tcp_input: tcp_pcb_remove and memp_free.
RemoveCur ==
  /\ active' = Without(cur)
  /\ memp_free(cur)
  /\ Finish
  /\ UNCHANGED <<tw, bound, changed, walkVars>>

InputReset ==
  /\ pc = "reset"
  /\ RemoveCur
  /\ UNCHANGED owned

\* A SYN, a bad reset or a bad ACK changes nothing, but pcb->acked may still
\* be that of the segment before.
ProcessNothing ==
  /\ pc = "process"
  /\ \E e \in {{}, {"ACKED"}} :
       /\ state[cur] \in {"SYN_SENT", "SYN_RCVD"} => e = {}
       /\ events' = e
  /\ At("events")
  /\ UNCHANGED <<pcbVars, listVars, walkVars, owned>>

ProcessSynSent ==
  /\ pc = "process" /\ state[cur] = "SYN_SENT"
  /\ state' = SetState(cur, "ESTABLISHED")
  /\ Callback("connected", cur)
  /\ UNCHANGED <<local_port, rxclosed, held, last_timer, listVars, walkVars, handler,
                 events, owned>>

ProcessSynRcvd ==
  /\ pc = "process" /\ state[cur] = "SYN_RCVD"
  /\ state' = SetState(cur, "ESTABLISHED")
  /\ owned' = owned \cup {cur}
  /\ Callback("accept", cur)
  /\ UNCHANGED <<local_port, rxclosed, held, last_timer, listVars, walkVars, handler,
                 events>>

\* What tcp_receive makes of a segment.  The peer sends nothing after its FIN,
\* and text is dropped while data is refused.
Received ==
  SUBSET (IF Refused(cur) \/ state[cur] \in {"CLOSE_WAIT", "CLOSING", "LAST_ACK"}
            THEN {"ACKED"} ELSE {"ACKED", "DATA", "FIN"})

HeldAfter(e) ==
  IF "DATA" \in e THEN [held EXCEPT ![cur] = "unread"] ELSE held

\* The state after tcp_receive: all is whether the segment acknowledges all
\* that was sent.
NextState(e, all) ==
  LET s == state[cur] fin == "FIN" \in e
  IN  IF s = "ESTABLISHED" THEN IF fin THEN "CLOSE_WAIT" ELSE s
      ELSE IF s = "FIN_WAIT_1"
        THEN IF fin THEN IF all THEN "TIME_WAIT" ELSE "CLOSING"
             ELSE IF all THEN "FIN_WAIT_2" ELSE s
      ELSE IF s = "FIN_WAIT_2" THEN IF fin THEN "TIME_WAIT" ELSE s
      ELSE IF s = "CLOSING" /\ all THEN "TIME_WAIT"
      ELSE s

ProcessReceive ==
  /\ pc = "process" /\ state[cur] \notin {"SYN_SENT", "SYN_RCVD"}
  /\ \E e \in Received, all \in BOOLEAN :
       /\ events' = IF state[cur] = "LAST_ACK" /\ all THEN e \cup {"CLOSED"} ELSE e
       /\ IF NextState(e, all) = "TIME_WAIT"
            THEN /\ ToTimeWait(cur)
                 /\ held' = IF Refused(cur) THEN [held EXCEPT ![cur] = "none"] ELSE HeldAfter(e)
            ELSE /\ state' = SetState(cur, NextState(e, all))
                 /\ held' = HeldAfter(e)
                 /\ UNCHANGED <<active, tw, changed>>
  /\ At("events")
  /\ UNCHANGED <<local_port, rxclosed, last_timer, bound, walkVars, owned>>

(***************************************************************************)
(* The callbacks of tcp_input return.                                      *)
(***************************************************************************)
InputAborted ==
  /\ pc \in {"connected", "accept", "sent", "recv", "closed"} /\ Aborted
  /\ Finish
  /\ UNCHANGED <<pcbVars, listVars, walkVars, owned>>

Connected ==
  /\ pc = "connected" /\ ~Aborted
  /\ At("events")
  /\ UNCHANGED <<pcbVars, listVars, walkVars, events, owned>>

\* tcp_abort by the stack, for an accept callback that fails and for data
\* that arrives after tcp_close.
AbortCur ==
  /\ OffLists(cur)
  /\ memp_free(cur)
  /\ TCP_EVENT_ERR(cur)
  /\ Finish
  /\ UNCHANGED walkVars

AcceptFails == pc = "accept" /\ ~Aborted /\ AbortCur

\* The rest of the SYN_RCVD case; a FIN overwrites the state.
Accepted ==
  /\ pc = "accept" /\ ~Aborted
  /\ \E e \in Received :
       /\ events' = e
       /\ held' = HeldAfter(e)
       /\ state' = IF "FIN" \in e THEN SetState(cur, "CLOSE_WAIT") ELSE state
  /\ At("events")
  /\ UNCHANGED <<local_port, rxclosed, last_timer, listVars, walkVars, owned>>

InputSent ==
  /\ pc = "events"
  /\ IF "ACKED" \in events THEN Callback("sent", cur) /\ UNCHANGED handler ELSE At("check")
  /\ UNCHANGED <<pcbVars, listVars, walkVars, events, owned>>

Sent ==
  /\ pc = "sent" /\ ~Aborted
  /\ At("check")
  /\ UNCHANGED <<pcbVars, listVars, walkVars, events, owned>>

\* TF_CLOSED: the PCB is deallocated, and the application told if it has only
\* shut down its sending side.
InputClosed ==
  /\ pc = "check" /\ "CLOSED" \in events
  /\ IF cur \in rxclosed THEN UNCHANGED owned ELSE TCP_EVENT_ERR(cur)
  /\ RemoveCur

InputDataAfterClose ==
  /\ pc = "check" /\ "CLOSED" \notin events
  /\ "DATA" \in events /\ cur \in rxclosed
  /\ AbortCur

InputRecv ==
  /\ pc = "check" /\ "CLOSED" \notin events
  /\ IF "DATA" \in events THEN cur \notin rxclosed /\ Callback("recv", cur) /\ UNCHANGED handler
     ELSE At("eof")
  /\ UNCHANGED <<pcbVars, listVars, walkVars, events, owned>>

RecvTaken ==
  /\ pc = "recv" /\ ~Aborted
  /\ At("eof")
  /\ UNCHANGED <<pcbVars, listVars, walkVars, events, owned>>

RecvRefused ==
  /\ pc = "recv" /\ ~Aborted
  /\ Calls(IF state[cur] \in {"ESTABLISHED", "CLOSE_WAIT"} THEN "refuse" ELSE "refuse_closing")
  /\ held' = [held EXCEPT ![cur] = "refused"]
  /\ At("eof")
  /\ UNCHANGED <<state, local_port, rxclosed, last_timer, listVars, walkVars, events, owned>>

\* The end of the stream: kept with refused data, else reported; then
\* tcp_output ends tcp_input.
InputEof ==
  /\ pc = "eof" /\ "FIN" \in events
  /\ IF Refused(cur)
       THEN held' = [held EXCEPT ![cur] = "refused_fin"] /\ Finish
       ELSE Callback("closed", cur) /\ UNCHANGED <<held, handler, events>>
  /\ UNCHANGED <<state, local_port, rxclosed, last_timer, listVars, walkVars, owned>>

Closed ==
  /\ pc = "closed" /\ ~Aborted
  /\ owned' = OwnedAfterEof
  /\ Finish
  /\ UNCHANGED <<pcbVars, listVars, walkVars>>

InputOutput ==
  /\ pc = "eof" /\ "FIN" \notin events
  /\ Finish
  /\ UNCHANGED <<pcbVars, listVars, walkVars, owned>>

(***************************************************************************)
(* A SYN for the listening PCB, possibly at the cost of a connection.      *)
(***************************************************************************)
tcp_listen_input ==
  \E p \in PCBS :
    /\ pc = "main"
    /\ tcp_alloc(p, "SYN_RCVD")
    /\ local_port' = local_port \cup {p}
    /\ active' = <<p>> \o Without(p) /\ changed' = TRUE
    /\ TCP_EVENT_ERR(p)
    /\ UNCHANGED <<bound, walkVars, runVars>>

\* The SYN|ACK cannot be queued: the new PCB is abandoned, a killed one gone.
ListenInputFails ==
  \E p \in PCBS :
    /\ pc = "main"
    /\ tcp_alloc(p, "FREE") /\ state[p] # "FREE"
    /\ local_port' = local_port \ {p}
    /\ active' = Without(p) /\ changed' = TRUE
    /\ TCP_EVENT_ERR(p)
    /\ UNCHANGED <<bound, walkVars, runVars>>

Input ==
  \/ tcp_input \/ tcp_listen_input \/ ListenInputFails
  \/ RefusedAborted \/ RefusedTaken \/ RefusedAgain \/ RefusedEof
  \/ ProcessReset \/ ProcessNothing \/ ProcessSynSent \/ ProcessSynRcvd \/ ProcessReceive
  \/ InputReset \/ InputAborted \/ Connected \/ AcceptFails \/ Accepted
  \/ InputSent \/ Sent \/ InputClosed \/ InputDataAfterClose \/ InputRecv
  \/ RecvTaken \/ RecvRefused \/ InputEof \/ Closed \/ InputOutput

Init ==
  /\ state = [p \in PCBS |-> "FREE"]
  /\ local_port = {} /\ rxclosed = {} /\ owned = {}
  /\ held = [p \in PCBS |-> "none"]
  /\ last_timer = [p \in PCBS |-> 0]
  /\ active = <<>> /\ tw = {} /\ bound = {}
  /\ tcp_timer_ctr = 0 /\ changed = FALSE
  /\ pc = "main" /\ handler = "none"
  /\ pcb = NULL /\ prev = NULL /\ cur = NULL
  /\ events = {} /\ freed = {} /\ served = {}

Next == Api \/ Timers \/ Input

Spec == Init /\ [][Next]_vars

-----------------------------------------------------------------------------
(***************************************************************************)
(* Properties.                                                             *)
(***************************************************************************)
\* Every variable has its type; the stamps stay within the counter's width.
TypeOK ==
  /\ state \in [PCBS -> ActiveStates \cup {"FREE", "CLOSED", "TIME_WAIT"}]
  /\ held \in [PCBS -> {"none", "unread", "refused", "refused_fin"}]
  /\ last_timer \in [PCBS -> 0 .. CtrMod - 1] /\ tcp_timer_ctr \in 0 .. CtrMod - 1
  /\ UNION {local_port, rxclosed, tw, bound, owned, freed, served} \subseteq PCBS
  /\ active \in Seq(PCBS) /\ {pcb, prev, cur} \subseteq PCBS \cup {NULL}
  /\ changed \in BOOLEAN
  /\ pc \in Callbacks \cup {"main", "slow", "fast", "assert", "process", "events", "check", "eof"}
  /\ handler \in {"none", "slow", "fast", "input"}
  /\ events \subseteq {"ACKED", "DATA", "FIN", "CLOSED", "ABRT"}

\* tcp_pcbs_sane, and what it takes for granted: a PCB is in the list of its
\* state, once.
ListsSane ==
  /\ IsInjective(active)
  /\ ToSet(active) \subseteq InState(ActiveStates)
  /\ tw = InState({"TIME_WAIT"})
  /\ bound \subseteq InState({"CLOSED"}) \cap local_port

\* Between two handlers every allocated PCB is in a list the timers walk, or
\* in the hands of the application: none is lost.
NoPcbLost ==
  pc = "main" => InState(ActiveStates) = ToSet(active) /\ InState({"CLOSED"}) \subseteq owned

\* The lists are sound: whatever callbacks, timers and tcp_alloc do to a PCB, it
\* is in the one list of its state, and none is lost.
ListsHold == TypeOK /\ ListsSane /\ NoPcbLost

\* The application's handles are of allocated PCBs: whoever frees a PCB under
\* its owner, a timeout, a reset, tcp_alloc, tells it by the error callback.
HandlesValid == \A p \in owned : state[p] # "FREE"

\* A walk's pointers are in the list, although callbacks free the PCBs they
\* pointed at, and tcp_input's PCB outlives every callback that does not say
\* ERR_ABRT.
PointersValid ==
  /\ pc \in {"slow", "fast"} => {pcb, prev} \subseteq ToSet(active) \cup {NULL}
  /\ pc \in {"poll", "timeout"} /\ ~changed => {pcb, prev} \subseteq ToSet(active) \cup {NULL}
  /\ pc \in Callbacks \ {"poll", "timeout"} /\ ~Aborted => cur \notin freed

\* A timer deals with every connection, however often callbacks make it start
\* over: at the end of the walk each PCB in the list has the current stamp.
AllServed ==
  pc \in {"slow", "fast"} /\ pcb = NULL =>
    \A p \in ToSet(active) : last_timer[p] = tcp_timer_ctr

\* No slot is visited twice in a tick, even when its PCB is freed and allocated
\* again: so a walk ends, although callbacks that open connections restart it.
VisitedOnce == pc \in {"slow", "fast"} /\ Due => pcb \notin served

\* No assertion of tcp_slowtmr fails when it unlinks a PCB.
NoAssertFails == pc # "assert"
=============================================================================
