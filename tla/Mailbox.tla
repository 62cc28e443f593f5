------------------------------ MODULE Mailbox -------------------------------
(***************************************************************************)
(* The mailbox of sys_arch.c: a ring of SYS_MBOX_SIZE messages, a mutex    *)
(* and two semaphores that carry the wake-ups.  Threads are interleaved at *)
(* every semaphore operation; between two of them the mutex is held, or    *)
(* nothing shared is touched.  A semaphore counts to 1 and sys_sem_signal  *)
(* wakes everyone, so waiting is: go on once the count is 1, and clear it. *)
(*                                                                         *)
(* The threads of Posters call sys_mbox_post or sys_mbox_trypost; Fetcher, *)
(* the tcpip thread, calls sys_arch_mbox_fetch.  pc[t] is the semaphore    *)
(* operation thread t is about to do.                                      *)
(***************************************************************************)
EXTENDS Naturals, Sequences, FiniteSets

CONSTANTS
  Posters,          \* threads that post
  Fetcher,          \* the thread that fetches
  SYS_MBOX_SIZE,
  MaxPosts          \* bound: how many messages each poster posts

ASSUME MailboxAssumption ==
  /\ Fetcher \notin Posters
  /\ SYS_MBOX_SIZE \in Nat /\ SYS_MBOX_SIZE > 1
  /\ MaxPosts \in [Posters -> Nat]

VARIABLES
  first, last,      \* counters of the messages fetched and posted
  msgs,             \* the ring
  sem,              \* c of the semaphores not_empty, not_full and mutex
  wait_send,        \* posters that wait for a free slot
  pc,               \* the next semaphore operation of each thread
  call,             \* the call each thread is in, with its argument
  posted,           \* how many messages each poster has posted or given up
  got               \* the messages fetched

mboxVars == <<first, last, msgs, sem, wait_send>>
threadVars == <<pc, call, posted, got>>
vars == <<mboxVars, threadVars>>

Message == UNION {{t} \X (1 .. MaxPosts[t]) : t \in Posters}

NoMessage == <<>>

Threads == Posters \cup {Fetcher}

At(t, l) == pc[t] = l

Go(t, l) == pc' = [pc EXCEPT ![t] = l]

(***************************************************************************)
(* Semaphores.                                                             *)
(***************************************************************************)
sys_arch_sem_wait(s) == sem[s] = 1 /\ sem' = [sem EXCEPT ![s] = 0]

sys_sem_signal(s) == sem' = [sem EXCEPT ![s] = 1]

sys_mbox_new ==
  /\ first = 0 /\ last = 0
  /\ msgs = [i \in 0 .. SYS_MBOX_SIZE - 1 |-> NoMessage]
  /\ sem = [not_empty |-> 0, not_full |-> 0, mutex |-> 1]
  /\ wait_send = 0

\* Mutant: every slot of the ring is used.
FullWhenAll == last >= first + SYS_MBOX_SIZE

Full == last + 1 >= first + SYS_MBOX_SIZE

Empty == first = last

-----------------------------------------------------------------------------
(***************************************************************************)
(* sys_mbox_post waits while the mailbox is full, sys_mbox_trypost gives   *)
(* up.  The counters of a ring slot move while the mutex is held.          *)
(***************************************************************************)
StartPost(t, blocking) ==
  /\ At(t, "idle") /\ posted[t] < MaxPosts[t]
  /\ call' = [call EXCEPT ![t] = IF blocking THEN "post" ELSE "trypost"]
  /\ Go(t, "lock")
  /\ UNCHANGED <<mboxVars, posted, got>>

PostLock(t) ==
  /\ At(t, "lock")
  /\ sys_arch_sem_wait("mutex")
  /\ Go(t, "locked")
  /\ UNCHANGED <<first, last, msgs, wait_send, call, posted, got>>

\* Full: tell the fetcher that someone waits, and let the mutex go.
PostWaits(t) ==
  /\ At(t, "locked") /\ call[t] = "post" /\ Full
  /\ wait_send' = wait_send + 1
  /\ sys_sem_signal("mutex")
  /\ Go(t, "wait_not_full")
  /\ UNCHANGED <<first, last, msgs, call, posted, got>>

PostWoken(t) ==
  /\ At(t, "wait_not_full")
  /\ sys_arch_sem_wait("not_full")
  /\ Go(t, "relock")
  /\ UNCHANGED <<first, last, msgs, wait_send, call, posted, got>>

PostRelock(t) ==
  /\ At(t, "relock")
  /\ sys_arch_sem_wait("mutex")
  /\ wait_send' = wait_send - 1
  /\ Go(t, "locked")
  /\ UNCHANGED <<first, last, msgs, call, posted, got>>

TryPostFails(t) ==
  /\ At(t, "locked") /\ call[t] = "trypost" /\ Full
  /\ sys_sem_signal("mutex")
  /\ posted' = [posted EXCEPT ![t] = @ + 1]
  /\ Go(t, "idle")
  /\ UNCHANGED <<first, last, msgs, wait_send, call, got>>

\* Only the first message finds the fetcher asleep.
PostStore(t) ==
  /\ At(t, "locked") /\ ~Full
  /\ msgs' = [msgs EXCEPT ![last % SYS_MBOX_SIZE] = <<t, posted[t] + 1>>]
  /\ last' = last + 1
  /\ posted' = [posted EXCEPT ![t] = @ + 1]
  /\ Go(t, IF Empty THEN "signal_not_empty" ELSE "unlock")
  /\ UNCHANGED <<first, sem, wait_send, call, got>>

PostSignal(t) ==
  /\ At(t, "signal_not_empty")
  /\ sys_sem_signal("not_empty")
  /\ Go(t, "unlock")
  /\ UNCHANGED <<first, last, msgs, wait_send, call, posted, got>>

PostUnlock(t) ==
  /\ t \in Posters /\ At(t, "unlock")
  /\ sys_sem_signal("mutex")
  /\ Go(t, "idle")
  /\ UNCHANGED <<first, last, msgs, wait_send, call, posted, got>>

Post(t) ==
  \/ PostLock(t) \/ PostWaits(t) \/ PostWoken(t) \/ PostRelock(t)
  \/ TryPostFails(t) \/ PostStore(t) \/ PostSignal(t) \/ PostUnlock(t)

-----------------------------------------------------------------------------
(***************************************************************************)
(* sys_arch_mbox_fetch.  How a call begins and what its end leads to is    *)
(* the caller's: StartFetch and the steps to "fetched" and "timeout" are   *)
(* completed by Tcpip.                                                     *)
(***************************************************************************)
StartFetch(timed) ==
  /\ Go(Fetcher, "lock")
  /\ call' = [call EXCEPT ![Fetcher] = IF timed THEN "timed" ELSE "untimed"]
  /\ UNCHANGED <<mboxVars, posted, got>>

FetchLock ==
  /\ At(Fetcher, "lock")
  /\ sys_arch_sem_wait("mutex")
  /\ Go(Fetcher, "locked")
  /\ UNCHANGED <<first, last, msgs, wait_send, call, posted, got>>

FetchWaits ==
  /\ At(Fetcher, "locked") /\ Empty
  /\ sys_sem_signal("mutex")
  /\ Go(Fetcher, "wait_not_empty")
  /\ UNCHANGED <<first, last, msgs, wait_send, call, posted, got>>

FetchWoken ==
  /\ At(Fetcher, "wait_not_empty")
  /\ sys_arch_sem_wait("not_empty")
  /\ Go(Fetcher, "lock")
  /\ UNCHANGED <<first, last, msgs, wait_send, call, posted, got>>

\* The wait may time out although the semaphore has been signalled meanwhile:
\* cond_wait's result is not checked against c again.
FetchTimeout ==
  /\ At(Fetcher, "wait_not_empty") /\ call[Fetcher] = "timed"
  /\ Go(Fetcher, "timeout")
  /\ UNCHANGED <<mboxVars, call, posted, got>>

FetchTake ==
  /\ At(Fetcher, "locked") /\ ~Empty
  /\ got' = Append(got, msgs[first % SYS_MBOX_SIZE])
  /\ first' = first + 1
  /\ Go(Fetcher, IF wait_send > 0 THEN "signal_not_full" ELSE "unlock")
  /\ UNCHANGED <<last, msgs, sem, wait_send, call, posted>>

\* Mutant: the signal is forgotten.
WakePosterNot == UNCHANGED sem

WakePoster == sys_sem_signal("not_full")

FetchSignal ==
  /\ At(Fetcher, "signal_not_full")
  /\ WakePoster
  /\ Go(Fetcher, "unlock")
  /\ UNCHANGED <<first, last, msgs, wait_send, call, posted, got>>

FetchUnlock ==
  /\ At(Fetcher, "unlock")
  /\ sys_sem_signal("mutex")
  /\ Go(Fetcher, "fetched")
  /\ UNCHANGED <<first, last, msgs, wait_send, call, posted, got>>

Fetch ==
  \/ FetchLock \/ FetchWaits \/ FetchWoken \/ FetchTimeout \/ FetchTake
  \/ FetchSignal \/ FetchUnlock

MboxInit ==
  /\ sys_mbox_new
  /\ pc = [t \in Threads |-> "idle"]
  /\ call = [t \in Threads |-> "none"]
  /\ posted = [t \in Posters |-> 0]
  /\ got = <<>>

-----------------------------------------------------------------------------
(***************************************************************************)
(* Properties.                                                             *)
(***************************************************************************)
\* The messages in the ring, oldest first.
Waiting == [i \in 1 .. last - first |-> msgs[(first + i - 1) % SYS_MBOX_SIZE]]

Fifo == INSTANCE BoundedFifo WITH
          Capacity <- SYS_MBOX_SIZE - 1, queue <- Waiting, got <- got

\* The ring behind its mutex is a bounded first-in first-out queue, and every
\* message posted is fetched: the wake-up of sys_mbox_post, signalled for the
\* first message only and by a semaphore that counts to one, is never lost.
IsFifo == Fifo!Spec

\* A poster that waits for a free slot gets its message in.
PosterServed ==
  \A t \in Posters : At(t, "wait_not_full") ~> At(t, "unlock")
=============================================================================
