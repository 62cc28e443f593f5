---------------------------- MODULE BoundedFifo -----------------------------
(***************************************************************************)
(* What a mailbox promises: messages come out once, in the order in which  *)
(* they went in, and at most Capacity of them wait.                        *)
(***************************************************************************)
EXTENDS Naturals, Sequences

CONSTANTS Capacity, Message

VARIABLES
  queue,    \* the messages that wait
  got       \* the messages taken so far

Init == queue = <<>> /\ got = <<>>

Put(m) ==
  /\ Len(queue) < Capacity
  /\ queue' = Append(queue, m)
  /\ UNCHANGED got

Take ==
  /\ queue # <<>>
  /\ got' = Append(got, Head(queue))
  /\ queue' = Tail(queue)

Next == Take \/ \E m \in Message : Put(m)

\* A message that waits is taken.
Spec == Init /\ [][Next]_<<queue, got>> /\ WF_<<queue, got>>(Take)
=============================================================================
