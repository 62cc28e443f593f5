--------------------------- MODULE ReliableStream ---------------------------
(***************************************************************************)
(* What one direction of a connection promises its two applications: the   *)
(* bytes written arrive in order and once, the sender is told of a byte    *)
(* only after it arrived, the end of the stream comes last, and all of it  *)
(* happens unless the connection is given up.                              *)
(***************************************************************************)
EXTENDS Naturals

CONSTANT Last         \* the most that is ever written

VARIABLES
  written,     \* bytes the sender has written
  closed,      \* the sender has closed its side
  arrived,     \* bytes the receiving side has taken over
  reported,    \* bytes reported to the sender as acknowledged
  ended,       \* the receiver knows that the stream has ended
  givenUp      \* the sender was told that the connection is gone

vars == <<written, closed, arrived, reported, ended, givenUp>>

Init ==
  /\ written = 0 /\ arrived = 0 /\ reported = 0
  /\ ~closed /\ ~ended /\ ~givenUp

Write ==
  /\ ~closed /\ ~givenUp
  /\ written' \in written + 1 .. Last
  /\ UNCHANGED <<closed, arrived, reported, ended, givenUp>>

Close ==
  /\ ~closed /\ ~givenUp
  /\ closed' = TRUE
  /\ UNCHANGED <<written, arrived, reported, ended, givenUp>>

Arrive ==
  /\ arrived' \in arrived + 1 .. written
  /\ UNCHANGED <<written, closed, reported, ended, givenUp>>

Report ==
  /\ ~givenUp
  /\ reported' \in reported + 1 .. arrived
  /\ UNCHANGED <<written, closed, arrived, ended, givenUp>>

End ==
  /\ closed /\ ~ended /\ arrived = written
  /\ ended' = TRUE
  /\ UNCHANGED <<written, closed, arrived, reported, givenUp>>

GiveUp ==
  /\ ~givenUp
  /\ givenUp' = TRUE
  /\ UNCHANGED <<written, closed, arrived, reported, ended>>

Next == Write \/ Close \/ Arrive \/ Report \/ End \/ GiveUp

\* Unless the connection is given up, what is written arrives and is reported.
Fairness == WF_vars(~givenUp /\ (Arrive \/ Report \/ End))

Spec == Init /\ [][Next]_vars /\ Fairness
=============================================================================
