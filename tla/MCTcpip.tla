------------------------------ MODULE MCTcpip -------------------------------
(***************************************************************************)
(* Tcpip for TLC: a ring that holds two messages, two posters that fill it *)
(* and compete for it, two timeouts beside the TCP timer.                  *)
(***************************************************************************)
EXTENDS Tcpip, TLC

CONSTANTS s1, s2

PostersTwo == {s1, s2}

PostsTwoOne == s1 :> 2 @@ s2 :> 1
=============================================================================
