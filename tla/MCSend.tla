------------------------------- MODULE MCSend -------------------------------
(***************************************************************************)
(* TcpSend for TLC.  Sequence numbers wrap inside the stream.              *)
(***************************************************************************)
EXTENDS TcpSend
=============================================================================
