----------------------------- MODULE MCReceive ------------------------------
(***************************************************************************)
(* TcpReceive for TLC.  Sequence numbers wrap inside the stream.           *)
(***************************************************************************)
EXTENDS TcpReceiveInv
=============================================================================
