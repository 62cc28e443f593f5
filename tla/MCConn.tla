------------------------------- MODULE MCConn -------------------------------
(***************************************************************************)
(* TcpConn with a client and a server, for TLC.                            *)
(***************************************************************************)
EXTENDS TcpConn
=============================================================================
