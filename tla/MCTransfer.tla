----------------------------- MODULE MCTransfer -----------------------------
(***************************************************************************)
(* TcpTransfer for TLC.                                                    *)
(***************************************************************************)
EXTENDS TcpTransfer
=============================================================================
