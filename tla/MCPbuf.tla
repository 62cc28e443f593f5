------------------------------- MODULE MCPbuf -------------------------------
(***************************************************************************)
(* Pbuf for TLC: the pbufs of each pool are interchangeable.               *)
(***************************************************************************)
EXTENDS PbufData, TLC

Symmetry == Permutations(POOL) \cup Permutations(HEAP)
=============================================================================
