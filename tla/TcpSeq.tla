------------------------------- MODULE TcpSeq -------------------------------
(***************************************************************************)
(* Sequence-number arithmetic of the stack: u32_t numbers that wrap, and   *)
(* the comparison macros of tcp_impl.h, which look at the sign of the      *)
(* 32-bit difference.  Half stands for 2^31; a small Half makes the        *)
(* numbers of a run wrap within a few bytes.                               *)
(***************************************************************************)
EXTENDS Integers

CONSTANT Half      \* half of the sequence space: 2^31 in the code

ASSUME HalfAssumption == Half \in Nat /\ Half >= 4

SeqMod == 2 * Half

SeqNo == 0 .. SeqMod - 1

(***************************************************************************)
(* u32_t addition and subtraction.  Both operands are already reduced, so  *)
(* one correction is the whole of "modulo 2^32".                           *)
(***************************************************************************)
SeqAdd(a, b) == IF a + b >= SeqMod THEN a + b - SeqMod ELSE a + b

SeqSub(a, b) == IF a >= b THEN a - b ELSE a - b + SeqMod

(***************************************************************************)
(* (s32_t)(a - b) is negative exactly when the difference is >= 2^31.      *)
(***************************************************************************)
TCP_SEQ_LT(a, b)  == SeqSub(a, b) >= Half

TCP_SEQ_LEQ(a, b) == SeqSub(a, b) = 0 \/ SeqSub(a, b) >= Half

TCP_SEQ_GT(a, b)  == SeqSub(a, b) > 0 /\ SeqSub(a, b) < Half

TCP_SEQ_GEQ(a, b) == SeqSub(a, b) < Half

TCP_SEQ_BETWEEN(a, b, c) == TCP_SEQ_GEQ(a, b) /\ TCP_SEQ_LEQ(a, c)
=============================================================================
