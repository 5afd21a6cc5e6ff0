----------------------------- MODULE MCMsgQueue -----------------------------
(* The message queue on small instances. *)
EXTENDS MsgQueue, TLC

Symmetry == Permutations(Threads)
=============================================================================
