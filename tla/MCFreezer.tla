------------------------------ MODULE MCFreezer ------------------------------
(* Two user tasks and a kernel thread.                                       *)
EXTENDS Freezer

CONSTANTS u1, u2, k1
=============================================================================
