------------------------------ MODULE MCWakeLock ------------------------------
(* The kernel's own locks and a driver's.                                      *)
EXTENDS WakeLock

CONSTANT d1
===============================================================================
