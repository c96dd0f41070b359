--------------------------- MODULE MCWakeupEvents ---------------------------
(* Two drivers, a privileged and an unprivileged reader, an eight-value      *)
(* jiffies that wraps many times in every behaviour.                         *)
EXTENDS WakeupEvents

CONSTANTS u1, u2
=============================================================================
