--------------------------- MODULE MCEarlySuspend ---------------------------
(* One driver's lock and two handlers on different levels.                   *)
EXTENDS EarlySuspend

CONSTANTS h1, h3, d1

MCLevels == [h \in Handlers |-> IF h = h3 THEN 2 ELSE 1]
=============================================================================
