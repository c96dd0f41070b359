--------------------------- MODULE MCUserWakeLock ---------------------------
(* Two names, one a prefix of the other, and a driver's lock.               *)
EXTENDS UserWakeLock

CONSTANTS la, lab, d1

MCNames == {<<1>>, <<1, 2>>}
MCLockOf == [n \in MCNames |-> IF n = <<1>> THEN la ELSE lab]
=============================================================================
