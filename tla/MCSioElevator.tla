---------------------------- MODULE MCSioElevator ----------------------------
(* Two requests; async_expire may be shortened and lengthened, sync_expire    *)
(* is written with the value it has.                                          *)
EXTENDS SioElevator

CONSTANTS r1, r2

MCExpire == [s \in Sync |-> IF s = "SYNC" THEN 0 ELSE 1]
MCExpires == [s \in Sync |-> IF s = "SYNC" THEN {0} ELSE {0, 1}]
==============================================================================
