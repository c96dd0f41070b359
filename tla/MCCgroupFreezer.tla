--------------------------- MODULE MCCgroupFreezer ---------------------------
(* Two user tasks and a kernel thread, with all that can happen and without  *)
(* what FrozenMeansFrozen, NoFreezerBug and RootNotFrozen have to exclude.   *)
EXTENDS CgroupFreezer, TLC

CONSTANTS u1, u2, k1

MCSituated == {Situations, {"move_asked"}, {"freeze_fails", "move_forking"}}
MCSymmetry == Permutations({u1, u2})
=============================================================================
