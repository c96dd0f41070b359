------------------------- MODULE MCSuspendSequence -------------------------
(* The board's s3c_pm_ops, a platform with every callback, one without      *)
(* enter, and one with the optional pairs the board leaves out.             *)
EXTENDS SuspendSequence

Board == {"valid", "enter", "prepare", "finish"}
Full == Board \cup {"begin", "end", "prepare_late", "wake", "recover"}
MCOpSets == {Board, Full, {"valid"}, (Full \ Board) \cup {"valid", "enter"}}
=============================================================================
