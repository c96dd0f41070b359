--------------------------- MODULE SuspendBlocker ---------------------------
(***************************************************************************)
(* What wake locks promise, with neither list, timer nor work queue: the   *)
(* system commits to a sleep only when nothing blocks it, and tries again  *)
(* whenever nothing goes on blocking it.                                   *)
(***************************************************************************)
CONSTANTS Locks, main_wake_lock

VARIABLES
  held,   \* locks that block suspend now
  mode    \* "awake", "trying" to suspend, or "committed" to it

vars == <<held, mode>>

Init == held = {main_wake_lock} /\ mode = "awake"

Acquire(l) == held' = held \cup {l} /\ UNCHANGED mode

(* Some blocks end, released or timed out.                                 *)
Release == held' \in SUBSET held /\ UNCHANGED mode

Try == held = {} /\ mode = "awake" /\ mode' = "trying" /\ UNCHANGED held
Abandon == mode = "trying" /\ mode' = "awake" /\ UNCHANGED held
Commit == held = {} /\ mode = "trying" /\ mode' = "committed" /\ UNCHANGED held
Wake == mode = "committed" /\ mode' = "awake" /\ UNCHANGED held

Next ==
  \/ \E l \in Locks : Acquire(l)
  \/ Release \/ Try \/ Abandon \/ Commit \/ Wake

Spec == Init /\ [][Next]_vars

(* A system that nothing blocks keeps trying, and no try lasts for ever.   *)
Fairness == WF_vars(Try) /\ WF_vars(Abandon \/ Commit)
=============================================================================
