--------------------------- MODULE Freezer_proofs ---------------------------
(***************************************************************************)
(* The freezer for any set of tasks and kernel threads: a freeze that      *)
(* succeeds leaves no task running, and thawing leaves none behind.        *)
(***************************************************************************)
EXTENDS CgroupFreezer, TLAPS

USE TasksAssumption

(* Where freeze_task is, and what it has seen still holds: only the        *)
(* freezing thread sets TIF_FREEZE.                                        *)
CallInv ==
  /\ step # "next" => phase = "freeze" /\ cur \in scan
  /\ step = "frozen" => ~ freezing(cur)
  /\ step = "wake" => freezing(cur) \/ frozen(cur)

(* A task that marks itself has a request; only one that is about to clear *)
(* it is frozen and has one, and task_lock keeps others off until then.    *)
FlagInv ==
  \A t \in Tasks :
    /\ task[t] = "marking" => freezing(t)
    /\ task[t] = "clearing" => frozen(t)
    /\ frozen(t) /\ freezing(t) => task[t] = "clearing"

(* While no task has been counted, those already looked at are frozen      *)
(* enough; from the second pass on the user tasks are.                     *)
FreezeInv ==
  phase = "freeze" =>
    /\ ~ todo => \A t \in Tasks \ scan : asked(t) => frozen_enough(t)
    /\ pass = 2 => \A t \in UserTasks : frozen_enough(t)
    /\ pass = 1 => \A k \in KThreads : ~ frozen(k) /\ ~ freezing(k)

(* What the second pass of thaw_tasks has been over is thawed.             *)
ThawInv ==
  phase = "thaw" /\ pass = 2 => \A t \in Tasks \ scan : ~ frozen(t) /\ ~ freezing(t)

IInv ==
  /\ TypeOK /\ CallInv /\ FlagInv /\ FreezeInv /\ ThawInv
  /\ FrozenEnough /\ AllThawed

(* At first no task is asked to freeze and the loop is at rest.            *)
LEMMA InitIInv == Init => IInv
BY DEF Init, IInv, TypeOK, CallInv, FlagInv, FreezeInv, ThawInv, FrozenEnough,
       AllThawed, TaskStates, frozen, freezing

(* What a step of a task does: it sets no request, takes off only its own  *)
(* and thereby stays frozen enough if it was.                              *)
TaskMove(t) ==
  \/ sleep(t) \/ event(t) \/ wake_parked(t) \/ taskStep(t)

(* A step of a task sets no request and keeps "frozen enough".             *)
LEMMA TaskStep ==
  ASSUME TypeOK, FlagInv, NEW t \in Tasks, TaskMove(t)
  PROVE  /\ TypeOK' /\ FlagInv' /\ UNCHANGED freezerVars
         /\ tif_freeze' \in SUBSET tif_freeze
         /\ \A u \in Tasks :
              /\ frozen_enough(u) => frozen_enough(u)'
              /\ freezing(u) => freezing(u)' \/ frozen(u)'
              /\ frozen(u) => frozen(u)'
              /\ ~ freezing(u) /\ ~ frozen(u) => ~ frozen(u)'
<1> USE DEF TypeOK, FlagInv, TaskStates, frozen, freezing, frozen_enough, goto,
            freezerVars, loopVars, callVars
<1>1. CASE sleep(t)
  BY <1>1 DEF sleep, UserTasks
<1>2. CASE event(t)
  BY <1>2 DEF event
<1>3. CASE wake_parked(t)
  BY <1>3 DEF wake_parked
<1>4. CASE try_to_freeze(t)
  BY <1>4 DEF try_to_freeze
<1>5. CASE refrigerator(t)
  BY <1>5 DEF refrigerator
<1>6. CASE frozen_process_mark(t)
  BY <1>6 DEF frozen_process_mark
<1>7. CASE frozen_process_clear(t)
  BY <1>7 DEF frozen_process_clear
<1>8. CASE leave_refrigerator(t)
  BY <1>8 DEF leave_refrigerator
<1> QED
  BY <1>1, <1>2, <1>3, <1>4, <1>5, <1>6, <1>7, <1>8 DEF TaskMove, taskStep

(* Hence it keeps the invariant.                                           *)
LEMMA TaskStepIInv ==
  ASSUME IInv, NEW t \in Tasks, TaskMove(t)
  PROVE  IInv'
<1>1. /\ TypeOK' /\ FlagInv' /\ UNCHANGED <<phase, pass, scan, todo, cur, step>>
      /\ tif_freeze' \in SUBSET tif_freeze
      /\ \A u \in Tasks :
           /\ frozen_enough(u) => frozen_enough(u)'
           /\ freezing(u) => freezing(u)' \/ frozen(u)'
           /\ frozen(u) => frozen(u)'
           /\ ~ freezing(u) /\ ~ frozen(u) => ~ frozen(u)'
  BY TaskStep DEF IInv, freezerVars, loopVars, callVars
<1>2. cur \in Tasks
  BY DEF IInv, TypeOK
<1>3. CallInv'
  BY <1>1, <1>2 DEF IInv, CallInv, freezing, frozen
<1>4. FreezeInv'
  BY <1>1 DEF IInv, FreezeInv, asked, UserTasks, freezing
<1>5. ThawInv'
  BY <1>1 DEF IInv, ThawInv, freezing
<1>6. FrozenEnough'
  BY <1>1 DEF IInv, FrozenEnough
<1>7. AllThawed'
  BY <1>1 DEF IInv, TypeOK, AllThawed, freezing, frozen
<1> QED
  BY <1>1, <1>3, <1>4, <1>5, <1>6, <1>7 DEF IInv

(* So do the steps of freeze_processes and thaw_processes.                 *)
LEMMA FreezerStepIInv ==
  ASSUME IInv, freeze_processes \/ loopStep \/ round_again \/ round_fails
  PROVE  IInv'
<1> USE DEF IInv, TypeOK, CallInv, FlagInv, FreezeInv, ThawInv, FrozenEnough, AllThawed,
            frozen, freezing, frozen_enough, asked, loopVars, callVars, UserTasks, TaskStates
<1>1. CASE freeze_processes
  <2>1. step = "next" /\ tif_freeze = {} /\ pf_frozen = {}
    BY <1>1 DEF freeze_processes
  <2>2. /\ phase' = "freeze" /\ pass' = 1 /\ scan' = Tasks /\ todo' = FALSE
        /\ UNCHANGED <<tif_freeze, pf_frozen, task, cur, step>>
    BY <1>1 DEF freeze_processes, start_round
  <2>3. TypeOK' /\ CallInv' /\ FlagInv'
    BY <2>1, <2>2
  <2>4. FreezeInv' /\ ThawInv' /\ FrozenEnough' /\ AllThawed'
    BY <2>1, <2>2
  <2> QED
    BY <2>3, <2>4
<1>2. ASSUME NEW t \in Tasks, look(t) PROVE IInv'
  BY <1>2 DEF look, next_task
<1>3. ASSUME NEW t \in Tasks, cancel_freezing(t) PROVE IInv'
  BY <1>3 DEF cancel_freezing, lock_free
<1>4. ASSUME NEW t \in Tasks, thaw_process(t) PROVE IInv'
  BY <1>4 DEF thaw_process, lock_free
<1>5. CASE freeze_task_freezing
  BY <1>5 DEF freeze_task_freezing
<1>6. CASE freeze_task_frozen
  BY <1>6 DEF freeze_task_frozen, next_task
<1>7. CASE freeze_task_wake
  BY <1>7 DEF freeze_task_wake, next_task
<1>8. CASE round_again
  BY <1>8 DEF round_again, round_over, start_round
<1>9. CASE round_fails
  BY <1>9 DEF round_fails, round_over
<1>10. CASE pass_over
  BY <1>10 DEF pass_over, round_over, start_round
<1>11. CASE thaw_processes
  BY <1>11 DEF thaw_processes
<1>12. CASE thaw_pass_over
  BY <1>12 DEF thaw_pass_over
<1> QED
  BY <1>1, <1>2, <1>3, <1>4, <1>5, <1>6, <1>7, <1>8, <1>9, <1>10, <1>11, <1>12 DEF loopStep

(* Every step keeps it.                                                    *)
LEMMA NextIInv == IInv /\ [Next]_vars => IInv'
<1> SUFFICES ASSUME IInv, [Next]_vars PROVE IInv'
  OBVIOUS
<1>1. CASE UNCHANGED vars
  BY <1>1 DEF vars, freezerVars, loopVars, callVars, IInv, TypeOK, CallInv, FlagInv,
              FreezeInv, ThawInv, FrozenEnough, AllThawed, frozen, freezing,
              frozen_enough, asked
<1>2. ASSUME NEW t \in Tasks, sleep(t) \/ event(t) \/ wake_parked(t) \/ taskStep(t)
      PROVE  IInv'
  BY <1>2, TaskStepIInv DEF TaskMove
<1> QED
  BY <1>1, <1>2, FreezerStepIInv DEF Next

(* The invariant of the task freezer holds in every state.                 *)
THEOREM Invariance == Spec => []IInv
BY InitIInv, NextIInv, PTL DEF Spec

(* The flags and the loops stay within their types, and only tasks inside  *)
(* refrigerator are frozen.                                                *)
THEOREM TypeCorrect == Spec => []TypeOK
<1>1. IInv => TypeOK
  BY DEF IInv
<1> QED
  BY <1>1, Invariance, PTL

(* freeze_processes returns 0 only with every task frozen or certain to    *)
(* freeze before it runs again.                                            *)
THEOREM NoTaskRunsWhenFrozen == Spec => []FrozenEnough
<1>1. IInv => FrozenEnough
  BY DEF IInv
<1> QED
  BY <1>1, Invariance, PTL

(* Kernel threads are frozen after all user tasks.                         *)
THEOREM KernelThreadsFreezeLast == Spec => []KernelThreadsLast
<1>1. IInv => KernelThreadsLast
  BY DEF IInv, TypeOK, FreezeInv, KernelThreadsLast
<1> QED
  BY <1>1, Invariance, PTL

(* thaw_processes forgets no task, whatever races refrigerator runs with   *)
(* freezing that fails.                                                    *)
THEOREM NoTaskLeftFrozen == Spec => []AllThawed
<1>1. IInv => AllThawed
  BY DEF IInv
<1> QED
  BY <1>1, Invariance, PTL

-----------------------------------------------------------------------------
(* The cgroup freezer over the task freezer, for any tasks: what the two   *)
(* freezers promise holds however user tasks freeze and thaw the cgroup,   *)
(* move, fork and exit while the system is suspended.                      *)

(* Where freeze_task is, and what it has seen still holds: no cgroup sets  *)
(* a request, and no task leaves the task list, in the middle of a loop.   *)
LoopInv ==
  /\ step # "next" => phase = "freeze" /\ cur \in scan /\ on_list(cur)
  /\ step = "frozen" => ~ freezing(cur)
  /\ step = "wake" => freezing(cur) \/ frozen(cur)

(* A task runs while it forks, and a child has one parent.  What is not    *)
(* live runs nothing; a request to freeze comes to a new task only through *)
(* its cgroup until it is on the task list.                                *)
ForkInv ==
  /\ \A p, c \in UserTasks : <<p, c>> \in forking =>
       /\ life[p] = "live" /\ task[p] = "running"
       /\ \A q \in UserTasks : <<q, c>> \in forking => q = p
  /\ \A t \in Tasks :
       /\ life[t] # "live" => task[t] = "running"
       /\ life[t] \in {"none", "copied"} => ~ freezing(t)
       /\ life[t] = "called" /\ freezing(t) => t \in css

(* What does not happen unless the behaviour's situations allow it: parent *)
(* and child in different cgroups, a freeze given up.                      *)
MoveInv ==
  /\ "move_forking" \notin allowed =>
       \A p, c \in UserTasks : <<p, c>> \in forking => (p \in css <=> c \in css)
  /\ "freeze_fails" \notin allowed => phase # "cancel"

(* While no task has been counted, those on the list and already looked at *)
(* are frozen enough; from the second pass on the user tasks are, and none *)
(* is half made.                                                           *)
PassInv ==
  phase = "freeze" =>
    /\ ~ todo => \A t \in Tasks \ scan : asked(t) /\ on_list(t) => frozen_enough(t)
    /\ pass = 2 => \A t \in UserTasks : life[t] = "none" \/ frozen_enough(t)

(* A task that is frozen or asked to is so for the cgroup's sake.          *)
Accounted(t) ==
  frozen(t) \/ freezing(t) => t \in css \/ (t \in UserTasks /\ "move_asked" \in allowed)

(* So it is for the tasks the second pass of thaw_tasks has been over, and *)
(* for all while no suspend is under way.                                  *)
LeftInv ==
  /\ phase = "thaw" /\ pass = 2 => \A t \in Tasks \ scan : Accounted(t)
  /\ phase = "idle" => \A t \in Tasks : Accounted(t)

(* The inductive invariant.                                                *)
CGInv ==
  /\ CGTypeOK /\ LoopInv /\ FlagInv /\ ForkInv /\ MoveInv /\ PassInv /\ LeftInv
  /\ AllFrozenEnough /\ FrozenMeansFrozen /\ NoFreezerBug

(* No task is frozen, asked to freeze or forking at the start.             *)
LEMMA InitCGInv == CGInit => CGInv
BY SituatedAssumption
   DEF CGInit, Init, CGInv, CGTypeOK, TypeOK, LoopInv, FlagInv, ForkInv, MoveInv,
       PassInv, LeftInv, Accounted, AllFrozenEnough, FrozenMeansFrozen, NoFreezerBug,
       TaskStates, LifeStates, FStates, UserTasks, frozen, freezing, members

(* A user task that runs has not been overlooked by the system's freeze:   *)
(* it is still to be looked at, or has been counted.                       *)
LEMMA Awake ==
  ASSUME CGInv, NEW w \in UserTasks, life[w] = "live", task[w] = "running"
  PROVE  /\ ~ frozen(w) /\ ~ frozen_enough(w) /\ phase # "frozen"
         /\ phase = "freeze" => pass = 1 /\ (w \in scan \/ todo)
<1>1. w \in Tasks /\ ~ frozen(w) /\ ~ frozen_enough(w)
  BY DEF CGInv, CGTypeOK, TypeOK, UserTasks, frozen, frozen_enough
<1>2. phase # "frozen"
  BY <1>1 DEF CGInv, AllFrozenEnough
<1>3. phase = "freeze" => pass = 1
  BY <1>1 DEF CGInv, CGTypeOK, TypeOK, PassInv
<1>4. phase = "freeze" => w \in scan \/ todo
  BY <1>1 DEF CGInv, PassInv, on_list, asked, UserTasks
<1> QED
  BY <1>1, <1>2, <1>3, <1>4

(* So no loop of a freeze that may still succeed is under way when a user  *)
(* task that runs uses the cgroup.                                         *)
LEMMA Undisturbed ==
  ASSUME CGInv, NEW w \in UserTasks, life[w] = "live", task[w] = "running", no_loop
  PROVE  /\ ~ frozen(w) /\ ~ frozen_enough(w) /\ phase # "frozen" /\ step = "next"
         /\ phase = "freeze" => pass = 1 /\ todo
<1>1. /\ ~ frozen(w) /\ ~ frozen_enough(w) /\ phase # "frozen"
      /\ phase = "freeze" => pass = 1 /\ (w \in scan \/ todo)
  BY Awake
<1> QED
  BY <1>1 DEF CGInv, LoopInv, no_loop

-----------------------------------------------------------------------------
(* The cgroup's state.                                                     *)

(* The state may become FROZEN once every member is frozen or stopped with *)
(* a request: no member is then in the middle of a fork.                   *)
LEMMA StateChange ==
  ASSUME CGInv, UNCHANGED <<vars, allowed, css, life, forking>>, fstate' \in FStates,
         fstate' = "FROZEN" => \A t \in members : is_task_frozen_enough(t)
  PROVE  CGInv'
<1> USE DEF CGInv
<1>1. /\ UNCHANGED <<tif_freeze, pf_frozen, task, phase, pass, scan, todo, cur, step>>
      /\ UNCHANGED <<allowed, css, life, forking>>
  BY DEF vars, freezerVars, loopVars, callVars
<1>2. CGTypeOK' /\ FlagInv'
  BY <1>1 DEF CGTypeOK, TypeOK, FlagInv, frozen, freezing
<1>3. LoopInv' /\ ForkInv' /\ MoveInv'
  BY <1>1 DEF LoopInv, ForkInv, MoveInv, on_list, frozen, freezing
<1>4. PassInv' /\ LeftInv' /\ AllFrozenEnough'
  BY <1>1 DEF PassInv, LeftInv, Accounted, AllFrozenEnough, asked, on_list, frozen_enough,
              frozen, freezing
<1>5. FrozenMeansFrozen'
  BY <1>1 DEF FrozenMeansFrozen, members, is_task_frozen_enough, frozen_enough, frozen,
              freezing
<1>6. NoFreezerBug'
  <2> SUFFICES ASSUME allowed \cap {"freeze_fails", "move_forking"} = {}, fstate' = "FROZEN",
                      NEW c \in css, life[c] = "copied"
               PROVE  FALSE
    BY <1>1 DEF NoFreezerBug
  <2>1. PICK p \in UserTasks : <<p, c>> \in forking /\ c \in UserTasks
    BY DEF CGTypeOK, UserTasks
  <2>2. life[p] = "live" /\ task[p] = "running" /\ p \in css
    BY <2>1 DEF ForkInv, MoveInv
  <2>3. is_task_frozen_enough(p)
    BY <2>2 DEF members
  <2> QED
    BY <2>1, <2>2, <2>3, Awake DEF is_task_frozen_enough
<1> QED
  BY <1>2, <1>3, <1>4, <1>5, <1>6

(* freezer_read and freezer_create.                                        *)
LEMMA ReadStep ==
  ASSUME CGInv, NEW w \in UserTasks, freezer_read(w) \/ freezer_create(w)
  PROVE  CGInv'
<1>1. fstate' \in FStates /\ UNCHANGED <<vars, allowed, css, life, forking>>
  BY DEF freezer_read, freezer_create, FStates, update_freezer_state
<1>2. fstate' = "FROZEN" => \A t \in members : is_task_frozen_enough(t)
  BY DEF freezer_read, freezer_create, update_freezer_state
<1> QED
  BY <1>1, <1>2, StateChange

(* What freeze_task, called for user tasks that are not in a fork's first  *)
(* step, does to the flags.                                                *)
LEMMA Told ==
  ASSUME CGInv, NEW ts \in SUBSET Tasks, freeze_tasks(ts), UNCHANGED pf_frozen
  PROVE  /\ task' \in [Tasks -> TaskStates] /\ FlagInv'
         /\ tif_freeze \in SUBSET tif_freeze' /\ tif_freeze' \in SUBSET Tasks
         /\ \A t \in Tasks :
              /\ freezing(t)' => freezing(t) \/ (t \in ts \cap UserTasks /\ ~ frozen(t))
              /\ task'[t] = task[t] \/ (task[t] = "sleeping" /\ task'[t] = "running")
              /\ frozen_enough(t) => frozen_enough(t)'
<1> USE DEF CGInv, CGTypeOK, TypeOK, FlagInv, freeze_tasks, frozen, freezing,
            frozen_enough, UserTasks
<1>1. task' \in [Tasks -> TaskStates]
  BY DEF TaskStates
<1>2. FlagInv'
  OBVIOUS
<1> QED
  BY <1>1, <1>2

(* try_to_freeze_cgroup asks members only, and claims FREEZING.            *)
LEMMA FreezeStep ==
  ASSUME CGInv, NEW w \in UserTasks, user_task(w), try_to_freeze_cgroup,
         UNCHANGED <<freezerVars, allowed, css, life, forking>>
  PROVE  CGInv'
<1> USE DEF CGInv
<1>1. /\ UNCHANGED <<pf_frozen, phase, pass, scan, todo, cur, step>>
      /\ UNCHANGED <<allowed, css, life, forking>> /\ fstate' = "FREEZING"
      /\ members \in SUBSET Tasks
  BY DEF freezerVars, loopVars, callVars, try_to_freeze_cgroup, members, CGTypeOK,
         UserTasks
<1>2. /\ task' \in [Tasks -> TaskStates] /\ FlagInv'
      /\ tif_freeze \in SUBSET tif_freeze' /\ tif_freeze' \in SUBSET Tasks
      /\ \A t \in Tasks :
           /\ freezing(t)' => freezing(t) \/ (t \in members \cap UserTasks /\ ~ frozen(t))
           /\ task'[t] = task[t] \/ (task[t] = "sleeping" /\ task'[t] = "running")
           /\ frozen_enough(t) => frozen_enough(t)'
  BY <1>1, Told DEF try_to_freeze_cgroup, TypeOK
<1>3. phase # "frozen" /\ step = "next" /\ (phase = "freeze" => pass = 1 /\ todo)
  BY Undisturbed DEF user_task
<1>4. CGTypeOK'
  BY <1>1, <1>2 DEF CGTypeOK, TypeOK, FStates
<1>5. LoopInv' /\ MoveInv' /\ PassInv' /\ AllFrozenEnough'
  BY <1>1, <1>3 DEF LoopInv, MoveInv, PassInv, AllFrozenEnough
<1>6. ForkInv'
  BY <1>1, <1>2 DEF ForkInv, members, freezing, UserTasks
<1>7. LeftInv'
  BY <1>1, <1>2 DEF LeftInv, Accounted, frozen, members
<1>8. FrozenMeansFrozen' /\ NoFreezerBug'
  BY <1>1 DEF FrozenMeansFrozen, NoFreezerBug
<1> QED
  BY <1>2, <1>4, <1>5, <1>6, <1>7, <1>8

(* unfreeze_cgroup takes off the marks of tasks that task_lock is free of. *)
LEMMA UnfreezeStep ==
  ASSUME CGInv, NEW w \in UserTasks, user_task(w), unfreeze_cgroup,
         UNCHANGED <<freezerVars, allowed, css, life, forking>>
  PROVE  CGInv'
<1> USE DEF CGInv
<1>1. /\ UNCHANGED <<task, phase, pass, scan, todo, cur, step>>
      /\ UNCHANGED <<allowed, css, life, forking>> /\ fstate' = "THAWED"
      /\ pf_frozen' = pf_frozen \ members
      /\ tif_freeze' = tif_freeze \ {t \in members : ~ frozen(t)}
      /\ \A t \in members : lock_free(t)
  BY DEF freezerVars, loopVars, callVars, unfreeze_cgroup
<1>2. phase # "frozen" /\ step = "next" /\ (phase = "freeze" => pass = 1 /\ todo)
  BY Undisturbed DEF user_task
<1>3. CGTypeOK'
  BY <1>1 DEF CGTypeOK, TypeOK, FStates
<1>4. FlagInv'
  BY <1>1 DEF FlagInv, frozen, freezing, lock_free
<1>5. LoopInv' /\ MoveInv' /\ PassInv' /\ AllFrozenEnough'
  BY <1>1, <1>2 DEF LoopInv, MoveInv, PassInv, AllFrozenEnough
<1>6. ForkInv' /\ LeftInv'
  BY <1>1 DEF ForkInv, LeftInv, Accounted, frozen, freezing
<1>7. FrozenMeansFrozen' /\ NoFreezerBug'
  BY <1>1 DEF FrozenMeansFrozen, NoFreezerBug
<1> QED
  BY <1>3, <1>4, <1>5, <1>6, <1>7

(* freezer_write: one of the three.                                        *)
LEMMA WriteStep ==
  ASSUME CGInv, NEW w \in UserTasks, NEW g \in {"THAWED", "FROZEN"}, freezer_write(w, g)
  PROVE  CGInv'
<1>1. user_task(w) /\ UNCHANGED <<freezerVars, allowed, css, life, forking>>
  BY DEF freezer_write
<1>2. CASE /\ update_freezer_state = g /\ fstate' = g
           /\ UNCHANGED <<tif_freeze, pf_frozen, task>>
  <2>1. fstate' \in FStates /\ UNCHANGED <<vars, allowed, css, life, forking>>
    BY <1>1, <1>2 DEF FStates, vars
  <2>2. fstate' = "FROZEN" => \A t \in members : is_task_frozen_enough(t)
    BY <1>2 DEF update_freezer_state
  <2> QED
    BY <2>1, <2>2, StateChange
<1>3. CASE unfreeze_cgroup
  BY <1>1, <1>3, UnfreezeStep
<1>4. CASE try_to_freeze_cgroup
  BY <1>1, <1>4, FreezeStep
<1> QED
  BY <1>2, <1>3, <1>4 DEF freezer_write

(* A task is moved out only with no request, or it takes the request with  *)
(* it to the root cgroup; moved in only where FROZEN is not claimed.       *)
LEMMA AttachStep ==
  ASSUME CGInv, NEW w \in UserTasks, NEW t \in UserTasks, cgroup_attach_task(w, t)
  PROVE  CGInv'
<1> USE DEF CGInv
<1>1. /\ UNCHANGED <<tif_freeze, pf_frozen, task, phase, pass, scan, todo, cur, step>>
      /\ UNCHANGED <<allowed, life, forking, fstate>>
      /\ css' = IF t \in css THEN css \ {t} ELSE css \cup {t}
      /\ life[t] \in {"hashed", "live"}
      /\ in_fork(t) \/ life[t] = "hashed" => "move_forking" \in allowed
      /\ freezing(t) => "move_asked" \in allowed
      /\ ~ frozen(t) /\ (t \in css \/ fstate # "FROZEN")
  BY DEF cgroup_attach_task, freezer_can_attach, is_task_frozen_enough, vars, freezerVars,
         loopVars, callVars
<1>2. CGTypeOK' /\ FlagInv' /\ LoopInv'
  BY <1>1 DEF CGTypeOK, TypeOK, FlagInv, LoopInv, on_list, frozen, freezing
<1>3. ForkInv'
  BY <1>1 DEF ForkInv, freezing
<1>4. MoveInv'
  <2> SUFFICES ASSUME "move_forking" \notin allowed, NEW p \in UserTasks, NEW c \in UserTasks,
                      <<p, c>> \in forking
               PROVE  p \in css' <=> c \in css'
    BY <1>1 DEF MoveInv
  <2>1. p \in Tasks /\ c \in Tasks /\ (p \in css <=> c \in css)
    BY DEF UserTasks, MoveInv
  <2>2. p # t
    BY <1>1, <2>1 DEF in_fork
  <2>3. c # t
    BY <1>1, <2>1 DEF CGTypeOK
  <2> QED
    BY <1>1, <2>1, <2>2, <2>3
<1>5. PassInv' /\ AllFrozenEnough'
  BY <1>1 DEF PassInv, AllFrozenEnough, asked, on_list, frozen_enough, frozen, freezing
<1>6. LeftInv'
  BY <1>1 DEF LeftInv, Accounted, frozen, freezing
<1>7. FrozenMeansFrozen' /\ NoFreezerBug'
  BY <1>1 DEF FrozenMeansFrozen, NoFreezerBug, members, frozen_enough, frozen, freezing
<1> QED
  BY <1>2, <1>3, <1>4, <1>5, <1>6, <1>7

-----------------------------------------------------------------------------
(* Forks and exits.                                                        *)

(* A member of a FROZEN cgroup does not run, so it does not fork.          *)
LEMMA CopyStep ==
  ASSUME CGInv, NEW p \in UserTasks, NEW c \in UserTasks, cgroup_fork(p, c)
  PROVE  CGInv'
<1> USE DEF CGInv
<1>1. /\ UNCHANGED <<tif_freeze, pf_frozen, task, phase, pass, scan, todo, cur, step>>
      /\ UNCHANGED <<allowed, fstate>>
      /\ forking' = forking \cup {<<p, c>>} /\ life' = [life EXCEPT ![c] = "copied"]
      /\ css' = IF p \in css THEN css \cup {c} ELSE css
      /\ life[p] = "live" /\ task[p] = "running" /\ life[c] = "none"
      /\ c \in Tasks /\ p \in Tasks /\ life \in [Tasks -> LifeStates] /\ user_task(p)
  BY DEF cgroup_fork, become, user_task, vars, freezerVars, loopVars, callVars, UserTasks,
         CGTypeOK
<1>2. /\ ~ frozen(p) /\ ~ frozen_enough(p) /\ phase # "frozen" /\ step = "next"
      /\ phase = "freeze" => pass = 1 /\ todo
  BY <1>1, Undisturbed DEF user_task
<1>3. \A q \in Tasks : <<q, c>> \notin forking
  BY <1>1 DEF CGTypeOK
<1>4. CGTypeOK'
  <2>1. TypeOK' /\ allowed' \in Situated /\ fstate' \in FStates
    BY <1>1 DEF CGTypeOK, TypeOK
  <2>2. css' \subseteq {t \in UserTasks : life'[t] # "none"}
    BY <1>1 DEF CGTypeOK, UserTasks
  <2>3. life' \in [Tasks -> LifeStates] /\ forking' \subseteq UserTasks \X UserTasks
    BY <1>1 DEF CGTypeOK, LifeStates
  <2>4. \A d \in Tasks : life'[d] \in {"copied", "called", "hashed"}
                           <=> \E q \in Tasks : <<q, d>> \in forking'
    BY <1>1 DEF CGTypeOK
  <2> QED
    BY <2>1, <2>2, <2>3, <2>4 DEF CGTypeOK
<1>5. FlagInv' /\ LoopInv' /\ PassInv' /\ AllFrozenEnough'
  BY <1>1, <1>2 DEF FlagInv, LoopInv, PassInv, AllFrozenEnough, frozen, freezing
<1>6. ForkInv'
  BY <1>1, <1>3 DEF ForkInv, freezing, UserTasks
<1>7. MoveInv'
  <2>1. c # p /\ c \notin css /\ (\A q \in UserTasks : <<c, q>> \notin forking)
    BY <1>1 DEF CGTypeOK, ForkInv
  <2> QED
    BY <1>1, <1>3, <2>1 DEF MoveInv, UserTasks
<1>8. LeftInv'
  BY <1>1 DEF LeftInv, Accounted, frozen, freezing
<1>9. FrozenMeansFrozen' /\ NoFreezerBug'
  <2>1. members' = members
    BY <1>1 DEF members, CGTypeOK, UserTasks
  <2>2. FrozenMeansFrozen'
    BY <1>1, <2>1 DEF FrozenMeansFrozen, frozen_enough, frozen, freezing
  <2>3. fstate = "FROZEN" /\ allowed \cap {"freeze_fails", "move_forking"} = {}
          => p \notin css
    BY <1>1, <1>2 DEF FrozenMeansFrozen, members
  <2>4. NoFreezerBug'
    BY <1>1, <2>3 DEF NoFreezerBug, CGTypeOK, UserTasks
  <2> QED
    BY <2>2, <2>4
<1> QED
  BY <1>4, <1>5, <1>6, <1>7, <1>8, <1>9

(* What is known of a fork under way.                                      *)
LEMMA Forking ==
  ASSUME CGInv, NEW p \in UserTasks, NEW c \in UserTasks, <<p, c>> \in forking
  PROVE  /\ life[p] = "live" /\ task[p] = "running" /\ life[c] # "live"
         /\ task[c] = "running" /\ ~ frozen(c) /\ p \in Tasks /\ c \in Tasks
         /\ \A q \in Tasks : <<q, c>> \in forking => q = p
         /\ \A q \in Tasks : <<c, q>> \notin forking
<1> USE DEF CGInv
<1>1. /\ life[p] = "live" /\ task[p] = "running" /\ p \in Tasks /\ c \in Tasks
      /\ life[c] \in {"copied", "called", "hashed"}
  BY DEF ForkInv, CGTypeOK, UserTasks
<1>2. task[c] = "running" /\ ~ frozen(c)
  BY <1>1 DEF ForkInv, CGTypeOK, TypeOK, frozen
<1>3. \A q \in Tasks : <<q, c>> \in forking => q = p
  BY DEF ForkInv, CGTypeOK
<1>4. \A q \in Tasks : <<c, q>> \notin forking
  BY <1>1 DEF ForkInv, CGTypeOK
<1> QED
  BY <1>1, <1>2, <1>3, <1>4

(* freezer_fork asks the child of a FREEZING cgroup, which is in it.       *)
LEMMA CalledStep ==
  ASSUME CGInv, NEW p \in UserTasks, NEW c \in UserTasks, freezer_fork(p, c)
  PROVE  CGInv'
<1> USE DEF CGInv
<1>1. /\ UNCHANGED <<pf_frozen, phase, pass, scan, todo, cur, step>>
      /\ UNCHANGED <<allowed, css, forking, fstate>>
      /\ <<p, c>> \in forking /\ life[c] = "copied" /\ no_loop
      /\ life' = [life EXCEPT ![c] = "called"] /\ life \in [Tasks -> LifeStates]
      /\ \/ c \in css /\ fstate = "FREEZING" /\ freeze_tasks({c})
         \/ UNCHANGED <<tif_freeze, task>>
  BY DEF freezer_fork, become, freezerVars, loopVars, callVars, CGTypeOK
<1>2. /\ life[p] = "live" /\ task[p] = "running" /\ task[c] = "running" /\ ~ frozen(c)
      /\ p \in Tasks /\ c \in Tasks
  BY <1>1, Forking
<1>3. phase # "frozen" /\ step = "next" /\ (phase = "freeze" => pass = 1 /\ todo)
  BY <1>1, <1>2, Undisturbed
<1>4. /\ task' \in [Tasks -> TaskStates] /\ FlagInv'
      /\ tif_freeze \in SUBSET tif_freeze' /\ tif_freeze' \in SUBSET Tasks
      /\ \A t \in Tasks :
           /\ freezing(t)' => freezing(t) \/ (t = c /\ c \in css)
           /\ task'[t] = task[t] \/ (task[t] = "sleeping" /\ task'[t] = "running")
           /\ frozen_enough(t) => frozen_enough(t)'
  <2>1. CASE c \in css /\ freeze_tasks({c})
    <3>1. {c} \in SUBSET Tasks /\ UNCHANGED pf_frozen
      BY <1>1, <1>2
    <3>2. /\ task' \in [Tasks -> TaskStates] /\ FlagInv'
          /\ tif_freeze \in SUBSET tif_freeze' /\ tif_freeze' \in SUBSET Tasks
          /\ \A t \in Tasks :
               /\ freezing(t)' => freezing(t) \/ (t \in {c} \cap UserTasks /\ ~ frozen(t))
               /\ task'[t] = task[t] \/ (task[t] = "sleeping" /\ task'[t] = "running")
               /\ frozen_enough(t) => frozen_enough(t)'
      BY <2>1, <3>1, Told
    <3> QED
      BY <2>1, <3>2
  <2>2. CASE UNCHANGED <<tif_freeze, task>>
    BY <1>1, <2>2 DEF CGTypeOK, TypeOK, FlagInv, frozen, freezing, frozen_enough
  <2> QED
    BY <1>1, <2>1, <2>2
<1>5. CGTypeOK'
  <2>1. TypeOK' /\ allowed' \in Situated /\ fstate' \in FStates
    BY <1>1, <1>4 DEF CGTypeOK, TypeOK
  <2>2. css' \subseteq {t \in UserTasks : life'[t] # "none"}
    BY <1>1, <1>2 DEF CGTypeOK, UserTasks
  <2>3. life' \in [Tasks -> LifeStates] /\ forking' \subseteq UserTasks \X UserTasks
    BY <1>1 DEF CGTypeOK, LifeStates
  <2>4. \A d \in Tasks : life'[d] \in {"copied", "called", "hashed"}
                           <=> \E q \in Tasks : <<q, d>> \in forking'
    BY <1>1, <1>2 DEF CGTypeOK
  <2> QED
    BY <2>1, <2>2, <2>3, <2>4 DEF CGTypeOK
<1>6. LoopInv' /\ MoveInv' /\ PassInv' /\ AllFrozenEnough'
  BY <1>1, <1>3 DEF LoopInv, MoveInv, PassInv, AllFrozenEnough
<1>7. ForkInv'
  BY <1>1, <1>2, <1>4 DEF ForkInv, freezing, UserTasks
<1>8. LeftInv'
  BY <1>1, <1>4 DEF LeftInv, Accounted, frozen
<1>9. FrozenMeansFrozen' /\ NoFreezerBug'
  BY <1>1, <1>2, <1>4 DEF FrozenMeansFrozen, NoFreezerBug, members, UserTasks, CGTypeOK
<1> QED
  BY <1>4, <1>5, <1>6, <1>7, <1>8, <1>9

(* A fork given up leaves nothing of the child behind.                     *)
LEMMA ListStep ==
  ASSUME CGInv, NEW p \in UserTasks, NEW c \in UserTasks, list_new_task(p, c)
  PROVE  CGInv'
<1> USE DEF CGInv
<1>1. /\ UNCHANGED <<pf_frozen, task, phase, pass, scan, todo, cur, step>>
      /\ UNCHANGED <<allowed, fstate>>
      /\ <<p, c>> \in forking /\ life[c] = "called" /\ no_loop
      /\ \/ /\ life' = [life EXCEPT ![c] = "none"] /\ css' = css \ {c}
            /\ forking' = forking \ {<<p, c>>} /\ tif_freeze' = tif_freeze \ {c}
         \/ /\ life' = [life EXCEPT ![c] = "hashed"]
            /\ UNCHANGED <<css, forking, tif_freeze>>
      /\ life \in [Tasks -> LifeStates]
  BY DEF list_new_task, become, freezerVars, loopVars, callVars, CGTypeOK
<1>2. /\ life[p] = "live" /\ task[p] = "running" /\ task[c] = "running" /\ ~ frozen(c)
      /\ p \in Tasks /\ c \in Tasks
      /\ \A q \in Tasks : <<q, c>> \in forking => q = p
      /\ \A q \in Tasks : <<c, q>> \notin forking
  BY <1>1, Forking
<1>3. phase # "frozen" /\ step = "next" /\ (phase = "freeze" => pass = 1 /\ todo)
  BY <1>1, <1>2, Undisturbed
<1>4. CGTypeOK'
  <2>1. TypeOK' /\ allowed' \in Situated /\ fstate' \in FStates
    BY <1>1 DEF CGTypeOK, TypeOK
  <2>2. css' \subseteq {t \in UserTasks : life'[t] # "none"}
    BY <1>1, <1>2 DEF CGTypeOK, UserTasks
  <2>3. life' \in [Tasks -> LifeStates] /\ forking' \subseteq UserTasks \X UserTasks
    BY <1>1 DEF CGTypeOK, LifeStates
  <2>4. \A d \in Tasks : life'[d] \in {"copied", "called", "hashed"}
                           <=> \E q \in Tasks : <<q, d>> \in forking'
    BY <1>1, <1>2 DEF CGTypeOK
  <2> QED
    BY <2>1, <2>2, <2>3, <2>4 DEF CGTypeOK
<1>5. FlagInv' /\ LoopInv' /\ PassInv' /\ AllFrozenEnough'
  BY <1>1, <1>2, <1>3 DEF FlagInv, LoopInv, PassInv, AllFrozenEnough, frozen, freezing
<1>6. ForkInv'
  BY <1>1, <1>2 DEF ForkInv, freezing, UserTasks
<1>7. MoveInv'
  BY <1>1, <1>2 DEF MoveInv, UserTasks
<1>8. LeftInv'
  BY <1>1, <1>2 DEF LeftInv, Accounted, frozen, freezing
<1>9. FrozenMeansFrozen' /\ NoFreezerBug'
  BY <1>1, <1>2 DEF FrozenMeansFrozen, NoFreezerBug, members, frozen_enough, frozen, freezing,
                    UserTasks, CGTypeOK
<1> QED
  BY <1>4, <1>5, <1>6, <1>7, <1>8, <1>9

(* The child becomes a member of the cgroup its parent, which runs, is in: *)
(* the cgroup is not FROZEN, unless one of the two has been moved.         *)
LEMMA PostStep ==
  ASSUME CGInv, NEW p \in UserTasks, NEW c \in UserTasks, cgroup_post_fork(p, c)
  PROVE  CGInv'
<1> USE DEF CGInv
<1>1. /\ UNCHANGED <<tif_freeze, pf_frozen, task, phase, pass, scan, todo, cur, step>>
      /\ UNCHANGED <<allowed, css, fstate>>
      /\ <<p, c>> \in forking /\ life[c] = "hashed"
      /\ life' = [life EXCEPT ![c] = "live"] /\ forking' = forking \ {<<p, c>>}
      /\ life \in [Tasks -> LifeStates]
  BY DEF cgroup_post_fork, become, vars, freezerVars, loopVars, callVars, CGTypeOK
<1>2. /\ life[p] = "live" /\ task[p] = "running" /\ task[c] = "running" /\ ~ frozen(c)
      /\ p \in Tasks /\ c \in Tasks
      /\ \A q \in Tasks : <<q, c>> \in forking => q = p
      /\ \A q \in Tasks : <<c, q>> \notin forking
  BY <1>1, Forking
<1>3. /\ ~ frozen(p) /\ ~ frozen_enough(p) /\ phase # "frozen"
      /\ phase = "freeze" => pass = 1
  BY <1>2, Awake
<1>4. CGTypeOK'
  <2>1. TypeOK' /\ allowed' \in Situated /\ fstate' \in FStates
    BY <1>1 DEF CGTypeOK, TypeOK
  <2>2. css' \subseteq {t \in UserTasks : life'[t] # "none"}
    BY <1>1, <1>2 DEF CGTypeOK, UserTasks
  <2>3. life' \in [Tasks -> LifeStates] /\ forking' \subseteq UserTasks \X UserTasks
    BY <1>1 DEF CGTypeOK, LifeStates
  <2>4. \A d \in Tasks : life'[d] \in {"copied", "called", "hashed"}
                           <=> \E q \in Tasks : <<q, d>> \in forking'
    BY <1>1, <1>2 DEF CGTypeOK
  <2> QED
    BY <2>1, <2>2, <2>3, <2>4 DEF CGTypeOK
<1>5. FlagInv' /\ LoopInv' /\ AllFrozenEnough'
  BY <1>1, <1>2, <1>3 DEF FlagInv, LoopInv, AllFrozenEnough, frozen, freezing, on_list,
                          CGTypeOK, TypeOK
<1>6. PassInv'
  BY <1>1, <1>2, <1>3 DEF PassInv, asked, on_list, frozen_enough, frozen, freezing
<1>7. ForkInv'
  BY <1>1, <1>2 DEF ForkInv, freezing, UserTasks
<1>8. MoveInv' /\ LeftInv'
  BY <1>1, <1>2 DEF MoveInv, UserTasks, LeftInv, Accounted, frozen, freezing
<1>9. FrozenMeansFrozen'
  <2> SUFFICES ASSUME fstate = "FROZEN", allowed \cap {"freeze_fails", "move_forking"} = {}
               PROVE  \A t \in members' : frozen_enough(t)'
    BY <1>1 DEF FrozenMeansFrozen
  <2>1. p \notin css
    BY <1>2, <1>3 DEF FrozenMeansFrozen, members
  <2>2. c \notin css
    BY <1>1, <2>1 DEF MoveInv
  <2> QED
    BY <1>1, <2>2 DEF FrozenMeansFrozen, members, frozen_enough, frozen, freezing
<1>10. NoFreezerBug'
  BY <1>1, <1>2 DEF NoFreezerBug, CGTypeOK, UserTasks
<1> QED
  BY <1>4, <1>5, <1>6, <1>7, <1>8, <1>9, <1>10

(* cgroup_exit takes a request to freeze with it.                          *)
LEMMA ExitStep ==
  ASSUME CGInv, NEW t \in UserTasks, cgroup_exit(t)
  PROVE  CGInv'
<1> USE DEF CGInv
<1>1. /\ UNCHANGED <<pf_frozen, task, phase, pass, scan, todo, cur, step>>
      /\ UNCHANGED <<allowed, forking, fstate>> /\ t \in Tasks /\ user_task(t)
      /\ life' = [life EXCEPT ![t] = "none"] /\ css' = css \ {t}
      /\ tif_freeze' = tif_freeze \ {t}
      /\ life[t] = "live" /\ task[t] = "running" /\ ~ in_fork(t)
      /\ life \in [Tasks -> LifeStates]
  BY DEF cgroup_exit, become, user_task, freezerVars, loopVars, callVars, CGTypeOK, UserTasks
<1>2. /\ ~ frozen(t) /\ phase # "frozen" /\ step = "next"
      /\ phase = "freeze" => pass = 1 /\ todo
  BY <1>1, Undisturbed DEF user_task
<1>3. /\ \A q \in Tasks : <<q, t>> \notin forking
      /\ \A q \in Tasks : <<t, q>> \notin forking
  BY <1>1 DEF CGTypeOK, in_fork
<1>4. CGTypeOK'
  <2>1. TypeOK' /\ allowed' \in Situated /\ fstate' \in FStates
    BY <1>1 DEF CGTypeOK, TypeOK
  <2>2. css' \subseteq {u \in UserTasks : life'[u] # "none"}
    BY <1>1 DEF CGTypeOK, UserTasks
  <2>3. life' \in [Tasks -> LifeStates] /\ forking' \subseteq UserTasks \X UserTasks
    BY <1>1 DEF CGTypeOK, LifeStates
  <2>4. \A d \in Tasks : life'[d] \in {"copied", "called", "hashed"}
                           <=> \E q \in Tasks : <<q, d>> \in forking'
    BY <1>1, <1>3 DEF CGTypeOK
  <2> QED
    BY <2>1, <2>2, <2>3, <2>4 DEF CGTypeOK
<1>5. FlagInv' /\ LoopInv' /\ PassInv' /\ AllFrozenEnough'
  BY <1>1, <1>2 DEF FlagInv, LoopInv, PassInv, AllFrozenEnough, frozen, freezing
<1>6. ForkInv'
  BY <1>1, <1>3 DEF ForkInv, freezing, UserTasks
<1>7. MoveInv' /\ LeftInv'
  BY <1>1, <1>2, <1>3 DEF MoveInv, UserTasks, LeftInv, Accounted, frozen, freezing
<1>8. FrozenMeansFrozen' /\ NoFreezerBug'
  BY <1>1 DEF FrozenMeansFrozen, NoFreezerBug, members, frozen_enough, frozen, freezing,
              UserTasks, CGTypeOK
<1> QED
  BY <1>4, <1>5, <1>6, <1>7, <1>8

-----------------------------------------------------------------------------
(* The tasks and the freezing thread.                                      *)

(* The steps of a task, by TaskStep of the task freezer.                   *)
LEMMA LiveTaskStep ==
  ASSUME CGInv, NEW t \in Tasks, task_step(t)
  PROVE  CGInv'
<1> USE DEF CGInv
<1>1. /\ life[t] = "live" /\ ~ in_fork(t) /\ TaskMove(t) /\ TypeOK
      /\ UNCHANGED <<allowed, css, life, forking, fstate>>
  BY DEF task_step, TaskMove, cgVars, CGTypeOK
<1>2. /\ TypeOK' /\ FlagInv' /\ UNCHANGED <<phase, pass, scan, todo, cur, step>>
      /\ tif_freeze' \in SUBSET tif_freeze
      /\ \A u \in Tasks :
           /\ frozen_enough(u) => frozen_enough(u)'
           /\ freezing(u) => freezing(u)' \/ frozen(u)'
           /\ frozen(u) => frozen(u)'
           /\ ~ freezing(u) /\ ~ frozen(u) => ~ frozen(u)'
  BY <1>1, TaskStep DEF freezerVars, loopVars, callVars
<1>3. \A u \in Tasks : u # t => task'[u] = task[u]
  BY <1>1 DEF TaskMove, taskStep, sleep, event, wake_parked, try_to_freeze, refrigerator,
              frozen_process_mark, frozen_process_clear, leave_refrigerator, goto, TypeOK
<1>4. CGTypeOK'
  BY <1>1, <1>2 DEF CGTypeOK
<1>5. cur \in Tasks
  BY <1>1 DEF TypeOK
<1>6. LoopInv' /\ MoveInv'
  BY <1>1, <1>2, <1>5 DEF LoopInv, MoveInv, on_list, freezing, frozen
<1>7. ForkInv'
  <2>1. \A q \in Tasks : <<t, q>> \notin forking
    BY <1>1 DEF in_fork
  <2> QED
    BY <1>1, <1>2, <1>3, <2>1 DEF ForkInv, freezing, UserTasks
<1>8. PassInv' /\ AllFrozenEnough'
  BY <1>1, <1>2 DEF PassInv, AllFrozenEnough, asked, on_list, UserTasks
<1>9. LeftInv'
  BY <1>1, <1>2 DEF LeftInv, Accounted, freezing
<1>10. FrozenMeansFrozen' /\ NoFreezerBug'
  BY <1>1, <1>2 DEF FrozenMeansFrozen, NoFreezerBug, members, CGTypeOK, UserTasks
<1> QED
  BY <1>2, <1>4, <1>6, <1>7, <1>8, <1>9, <1>10

(* A child that is not on the list, or a cgroup's task that is not to be   *)
(* thawed, is passed over with nothing lost.                               *)
LEMMA ContinueStep ==
  ASSUME CGInv, NEW t \in Tasks, loop_continue(t)
  PROVE  CGInv'
<1> USE DEF CGInv
<1>1. /\ UNCHANGED <<tif_freeze, pf_frozen, task, phase, pass, todo, cur, step>>
      /\ UNCHANGED <<allowed, css, life, forking, fstate>>
      /\ t \in scan /\ step = "next" /\ scan' = scan \ {t}
      /\ ~ on_list(t) \/ (phase = "thaw" /\ cgroup_freezing_or_frozen(t))
  BY DEF loop_continue, cgVars, callVars
<1>2. CGTypeOK' /\ FlagInv' /\ LoopInv' /\ MoveInv'
  BY <1>1 DEF CGTypeOK, TypeOK, FlagInv, LoopInv, MoveInv, frozen, freezing
<1>3. ForkInv' /\ AllFrozenEnough'
  BY <1>1 DEF ForkInv, AllFrozenEnough, frozen_enough, frozen, freezing
<1>4. PassInv'
  BY <1>1 DEF PassInv, asked, on_list, frozen_enough, frozen, freezing
<1>5. Accounted(t)
  BY <1>1 DEF Accounted, cgroup_freezing_or_frozen, on_list, ForkInv, CGTypeOK, TypeOK,
              LifeStates, frozen, freezing
<1>6. LeftInv'
  BY <1>1, <1>5 DEF LeftInv, Accounted, frozen, freezing
<1>7. FrozenMeansFrozen' /\ NoFreezerBug'
  BY <1>1 DEF FrozenMeansFrozen, NoFreezerBug, members, frozen_enough, frozen, freezing
<1> QED
  BY <1>2, <1>3, <1>4, <1>6, <1>7

(* A step of the freezing thread that changes neither flags nor tasks and  *)
(* keeps its own invariants keeps the others.                              *)
LEMMA QuietStep ==
  ASSUME CGInv, UNCHANGED <<tif_freeze, pf_frozen, task, cgVars>>,
         TypeOK', LoopInv', PassInv', LeftInv', AllFrozenEnough',
         "freeze_fails" \notin allowed => phase' # "cancel"
  PROVE  CGInv'
<1> USE DEF CGInv, cgVars
<1>1. CGTypeOK' /\ FlagInv' /\ MoveInv'
  BY DEF CGTypeOK, FlagInv, MoveInv, frozen, freezing
<1>2. ForkInv' /\ FrozenMeansFrozen' /\ NoFreezerBug'
  BY DEF ForkInv, FrozenMeansFrozen, NoFreezerBug, members, frozen_enough, frozen, freezing
<1> QED
  BY <1>1, <1>2

(* Once a round has counted nobody, all user tasks are frozen enough and   *)
(* none is half made: its parent would run.                                *)
LEMMA RoundDone ==
  ASSUME CGInv, round_over, ~ todo
  PROVE  /\ \A t \in UserTasks : life[t] = "none" \/ frozen_enough(t)
         /\ pass = 2 => \A t \in Tasks : life[t] = "none" \/ frozen_enough(t)
<1> USE DEF CGInv
<1>1. phase = "freeze" /\ scan = {}
  BY DEF round_over
<1>2. \A t \in Tasks : asked(t) /\ on_list(t) => frozen_enough(t)
  BY <1>1 DEF PassInv
<1>3. \A t \in Tasks : life[t] \notin {"copied", "called", "hashed"}
  <2> SUFFICES ASSUME NEW c \in Tasks, life[c] \in {"copied", "called", "hashed"}
               PROVE  FALSE
    OBVIOUS
  <2>1. PICK p \in UserTasks : <<p, c>> \in forking /\ c \in UserTasks
    BY DEF CGTypeOK
  <2>2. life[p] = "live" /\ task[p] = "running"
    BY <2>1, Forking
  <2> QED
    BY <1>1, <2>2, Awake
<1> QED
  BY <1>2, <1>3 DEF CGTypeOK, LifeStates, on_list, asked, UserTasks

(* The steps of the freezing thread that leave the tasks' flags alone.     *)
LEMMA FreezingThreadStep ==
  ASSUME CGInv, UNCHANGED cgVars,
         \/ freeze_processes \/ freeze_task_freezing \/ pass_over \/ thaw_processes
         \/ thaw_pass_over \/ round_again \/ ("freeze_fails" \in allowed /\ round_fails)
         \/ \E t \in Tasks : on_list(t) /\ look(t)
  PROVE  CGInv'
<1>0. TypeOK /\ UNCHANGED <<allowed, css, life, forking, fstate>>
  BY DEF CGInv, CGTypeOK, cgVars
<1> USE <1>0 DEF TypeOK, LoopInv, PassInv, LeftInv, Accounted, AllFrozenEnough,
                 frozen, freezing, frozen_enough, asked, on_list, loopVars, callVars, UserTasks
<1>1. CASE freeze_processes
  <2>1. /\ phase' = "freeze" /\ pass' = 1 /\ scan' = Tasks /\ todo' = FALSE
        /\ UNCHANGED <<tif_freeze, pf_frozen, task, cur, step>> /\ step = "next"
    BY <1>1 DEF CGInv, freeze_processes, start_round
  <2>2. TypeOK' /\ LoopInv'
    BY <2>1
  <2>3. PassInv' /\ LeftInv' /\ AllFrozenEnough'
    BY <2>1
  <2> QED
    BY <2>1, <2>2, <2>3, QuietStep
<1>2. CASE freeze_task_freezing
  BY <1>2, QuietStep DEF CGInv, MoveInv, freeze_task_freezing
<1>3. CASE pass_over
  BY <1>3, QuietStep, RoundDone DEF CGInv, MoveInv, pass_over, round_over, start_round
<1>4. CASE thaw_processes
  BY <1>4, QuietStep DEF CGInv, thaw_processes
<1>5. CASE thaw_pass_over
  BY <1>5, QuietStep DEF CGInv, MoveInv, thaw_pass_over
<1>6. CASE round_again
  BY <1>6, QuietStep DEF CGInv, MoveInv, round_again, round_over, start_round
<1>7. CASE "freeze_fails" \in allowed /\ round_fails
  BY <1>7, QuietStep DEF CGInv, round_fails, round_over
<1>8. ASSUME NEW t \in Tasks, on_list(t), look(t) PROVE CGInv'
  BY <1>8, QuietStep DEF CGInv, MoveInv, look, next_task
<1> QED
  BY <1>1, <1>2, <1>3, <1>4, <1>5, <1>6, <1>7, <1>8

(* freeze_task asks the task it has found without a request.               *)
LEMMA AskStep ==
  ASSUME CGInv, UNCHANGED cgVars, freeze_task_frozen
  PROVE  CGInv'
<1> USE DEF CGInv
<1>1. /\ UNCHANGED <<pf_frozen, task, phase, pass, todo, cur>>
      /\ UNCHANGED <<allowed, css, life, forking, fstate>> /\ step = "frozen"
      /\ cur \in Tasks /\ phase = "freeze" /\ cur \in scan /\ on_list(cur)
      /\ \/ /\ frozen(cur) \/ ~ asked(cur)
            /\ scan' = scan \ {cur} /\ step' = "next" /\ UNCHANGED tif_freeze
         \/ /\ ~ frozen(cur) /\ tif_freeze' = tif_freeze \cup {cur}
            /\ step' = "wake" /\ UNCHANGED scan
  BY DEF freeze_task_frozen, next_task, cgVars, LoopInv, CGTypeOK, TypeOK
<1>2. CGTypeOK' /\ FlagInv' /\ LoopInv' /\ MoveInv'
  BY <1>1 DEF CGTypeOK, TypeOK, FlagInv, LoopInv, MoveInv, on_list, frozen, freezing
<1>3. \A t \in Tasks : frozen_enough(t) => frozen_enough(t)'
  BY <1>1 DEF frozen_enough, frozen, freezing
<1>4. ForkInv'
  BY <1>1 DEF ForkInv, on_list, freezing
<1>5. PassInv'
  BY <1>1, <1>3 DEF PassInv, asked, on_list, UserTasks, frozen_enough, frozen
<1>6. LeftInv' /\ AllFrozenEnough'
  BY <1>1 DEF LeftInv, AllFrozenEnough
<1>7. FrozenMeansFrozen' /\ NoFreezerBug'
  BY <1>1, <1>3 DEF FrozenMeansFrozen, NoFreezerBug, members, CGTypeOK, UserTasks
<1> QED
  BY <1>2, <1>4, <1>5, <1>6, <1>7

(* freeze_task wakes it; a task it does not count is stopped or waits for  *)
(* a vfork, with a request.                                                *)
LEMMA WakeStep ==
  ASSUME CGInv, UNCHANGED cgVars, freeze_task_wake
  PROVE  CGInv'
<1> USE DEF CGInv
<1>1. /\ UNCHANGED <<tif_freeze, pf_frozen, phase, pass, cur>>
      /\ UNCHANGED <<allowed, css, life, forking, fstate>> /\ step = "wake"
      /\ cur \in Tasks /\ phase = "freeze" /\ cur \in scan /\ on_list(cur)
      /\ freezing(cur) \/ frozen(cur)
      /\ task' = [task EXCEPT ![cur] = IF @ = "sleeping" THEN "running" ELSE @]
      /\ todo' = (todo \/ task[cur] \notin {"stopped", "vfork"})
      /\ scan' = scan \ {cur} /\ step' = "next"
      /\ task \in [Tasks -> TaskStates]
  BY DEF freeze_task_wake, next_task, cgVars, LoopInv, CGTypeOK, TypeOK
<1>2. /\ task' \in [Tasks -> TaskStates]
      /\ \A t \in Tasks :
           /\ task'[t] = task[t] \/ (task[t] = "sleeping" /\ task'[t] = "running")
           /\ frozen_enough(t) => frozen_enough(t)'
  BY <1>1 DEF TaskStates, frozen_enough, frozen, freezing, CGTypeOK, TypeOK
<1>3. todo' \in BOOLEAN
  BY <1>1 DEF CGTypeOK, TypeOK
<1>4. CGTypeOK'
  BY <1>1, <1>2, <1>3 DEF CGTypeOK, TypeOK
<1>5. FlagInv' /\ LoopInv' /\ MoveInv'
  BY <1>1, <1>2 DEF FlagInv, LoopInv, MoveInv, frozen, freezing
<1>6. ForkInv'
  BY <1>1, <1>2 DEF ForkInv, freezing, UserTasks
<1>7. task[cur] \in {"stopped", "vfork"} => frozen_enough(cur)
  BY <1>1 DEF frozen_enough
<1>8. PassInv'
  BY <1>1, <1>2, <1>7 DEF PassInv, asked, on_list, UserTasks
<1>9. LeftInv' /\ AllFrozenEnough'
  BY <1>1 DEF LeftInv, AllFrozenEnough
<1>10. FrozenMeansFrozen' /\ NoFreezerBug'
  BY <1>1, <1>2 DEF FrozenMeansFrozen, NoFreezerBug, members, CGTypeOK, UserTasks
<1> QED
  BY <1>4, <1>5, <1>6, <1>8, <1>9, <1>10

(* cancel_freezing, after a freeze that failed.                            *)
LEMMA CancelStep ==
  ASSUME CGInv, UNCHANGED cgVars, NEW t \in Tasks, cancel_freezing(t)
  PROVE  CGInv'
<1> USE DEF CGInv
<1>1. /\ UNCHANGED <<pf_frozen, task, phase, pass, todo, cur, step>>
      /\ UNCHANGED <<allowed, css, life, forking, fstate>>
      /\ phase = "cancel" /\ lock_free(t) /\ "freeze_fails" \in allowed
      /\ tif_freeze' = tif_freeze \ {t} /\ scan' = scan \ {t}
  BY DEF cancel_freezing, cgVars, callVars, MoveInv
<1>2. CGTypeOK' /\ FlagInv' /\ LoopInv' /\ MoveInv' /\ ForkInv'
  BY <1>1 DEF CGTypeOK, TypeOK, FlagInv, LoopInv, MoveInv, ForkInv, on_list, lock_free,
              frozen, freezing
<1>3. PassInv' /\ LeftInv' /\ AllFrozenEnough' /\ FrozenMeansFrozen' /\ NoFreezerBug'
  BY <1>1 DEF PassInv, LeftInv, AllFrozenEnough, FrozenMeansFrozen, NoFreezerBug
<1> QED
  BY <1>2, <1>3

(* thaw_tasks thaws no task of a cgroup that is FREEZING or FROZEN.        *)
LEMMA ThawStep ==
  ASSUME CGInv, UNCHANGED cgVars, NEW t \in Tasks, thaw_process(t),
         ~ cgroup_freezing_or_frozen(t)
  PROVE  CGInv'
<1> USE DEF CGInv
<1>1. /\ UNCHANGED <<task, phase, pass, todo, cur, step>>
      /\ UNCHANGED <<allowed, css, life, forking, fstate>>
      /\ phase = "thaw" /\ t \in scan /\ lock_free(t)
      /\ scan' = scan \ {t} /\ tif_freeze' \in SUBSET tif_freeze
      /\ pf_frozen' \in SUBSET pf_frozen
      /\ \A u \in Tasks : u # t => (frozen(u)' <=> frozen(u)) /\ (freezing(u)' <=> freezing(u))
      /\ ~ frozen(t)' /\ (frozen(t) \/ ~ freezing(t)')
      /\ t \in css => fstate # "FROZEN"
  BY DEF thaw_process, cgVars, callVars, cgroup_freezing_or_frozen, frozen, freezing
<1>2. ~ freezing(t)'
  BY <1>1 DEF FlagInv, lock_free, freezing
<1>3. CGTypeOK' /\ FlagInv' /\ LoopInv' /\ MoveInv'
  BY <1>1, <1>2 DEF CGTypeOK, TypeOK, FlagInv, LoopInv, MoveInv, lock_free
<1>4. ForkInv' /\ LeftInv'
  BY <1>1, <1>2 DEF ForkInv, LeftInv, Accounted, freezing
<1>5. PassInv' /\ AllFrozenEnough'
  BY <1>1 DEF PassInv, AllFrozenEnough
<1>6. FrozenMeansFrozen' /\ NoFreezerBug'
  BY <1>1 DEF FrozenMeansFrozen, NoFreezerBug, members, frozen_enough, CGTypeOK, UserTasks
<1> QED
  BY <1>3, <1>4, <1>5, <1>6

(* The system's freeze and thaw.                                           *)
LEMMA SystemStep ==
  ASSUME CGInv, system_step
  PROVE  CGInv'
<1>1. UNCHANGED cgVars
  BY DEF system_step
<1>2. CASE \/ freeze_processes \/ freeze_task_freezing \/ pass_over \/ thaw_processes
           \/ thaw_pass_over \/ round_again \/ ("freeze_fails" \in allowed /\ round_fails)
           \/ \E t \in Tasks : on_list(t) /\ look(t)
  BY <1>1, <1>2, FreezingThreadStep
<1>3. CASE freeze_task_frozen
  BY <1>1, <1>3, AskStep
<1>4. CASE freeze_task_wake
  BY <1>1, <1>4, WakeStep
<1>5. ASSUME NEW t \in Tasks, cancel_freezing(t) PROVE CGInv'
  BY <1>1, <1>5, CancelStep
<1>6. ASSUME NEW t \in Tasks, ~ cgroup_freezing_or_frozen(t), thaw_process(t) PROVE CGInv'
  BY <1>1, <1>6, ThawStep
<1> QED
  BY <1>2, <1>3, <1>4, <1>5, <1>6 DEF system_step

-----------------------------------------------------------------------------
(* The invariant is inductive.                                             *)
LEMMA NextCGInv == CGInv /\ [CGNext]_allVars => CGInv'
<1> SUFFICES ASSUME CGInv, [CGNext]_allVars PROVE CGInv'
  OBVIOUS
<1>1. CASE UNCHANGED allVars
  <2>1. /\ UNCHANGED <<vars, allowed, css, life, forking>> /\ fstate' = fstate
        /\ UNCHANGED <<tif_freeze, pf_frozen, task, cgVars>>
        /\ UNCHANGED <<phase, pass, scan, todo, cur, step>>
    BY <1>1 DEF allVars, cgVars, vars, freezerVars, loopVars, callVars
  <2>2. TypeOK' /\ LoopInv' /\ PassInv' /\ LeftInv' /\ AllFrozenEnough'
    BY <2>1 DEF CGInv, CGTypeOK, TypeOK, LoopInv, PassInv, LeftInv, Accounted,
                AllFrozenEnough, frozen, freezing, frozen_enough, asked, on_list, cgVars
  <2> QED
    BY <2>1, <2>2, QuietStep DEF CGInv, MoveInv
<1>2. ASSUME NEW w \in UserTasks,
             \/ freezer_read(w) \/ freezer_create(w) \/ cgroup_exit(w)
             \/ \E g \in {"THAWED", "FROZEN"} : freezer_write(w, g)
      PROVE  CGInv'
  BY <1>2, ReadStep, ExitStep, WriteStep
<1>3. ASSUME NEW w \in UserTasks, NEW t \in UserTasks,
             \/ cgroup_attach_task(w, t) \/ cgroup_fork(w, t) \/ freezer_fork(w, t)
             \/ list_new_task(w, t) \/ cgroup_post_fork(w, t)
      PROVE  CGInv'
  BY <1>3, AttachStep, CopyStep, CalledStep, ListStep, PostStep
<1>4. ASSUME NEW t \in Tasks, task_step(t) \/ loop_continue(t) PROVE CGInv'
  BY <1>4, LiveTaskStep, ContinueStep
<1> QED
  BY <1>1, <1>2, <1>3, <1>4, SystemStep DEF CGNext

(* With any number of tasks: a system freeze that succeeds leaves no task  *)
(* running and none half made; FROZEN says that all tasks of the cgroup    *)
(* are frozen; the BUG_ON of freezer_fork is not met; the root cgroup is   *)
(* not frozen -- each but for the situations FreezerPromises names.        *)
THEOREM PromisesKept == CGSpec => []FreezerPromises
<1>1. CGInv => FreezerPromises
  BY DEF CGInv, FreezerPromises, CGTypeOK, TypeOK, LeftInv, Accounted, RootNotFrozen,
         frozen, freezing
<1> QED
  BY <1>1, InitCGInv, NextCGInv, PTL DEF CGSpec

(* No step takes a task of a cgroup that stays FROZEN out of refrigerator, *)
(* thaw_processes after a suspend in particular.                           *)
THEOREM FrozenStaysFrozen == CGSpec => FrozenKept
<1>1. ASSUME [CGNext]_allVars
      PROVE  fstate = "FROZEN" /\ fstate' = "FROZEN" => css \cap pf_frozen \subseteq pf_frozen'
  <2> USE DEF cgVars, vars, freezerVars, loopVars, callVars
  <2>1. CASE UNCHANGED allVars
    BY <2>1 DEF allVars
  <2>2. ASSUME NEW w \in UserTasks,
               \/ freezer_read(w) \/ freezer_create(w) \/ cgroup_exit(w)
               \/ \E t \in UserTasks :
                    \/ cgroup_attach_task(w, t) \/ cgroup_fork(w, t) \/ freezer_fork(w, t)
                    \/ list_new_task(w, t) \/ cgroup_post_fork(w, t)
        PROVE  UNCHANGED pf_frozen
    BY <2>2 DEF freezer_read, freezer_create, cgroup_exit, cgroup_attach_task, cgroup_fork,
                freezer_fork, list_new_task, cgroup_post_fork
  <2>3. ASSUME NEW w \in UserTasks, NEW g \in {"THAWED", "FROZEN"}, freezer_write(w, g)
        PROVE  UNCHANGED pf_frozen \/ fstate' = "THAWED"
    BY <2>3 DEF freezer_write, try_to_freeze_cgroup, unfreeze_cgroup
  <2>4. ASSUME NEW t \in Tasks, task_step(t) \/ loop_continue(t)
        PROVE  pf_frozen \subseteq pf_frozen'
    BY <2>4 DEF task_step, loop_continue, taskStep, sleep, event, wake_parked, try_to_freeze,
                refrigerator, frozen_process_mark, frozen_process_clear, leave_refrigerator
  <2>5. ASSUME system_step, fstate = "FROZEN"
        PROVE  css \cap pf_frozen \subseteq pf_frozen'
    BY <2>5 DEF system_step, look, cancel_freezing, thaw_process, cgroup_freezing_or_frozen,
                freeze_processes, freeze_task_freezing, freeze_task_frozen, freeze_task_wake,
                pass_over, thaw_processes, thaw_pass_over, round_again, round_fails, frozen
  <2> QED
    BY <1>1, <2>1, <2>2, <2>3, <2>4, <2>5 DEF CGNext
<1> QED
  BY <1>1, PTL DEF CGSpec, FrozenKept
=============================================================================
