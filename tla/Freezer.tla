------------------------------- MODULE Freezer -------------------------------
(***************************************************************************)
(* The task freezer: kernel/freezer.c and kernel/power/process.c.  Before  *)
(* a suspend one thread asks every task to freeze itself (TIF_FREEZE); a   *)
(* task that notices enters refrigerator, marks itself PF_FROZEN and stays *)
(* there until thaw_process clears the mark.                               *)
(*                                                                         *)
(* The freezing thread and the tasks run concurrently, one read or write   *)
(* of a flag a step, as the code provides for with its barriers; a build   *)
(* for one processor shows a part of these behaviours.  task_lock is held  *)
(* by a task in refrigerator from "marking" to the end of "clearing", and  *)
(* by the freezing thread within one action.  The list of tasks is walked  *)
(* in any order.  Tasks in a cgroup that has been frozen are not modelled. *)
(***************************************************************************)
EXTENDS Naturals

CONSTANTS
  Tasks,      \* the freezeable tasks
  KThreads    \* those with PF_FREEZER_NOSIG

ASSUME TasksAssumption == KThreads \subseteq Tasks

VARIABLES
  tif_freeze,   \* tasks with TIF_FREEZE
  pf_frozen,    \* tasks with PF_FROZEN
  task,         \* where each task is
  phase,        \* where the freezing thread is
  pass,         \* 1: sig_only, or nosig_only; 2: every task
  scan,         \* tasks the running loop has still to look at
  cur, step,    \* inside freeze_task: the task, the next step
  todo          \* todo > 0

loopVars == <<pass, scan, todo>>
callVars == <<cur, step>>
freezerVars == <<phase, loopVars, callVars>>
vars == <<tif_freeze, pf_frozen, task, freezerVars>>

(* A task runs, sleeps interruptibly, waits uninterruptibly, is stopped,   *)
(* waits for a vfork with PF_FREEZER_SKIP, has been "woken" from the last  *)
(* two and will call try_to_freeze, has called refrigerator, holds         *)
(* task_lock to mark itself and to clear its request, or sleeps there.     *)
TaskStates == {"running", "sleeping", "waiting", "stopped", "vfork", "woken",
               "refrigerator", "marking", "clearing", "frozen"}
UserTasks == Tasks \ KThreads

goto(t, s) == task' = [task EXCEPT ![t] = s]
lock_free(t) == task[t] \notin {"marking", "clearing"}
freezing(t) == t \in tif_freeze
frozen(t) == t \in pf_frozen

Init ==
  /\ tif_freeze = {} /\ pf_frozen = {}
  /\ task = [t \in Tasks |-> "running"]
  /\ phase = "idle" /\ pass = 1 /\ scan = {} /\ todo = FALSE
  /\ cur \in Tasks /\ step = "next"

-----------------------------------------------------------------------------
(* The tasks.                                                              *)

sleep(t) ==
  /\ task[t] = "running"
  /\ \/ \E s \in {"sleeping", "waiting"} : goto(t, s)
     \/ t \in UserTasks /\ \E s \in {"stopped", "vfork"} : goto(t, s)
  /\ UNCHANGED <<tif_freeze, pf_frozen, freezerVars>>

(* What a task waits for happens.                                          *)
event(t) ==
  /\ task[t] \in {"sleeping", "waiting"}
  /\ goto(t, "running")
  /\ UNCHANGED <<tif_freeze, pf_frozen, freezerVars>>

(* SIGCONT for do_signal_stop; the child is gone for do_fork, and          *)
(* freezer_count clears PF_FREEZER_SKIP.                                   *)
wake_parked(t) ==
  /\ task[t] \in {"stopped", "vfork"}
  /\ goto(t, "woken")
  /\ UNCHANGED <<tif_freeze, pf_frozen, freezerVars>>

try_to_freeze(t) ==
  /\ \/ task[t] \in {"running", "woken"} /\ freezing(t) /\ goto(t, "refrigerator")
     \/ task[t] = "woken" /\ ~ freezing(t) /\ goto(t, "running")
  /\ UNCHANGED <<tif_freeze, pf_frozen, freezerVars>>

(* refrigerator takes task_lock and looks again.                           *)
refrigerator(t) ==
  /\ task[t] = "refrigerator"
  /\ goto(t, IF freezing(t) THEN "marking" ELSE "running")
  /\ UNCHANGED <<tif_freeze, pf_frozen, freezerVars>>

frozen_process_mark(t) ==
  /\ task[t] = "marking"
  /\ pf_frozen' = pf_frozen \cup {t}
  /\ goto(t, "clearing")
  /\ UNCHANGED <<tif_freeze, freezerVars>>

frozen_process_clear(t) ==
  /\ task[t] = "clearing"
  /\ tif_freeze' = tif_freeze \ {t}
  /\ goto(t, "frozen")
  /\ UNCHANGED <<pf_frozen, freezerVars>>

(* Mutant: schedule is called once, and any wakeup will do.                *)
leave_refrigerator_mutant(t) ==
  /\ task[t] = "frozen"
  /\ goto(t, "running")
  /\ UNCHANGED <<tif_freeze, pf_frozen, freezerVars>>

(* Mutant: a kernel thread is not woken.                                   *)
leave_refrigerator_user_mutant(t) ==
  /\ task[t] = "frozen" /\ ~ frozen(t) /\ t \notin KThreads
  /\ goto(t, "running")
  /\ UNCHANGED <<tif_freeze, pf_frozen, freezerVars>>

leave_refrigerator(t) ==
  /\ task[t] = "frozen" /\ ~ frozen(t)
  /\ goto(t, "running")
  /\ UNCHANGED <<tif_freeze, pf_frozen, freezerVars>>

-----------------------------------------------------------------------------
(* try_to_freeze_tasks and freeze_task.                                    *)

start_round(p) == pass' = p /\ scan' = Tasks /\ todo' = FALSE

freeze_processes ==
  /\ phase = "idle"
  /\ phase' = "freeze"
  /\ start_round(1)
  /\ UNCHANGED <<tif_freeze, pf_frozen, task, callVars>>

next_task(t) == scan' = scan \ {t} /\ step' = "next"

look(t) ==
  /\ phase = "freeze" /\ step = "next" /\ t \in scan
  /\ cur' = t
  /\ IF frozen(t) THEN next_task(t) ELSE step' = "freezing" /\ UNCHANGED scan
  /\ UNCHANGED <<tif_freeze, pf_frozen, task, phase, pass, todo>>

freeze_task_freezing ==
  /\ step = "freezing"
  /\ step' = IF freezing(cur) THEN "wake" ELSE "frozen"
  /\ UNCHANGED <<tif_freeze, pf_frozen, task, phase, loopVars, cur>>

asked(t) == pass = 2 \/ t \notin KThreads

(* Mutant: kernel threads are asked in the first pass.                     *)
freeze_task_all_mutant ==
  /\ step = "frozen"
  /\ IF frozen(cur)
       THEN next_task(cur) /\ UNCHANGED tif_freeze
       ELSE /\ tif_freeze' = tif_freeze \cup {cur}
            /\ step' = "wake" /\ UNCHANGED scan
  /\ UNCHANGED <<pf_frozen, task, phase, pass, todo, cur>>

freeze_task_frozen ==
  /\ step = "frozen"
  /\ IF frozen(cur) \/ ~ asked(cur)
       THEN next_task(cur) /\ UNCHANGED tif_freeze
       ELSE /\ tif_freeze' = tif_freeze \cup {cur}
            /\ step' = "wake" /\ UNCHANGED scan
  /\ UNCHANGED <<pf_frozen, task, phase, pass, todo, cur>>

(* The fake signal, or wake_up_state, interrupts a sleep; the task is      *)
(* counted unless it is stopped or to be skipped.                          *)
freeze_task_wake ==
  /\ step = "wake"
  /\ task' = [task EXCEPT ![cur] = IF @ = "sleeping" THEN "running" ELSE @]
  /\ todo' = (todo \/ task[cur] \notin {"stopped", "vfork"})
  /\ next_task(cur)
  /\ UNCHANGED <<tif_freeze, pf_frozen, phase, pass, cur>>

round_over == phase = "freeze" /\ step = "next" /\ scan = {}

(* Tasks are left and there is time: another round after 10 ms.            *)
round_again ==
  /\ round_over /\ todo
  /\ start_round(pass)
  /\ UNCHANGED <<tif_freeze, pf_frozen, task, phase, callVars>>

(* Tasks are left and a wake lock, a wakeup event or TIMEOUT ends it.      *)
round_fails ==
  /\ round_over /\ todo
  /\ phase' = "cancel" /\ scan' = Tasks
  /\ UNCHANGED <<tif_freeze, pf_frozen, task, pass, todo, callVars>>

(* Mutant: one pass only.                                                  *)
pass_over_mutant ==
  /\ round_over /\ ~ todo
  /\ phase' = "frozen" /\ UNCHANGED loopVars
  /\ UNCHANGED <<tif_freeze, pf_frozen, task, callVars>>

pass_over ==
  /\ round_over /\ ~ todo
  /\ IF pass = 1 THEN start_round(2) /\ UNCHANGED phase
                 ELSE phase' = "frozen" /\ UNCHANGED loopVars
  /\ UNCHANGED <<tif_freeze, pf_frozen, task, callVars>>

cancel_freezing(t) ==
  /\ phase = "cancel" /\ t \in scan /\ lock_free(t)
  /\ tif_freeze' = tif_freeze \ {t}
  /\ scan' = scan \ {t}
  /\ UNCHANGED <<pf_frozen, task, phase, pass, todo, callVars>>

-----------------------------------------------------------------------------
(* thaw_processes, of the kernel threads and then of all, once freezing    *)
(* has failed or the system has been asleep.                               *)

thaw_processes ==
  /\ phase = "frozen" \/ (phase = "cancel" /\ scan = {})
  /\ phase' = "thaw" /\ pass' = 1 /\ scan' = KThreads
  /\ UNCHANGED <<tif_freeze, pf_frozen, task, todo, callVars>>

(* Mutant: without task_lock.                                              *)
thaw_process_mutant(t) ==
  /\ phase = "thaw" /\ t \in scan
  /\ IF frozen(t) THEN pf_frozen' = pf_frozen \ {t} /\ UNCHANGED tif_freeze
                  ELSE tif_freeze' = tif_freeze \ {t} /\ UNCHANGED pf_frozen
  /\ scan' = scan \ {t}
  /\ UNCHANGED <<task, phase, pass, todo, callVars>>

thaw_process(t) ==
  /\ phase = "thaw" /\ t \in scan /\ lock_free(t)
  /\ IF frozen(t) THEN pf_frozen' = pf_frozen \ {t} /\ UNCHANGED tif_freeze
                  ELSE tif_freeze' = tif_freeze \ {t} /\ UNCHANGED pf_frozen
  /\ scan' = scan \ {t}
  /\ UNCHANGED <<task, phase, pass, todo, callVars>>

thaw_pass_over ==
  /\ phase = "thaw" /\ scan = {}
  /\ IF pass = 1 THEN pass' = 2 /\ scan' = Tasks /\ UNCHANGED <<phase, todo>>
                 ELSE phase' = "idle" /\ UNCHANGED loopVars
  /\ UNCHANGED <<tif_freeze, pf_frozen, task, callVars>>

-----------------------------------------------------------------------------
taskStep(t) ==
  \/ try_to_freeze(t) \/ refrigerator(t) \/ frozen_process_mark(t)
  \/ frozen_process_clear(t) \/ leave_refrigerator(t)

loopStep ==
  \/ \E t \in Tasks : look(t) \/ cancel_freezing(t) \/ thaw_process(t)
  \/ freeze_task_freezing \/ freeze_task_frozen \/ freeze_task_wake
  \/ pass_over \/ thaw_processes \/ thaw_pass_over

Next ==
  \/ \E t \in Tasks : sleep(t) \/ event(t) \/ wake_parked(t) \/ taskStep(t)
  \/ freeze_processes \/ loopStep \/ round_again \/ round_fails

Spec == Init /\ [][Next]_vars

(* Tasks and the freezing thread get on; rounds that leave tasks do not go *)
(* on past TIMEOUT, so round_fails cannot be put off for ever.             *)
Fairness ==
  /\ \A t \in Tasks : WF_vars(taskStep(t))
  /\ WF_vars(loopStep) /\ WF_vars(round_again \/ round_fails) /\ SF_vars(round_fails)

FairSpec == Spec /\ Fairness

-----------------------------------------------------------------------------
TypeOK ==
  /\ task \in [Tasks -> TaskStates]
  /\ tif_freeze \in SUBSET Tasks
  /\ pf_frozen \in SUBSET {t \in Tasks : task[t] \in {"clearing", "frozen"}}
  /\ phase \in {"idle", "freeze", "cancel", "frozen", "thaw"}
  /\ pass \in {1, 2} /\ scan \in SUBSET Tasks /\ todo \in BOOLEAN
  /\ cur \in Tasks /\ step \in {"next", "freezing", "frozen", "wake"}

(* A task that will run nothing of its own until it is thawed: frozen, or  *)
(* asked to freeze and somewhere it cannot leave without try_to_freeze.    *)
frozen_enough(t) ==
  \/ frozen(t)
  \/ freezing(t) /\ task[t] \notin {"running", "sleeping", "waiting", "frozen"}

(* When freeze_processes has returned 0 no task runs, those it did not     *)
(* count because they are stopped or wait for a vfork included, whenever   *)
(* they wake.                                                              *)
FrozenEnough == phase = "frozen" => \A t \in Tasks : frozen_enough(t)

(* A kernel thread is frozen, or asked to freeze, only with every user     *)
(* task frozen: tasks still on their way can rely on kernel threads.       *)
KernelThreadsLast ==
  phase = "freeze" /\ (\E k \in KThreads : frozen(k) \/ freezing(k))
    => \A t \in UserTasks : frozen_enough(t)

(* Nothing is left behind by thaw_processes, after a freeze that failed    *)
(* too: no task is frozen and none has a request to freeze that would      *)
(* freeze it later, for nobody to thaw.  The comments on freeze_task and   *)
(* thaw_process name the two races that would break this.                  *)
AllThawed == phase = "idle" => tif_freeze = {} /\ pf_frozen = {}

(* A task is back from refrigerator sooner or later.                       *)
ThawedTasksRun == \A t \in Tasks : task[t] = "frozen" ~> task[t] = "running"
=============================================================================
