---------------------------- MODULE CgroupFreezer ----------------------------
(***************************************************************************)
(* The cgroup freezer: kernel/cgroup_freezer.c, over the task freezer.     *)
(* One cgroup beside the root cgroup; user tasks read and write its        *)
(* freezer.state, move tasks into it and out of it, fork and exit, while   *)
(* the freezing thread of a suspend goes over all tasks.                   *)
(*                                                                         *)
(* Operations on the cgroup hold freezer->lock with interrupts off, and    *)
(* the loops over all tasks hold tasklist_lock: on the one processor of    *)
(* this build neither is seen half done by the other.  A fork is several   *)
(* steps, since nothing excludes the freezers between them.  Moving a task *)
(* is one step.  Kernel threads stay in the root cgroup.                   *)
(***************************************************************************)
EXTENDS Freezer

CONSTANT Situated  \* sets of Situations that can happen in one behaviour

(* A system freeze that fails; a parent or a child moved to another cgroup *)
(* in the middle of a fork; a task moved with a request to freeze pending. *)
Situations == {"freeze_fails", "move_forking", "move_asked"}

ASSUME SituatedAssumption == Situated \subseteq SUBSET Situations

VARIABLES
  allowed,   \* those that can happen in this one
  css,       \* tasks whose css_set is the cgroup's, new ones included
  life,      \* "none", then through a fork to "live"
  forking,   \* pairs of a parent and the child it is making
  fstate     \* freezer->state

cgVars == <<allowed, css, life, forking, fstate>>
allVars == <<vars, cgVars>>

FStates == {"THAWED", "FREEZING", "FROZEN"}
(* A child copied by cgroup_fork, passed to freezer_fork, put on the task  *)
(* list, put on the cgroup's list and woken.                               *)
LifeStates == {"none", "copied", "called", "hashed", "live"}

in_fork(p) == \E c \in Tasks : <<p, c>> \in forking
members == {t \in css : life[t] = "live"}

no_loop == \/ phase \in {"idle", "frozen"}
           \/ scan = {} /\ step = "next"
user_task(w) == /\ w \in UserTasks /\ life[w] = "live" /\ no_loop
                /\ task[w] = "running" /\ ~ in_fork(w)

CGInit ==
  /\ Init /\ allowed \in Situated
  /\ life \in [Tasks -> {"none", "live"}] /\ \A k \in KThreads : life[k] = "live"
  /\ forking = {} /\ css = {} /\ fstate = "THAWED"

-----------------------------------------------------------------------------
is_task_frozen_enough(t) == frozen(t) \/ (task[t] = "stopped" /\ freezing(t))

update_freezer_state ==
  LET nfrozen == {t \in members : is_task_frozen_enough(t)}
  IN  IF nfrozen = members THEN "FROZEN"
      ELSE IF nfrozen # {} THEN "FREEZING" ELSE "THAWED"

freezer_read(w) ==
  /\ user_task(w) /\ fstate = "FREEZING"
  /\ fstate' = update_freezer_state
  /\ UNCHANGED <<vars, allowed, css, life, forking>>

(* freeze_task with sig_only, of each task of ts.                          *)
freeze_tasks(ts) ==
  LET told == {t \in ts \cap UserTasks : freezing(t) \/ ~ frozen(t)}
  IN  /\ tif_freeze' = tif_freeze \cup told
      /\ task' = [t \in Tasks |->
                    IF t \in told /\ task[t] = "sleeping" THEN "running" ELSE task[t]]

try_to_freeze_cgroup ==
  /\ fstate' = "FREEZING"
  /\ freeze_tasks(members)
  /\ UNCHANGED pf_frozen

(* thaw_process of each member.                                            *)
unfreeze_cgroup ==
  /\ \A t \in members : lock_free(t)
  /\ tif_freeze' = tif_freeze \ {t \in members : ~ frozen(t)}
  /\ pf_frozen' = pf_frozen \ members
  /\ fstate' = "THAWED"
  /\ UNCHANGED task

(* freezer_write and freezer_change_state.                                 *)
freezer_write(w, g) ==
  /\ user_task(w)
  /\ \/ /\ update_freezer_state = g
        /\ fstate' = g /\ UNCHANGED <<tif_freeze, pf_frozen, task>>
     \/ /\ update_freezer_state # g
        /\ IF g = "THAWED" THEN unfreeze_cgroup ELSE try_to_freeze_cgroup
  /\ UNCHANGED <<freezerVars, allowed, css, life, forking>>

(* rmdir and mkdir: freezer_destroy and freezer_create.                    *)
freezer_create(w) ==
  /\ user_task(w) /\ css = {}
  /\ fstate' = "THAWED"
  /\ UNCHANGED <<vars, allowed, css, life, forking>>

freezer_can_attach(t) ==
  /\ ~ is_task_frozen_enough(t)
  /\ t \in css \/ fstate # "FROZEN"

(* Moves t into the cgroup, or back to the root cgroup.                    *)
cgroup_attach_task(w, t) ==
  /\ user_task(w) /\ t \in UserTasks /\ life[t] \in {"hashed", "live"}
  /\ in_fork(t) \/ life[t] = "hashed" => "move_forking" \in allowed
  /\ freezing(t) => "move_asked" \in allowed
  /\ freezer_can_attach(t)
  /\ css' = IF t \in css THEN css \ {t} ELSE css \cup {t}
  /\ UNCHANGED <<vars, allowed, life, forking, fstate>>

-----------------------------------------------------------------------------
(* copy_process.                                                           *)

become(c, s) == life' = [life EXCEPT ![c] = s]

(* Mutant: the child joins the cgroup whatever its parent's is.            *)
cgroup_fork_mutant(p, c) ==
  /\ user_task(p) /\ c \in UserTasks /\ life[c] = "none"
  /\ forking' = forking \cup {<<p, c>>} /\ become(c, "copied")
  /\ css' = css \cup {c}
  /\ UNCHANGED <<vars, allowed, fstate>>

cgroup_fork(p, c) ==
  /\ user_task(p) /\ c \in UserTasks /\ life[c] = "none"
  /\ forking' = forking \cup {<<p, c>>} /\ become(c, "copied")
  /\ css' = IF p \in css THEN css \cup {c} ELSE css
  /\ UNCHANGED <<vars, allowed, fstate>>

(* The BUG_ON of freezer_fork is NoFreezerBug below.                       *)
freezer_fork(p, c) ==
  /\ <<p, c>> \in forking /\ life[c] = "copied" /\ no_loop
  /\ IF c \in css /\ fstate = "FREEZING" THEN freeze_tasks({c})
                                         ELSE UNCHANGED <<tif_freeze, task>>
  /\ become(c, "called")
  /\ UNCHANGED <<pf_frozen, freezerVars, allowed, css, forking, fstate>>

(* recalc_sigpending keeps the signal of a request to freeze, and the fork *)
(* is given up.                                                            *)
list_new_task(p, c) ==
  /\ <<p, c>> \in forking /\ life[c] = "called" /\ no_loop
  /\ IF freezing(p)
       THEN /\ become(c, "none") /\ css' = css \ {c}
            /\ forking' = forking \ {<<p, c>>} /\ tif_freeze' = tif_freeze \ {c}
       ELSE become(c, "hashed") /\ UNCHANGED <<css, forking, tif_freeze>>
  /\ UNCHANGED <<pf_frozen, task, freezerVars, allowed, fstate>>

cgroup_post_fork(p, c) ==
  /\ <<p, c>> \in forking /\ life[c] = "hashed"
  /\ become(c, "live") /\ forking' = forking \ {<<p, c>>}
  /\ UNCHANGED <<vars, allowed, css, fstate>>

cgroup_exit(t) ==
  /\ user_task(t)
  /\ become(t, "none") /\ css' = css \ {t} /\ tif_freeze' = tif_freeze \ {t}
  /\ UNCHANGED <<pf_frozen, task, freezerVars, allowed, forking, fstate>>

-----------------------------------------------------------------------------
(* The task freezer, with tasks that come and go.                          *)

(* Mutant: a group that is still freezing is thawed.                       *)
cgroup_freezing_or_frozen_mutant(t) == t \in css /\ fstate = "FREEZING"

cgroup_freezing_or_frozen(t) == t \in css /\ fstate \in {"FREEZING", "FROZEN"}

on_list(t) == life[t] \in {"hashed", "live"}

(* A task the loop passes over, or that is not on the list.                *)
loop_continue(t) ==
  /\ t \in scan /\ step = "next"
  /\ ~ on_list(t) \/ (phase = "thaw" /\ cgroup_freezing_or_frozen(t))
  /\ scan' = scan \ {t}
  /\ UNCHANGED <<tif_freeze, pf_frozen, task, phase, pass, todo, callVars, cgVars>>

system_step ==
  /\ \/ \E t \in Tasks : /\ on_list(t)
                         /\ \/ look(t) \/ cancel_freezing(t)
                            \/ ~ cgroup_freezing_or_frozen(t) /\ thaw_process(t)
     \/ freeze_processes \/ freeze_task_freezing \/ freeze_task_frozen
     \/ freeze_task_wake \/ pass_over \/ thaw_processes \/ thaw_pass_over
     \/ round_again \/ ("freeze_fails" \in allowed /\ round_fails)
  /\ UNCHANGED cgVars

task_step(t) ==
  /\ life[t] = "live" /\ ~ in_fork(t)
  /\ sleep(t) \/ event(t) \/ wake_parked(t) \/ taskStep(t)
  /\ UNCHANGED cgVars

CGNext ==
  \/ \E w \in UserTasks :
       \/ freezer_read(w) \/ freezer_create(w) \/ cgroup_exit(w)
       \/ \E g \in {"THAWED", "FROZEN"} : freezer_write(w, g)
       \/ \E t \in UserTasks : \/ cgroup_attach_task(w, t) \/ cgroup_fork(w, t)
                               \/ freezer_fork(w, t) \/ list_new_task(w, t)
                               \/ cgroup_post_fork(w, t)
  \/ \E t \in Tasks : task_step(t) \/ loop_continue(t)
  \/ system_step

CGSpec == CGInit /\ [][CGNext]_allVars

-----------------------------------------------------------------------------
CGTypeOK ==
  /\ TypeOK /\ allowed \in Situated
  /\ css \subseteq {t \in UserTasks : life[t] # "none"}
  /\ life \in [Tasks -> LifeStates] /\ forking \subseteq UserTasks \X UserTasks
  /\ fstate \in FStates
  /\ \A c \in Tasks : life[c] \in {"copied", "called", "hashed"}
                        <=> \E p \in Tasks : <<p, c>> \in forking

(* freeze_processes that returns 0 leaves no task running and none half    *)
(* made, whatever user tasks did with the cgroup meanwhile.                *)
AllFrozenEnough ==
  phase = "frozen" => \A t \in Tasks : life[t] = "none" \/ frozen_enough(t)

(* As long as a cgroup is FROZEN no step takes a task of it out of the     *)
(* refrigerator: a suspend and its thaw_processes in particular.           *)
FrozenKept ==
  [][fstate = "FROZEN" /\ fstate' = "FROZEN" => css \cap pf_frozen \subseteq pf_frozen']_allVars

(* The comment in update_freezer_state: no unfrozen task in a FROZEN       *)
(* cgroup.  Holds unless a system freeze fails, which takes the requests   *)
(* of stopped tasks away, or a task is moved in the middle of a fork.      *)
FrozenMeansFrozen ==
  fstate = "FROZEN" /\ allowed \cap {"freeze_fails", "move_forking"} = {} =>
    \A t \in members : frozen_enough(t)

(* The BUG_ON of freezer_fork: no fork reaches it in a FROZEN cgroup,      *)
(* unless its parent is moved out of the cgroup between cgroup_fork and    *)
(* freezer_fork, or lost its request to a system freeze that failed while  *)
(* it was stopped, and has been continued.                                 *)
NoFreezerBug ==
  allowed \cap {"freeze_fails", "move_forking"} = {} =>
    \A t \in css : life[t] = "copied" => fstate # "FROZEN"

(* The root cgroup is non-freezable: while no suspend is under way a task  *)
(* of it is neither frozen nor asked to freeze.  Holds unless a task is    *)
(* moved there with a request pending.                                     *)
RootNotFrozen ==
  phase = "idle" /\ "move_asked" \notin allowed => tif_freeze \cup pf_frozen \subseteq css

(* What the two freezers promise with one flag per task between them: a    *)
(* system freeze that succeeds stops every task, FROZEN says that every    *)
(* task of the cgroup is frozen, the BUG_ON of freezer_fork is not met,    *)
(* and the root cgroup is not frozen; each but for the situations its own  *)
(* comment names.                                                          *)
FreezerPromises ==
  /\ CGTypeOK
  /\ AllFrozenEnough
  /\ FrozenMeansFrozen
  /\ NoFreezerBug
  /\ RootNotFrozen
=============================================================================
