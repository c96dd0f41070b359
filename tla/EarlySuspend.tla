----------------------------- MODULE EarlySuspend -----------------------------
(***************************************************************************)
(* kernel/power/earlysuspend.c on top of wakelock.c: user space writes the *)
(* wanted state, the early_suspend and late_resume works, on the same      *)
(* single-threaded queue as the suspend work, call the handlers drivers    *)
(* have registered, and the main wake lock is released once the handlers   *)
(* are suspended.                                                          *)
(*                                                                         *)
(* request_suspend_state holds state_lock and is one action, with the      *)
(* wake_lock and the queue_work in it.  early_suspend_lock is held exactly *)
(* while a work is calling handlers, one handler a step; registering a     *)
(* handler, its suspend callback included, needs that mutex and is one     *)
(* action.  The branches that fix the CPU frequency for CONFIG_SND_S5P_RP  *)
(* are not in the build: dvfs_fixed_by_rp is never set.                    *)
(***************************************************************************)
EXTENDS WakeLock, SequencesExt

CONSTANTS
  Handlers,   \* every struct early_suspend
  Levels      \* its level: the order in which handlers are suspended

ASSUME LevelsAssumption == Levels \in [Handlers -> Nat]

VARIABLES
  state,                    \* subset of StateBits
  requested_suspend_state,  \* "on" or "mem"
  early_suspend_handlers,   \* the list, by level
  suspended,                \* handlers whose suspend was the last callback
  es_step,                  \* where the worker is in an early or late work
  todo,                     \* handlers the running work has still to call
  sync_pending, syncing     \* sync_system_work is queued; is running

StateBits == {"SUSPEND_REQUESTED", "SUSPENDED"}

requestVars == <<state, requested_suspend_state>>
handlerVars == <<early_suspend_handlers, suspended, es_step, todo>>
syncVars == <<sync_pending, syncing>>
esVars == <<requestVars, handlerVars, syncVars>>
allVars == <<vars, esVars>>

ESInit ==
  /\ Init
  /\ state = {} /\ requested_suspend_state = "mem"
  /\ early_suspend_handlers = <<>> /\ suspended = {}
  /\ es_step = "none" /\ todo = <<>>
  /\ sync_pending = FALSE /\ syncing = FALSE

-----------------------------------------------------------------------------
(* User space, which runs until it is frozen.                              *)

request_suspend_state(new_state) ==
  /\ user_runs
  /\ requested_suspend_state' = new_state
  /\ \/ /\ "SUSPEND_REQUESTED" \notin state /\ new_state # "on"
        /\ state' = state \cup {"SUSPEND_REQUESTED"}
        /\ suspend_work_queue' = queue_work(suspend_work_queue, "early_suspend")
        /\ UNCHANGED <<lockVars, timerVars, new_event>>
     \/ /\ "SUSPEND_REQUESTED" \in state /\ new_state = "on"
        /\ state' = state \ {"SUSPEND_REQUESTED"}
        /\ wake_lock_q(main_wake_lock, queue_work(suspend_work_queue, "late_resume"))
     \/ /\ "SUSPEND_REQUESTED" \in state <=> new_state # "on"
        /\ UNCHANGED <<state, lockVars, timerVars, new_event, suspend_work_queue>>
  /\ UNCHANGED <<worker, handlerVars, syncVars>>

-----------------------------------------------------------------------------
(* Drivers.                                                                *)

mutex_free == es_step \notin {"suspending", "resuming"}

(* The handlers before the first of a higher level, h, and the others.     *)
insert_by_level(list, h) ==
  LET higher == {i \in DOMAIN list : Levels[list[i]] > Levels[h]}
      pos == IF higher = {} THEN Len(list) + 1 ELSE Min(higher)
  IN InsertAt(list, pos, h)

(* Mutant: a handler registered while suspended is not suspended.          *)
register_early_suspend_mutant(h) ==
  /\ running /\ mutex_free
  /\ h \notin Range(early_suspend_handlers)
  /\ early_suspend_handlers' = insert_by_level(early_suspend_handlers, h)
  /\ UNCHANGED <<vars, requestVars, suspended, es_step, todo, syncVars>>

register_early_suspend(h) ==
  /\ running /\ mutex_free
  /\ h \notin Range(early_suspend_handlers)
  /\ early_suspend_handlers' = insert_by_level(early_suspend_handlers, h)
  /\ suspended' = IF "SUSPENDED" \in state THEN suspended \cup {h} ELSE suspended
  /\ UNCHANGED <<vars, requestVars, es_step, todo, syncVars>>

(* The handler is forgotten with whatever state it is in.                  *)
unregister_early_suspend(h) ==
  /\ running /\ mutex_free
  /\ \E i \in DOMAIN early_suspend_handlers :
       /\ early_suspend_handlers[i] = h
       /\ early_suspend_handlers' = RemoveAt(early_suspend_handlers, i)
  /\ suspended' = suspended \ {h}
  /\ UNCHANGED <<vars, requestVars, es_step, todo, syncVars>>

-----------------------------------------------------------------------------
(* The works.                                                              *)

run_work(w) ==
  /\ worker = "idle"
  /\ suspend_work_queue # <<>> /\ Head(suspend_work_queue) = w
  /\ suspend_work_queue' = Tail(suspend_work_queue)
  /\ worker' = "other"
  /\ es_step' = w
  /\ UNCHANGED <<lockVars, timerVars, new_event, requestVars,
                 early_suspend_handlers, suspended, todo, syncVars>>

(* Mutant: the work does not ask whether the request still stands.         *)
early_suspend_recheck_mutant ==
  /\ es_step = "early_suspend"
  /\ IF "SUSPENDED" \notin state
       THEN /\ state' = state \cup {"SUSPENDED"}
            /\ es_step' = "suspending" /\ todo' = early_suspend_handlers
       ELSE es_step' = "unlock_main" /\ UNCHANGED <<state, todo>>
  /\ UNCHANGED <<vars, requested_suspend_state, early_suspend_handlers, suspended,
                 syncVars>>

early_suspend_begin ==
  /\ es_step = "early_suspend"
  /\ IF state = {"SUSPEND_REQUESTED"}
       THEN /\ state' = StateBits
            /\ es_step' = "suspending" /\ todo' = early_suspend_handlers
       ELSE es_step' = "unlock_main" /\ UNCHANGED <<state, todo>>
  /\ UNCHANGED <<vars, requested_suspend_state, early_suspend_handlers, suspended,
                 syncVars>>

early_suspend_call ==
  /\ es_step = "suspending" /\ todo # <<>>
  /\ suspended' = suspended \cup {Head(todo)}
  /\ todo' = Tail(todo)
  /\ UNCHANGED <<vars, requestVars, early_suspend_handlers, es_step, syncVars>>

(* The mutex is released and the sync_system work queued.                  *)
early_suspend_called ==
  /\ es_step = "suspending" /\ todo = <<>>
  /\ es_step' = "unlock_main"
  /\ sync_pending' = TRUE
  /\ UNCHANGED <<vars, requestVars, early_suspend_handlers, suspended, todo, syncing>>

(* Mutant: the main lock is released without another look at the state.    *)
early_suspend_unlock_main_mutant ==
  /\ es_step = "unlock_main"
  /\ wake_unlock_q(main_wake_lock, suspend_work_queue)
  /\ worker' = "idle" /\ es_step' = "none"
  /\ UNCHANGED <<requestVars, early_suspend_handlers, suspended, todo, syncVars>>

(* Under state_lock, so that no request slips in between.                  *)
early_suspend_unlock_main ==
  /\ es_step = "unlock_main"
  /\ IF state = StateBits
       THEN wake_unlock_q(main_wake_lock, suspend_work_queue)
       ELSE UNCHANGED <<lockVars, timerVars, new_event, suspend_work_queue>>
  /\ worker' = "idle" /\ es_step' = "none"
  /\ UNCHANGED <<requestVars, early_suspend_handlers, suspended, todo, syncVars>>

late_resume_begin ==
  /\ es_step = "late_resume"
  /\ IF state = {"SUSPENDED"}
       THEN /\ state' = {}
            /\ es_step' = "resuming" /\ todo' = Reverse(early_suspend_handlers)
            /\ UNCHANGED worker
       ELSE es_step' = "none" /\ worker' = "idle" /\ UNCHANGED <<state, todo>>
  /\ UNCHANGED <<lockVars, timerVars, new_event, suspend_work_queue,
                 requested_suspend_state, early_suspend_handlers, suspended, syncVars>>

late_resume_call ==
  /\ es_step = "resuming" /\ todo # <<>>
  /\ suspended' = suspended \ {Head(todo)}
  /\ todo' = Tail(todo)
  /\ UNCHANGED <<vars, requestVars, early_suspend_handlers, es_step, syncVars>>

late_resume_called ==
  /\ es_step = "resuming" /\ todo = <<>>
  /\ es_step' = "none" /\ worker' = "idle"
  /\ UNCHANGED <<lockVars, timerVars, new_event, suspend_work_queue, requestVars,
                 early_suspend_handlers, suspended, todo, syncVars>>

(* pm_suspend is passed requested_suspend_state: PM_SUSPEND_ON is -EINVAL. *)
suspend_work ==
  /\ suspend
  /\ worker = "sync" /\ worker' = "freeze" => requested_suspend_state # "on"
  /\ UNCHANGED esVars

esWorker ==
  \/ run_work("early_suspend") \/ early_suspend_begin \/ early_suspend_call
  \/ early_suspend_called \/ early_suspend_unlock_main
  \/ run_work("late_resume") \/ late_resume_begin \/ late_resume_call
  \/ late_resume_called

(* sync_system, on a queue and a thread of its own.                        *)
sync_system_begin ==
  /\ running /\ sync_pending /\ ~ syncing
  /\ wake_lock_q(sync_wake_lock, suspend_work_queue)
  /\ sync_pending' = FALSE /\ syncing' = TRUE
  /\ UNCHANGED <<worker, requestVars, handlerVars>>

sync_system_end ==
  /\ running /\ syncing
  /\ wake_unlock_q(sync_wake_lock, suspend_work_queue)
  /\ syncing' = FALSE
  /\ UNCHANGED <<worker, requestVars, handlerVars, sync_pending>>

-----------------------------------------------------------------------------
ESNext ==
  \/ \E new_state \in {"on", "mem"} : request_suspend_state(new_state)
  \/ \E h \in Handlers : register_early_suspend(h) \/ unregister_early_suspend(h)
  \/ esWorker \/ suspend_work
  \/ sync_system_begin \/ sync_system_end
  \/ UNCHANGED esVars /\ (clock \/ \E l \in DriverLocks : driver(l))

ESSpec == ESInit /\ [][ESNext]_allVars

(* As for wake locks; the worker gets through its works, sync ends.        *)
ESFairSpec ==
  /\ ESSpec
  /\ WF_allVars(Tick /\ UNCHANGED esVars)
  /\ WF_allVars(DetachTimer /\ UNCHANGED esVars)
  /\ WF_allVars(expire_wake_locks /\ UNCHANGED esVars)
  /\ WF_allVars(esWorker)
  /\ WF_allVars(suspend_work /\ running /\ worker' # worker)
  /\ WF_allVars(sync_system_begin) /\ WF_allVars(sync_system_end)

-----------------------------------------------------------------------------
ESTypeOK ==
  /\ TypeOK
  /\ state \in SUBSET StateBits
  /\ requested_suspend_state \in {"on", "mem"}
  /\ early_suspend_handlers \in Seq(Handlers)
  /\ suspended \in SUBSET Range(early_suspend_handlers)
  /\ es_step \in {"none", "early_suspend", "suspending", "unlock_main",
                  "late_resume", "resuming"}
  /\ todo \in Seq(Handlers)
  /\ sync_pending \in BOOLEAN /\ syncing \in BOOLEAN

(* The main wake lock is given up only in the state both requested and     *)
(* suspended: whatever requests interleave with the works, a wakeup        *)
(* request is never left without the lock it took.                         *)
MainLockHeld == main_wake_lock \notin active => state = StateBits

(* Outside the works that call handlers, every registered handler is       *)
(* suspended or not as the SUSPENDED bit says, the late comers too.        *)
HandlersMatchState ==
  mutex_free =>
    suspended = IF "SUSPENDED" \in state THEN Range(early_suspend_handlers) ELSE {}

(* earlysuspend.h: handlers of a lower level are suspended first and       *)
(* resumed last.  So at every moment a suspended handler has every handler *)
(* of a lower level suspended with it.                                     *)
LevelOrder ==
  \A h, k \in Range(early_suspend_handlers) :
    Levels[h] < Levels[k] /\ k \in suspended => h \in suspended

(* The processor sleeps only while sleep is requested and with every       *)
(* handler suspended: no screen is on and no wakeup request unanswered.    *)
AsleepIsEarlySuspended ==
  worker \in {"noirq", "asleep"} =>
    state = StateBits /\ Range(early_suspend_handlers) \subseteq suspended

(* A sleep request that stands is carried out up to the release of the     *)
(* main wake lock.                                                         *)
SleepRequestHonoured ==
  <>[]("SUSPEND_REQUESTED" \in state) => <>[](main_wake_lock \notin active)

(* A wakeup request that stands resumes every handler.                     *)
WakeupRequestHonoured ==
  <>[]("SUSPEND_REQUESTED" \notin state) => <>[](suspended = {})

(* The handlers follow the works: early_suspend and late_resume, a         *)
(* registration in between and the order of levels leave each handler in   *)
(* the state that the SUSPENDED bit and the progress of the work say.      *)
HandlersFollow ==
  /\ ESTypeOK
  /\ HandlersMatchState
  /\ LevelOrder

(* Early suspend and suspend keep in step: the main wake lock is held      *)
(* unless early_suspend has released it for a request that stood, the      *)
(* system sleeps only when early-suspended, and no suspend is forgotten    *)
(* once no lock blocks it, SuspendNotLost's destroyed lock apart.          *)
SleepInStep ==
  /\ MainLockHeld
  /\ AsleepIsEarlySuspended
  /\ SuspendNotLost

(* Whatever order the writes to /sys/power/state and the works came in,    *)
(* the request that stands is carried out.                                 *)
LastRequestWins ==
  /\ SleepRequestHonoured
  /\ WakeupRequestHonoured
===============================================================================
