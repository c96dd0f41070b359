------------------------------ MODULE WakeLock ------------------------------
(***************************************************************************)
(* kernel/power/wakelock.c: the wake locks that keep the system out of     *)
(* suspend, and the suspend work that enters it when none is held.         *)
(*                                                                         *)
(* Only locks of type WAKE_LOCK_SUSPEND are modelled: no code asks         *)
(* has_wake_lock about WAKE_LOCK_IDLE, and an idle lock touches nothing    *)
(* but its own list.  The statistics of CONFIG_WAKELOCK_STAT, which only   *)
(* /proc/wakelocks reads, are left out.                                    *)
(*                                                                         *)
(* Every function on locks holds list_lock with interrupts off, so each is *)
(* one action.  Others interleave between the steps of the suspend work,   *)
(* and between the timer core taking expire_timer off its wheel and the    *)
(* handler taking list_lock.                                               *)
(*                                                                         *)
(* The list active_wake_locks[WAKE_LOCK_SUSPEND] is the set active with    *)
(* the relation ahead: <<a, b>> is in it when a comes before b.  A time is *)
(* kept as the jiffies still to go, 0 once it has come: jiffies itself is  *)
(* not a variable, and a lock that stays expired and unnoticed for 2^31    *)
(* jiffies, after which the kernel's signed difference turns positive      *)
(* again, is outside the model.                                            *)
(***************************************************************************)
EXTENDS Integers, Sequences

CONSTANTS
  Locks,            \* every struct wake_lock, these three included:
  main_wake_lock, unknown_wakeup, sync_wake_lock,
  Timeouts,         \* arguments of wake_lock_timeout by drivers
  UnknownTimeout,   \* HZ / 2
  MaxTimeout        \* LONG_MAX

ASSUME LocksAssumption ==
  /\ {main_wake_lock, unknown_wakeup, sync_wake_lock} \subseteq Locks
  /\ main_wake_lock # unknown_wakeup /\ main_wake_lock # sync_wake_lock
  /\ unknown_wakeup # sync_wake_lock
ASSUME TimeoutsAssumption ==
  /\ MaxTimeout \in Nat
  /\ Timeouts \subseteq 0 .. MaxTimeout
  /\ UnknownTimeout \in 1 .. MaxTimeout

OwnLocks == {main_wake_lock, unknown_wakeup, sync_wake_lock}
DriverLocks == Locks \ OwnLocks

VARIABLES
  initialized,          \* locks with WAKE_LOCK_INITIALIZED
  active,               \* locks on the active list, with WAKE_LOCK_ACTIVE
  auto_expire,          \* those with WAKE_LOCK_AUTO_EXPIRE
  ahead,                \* order of the active list
  left,                 \* jiffies until lock->expires, 0 if it has passed
  expire_timer,         \* jiffies until expire_timer fires, or NoTimer
  timer_detached,       \* expire_wake_locks is about to run
  new_event,            \* current_event_num # entry_event_num
  suspend_work_queue,   \* works pending on the single-threaded queue
  worker,               \* where its thread is
  dropped               \* the last lock without a timeout was destroyed while
                        \* held, and no lock has been taken or released since

lockVars == <<initialized, active, auto_expire, ahead, left, dropped>>
timerVars == <<expire_timer, timer_detached>>
workVars == <<suspend_work_queue, worker>>
vars == <<lockVars, timerVars, new_event, workVars>>

NoTimer == -1

(* The suspend work waits at the step named: "check" has_wake_lock,        *)
(* "note" the event number, "sync" and call pm_suspend, "freeze" tasks,    *)
(* suspend "devices" and the power device late, enter the platform's sleep *)
(* from "noirq", sleep, "compare" the event number, "unknown_wakeup".      *)
(* "other" is another work.                                                *)
SuspendSteps == {"check", "note", "sync", "freeze", "devices", "noirq", "asleep",
                 "compare", "unknown_wakeup"}
Works == {"suspend", "early_suspend", "late_resume"}

-----------------------------------------------------------------------------
(* Lists.                                                                  *)

list_del(ord, S) == {r \in ord : r[1] \notin S /\ r[2] \notin S}

(* Mutant: every lock goes to the tail.                                    *)
list_add_mutant(ord, A, l) == list_del(ord, {l}) \cup {<<a, l>> : a \in A \ {l}}

list_add(ord, A, l) == list_del(ord, {l}) \cup {<<l, b>> : b \in A \ {l}}
list_add_tail(ord, A, l) == list_del(ord, {l}) \cup {<<a, l>> : a \in A \ {l}}

pending(q, w) == \E i \in 1 .. Len(q) : q[i] = w
queue_work(q, w) == IF pending(q, w) THEN q ELSE Append(q, w)

(* has_wake_lock_locked over the list A in order ord, T of it AUTO_EXPIRE, *)
(* lf jiffies left: it takes off the timed-out locks it meets before the   *)
(* first lock that has no timeout, and returns -1 if there is one, or the  *)
(* longest time left.                                                      *)
timed_out(A, T, ord, lf) ==
  {l \in A \cap T : lf[l] = 0 /\ \A p \in A \ T : <<p, l>> \notin ord}

max_timeout(A, lf) ==
  CHOOSE k \in 0 .. MaxTimeout :
    /\ \A l \in A : lf[l] <= k
    /\ k = 0 \/ \E l \in A : lf[l] = k

has_wake_lock_locked(A, T, lf) == IF A \ T # {} THEN -1 ELSE max_timeout(A, lf)

has_lock == has_wake_lock_locked(active, auto_expire, left)

(* Mutant: a lock taken off the list keeps WAKE_LOCK_AUTO_EXPIRE.          *)
set_list_mutant(A, T, ord, lf, X) ==
  /\ active' = A \ X
  /\ auto_expire' = T
  /\ ahead' = list_del(ord, X)
  /\ left' = lf

(* The list becomes A in order ord less the locks X it drops.              *)
set_list(A, T, ord, lf, X) ==
  /\ active' = A \ X
  /\ auto_expire' = T \ X
  /\ ahead' = list_del(ord, X)
  /\ left' = lf

(* The state change of a call of has_wake_lock.                            *)
has_wake_lock ==
  set_list(active, auto_expire, ahead, left,
           timed_out(active, auto_expire, ahead, left))

(* Mutant: the timer is set a jiffy early.                                 *)
set_expire_timer_mutant(r) == expire_timer' = IF r > 0 THEN r - 1 ELSE NoTimer

(* What wake_lock_internal and wake_unlock do with the result r: run the   *)
(* timer, or stop it and, if no lock is left, queue the suspend work.      *)
set_expire_timer(r) == expire_timer' = IF r > 0 THEN r ELSE NoTimer

(* Mutant: no work is queued while one runs.                               *)
queue_suspend_mutant(q, r) ==
  suspend_work_queue' = IF r = 0 /\ worker = "idle" THEN queue_work(q, "suspend") ELSE q

queue_suspend(q, r) ==
  suspend_work_queue' = IF r = 0 THEN queue_work(q, "suspend") ELSE q

-----------------------------------------------------------------------------
(* wakelocks_init: the main lock is held from boot on.                     *)
Init ==
  /\ initialized = OwnLocks
  /\ active = {main_wake_lock} /\ auto_expire = {} /\ ahead = {}
  /\ left = [l \in Locks |-> 0]
  /\ expire_timer = NoTimer /\ timer_detached = FALSE
  /\ new_event = FALSE
  /\ suspend_work_queue = <<>> /\ worker = "idle"
  /\ dropped = FALSE

wake_lock_init(l) ==
  /\ l \notin initialized
  /\ initialized' = initialized \cup {l}
  /\ UNCHANGED <<active, auto_expire, ahead, left, timerVars, new_event, workVars, dropped>>

(* wake_lock_destroy looks at neither the timer nor the other locks, even  *)
(* when the lock is held: evdev_release destroys one that has a timeout,   *)
(* the battery driver's remove, like the exit of other drivers, one that   *)
(* may have none.                                                          *)
wake_lock_destroy(l) ==
  /\ l \in initialized
  /\ dropped' = (dropped \/ active \ auto_expire = {l})
  /\ initialized' = initialized \ {l}
  /\ set_list(active, auto_expire, ahead, [left EXCEPT ![l] = 0], {l})
  /\ UNCHANGED <<timerVars, new_event, workVars>>

(* Mutant: only a lock with a timeout counts as an event.                  *)
wake_lock_q_mutant(l, q) ==
  LET A == active \cup {l}
      T == auto_expire \ {l}
  IN /\ l \in initialized
     /\ set_list(A, T, list_add(ahead, active, l), [left EXCEPT ![l] = 0], {})
     /\ expire_timer' = NoTimer
     /\ suspend_work_queue' = q
     /\ dropped' = FALSE
     /\ UNCHANGED <<initialized, timer_detached, new_event>>

(* wake_lock_internal without and with a timeout, on a queue that holds q. *)
wake_lock_q(l, q) ==
  LET A == active \cup {l}
      T == auto_expire \ {l}
  IN /\ l \in initialized
     /\ set_list(A, T, list_add(ahead, active, l), [left EXCEPT ![l] = 0], {})
     /\ new_event' = TRUE
     /\ expire_timer' = NoTimer
     /\ suspend_work_queue' = q
     /\ dropped' = FALSE
     /\ UNCHANGED <<initialized, timer_detached>>

wake_lock_timeout_q(l, timeout, q) ==
  LET A == active \cup {l}
      T == auto_expire \cup {l}
      ord == list_add_tail(ahead, active, l)
      lf == [left EXCEPT ![l] = timeout]
      r == has_wake_lock_locked(A, T, lf)
  IN /\ l \in initialized
     /\ set_list(A, T, ord, lf, timed_out(A, T, ord, lf))
     /\ new_event' = TRUE
     /\ set_expire_timer(r)
     /\ queue_suspend(q, r)
     /\ dropped' = FALSE
     /\ UNCHANGED <<initialized, timer_detached>>

wake_unlock_q(l, q) ==
  LET A == active \ {l}
      T == auto_expire \ {l}
      ord == list_del(ahead, {l})
      lf == [left EXCEPT ![l] = 0]
      r == has_wake_lock_locked(A, T, lf)
  IN /\ l \in initialized
     /\ set_list(A, T, ord, lf, timed_out(A, T, ord, lf))
     /\ set_expire_timer(r)
     /\ queue_suspend(q, r)
     /\ dropped' = FALSE
     /\ UNCHANGED <<initialized, timer_detached, new_event>>

(* Drivers and threads that are not frozen call these until the processor  *)
(* itself sleeps.                                                          *)
running == worker # "asleep"

wake_lock(l) == running /\ wake_lock_q(l, suspend_work_queue) /\ UNCHANGED worker
wake_lock_timeout(l, timeout) ==
  running /\ wake_lock_timeout_q(l, timeout, suspend_work_queue) /\ UNCHANGED worker
wake_unlock(l) == running /\ wake_unlock_q(l, suspend_work_queue) /\ UNCHANGED worker

-----------------------------------------------------------------------------
(* Time.                                                                   *)

minus1(n) == IF n > 0 THEN n - 1 ELSE n

Tick ==
  /\ running
  /\ left' = [l \in Locks |-> minus1(left[l])]
  /\ expire_timer' = minus1(expire_timer)
  /\ <<left', expire_timer'>> # <<left, expire_timer>>
  /\ UNCHANGED <<initialized, active, auto_expire, ahead, timer_detached,
                 new_event, workVars, dropped>>

DetachTimer ==
  /\ running
  /\ expire_timer = 0 /\ ~ timer_detached
  /\ expire_timer' = NoTimer
  /\ timer_detached' = TRUE
  /\ UNCHANGED <<lockVars, new_event, workVars>>

expire_wake_locks ==
  /\ running
  /\ timer_detached
  /\ timer_detached' = FALSE
  /\ has_wake_lock
  /\ queue_suspend(suspend_work_queue, has_lock)
  /\ UNCHANGED <<initialized, dropped, expire_timer, new_event, worker>>

-----------------------------------------------------------------------------
(* The suspend work.                                                       *)

goto(step) == worker' = step

run_suspend_work ==
  /\ worker = "idle"
  /\ suspend_work_queue # <<>> /\ Head(suspend_work_queue) = "suspend"
  /\ suspend_work_queue' = Tail(suspend_work_queue)
  /\ goto("check")
  /\ UNCHANGED <<lockVars, timerVars, new_event>>

(* Mutant: only a negative result counts as a lock.                        *)
suspend_check_mutant ==
  /\ worker = "check"
  /\ has_wake_lock
  /\ goto(IF has_lock < 0 THEN "idle" ELSE "note")
  /\ UNCHANGED <<initialized, dropped, timerVars, new_event, suspend_work_queue>>

suspend_check ==
  /\ worker = "check"
  /\ has_wake_lock
  /\ goto(IF has_lock # 0 THEN "idle" ELSE "note")
  /\ UNCHANGED <<initialized, dropped, timerVars, new_event, suspend_work_queue>>

(* Mutant: looks at the locks again instead of going on.                   *)
suspend_note_mutant ==
  /\ worker = "note"
  /\ new_event' = FALSE
  /\ goto("check")
  /\ UNCHANGED <<lockVars, timerVars, suspend_work_queue>>

(* entry_event_num = current_event_num, without list_lock.                 *)
suspend_note ==
  /\ worker = "note"
  /\ new_event' = FALSE
  /\ goto("sync")
  /\ UNCHANGED <<lockVars, timerVars, suspend_work_queue>>

(* pm_suspend reaches suspend_freeze_processes.                            *)
pm_suspend ==
  /\ worker = "sync"
  /\ goto("freeze")
  /\ UNCHANGED <<lockVars, timerVars, new_event, suspend_work_queue>>

(* It can fail at any point before the platform's sleep.                   *)
pm_suspend_fails ==
  /\ worker \in {"sync", "freeze", "devices", "noirq"}
  /\ goto("compare")
  /\ UNCHANGED <<lockVars, timerVars, new_event, suspend_work_queue>>

(* A round of try_to_freeze_tasks that leaves tasks to freeze.             *)
try_to_freeze_tasks ==
  /\ worker = "freeze"
  /\ has_wake_lock
  /\ goto(IF has_lock # 0 THEN "compare" ELSE "freeze")
  /\ UNCHANGED <<initialized, dropped, timerVars, new_event, suspend_work_queue>>

tasks_frozen ==
  /\ worker = "freeze"
  /\ goto("devices")
  /\ UNCHANGED <<lockVars, timerVars, new_event, suspend_work_queue>>

power_suspend_late ==
  /\ worker = "devices"
  /\ has_wake_lock
  /\ goto(IF has_lock # 0 THEN "compare" ELSE "noirq")
  /\ UNCHANGED <<initialized, dropped, timerVars, new_event, suspend_work_queue>>

suspend_ops_enter ==
  /\ worker = "noirq"
  /\ goto("asleep")
  /\ UNCHANGED <<lockVars, timerVars, new_event, suspend_work_queue>>

wakeup ==
  /\ worker = "asleep"
  /\ goto("compare")
  /\ UNCHANGED <<lockVars, timerVars, new_event, suspend_work_queue>>

suspend_compare ==
  /\ worker = "compare"
  /\ goto(IF new_event THEN "idle" ELSE "unknown_wakeup")
  /\ UNCHANGED <<lockVars, timerVars, new_event, suspend_work_queue>>

suspend_unknown_wakeup ==
  /\ worker = "unknown_wakeup"
  /\ wake_lock_timeout_q(unknown_wakeup, UnknownTimeout, suspend_work_queue)
  /\ goto("idle")

suspend ==
  \/ run_suspend_work \/ suspend_check \/ suspend_note \/ pm_suspend \/ pm_suspend_fails
  \/ try_to_freeze_tasks \/ tasks_frozen \/ power_suspend_late
  \/ suspend_ops_enter \/ wakeup \/ suspend_compare \/ suspend_unknown_wakeup

-----------------------------------------------------------------------------
driver(l) ==
  \/ running /\ (wake_lock_init(l) \/ wake_lock_destroy(l))
  \/ wake_lock(l) \/ wake_unlock(l)
  \/ \E timeout \in Timeouts : wake_lock_timeout(l, timeout)

(* request_suspend_state, which takes the main lock, is called by a task,  *)
(* and none runs once all are frozen.  The early_suspend work, which       *)
(* releases it, is run by the thread that runs the suspend work.           *)
user_runs == worker \notin {"devices", "noirq", "asleep"}

clock == Tick \/ DetachTimer \/ expire_wake_locks

Next ==
  \/ \E l \in DriverLocks : driver(l)
  \/ wake_lock(sync_wake_lock) \/ wake_unlock(sync_wake_lock)
  \/ user_runs /\ wake_lock(main_wake_lock)
  \/ worker = "idle" /\ wake_unlock(main_wake_lock)
  \/ clock
  \/ suspend

Spec == Init /\ [][Next]_vars

(* Time passes, timers fire and the worker thread gets on: freezing tasks  *)
(* too ends, by its TIMEOUT if not otherwise.  Whether drivers release     *)
(* their locks, what a pm_suspend meets and whether anything wakes a       *)
(* sleeping system is left open.                                           *)
Fairness ==
  /\ WF_vars(Tick) /\ WF_vars(DetachTimer) /\ WF_vars(expire_wake_locks)
  /\ WF_vars(suspend /\ running /\ worker' # worker)

FairSpec == Spec /\ Fairness

-----------------------------------------------------------------------------
TypeOK ==
  /\ initialized \in SUBSET Locks
  /\ active \in SUBSET initialized
  /\ auto_expire \in SUBSET active
  /\ ahead \in SUBSET (active \X active)
  /\ left \in [Locks -> 0 .. MaxTimeout]
  /\ expire_timer \in {NoTimer} \cup 0 .. MaxTimeout
  /\ timer_detached \in BOOLEAN
  /\ new_event \in BOOLEAN
  /\ suspend_work_queue \in Seq(Works)
  /\ worker \in SuspendSteps \cup {"idle", "other"}
  /\ dropped \in BOOLEAN

permanent == active \ auto_expire

(* wake_lock puts a lock at the head of the list, wake_lock_timeout at its *)
(* tail, so locks without a timeout come first.  has_wake_lock_locked      *)
(* relies on it: it stops at the first of them, and must have met no lock  *)
(* that it took off before.                                                *)
PermanentFirst ==
  \A p \in permanent, t \in auto_expire : <<p, t>> \in ahead /\ <<t, p>> \notin ahead

(* expire_timer is pending only when every lock held has a timeout, and    *)
(* never fires before the last of them; and while such locks are not yet   *)
(* timed out it is pending, except where wake_lock_destroy took away the   *)
(* last lock without a timeout: it does not start the timer.               *)
TimerCoversLocks ==
  /\ expire_timer # NoTimer =>
       permanent = {} /\ \A l \in active : left[l] <= expire_timer
  /\ permanent = {} /\ ~ dropped /\ (\E l \in active : left[l] > 0) =>
       expire_timer # NoTimer

(* Whenever no lock without a timeout is held the system is on its way to  *)
(* another try to suspend: the work is queued, or expire_timer will queue  *)
(* it, or it is running and will either sleep or, seeing no new event,     *)
(* take unknown_wakeup.  No order of unlocks, timeouts and a running       *)
(* suspend work loses the sleep request.  A driver that destroys the last  *)
(* such lock while it is held does: nothing is claimed from there to the   *)
(* next call that takes or releases a lock.                                *)
SuspendNotLost ==
  permanent = {} /\ ~ dropped =>
    \/ pending(suspend_work_queue, "suspend")
    \/ expire_timer # NoTimer \/ timer_detached
    \/ worker \in {"check", "note", "unknown_wakeup"}
    \/ worker \in SuspendSteps /\ ~ new_event

(* Once power_suspend_late has let the suspend pass, a lock found on the   *)
(* list was taken since, and the suspend work will see a new event: it     *)
(* does not cover that wakeup with unknown_wakeup.                         *)
LateLockIsNewEvent ==
  worker \in {"noirq", "asleep"} /\ active # {} => new_event

(* Kconfig, WAKELOCK: "the sleep request will be delayed until no wake     *)
(* locks are held": if from some time on only unknown_wakeup is ever held, *)
(* the suspend work calls pm_suspend again and again, or the system sleeps,*)
(* unless the last lock was destroyed while held.                          *)
RetriesWhenUnlocked ==
  <>[](active \subseteq {unknown_wakeup} /\ ~ dropped) =>
    []<>(worker \in {"sync", "asleep"})

(* wakelock.h: "A wake_lock prevents the system from entering suspend or   *)
(* other low power states when active": the platform's sleep is entered    *)
(* with no lock held.                                                      *)
NoSleepWhileLocked ==
  worker = "asleep" => \A l \in active : l \in auto_expire /\ left[l] = 0

-----------------------------------------------------------------------------
(* The locks that block suspend, and the stage of the try to suspend.      *)
held == {l \in active : l \in auto_expire => left[l] > 0}
mode == CASE worker \in {"note", "sync", "freeze", "devices"} -> "trying"
          [] worker \in {"noirq", "asleep"} -> "committed"
          [] OTHER -> "awake"

Blocker == INSTANCE SuspendBlocker WITH held <- held, mode <- mode

(* wakelock.c implements its promise: the suspend work passes has_wake_lock *)
(* and power_suspend_late only when no lock blocks suspend, and a system    *)
(* that nothing blocks keeps trying to suspend, unless it stays as the      *)
(* destruction of a held lock left it.                                      *)
ImplementsBlocker == Blocker!Spec /\ (<>[](~ dropped) => Blocker!Fairness)
=============================================================================
