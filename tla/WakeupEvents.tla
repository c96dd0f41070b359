---------------------------- MODULE WakeupEvents ----------------------------
(***************************************************************************)
(* drivers/base/power/wakeup.c: the wakeup events framework, with the      *)
(* wakeup_count attribute of kernel/power/main.c through which user space  *)
(* uses it and the transition of kernel/power/suspend.c that consults it.  *)
(*                                                                         *)
(* Functional units (drivers) open and close "no suspend" periods with     *)
(* pm_stay_awake / pm_relax, or open one that events_timer closes with     *)
(* pm_wakeup_event.  Power managers (processes) read wakeup_count, which   *)
(* waits for the open periods to end, and write it back, which arms the    *)
(* check that a later transition to sleep makes.                           *)
(*                                                                         *)
(* Every function holds events_lock, so each is one action; the sleep of   *)
(* pm_get_wakeup_count between two looks at the counter, and the gap       *)
(* between the timer core detaching events_timer and its handler taking    *)
(* the lock, are where others interleave.                                  *)
(*                                                                         *)
(* jiffies is a machine word that wraps: JiffiesMod is its modulus.        *)
(* dev->power.wakeup_count is a statistic nobody reads and is left out.    *)
(***************************************************************************)
EXTENDS Integers, FiniteSets

CONSTANTS
  Units,        \* drivers that call pm_stay_awake / pm_relax in pairs
  Procs,        \* processes that read wakeup_count
  Admins,       \* those with CAP_SYS_ADMIN, which may also write it
  JiffiesMod,   \* modulus of jiffies (2^32 in the kernel)
  Delays,       \* the non-zero msec arguments, in jiffies
  MaxLatency,   \* bound: jiffies a due timer handler may be late
  MaxEvents     \* bound: events registered in a behaviour

ASSUME UnitsFinite == IsFiniteSet(Units)
ASSUME AdminsAreProcs == Admins \subseteq Procs
ASSUME WordAssumption == JiffiesMod \in Nat /\ JiffiesMod > 1
ASSUME DelaysAssumption == Delays \subseteq Nat \ {0}
ASSUME BoundsAssumption == MaxLatency \in Nat /\ MaxEvents \in Nat
(* time_after compares words less than half a range apart, so no handler   *)
(* may be later than that: 2^31 jiffies, weeks at any CONFIG_HZ.           *)
ASSUME LatencyAssumption == MaxLatency < JiffiesMod \div 2

VARIABLES
  event_count, saved_event_count,   \* counters of wakeup.c
  events_in_progress,
  events_check_enabled,
  events_timer_expires,             \* 0: no timed period is open
  events_timer,                     \* expiry of the pending timer, or NoTimer
  timer_detached,                   \* handler about to run
  jiffies,
  awake,                            \* units between pm_stay_awake and pm_relax
  pc, count,                        \* each process and the value it has read
  phase                             \* the system transition

timerVars == <<events_timer_expires, events_timer, timer_detached>>
procVars == <<pc, count>>
countVars == <<event_count, events_in_progress, awake>>
checkVars == <<saved_event_count, events_check_enabled>>
vars == <<countVars, checkVars, timerVars, procVars, jiffies, phase>>

NoTimer == -1
Word == 0 .. JiffiesMod - 1

(* time_after, time_before_eq of linux/jiffies.h: the sign of the wrapped  *)
(* difference.                                                             *)
time_after(a, b) == (b - a) % JiffiesMod >= JiffiesMod \div 2
time_before_eq(a, b) == ~ time_after(a, b)

Init ==
  /\ event_count = 0 /\ saved_event_count = 0
  /\ events_in_progress = 0
  /\ events_check_enabled = FALSE
  /\ events_timer_expires = 0 /\ events_timer = NoTimer /\ timer_detached = FALSE
  /\ jiffies \in Word
  /\ awake = {}
  /\ pc = [p \in Procs |-> "idle"] /\ count = [p \in Procs |-> 0]
  /\ phase = "running"

-----------------------------------------------------------------------------
(* Drivers.  They run in any phase but "asleep": between the last check of *)
(* suspend_enter and the platform's sleep, interrupts are off.             *)

pm_stay_awake(u) ==
  /\ phase # "asleep"
  /\ u \notin awake
  /\ event_count + Cardinality(awake) < MaxEvents
  /\ awake' = awake \cup {u}
  /\ events_in_progress' = events_in_progress + 1
  /\ UNCHANGED <<event_count, checkVars, timerVars, procVars, jiffies, phase>>

pm_relax(u) ==
  /\ phase # "asleep"
  /\ u \in awake
  /\ awake' = awake \ {u}
  /\ IF events_in_progress > 0
       THEN /\ events_in_progress' = events_in_progress - 1
            /\ event_count' = event_count + 1
       ELSE UNCHANGED <<events_in_progress, event_count>>
  /\ UNCHANGED <<checkVars, timerVars, procVars, jiffies, phase>>

(* Mutant: an event with a processing time is left to be counted at its    *)
(* end, as one of pm_stay_awake is.                                        *)
count_event_mutant(msec) == event_count' = IF msec = 0 THEN event_count + 1 ELSE event_count

(* An event is counted when it is registered, whatever time it takes.      *)
count_event(msec) == event_count' = event_count + 1

(* jiffies + msecs_to_jiffies(msec), moved off 0, which means "no timer".  *)
expiry(msec) ==
  LET e == (jiffies + msec) % JiffiesMod IN IF e = 0 THEN 1 ELSE e

(* Mutant: every event that moves the timer is counted.                    *)
new_period_mutant == 1

(* Only the event that opens the timed period is counted.                  *)
new_period == IF events_timer_expires = 0 THEN 1 ELSE 0

(* Mutant: mod_timer is called only by the event that opens the period.    *)
mod_timer_mutant(expires) ==
  events_timer' = IF events_timer_expires = 0 THEN expires ELSE events_timer

(* The timer is moved, or put back on the wheel, with no slack: a timer    *)
(* made by DEFINE_TIMER has slack 0.                                       *)
mod_timer(expires) == events_timer' = expires

pm_wakeup_event(msec) ==
  /\ phase # "asleep"
  /\ event_count + Cardinality(awake) < MaxEvents
  /\ count_event(msec)
  /\ LET expires == expiry(msec) IN
       IF /\ msec # 0
          /\ events_timer_expires = 0 \/ time_after(expires, events_timer_expires)
         THEN /\ events_in_progress' = events_in_progress + new_period
              /\ mod_timer(expires)
              /\ events_timer_expires' = expires
         ELSE UNCHANGED <<events_in_progress, events_timer, events_timer_expires>>
  /\ UNCHANGED <<timer_detached, awake, checkVars, procVars, jiffies, phase>>

-----------------------------------------------------------------------------
(* The tick and the timer core.  A due handler is at most MaxLatency late. *)

overdue ==
  /\ events_timer_expires # 0
  /\ time_before_eq(events_timer_expires, jiffies)
  /\ (jiffies - events_timer_expires) % JiffiesMod >= MaxLatency

Tick ==
  /\ phase # "asleep"
  /\ ~ overdue
  /\ jiffies' = (jiffies + 1) % JiffiesMod
  /\ UNCHANGED <<countVars, checkVars, timerVars, procVars, phase>>

(* run_timers: the expired timer is taken off the wheel before its handler *)
(* is called.                                                              *)
DetachTimer ==
  /\ phase # "asleep"
  /\ events_timer # NoTimer /\ ~ timer_detached
  /\ time_before_eq(events_timer, jiffies)
  /\ events_timer' = NoTimer
  /\ timer_detached' = TRUE
  /\ UNCHANGED <<countVars, checkVars, events_timer_expires, procVars, jiffies, phase>>

(* Mutant: the handler does not look whether a period is open.             *)
period_over_mutant == time_before_eq(events_timer_expires, jiffies)

(* A handler may find the period extended, or already closed by a handler  *)
(* that was late.                                                          *)
period_over ==
  events_timer_expires # 0 /\ time_before_eq(events_timer_expires, jiffies)

pm_wakeup_timer_fn ==
  /\ phase # "asleep"
  /\ timer_detached
  /\ timer_detached' = FALSE
  /\ IF period_over
       THEN /\ events_in_progress' = events_in_progress - 1
            /\ events_timer_expires' = 0
       ELSE UNCHANGED <<events_in_progress, events_timer_expires>>
  /\ UNCHANGED <<event_count, awake, checkVars, events_timer, procVars, jiffies, phase>>

-----------------------------------------------------------------------------
(* Processes, which run until they are frozen.                             *)

userRuns == phase \in {"running", "freezing"}

(* pm_get_wakeup_count up to its first look at events_in_progress.         *)
pm_get_wakeup_count(p) ==
  /\ userRuns /\ pc[p] = "idle"
  /\ events_check_enabled' = (events_check_enabled /\ p \notin Admins)
  /\ IF events_in_progress > 0
       THEN pc' = [pc EXCEPT ![p] = "waiting"] /\ UNCHANGED count
       ELSE /\ pc' = [pc EXCEPT ![p] = "read"]
            /\ count' = [count EXCEPT ![p] = event_count]
  /\ UNCHANGED <<countVars, saved_event_count, timerVars, jiffies, phase>>

(* Mutant: waits for the check to be taken back, too.                      *)
wait_ends_mutant(p) ==
  /\ userRuns /\ pc[p] = "waiting"
  /\ events_in_progress = 0 /\ ~events_check_enabled
  /\ pc' = [pc EXCEPT ![p] = "read"]
  /\ count' = [count EXCEPT ![p] = event_count]
  /\ UNCHANGED <<countVars, checkVars, timerVars, jiffies, phase>>

(* A look after a 100 ms sleep that ends the wait.                         *)
wait_ends(p) ==
  /\ userRuns /\ pc[p] = "waiting"
  /\ events_in_progress = 0
  /\ pc' = [pc EXCEPT ![p] = "read"]
  /\ count' = [count EXCEPT ![p] = event_count]
  /\ UNCHANGED <<countVars, checkVars, timerVars, jiffies, phase>>

(* A signal, the freezer's included, ends the wait with -EINTR.            *)
wait_interrupted(p) ==
  /\ userRuns /\ pc[p] = "waiting"
  /\ events_in_progress > 0
  /\ pc' = [pc EXCEPT ![p] = "idle"]
  /\ UNCHANGED <<countVars, checkVars, timerVars, count, jiffies, phase>>

nothing_new(p) == count[p] = event_count /\ events_in_progress = 0

(* Writing the value read back, which fails with -EINVAL if events came.   *)
pm_save_wakeup_count(p) ==
  /\ userRuns /\ pc[p] = "read" /\ p \in Admins
  /\ pc' = [pc EXCEPT ![p] = "idle"]
  /\ IF nothing_new(p)
       THEN saved_event_count' = count[p] /\ events_check_enabled' = TRUE
       ELSE UNCHANGED checkVars
  /\ UNCHANGED <<countVars, timerVars, count, jiffies, phase>>

(* A reader that does not write back.                                      *)
forget(p) ==
  /\ userRuns /\ pc[p] = "read"
  /\ pc' = [pc EXCEPT ![p] = "idle"]
  /\ UNCHANGED <<countVars, checkVars, timerVars, count, jiffies, phase>>

-----------------------------------------------------------------------------
(* The transition to sleep, run by the suspend work.                       *)

pm_wakeup_pending ==
  events_check_enabled /\ event_count # saved_event_count /\ events_in_progress > 0

(* One call of pm_wakeup_pending: on true the caller gives the transition  *)
(* up and the check is disarmed, on false it goes on to phase next.        *)
check_pending(next) ==
  /\ phase' = IF pm_wakeup_pending THEN "running" ELSE next
  /\ events_check_enabled' = (events_check_enabled /\ ~ pm_wakeup_pending)
  /\ UNCHANGED <<countVars, saved_event_count, timerVars, procVars, jiffies>>

enter_state ==
  /\ phase = "running"
  /\ phase' = "freezing"
  /\ UNCHANGED <<countVars, checkVars, timerVars, procVars, jiffies>>

(* try_to_freeze_tasks looks in every round that leaves a task to freeze.  *)
freeze_round == phase = "freezing" /\ check_pending("freezing")

tasks_frozen ==
  /\ phase = "freezing"
  /\ \A p \in Procs : pc[p] # "waiting"
  /\ phase' = "devices"
  /\ UNCHANGED <<countVars, checkVars, timerVars, procVars, jiffies>>

(* dpm_prepare and __device_suspend look before each device.               *)
device_suspend == phase = "devices" /\ check_pending("devices")

(* suspend_enter: the last look, with interrupts off, then the platform.   *)
suspend_enter == phase = "devices" /\ check_pending("asleep")

(* Back from suspend_ops->enter the check is disarmed.                     *)
wakeup ==
  /\ phase = "asleep"
  /\ phase' = "running"
  /\ events_check_enabled' = FALSE
  /\ UNCHANGED <<countVars, saved_event_count, timerVars, procVars, jiffies>>

(* A transition given up for another reason leaves it armed.               *)
transition_fails ==
  /\ phase \in {"freezing", "devices"}
  /\ phase' = "running"
  /\ UNCHANGED <<countVars, checkVars, timerVars, procVars, jiffies>>

-----------------------------------------------------------------------------
Next ==
  \/ \E u \in Units : pm_stay_awake(u) \/ pm_relax(u)
  \/ \E msec \in Delays \cup {0} : pm_wakeup_event(msec)
  \/ Tick \/ DetachTimer \/ pm_wakeup_timer_fn
  \/ \E p \in Procs : \/ pm_get_wakeup_count(p) \/ wait_ends(p)
                      \/ wait_interrupted(p) \/ pm_save_wakeup_count(p) \/ forget(p)
  \/ enter_state \/ freeze_round \/ tasks_frozen \/ device_suspend
  \/ suspend_enter \/ wakeup \/ transition_fails

Spec == Init /\ [][Next]_vars

(* Time passes, due handlers run, a period once opened is closed, a sleep  *)
(* of 100 ms ends, and a transition goes on, a freeze round interrupts     *)
(* waiting readers, and some wakeup follows a sleep.                       *)
Fairness ==
  /\ WF_vars(Tick) /\ WF_vars(DetachTimer) /\ WF_vars(pm_wakeup_timer_fn)
  /\ \A u \in Units : WF_vars(pm_relax(u))
  /\ \A p \in Procs : WF_vars(wait_ends(p) \/ (phase = "freezing" /\ wait_interrupted(p)))
  /\ WF_vars(tasks_frozen) /\ WF_vars(suspend_enter) /\ WF_vars(wakeup)

FairSpec == Spec /\ Fairness

-----------------------------------------------------------------------------
TypeOK ==
  /\ event_count \in Nat /\ saved_event_count \in Nat
  /\ events_in_progress \in Nat
  /\ events_check_enabled \in BOOLEAN
  /\ events_timer_expires \in Word
  /\ events_timer \in Word \cup {NoTimer}
  /\ timer_detached \in BOOLEAN
  /\ jiffies \in Word
  /\ awake \in SUBSET Units
  /\ pc \in [Procs -> {"idle", "waiting", "read"}]
  /\ count \in [Procs -> Nat]
  /\ phase \in {"running", "freezing", "devices", "asleep"}

(* events_in_progress counts exactly the units between pm_stay_awake and   *)
(* pm_relax and the one timed period: it neither leaks, which would block  *)
(* wakeup_count readers for ever, nor underflows.                          *)
InProgressExact ==
  events_in_progress = Cardinality(awake) + (IF events_timer_expires = 0 THEN 0 ELSE 1)

(* An open timed period has a timer or a handler that will close it: the   *)
(* pending timer carries the recorded expiry, or the expiry is due and the *)
(* handler is on its way.                                                  *)
TimedPeriodEnds ==
  events_timer_expires # 0 =>
    \/ events_timer = events_timer_expires
    \/ timer_detached /\ time_before_eq(events_timer_expires, jiffies)

(* While the check is armed and the count is the saved one no timed period *)
(* is open: pm_save_wakeup_count refuses one already open, and opening one *)
(* moves the count.  So whatever is in progress then is a pm_stay_awake.   *)
ArmedCountCoversTimer ==
  events_check_enabled /\ event_count = saved_event_count => events_timer_expires = 0

(* Every read of wakeup_count returns, with a value or -EINTR, once events *)
(* stop arriving.                                                          *)
ReadReturns == \A p \in Procs : pc[p] = "waiting" ~> pc[p] # "waiting"

(* main.c: "the transition will be aborted if there are any wakeup events  *)
(* detected after 'wakeup_count' was written to": no sleep is entered with *)
(* the check armed and an event registered or in progress since.           *)
NoSleepOverEvents ==
  phase = "asleep" /\ events_check_enabled =>
    event_count = saved_event_count /\ events_in_progress = 0
=============================================================================
