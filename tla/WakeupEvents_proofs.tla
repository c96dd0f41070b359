------------------------ MODULE WakeupEvents_proofs ------------------------
(***************************************************************************)
(* The counters of wakeup.c are exact for any number of drivers and        *)
(* processes, any word size and any delays.                                *)
(***************************************************************************)
EXTENDS WakeupEvents, FiniteSetTheorems, TLAPS

USE WordAssumption, DelaysAssumption, BoundsAssumption, AdminsAreProcs

(* The expiry recorded for a timed period is a word other than 0, the      *)
(* value that stands for "no timer".                                       *)
LEMMA ExpiryIsWord ==
  ASSUME jiffies \in Word, NEW msec \in Nat
  PROVE  expiry(msec) \in Word \ {0}
<1> DEFINE e == (jiffies + msec) % JiffiesMod
<1>1. e \in 0 .. JiffiesMod - 1
  BY DEF Word
<1> QED
  BY <1>1 DEF expiry, Word

(* Opening and closing a period changes the number of open ones by one.    *)
LEMMA AwakeCardinality ==
  ASSUME NEW S \in SUBSET Units, NEW u \in Units
  PROVE  /\ Cardinality(S) \in Nat
         /\ u \notin S => Cardinality(S \cup {u}) = Cardinality(S) + 1
         /\ u \in S => Cardinality(S \ {u}) = Cardinality(S) - 1 /\ Cardinality(S) > 0
<1>1. IsFiniteSet(S)
  BY UnitsFinite, FS_Subset
<1>2. Cardinality(S) \in Nat
  BY <1>1, FS_CardinalityType
<1>3. u \notin S => Cardinality(S \cup {u}) = Cardinality(S) + 1
  BY <1>1, FS_AddElement
<1>4. u \in S => Cardinality(S \ {u}) = Cardinality(S) - 1
  BY <1>1, FS_RemoveElement
<1>5. u \in S => Cardinality(S \ {u}) \in Nat
  BY <1>1, FS_RemoveElement, FS_CardinalityType
<1> QED
  BY <1>2, <1>3, <1>4, <1>5

(* The remainder of a difference of two words.                             *)
LEMMA WordMod ==
  ASSUME NEW a \in Int, a < JiffiesMod, - JiffiesMod < a
  PROVE  a % JiffiesMod = IF a >= 0 THEN a ELSE a + JiffiesMod
OBVIOUS

(* A moment that lies less than MaxLatency back is still in the past one   *)
(* tick later: the tick does not carry it over half the range of a word.   *)
LEMMA TickKeepsPast ==
  ASSUME NEW j \in Word, NEW e \in Word, (j - e) % JiffiesMod < MaxLatency
  PROVE  time_before_eq(e, (j + 1) % JiffiesMod)
<1> DEFINE half == JiffiesMod \div 2
           next == IF j = JiffiesMod - 1 THEN 0 ELSE j + 1
           late == IF j >= e THEN j - e ELSE j - e + JiffiesMod
<1>1. half \in Nat /\ half < JiffiesMod
  OBVIOUS
<1>2. j \in Nat /\ e \in Nat /\ j < JiffiesMod /\ e < JiffiesMod
  BY DEF Word
<1>3. (j + 1) % JiffiesMod = next
  <2>1. CASE j = JiffiesMod - 1
    BY <1>2, <2>1
  <2>2. CASE j # JiffiesMod - 1
    BY <1>2, <2>2, WordMod
  <2> QED
    BY <2>1, <2>2
<1>4. (j - e) % JiffiesMod = late
  BY <1>2, WordMod
<1>5. (next - e) % JiffiesMod = IF next >= e THEN next - e ELSE next - e + JiffiesMod
  BY <1>2, WordMod
<1>6. late < MaxLatency /\ MaxLatency < half
  BY <1>4, LatencyAssumption
<1>7. (next - e) % JiffiesMod < half
  BY <1>1, <1>2, <1>5, <1>6
<1>8. (next - e) % JiffiesMod \in Int /\ ~ ((next - e) % JiffiesMod >= half)
  BY <1>1, <1>2, <1>5, <1>7
<1>9. time_before_eq(e, next)
  BY <1>8 DEF time_before_eq, time_after
<1> QED
  BY <1>3, <1>9

(* The saved count was once the count.                                     *)
SavedNotAhead == saved_event_count <= event_count

(* The inductive invariant of the counters: InProgressExact keeps pm_relax *)
(* and the timer handler from underflow, SavedNotAhead makes every event   *)
(* move the count away from the saved one.                                 *)
IInv == TypeOK /\ InProgressExact /\ SavedNotAhead /\ ArmedCountCoversTimer

(* At first there is no event and no timer.                                *)
LEMMA InitIInv == Init => IInv
<1>1. Cardinality({}) = 0
  BY FS_EmptySet
<1>2. 0 \in Word
  BY DEF Word
<1>3. Init => TypeOK
  <2> SUFFICES ASSUME Init PROVE TypeOK
    OBVIOUS
  <2>1. events_timer_expires \in Word
    BY <1>2 DEF Init
  <2>2. events_timer \in Word \cup {NoTimer}
    BY DEF Init
  <2>3. awake \in SUBSET Units
    BY DEF Init
  <2>4. pc \in [Procs -> {"idle", "waiting", "read"}]
    BY DEF Init
  <2>5. count \in [Procs -> Nat]
    BY DEF Init
  <2>6. events_check_enabled \in BOOLEAN /\ timer_detached \in BOOLEAN
    BY DEF Init
  <2> QED
    BY <2>1, <2>2, <2>3, <2>4, <2>5, <2>6 DEF Init, TypeOK
<1>4. Init => InProgressExact /\ SavedNotAhead /\ ArmedCountCoversTimer
  BY <1>1 DEF Init, InProgressExact, SavedNotAhead, ArmedCountCoversTimer
<1> QED
  BY <1>3, <1>4 DEF IInv

(* Every step keeps the invariant.                                         *)
LEMMA NextIInv == IInv /\ [Next]_vars => IInv'
<1> SUFFICES ASSUME IInv, [Next]_vars PROVE IInv'
  OBVIOUS
<1> USE DEF IInv, TypeOK, InProgressExact, SavedNotAhead, ArmedCountCoversTimer
<1>1. ASSUME NEW u \in Units, pm_stay_awake(u) PROVE IInv'
  <2>1. Cardinality(awake \cup {u}) = Cardinality(awake) + 1 /\ Cardinality(awake) \in Nat
    BY <1>1, AwakeCardinality DEF pm_stay_awake
  <2> QED
    BY <1>1, <2>1 DEF pm_stay_awake, checkVars, timerVars, procVars
<1>2. ASSUME NEW u \in Units, pm_relax(u) PROVE IInv'
  <2>1. Cardinality(awake \ {u}) = Cardinality(awake) - 1
        /\ Cardinality(awake) \in Nat /\ Cardinality(awake) > 0
    BY <1>2, AwakeCardinality DEF pm_relax
  <2> QED
    BY <1>2, <2>1 DEF pm_relax, checkVars, timerVars, procVars
<1>3. ASSUME NEW msec \in Delays \cup {0}, pm_wakeup_event(msec) PROVE IInv'
  <2>1. expiry(msec) \in Word \ {0}
    BY ExpiryIsWord
  <2>2. Cardinality(awake) \in Nat
    BY UnitsFinite, FS_Subset, FS_CardinalityType
  <2> QED
    BY <1>3, <2>1, <2>2 DEF pm_wakeup_event, count_event, new_period, mod_timer, checkVars, procVars
<1>4. CASE Tick
  <2>1. (jiffies + 1) % JiffiesMod \in Word
    BY DEF Word
  <2> QED
    BY <1>4, <2>1 DEF Tick, countVars, checkVars, timerVars, procVars
<1>5. CASE DetachTimer
  BY <1>5 DEF DetachTimer, countVars, checkVars, procVars
<1>6. CASE pm_wakeup_timer_fn
  <2>1. Cardinality(awake) \in Nat
    BY UnitsFinite, FS_Subset, FS_CardinalityType
  <2>2. 0 \in Word
    BY DEF Word
  <2>3. CASE period_over
    <3>1. events_timer_expires # 0
      BY <2>3 DEF period_over
    <3>2. events_in_progress = Cardinality(awake) + 1
      BY <3>1
    <3>3. UNCHANGED <<event_count, awake, checkVars, events_timer, procVars, jiffies, phase>>
          /\ timer_detached' = FALSE /\ events_timer_expires' = 0
          /\ events_in_progress' = events_in_progress - 1
      BY <1>6, <2>3 DEF pm_wakeup_timer_fn
    <3>4. InProgressExact'
      BY <2>1, <3>2, <3>3
    <3>5. events_timer_expires' \in Word
      BY <2>2, <3>3
    <3>6. events_in_progress' \in Nat
      BY <2>1, <3>2, <3>3
    <3>7. timer_detached' \in BOOLEAN
      BY <3>3
    <3>8. TypeOK'
      BY <3>3, <3>5, <3>6, <3>7 DEF checkVars, procVars
    <3>9. SavedNotAhead' /\ ArmedCountCoversTimer'
      BY <3>3 DEF checkVars
    <3> QED
      BY <3>4, <3>8, <3>9
  <2>4. CASE ~ period_over
    BY <1>6, <2>4 DEF pm_wakeup_timer_fn, checkVars, procVars
  <2> QED
    BY <2>3, <2>4
<1>7. ASSUME NEW p \in Procs, pm_get_wakeup_count(p) PROVE IInv'
  BY <1>7 DEF pm_get_wakeup_count, countVars, timerVars
<1>8. ASSUME NEW p \in Procs, wait_ends(p) PROVE IInv'
  BY <1>8 DEF wait_ends, countVars, checkVars, timerVars
<1>9. ASSUME NEW p \in Procs, wait_interrupted(p) PROVE IInv'
  BY <1>9 DEF wait_interrupted, countVars, checkVars, timerVars
<1>10. ASSUME NEW p \in Procs, pm_save_wakeup_count(p) PROVE IInv'
  <2>1. Cardinality(awake) \in Nat
    BY UnitsFinite, FS_Subset, FS_CardinalityType
  <2>2. CASE nothing_new(p)
    <3>1. events_timer_expires = 0
      BY <2>1, <2>2 DEF nothing_new
    <3>2. UNCHANGED <<countVars, timerVars, count, jiffies, phase>>
          /\ saved_event_count' = event_count /\ events_check_enabled' = TRUE
          /\ pc' = [pc EXCEPT ![p] = "idle"]
      BY <1>10, <2>2 DEF pm_save_wakeup_count, nothing_new
    <3>3. TypeOK'
      BY <3>2 DEF countVars, timerVars
    <3>4. InProgressExact' /\ SavedNotAhead' /\ ArmedCountCoversTimer'
      BY <3>1, <3>2 DEF countVars, timerVars
    <3> QED
      BY <3>3, <3>4
  <2>3. CASE ~ nothing_new(p)
    BY <1>10, <2>3 DEF pm_save_wakeup_count, countVars, checkVars, timerVars
  <2> QED
    BY <2>2, <2>3
<1>11. ASSUME NEW p \in Procs, forget(p) PROVE IInv'
  BY <1>11 DEF forget, countVars, checkVars, timerVars
<1>12. ASSUME NEW next \in {"running", "freezing", "devices", "asleep"},
              check_pending(next)
       PROVE  IInv'
  BY <1>12 DEF check_pending, pm_wakeup_pending, countVars, timerVars, procVars
<1>13. CASE enter_state
  BY <1>13 DEF enter_state, countVars, checkVars, timerVars, procVars
<1>14. CASE freeze_round
  BY <1>12, <1>14 DEF freeze_round
<1>15. CASE tasks_frozen
  BY <1>15 DEF tasks_frozen, countVars, checkVars, timerVars, procVars
<1>16. CASE device_suspend
  BY <1>12, <1>16 DEF device_suspend
<1>17. CASE suspend_enter
  BY <1>12, <1>17 DEF suspend_enter
<1>18. CASE wakeup
  BY <1>18 DEF wakeup, countVars, timerVars, procVars
<1>19. CASE transition_fails
  BY <1>19 DEF transition_fails, countVars, checkVars, timerVars, procVars
<1>20. CASE UNCHANGED vars
  BY <1>20 DEF vars, countVars, checkVars, timerVars, procVars
<1> QED
  BY <1>1, <1>2, <1>3, <1>4, <1>5, <1>6, <1>7, <1>8, <1>9, <1>10, <1>11, <1>13,
     <1>14, <1>15, <1>16, <1>17, <1>18, <1>19, <1>20 DEF Next

(* The timed period: with the types, TimedPeriodEnds is inductive.  Only   *)
(* the timer core's steps and the tick can disturb it.                     *)
LEMMA NextTimedPeriodEnds == TypeOK /\ TimedPeriodEnds /\ [Next]_vars => TimedPeriodEnds'
<1> SUFFICES ASSUME TypeOK, TimedPeriodEnds, [Next]_vars PROVE TimedPeriodEnds'
  OBVIOUS
<1>1. CASE UNCHANGED <<timerVars, jiffies>>
  BY <1>1 DEF TimedPeriodEnds, timerVars
<1>2. ASSUME NEW msec \in Delays \cup {0}, pm_wakeup_event(msec) PROVE TimedPeriodEnds'
  BY <1>2 DEF pm_wakeup_event, mod_timer, TimedPeriodEnds
<1>3. CASE Tick
  <2> SUFFICES ASSUME events_timer_expires # 0, events_timer # events_timer_expires
               PROVE  timer_detached /\ time_before_eq(events_timer_expires, jiffies')
    BY <1>3 DEF Tick, timerVars, TimedPeriodEnds
  <2>1. timer_detached /\ time_before_eq(events_timer_expires, jiffies)
    BY DEF TimedPeriodEnds
  <2>2. jiffies \in Word /\ events_timer_expires \in Word
    BY DEF TypeOK
  <2>3. (jiffies - events_timer_expires) % JiffiesMod \in Int
    BY <2>2 DEF Word
  <2>4. (jiffies - events_timer_expires) % JiffiesMod < MaxLatency
    BY <1>3, <2>1, <2>3 DEF Tick, overdue
  <2>5. jiffies' = (jiffies + 1) % JiffiesMod
    BY <1>3 DEF Tick
  <2> QED
    BY <2>1, <2>2, <2>4, <2>5, TickKeepsPast
<1>4. CASE DetachTimer
  BY <1>4 DEF DetachTimer, TimedPeriodEnds
<1>5. CASE pm_wakeup_timer_fn
  BY <1>5 DEF pm_wakeup_timer_fn, period_over, TimedPeriodEnds
<1>6. ASSUME NEW u \in Units, pm_stay_awake(u) \/ pm_relax(u) PROVE TimedPeriodEnds'
  BY <1>1, <1>6 DEF pm_stay_awake, pm_relax
<1>7. ASSUME NEW p \in Procs,
             \/ pm_get_wakeup_count(p) \/ wait_ends(p) \/ wait_interrupted(p)
             \/ pm_save_wakeup_count(p) \/ forget(p)
      PROVE  TimedPeriodEnds'
  BY <1>1, <1>7 DEF pm_get_wakeup_count, wait_ends, wait_interrupted,
     pm_save_wakeup_count, forget
<1>8. CASE \/ enter_state \/ freeze_round \/ tasks_frozen \/ device_suspend
           \/ suspend_enter \/ wakeup \/ transition_fails
  BY <1>1, <1>8 DEF enter_state, freeze_round, tasks_frozen, device_suspend,
     suspend_enter, wakeup, transition_fails, check_pending
<1>9. CASE UNCHANGED vars
  BY <1>1, <1>9 DEF vars
<1> QED
  BY <1>2, <1>3, <1>4, <1>5, <1>6, <1>7, <1>8, <1>9 DEF Next

(* Every reachable state is well typed: in particular the unsigned counter *)
(* of open periods never goes below zero.                                  *)
THEOREM TypeCorrect == Spec => []TypeOK
BY InitIInv, NextIInv, PTL DEF Spec, IInv

(* events_in_progress is the number of open pm_stay_awake periods plus the *)
(* timed one, however pm_wakeup_event, a late timer handler and pm_relax   *)
(* interleave.                                                             *)
THEOREM CountersExact == Spec => []InProgressExact
BY InitIInv, NextIInv, PTL DEF Spec, IInv

(* While the check is armed and no event was registered since, no timed    *)
(* period is open.                                                         *)
THEOREM ArmedCheckCoversTimer == Spec => []ArmedCountCoversTimer
BY InitIInv, NextIInv, PTL DEF Spec, IInv

(* An open timed period always has a pending timer with its expiry, or is  *)
(* due with a handler on its way that will close it: moving the timer      *)
(* while the handler waits for events_lock loses no wakeup of the timer,   *)
(* and jiffies wrapping meanwhile does not either.                         *)
THEOREM TimedPeriodHasTimer == Spec => []TimedPeriodEnds
<1>1. Init => TimedPeriodEnds
  BY DEF Init, TimedPeriodEnds
<1> QED
  BY <1>1, InitIInv, NextIInv, NextTimedPeriodEnds, PTL DEF Spec, IInv
=============================================================================
