--------------------------- MODULE CpuFreq_proofs ---------------------------
(***************************************************************************)
(* The driver's clock and voltages, the policy's locks, DVFS locks and     *)
(* sleep, for any owners of DVFS locks and any table of frequencies.       *)
(***************************************************************************)
EXTENDS CpuFreq, NaturalsInduction, WellFoundedInduction, TLAPS

Files == {"old_file", "global_file"}
PCs == {"idle", "target", "in_target", "update", "limits", "unlock", "held", "ready", "bad",
        "prepared", "frozen", "post", "enabled", "old_file", "global_file"} \cup Stopping

(* Where __cpufreq_driver_target may return to.                            *)
Labels == {"unlock", "limits", "ready", "bad", "enabled"}
Calling == {"target", "in_target"}

(* The types that the locks depend on.                                     *)
ThreadTypes ==
  /\ pc \in [Threads -> PCs]
  /\ rwsem \in Threads \cup {NONE} /\ timer_mutex \in Threads \cup {NONE}
  /\ DOMAIN want = Threads
  /\ tgt.by \in Threads \cup {NONE}
  /\ tgt.step # "idle" => tgt.by \in Threads

(* Who holds set_freq_lock, rwsem and timer_mutex, and what ondemand's     *)
(* work may be doing.                                                      *)
InTarget == \A t \in Threads : pc[t] = "in_target" <=> tgt.by = t
Returns == \A t \in Threads :
             pc[t] \in Calling => want[t].ok \in Labels /\ want[t].err \in Labels
UnderRwsem == \A t \in Threads : rwsem = t => pc[t] \in Calling \cup Labels \cup Stopping
UnderTimer ==
  \A t \in Threads : timer_mutex = t \/ (t = "gov" /\ pc[t] # "idle") =>
    /\ pc[t] \in Calling \cup {"unlock"}
    /\ pc[t] \in Calling => want[t].ok = "unlock" /\ want[t].err = "unlock"

(* Only the writer of scaling_governor stops a governor, and only the task *)
(* at ondemand's files is in one.                                          *)
Places == \A t \in Threads : /\ pc[t] \in Stopping => t = "user"
                             /\ pc[t] \in Files => t = "attr"

LockInv ==
  /\ ThreadTypes
  /\ Places
  /\ InTarget
  /\ Returns
  /\ UnderRwsem
  /\ UnderTimer

(* Threads that wait for each other: set_freq_lock, ondemand's work and    *)
(* timer_mutex are held by threads that do not wait, or wait for the next; *)
(* what is left is rwsem, held by a thread that removes files.             *)
LEMMA LocksOrdered == LockInv => NoCircularWait
<1> SUFFICES ASSUME LockInv, NEW S \in SUBSET Threads, S # {},
                    \A t \in S : waitsFor(t) \in S
             PROVE  StopUnderRwsem /\ {"user", "attr"} \subseteq S
  BY DEF NoCircularWait
<1>0. /\ NONE \notin Threads /\ InTarget /\ UnderRwsem /\ UnderTimer /\ Places
      /\ pc \in [Threads -> PCs]
  BY ThreadsAssumption DEF LockInv, ThreadTypes
<1>a. \A t \in S : waitsFor(t) \in S /\ waitsFor(t) # NONE /\ t \in Threads
  BY <1>0
<1>1. \A t \in S : pc[t] \in {"target", "update", "post", "limits", "gov_stop", "gov_remove",
                              "gov_remove_global", "old_file", "global_file"}
  BY <1>a DEF waitsFor
<1>2. \A t \in S : pc[t] # "target"
  <2> SUFFICES ASSUME NEW t \in S, pc[t] = "target" PROVE FALSE
    OBVIOUS
  <2>1. tgt.by \in S
    BY <1>a DEF waitsFor
  <2> QED
    BY <1>0, <1>1, <2>1 DEF InTarget
<1>3. \A t \in S : pc[t] # "gov_stop"
  <2> SUFFICES ASSUME NEW t \in S, pc[t] = "gov_stop" PROVE FALSE
    OBVIOUS
  <2>1. "gov" \in S /\ pc["gov"] # "idle"
    BY <1>a DEF waitsFor
  <2> QED
    BY <1>0, <1>1, <1>2, <2>1 DEF UnderTimer, Calling
<1>4. \A t \in S : pc[t] # "limits"
  <2> SUFFICES ASSUME NEW t \in S, pc[t] = "limits" PROVE FALSE
    OBVIOUS
  <2>1. timer_mutex \in S
    BY <1>a DEF waitsFor
  <2> QED
    BY <1>0, <1>1, <1>2, <2>1 DEF UnderTimer, Calling
<1>5. \A t \in S : pc[t] # "global_file"
  <2> SUFFICES ASSUME NEW t \in S, pc[t] = "global_file" PROVE FALSE
    OBVIOUS
  <2>1. "user" \in S /\ pc["user"] = "gov_remove"
    BY <1>a DEF waitsFor
  <2>2. pc["attr"] = "old_file"
    BY <1>a, <2>1 DEF waitsFor, inFile
  <2> QED
    BY <1>0, <2>2 DEF Places, Files
<1>6. \A t \in S : pc[t] # "gov_remove_global"
  BY <1>a, <1>5 DEF waitsFor, inFile
<1>7. \E t \in S : pc[t] = "gov_remove"
  <2> SUFFICES ASSUME \A t \in S : pc[t] # "gov_remove" PROVE FALSE
    OBVIOUS
  <2>1. PICK t \in S : pc[t] \in {"update", "post", "old_file"}
    BY <1>1, <1>2, <1>3, <1>4, <1>5, <1>6
  <2>2. rwsem \in S
    BY <1>a, <2>1 DEF waitsFor
  <2>3. pc[rwsem] \in Calling \cup Labels \cup Stopping
    BY <1>0, <2>2 DEF UnderRwsem
  <2> QED
    BY <1>1, <1>2, <1>3, <1>4, <1>6, <2>2, <2>3 DEF Calling, Labels, Stopping
<1>8. PICK t \in S : pc[t] = "gov_remove"
  BY <1>7
<1>9. t = "user" /\ "attr" \in S /\ pc["attr"] = "old_file"
  BY <1>a, <1>0, <1>8 DEF Places, Stopping, waitsFor, inFile
<1> QED
  BY <1>8, <1>9 DEF StopUnderRwsem, inFile

-----------------------------------------------------------------------------
(* The ways a step changes what the locks depend on: a thread calls the    *)
(* driver, gets set_freq_lock, returns from the driver, or goes on.        *)
LEMMA ThreadCalls ==
  ASSUME LockInv, NEW t \in Threads, pc[t] \notin Calling,
         NEW f, NEW r, NEW m, NEW ok \in Labels, NEW err \in Labels,
         call(t, f, r, m, ok, err), tgt' = tgt,
         rwsem' \in {rwsem, t}, timer_mutex' \in {timer_mutex, t},
         timer_mutex' = t \/ t = "gov" => ok = "unlock" /\ err = "unlock"
  PROVE  LockInv'
<1>0. /\ pc' = [pc EXCEPT ![t] = "target"]
      /\ want' = [want EXCEPT ![t] = [freq |-> f, relation |-> r, mark |-> m,
                                      ok |-> ok, err |-> err]]
  BY DEF call, goto
<1>1. /\ pc'[t] = "target" /\ \A u \in Threads \ {t} : pc'[u] = pc[u] /\ want'[u] = want[u]
      /\ want'[t].ok = ok /\ want'[t].err = err
      /\ pc' \in [Threads -> PCs] /\ DOMAIN want' = Threads
  BY <1>0 DEF LockInv, ThreadTypes, PCs
<1>2. ThreadTypes'
  BY <1>1 DEF LockInv, ThreadTypes
<1>3. InTarget'
  BY <1>1 DEF LockInv, InTarget, Calling
<1>4. Returns'
  BY <1>1 DEF LockInv, Returns
<1>5. UnderRwsem'
  BY <1>1 DEF LockInv, UnderRwsem, Calling
<1>6. UnderTimer'
  BY <1>1 DEF LockInv, UnderTimer, Calling
<1>7. Places'
  BY <1>1 DEF LockInv, Places, Stopping, Files
<1> QED
  BY <1>2, <1>3, <1>4, <1>5, <1>6, <1>7 DEF LockInv

(* A thread gets set_freq_lock.                                            *)
LEMMA ThreadEnters ==
  ASSUME LockInv, NEW t \in Threads, pc[t] = "target", tgt.by = NONE,
         goto(t, "in_target"), tgt'.by = t, UNCHANGED <<want, rwsem, timer_mutex>>
  PROVE  LockInv'
<1>1. /\ pc'[t] = "in_target" /\ \A u \in Threads \ {t} : pc'[u] = pc[u]
      /\ pc' \in [Threads -> PCs] /\ NONE \notin Threads
  BY ThreadsAssumption DEF LockInv, ThreadTypes, PCs, goto
<1>2. ThreadTypes'
  BY <1>1 DEF LockInv, ThreadTypes
<1>3. InTarget'
  BY <1>1 DEF LockInv, InTarget
<1>4. Returns'
  BY <1>1 DEF LockInv, Returns, Calling
<1>5. UnderRwsem'
  BY <1>1 DEF LockInv, UnderRwsem, Calling
<1>6. UnderTimer'
  BY <1>1 DEF LockInv, UnderTimer, Calling
<1>7. Places'
  BY <1>1 DEF LockInv, Places, Stopping, Files
<1> QED
  BY <1>2, <1>3, <1>4, <1>5, <1>6, <1>7 DEF LockInv

(* A thread returns from the driver.                                       *)
LEMMA ThreadReturns ==
  ASSUME LockInv, NEW t \in Threads, pc[t] \in Calling, tgt.by \in {t, NONE},
         NEW label, label \in {want[t].ok, want[t].err}, return(t, label),
         tgt'.by = NONE, tgt'.step = "idle", UNCHANGED <<rwsem, timer_mutex>>
  PROVE  LockInv'
<1>0. pc' = [pc EXCEPT ![t] = label] /\ want' = [want EXCEPT ![t] = noWant]
  BY DEF return, goto
<1>1. label \in Labels /\ label \notin Calling /\ label \in PCs
  BY DEF LockInv, Returns, Labels, Calling, PCs
<1>2. /\ pc'[t] = label /\ \A u \in Threads \ {t} : pc'[u] = pc[u] /\ want'[u] = want[u]
      /\ pc' \in [Threads -> PCs] /\ DOMAIN want' = Threads /\ NONE \notin Threads
  BY <1>0, <1>1, ThreadsAssumption DEF LockInv, ThreadTypes
<1>3. ThreadTypes'
  BY <1>2 DEF LockInv, ThreadTypes
<1>4. InTarget'
  BY <1>1, <1>2 DEF LockInv, InTarget, Calling
<1>5. Returns'
  BY <1>1, <1>2 DEF LockInv, Returns
<1>6. UnderRwsem'
  BY <1>1, <1>2 DEF LockInv, UnderRwsem
<1>7. UnderTimer'
  <2>1. timer_mutex = t \/ t = "gov" => label = "unlock"
    BY DEF LockInv, UnderTimer, Calling
  <2> QED
    BY <1>1, <1>2, <2>1 DEF LockInv, UnderTimer
<1>8. Places'
  BY <1>1, <1>2 DEF LockInv, Places, Stopping, Files, Labels
<1> QED
  BY <1>3, <1>4, <1>5, <1>6, <1>7, <1>8 DEF LockInv

(* A thread goes on, outside the driver.                                   *)
LEMMA ThreadGoes ==
  ASSUME LockInv, NEW t \in Threads, pc[t] \notin Calling,
         NEW q \in PCs \ Calling, goto(t, q), UNCHANGED <<want, tgt>>,
         rwsem' \in {rwsem, t, NONE}, timer_mutex' \in {timer_mutex, t, NONE},
         rwsem' = t => q \in Labels \cup Stopping, timer_mutex' = t => q = "unlock",
         t = "gov" => q = "idle", q \in Stopping => t = "user", q \in Files => t = "attr"
  PROVE  LockInv'
<1>1. /\ pc'[t] = q /\ \A u \in Threads \ {t} : pc'[u] = pc[u]
      /\ pc' \in [Threads -> PCs] /\ NONE \notin Threads
  BY ThreadsAssumption DEF LockInv, ThreadTypes, goto
<1>2. ThreadTypes'
  BY <1>1 DEF LockInv, ThreadTypes
<1>3. InTarget'
  BY <1>1 DEF LockInv, InTarget, Calling
<1>4. Returns'
  BY <1>1 DEF LockInv, Returns
<1>5. UnderRwsem'
  BY <1>1 DEF LockInv, UnderRwsem
<1>6. UnderTimer'
  BY <1>1 DEF LockInv, UnderTimer
<1>7. Places'
  BY <1>1 DEF LockInv, Places
<1> QED
  BY <1>2, <1>3, <1>4, <1>5, <1>6, <1>7 DEF LockInv

(* Nobody moves.                                                           *)
LEMMA ThreadsStay ==
  ASSUME LockInv, UNCHANGED <<pc, want, rwsem, timer_mutex>>, tgt'.by = tgt.by,
         tgt'.step # "idle" => tgt.step # "idle"
  PROVE  LockInv'
BY DEF LockInv, ThreadTypes, Places, InTarget, Returns, UnderRwsem, UnderTimer

-----------------------------------------------------------------------------
(* The driver's transition, under set_freq_lock.                           *)
TgtTypes ==
  /\ faulty \in BOOLEAN /\ first_run \in BOOLEAN /\ no_cpufreq_access \in BOOLEAN
  /\ clk \in Levels
  /\ raised \in BOOLEAN
  /\ vdd_arm \in {arm_volt[l] : l \in Levels} /\ vdd_int \in {int_volt[l] : l \in Levels}
  /\ tgt \in [by : Threads \cup {NONE}, index : Levels, up : BOOLEAN,
              step : {"idle", "arm_up", "int_up", "clock", "int_down", "arm_down", "out"}]

(* Everything but the driver's steps.                                      *)
OtherStep ==
  \/ \E t \in Threads : \/ cpufreq_update_policy(t) \/ limits_performance(t)
                        \/ limits_powersave(t) \/ limits_ondemand(t) \/ unlock(t)
  \/ \E c \in Callers : unlock_dvfs(c) \/ \E l \in LockLevels : lock_dvfs(c, l)
  \/ do_dbs_timer \/ handle_update
  \/ \E f \in UserMins : store_one("min", f)
  \/ \E f \in UserMaxs : store_one("max", f)
  \/ \E e \in EnabledSets : store_states_enabled_table(e)
  \/ store_scaling_governor \/ governor_stop
  \/ \E g \in Governors : governor_start(g)
  \/ governor_start_fails
  \/ (\E file \in {"old_file", "global_file"} : attr_enter(file)) \/ attr_leave
  \/ pm_suspend_prepare \/ pmStep

(* Its actions one by one, for case splits.                                *)
LEMMA OtherActions ==
  ASSUME OtherStep
  PROVE  \/ \E t \in Threads : cpufreq_update_policy(t)
         \/ \E t \in Threads : limits_performance(t)
         \/ \E t \in Threads : limits_powersave(t)
         \/ \E t \in Threads : limits_ondemand(t)
         \/ \E t \in Threads : unlock(t)
         \/ \E c \in Callers : unlock_dvfs(c)
         \/ \E c \in Callers, l \in LockLevels : lock_dvfs(c, l)
         \/ do_dbs_timer \/ handle_update
         \/ \E f \in UserMins : store_one("min", f)
         \/ \E f \in UserMaxs : store_one("max", f)
         \/ \E e \in EnabledSets : store_states_enabled_table(e)
         \/ store_scaling_governor \/ governor_stop \/ governor_start_fails
         \/ \E g \in Governors : governor_start(g)
         \/ \E file \in Files : attr_enter(file)
         \/ attr_leave
         \/ pm_suspend_prepare \/ pm_suspend_prepared \/ suspend_freeze_processes
         \/ suspend_devices_and_enter \/ pm_post_suspend \/ pm_post_update
BY DEF OtherStep, pmStep, Files

(* They leave the hardware and the driver's transition alone.              *)
LEMMA OtherFrame ==
  ASSUME OtherStep
  PROVE  UNCHANGED <<hw, no_cpufreq_access, raised, tgt>>
BY OtherActions DEF cpufreq_update_policy, limits_performance, limits_powersave,
   limits_ondemand, unlock, unlock_dvfs, lock_dvfs, do_dbs_timer, handle_update, store_one,
   store_states_enabled_table, store_scaling_governor, governor_stop, governor_start,
   governor_start_fails, attr_enter, attr_leave, pm_suspend_prepare,
   pm_suspend_prepared, suspend_freeze_processes, suspend_devices_and_enter,
   pm_post_suspend, pm_post_update, locks, gate

(* The three kinds of step.                                                *)
LEMMA NextActions ==
  ASSUME Next
  PROVE  targetStep \/ (\E t \in Threads : s5pv210_cpufreq_target(t)) \/ OtherStep
BY DEF Next, threadStep, OtherStep

(* The steps under set_freq_lock.                                          *)
LEMMA TargetLocks ==
  ASSUME LockInv, TgtTypes, targetStep
  PROVE  LockInv'
<1>0. NONE \notin Threads
  BY ThreadsAssumption
<1>1. tgt.by \in Threads /\ pc[tgt.by] = "in_target" /\ locks' = locks
  BY DEF LockInv, ThreadTypes, InTarget, targetStep, target_fails, target_arm_up, target_int_up,
     target_clock, target_int_down, target_arm_down, target_out
<1>2. CASE target_fails \/ target_out
  <2>1. tgt' = idleTgt
    BY <1>2 DEF target_fails, target_out
  <2>2. tgt'.by = NONE /\ tgt'.step = "idle"
    BY <2>1 DEF idleTgt
  <2>3. return(tgt.by, want[tgt.by].err) \/ return(tgt.by, want[tgt.by].ok)
    BY <1>2 DEF target_fails, target_out
  <2> QED
    BY <1>1, <2>2, <2>3, ThreadReturns DEF locks, Calling
<1>3. CASE target_arm_up \/ target_int_up \/ target_clock \/ target_int_down \/ target_arm_down
  <2>1. /\ UNCHANGED <<pc, want, rwsem, timer_mutex>>
        /\ tgt.step # "idle"
        /\ \E v : tgt' = [tgt EXCEPT !.step = v]
    BY <1>3 DEF target_arm_up, target_int_up, target_clock, target_int_down, target_arm_down, locks
  <2>2. tgt'.by = tgt.by
    BY <2>1 DEF TgtTypes
  <2> QED
    BY <2>1, <2>2, ThreadsStay
<1> QED
  BY <1>2, <1>3 DEF targetStep

(* The step that takes set_freq_lock, or returns at once.                  *)
LEMMA DriverLocks ==
  ASSUME LockInv, TgtTypes, NEW t \in Threads, s5pv210_cpufreq_target(t)
  PROVE  LockInv'
<1>1. /\ pc[t] = "target" /\ tgt.by = NONE /\ tgt.step = "idle"
      /\ UNCHANGED <<rwsem, timer_mutex>>
  BY ThreadsAssumption DEF s5pv210_cpufreq_target, locks, LockInv, ThreadTypes
<1>2. CASE (return(t, want[t].ok) \/ return(t, want[t].err)) /\ tgt' = tgt
  BY <1>1, <1>2, ThreadReturns DEF Calling
<1>3. CASE /\ goto(t, "in_target") /\ want' = want
           /\ \E k, u, v : tgt' = [by |-> t, index |-> k, up |-> u, step |-> v]
  <2>1. tgt'.by = t
    BY <1>3
  <2> QED
    BY <1>1, <1>3, <2>1, ThreadEnters
<1>4. \/ (return(t, want[t].ok) \/ return(t, want[t].err)) /\ tgt' = tgt
      \/ /\ goto(t, "in_target") /\ want' = want
         /\ \E k, u, v : tgt' = [by |-> t, index |-> k, up |-> u, step |-> v]
  BY DEF s5pv210_cpufreq_target
<1> QED
  BY <1>2, <1>3, <1>4

(* The other threads' steps.                                               *)
LEMMA OtherLocks ==
  ASSUME LockInv, governor \in Governors, OtherStep
  PROVE  LockInv'
<1> USE DEF Labels, Calling, Stopping, Files
<1>0. /\ {"pm", "gov", "user", "attr", "work"} \subseteq Threads /\ NONE \notin Threads
      /\ \A c \in Callers : c \in Threads /\ c \notin {"pm", "gov", "user", "attr", "work"}
      /\ tgt' = tgt
  BY ThreadsAssumption, OtherFrame DEF Threads, Others
<1>01. \A t \in Threads : t = "gov" => pc[t] \notin {"update", "limits"}
  BY DEF LockInv, UnderTimer
<1>02. \A t \in Threads : finished(t) \in {"idle", "held"} /\ (t = "gov" => finished(t) = "idle")
  BY <1>0 DEF finished
<1>1. ASSUME NEW t \in Threads, cpufreq_update_policy(t) PROVE LockInv'
  BY <1>0, <1>01, <1>02, <1>1, ThreadGoes DEF cpufreq_update_policy, PCs, LockInv, UnderTimer,
     UnderRwsem
<1>2. ASSUME NEW t \in Threads, limits_performance(t) \/ limits_powersave(t) PROVE LockInv'
  <2>1. \E f, r : call(t, f, r, "none", "unlock", "unlock")
    BY <1>2 DEF limits_performance, limits_powersave
  <2> QED
    BY <1>0, <1>2, <2>1, ThreadCalls DEF limits_performance, limits_powersave, locks
<1>3. ASSUME NEW t \in Threads, limits_ondemand(t) PROVE LockInv'
  <2>1. \/ \E f, r : call(t, f, r, "none", "unlock", "unlock")
        \/ goto(t, "unlock") /\ want' = want
    BY <1>3 DEF limits_ondemand
  <2>2. CASE \E f, r : call(t, f, r, "none", "unlock", "unlock")
    BY <1>0, <1>3, <2>2, ThreadCalls DEF limits_ondemand
  <2>3. CASE goto(t, "unlock") /\ want' = want
    BY <1>0, <1>01, <1>3, <2>3, ThreadGoes DEF limits_ondemand, PCs
  <2> QED
    BY <2>1, <2>2, <2>3
<1>4. ASSUME NEW t \in Threads, unlock(t) PROVE LockInv'
  <2>1. rwsem' \in {rwsem, NONE} /\ rwsem' # t /\ timer_mutex' \in {timer_mutex, NONE}
        /\ timer_mutex' # t
    BY <1>0, <1>4 DEF unlock
  <2> QED
    BY <1>0, <1>02, <1>4, <2>1, ThreadGoes DEF unlock, PCs
<1>5. ASSUME NEW c \in Callers, unlock_dvfs(c) \/ \E l \in LockLevels : lock_dvfs(c, l)
      PROVE  LockInv'
  <2>1. pc[c] \in {"idle", "held"} /\ goto(c, "update") /\ UNCHANGED <<rwsem, timer_mutex, want, tgt>>
    BY <1>5 DEF unlock_dvfs, lock_dvfs, locks
  <2>2. rwsem # c /\ timer_mutex # c
    BY <1>0, <2>1 DEF LockInv, UnderRwsem, UnderTimer
  <2> QED
    BY <1>0, <2>1, <2>2, ThreadGoes DEF PCs
<1>6. CASE do_dbs_timer
  <2>1. \E f, r : call("gov", f, r, "none", "unlock", "unlock")
    BY <1>6 DEF do_dbs_timer
  <2> QED
    BY <1>0, <1>6, <2>1, ThreadCalls DEF do_dbs_timer
<1>7. CASE handle_update
  <2>1. rwsem # "work" /\ timer_mutex # "work"
    BY <1>0, <1>7 DEF LockInv, UnderRwsem, UnderTimer, handle_update
  <2> QED
    BY <1>0, <1>7, <2>1, ThreadGoes DEF handle_update, PCs, locks
<1>8. ASSUME NEW o, NEW f, store_one(o, f) PROVE LockInv'
  <2>1. pc["user"] = "idle" /\ UNCHANGED <<timer_mutex, want>>
    BY <1>8 DEF store_one, userMayWrite
  <2>2. timer_mutex # "user"
    BY <1>0, <2>1 DEF LockInv, UnderTimer
  <2>3. CASE rwsem' = "user" /\ goto("user", "limits")
    BY <1>0, <2>1, <2>2, <2>3, ThreadGoes DEF PCs
  <2>4. CASE UNCHANGED <<rwsem, pc>>
    BY <1>0, <2>1, <2>4, ThreadsStay
  <2> QED
    BY <1>8, <2>3, <2>4 DEF store_one
<1>9. ASSUME NEW e, store_states_enabled_table(e) PROVE LockInv'
  BY <1>0, <1>9, ThreadsStay DEF store_states_enabled_table, locks
<1>10. CASE store_scaling_governor
  <2>1. timer_mutex # "user"
    BY <1>0, <1>10 DEF LockInv, UnderTimer, store_scaling_governor, userMayWrite
  <2> QED
    BY <1>0, <1>10, <2>1, ThreadGoes DEF store_scaling_governor, userMayWrite, PCs
<1>11. ASSUME NEW g \in Governors, NEW label \in {"limits", "unlock"}, start(g, label),
              pc["user"] = "gov_start", UNCHANGED <<rwsem, timer_mutex>>
       PROVE  LockInv'
  <2>0. g \in {"performance", "powersave", "ondemand"}
    BY CpuFreqAssumption
  <2>1. timer_mutex # "user"
    BY <1>0, <1>11 DEF LockInv, UnderTimer
  <2>2. \/ \E f, r : call("user", f, r, "none", label, label)
        \/ goto("user", label) /\ want' = want
    BY <2>0, <1>11 DEF start
  <2>3. CASE \E f, r : call("user", f, r, "none", label, label)
    BY <1>0, <1>11, <2>1, <2>3, ThreadCalls
  <2>4. CASE goto("user", label) /\ want' = want
    BY <1>0, <1>11, <2>1, <2>4, ThreadGoes DEF PCs
  <2> QED
    BY <2>2, <2>3, <2>4
<1>110. CASE governor_start_fails \/ \E g \in Governors : governor_start(g)
  <2>1. CASE governor_start_fails
    BY <1>11, <2>1 DEF governor_start_fails, locks
  <2>2. CASE \E g \in Governors : governor_start(g)
    BY <1>11, <2>2 DEF governor_start, locks
  <2> QED
    BY <1>110, <2>1, <2>2
<1>111. CASE governor_stop
  <2>1. /\ UNCHANGED <<rwsem, timer_mutex, want>> /\ pc["user"] \in Stopping
        /\ \E q \in {"gov_remove", "gov_remove_global", "gov_start"} : goto("user", q)
    BY <1>111 DEF governor_stop, locks
  <2>2. timer_mutex # "user"
    BY <1>0, <2>1 DEF LockInv, UnderTimer
  <2> QED
    BY <1>0, <2>1, <2>2, ThreadGoes DEF PCs
<1>112. CASE attr_leave \/ \E file \in Files : attr_enter(file)
  <2>1. /\ UNCHANGED <<rwsem, timer_mutex, want>> /\ pc["attr"] \in Files \cup {"idle"}
        /\ \E q \in Files \cup {"idle"} : goto("attr", q)
    BY <1>112 DEF attr_leave, attr_enter, locks, inFile
  <2>2. timer_mutex # "attr" /\ rwsem # "attr"
    BY <1>0, <2>1 DEF LockInv, UnderTimer, UnderRwsem
  <2> QED
    BY <1>0, <2>1, <2>2, ThreadGoes DEF PCs
<1>12. CASE pm_suspend_prepare \/ pm_post_suspend
  <2>1. timer_mutex # "pm"
    BY <1>0, <1>12 DEF LockInv, UnderTimer, pm_suspend_prepare, pm_post_suspend
  <2>2. \E f, r, m : \E ok, err \in Labels : call("pm", f, r, m, ok, err)
    BY <1>12 DEF pm_suspend_prepare, pm_post_suspend
  <2> QED
    BY <1>0, <1>12, <2>1, <2>2, ThreadCalls DEF pm_suspend_prepare, pm_post_suspend
<1>13. CASE pm_suspend_prepared \/ pm_post_update
  <2>1. timer_mutex # "pm"
    BY <1>0, <1>13 DEF LockInv, UnderTimer, pm_suspend_prepared, pm_post_update
  <2> QED
    BY <1>0, <1>13, <2>1, ThreadGoes DEF pm_suspend_prepared, pm_post_update, PCs
<1>14. CASE suspend_freeze_processes \/ suspend_devices_and_enter
  <2>1. timer_mutex # "pm" /\ rwsem # "pm"
    BY <1>0, <1>14 DEF LockInv, UnderTimer, UnderRwsem, suspend_freeze_processes,
       suspend_devices_and_enter
  <2> QED
    BY <1>0, <1>14, <2>1, ThreadGoes DEF suspend_freeze_processes, suspend_devices_and_enter,
       PCs, locks
<1> QED
  BY OtherActions, <1>1, <1>2, <1>3, <1>4, <1>5, <1>6, <1>7, <1>8, <1>9, <1>10, <1>110, <1>111,
     <1>112, <1>12, <1>13, <1>14

-----------------------------------------------------------------------------
(* The operators on the table of frequencies.                              *)
LEMMA MinIsLeast ==
  ASSUME NEW S \in SUBSET Nat, S # {}
  PROVE  Min(S) \in S /\ \A k \in S : Min(S) <= k
<1>1. PICK m \in S : \A k \in S : ~ (<<k, m>> \in OpToRel(<, Nat))
  BY NatLessThanWellFounded, WFMin
<1>2. \A k \in S : m <= k
  <2> SUFFICES ASSUME NEW k \in S, k < m PROVE FALSE
    OBVIOUS
  <2>1. OpToRel(<, Nat) = {ss \in Nat \X Nat : ss[1] < ss[2]}
    BY DEF OpToRel
  <2>2. <<k, m>> \in Nat \X Nat /\ <<k, m>>[1] < <<k, m>>[2]
    OBVIOUS
  <2>3. <<k, m>> \in OpToRel(<, Nat)
    BY <2>1, <2>2
  <2> QED
    BY <1>1, <2>3
<1> QED
  BY <1>1, <1>2 DEF Min

(* The maximum of some levels: the least distance to the last level.       *)
LEMMA MaxIsGreatest ==
  ASSUME NEW S \in SUBSET Levels, S # {}
  PROVE  Max(S) \in S /\ \A k \in S : k <= Max(S)
<1> DEFINE D == {NUM_FREQ - k : k \in S}
<1>0. NUM_FREQ \in Nat /\ Levels = 0 .. NUM_FREQ - 1
  BY CpuFreqAssumption DEF Levels
<1>1. D \in SUBSET Nat /\ D # {}
  <2>1. \A k \in S : NUM_FREQ - k \in Nat
    BY <1>0
  <2> QED
    BY <2>1
<1>2. Min(D) \in D /\ \A d \in D : Min(D) <= d
  <2> HIDE DEF D
  <2> QED
    BY <1>1, MinIsLeast
<1>3. PICK m \in S : Min(D) = NUM_FREQ - m
  BY <1>2
<1>4. \A k \in S : NUM_FREQ - m <= NUM_FREQ - k
  BY <1>2, <1>3
<1>5. \A k \in S : m >= k
  BY <1>0, <1>4
<1> QED
  BY <1>0, <1>5 DEF Max

lowest == Min(Speeds)
highest == Max(Speeds)

(* The slowest and the fastest frequency of the table.                     *)
LEMMA SpeedBounds ==
  /\ Speeds \subseteq Nat
  /\ lowest \in Speeds /\ \A f \in Speeds : lowest <= f
  /\ highest \in Speeds /\ \A f \in Speeds : f <= highest
<1>0. /\ NUM_FREQ \in Nat \ {0} /\ Levels = 0 .. NUM_FREQ - 1 /\ freq_table \in [Levels -> Nat]
      /\ \A k, l \in Levels : k < l => freq_table[k] > freq_table[l]
  BY CpuFreqAssumption DEF Levels
<1>1. Speeds \subseteq Nat /\ freq_table[0] \in Speeds
  BY <1>0 DEF Speeds
<1>2. lowest \in Speeds /\ \A f \in Speeds : lowest <= f
  BY <1>1, MinIsLeast DEF lowest
<1>3. \A f \in Speeds : freq_table[0] >= f
  <2> SUFFICES ASSUME NEW l \in Levels PROVE freq_table[0] >= freq_table[l]
    BY DEF Speeds
  <2> QED
    BY <1>0
<1>4. highest \in Speeds /\ \A f \in Speeds : highest >= f
  BY <1>1, <1>3 DEF highest, Max
<1> QED
  BY <1>1, <1>2, <1>4

Ranges == [min : Nat, max : Nat]

(* A verified range is not empty and lies within the table's.              *)
LEMMA LimitsVerified ==
  ASSUME NEW p \in Ranges
  PROVE  LET q == cpufreq_verify_within_limits(p) IN
           q \in Ranges /\ lowest <= q.min /\ q.min <= q.max /\ q.max <= highest
<1> DEFINE q == cpufreq_verify_within_limits(p)
           hi == within(p.max, lowest, highest)
           lo == within(p.min, lowest, highest)
<1>1. lowest \in Nat /\ highest \in Nat /\ lowest <= highest /\ p.min \in Nat /\ p.max \in Nat
  BY SpeedBounds DEF Ranges
<1>2. /\ hi \in Nat /\ lowest <= hi /\ hi <= highest
      /\ lo \in Nat /\ lowest <= lo /\ lo <= highest
  BY <1>1 DEF within
<1> HIDE DEF hi, lo
<1>3. q = [min |-> IF lo > hi THEN hi ELSE lo, max |-> hi]
  BY DEF cpufreq_verify_within_limits, hi, lo, lowest, highest
<1> HIDE DEF q
<1>4. q \in Ranges /\ lowest <= q.min /\ q.min <= q.max /\ q.max <= highest
  BY <1>2, <1>3 DEF Ranges
<1> QED
  BY <1>4 DEF q

(* A verified range is a range of the table, whatever it was.              *)
LEMMA TableVerified ==
  ASSUME NEW p \in Ranges
  PROVE  LET q == cpufreq_frequency_table_verify(p) IN
           q \in Ranges /\ lowest <= q.min /\ q.min <= q.max /\ q.max <= highest
<1> DEFINE q == cpufreq_verify_within_limits(p)
           larger == {f \in Speeds : f > q.max}
           r == [q EXCEPT !.max = Min(larger)]
<1>1. q \in Ranges /\ lowest <= q.min /\ q.min <= q.max /\ q.max <= highest
  BY LimitsVerified
<1>2. cpufreq_frequency_table_verify(p)
        = IF \E f \in Speeds : q.min <= f /\ f <= q.max THEN q
          ELSE cpufreq_verify_within_limits(r)
  BY DEF cpufreq_frequency_table_verify
<1> HIDE DEF q
<1>3. CASE \E f \in Speeds : q.min <= f /\ f <= q.max
  BY <1>1, <1>2, <1>3
<1>4. CASE ~ \E f \in Speeds : q.min <= f /\ f <= q.max
  <2>1. highest \in Nat /\ highest \in Speeds /\ q.min \in Nat /\ q.max \in Nat
    BY <1>1, SpeedBounds DEF Ranges
  <2>2. highest > q.max
    BY <1>1, <1>4, <2>1
  <2>3. highest \in larger /\ larger \subseteq Nat
    BY <2>1, <2>2, SpeedBounds
  <2>4. Min(larger) \in Nat
    <3> HIDE DEF larger
    <3> QED
      BY <2>3, MinIsLeast
  <2>5. r \in Ranges
    <3> HIDE DEF larger
    <3> QED
      BY <1>1, <2>4 DEF Ranges
  <2> HIDE DEF r
  <2> QED
    BY <1>2, <1>4, <2>5, LimitsVerified
<1> QED
  BY <1>3, <1>4

(* cpufreq_frequency_table_target finds an enabled level of the policy if  *)
(* there is one.                                                           *)
Fits(l, p) == l \in enabled_freqs /\ p.min <= freq_table[l] /\ freq_table[l] <= p.max

(* The level found is an enabled one in the range, if there is one.        *)
LEMMA TableTarget ==
  ASSUME enabled_freqs \in SUBSET Levels, NEW p \in Ranges, NEW f \in Nat, NEW r
  PROVE  LET found == cpufreq_frequency_table_target(p, f, r) IN
           /\ found # NUM_FREQ => found \in Levels /\ Fits(found, p)
           /\ (\E l \in enabled_freqs : Fits(l, p)) => found # NUM_FREQ
<1> DEFINE cand == {l \in enabled_freqs : p.min <= freq_table[l] /\ freq_table[l] <= p.max}
           above == {l \in cand : freq_table[l] >= f}
           below == {l \in cand : freq_table[l] <= f}
           found == cpufreq_frequency_table_target(p, f, r)
<1>0. NUM_FREQ \in Nat /\ Levels = 0 .. NUM_FREQ - 1 /\ freq_table \in [Levels -> Nat]
  BY CpuFreqAssumption DEF Levels
<1>1. /\ cand \subseteq Levels /\ above \subseteq cand /\ below \subseteq cand
      /\ cand # {} => above # {} \/ below # {}
  <2>1. \A l \in cand : freq_table[l] >= f \/ freq_table[l] <= f
    BY <1>0
  <2> QED
    BY <2>1
<1>2. \A l \in cand : Fits(l, p)
  BY DEF Fits
<1>3. (\E l \in enabled_freqs : Fits(l, p)) => cand # {}
  BY DEF Fits
<1>4. found = IF cand = {} THEN NUM_FREQ
              ELSE IF r = "L" THEN IF above # {} THEN Max(above) ELSE Min(below)
              ELSE IF below # {} THEN Min(below) ELSE Max(above)
  BY DEF cpufreq_frequency_table_target
<1> HIDE DEF cand, above, below, found
<1>5. (above # {} => Max(above) \in above) /\ (below # {} => Min(below) \in below)
  BY <1>0, <1>1, MaxIsGreatest, MinIsLeast
<1>6. /\ cand = {} => found = NUM_FREQ
      /\ cand # {} => found \in cand
  BY <1>1, <1>4, <1>5
<1>7. /\ found # NUM_FREQ => found \in Levels /\ Fits(found, p)
      /\ (\E l \in enabled_freqs : Fits(l, p)) => found # NUM_FREQ
  <2>1. \A l \in cand : l \in Levels /\ l # NUM_FREQ
    BY <1>0, <1>1
  <2> QED
    BY <1>2, <1>3, <1>6, <2>1
<1> QED
  BY <1>7 DEF found

(* A DVFS lock can only make the level faster, and every one is obeyed.    *)
LEMMA LimitObeyed ==
  ASSUME lockval \in [Callers -> 0 .. MAX_PERF_LEVEL], NEW k \in Levels
  PROVE  /\ dvfs_limit(k) \in Levels /\ dvfs_limit(k) <= k
         /\ \A c \in Callers : lockval[c] < MAX_PERF_LEVEL => dvfs_limit(k) <= lockval[c]
         /\ dvfs_limit(k) = k \/ \E c \in Callers : lockval[c] < MAX_PERF_LEVEL
                                                    /\ dvfs_limit(k) = lockval[c]
<1> DEFINE S == {k} \cup {lockval[c] : c \in {d \in Callers : lockval[d] < MAX_PERF_LEVEL}}
<1>0. NUM_FREQ \in Nat \ {0} /\ Levels = 0 .. NUM_FREQ - 1 /\ MAX_PERF_LEVEL = NUM_FREQ - 1
  BY CpuFreqAssumption DEF Levels, MAX_PERF_LEVEL
<1>1. /\ S \subseteq Levels /\ k \in S
      /\ \A c \in Callers : lockval[c] < MAX_PERF_LEVEL => lockval[c] \in S
      /\ \A x \in S : x = k \/ \E c \in Callers : lockval[c] < MAX_PERF_LEVEL /\ x = lockval[c]
  BY <1>0
<1>2. dvfs_limit(k) = Min(S)
  BY DEF dvfs_limit
<1> HIDE DEF S
<1>3. Min(S) \in S /\ \A x \in S : Min(S) <= x
  BY <1>0, <1>1, MinIsLeast
<1> QED
  BY <1>1, <1>2, <1>3

-----------------------------------------------------------------------------
(* The settings.                                                           *)
SetTypes ==
  /\ policy \in Ranges /\ lowest <= policy.min /\ policy.min <= policy.max
  /\ policy.max <= highest
  /\ user_policy \in Ranges
  /\ range_lost \in BOOLEAN
  /\ governor \in Governors /\ enabled_freqs \in EnabledSets
  /\ lockval \in [Callers -> 0 .. MAX_PERF_LEVEL]
  /\ update_queued \in BOOLEAN
  /\ \A t \in Threads : want[t].freq \in Nat

(* The voltages that a transition has reached.                             *)
VoltInv ==
  /\ VoltageCoversClock
  /\ tgt.step \in {"arm_up", "int_up"} => tgt.up /\ tgt.index <= clk
  /\ tgt.step = "int_up" => vdd_arm >= arm_volt[tgt.index]
  /\ tgt.step = "clock" =>
       \/ tgt.up /\ vdd_arm >= arm_volt[tgt.index] /\ vdd_int >= int_volt[tgt.index]
       \/ clk < tgt.index
  /\ tgt.step \in {"int_down", "arm_down", "out"} => clk = tgt.index

(* A thread's call changes one thread's arguments.                         *)
LEMMA WantCalled ==
  ASSUME DOMAIN want = Threads, \A t \in Threads : want[t].freq \in Nat,
         NEW u \in Threads, NEW f \in Nat, NEW r, NEW m, NEW ok, NEW err,
         call(u, f, r, m, ok, err)
  PROVE  \A t \in Threads : want'[t].freq \in Nat
<1>1. /\ \A t \in Threads \ {u} : want'[t] = want[t]
      /\ want'[u] = [freq |-> f, relation |-> r, mark |-> m, ok |-> ok, err |-> err]
  BY DEF call
<1> QED
  BY <1>1

(* So does its return.                                                     *)
LEMMA WantReturned ==
  ASSUME DOMAIN want = Threads, \A t \in Threads : want[t].freq \in Nat,
         NEW u \in Threads, NEW label, return(u, label)
  PROVE  \A t \in Threads : want'[t].freq \in Nat
<1>1. (\A t \in Threads \ {u} : want'[t] = want[t]) /\ want'[u] = noWant
  BY DEF return
<1> QED
  BY <1>1 DEF noWant

(* What the driver does when it gets set_freq_lock.                        *)
LEMMA DriverChoice ==
  ASSUME LockInv, TgtTypes, SetTypes, NEW t \in Threads, s5pv210_cpufreq_target(t)
  PROVE  LET found == cpufreq_frequency_table_target(policy, want[t].freq, want[t].relation)
             index == dvfs_limit(found)
         IN
         /\ pc[t] = "target" /\ tgt.by = NONE /\ tgt.step = "idle"
         /\ UNCHANGED <<hw, settings, locks, update_queued>>
         /\ no_cpufreq_access' = (~ access_granted(want[t].mark) \/ want[t].mark = "disable")
         /\ raised' = IF want[t].mark = "none" THEN raised
                      ELSE want[t].mark = "disable" /\ index < found
         /\ \/ /\ ~ access_granted(want[t].mark) \/ found = NUM_FREQ
               /\ return(t, want[t].err) /\ tgt' = tgt
            \/ /\ access_granted(want[t].mark) /\ found \in Levels /\ Fits(found, policy)
               /\ index \in Levels /\ index = clk
               /\ return(t, want[t].ok) /\ tgt' = tgt
            \/ /\ access_granted(want[t].mark) /\ found \in Levels /\ Fits(found, policy)
               /\ index \in Levels
               /\ goto(t, "in_target") /\ want' = want
               /\ tgt' = [by |-> t, index |-> index, up |-> index <= clk,
                          step |-> IF index <= clk THEN "arm_up" ELSE "clock"]
<1> DEFINE found == cpufreq_frequency_table_target(policy, want[t].freq, want[t].relation)
           index == dvfs_limit(found)
<1>1. policy \in Ranges /\ want[t].freq \in Nat /\ enabled_freqs \in SUBSET Levels
  BY CpuFreqAssumption DEF SetTypes
<1>2. found # NUM_FREQ => found \in Levels /\ Fits(found, policy)
  BY <1>1, TableTarget
<1>3. found \in Levels => index \in Levels
  BY LimitObeyed DEF SetTypes
<1>4. pc[t] = "target" /\ tgt.by = NONE /\ tgt.step = "idle"
  BY ThreadsAssumption DEF s5pv210_cpufreq_target, LockInv, ThreadTypes
<1> HIDE DEF found, index
<1>5. /\ no_cpufreq_access' = (~ access_granted(want[t].mark) \/ want[t].mark = "disable")
      /\ raised' = IF want[t].mark = "none" THEN raised
                   ELSE want[t].mark = "disable" /\ index < found
      /\ IF ~ access_granted(want[t].mark) \/ found = NUM_FREQ
           THEN return(t, want[t].err) /\ UNCHANGED tgt
         ELSE IF index = clk /\ ~ first_run THEN return(t, want[t].ok) /\ UNCHANGED tgt
         ELSE /\ tgt' = [by |-> t, index |-> index, up |-> index <= clk,
                         step |-> IF index <= clk THEN "arm_up" ELSE "clock"]
              /\ goto(t, "in_target") /\ UNCHANGED want
      /\ UNCHANGED <<hw, settings, locks, update_queued>>
  BY DEF s5pv210_cpufreq_target, found, index
<1> HIDE DEF access_granted
<1>6. CASE ~ access_granted(want[t].mark) \/ found = NUM_FREQ
  BY <1>4, <1>5, <1>6 DEF found, index
<1>7. CASE access_granted(want[t].mark) /\ found # NUM_FREQ
  BY <1>2, <1>3, <1>4, <1>5, <1>7 DEF found, index
<1> QED
  BY <1>6, <1>7

(* The hardware's invariant, step by step.                                 *)
LEMMA DriverCovers ==
  ASSUME LockInv, TgtTypes, SetTypes, VoltInv, NEW t \in Threads, s5pv210_cpufreq_target(t)
  PROVE  TgtTypes' /\ SetTypes' /\ VoltInv'
<1> DEFINE k == dvfs_limit(cpufreq_frequency_table_target(policy, want[t].freq,
                                                          want[t].relation))
<1>1. /\ tgt.step = "idle" /\ UNCHANGED <<hw, settings, locks, update_queued>>
      /\ no_cpufreq_access' = (~ access_granted(want[t].mark) \/ want[t].mark = "disable")
      /\ \/ (\E l : return(t, l)) /\ tgt' = tgt
         \/ /\ want' = want /\ k \in Levels
            /\ tgt' = [by |-> t, index |-> k, up |-> k <= clk,
                       step |-> IF k <= clk THEN "arm_up" ELSE "clock"]
  BY DriverChoice
<1> HIDE DEF k
<1>2. no_cpufreq_access' \in BOOLEAN /\ raised' \in BOOLEAN
  BY DEF s5pv210_cpufreq_target, TgtTypes
<1>3. \A u \in Threads : want'[u].freq \in Nat
  BY <1>1, WantReturned DEF SetTypes, LockInv, ThreadTypes
<1>4. SetTypes'
  BY <1>1, <1>3 DEF SetTypes, settings
<1>5. NUM_FREQ \in Nat /\ Levels = 0 .. NUM_FREQ - 1
  BY CpuFreqAssumption DEF Levels
<1>6. TgtTypes'
  <2>1. UNCHANGED <<faulty, first_run, clk, vdd_arm, vdd_int>>
    BY <1>1 DEF hw
  <2>2. (k <= clk) \in BOOLEAN
    OBVIOUS
  <2>3. tgt' \in [by : Threads \cup {NONE}, index : Levels, up : BOOLEAN,
                  step : {"idle", "arm_up", "int_up", "clock", "int_down", "arm_down", "out"}]
    <3> DEFINE steps == {"idle", "arm_up", "int_up", "clock", "int_down", "arm_down", "out"}
               v == IF k <= clk THEN "arm_up" ELSE "clock"
               u == k <= clk
    <3>1. v \in steps /\ u \in BOOLEAN
      BY <2>2
    <3>2. tgt' = tgt \/ (k \in Levels /\ tgt' = [by |-> t, index |-> k, up |-> u, step |-> v])
      BY <1>1
    <3> HIDE DEF v, u, steps
    <3>3. k \in Levels => [by |-> t, index |-> k, up |-> u, step |-> v]
                            \in [by : Threads \cup {NONE}, index : Levels, up : BOOLEAN, step : steps]
      BY <3>1
    <3> QED
      BY <3>2, <3>3 DEF TgtTypes, steps
  <2> QED
    BY <1>2, <2>1, <2>3 DEF TgtTypes
<1>7. VoltInv'
  <2>1. CASE tgt' = tgt
    BY <1>1, <2>1 DEF VoltInv, VoltageCoversClock, hw
  <2>2. CASE /\ k \in Levels
             /\ tgt' = [by |-> t, index |-> k, up |-> k <= clk,
                        step |-> IF k <= clk THEN "arm_up" ELSE "clock"]
    <3>1. clk \in Levels /\ UNCHANGED <<clk, vdd_arm, vdd_int>>
      BY <1>1 DEF hw, TgtTypes
    <3>2. VoltageCoversClock'
      BY <3>1 DEF VoltInv, VoltageCoversClock
    <3>3. CASE k <= clk
      BY <2>2, <3>1, <3>2, <3>3 DEF VoltInv
    <3>4. CASE clk < k
      BY <1>5, <2>2, <3>1, <3>2, <3>4 DEF VoltInv
    <3> QED
      BY <1>5, <2>2, <3>1, <3>3, <3>4
  <2> QED
    BY <1>1, <2>1, <2>2
<1> QED
  BY <1>4, <1>6, <1>7

(* The steps of a transition.                                              *)
LEMMA TargetCovers ==
  ASSUME LockInv, TgtTypes, SetTypes, VoltInv, targetStep
  PROVE  TgtTypes' /\ SetTypes' /\ VoltInv'
<1>0. /\ NUM_FREQ \in Nat /\ Levels = 0 .. NUM_FREQ - 1
      /\ arm_volt \in [Levels -> Nat] /\ int_volt \in [Levels -> Nat]
      /\ \A k, l \in Levels : k <= l => arm_volt[k] >= arm_volt[l] /\ int_volt[k] >= int_volt[l]
      /\ 0 \in Levels
  BY CpuFreqAssumption DEF Levels
<1>1. tgt.by \in Threads /\ DOMAIN want = Threads
  BY DEF LockInv, ThreadTypes, targetStep, target_fails, target_arm_up, target_int_up,
     target_clock, target_int_down, target_arm_down, target_out
<1>2. SetTypes'
  <2>1. /\ want' = want \/ \E l : return(tgt.by, l)
        /\ UNCHANGED <<settings, update_queued>>
    BY DEF targetStep, target_fails, target_arm_up, target_int_up,
       target_clock, target_int_down, target_arm_down, target_out
  <2>2. \A u \in Threads : want'[u].freq \in Nat
    BY <1>1, <2>1, WantReturned DEF SetTypes
  <2> QED
    BY <2>1, <2>2 DEF SetTypes, settings
<1>3. CASE target_fails
  <2>1. tgt' = idleTgt /\ UNCHANGED <<hw, no_cpufreq_access, raised>>
    BY <1>3 DEF target_fails, gate
  <2> QED
    BY <1>0, <1>2, <2>1 DEF TgtTypes, VoltInv, VoltageCoversClock, hw, idleTgt
<1>4. CASE target_arm_up
  <2>1. TgtTypes'
    BY <1>4 DEF target_arm_up, TgtTypes, gate
  <2>2. arm_volt[tgt.index] >= arm_volt[clk] /\ arm_volt[tgt.index] \in Nat
    BY <1>0, <1>4 DEF target_arm_up, VoltInv, TgtTypes
  <2>3. VoltInv'
    BY <1>4, <2>2 DEF target_arm_up, VoltInv, VoltageCoversClock, TgtTypes
  <2> QED
    BY <1>2, <2>1, <2>3
<1>5. CASE target_int_up
  <2>1. TgtTypes'
    BY <1>5 DEF target_int_up, TgtTypes, gate
  <2>2. int_volt[tgt.index] >= int_volt[clk] /\ int_volt[tgt.index] \in Nat
    BY <1>0, <1>5 DEF target_int_up, VoltInv, TgtTypes
  <2>3. VoltInv'
    BY <1>5, <2>2 DEF target_int_up, VoltInv, VoltageCoversClock, TgtTypes
  <2> QED
    BY <1>2, <2>1, <2>3
<1>6. CASE target_clock
  <2>1. /\ clk' = tgt.index /\ UNCHANGED <<faulty, vdd_arm, vdd_int, first_run, no_cpufreq_access, raised>>
        /\ tgt' = [tgt EXCEPT !.step = IF tgt.up THEN "out" ELSE "int_down"]
        /\ tgt.step = "clock"
    BY <1>6 DEF target_clock, gate
  <2>2. TgtTypes'
    BY <2>1 DEF TgtTypes
  <2>3. vdd_arm >= arm_volt[tgt.index] /\ vdd_int >= int_volt[tgt.index]
    <3>1. tgt.index \in Levels /\ clk \in Levels /\ vdd_arm \in Nat /\ vdd_int \in Nat
      BY <1>0 DEF TgtTypes
    <3>2. CASE clk < tgt.index
      <4>1. /\ arm_volt[clk] >= arm_volt[tgt.index] /\ int_volt[clk] >= int_volt[tgt.index]
            /\ arm_volt[clk] \in Nat /\ arm_volt[tgt.index] \in Nat
            /\ int_volt[clk] \in Nat /\ int_volt[tgt.index] \in Nat
        BY <1>0, <3>1, <3>2
      <4>2. vdd_arm >= arm_volt[clk] /\ vdd_int >= int_volt[clk]
        BY DEF VoltInv, VoltageCoversClock
      <4> QED
        BY <3>1, <4>1, <4>2
    <3> QED
      BY <2>1, <3>2 DEF VoltInv
  <2>4. VoltInv'
    BY <2>1, <2>3 DEF VoltInv, VoltageCoversClock, TgtTypes
  <2> QED
    BY <1>2, <2>2, <2>4
<1>7. CASE target_int_down
  <2>1. /\ UNCHANGED <<faulty, clk, vdd_arm, first_run, no_cpufreq_access, raised>>
        /\ tgt.step = "int_down" /\ tgt' = [tgt EXCEPT !.step = "arm_down"]
        /\ vdd_int' \in {vdd_int, int_volt[tgt.index]}
    BY <1>7 DEF target_int_down, afterSetVoltage, gate
  <2>2. TgtTypes'
    BY <2>1 DEF TgtTypes
  <2>3. VoltInv'
    BY <1>0, <2>1 DEF VoltInv, VoltageCoversClock, TgtTypes
  <2> QED
    BY <1>2, <2>2, <2>3
<1>8. CASE target_arm_down
  <2>1. /\ UNCHANGED <<faulty, clk, vdd_int, first_run, no_cpufreq_access, raised>>
        /\ tgt.step = "arm_down" /\ tgt' = [tgt EXCEPT !.step = "out"]
        /\ vdd_arm' \in {vdd_arm, arm_volt[tgt.index]}
    BY <1>8 DEF target_arm_down, afterSetVoltage, gate
  <2>2. TgtTypes'
    BY <2>1 DEF TgtTypes
  <2>3. VoltInv'
    BY <1>0, <2>1 DEF VoltInv, VoltageCoversClock, TgtTypes
  <2> QED
    BY <1>2, <2>2, <2>3
<1>9. CASE target_out
  <2>1. /\ tgt' = idleTgt /\ UNCHANGED <<faulty, clk, vdd_arm, vdd_int, no_cpufreq_access, raised>>
        /\ first_run' = FALSE
    BY <1>9 DEF target_out, gate
  <2> QED
    BY <1>0, <1>2, <2>1 DEF TgtTypes, VoltInv, VoltageCoversClock, idleTgt
<1> QED
  BY <1>3, <1>4, <1>5, <1>6, <1>7, <1>8, <1>9 DEF targetStep

(* The threads' other steps keep the settings' types.                      *)
LEMMA OtherSets ==
  ASSUME LockInv, SetTypes, OtherStep
  PROVE  SetTypes'
<1>0. /\ {"pm", "gov", "user", "attr", "work"} \subseteq Threads
      /\ Callers \subseteq Threads /\ DOMAIN want = Threads
  BY DEF Threads, Others, LockInv, ThreadTypes
<1>00. /\ policy \in Ranges /\ policy.min \in Nat /\ policy.max \in Nat
       /\ Speeds \subseteq Nat /\ SLEEP_FREQ \in Speeds
  BY SpeedBounds, CpuFreqAssumption DEF SetTypes, Ranges, Speeds
<1>01. /\ NUM_FREQ \in Nat \ {0} /\ MAX_PERF_LEVEL \in 0 .. MAX_PERF_LEVEL
       /\ LockLevels \subseteq 0 .. MAX_PERF_LEVEL
  BY CpuFreqAssumption DEF MAX_PERF_LEVEL
<1>1. ASSUME NEW t \in Threads, cpufreq_update_policy(t) PROVE SetTypes'
  <2>1. range_lost' \in BOOLEAN
    BY <1>1 DEF cpufreq_update_policy, SetTypes
  <2> QED
    BY <1>1, <2>1, TableVerified DEF cpufreq_update_policy, SetTypes
<1>2. ASSUME NEW t \in Threads, limits_performance(t) \/ limits_powersave(t) \/ limits_ondemand(t)
      PROVE  SetTypes'
  <2>1. UNCHANGED <<settings, update_queued>>
    BY <1>2 DEF limits_performance, limits_powersave, limits_ondemand
  <2>2. want' = want \/ \E f \in Nat : \E r : call(t, f, r, "none", "unlock", "unlock")
    BY <1>00, <1>2 DEF limits_performance, limits_powersave, limits_ondemand
  <2>3. \A u \in Threads : want'[u].freq \in Nat
    BY <1>0, <2>2, WantCalled DEF SetTypes
  <2> QED
    BY <2>1, <2>3 DEF SetTypes, settings
<1>3. ASSUME NEW t \in Threads, unlock(t) PROVE SetTypes'
  BY <1>3 DEF unlock, SetTypes, settings
<1>4. ASSUME NEW c \in Callers, unlock_dvfs(c) \/ \E l \in LockLevels : lock_dvfs(c, l)
      PROVE  SetTypes'
  BY <1>01, <1>4 DEF unlock_dvfs, lock_dvfs, SetTypes
<1>5. CASE do_dbs_timer
  <2>1. \E f \in Nat : \E r : call("gov", f, r, "none", "unlock", "unlock")
    BY <1>00, <1>5 DEF do_dbs_timer
  <2>2. \A u \in Threads : want'[u].freq \in Nat
    BY <1>0, <2>1, WantCalled DEF SetTypes
  <2> QED
    BY <1>5, <2>2 DEF do_dbs_timer, SetTypes, settings
<1>6. CASE handle_update
  BY <1>6 DEF handle_update, SetTypes, settings
<1>7. ASSUME NEW f \in UserMins, store_one("min", f) PROVE SetTypes'
  <2> DEFINE new == [policy EXCEPT !["min"] = f]
  <2>1. new \in Ranges
    BY <1>00, WritesAssumption DEF Ranges
  <2> HIDE DEF new
  <2>2. policy' = cpufreq_frequency_table_verify(new) \/ policy' = policy
    BY <1>7 DEF store_one, new
  <2>3. /\ policy' \in Ranges /\ lowest <= policy'.min /\ policy'.min <= policy'.max
        /\ policy'.max <= highest
    BY <2>1, <2>2, TableVerified DEF SetTypes
  <2>4. user_policy' = [user_policy EXCEPT !["min"] = policy'["min"]]
    BY <1>7 DEF store_one
  <2>5. user_policy' \in Ranges
    BY <2>3, <2>4 DEF Ranges, SetTypes
  <2> QED
    BY <1>7, <2>3, <2>5 DEF store_one, SetTypes
<1>8. ASSUME NEW f \in UserMaxs, store_one("max", f) PROVE SetTypes'
  <2> DEFINE new == [policy EXCEPT !["max"] = f]
  <2>1. new \in Ranges
    BY <1>00, WritesAssumption DEF Ranges
  <2> HIDE DEF new
  <2>2. policy' = cpufreq_frequency_table_verify(new) \/ policy' = policy
    BY <1>8 DEF store_one, new
  <2>3. /\ policy' \in Ranges /\ lowest <= policy'.min /\ policy'.min <= policy'.max
        /\ policy'.max <= highest
    BY <2>1, <2>2, TableVerified DEF SetTypes
  <2>4. user_policy' = [user_policy EXCEPT !["max"] = policy'["max"]]
    BY <1>8 DEF store_one
  <2>5. user_policy' \in Ranges
    BY <2>3, <2>4 DEF Ranges, SetTypes
  <2> QED
    BY <1>8, <2>3, <2>5 DEF store_one, SetTypes
<1>9. ASSUME NEW e \in EnabledSets, store_states_enabled_table(e) PROVE SetTypes'
  BY <1>9 DEF store_states_enabled_table, SetTypes
<1>10. CASE store_scaling_governor
  BY <1>10 DEF store_scaling_governor, SetTypes, settings
<1>11. ASSUME NEW g \in Governors, NEW label, start(g, label)
       PROVE  \A u \in Threads : want'[u].freq \in Nat
  <2>1. g \in {"performance", "powersave", "ondemand"}
    BY CpuFreqAssumption
  <2>2. want' = want \/ \E f \in Nat : \E r : call("user", f, r, "none", label, label)
    BY <1>00, <1>11, <2>1 DEF start
  <2> QED
    BY <1>0, <2>2, WantCalled DEF SetTypes
<1>110. ASSUME NEW g \in Governors, governor_start(g) PROVE SetTypes'
  BY <1>11, <1>110 DEF governor_start, SetTypes
<1>111. CASE governor_start_fails
  <2>1. governor \in Governors /\ start(governor, "unlock")
    BY <1>111 DEF governor_start_fails, SetTypes
  <2> QED
    BY <1>11, <1>111, <2>1 DEF governor_start_fails, SetTypes, settings
<1>112. CASE governor_stop \/ attr_leave \/ \E file \in Files : attr_enter(file)
  BY <1>112 DEF governor_stop, attr_leave, attr_enter, SetTypes, settings
<1>12. CASE pm_suspend_prepare \/ pm_post_suspend
  <2>1. SLEEP_FREQ \in Nat /\ lowest <= SLEEP_FREQ /\ SLEEP_FREQ <= highest
    BY <1>00, SpeedBounds
  <2>2. \E r, m, ok, err : call("pm", SLEEP_FREQ, r, m, ok, err)
    BY <1>12 DEF pm_suspend_prepare, pm_post_suspend
  <2>3. \A u \in Threads : want'[u].freq \in Nat
    BY <1>0, <2>1, <2>2, WantCalled DEF SetTypes
  <2>4. CASE pm_suspend_prepare
    BY <2>1, <2>3, <2>4 DEF pm_suspend_prepare, SetTypes, Ranges
  <2>5. CASE pm_post_suspend
    BY <2>3, <2>5 DEF pm_post_suspend, SetTypes, settings
  <2> QED
    BY <1>12, <2>4, <2>5
<1>13. CASE pm_suspend_prepared \/ pm_post_update \/ suspend_freeze_processes
            \/ suspend_devices_and_enter
  BY <1>13 DEF pm_suspend_prepared, pm_post_update, suspend_freeze_processes,
     suspend_devices_and_enter, SetTypes, settings
<1> QED
  BY OtherActions, <1>1, <1>2, <1>3, <1>4, <1>5, <1>6, <1>7, <1>8, <1>9, <1>10, <1>110, <1>111,
     <1>112, <1>12, <1>13

-----------------------------------------------------------------------------
(* The inductive invariant for the locks and the voltages.                 *)
CpuInv == LockInv /\ TgtTypes /\ SetTypes /\ VoltInv

(* It holds at first.                                                      *)
LEMMA InitCpu == Init => CpuInv
<1> SUFFICES ASSUME Init PROVE CpuInv
  OBVIOUS
<1> USE DEF Init
<1>0. NONE \notin Threads /\ NUM_FREQ \in Nat \ {0} /\ Levels = 0 .. NUM_FREQ - 1
  BY ThreadsAssumption, CpuFreqAssumption DEF Levels
<1>1. LockInv
  BY <1>0 DEF LockInv, ThreadTypes, Places, InTarget, Returns, UnderRwsem, UnderTimer, PCs, Calling,
     Stopping, Files, idleTgt
<1>2. TgtTypes
  <2>1. 0 \in Levels /\ faulty \in BOOLEAN
    BY <1>0, CpuFreqAssumption
  <2> QED
    BY <2>1 DEF TgtTypes, idleTgt
<1>3. SetTypes
  <2>1. policy \in Ranges /\ lowest <= policy.min /\ policy.min <= policy.max /\ policy.max <= highest
    <3>1. lowest \in Nat /\ highest \in Nat /\ lowest <= highest
      BY SpeedBounds
    <3>2. policy = [min |-> lowest, max |-> highest]
      BY DEF lowest, highest
    <3> QED
      BY <3>1, <3>2 DEF Ranges
  <2>2. MAX_PERF_LEVEL \in 0 .. MAX_PERF_LEVEL
    BY <1>0 DEF MAX_PERF_LEVEL
  <2> QED
    BY <2>1, <2>2 DEF SetTypes, noWant
<1>4. VoltInv
  <2>1. arm_volt[clk] \in Nat /\ int_volt[clk] \in Nat
    BY CpuFreqAssumption
  <2> QED
    BY <2>1 DEF VoltInv, VoltageCoversClock, idleTgt
<1> QED
  BY <1>1, <1>2, <1>3, <1>4 DEF CpuInv

(* Every step keeps it.                                                    *)
LEMMA NextCpu ==
  ASSUME CpuInv, [Next]_vars
  PROVE  CpuInv'
<1> USE DEF CpuInv
<1>1. CASE targetStep
  BY <1>1, TargetLocks, TargetCovers
<1>2. ASSUME NEW t \in Threads, s5pv210_cpufreq_target(t) PROVE CpuInv'
  BY <1>2, DriverLocks, DriverCovers
<1>3. CASE OtherStep
  <2>1. LockInv' /\ SetTypes'
    BY <1>3, OtherLocks, OtherSets DEF SetTypes
  <2>2. TgtTypes' /\ VoltInv'
    BY <1>3, OtherFrame DEF hw, TgtTypes, VoltInv, VoltageCoversClock
  <2> QED
    BY <2>1, <2>2
<1>4. CASE UNCHANGED vars
  BY <1>4 DEF vars, hw, gate, settings, locks, LockInv, ThreadTypes, Places, InTarget, Returns, UnderRwsem,
     UnderTimer, TgtTypes, SetTypes, VoltInv, VoltageCoversClock
<1> QED
  BY <1>1, <1>2, <1>3, <1>4, NextActions

(* So it always holds.                                                     *)
LEMMA CpuInvariant == Spec => []CpuInv
<1>1. Init => CpuInv
  BY InitCpu
<1>2. CpuInv /\ [Next]_vars => CpuInv'
  BY NextCpu
<1> QED
  BY <1>1, <1>2, PTL DEF Spec

(* The one deadlock is the one that the rule at cpufreq.c:74 is about: no  *)
(* threads wait for each other in a circle, however many owners of DVFS    *)
(* locks there are, but a writer of scaling_governor that removes          *)
(* ondemand's files under rwsem and a task in one of them, for rwsem,      *)
(* timer_mutex and set_freq_lock are taken in that order, ondemand's work  *)
(* never waits for rwsem, and dbs_mutex is not held over the other files.  *)
THEOREM NoDeadlock == Spec => []NoCircularWait
<1>1. CpuInv => NoCircularWait
  BY LocksOrdered DEF CpuInv
<1> QED
  BY <1>1, CpuInvariant, PTL

(* The voltages cover the clock between any two steps of any transition,   *)
(* whatever regulator fails, for every table that the driver could have.   *)
THEOREM VoltagesCover == Spec => [](TypeOK /\ VoltageCoversClock)
<1>1. CpuInv => TypeOK
  BY DEF CpuInv, TypeOK, LockInv, ThreadTypes, TgtTypes, SetTypes, PCs, Ranges, lowest, highest
<1>2. CpuInv => VoltageCoversClock
  BY DEF CpuInv, VoltInv
<1> QED
  BY <1>1, <1>2, CpuInvariant, PTL

-----------------------------------------------------------------------------
(* Where a thread is under rwsem.                                         *)
Under == Calling \cup Labels \cup Stopping

(* Who is under rwsem holds it, but ondemand's work, which takes only      *)
(* timer_mutex and runs only for ondemand, until that is stopped.          *)
HoldsRwsem ==
  \A t \in Threads : t # "gov" /\ pc[t] \in Under => rwsem = t
Stopped == pc["user"] \in Stopping \ {"gov_stop"}
GovInv == pc["gov"] # "idle" => governor = "ondemand" /\ ~ Stopped

(* What the threads ask of the driver.                                     *)
asks(t) == want[t].mark
MarkInv ==
  /\ \A t \in Threads : t # "pm" /\ pc[t] \in Calling => asks(t) = "none"
  /\ pc["pm"] \in Calling =>
       \/ /\ asks("pm") = "disable" /\ want["pm"].freq = SLEEP_FREQ
          /\ want["pm"].ok = "ready" /\ want["pm"].err = "bad"
       \/ asks("pm") = "enable" /\ want["pm"].ok = "enabled" /\ want["pm"].err = "enabled"
       \/ asks("pm") = "none" /\ want["pm"].ok = "unlock" /\ want["pm"].err = "unlock"

(* Access is refused only while the suspend thread has it disabled.        *)
AccessInv ==
  no_cpufreq_access =>
    \/ pc["pm"] \in {"ready", "bad", "prepared", "frozen", "post"}
    \/ pc["pm"] = "in_target" /\ asks("pm") = "disable"
    \/ pc["pm"] = "target" /\ asks("pm") = "enable"

(* From the call that disables access the clock is, or is to be, at        *)
(* SLEEP_FREQ, or faster if a DVFS lock raised it.                         *)
SleepSpeedIs(f) == IF raised THEN f > SLEEP_FREQ ELSE f = SLEEP_FREQ
AsleepInv ==
  /\ pc["pm"] \in {"ready", "prepared", "frozen"} =>
       no_cpufreq_access /\ tgt.by = NONE /\ SleepSpeedIs(cur)
  /\ pc["pm"] = "in_target" /\ asks("pm") = "disable" =>
       no_cpufreq_access /\ SleepSpeedIs(freq_table[tgt.index])
  /\ pc["pm"] = "target" /\ asks("pm") = "disable" =>
       policy.min = SLEEP_FREQ /\ policy.max = SLEEP_FREQ

(* Each end of the policy is the user's or the one forced for sleep, and   *)
(* when the suspend thread has evaluated the policy again, it is the       *)
(* user's, unless that was refused.                                        *)
Restored == \/ pc["pm"] \in {"idle", "limits", "unlock"}
            \/ pc["pm"] \in Calling /\ asks("pm") = "none"
PolicyInv ==
  /\ lowest <= user_policy.min /\ user_policy.min <= highest
  /\ lowest <= user_policy.max /\ user_policy.max <= highest
  /\ \A f \in Common : user_policy.min <= f /\ f <= user_policy.max
  /\ policy.min \in {SLEEP_FREQ, user_policy.min} /\ policy.max \in {SLEEP_FREQ, user_policy.max}
  /\ Restored /\ ~ range_lost => policy = user_policy

(* The DVFS locks.                                                         *)
locked(c) == lockval[c] < MAX_PERF_LEVEL
OwnerInv == \A c \in Callers :
              /\ lockval[c] \in LockLevels \cup {MAX_PERF_LEVEL}
              /\ pc[c] = "held" => locked(c)
TgtLimit(c) == tgt.by # NONE => tgt.index <= lockval[c]
LimitInv ==
  \A c \in Callers : locked(c) =>
    /\ pc[c] = "in_target" => TgtLimit(c)
    /\ pc[c] \in {"held", "unlock"} /\ governor # "ondemand" =>
         /\ TgtLimit(c)
         /\ /\ ~ faulty /\ ~ range_lost
            /\ pc["pm"] \in {"idle", "unlock"} /\ pc["user"] \in {"idle", "unlock"}
            => clk <= lockval[c]

ConfInv ==
  /\ HoldsRwsem /\ GovInv /\ MarkInv /\ AccessInv
  /\ AsleepInv /\ PolicyInv /\ OwnerInv /\ LimitInv

-----------------------------------------------------------------------------
(* Facts about threads that every case uses.                               *)
LEMMA ThreadFacts ==
  ASSUME CpuInv
  PROVE  /\ "pm" \in Threads /\ "gov" \in Threads /\ "user" \in Threads /\ "work" \in Threads
         /\ "attr" \in Threads
         /\ NONE \notin Threads /\ Callers \subseteq Threads
         /\ \A c \in Callers : c # "pm" /\ c # "gov" /\ c # "user" /\ c # "work" /\ c # "attr"
         /\ pc \in [Threads -> PCs] /\ DOMAIN want = Threads
         /\ \A t \in Threads : finished(t) \in {"idle", "held"}
         /\ \A t \in Threads \ Callers : finished(t) = "idle"
BY ThreadsAssumption DEF CpuInv, LockInv, ThreadTypes, Threads, Others, finished

(* The driver's steps: the thread that calls it, where it goes, and what   *)
(* stays.                                                                  *)
LEMMA TargetMoves ==
  ASSUME CpuInv, targetStep
  PROVE  /\ tgt.by \in Threads /\ pc[tgt.by] = "in_target"
         /\ UNCHANGED <<no_cpufreq_access, raised, settings, locks, update_queued, faulty>>
         /\ \/ /\ UNCHANGED <<pc, want>>
               /\ tgt'.by = tgt.by /\ tgt'.index = tgt.index
               /\ clk' = clk \/ clk' = tgt.index
            \/ /\ tgt' = idleTgt /\ return(tgt.by, want[tgt.by].ok)
               /\ clk = tgt.index /\ clk' = clk
            \/ /\ tgt' = idleTgt /\ return(tgt.by, want[tgt.by].err)
               /\ faulty /\ clk' = clk
<1>1. tgt.by \in Threads /\ pc[tgt.by] = "in_target"
  BY DEF CpuInv, LockInv, ThreadTypes, InTarget, targetStep, target_fails, target_arm_up,
     target_int_up, target_clock, target_int_down, target_arm_down, target_out
<1>2. UNCHANGED <<no_cpufreq_access, raised, settings, locks, update_queued, faulty>>
  BY DEF targetStep, target_fails, target_arm_up, target_int_up, target_clock,
     target_int_down, target_arm_down, target_out, hw, gate
<1>3. CASE target_fails
  BY <1>1, <1>2, <1>3 DEF target_fails, hw
<1>4. CASE target_out
  BY <1>1, <1>2, <1>4 DEF target_out, CpuInv, VoltInv
<1>5. CASE target_arm_up \/ target_int_up \/ target_clock \/ target_int_down \/ target_arm_down
  <2>1. /\ UNCHANGED <<pc, want>>
        /\ clk' = clk \/ clk' = tgt.index
        /\ \E v : tgt' = [tgt EXCEPT !.step = v]
    BY <1>5 DEF target_arm_up, target_int_up, target_clock, target_int_down, target_arm_down
  <2>2. tgt'.by = tgt.by /\ tgt'.index = tgt.index
    BY <2>1 DEF CpuInv, TgtTypes
  <2> QED
    BY <1>1, <1>2, <2>1, <2>2
<1> QED
  BY <1>3, <1>4, <1>5 DEF targetStep

(* CPUFREQ_GOV_START, of the new governor or again of the old one.         *)
LEMMA GovernorStarts ==
  ASSUME CpuInv, governor_start_fails \/ \E g \in Governors : governor_start(g)
  PROVE  /\ pc["user"] = "gov_start"
         /\ UNCHANGED <<rwsem, timer_mutex, policy, user_policy, range_lost, enabled_freqs, lockval>>
         /\ \/ governor' = governor /\ \E f, r : call("user", f, r, "none", "unlock", "unlock")
            \/ goto("user", "limits") /\ want' = want
            \/ \E f, r : call("user", f, r, "none", "limits", "limits")
<1>1. CASE governor_start_fails
  <2>1. governor \in {"performance", "powersave"}
    BY <1>1, CpuFreqAssumption DEF governor_start_fails, CpuInv, SetTypes
  <2> QED
    BY <1>1, <2>1 DEF governor_start_fails, start, locks, settings
<1>2. ASSUME NEW g \in Governors, governor_start(g)
      PROVE  /\ pc["user"] = "gov_start"
             /\ UNCHANGED <<rwsem, timer_mutex, policy, user_policy, range_lost, enabled_freqs, lockval>>
             /\ \/ goto("user", "limits") /\ want' = want
                \/ \E f, r : call("user", f, r, "none", "limits", "limits")
  <2>1. g \in {"performance", "powersave", "ondemand"}
    BY CpuFreqAssumption
  <2> QED
    BY <1>2, <2>1 DEF governor_start, start, locks
<1> QED
  BY <1>1, <1>2

(* The steps of CPUFREQ_GOV_STOP and of the task at ondemand's files.      *)
LEMMA FilesMove ==
  ASSUME governor_stop \/ attr_leave \/ \E file \in Files : attr_enter(file)
  PROVE  /\ UNCHANGED <<rwsem, timer_mutex, policy, user_policy, range_lost, governor,
                        enabled_freqs, lockval, want>>
         /\ \/ /\ pc["user"] \in Stopping
               /\ pc["user"] = "gov_stop" => pc["gov"] = "idle"
               /\ \E q \in Stopping \ {"gov_stop"} : goto("user", q)
            \/ pc["attr"] \in Files \cup {"idle"} /\ \E q \in Files \cup {"idle"} : goto("attr", q)
<1>1. UNCHANGED <<rwsem, timer_mutex, policy, user_policy, range_lost, governor,
                  enabled_freqs, lockval, want>>
  BY DEF governor_stop, attr_leave, attr_enter, settings, locks
<1>2. CASE governor_stop
  BY <1>1, <1>2 DEF governor_stop, Stopping
<1>3. CASE attr_leave \/ \E file \in Files : attr_enter(file)
  BY <1>1, <1>3 DEF attr_leave, attr_enter, inFile, Files
<1> QED
  BY <1>2, <1>3

(* rwsem.                                                                  *)
LEMMA RwsemStep ==
  ASSUME CpuInv, HoldsRwsem, GovInv, MarkInv, Next
  PROVE  HoldsRwsem' /\ GovInv'
<1> USE ThreadFacts DEF Under, Calling, Labels, Stopping, Files, Stopped
<1>0. \A t \in Threads : rwsem = t => pc[t] \in Under
  BY DEF CpuInv, LockInv, UnderRwsem
<1>00. /\ pc["gov"] \in {"idle", "target", "in_target", "unlock"}
       /\ pc["gov"] \in Calling => want["gov"].ok = "unlock" /\ want["gov"].err = "unlock"
       /\ \A t \in Threads : pc[t] \in Calling => want[t].ok \in Labels /\ want[t].err \in Labels
  BY DEF CpuInv, LockInv, UnderTimer, Returns
<1>1. CASE targetStep
  <2>1. UNCHANGED <<rwsem, governor>>
    BY <1>1, TargetMoves DEF locks, settings
  <2>2. tgt.by \in Threads /\ pc[tgt.by] = "in_target"
        /\ (pc' = pc \/ \E l \in Labels : pc' = [pc EXCEPT ![tgt.by] = l])
    BY <1>00, <1>1, TargetMoves DEF return, goto
  <2> QED
    BY <2>1, <2>2 DEF HoldsRwsem, GovInv
<1>2. ASSUME NEW t \in Threads, s5pv210_cpufreq_target(t) PROVE HoldsRwsem' /\ GovInv'
  <2>1. pc[t] = "target" /\ UNCHANGED <<rwsem, governor>>
    BY <1>2 DEF s5pv210_cpufreq_target, locks, settings
  <2>2. \E l \in Labels \cup {"in_target"} : pc' = [pc EXCEPT ![t] = l]
    BY <1>00, <1>2, <2>1 DEF s5pv210_cpufreq_target, return, goto
  <2> QED
    BY <2>1, <2>2 DEF HoldsRwsem, GovInv
<1>3. ASSUME NEW t \in Threads, cpufreq_update_policy(t) PROVE HoldsRwsem' /\ GovInv'
  BY <1>3 DEF cpufreq_update_policy, HoldsRwsem, GovInv, goto
<1>4. ASSUME NEW t \in Threads, limits_performance(t) \/ limits_powersave(t) \/ limits_ondemand(t)
      PROVE  HoldsRwsem' /\ GovInv'
  <2>1. pc[t] = "limits" /\ UNCHANGED <<rwsem, governor>>
    BY <1>4 DEF limits_performance, limits_powersave, limits_ondemand, locks, settings
  <2>2. \E l \in {"target", "unlock"} : pc' = [pc EXCEPT ![t] = l]
    BY <1>4 DEF limits_performance, limits_powersave, limits_ondemand, call, goto
  <2> QED
    BY <1>00, <2>1, <2>2 DEF HoldsRwsem, GovInv
<1>5. ASSUME NEW t \in Threads, unlock(t) PROVE HoldsRwsem' /\ GovInv'
  <2>1. /\ pc[t] = "unlock" /\ pc' = [pc EXCEPT ![t] = finished(t)] /\ governor' = governor
        /\ rwsem' = IF rwsem = t THEN NONE ELSE rwsem
    BY <1>5 DEF unlock, goto, settings
  <2> QED
    BY <2>1 DEF HoldsRwsem, GovInv
<1>6. ASSUME NEW c \in Callers, unlock_dvfs(c) \/ \E l \in LockLevels : lock_dvfs(c, l)
      PROVE  HoldsRwsem' /\ GovInv'
  BY <1>6 DEF unlock_dvfs, lock_dvfs, locks, goto, HoldsRwsem, GovInv
<1>7. CASE do_dbs_timer
  <2>1. /\ pc' = [pc EXCEPT !["gov"] = "target"] /\ UNCHANGED <<rwsem, governor>>
        /\ governor = "ondemand" /\ pc["user"] \notin Stopping
    BY <1>7 DEF do_dbs_timer, call, goto, settings
  <2> QED
    BY <2>1 DEF HoldsRwsem, GovInv
<1>8. CASE handle_update
  BY <1>8 DEF handle_update, goto, locks, settings, HoldsRwsem, GovInv
<1>9. ASSUME NEW o, NEW f, store_one(o, f) PROVE HoldsRwsem' /\ GovInv'
  BY <1>9 DEF store_one, userMayWrite, goto, HoldsRwsem, GovInv
<1>10. ASSUME NEW e, store_states_enabled_table(e) PROVE HoldsRwsem' /\ GovInv'
  BY <1>10 DEF store_states_enabled_table, locks, HoldsRwsem, GovInv
<1>11. CASE store_scaling_governor
  BY <1>11 DEF store_scaling_governor, userMayWrite, goto, settings, HoldsRwsem, GovInv
<1>12. CASE governor_start_fails \/ \E g \in Governors : governor_start(g)
  <2>1. /\ pc["user"] = "gov_start" /\ rwsem' = rwsem
        /\ \E l \in {"target", "limits"} : pc' = [pc EXCEPT !["user"] = l]
    BY <1>12, GovernorStarts DEF call, goto
  <2> QED
    BY <2>1 DEF HoldsRwsem, GovInv
<1>120. CASE governor_stop \/ attr_leave \/ \E file \in Files : attr_enter(file)
  BY <1>120, FilesMove DEF HoldsRwsem, GovInv, goto
<1>13. CASE pm_suspend_prepare \/ pm_post_suspend
  <2>1. /\ rwsem = NONE /\ rwsem' = "pm" /\ pc' = [pc EXCEPT !["pm"] = "target"]
        /\ governor' = governor
    BY <1>13 DEF pm_suspend_prepare, pm_post_suspend, call, goto, settings
  <2> QED
    BY <2>1 DEF HoldsRwsem, GovInv
<1>14. CASE pm_suspend_prepared \/ pm_post_update
  <2>1. /\ pc["pm"] \in Labels /\ rwsem' = NONE /\ governor' = governor
        /\ \E l \in {"prepared", "post", "update"} : pc' = [pc EXCEPT !["pm"] = l]
    BY <1>14 DEF pm_suspend_prepared, pm_post_update, goto, settings
  <2> QED
    BY <2>1 DEF HoldsRwsem, GovInv
<1>15. CASE suspend_freeze_processes \/ suspend_devices_and_enter
  <2>1. /\ pc["pm"] \notin Calling /\ UNCHANGED <<rwsem, governor>>
        /\ \E l \in {"frozen", "post"} : pc' = [pc EXCEPT !["pm"] = l]
    BY <1>15 DEF suspend_freeze_processes, suspend_devices_and_enter, goto, locks, settings,
                 Calling
  <2> QED
    BY <2>1 DEF HoldsRwsem, GovInv, Under, Calling, Labels
<1> QED
  BY NextActions, OtherActions, <1>1, <1>2, <1>3, <1>4, <1>5, <1>6, <1>7, <1>8, <1>9, <1>10,
     <1>11, <1>12, <1>120, <1>13, <1>14, <1>15

(* What is asked of the driver.                                            *)
LEMMA MarkStep ==
  ASSUME CpuInv, MarkInv, Next
  PROVE  MarkInv'
<1> USE ThreadFacts DEF Calling, Labels, Stopping, Files, asks
<1>1. ASSUME NEW t \in Threads, NEW q \in PCs, pc' = [pc EXCEPT ![t] = q],
             q \notin Calling \/ pc[t] \in Calling, want' = want
      PROVE  MarkInv'
  BY <1>1 DEF MarkInv
<1>2. ASSUME NEW t \in Threads, NEW q \in Labels, return(t, q)
      PROVE  MarkInv'
  BY <1>2 DEF MarkInv, return, goto
<1>3. ASSUME NEW t \in Threads, NEW f, NEW r, NEW m, NEW ok, NEW err, call(t, f, r, m, ok, err),
             IF t # "pm" THEN m = "none" ELSE
               \/ m = "disable" /\ f = SLEEP_FREQ /\ ok = "ready" /\ err = "bad"
               \/ m = "enable" /\ ok = "enabled" /\ err = "enabled"
               \/ m = "none" /\ ok = "unlock" /\ err = "unlock"
      PROVE  MarkInv'
  BY <1>3 DEF MarkInv, call, goto
<1>4. CASE UNCHANGED <<pc, want>>
  BY <1>4 DEF MarkInv
<1>5. \A t \in Threads : pc[t] \in Calling => want[t].ok \in Labels /\ want[t].err \in Labels
  BY DEF CpuInv, LockInv, Returns
<1>6. CASE targetStep
  BY <1>2, <1>4, <1>5, <1>6, TargetMoves
<1>7. ASSUME NEW t \in Threads, s5pv210_cpufreq_target(t) PROVE MarkInv'
  <2>1. pc[t] = "target" /\ (\/ return(t, want[t].ok) \/ return(t, want[t].err)
                             \/ pc' = [pc EXCEPT ![t] = "in_target"] /\ want' = want)
    BY <1>7 DEF s5pv210_cpufreq_target, goto
  <2> QED
    BY <1>1, <1>2, <1>5, <2>1 DEF PCs
<1>8. ASSUME NEW t \in Threads, limits_performance(t) \/ limits_powersave(t) \/ limits_ondemand(t)
      PROVE  MarkInv'
  <2>1. \/ pc' = [pc EXCEPT ![t] = "unlock"] /\ want' = want
        \/ \E f, r : call(t, f, r, "none", "unlock", "unlock")
    BY <1>8 DEF limits_performance, limits_powersave, limits_ondemand, goto
  <2> QED
    BY <1>1, <1>3, <2>1 DEF PCs
<1>9. ASSUME NEW t \in Threads, cpufreq_update_policy(t) \/ unlock(t) PROVE MarkInv'
  <2>1. want' = want /\ \E q \in {"limits", "idle", "held"} : pc' = [pc EXCEPT ![t] = q]
    BY <1>9 DEF cpufreq_update_policy, unlock, goto
  <2> QED
    BY <1>1, <2>1 DEF PCs
<1>10. ASSUME NEW c \in Callers, unlock_dvfs(c) \/ \E l \in LockLevels : lock_dvfs(c, l)
       PROVE  MarkInv'
  <2>1. want' = want /\ pc' = [pc EXCEPT ![c] = "update"] /\ c \in Threads
    BY <1>10 DEF unlock_dvfs, lock_dvfs, goto
  <2> QED
    BY <1>1, <2>1 DEF PCs
<1>11. CASE do_dbs_timer
  <2>1. \E f, r : call("gov", f, r, "none", "unlock", "unlock")
    BY <1>11 DEF do_dbs_timer
  <2> QED
    BY <1>3, <2>1
<1>12. CASE handle_update \/ store_scaling_governor
  <2>1. want' = want /\ \E t \in {"work", "user"} : \E q \in {"update", "gov_stop", "gov_start"} :
                          pc' = [pc EXCEPT ![t] = q]
    BY <1>12 DEF handle_update, store_scaling_governor, goto
  <2> QED
    BY <1>1, <2>1 DEF PCs
<1>13. ASSUME NEW o, NEW f, store_one(o, f) PROVE MarkInv'
  <2>1. want' = want /\ (pc' = pc \/ pc' = [pc EXCEPT !["user"] = "limits"])
    BY <1>13 DEF store_one, goto
  <2> QED
    BY <1>1, <1>4, <2>1 DEF PCs
<1>14. ASSUME NEW e, store_states_enabled_table(e) PROVE MarkInv'
  BY <1>4, <1>14 DEF store_states_enabled_table
<1>15. CASE governor_start_fails \/ \E g \in Governors : governor_start(g)
  <2>1. \/ pc' = [pc EXCEPT !["user"] = "limits"] /\ want' = want
        \/ \E f, r, l : call("user", f, r, "none", l, l)
    BY <1>15, GovernorStarts DEF goto
  <2> QED
    BY <1>1, <1>3, <2>1 DEF PCs
<1>150. CASE governor_stop \/ attr_leave \/ \E file \in Files : attr_enter(file)
  <2>1. want' = want /\ \E t \in {"user", "attr"} : \E q \in Stopping \cup Files \cup {"idle"} :
                          pc' = [pc EXCEPT ![t] = q]
    BY <1>150, FilesMove DEF goto
  <2> QED
    BY <1>1, <2>1 DEF PCs
<1>16. CASE pm_suspend_prepare
  BY <1>3, <1>16 DEF pm_suspend_prepare
<1>17. CASE pm_post_suspend
  BY <1>3, <1>17 DEF pm_post_suspend
<1>18. CASE pm_suspend_prepared \/ pm_post_update \/ suspend_freeze_processes
            \/ suspend_devices_and_enter
  <2>1. want' = want /\ \E q \in {"prepared", "post", "frozen", "update"} :
                          pc' = [pc EXCEPT !["pm"] = q]
    BY <1>18 DEF pm_suspend_prepared, pm_post_update, suspend_freeze_processes,
       suspend_devices_and_enter, goto
  <2> QED
    BY <1>1, <2>1 DEF PCs
<1> QED
  BY NextActions, OtherActions, <1>6, <1>7, <1>8, <1>9, <1>10, <1>11, <1>12, <1>13, <1>14,
     <1>15, <1>150, <1>16, <1>17, <1>18

-----------------------------------------------------------------------------
(* What the suspend thread does in the steps outside the driver.           *)
PmStays == pc'["pm"] = pc["pm"] /\ want'["pm"] = want["pm"]

(* Its moves outside the driver, one by one.                               *)
LEMMA PmOther ==
  ASSUME CpuInv, OtherStep
  PROVE  \/ PmStays
         \/ /\ pc["pm"] = "update" /\ pc'["pm"] \in {"limits", "idle"}
            /\ cpufreq_update_policy("pm")
         \/ pc["pm"] = "limits" /\ pc'["pm"] = "unlock"
         \/ pc["pm"] = "limits" /\ pc'["pm"] = "target" /\ want'["pm"].mark = "none"
         \/ pc["pm"] = "unlock" /\ pc'["pm"] = "idle"
         \/ pm_suspend_prepare \/ pm_suspend_prepared \/ suspend_freeze_processes
         \/ suspend_devices_and_enter \/ pm_post_suspend \/ pm_post_update
<1> USE ThreadFacts
<1>1. ASSUME NEW t \in Threads, t # "pm", NEW q, goto(t, q), want' = want PROVE PmStays
  BY <1>1 DEF PmStays, goto
<1>2. ASSUME NEW t \in Threads, t # "pm", NEW f, NEW r, NEW m, NEW ok, NEW err,
             call(t, f, r, m, ok, err)
      PROVE  PmStays
  BY <1>2 DEF PmStays, call, goto
<1>3. ASSUME NEW t \in Threads, cpufreq_update_policy(t), t # "pm" PROVE PmStays
  BY <1>1, <1>3 DEF cpufreq_update_policy
<1>4. ASSUME cpufreq_update_policy("pm")
      PROVE  pc["pm"] = "update" /\ pc'["pm"] \in {"limits", "idle"}
  BY <1>4 DEF cpufreq_update_policy, goto
<1>5. ASSUME NEW t \in Threads, limits_performance(t) \/ limits_powersave(t) \/ limits_ondemand(t)
      PROVE  /\ pc[t] = "limits"
             /\ \/ goto(t, "unlock") /\ want' = want
                \/ \E f, r : call(t, f, r, "none", "unlock", "unlock")
  BY <1>5 DEF limits_performance, limits_powersave, limits_ondemand
<1>6. ASSUME NEW t \in Threads, limits_performance(t) \/ limits_powersave(t) \/ limits_ondemand(t)
      PROVE  \/ PmStays
             \/ pc["pm"] = "limits" /\ pc'["pm"] = "unlock"
             \/ pc["pm"] = "limits" /\ pc'["pm"] = "target" /\ want'["pm"].mark = "none"
  <2>1. CASE t # "pm"
    BY <1>1, <1>2, <1>5, <1>6, <2>1
  <2>2. CASE t = "pm"
    BY <1>5, <1>6, <2>2 DEF call, goto
  <2> QED
    BY <2>1, <2>2
<1>7. ASSUME NEW t \in Threads, unlock(t)
      PROVE  PmStays \/ (pc["pm"] = "unlock" /\ pc'["pm"] = "idle")
  BY <1>7 DEF unlock, goto, PmStays
<1>8. ASSUME NEW c \in Callers, unlock_dvfs(c) \/ \E l \in LockLevels : lock_dvfs(c, l)
      PROVE  PmStays
  BY <1>1, <1>8 DEF unlock_dvfs, lock_dvfs
<1>9. ASSUME do_dbs_timer PROVE PmStays
  <2>1. \E f, r : call("gov", f, r, "none", "unlock", "unlock")
    BY <1>9 DEF do_dbs_timer
  <2> QED
    BY <1>2, <2>1
<1>10. ASSUME handle_update \/ store_scaling_governor PROVE PmStays
  BY <1>1, <1>10 DEF handle_update, store_scaling_governor
<1>11. ASSUME NEW o, NEW f, store_one(o, f) PROVE PmStays
  <2>1. want' = want /\ (pc' = pc \/ goto("user", "limits"))
    BY <1>11 DEF store_one
  <2> QED
    BY <1>1, <2>1 DEF PmStays
<1>12. ASSUME NEW e, store_states_enabled_table(e) PROVE PmStays
  BY <1>12 DEF store_states_enabled_table, PmStays
<1>13. ASSUME governor_start_fails \/ \E g \in Governors : governor_start(g) PROVE PmStays
  BY <1>1, <1>2, <1>13, GovernorStarts
<1>14. ASSUME governor_stop \/ attr_leave \/ \E file \in Files : attr_enter(file) PROVE PmStays
  BY <1>1, <1>14, FilesMove
<1> QED
  BY OtherActions, <1>3, <1>4, <1>6, <1>7, <1>8, <1>9, <1>10, <1>11, <1>12, <1>13, <1>14

(* The policy changes outside the driver only, and only when rwsem is free.*)
LEMMA PolicyUnderRwsem ==
  ASSUME Next
  PROVE  rwsem = NONE \/ UNCHANGED <<policy, user_policy>>
<1>1. CASE targetStep
  BY <1>1 DEF targetStep, target_fails, target_arm_up, target_int_up, target_clock,
     target_int_down, target_arm_down, target_out, settings
<1>2. CASE \E t \in Threads : s5pv210_cpufreq_target(t)
  BY <1>2 DEF s5pv210_cpufreq_target, settings
<1>3. CASE OtherStep
  BY <1>3, OtherActions DEF cpufreq_update_policy, limits_performance, limits_powersave,
     limits_ondemand, unlock, unlock_dvfs, lock_dvfs, do_dbs_timer, handle_update, store_one,
     store_states_enabled_table, store_scaling_governor, governor_stop, governor_start,
     governor_start_fails, attr_enter, attr_leave, pm_suspend_prepare, pm_suspend_prepared,
     suspend_freeze_processes, suspend_devices_and_enter,
     pm_post_suspend, pm_post_update, settings, userMayWrite
<1> QED
  BY <1>1, <1>2, <1>3, NextActions

(* Access.                                                                 *)
LEMMA AccessStep ==
  ASSUME CpuInv, MarkInv, AccessInv, Next
  PROVE  AccessInv'
<1> USE ThreadFacts DEF asks
<1>1. CASE targetStep
  <2>1. no_cpufreq_access' = no_cpufreq_access
    BY <1>1, TargetMoves
  <2>2. CASE tgt.by # "pm"
    <3>1. PmStays
      BY <1>1, <2>2, TargetMoves DEF return, goto, PmStays
    <3> QED
      BY <2>1, <3>1 DEF AccessInv, PmStays
  <2>3. CASE tgt.by = "pm" /\ pc' = pc /\ want' = want
    BY <2>1, <2>3 DEF AccessInv
  <2>4. CASE tgt.by = "pm" /\ \E l \in {want["pm"].ok, want["pm"].err} : return("pm", l)
    BY <1>1, <2>1, <2>4, TargetMoves DEF AccessInv, MarkInv, Calling, return, goto
  <2> QED
    BY <1>1, <2>2, <2>3, <2>4, TargetMoves
<1>2. ASSUME NEW t \in Threads, t # "pm", s5pv210_cpufreq_target(t) PROVE AccessInv'
  <2>1. pc[t] = "target"
    BY <1>2 DEF s5pv210_cpufreq_target
  <2>2. asks(t) = "none"
    BY <1>2, <2>1 DEF MarkInv, Calling
  <2>3. no_cpufreq_access' = no_cpufreq_access
    BY <1>2, <2>2 DEF s5pv210_cpufreq_target, access_granted, CpuInv, TgtTypes
  <2>4. PmStays
    BY <1>2 DEF s5pv210_cpufreq_target, return, goto, PmStays
  <2> QED
    BY <2>3, <2>4 DEF AccessInv, PmStays
<1>3. ASSUME s5pv210_cpufreq_target("pm") PROVE AccessInv'
  <2>1. pc["pm"] = "target" /\ no_cpufreq_access' = (~ access_granted(asks("pm")) \/ asks("pm") = "disable")
    BY <1>3 DEF s5pv210_cpufreq_target
  <2>2. access_granted(asks("pm"))
    BY <2>1 DEF AccessInv, MarkInv, Calling, access_granted
  <2>3. CASE asks("pm") # "disable"
    BY <2>1, <2>2, <2>3 DEF AccessInv
  <2>4. CASE asks("pm") = "disable"
    <3>1. want["pm"].ok = "ready" /\ want["pm"].err = "bad"
      BY <2>1, <2>4 DEF MarkInv, Calling
    <3>2. \/ pc'["pm"] \in {"ready", "bad"}
          \/ pc'["pm"] = "in_target" /\ want'["pm"] = want["pm"]
      BY <1>3, <3>1 DEF s5pv210_cpufreq_target, return, goto
    <3> QED
      BY <2>4, <3>2 DEF AccessInv
  <2> QED
    BY <2>3, <2>4
<1>4. CASE OtherStep
  <2>1. no_cpufreq_access' = no_cpufreq_access
    BY <1>4, OtherFrame
  <2>2. SUFFICES ASSUME no_cpufreq_access PROVE AccessInv'
    BY <2>1 DEF AccessInv
  <2>3. \/ pc["pm"] \in {"ready", "bad", "prepared", "frozen", "post", "in_target"}
        \/ pc["pm"] = "target" /\ asks("pm") = "enable"
    BY <2>2 DEF AccessInv
  <2>4. CASE PmStays
    BY <2>1, <2>4 DEF AccessInv, PmStays
  <2>5. CASE pm_suspend_prepared
    BY <2>5 DEF pm_suspend_prepared, goto, AccessInv
  <2>6. CASE suspend_freeze_processes \/ suspend_devices_and_enter
    BY <2>6 DEF suspend_freeze_processes, suspend_devices_and_enter, goto, AccessInv
  <2>7. CASE pm_post_suspend
    BY <2>7 DEF pm_post_suspend, call, goto, AccessInv
  <2>8. ~ pm_post_update /\ ~ pm_suspend_prepare
    BY <2>3 DEF pm_post_update, pm_suspend_prepare
  <2> QED
    BY <1>4, <2>3, <2>4, <2>5, <2>6, <2>7, <2>8, PmOther
<1> QED
  BY <1>1, <1>2, <1>3, <1>4, NextActions

(* DVFS locks.                                                             *)
LEMMA OwnerStep ==
  ASSUME CpuInv, MarkInv, OwnerInv, Next
  PROVE  OwnerInv'
<1> USE ThreadFacts DEF locked
<1>0. /\ NUM_FREQ \in Nat /\ LockLevels \subseteq 0 .. MAX_PERF_LEVEL - 1
      /\ MAX_PERF_LEVEL = NUM_FREQ - 1
      /\ lockval \in [Callers -> 0 .. MAX_PERF_LEVEL]
  BY CpuFreqAssumption DEF MAX_PERF_LEVEL, CpuInv, SetTypes
<1>1. ASSUME NEW t \in Threads, NEW q, pc' = [pc EXCEPT ![t] = q], lockval' = lockval,
             q # "held" \/ t \notin Callers \/ q = finished(t)
      PROVE  OwnerInv'
  BY <1>1 DEF OwnerInv, finished
<1>2. CASE UNCHANGED <<pc, lockval>>
  BY <1>2 DEF OwnerInv
<1>3. \A t \in Threads : pc[t] \in Calling => want[t].ok \in Labels /\ want[t].err \in Labels
  BY DEF CpuInv, LockInv, Returns
<1>4. CASE targetStep
  <2>1. lockval' = lockval
    BY <1>4, TargetMoves DEF settings
  <2>2. pc' = pc \/ \E q \in Labels : pc' = [pc EXCEPT ![tgt.by] = q]
    BY <1>3, <1>4, TargetMoves DEF return, goto, Calling
  <2> QED
    BY <1>1, <1>2, <1>4, <2>1, <2>2, TargetMoves DEF Labels
<1>5. ASSUME NEW t \in Threads, s5pv210_cpufreq_target(t) PROVE OwnerInv'
  <2>1. lockval' = lockval /\ pc[t] = "target"
    BY <1>5 DEF s5pv210_cpufreq_target, settings
  <2>2. \E q \in Labels \cup {"in_target"} : pc' = [pc EXCEPT ![t] = q]
    BY <1>3, <1>5, <2>1 DEF s5pv210_cpufreq_target, return, goto, Calling
  <2> QED
    BY <1>1, <2>1, <2>2 DEF Labels
<1>6. ASSUME NEW t \in Threads, cpufreq_update_policy(t) \/ unlock(t)
      PROVE OwnerInv'
  <2>1. lockval' = lockval /\ \E q \in {"limits", finished(t)} : pc' = [pc EXCEPT ![t] = q]
    BY <1>6 DEF cpufreq_update_policy, unlock, goto, settings
  <2> QED
    BY <1>1, <2>1
<1>7. ASSUME NEW t \in Threads, limits_performance(t) \/ limits_powersave(t) \/ limits_ondemand(t)
      PROVE  OwnerInv'
  <2>1. lockval' = lockval /\ \E q \in {"unlock", "target"} : pc' = [pc EXCEPT ![t] = q]
    BY <1>7 DEF limits_performance, limits_powersave, limits_ondemand, call, goto, settings
  <2> QED
    BY <1>1, <2>1
<1>8. ASSUME NEW c \in Callers, NEW l \in LockLevels \cup {MAX_PERF_LEVEL},
             lockval' = [lockval EXCEPT ![c] = l], pc' = [pc EXCEPT ![c] = "update"]
      PROVE  OwnerInv'
  BY <1>0, <1>8 DEF OwnerInv
<1>9. ASSUME NEW c \in Callers, unlock_dvfs(c) \/ \E l \in LockLevels : lock_dvfs(c, l)
      PROVE  OwnerInv'
  BY <1>8, <1>9 DEF unlock_dvfs, lock_dvfs, goto
<1>10. CASE do_dbs_timer \/ handle_update \/ store_scaling_governor
  <2>1. lockval' = lockval /\ \E t \in {"gov", "work", "user"} :
                                \E q : pc' = [pc EXCEPT ![t] = q]
    BY <1>10 DEF do_dbs_timer, handle_update, store_scaling_governor, call, goto, settings
  <2> QED
    BY <1>1, <2>1
<1>11. ASSUME NEW o, NEW f, store_one(o, f) PROVE OwnerInv'
  <2>1. lockval' = lockval /\ (pc' = pc \/ \E q : pc' = [pc EXCEPT !["user"] = q])
    BY <1>11 DEF store_one, goto
  <2> QED
    BY <1>1, <1>2, <2>1
<1>12. ASSUME NEW e, store_states_enabled_table(e) PROVE OwnerInv'
  BY <1>2, <1>12 DEF store_states_enabled_table
<1>13. CASE governor_start_fails \/ \E g \in Governors : governor_start(g)
  <2>1. lockval' = lockval /\ \E q : pc' = [pc EXCEPT !["user"] = q]
    BY <1>13, GovernorStarts DEF call, goto
  <2> QED
    BY <1>1, <2>1
<1>130. CASE governor_stop \/ attr_leave \/ \E file \in Files : attr_enter(file)
  <2>1. lockval' = lockval /\ \E t \in {"user", "attr"} : \E q : pc' = [pc EXCEPT ![t] = q]
    BY <1>130, FilesMove DEF goto
  <2> QED
    BY <1>1, <2>1
<1>14. CASE pm_suspend_prepare \/ pmStep
  <2>1. lockval' = lockval /\ \E q : pc' = [pc EXCEPT !["pm"] = q]
    BY <1>14 DEF pm_suspend_prepare, pmStep, pm_suspend_prepared, suspend_freeze_processes,
       suspend_devices_and_enter, pm_post_suspend, pm_post_update, call, goto, settings
  <2> QED
    BY <1>1, <2>1
<1> QED
  BY NextActions, <1>4, <1>5, <1>6, <1>7, <1>9, <1>10, <1>11, <1>12, <1>13, <1>130, <1>14
     DEF OtherStep, Files

-----------------------------------------------------------------------------
(* A DVFS lock leaves the level of SLEEP_FREQ alone or makes it faster.    *)
LEMMA SleepIndex ==
  ASSUME CpuInv, NEW k \in Levels, freq_table[k] = SLEEP_FREQ
  PROVE  IF dvfs_limit(k) < k THEN freq_table[dvfs_limit(k)] > SLEEP_FREQ
         ELSE freq_table[dvfs_limit(k)] = SLEEP_FREQ
<1>0. /\ NUM_FREQ \in Nat \ {0} /\ Levels = 0 .. NUM_FREQ - 1
      /\ \A i, j \in Levels : i < j => freq_table[i] > freq_table[j]
  BY CpuFreqAssumption DEF Levels
<1>1. dvfs_limit(k) \in Levels /\ dvfs_limit(k) <= k
  BY LimitObeyed DEF CpuInv, SetTypes
<1>2. dvfs_limit(k) < k \/ dvfs_limit(k) = k
  BY <1>0, <1>1
<1> QED
  BY <1>0, <1>1, <1>2

(* The clock over a sleep.                                                 *)
LEMMA AsleepStep ==
  ASSUME CpuInv, HoldsRwsem, MarkInv, AccessInv, AsleepInv, Next
  PROVE  AsleepInv'
<1> USE ThreadFacts DEF asks, SleepSpeedIs
<1>1. CASE targetStep
  <2>1. UNCHANGED <<no_cpufreq_access, raised, policy>> /\ tgt.by \in Threads /\ pc[tgt.by] = "in_target"
    BY <1>1, TargetMoves DEF settings
  <2>2. pc["pm"] \notin {"ready", "prepared", "frozen"} /\ (pc["pm"] = "in_target" <=> tgt.by = "pm")
    BY <2>1 DEF AsleepInv, CpuInv, LockInv, InTarget
  <2>3. CASE tgt.by # "pm"
    <3>1. PmStays
      BY <1>1, <2>3, TargetMoves DEF return, goto, PmStays
    <3> QED
      BY <2>1, <2>2, <2>3, <3>1 DEF AsleepInv, PmStays
  <2>4. CASE tgt.by = "pm"
    <3>1. CASE UNCHANGED <<pc, want>> /\ tgt'.index = tgt.index
      BY <2>1, <2>2, <2>4, <3>1 DEF AsleepInv
    <3>2. CASE tgt' = idleTgt /\ return("pm", want["pm"].ok) /\ clk = tgt.index /\ clk' = clk
      <4>1. pc'["pm"] = want["pm"].ok /\ tgt'.by = NONE
        BY <3>2 DEF return, goto, idleTgt
      <4>2. /\ want["pm"].ok \in {"ready", "enabled", "unlock"}
            /\ want["pm"].ok = "ready" => asks("pm") = "disable"
        BY <2>1, <2>4 DEF MarkInv, Calling
      <4> QED
        BY <2>1, <2>2, <2>4, <3>2, <4>1, <4>2 DEF AsleepInv, cur
    <3>3. CASE return("pm", want["pm"].err)
      <4>1. pc'["pm"] \in {"bad", "enabled", "unlock"}
        BY <2>1, <2>4, <3>3 DEF return, goto, MarkInv, Calling
      <4> QED
        BY <4>1 DEF AsleepInv
    <3> QED
      BY <1>1, <2>4, <3>1, <3>2, <3>3, TargetMoves
  <2> QED
    BY <2>3, <2>4
<1>2. ASSUME NEW t \in Threads, t # "pm", s5pv210_cpufreq_target(t) PROVE AsleepInv'
  <2>1. /\ PmStays /\ UNCHANGED <<clk, policy>> /\ pc[t] = "target" /\ tgt.by = NONE
        /\ pc["pm"] # "in_target"
    BY <1>2 DEF s5pv210_cpufreq_target, return, goto, PmStays, hw, settings, CpuInv, LockInv,
       InTarget
  <2>2. asks(t) = "none"
    BY <1>2, <2>1 DEF MarkInv, Calling
  <2>3. raised' = raised /\ (no_cpufreq_access => tgt' = tgt /\ no_cpufreq_access')
    BY <1>2, <2>2 DEF s5pv210_cpufreq_target, access_granted
  <2> QED
    BY <2>1, <2>3 DEF AsleepInv, PmStays, cur
<1>3. ASSUME s5pv210_cpufreq_target("pm") PROVE AsleepInv'
  <2> DEFINE found == cpufreq_frequency_table_target(policy, want["pm"].freq, want["pm"].relation)
             index == dvfs_limit(found)
  <2>1. /\ pc["pm"] = "target" /\ tgt.by = NONE /\ UNCHANGED <<hw, settings>>
        /\ no_cpufreq_access' = (~ access_granted(want["pm"].mark) \/ want["pm"].mark = "disable")
        /\ raised' = IF want["pm"].mark = "none" THEN raised
                     ELSE want["pm"].mark = "disable" /\ index < found
        /\ \/ return("pm", want["pm"].err) /\ tgt' = tgt
           \/ /\ found \in Levels /\ Fits(found, policy) /\ index = clk
              /\ return("pm", want["pm"].ok) /\ tgt' = tgt
           \/ /\ found \in Levels /\ Fits(found, policy)
              /\ goto("pm", "in_target") /\ want' = want /\ tgt'.index = index
    BY <1>3, DriverChoice DEF CpuInv
  <2> HIDE DEF found, index
  <2>2. CASE asks("pm") # "disable"
    <3>1. want["pm"].ok \in {"enabled", "unlock"} /\ want["pm"].err \in {"enabled", "unlock"}
      BY <2>1, <2>2 DEF MarkInv, Calling
    <3>2. \/ pc'["pm"] \in {"enabled", "unlock"}
          \/ pc'["pm"] = "in_target" /\ want' = want
      BY <2>1, <3>1 DEF return, goto
    <3> QED
      BY <2>2, <3>2 DEF AsleepInv
  <2>3. CASE asks("pm") = "disable"
    <3>1. want["pm"].ok = "ready" /\ want["pm"].err = "bad" /\ no_cpufreq_access'
      BY <2>1, <2>3 DEF MarkInv, Calling
    <3>2. policy.min = SLEEP_FREQ /\ policy.max = SLEEP_FREQ
      BY <2>1, <2>3 DEF AsleepInv
    <3>3. found \in Levels /\ Fits(found, policy) =>
            IF raised' THEN freq_table[index] > SLEEP_FREQ ELSE freq_table[index] = SLEEP_FREQ
      <4>1. freq_table \in [Levels -> Nat] /\ SLEEP_FREQ \in Nat
        BY CpuFreqAssumption
      <4>2. found \in Levels /\ Fits(found, policy) => freq_table[found] = SLEEP_FREQ
        BY <3>2, <4>1 DEF Fits
      <4>3. raised' = (index < found)
        BY <2>1, <2>3
      <4>4. found \in Levels /\ Fits(found, policy) =>
              IF index < found THEN freq_table[index] > SLEEP_FREQ ELSE freq_table[index] = SLEEP_FREQ
        BY <4>2, SleepIndex DEF index
      <4> QED
        BY <4>3, <4>4
    <3>4. CASE return("pm", want["pm"].err)
      <4>1. pc'["pm"] = "bad"
        BY <3>1, <3>4 DEF return, goto
      <4> QED
        BY <4>1 DEF AsleepInv
    <3>5. CASE /\ found \in Levels /\ Fits(found, policy) /\ index = clk
               /\ return("pm", want["pm"].ok) /\ tgt' = tgt
      <4>1. pc'["pm"] = "ready"
        BY <3>1, <3>5 DEF return, goto
      <4> QED
        BY <2>1, <3>1, <3>3, <3>5, <4>1 DEF AsleepInv, cur, hw
    <3>6. CASE /\ found \in Levels /\ Fits(found, policy)
               /\ goto("pm", "in_target") /\ want' = want /\ tgt'.index = index
      <4>1. pc'["pm"] = "in_target"
        BY <3>6 DEF goto
      <4> QED
        BY <3>1, <3>3, <3>6, <4>1 DEF AsleepInv
    <3> QED
      BY <2>1, <3>4, <3>5, <3>6
  <2> QED
    BY <2>2, <2>3
<1>4. CASE OtherStep
  <2>1. UNCHANGED <<no_cpufreq_access, raised, tgt, clk>>
    BY <1>4, OtherFrame DEF hw
  <2>2. pc["pm"] = "target" => policy' = policy
    BY PolicyUnderRwsem DEF HoldsRwsem, Under, Calling
  <2>3. CASE PmStays
    BY <2>1, <2>2, <2>3 DEF AsleepInv, PmStays, cur
  <2>4. CASE pm_suspend_prepare
    BY <2>4 DEF pm_suspend_prepare, call, goto, AsleepInv
  <2>5. CASE pm_suspend_prepared
    BY <2>1, <2>5 DEF pm_suspend_prepared, goto, AsleepInv, cur
  <2>6. CASE suspend_freeze_processes \/ suspend_devices_and_enter
    BY <2>1, <2>6 DEF suspend_freeze_processes, suspend_devices_and_enter, goto, AsleepInv, cur
  <2>7. CASE pm_post_suspend
    BY <2>7 DEF pm_post_suspend, call, goto, AsleepInv
  <2>8. CASE pm_post_update
    BY <2>8 DEF pm_post_update, goto, AsleepInv
  <2>9. CASE pc'["pm"] \in {"limits", "idle", "unlock"}
    BY <2>9 DEF AsleepInv
  <2>10. CASE pc'["pm"] = "target" /\ want'["pm"].mark = "none"
    BY <2>10 DEF AsleepInv
  <2> QED
    BY <1>4, <2>3, <2>4, <2>5, <2>6, <2>7, <2>8, <2>9, <2>10, PmOther
<1> QED
  BY <1>1, <1>2, <1>3, <1>4, NextActions

-----------------------------------------------------------------------------
(* Where the threads go outside the driver, and when lock tokens and the   *)
(* governor change.                                                        *)
LEMMA OtherGoes ==
  ASSUME CpuInv, OtherStep
  PROVE  /\ \A t \in Threads :
              /\ t # "attr" /\ pc'[t] \in {"idle", "held", "unlock"} =>
                   \/ pc'[t] = pc[t] \/ pc[t] = "unlock"
                   \/ governor = "ondemand" /\ governor' = governor
                   \/ cpufreq_update_policy(t) /\ ~ overlaps(user_policy)
              /\ pc'[t] = "in_target" => pc[t] = "in_target"
         /\ \A c \in Callers : lockval'[c] = lockval[c] \/ pc'[c] = "update"
         /\ \/ governor' = governor
            \/ pc["user"] = "gov_start" /\ pc'["user"] \in {"target", "limits"}
<1> USE ThreadFacts DEF Calling, Stopping, Files
<1> DEFINE Goal == /\ \A t \in Threads :
                        /\ t # "attr" /\ pc'[t] \in {"idle", "held", "unlock"} =>
                             \/ pc'[t] = pc[t] \/ pc[t] = "unlock"
                             \/ governor = "ondemand" /\ governor' = governor
                             \/ cpufreq_update_policy(t) /\ ~ overlaps(user_policy)
                        /\ pc'[t] = "in_target" => pc[t] = "in_target"
                   /\ \A c \in Callers : lockval'[c] = lockval[c] \/ pc'[c] = "update"
                   /\ \/ governor' = governor
                      \/ pc["user"] = "gov_start" /\ pc'["user"] \in {"target", "limits"}
<1>0. lockval \in [Callers -> 0 .. MAX_PERF_LEVEL]
  BY DEF CpuInv, SetTypes
<1>1. ASSUME NEW t \in Threads, cpufreq_update_policy(t) PROVE Goal
  <2>1. /\ \/ pc' = [pc EXCEPT ![t] = "limits"]
           \/ ~ overlaps(user_policy) /\ pc' = [pc EXCEPT ![t] = finished(t)]
        /\ UNCHANGED <<lockval, governor>>
    BY <1>1 DEF cpufreq_update_policy, goto
  <2> QED
    BY <1>1, <2>1
<1>2. ASSUME NEW t \in Threads, limits_performance(t) \/ limits_powersave(t) PROVE Goal
  <2>1. pc[t] = "limits" /\ pc' = [pc EXCEPT ![t] = "target"] /\ UNCHANGED <<lockval, governor>>
    BY <1>2 DEF limits_performance, limits_powersave, call, goto, settings
  <2> QED
    BY <2>1
<1>3. ASSUME NEW t \in Threads, limits_ondemand(t) PROVE Goal
  <2>1. /\ pc[t] = "limits" /\ \E q \in {"target", "unlock"} : pc' = [pc EXCEPT ![t] = q]
        /\ UNCHANGED <<lockval, governor>> /\ governor = "ondemand"
    BY <1>3 DEF limits_ondemand, call, goto, settings
  <2> QED
    BY <2>1
<1>4. ASSUME NEW t \in Threads, unlock(t) PROVE Goal
  <2>1. /\ pc[t] = "unlock" /\ \E q \in {"idle", "held"} : pc' = [pc EXCEPT ![t] = q]
        /\ UNCHANGED <<lockval, governor>>
    BY <1>4 DEF unlock, goto, settings
  <2> QED
    BY <2>1
<1>5. ASSUME NEW c \in Callers, unlock_dvfs(c) \/ \E l \in LockLevels : lock_dvfs(c, l)
      PROVE  Goal
  <2>1. /\ pc' = [pc EXCEPT ![c] = "update"] /\ governor' = governor
        /\ \E l : lockval' = [lockval EXCEPT ![c] = l]
    BY <1>5 DEF unlock_dvfs, lock_dvfs, goto
  <2> QED
    BY <1>0, <2>1
<1>6. CASE do_dbs_timer
  <2>1. pc' = [pc EXCEPT !["gov"] = "target"] /\ UNCHANGED <<lockval, governor>>
    BY <1>6 DEF do_dbs_timer, call, goto, settings
  <2> QED
    BY <2>1
<1>7. CASE handle_update
  BY <1>7 DEF handle_update, goto, settings
<1>8. ASSUME NEW o, NEW f, store_one(o, f) PROVE Goal
  <2>1. (pc' = pc \/ pc' = [pc EXCEPT !["user"] = "limits"]) /\ UNCHANGED <<lockval, governor>>
    BY <1>8 DEF store_one, goto
  <2> QED
    BY <2>1
<1>9. ASSUME NEW e, store_states_enabled_table(e) PROVE Goal
  BY <1>9 DEF store_states_enabled_table
<1>10. CASE store_scaling_governor
  BY <1>10 DEF store_scaling_governor, goto, settings
<1>11. CASE governor_start_fails \/ \E g \in Governors : governor_start(g)
  <2>1. /\ pc["user"] = "gov_start" /\ lockval' = lockval
        /\ \E q \in {"target", "limits"} : pc' = [pc EXCEPT !["user"] = q]
    BY <1>11, GovernorStarts DEF call, goto
  <2> QED
    BY <2>1
<1>110. CASE governor_stop \/ attr_leave \/ \E file \in Files : attr_enter(file)
  BY <1>110, FilesMove DEF goto
<1>12. CASE pm_suspend_prepare \/ pmStep
  <2>1. /\ \E q \in {"target", "prepared", "post", "frozen", "update"} : pc' = [pc EXCEPT !["pm"] = q]
        /\ UNCHANGED <<lockval, governor>>
    BY <1>12 DEF pm_suspend_prepare, pmStep, pm_suspend_prepared, suspend_freeze_processes,
       suspend_devices_and_enter, pm_post_suspend, pm_post_update, call, goto, settings
  <2> QED
    BY <2>1
<1>13. Goal
  BY <1>1, <1>2, <1>3, <1>4, <1>5, <1>6, <1>7, <1>8, <1>9, <1>10, <1>11, <1>110, <1>12
     DEF OtherStep
<1> QED
  BY <1>13

-----------------------------------------------------------------------------
(* The user's range.                                                       *)
clamp(x) == within(x, lowest, highest)

(* A clamped frequency stays on its side of the table's frequencies.       *)
LEMMA Clamped ==
  ASSUME NEW x \in Nat
  PROVE  /\ clamp(x) \in Nat /\ lowest <= clamp(x) /\ clamp(x) <= highest
         /\ clamp(clamp(x)) = clamp(x)
         /\ \A f \in Speeds : (x <= f => clamp(x) <= f) /\ (f <= x => f <= clamp(x))
         /\ lowest <= x /\ x <= highest => clamp(x) = x
<1>1. /\ lowest \in Nat /\ highest \in Nat /\ lowest <= highest
      /\ \A f \in Speeds : f \in Nat /\ lowest <= f /\ f <= highest
  BY SpeedBounds
<1> QED
  BY <1>1 DEF clamp, within

(* A range with a frequency of the table in it is only clamped.            *)
LEMMA VerifyClamps ==
  ASSUME NEW p \in Ranges, NEW f \in Speeds, p.min <= f, f <= p.max
  PROVE  cpufreq_frequency_table_verify(p) = [min |-> clamp(p.min), max |-> clamp(p.max)]
<1> DEFINE q == cpufreq_verify_within_limits(p)
<1>1. p.min \in Nat /\ p.max \in Nat /\ f \in Nat
  BY SpeedBounds DEF Ranges
<1>2. clamp(p.min) <= f /\ f <= clamp(p.max) /\ clamp(p.min) \in Nat /\ clamp(p.max) \in Nat
  BY <1>1, Clamped
<1>3. q = [min |-> IF clamp(p.min) > clamp(p.max) THEN clamp(p.max) ELSE clamp(p.min),
           max |-> clamp(p.max)]
  BY DEF cpufreq_verify_within_limits, clamp, lowest, highest
<1>4. q = [min |-> clamp(p.min), max |-> clamp(p.max)]
  BY <1>1, <1>2, <1>3
<1> HIDE DEF q
<1>5. q.min <= f /\ f <= q.max
  BY <1>2, <1>4
<1>6. cpufreq_frequency_table_verify(p) = q
  BY <1>5 DEF cpufreq_frequency_table_verify, q
<1> QED
  BY <1>4, <1>6

(* SLEEP_FREQ is a frequency of the table.                                 *)
LEMMA SleepSpeed ==
  SLEEP_FREQ \in Speeds /\ SLEEP_FREQ \in Nat /\ lowest <= SLEEP_FREQ /\ SLEEP_FREQ <= highest
BY SpeedBounds, CpuFreqAssumption DEF Speeds

(* All the ranges have a frequency in common.                              *)
LEMMA CommonSpeed ==
  ASSUME Configured, CpuInv
  PROVE  \E f \in Common : f \in Speeds /\ f \in Nat
<1>1. enabled_freqs \in EnabledSets
  BY DEF CpuInv, SetTypes
<1>2. PICK l \in enabled_freqs : freq_table[l] \in Common
  BY <1>1 DEF Configured
<1> QED
  BY <1>2, SpeedBounds DEF Common

(* The user's range is one of the table's, and overlaps the policy's       *)
(* unless SLEEP_FREQ has been forced and is not in it.                     *)
LEMMA UserRange ==
  ASSUME Configured, CpuInv, PolicyInv
  PROVE  /\ cpufreq_frequency_table_verify(user_policy) = user_policy
         /\ Restored /\ ~ range_lost => overlaps(user_policy)
         /\ user_policy.min <= SLEEP_FREQ /\ SLEEP_FREQ <= user_policy.max => overlaps(user_policy)
<1>1. /\ user_policy \in Ranges /\ user_policy.min \in Nat /\ user_policy.max \in Nat
      /\ policy \in Ranges /\ policy.min \in Nat /\ policy.max \in Nat
  BY DEF CpuInv, SetTypes, Ranges
<1>2. PICK f \in Common : f \in Speeds /\ f \in Nat
  BY CommonSpeed
<1>3. user_policy.min <= f /\ f <= user_policy.max
  BY DEF PolicyInv
<1>4. cpufreq_frequency_table_verify(user_policy)
        = [min |-> clamp(user_policy.min), max |-> clamp(user_policy.max)]
  BY <1>1, <1>2, <1>3, VerifyClamps
<1>5. clamp(user_policy.min) = user_policy.min /\ clamp(user_policy.max) = user_policy.max
  BY <1>1, Clamped DEF PolicyInv
<1>6. user_policy = [min |-> user_policy.min, max |-> user_policy.max]
  BY <1>1 DEF Ranges
<1>7. Restored /\ ~ range_lost => overlaps(user_policy)
  BY <1>1, <1>2, <1>3 DEF PolicyInv, overlaps
<1>8. user_policy.min <= SLEEP_FREQ /\ SLEEP_FREQ <= user_policy.max => overlaps(user_policy)
  BY <1>1, <1>2, <1>3, SleepSpeed DEF PolicyInv, overlaps
<1> QED
  BY <1>4, <1>5, <1>6, <1>7, <1>8

(* Some enabled level is in the user's range.                              *)
LEMMA LevelFound ==
  ASSUME Configured, CpuInv, PolicyInv, policy = user_policy, NEW f \in Nat, NEW r
  PROVE  cpufreq_frequency_table_target(policy, f, r) # NUM_FREQ
<1>1. enabled_freqs \in EnabledSets /\ enabled_freqs \in SUBSET Levels /\ policy \in Ranges
  BY CpuFreqAssumption DEF CpuInv, SetTypes
<1>2. PICK l \in enabled_freqs : freq_table[l] \in Common
  BY <1>1 DEF Configured
<1>3. Fits(l, policy)
  BY <1>2 DEF Fits, PolicyInv
<1> QED
  BY <1>1, <1>3, TableTarget

(* Only the suspend thread's evaluation of the policy changes range_lost.  *)
LEMMA RangeLostStep ==
  ASSUME Next
  PROVE  \/ range_lost' = range_lost
         \/ cpufreq_update_policy("pm") /\ range_lost' = ~ overlaps(user_policy)
<1>1. CASE targetStep
  BY <1>1 DEF targetStep, target_fails, target_arm_up, target_int_up, target_clock,
     target_int_down, target_arm_down, target_out, settings
<1>2. CASE \E t \in Threads : s5pv210_cpufreq_target(t)
  BY <1>2 DEF s5pv210_cpufreq_target, settings
<1>3. CASE OtherStep
  <2>1. CASE \E t \in Threads : cpufreq_update_policy(t)
    BY <2>1 DEF cpufreq_update_policy
  <2>2. CASE ~ \E t \in Threads : cpufreq_update_policy(t)
    BY <1>3, <2>2, OtherActions DEF limits_performance, limits_powersave,
       limits_ondemand, unlock, unlock_dvfs, lock_dvfs, do_dbs_timer, handle_update, store_one,
       store_states_enabled_table, store_scaling_governor, governor_stop, governor_start,
       governor_start_fails, attr_enter, attr_leave, pm_suspend_prepare, pm_suspend_prepared,
       suspend_freeze_processes, suspend_devices_and_enter, pm_post_suspend, pm_post_update,
       settings
  <2> QED
    BY <2>1, <2>2
<1> QED
  BY <1>1, <1>2, <1>3, NextActions

(* What a write to scaling_min_freq or scaling_max_freq does to a range.   *)
LEMMA RangeWritten ==
  ASSUME NEW r \in Ranges, NEW v \in Nat
  PROVE  /\ [r EXCEPT !["min"] = v] = [min |-> v, max |-> r.max]
         /\ [r EXCEPT !["max"] = v] = [min |-> r.min, max |-> v]
<1>1. [r EXCEPT !["min"] = v] = [min |-> v, max |-> r.max]
  <2> DEFINE e == [r EXCEPT !["min"] = v]
  <2>1. e \in Ranges /\ e["min"] = v /\ e["max"] = r["max"]
    BY DEF Ranges
  <2>2. e.min = v /\ e.max = r.max
    BY <2>1
  <2> HIDE DEF e
  <2>3. e = [min |-> e.min, max |-> e.max]
    BY <2>1 DEF Ranges
  <2>4. e = [min |-> v, max |-> r.max]
    BY <2>2, <2>3
  <2> QED
    BY <2>4 DEF e
<1>2. [r EXCEPT !["max"] = v] = [min |-> r.min, max |-> v]
  <2> DEFINE e == [r EXCEPT !["max"] = v]
  <2>1. e \in Ranges /\ e["max"] = v /\ e["min"] = r["min"]
    BY DEF Ranges
  <2>2. e.max = v /\ e.min = r.min
    BY <2>1
  <2> HIDE DEF e
  <2>3. e = [min |-> e.min, max |-> e.max]
    BY <2>1 DEF Ranges
  <2>4. e = [min |-> r.min, max |-> v]
    BY <2>2, <2>3
  <2> QED
    BY <2>4 DEF e
<1> QED
  BY <1>1, <1>2

(* A write to scaling_min_freq: refused only while SLEEP_FREQ is forced    *)
(* and slower, and then the user's end is the policy's.                    *)
LEMMA MinWritten ==
  ASSUME Configured, CpuInv, PolicyInv, NEW f \in UserMins, store_one("min", f),
         Restored' => Restored
  PROVE  PolicyInv'
<1>0. /\ user_policy \in Ranges /\ user_policy.min \in Nat /\ user_policy.max \in Nat
      /\ policy \in Ranges /\ policy.min \in Nat /\ policy.max \in Nat /\ f \in Nat
      /\ lowest <= policy.min /\ policy.max <= highest /\ policy.min <= policy.max
      /\ lowest \in Nat /\ highest \in Nat
  BY SpeedBounds, WritesAssumption DEF CpuInv, SetTypes, Ranges
<1>1. PICK g \in Common : g \in Speeds /\ g \in Nat
  BY CommonSpeed
<1>2. /\ \A h \in Common : h \in Nat /\ h \in Speeds /\ f <= h
      /\ \A h \in Common : user_policy.min <= h /\ h <= user_policy.max
  BY SpeedBounds DEF Common, PolicyInv
<1> DEFINE new == [policy EXCEPT !["min"] = f]
<1>3. new = [min |-> f, max |-> policy.max] /\ new \in Ranges /\ new.min = f /\ new.max = policy.max
  BY <1>0, RangeWritten DEF Ranges
<1> HIDE DEF new
<1>4. /\ IF overlaps(new) THEN policy' = cpufreq_frequency_table_verify(new) ELSE policy' = policy
      /\ user_policy' = [user_policy EXCEPT !["min"] = policy'["min"]] /\ range_lost' = range_lost
  BY DEF store_one, new
<1>5. CASE ~ overlaps(new)
  <2>1. policy.max < f
    BY <1>0, <1>3, <1>5 DEF overlaps
  <2>2. policy.max = SLEEP_FREQ
    BY <1>0, <1>1, <1>2, <2>1 DEF PolicyInv
  <2>3. policy' = policy /\ user_policy' = [min |-> policy.min, max |-> user_policy.max]
    <3>1. policy' = policy /\ policy'["min"] = policy.min
      BY <1>4, <1>5
    <3> QED
      BY <1>0, <1>4, <3>1, RangeWritten
  <2>4. user_policy'.min = policy.min /\ user_policy'.max = user_policy.max
    BY <2>3
  <2>5. \A h \in Common : user_policy'.min <= h /\ h <= user_policy'.max
    BY <1>0, <1>2, <2>1, <2>4
  <2>6. ~ (Restored /\ ~ range_lost)
    BY <1>0, <1>1, <1>2, <2>1 DEF PolicyInv
  <2>7. lowest <= user_policy'.min /\ user_policy'.min <= highest
    BY <1>0, <2>4
  <2> QED
    BY <1>4, <2>2, <2>3, <2>4, <2>5, <2>6, <2>7 DEF PolicyInv
<1>6. CASE overlaps(new)
  <2>1. \E h \in Speeds : new.min <= h /\ h <= new.max
    <3>1. f <= policy.max
      BY <1>3, <1>6 DEF overlaps
    <3>2. CASE policy.max = SLEEP_FREQ
      BY <1>3, <3>1, <3>2, SleepSpeed
    <3>3. CASE policy.max = user_policy.max
      BY <1>1, <1>2, <1>3, <3>3
    <3> QED
      BY <3>2, <3>3 DEF PolicyInv
  <2>2. cpufreq_frequency_table_verify(new) = [min |-> clamp(f), max |-> clamp(policy.max)]
    BY <1>3, <2>1, VerifyClamps
  <2>3. /\ clamp(f) \in Nat /\ lowest <= clamp(f) /\ clamp(f) <= highest
        /\ clamp(policy.max) = policy.max
        /\ \A h \in Speeds : f <= h => clamp(f) <= h
    BY <1>0, Clamped
  <2>4. policy' = [min |-> clamp(f), max |-> policy.max]
    BY <1>4, <1>6, <2>2, <2>3
  <2>5. user_policy' = [min |-> clamp(f), max |-> user_policy.max]
    <3>1. policy'["min"] = clamp(f)
      BY <2>4
    <3> QED
      BY <1>0, <1>4, <2>3, <3>1, RangeWritten
  <2>6. /\ user_policy'.min = clamp(f) /\ user_policy'.max = user_policy.max
        /\ policy'.min = clamp(f) /\ policy'.max = policy.max
    BY <2>4, <2>5
  <2>7. \A h \in Common : user_policy'.min <= h /\ h <= user_policy'.max
    BY <1>2, <2>3, <2>6
  <2>8. Restored /\ ~ range_lost => policy' = user_policy'
    BY <2>4, <2>5 DEF PolicyInv
  <2> QED
    BY <1>4, <2>3, <2>6, <2>7, <2>8 DEF PolicyInv
<1> QED
  BY <1>5, <1>6

(* A write to scaling_max_freq, likewise.                                  *)
LEMMA MaxWritten ==
  ASSUME Configured, CpuInv, PolicyInv, NEW f \in UserMaxs, store_one("max", f),
         Restored' => Restored
  PROVE  PolicyInv'
<1>0. /\ user_policy \in Ranges /\ user_policy.min \in Nat /\ user_policy.max \in Nat
      /\ policy \in Ranges /\ policy.min \in Nat /\ policy.max \in Nat /\ f \in Nat
      /\ lowest <= policy.min /\ policy.max <= highest /\ policy.min <= policy.max
      /\ lowest \in Nat /\ highest \in Nat
  BY SpeedBounds, WritesAssumption DEF CpuInv, SetTypes, Ranges
<1>1. PICK g \in Common : g \in Speeds /\ g \in Nat
  BY CommonSpeed
<1>2. /\ \A h \in Common : h \in Nat /\ h \in Speeds /\ h <= f
      /\ \A h \in Common : user_policy.min <= h /\ h <= user_policy.max
  BY SpeedBounds DEF Common, PolicyInv
<1> DEFINE new == [policy EXCEPT !["max"] = f]
<1>3. new = [min |-> policy.min, max |-> f] /\ new \in Ranges /\ new.min = policy.min /\ new.max = f
  BY <1>0, RangeWritten DEF Ranges
<1> HIDE DEF new
<1>4. /\ IF overlaps(new) THEN policy' = cpufreq_frequency_table_verify(new) ELSE policy' = policy
      /\ user_policy' = [user_policy EXCEPT !["max"] = policy'["max"]] /\ range_lost' = range_lost
  BY DEF store_one, new
<1>5. CASE ~ overlaps(new)
  <2>1. f < policy.min
    BY <1>0, <1>3, <1>5 DEF overlaps
  <2>2. policy.min = SLEEP_FREQ
    BY <1>0, <1>1, <1>2, <2>1 DEF PolicyInv
  <2>3. policy' = policy /\ user_policy' = [min |-> user_policy.min, max |-> policy.max]
    <3>1. policy' = policy /\ policy'["max"] = policy.max
      BY <1>4, <1>5
    <3> QED
      BY <1>0, <1>4, <3>1, RangeWritten
  <2>4. user_policy'.max = policy.max /\ user_policy'.min = user_policy.min
    BY <2>3
  <2>5. \A h \in Common : user_policy'.min <= h /\ h <= user_policy'.max
    BY <1>0, <1>2, <2>1, <2>4
  <2>6. ~ (Restored /\ ~ range_lost)
    BY <1>0, <1>1, <1>2, <2>1 DEF PolicyInv
  <2>7. lowest <= user_policy'.max /\ user_policy'.max <= highest
    BY <1>0, <2>4
  <2> QED
    BY <1>4, <2>2, <2>3, <2>4, <2>5, <2>6, <2>7 DEF PolicyInv
<1>6. CASE overlaps(new)
  <2>1. \E h \in Speeds : new.min <= h /\ h <= new.max
    <3>1. policy.min <= f
      BY <1>0, <1>3, <1>6 DEF overlaps
    <3>2. CASE policy.min = SLEEP_FREQ
      BY <1>3, <3>1, <3>2, SleepSpeed
    <3>3. CASE policy.min = user_policy.min
      BY <1>1, <1>2, <1>3, <3>3
    <3> QED
      BY <3>2, <3>3 DEF PolicyInv
  <2>2. cpufreq_frequency_table_verify(new) = [min |-> clamp(policy.min), max |-> clamp(f)]
    BY <1>3, <2>1, VerifyClamps
  <2>3. /\ clamp(f) \in Nat /\ lowest <= clamp(f) /\ clamp(f) <= highest
        /\ clamp(policy.min) = policy.min
        /\ \A h \in Speeds : h <= f => h <= clamp(f)
    BY <1>0, Clamped
  <2>4. policy' = [min |-> policy.min, max |-> clamp(f)]
    BY <1>4, <1>6, <2>2, <2>3
  <2>5. user_policy' = [min |-> user_policy.min, max |-> clamp(f)]
    <3>1. policy'["max"] = clamp(f)
      BY <2>4
    <3> QED
      BY <1>0, <1>4, <2>3, <3>1, RangeWritten
  <2>6. /\ user_policy'.max = clamp(f) /\ user_policy'.min = user_policy.min
        /\ policy'.max = clamp(f) /\ policy'.min = policy.min
    BY <2>4, <2>5
  <2>7. \A h \in Common : user_policy'.min <= h /\ h <= user_policy'.max
    BY <1>2, <2>3, <2>6
  <2>8. Restored /\ ~ range_lost => policy' = user_policy'
    BY <2>4, <2>5 DEF PolicyInv
  <2> QED
    BY <1>4, <2>3, <2>6, <2>7, <2>8 DEF PolicyInv
<1> QED
  BY <1>5, <1>6

(* The ranges, step by step: a write changes both, a transition and the    *)
(* end of one only the policy's.                                           *)
LEMMA PolicyStep ==
  ASSUME Configured, CpuInv, MarkInv, PolicyInv, Next
  PROVE  PolicyInv'
<1> USE ThreadFacts DEF asks
(* A step that leaves the ranges alone.                                    *)
<1>1. ASSUME UNCHANGED <<policy, user_policy, range_lost>>, Restored' => Restored
      PROVE  PolicyInv'
  BY <1>1 DEF PolicyInv
<1>2. CASE targetStep
  <2>1. UNCHANGED <<policy, user_policy, range_lost>>
    BY <1>2, TargetMoves DEF settings
  <2>2. tgt.by \in Threads /\ pc[tgt.by] = "in_target"
        /\ \/ UNCHANGED <<pc, want>>
           \/ \E q \in {want[tgt.by].ok, want[tgt.by].err} :
                pc' = [pc EXCEPT ![tgt.by] = q] /\ want' = [want EXCEPT ![tgt.by] = noWant]
    BY <1>2, TargetMoves DEF return, goto
  <2>3. Restored' => Restored
    BY <2>2 DEF Restored, MarkInv, Calling
  <2> QED
    BY <1>1, <2>1, <2>3
<1>3. ASSUME NEW u \in Threads, s5pv210_cpufreq_target(u) PROVE PolicyInv'
  <2>1. UNCHANGED <<policy, user_policy, range_lost>>
    BY <1>3 DEF s5pv210_cpufreq_target, settings
  <2>2. /\ pc[u] = "target"
        /\ \/ pc' = [pc EXCEPT ![u] = "in_target"] /\ want' = want
           \/ \E q \in {want[u].ok, want[u].err} :
                pc' = [pc EXCEPT ![u] = q] /\ want' = [want EXCEPT ![u] = noWant]
    BY <1>3 DEF s5pv210_cpufreq_target, return, goto
  <2>3. Restored' => Restored
    BY <2>2 DEF Restored, MarkInv, Calling
  <2> QED
    BY <1>1, <2>1, <2>3
<1>4. ASSUME NEW t \in Threads, cpufreq_update_policy(t) PROVE PolicyInv'
  <2>1. CASE overlaps(user_policy)
    <3>1. policy' = user_policy /\ user_policy' = user_policy
      BY <1>4, <2>1, UserRange DEF cpufreq_update_policy
    <3> QED
      BY <3>1 DEF PolicyInv
  <2>2. CASE ~ overlaps(user_policy) /\ t = "pm"
    <3>1. UNCHANGED <<policy, user_policy>> /\ range_lost' = TRUE
      BY <1>4, <2>2 DEF cpufreq_update_policy
    <3> QED
      BY <3>1 DEF PolicyInv
  <2>3. CASE ~ overlaps(user_policy) /\ t # "pm"
    <3>1. /\ UNCHANGED <<policy, user_policy, range_lost, want>>
          /\ pc' = [pc EXCEPT ![t] = finished(t)]
      BY <1>4, <2>3 DEF cpufreq_update_policy, goto
    <3>2. Restored' => Restored
      BY <2>3, <3>1 DEF Restored
    <3> QED
      BY <1>1, <3>1, <3>2
  <2> QED
    BY <2>1, <2>2, <2>3
<1>5. ASSUME NEW o, NEW f, store_one(o, f) PROVE Restored' => Restored
  <2>1. want' = want /\ (pc' = pc \/ pc' = [pc EXCEPT !["user"] = "limits"])
    BY <1>5 DEF store_one, goto
  <2> QED
    BY <2>1 DEF Restored
<1>6. ASSUME NEW f \in UserMins, store_one("min", f) PROVE PolicyInv'
  BY <1>5, <1>6, MinWritten
<1>7. ASSUME NEW f \in UserMaxs, store_one("max", f) PROVE PolicyInv'
  BY <1>5, <1>7, MaxWritten
<1>8. CASE pm_suspend_prepare
  <2>1. /\ policy' = [min |-> SLEEP_FREQ, max |-> SLEEP_FREQ] /\ user_policy' = user_policy
        /\ pc'["pm"] = "target" /\ want'["pm"].mark = "disable"
    BY <1>8 DEF pm_suspend_prepare, call, goto
  <2>2. ~ Restored'
    BY <2>1 DEF Restored, Calling
  <2> QED
    BY <2>1, <2>2 DEF PolicyInv
<1>9. ASSUME OtherStep, ~ pm_suspend_prepare, UNCHANGED <<policy, user_policy, range_lost>>,
             \A t \in Threads : ~ cpufreq_update_policy(t)
      PROVE  PolicyInv'
  <2>1. pm_suspend_prepared \/ suspend_freeze_processes \/ suspend_devices_and_enter
          \/ pm_post_suspend \/ pm_post_update => ~ Restored'
    <3>1. pm_post_suspend => pc'["pm"] = "target" /\ want'["pm"].mark = "enable"
      BY DEF pm_post_suspend, call, goto
    <3>2. pm_suspend_prepared \/ suspend_freeze_processes \/ suspend_devices_and_enter
            \/ pm_post_update => pc'["pm"] \in {"prepared", "frozen", "post", "update"}
      BY DEF pm_suspend_prepared, suspend_freeze_processes, suspend_devices_and_enter,
         pm_post_update, goto
    <3> QED
      BY <3>1, <3>2 DEF Restored, Calling
  <2>2. PmStays => (Restored' => Restored)
    BY DEF PmStays, Restored
  <2>3. pc["pm"] = "limits" \/ pc["pm"] = "unlock" => Restored
    BY DEF Restored
  <2>4. Restored' => Restored
    BY <1>9, <2>1, <2>2, <2>3, PmOther
  <2> QED
    BY <1>1, <1>9, <2>4
<1>10. CASE OtherStep
  <2>1. \/ \E t \in Threads : cpufreq_update_policy(t)
        \/ (\E f \in UserMins : store_one("min", f)) \/ (\E f \in UserMaxs : store_one("max", f))
        \/ pm_suspend_prepare \/ UNCHANGED <<policy, user_policy, range_lost>>
    BY <1>10, OtherActions DEF limits_performance, limits_powersave, limits_ondemand, unlock,
       unlock_dvfs, lock_dvfs, do_dbs_timer, handle_update, store_states_enabled_table,
       store_scaling_governor, governor_stop, governor_start, governor_start_fails, attr_enter,
       attr_leave, pm_suspend_prepared, suspend_freeze_processes, suspend_devices_and_enter,
       pm_post_suspend, pm_post_update, settings
  <2> QED
    BY <1>4, <1>6, <1>7, <1>8, <1>9, <1>10, <2>1
<1> QED
  BY <1>2, <1>3, <1>10, NextActions

-----------------------------------------------------------------------------
(* The driver obeys the locks: an index it goes for, or finds set already, *)
(* is no slower than any lock asks.                                        *)
LEMMA DriverObeys ==
  ASSUME CpuInv, NEW t \in Threads, s5pv210_cpufreq_target(t), NEW c \in Callers, locked(c)
  PROVE  /\ pc[t] = "target" /\ tgt.by = NONE /\ UNCHANGED <<clk, faulty, lockval, governor>>
         /\ \/ /\ \/ ~ access_granted(want[t].mark)
                  \/ cpufreq_frequency_table_target(policy, want[t].freq, want[t].relation) = NUM_FREQ
               /\ pc' = [pc EXCEPT ![t] = want[t].err] /\ tgt' = tgt
            \/ pc' = [pc EXCEPT ![t] = want[t].ok] /\ tgt' = tgt /\ clk <= lockval[c]
            \/ pc' = [pc EXCEPT ![t] = "in_target"] /\ tgt'.by = t /\ tgt'.index <= lockval[c]
<1> DEFINE found == cpufreq_frequency_table_target(policy, want[t].freq, want[t].relation)
           index == dvfs_limit(found)
<1>1. /\ pc[t] = "target" /\ tgt.by = NONE /\ UNCHANGED <<hw, settings>>
      /\ \/ /\ ~ access_granted(want[t].mark) \/ found = NUM_FREQ
            /\ return(t, want[t].err) /\ tgt' = tgt
         \/ found \in Levels /\ index = clk /\ return(t, want[t].ok) /\ tgt' = tgt
         \/ /\ found \in Levels /\ goto(t, "in_target") /\ tgt'.by = t /\ tgt'.index = index
  BY DriverChoice DEF CpuInv
<1>2. found \in Levels => index <= lockval[c]
  BY LimitObeyed DEF CpuInv, SetTypes, locked
<1> QED
  BY <1>1, <1>2 DEF hw, settings, return, goto

(* A call that returns with the suspend thread out of the way and the      *)
(* user's range in place has not failed, but for a regulator.              *)
LEMMA NotRefused ==
  ASSUME Configured, CpuInv, MarkInv, AccessInv, PolicyInv, Restored,
         ~ range_lost, NEW t \in Threads, pc[t] = "target"
  PROVE  /\ access_granted(want[t].mark)
         /\ cpufreq_frequency_table_target(policy, want[t].freq, want[t].relation) # NUM_FREQ
<1>1. ~ no_cpufreq_access
  BY DEF AccessInv, Restored, Calling, asks
<1>2. policy = user_policy /\ want[t].freq \in Nat
  BY DEF PolicyInv, CpuInv, SetTypes
<1> QED
  BY <1>1, <1>2, LevelFound DEF access_granted

(* What a lock promises, step by step.                                     *)
LEMMA LimitStep ==
  ASSUME Configured, CpuInv, HoldsRwsem, GovInv, MarkInv, AccessInv, PolicyInv, OwnerInv,
         LimitInv, Next
  PROVE  LimitInv'
<1> USE ThreadFacts
<1> DEFINE Quiet == /\ pc["pm"] \in {"idle", "unlock"} /\ pc["user"] \in {"idle", "unlock"}
                    /\ ~ range_lost
<1> SUFFICES ASSUME NEW c \in Callers, locked(c)'
             PROVE  /\ pc'[c] = "in_target" => TgtLimit(c)'
                    /\ pc'[c] \in {"held", "unlock"} /\ governor' # "ondemand" =>
                         /\ TgtLimit(c)'
                         /\ ~ faulty' /\ Quiet' => clk' <= lockval'[c]
  BY DEF LimitInv
<1>0. /\ InTarget /\ \A t \in Threads : pc[t] \in Calling => want[t].ok \in Labels /\ want[t].err \in Labels
      /\ pc["pm"] \in Calling /\ want["pm"].err = "unlock" => asks("pm") = "none"
  BY DEF CpuInv, LockInv, Returns, MarkInv
<1>1. CASE targetStep
  <2>1. /\ UNCHANGED <<lockval, governor, faulty, range_lost>> /\ tgt.by \in Threads
        /\ pc[tgt.by] = "in_target" /\ locked(c)
    BY <1>1, TargetMoves DEF settings, locked
  <2>2. /\ pc[c] = "in_target" => tgt.by = c
        /\ pc[c] = "in_target" => tgt.index <= lockval[c]
        /\ pc[c] \in {"held", "unlock"} /\ governor # "ondemand" => tgt.index <= lockval[c]
    BY <1>0, <2>1 DEF LimitInv, TgtLimit, InTarget
  <2>3. CASE UNCHANGED <<pc, want>> /\ tgt'.by = tgt.by /\ tgt'.index = tgt.index
             /\ (clk' = clk \/ clk' = tgt.index)
    BY <2>1, <2>2, <2>3 DEF LimitInv, TgtLimit
  <2>4. CASE tgt' = idleTgt /\ clk' = clk /\ \E q \in {want[tgt.by].ok, want[tgt.by].err} :
               return(tgt.by, q) /\ (faulty \/ clk = tgt.index)
    <3>1. PICK q \in Labels : pc' = [pc EXCEPT ![tgt.by] = q] /\ (faulty \/ clk = tgt.index)
      <4>1. want[tgt.by].ok \in Labels /\ want[tgt.by].err \in Labels
        BY <1>0, <2>1 DEF Calling
      <4>2. PICK q \in Labels : return(tgt.by, q) /\ (faulty \/ clk = tgt.index)
        BY <2>4, <4>1
      <4> QED
        BY <4>2 DEF return, goto
    <3>2. ~ TgtLimit(c)' => FALSE
      BY <2>4 DEF TgtLimit, idleTgt
    <3>3. pc'[c] \in {"held", "unlock"} => pc[c] \in {"held", "unlock", "in_target"}
      BY <2>1, <3>1
    <3> QED
      BY <2>1, <2>2, <2>4, <3>1, <3>2, <3>3
  <2> QED
    BY <1>1, <2>3, <2>4, TargetMoves
<1>2. ASSUME NEW t \in Threads, s5pv210_cpufreq_target(t)
      PROVE  /\ pc'[c] = "in_target" => TgtLimit(c)'
             /\ pc'[c] \in {"held", "unlock"} /\ governor' # "ondemand" =>
                  /\ TgtLimit(c)'
                  /\ ~ faulty' /\ Quiet' => clk' <= lockval'[c]
  <2>1. lockval' = lockval /\ locked(c) /\ range_lost' = range_lost
    BY <1>2 DEF s5pv210_cpufreq_target, settings, locked
  <2>2. /\ pc[t] = "target" /\ tgt.by = NONE /\ UNCHANGED <<clk, faulty, lockval, governor>>
    BY <1>2, <2>1, DriverObeys
  <2>3. CASE pc' = [pc EXCEPT ![t] = want[t].ok] /\ tgt' = tgt /\ clk <= lockval[c]
    BY <2>2, <2>3 DEF TgtLimit
  <2>4. CASE pc' = [pc EXCEPT ![t] = "in_target"] /\ tgt'.by = t /\ tgt'.index <= lockval[c]
    <3>1. TgtLimit(c)'
      BY <2>2, <2>4 DEF TgtLimit
    <3>2. pc'[c] \in {"held", "unlock"} => pc[c] = pc'[c]
      BY <2>4
    <3>3. Quiet' => Quiet
      BY <2>1, <2>4
    <3> QED
      BY <2>1, <2>2, <3>1, <3>2, <3>3 DEF LimitInv
  <2>5. CASE /\ \/ ~ access_granted(want[t].mark)
                \/ cpufreq_frequency_table_target(policy, want[t].freq, want[t].relation) = NUM_FREQ
             /\ pc' = [pc EXCEPT ![t] = want[t].err] /\ tgt' = tgt
    <3>1. TgtLimit(c)'
      BY <2>2, <2>5 DEF TgtLimit
    <3>2. Quiet' => Restored /\ ~ range_lost
      BY <1>0, <2>1, <2>2, <2>5 DEF Restored, Calling, Labels
    <3>3. ~ Quiet'
      BY <2>2, <2>5, <3>2, NotRefused
    <3> QED
      BY <3>1, <3>3
  <2> QED
    BY <1>2, <2>1, <2>3, <2>4, <2>5, DriverObeys
<1>3. CASE OtherStep
  <2>1. UNCHANGED <<clk, faulty, tgt>>
    BY <1>3, OtherFrame DEF hw
  <2>2. CASE pc'[c] = "update"
    BY <2>2
  <2>3. CASE lockval'[c] = lockval[c]
    <3>1. locked(c) /\ TgtLimit(c)' = TgtLimit(c)
      BY <2>1, <2>3 DEF locked, TgtLimit
    <3>2. pc'[c] = "in_target" => TgtLimit(c)'
      BY <1>3, <3>1, OtherGoes DEF LimitInv
    (* With rwsem free, or the user's, nobody is in the driver.            *)
    <3>3. ASSUME pc["gov"] = "idle", rwsem = NONE \/ (rwsem = "user" /\ pc["user"] # "in_target")
          PROVE  TgtLimit(c)'
      <4>1. SUFFICES ASSUME tgt.by \in Threads PROVE FALSE
        BY <3>1 DEF CpuInv, LockInv, ThreadTypes, TgtLimit
      <4>2. pc[tgt.by] = "in_target"
        BY <1>0, <4>1 DEF InTarget
      <4> QED
        BY <3>3, <4>1, <4>2 DEF HoldsRwsem, Under, Calling
    <3>4. CASE /\ pc'[c] \in {"held", "unlock"} /\ governor' # "ondemand" /\ governor' = governor
               /\ \E t \in Threads : cpufreq_update_policy(t) /\ ~ overlaps(user_policy)
      <4>1. PICK t \in Threads : cpufreq_update_policy(t) /\ ~ overlaps(user_policy)
        BY <3>4
      <4>2. rwsem = NONE /\ pc' = [pc EXCEPT ![t] = finished(t)]
            /\ range_lost' = IF t = "pm" THEN TRUE ELSE range_lost
        BY <4>1 DEF cpufreq_update_policy, goto
      <4>3. TgtLimit(c)'
        BY <3>3, <3>4, <4>2 DEF GovInv
      <4>4. ~ Quiet'
        <5>1. SUFFICES ASSUME Quiet' PROVE FALSE
          OBVIOUS
        <5>2. t # "pm" /\ ~ range_lost /\ pc["pm"] \in {"idle", "unlock"}
          BY <4>2, <5>1
        <5>3. Restored
          BY <5>2 DEF Restored
        <5> QED
          BY <4>1, <5>2, <5>3, UserRange
      <4> QED
        BY <3>2, <4>3, <4>4
    <3>5. CASE /\ pc'[c] \in {"held", "unlock"} /\ governor' # "ondemand" /\ governor' = governor
               /\ ~ \E t \in Threads : cpufreq_update_policy(t) /\ ~ overlaps(user_policy)
      <4>1. pc[c] \in {"held", "unlock"}
        BY <1>3, <3>5, OtherGoes
      <4>2. Quiet' => pc["pm"] \in {"idle", "unlock"} /\ pc["user"] \in {"idle", "unlock"}
        BY <1>3, <3>5, OtherGoes
      <4>3. Quiet' => range_lost' = range_lost
        <5>1. cpufreq_update_policy("pm") => pc'["pm"] = "limits"
          BY <3>5 DEF cpufreq_update_policy, goto
        <5> QED
          BY <5>1, RangeLostStep
      <4> QED
        BY <2>1, <2>3, <3>1, <3>2, <3>5, <4>1, <4>2, <4>3 DEF LimitInv
    <3>6. CASE governor' # governor
      <4>1. pc["user"] = "gov_start" /\ pc'["user"] \in {"target", "limits"}
        BY <1>3, <3>6, OtherGoes
      <4>2. rwsem = "user" /\ pc["gov"] = "idle"
        BY <4>1 DEF HoldsRwsem, Under, GovInv, Stopped, Stopping
      <4>3. TgtLimit(c)'
        BY <3>3, <4>1, <4>2
      <4> QED
        BY <4>1, <4>3
    <3> QED
      BY <3>2, <3>4, <3>5, <3>6
  <2> QED
    BY <1>3, <2>2, <2>3, OtherGoes
<1> QED
  BY <1>1, <1>2, <1>3, NextActions

-----------------------------------------------------------------------------
(* The inductive invariant of a phone that is configured as its board is.  *)
LEMMA InitConf == ASSUME Configured, Init PROVE ConfInv
<1> USE ThreadFacts, InitCpu DEF Init
<1>1. HoldsRwsem /\ GovInv /\ MarkInv /\ AccessInv /\ AsleepInv
  BY DEF HoldsRwsem, GovInv, Stopped, Stopping, MarkInv, AccessInv, AsleepInv, Under, Calling, Labels
<1>2. PolicyInv
  <2>1. policy = [min |-> lowest, max |-> highest] /\ user_policy = policy
    BY DEF lowest, highest
  <2>2. /\ lowest \in Nat /\ highest \in Nat /\ lowest <= highest
        /\ \A f \in Speeds : f \in Nat /\ lowest <= f /\ f <= highest
    BY SpeedBounds
  <2>3. policy \in Ranges /\ policy.min = lowest /\ policy.max = highest
    BY <2>1, <2>2 DEF Ranges
  <2> QED
    BY <2>1, <2>2, <2>3 DEF PolicyInv, Common
<1>3. OwnerInv /\ LimitInv
  <2>1. NUM_FREQ \in Nat
    BY CpuFreqAssumption
  <2>2. \A c \in Callers : lockval[c] = MAX_PERF_LEVEL /\ ~ locked(c) /\ pc[c] = "idle"
    BY <2>1 DEF locked, MAX_PERF_LEVEL
  <2> QED
    BY <2>2 DEF OwnerInv, LimitInv
<1> QED
  BY <1>1, <1>2, <1>3 DEF ConfInv

(* Every step keeps it.                                                    *)
LEMMA NextConf ==
  ASSUME Configured, CpuInv, ConfInv, [Next]_vars
  PROVE  ConfInv'
<1>1. CASE Next
  BY <1>1, RwsemStep, MarkStep, AccessStep, AsleepStep, PolicyStep, OwnerStep, LimitStep
     DEF ConfInv
<1>2. CASE UNCHANGED vars
  BY <1>2 DEF vars, hw, gate, settings, locks, ConfInv, HoldsRwsem, GovInv, Stopped, MarkInv,
     asks, AccessInv, AsleepInv, SleepSpeedIs, cur, PolicyInv, Restored, OwnerInv, locked,
     LimitInv, TgtLimit
<1> QED
  BY <1>1, <1>2

(* So it always holds, with the one for the locks and voltages.            *)
LEMMA ConfInvariant == Configured => (Spec => [](CpuInv /\ ConfInv))
<1> SUFFICES ASSUME Configured PROVE Spec => [](CpuInv /\ ConfInv)
  OBVIOUS
<1>1. Init => CpuInv /\ ConfInv
  BY InitCpu, InitConf
<1>2. CpuInv /\ ConfInv /\ [Next]_vars => (CpuInv /\ ConfInv)'
  BY NextCpu, NextConf
<1> QED
  BY <1>1, <1>2, PTL DEF Spec

(* A clock that covers every held DVFS lock and is covered by its          *)
(* voltages: after any sequence of calls, writes, samples and suspends, of *)
(* any number of owners, in a configuration whose ranges and tables have a *)
(* frequency in common (SLEEP_FREQ need not be in them), but for a failing *)
(* regulator, ondemand's next sample and a range lost at a resume.         *)
THEOREM ClockStaysFit == Configured => (Spec => []ClockFits)
<1> SUFFICES ASSUME Configured PROVE Spec => []ClockFits
  OBVIOUS
<1>1. CpuInv /\ ConfInv => LimitApplied
  BY DEF ConfInv, OwnerInv, LimitInv, LimitApplied
<1>2. Spec => [](TypeOK /\ VoltageCoversClock)
  BY VoltagesCover
<1>3. Spec => [](CpuInv /\ ConfInv)
  BY ConfInvariant
<1>4. TypeOK /\ VoltageCoversClock /\ LimitApplied => ClockFits
  BY DEF ClockFits
<1> QED
  BY <1>1, <1>2, <1>3, <1>4, PTL

(* Over a sleep the clock stays at SLEEP_FREQ, or above it exactly when a  *)
(* faster DVFS lock was held when it began, such as the L4 lock of         *)
(* kernel/power/main.c; afterwards access is back and so is the user's     *)
(* range, which only a range without SLEEP_FREQ can lose; whatever lock,   *)
(* governor or writer meets the suspend thread.                            *)
THEOREM SuspendKeepsTheClock == Configured => (Spec => []SuspendKeepsClock)
<1> SUFFICES ASSUME Configured PROVE Spec => []SuspendKeepsClock
  OBVIOUS
<1>1. CpuInv /\ ConfInv => SuspendKeepsClock
  <2> SUFFICES ASSUME CpuInv, ConfInv PROVE SuspendKeepsClock
    OBVIOUS
  <2>1. SleepFreqHeld /\ AccessRestored
    BY DEF ConfInv, AsleepInv, SleepSpeedIs, AccessInv, SleepFreqHeld, AccessRestored
  <2>2. PolicyInv /\ cpufreq_frequency_table_verify(user_policy) = user_policy
    BY UserRange DEF ConfInv
  <2>3. PolicyRestored
    BY <2>2 DEF PolicyInv, Restored, PolicyRestored
  <2>4. RangeLostForCause
    BY <2>2, UserRange DEF RangeLostForCause
  <2> QED
    BY <2>1, <2>3, <2>4 DEF SuspendKeepsClock
<1>2. Spec => [](CpuInv /\ ConfInv)
  BY ConfInvariant
<1> QED
  BY <1>1, <1>2, PTL
=============================================================================
