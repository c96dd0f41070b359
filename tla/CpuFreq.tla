------------------------------ MODULE CpuFreq ------------------------------
(***************************************************************************)
(* CPU frequency and voltage: the s5pv210 driver and its suspend notifier  *)
(* (arch/arm/mach-s5pv210/cpu-freq.c), the policy of the cpufreq core      *)
(* (drivers/cpufreq/cpufreq.c, freq_table.c), three governors, and the     *)
(* DVFS locks.  The table of their tokens is one variable: two owners'     *)
(* calls, which no mutex keeps apart, are taken not to meet in its loads   *)
(* and stores.                                                             *)
(*                                                                         *)
(* A level is an index of freq_table, 0 the fastest.  The locks are the    *)
(* policy's rwsem, ondemand's timer_mutex and the driver's set_freq_lock,  *)
(* always taken in that order, and ondemand's dbs_mutex; sysfs makes the   *)
(* removal of a file wait for the tasks that are in it.  policy->cur is    *)
(* the clock: both change in the step that writes the dividers and         *)
(* notifies POSTCHANGE.                                                    *)
(***************************************************************************)
EXTENDS Integers, FiniteSetsExt

CONSTANTS
  NUM_FREQ,
  freq_table,      \* level -> frequency, the fastest first
  arm_volt, int_volt,  \* dvs_conf: level -> voltage
  SLEEP_FREQ,
  Callers,         \* owners of DVFS locks
  LockLevels,      \* levels they ask for
  UserMins, UserMaxs,  \* written to scaling_min_freq and scaling_max_freq
  Governors,       \* governors written to scaling_governor
  EnabledSets,     \* tables written to states_enabled_table, as sets of levels
  RegulatorsFail,  \* whether regulator_set_voltage may fail: a subset of BOOLEAN
  NONE

Levels == 0..(NUM_FREQ - 1)
MAX_PERF_LEVEL == NUM_FREQ - 1
ASSUME CpuFreqAssumption ==
  /\ NUM_FREQ \in Nat \ {0}
  /\ freq_table \in [Levels -> Nat] /\ arm_volt \in [Levels -> Nat]
  /\ int_volt \in [Levels -> Nat]
  /\ \A k, l \in Levels : k < l => /\ freq_table[k] > freq_table[l]
                                   /\ arm_volt[k] >= arm_volt[l]
                                   /\ int_volt[k] >= int_volt[l]
  /\ SLEEP_FREQ \in {freq_table[l] : l \in Levels}
  /\ LockLevels \subseteq 0..(MAX_PERF_LEVEL - 1)
  /\ Governors # {} /\ Governors \subseteq {"performance", "powersave", "ondemand"}
  /\ EnabledSets \subseteq SUBSET Levels /\ RegulatorsFail \subseteq BOOLEAN

ASSUME WritesAssumption == UserMins \subseteq Nat /\ UserMaxs \subseteq Nat

(* The suspend thread, ondemand's work, a writer of the policy's files, a  *)
(* task in one of ondemand's files and cpu_policy->update's work are       *)
(* threads of their own.                                                   *)
Others == {"pm", "gov", "user", "attr", "work"}
Threads == Callers \cup Others
ASSUME ThreadsAssumption == Callers \cap Others = {} /\ NONE \notin Threads

VARIABLES
  faulty,            \* a regulator may fail in this behaviour
  clk,               \* level of armclk
  vdd_arm, vdd_int,
  first_run,
  no_cpufreq_access,
  raised,            \* auxiliary: a DVFS lock raised the frequency of the last PM_SUSPEND_PREPARE
  policy, user_policy,
  range_lost,        \* auxiliary: the last PM_POST_SUSPEND could not put back user_policy
  governor,
  enabled_freqs,
  lockval,           \* g_dvfslockval; MAX_PERF_LEVEL: token not set
  rwsem, timer_mutex,
  tgt,               \* the transition under set_freq_lock
  want,              \* arguments of each thread's __cpufreq_driver_target
  update_queued,     \* cpu_policy->update
  pc

hw == <<faulty, clk, vdd_arm, vdd_int, first_run>>
gate == <<no_cpufreq_access, raised>>
settings == <<policy, user_policy, range_lost, governor, enabled_freqs, lockval>>
locks == <<rwsem, timer_mutex>>
vars == <<hw, gate, settings, locks, tgt, want, update_queued, pc>>

idleTgt == [by |-> NONE, index |-> 0, up |-> FALSE, step |-> "idle"]
noWant == [freq |-> 0, relation |-> "L", mark |-> "none", ok |-> "none", err |-> "none"]
cur == freq_table[clk]
goto(t, p) == pc' = [pc EXCEPT ![t] = p]
Speeds == {freq_table[l] : l \in Levels}
----------------------------------------------------------------------------
(* freq_table.c and cpufreq_verify_within_limits.                          *)
within(x, lo, hi) == IF x < lo THEN lo ELSE IF x > hi THEN hi ELSE x

cpufreq_verify_within_limits(p) ==
  LET max == within(p.max, Min(Speeds), Max(Speeds))
      min == within(p.min, Min(Speeds), Max(Speeds))
  IN  [min |-> IF min > max THEN max ELSE min, max |-> max]

cpufreq_frequency_table_verify(p) ==
  LET q == cpufreq_verify_within_limits(p)
      larger == {f \in Speeds : f > q.max}
  IN  IF \E f \in Speeds : q.min <= f /\ f <= q.max THEN q
      ELSE cpufreq_verify_within_limits([q EXCEPT !.max = Min(larger)])

(* The level for a target frequency in a policy, or NUM_FREQ if no enabled *)
(* frequency is in it: relation L takes the slowest not slower than the    *)
(* target, H the fastest not faster, each failing that the nearest one on  *)
(* the other side.                                                         *)
cpufreq_frequency_table_target(p, freq, relation) ==
  LET cand == {l \in enabled_freqs : p.min <= freq_table[l] /\ freq_table[l] <= p.max}
      above == {l \in cand : freq_table[l] >= freq}
      below == {l \in cand : freq_table[l] <= freq}
  IN  IF cand = {} THEN NUM_FREQ
      ELSE IF relation = "L"
             THEN IF above # {} THEN Max(above) ELSE Min(below)
             ELSE IF below # {} THEN Min(below) ELSE Max(above)

(* The lock's limit on an index.                                           *)
dvfs_limit(index) == Min({index} \cup {lockval[c] : c \in {d \in Callers : lockval[d] < MAX_PERF_LEVEL}})

----------------------------------------------------------------------------
Init ==
  /\ faulty \in RegulatorsFail
  /\ clk \in Levels /\ vdd_arm = arm_volt[clk] /\ vdd_int = int_volt[clk]
  /\ first_run = TRUE /\ no_cpufreq_access = FALSE
  /\ raised = FALSE /\ range_lost = FALSE
  /\ policy = [min |-> Min(Speeds), max |-> Max(Speeds)] /\ user_policy = policy
  /\ governor \in Governors
  /\ enabled_freqs \in EnabledSets
  /\ lockval = [c \in Callers |-> MAX_PERF_LEVEL]
  /\ rwsem = NONE /\ timer_mutex = NONE /\ tgt = idleTgt
  /\ want = [t \in Threads |-> noWant] /\ update_queued = FALSE
  /\ pc = [t \in Threads |-> "idle"]
----------------------------------------------------------------------------
(* s5pv210_cpufreq_target, called with call and returning through return.  *)
call(t, freq, relation, mark, ok, err) ==
  /\ want' = [want EXCEPT ![t] = [freq |-> freq, relation |-> relation,
                                  mark |-> mark, ok |-> ok, err |-> err]]
  /\ goto(t, "target")

return(t, label) == goto(t, label) /\ want' = [want EXCEPT ![t] = noWant]

(* Mutant: access is never refused.                                        *)
access_granted_mutant(mark) == TRUE

(* DISABLE_FURTHER_CPUFREQ and ENABLE_FURTHER_CPUFREQ.                     *)
access_granted(mark) == ~no_cpufreq_access \/ mark = "enable"

(* Under set_freq_lock: access, the index, and whether there is a change;  *)
(* the voltages go up before the clock and down after it.                  *)
s5pv210_cpufreq_target(t) ==
  LET w == want[t]
      access == access_granted(w.mark)
      found == cpufreq_frequency_table_target(policy, w.freq, w.relation)
      index == dvfs_limit(found)
  IN
  /\ pc[t] = "target" /\ tgt.by = NONE
  /\ no_cpufreq_access' = (~access \/ w.mark = "disable")
  /\ raised' = IF w.mark = "none" THEN raised ELSE w.mark = "disable" /\ index < found
  /\ IF ~access \/ found = NUM_FREQ THEN return(t, w.err) /\ UNCHANGED tgt
     ELSE IF index = clk /\ ~first_run THEN return(t, w.ok) /\ UNCHANGED tgt
     ELSE /\ tgt' = [by |-> t, index |-> index, up |-> index <= clk,
                     step |-> IF index <= clk THEN "arm_up" ELSE "clock"]
          /\ goto(t, "in_target") /\ UNCHANGED want
  /\ UNCHANGED <<hw, settings, locks, update_queued>>

(* Mutant: the error of a regulator is dropped.                            *)
target_fails_mutant ==
  /\ faulty /\ tgt.step \in {"arm_up", "int_up"}
  /\ tgt' = [tgt EXCEPT !.step = IF @ = "arm_up" THEN "int_up" ELSE "clock"]
  /\ UNCHANGED <<hw, gate, settings, locks, want, update_queued, pc>>

target_fails ==
  /\ faulty /\ tgt.step \in {"arm_up", "int_up"}
  /\ return(tgt.by, want[tgt.by].err)
  /\ tgt' = idleTgt
  /\ UNCHANGED <<hw, gate, settings, locks, update_queued>>

target_arm_up ==
  /\ tgt.step = "arm_up"
  /\ vdd_arm' = arm_volt[tgt.index]
  /\ tgt' = [tgt EXCEPT !.step = "int_up"]
  /\ UNCHANGED <<faulty, clk, vdd_int, first_run, gate, settings, locks, want, update_queued, pc>>

target_int_up ==
  /\ tgt.step = "int_up"
  /\ vdd_int' = int_volt[tgt.index]
  /\ tgt' = [tgt EXCEPT !.step = "clock"]
  /\ UNCHANGED <<faulty, clk, vdd_arm, first_run, gate, settings, locks, want, update_queued, pc>>

target_clock ==
  /\ tgt.step = "clock"
  /\ clk' = tgt.index
  /\ tgt' = [tgt EXCEPT !.step = IF tgt.up THEN "out" ELSE "int_down"]
  /\ UNCHANGED <<faulty, vdd_arm, vdd_int, first_run, gate, settings, locks, want, update_queued, pc>>

(* On the way down a failure is ignored.                                   *)
afterSetVoltage(old, new) == {new} \cup (IF faulty THEN {old} ELSE {})

target_int_down ==
  /\ tgt.step = "int_down"
  /\ vdd_int' \in afterSetVoltage(vdd_int, int_volt[tgt.index])
  /\ tgt' = [tgt EXCEPT !.step = "arm_down"]
  /\ UNCHANGED <<faulty, clk, vdd_arm, first_run, gate, settings, locks, want, update_queued, pc>>

target_arm_down ==
  /\ tgt.step = "arm_down"
  /\ vdd_arm' \in afterSetVoltage(vdd_arm, arm_volt[tgt.index])
  /\ tgt' = [tgt EXCEPT !.step = "out"]
  /\ UNCHANGED <<faulty, clk, vdd_int, first_run, gate, settings, locks, want, update_queued, pc>>

target_out ==
  /\ tgt.step = "out"
  /\ first_run' = FALSE
  /\ return(tgt.by, want[tgt.by].ok)
  /\ tgt' = idleTgt
  /\ UNCHANGED <<faulty, clk, vdd_arm, vdd_int, gate, settings, locks, update_queued>>

targetStep ==
  \/ target_fails \/ target_arm_up \/ target_int_up \/ target_clock
  \/ target_int_down \/ target_arm_down \/ target_out
----------------------------------------------------------------------------
(* __cpufreq_set_policy, under rwsem: a range that does not overlap the    *)
(* current one is refused; otherwise it is set and the governor is called. *)
overlaps(p) == p.min <= policy.max /\ p.max >= policy.min

finished(t) == IF t \in Callers /\ lockval[t] < MAX_PERF_LEVEL THEN "held" ELSE "idle"

cpufreq_update_policy(t) ==
  /\ pc[t] = "update" /\ rwsem = NONE
  /\ IF overlaps(user_policy)
       THEN /\ policy' = cpufreq_frequency_table_verify(user_policy)
            /\ rwsem' = t /\ goto(t, "limits")
       ELSE goto(t, finished(t)) /\ UNCHANGED <<policy, rwsem>>
  /\ range_lost' = IF t = "pm" THEN ~overlaps(user_policy) ELSE range_lost
  /\ UNCHANGED <<hw, gate, user_policy, governor, enabled_freqs, lockval,
                 timer_mutex, tgt, want, update_queued>>

(* CPUFREQ_GOV_LIMITS of the three governors.                              *)
limits_performance(t) ==
  /\ pc[t] = "limits" /\ governor = "performance"
  /\ call(t, policy.max, "H", "none", "unlock", "unlock")
  /\ UNCHANGED <<hw, gate, settings, locks, tgt, update_queued>>

limits_powersave(t) ==
  /\ pc[t] = "limits" /\ governor = "powersave"
  /\ call(t, policy.min, "L", "none", "unlock", "unlock")
  /\ UNCHANGED <<hw, gate, settings, locks, tgt, update_queued>>

limits_ondemand(t) ==
  /\ pc[t] = "limits" /\ governor = "ondemand" /\ timer_mutex = NONE
  /\ timer_mutex' = t
  /\ IF policy.max < cur THEN call(t, policy.max, "H", "none", "unlock", "unlock")
     ELSE IF policy.min > cur THEN call(t, policy.min, "L", "none", "unlock", "unlock")
     ELSE goto(t, "unlock") /\ UNCHANGED want
  /\ UNCHANGED <<hw, gate, settings, rwsem, tgt, update_queued>>

unlock(t) ==
  /\ pc[t] = "unlock"
  /\ rwsem' = IF rwsem = t THEN NONE ELSE rwsem
  /\ timer_mutex' = IF timer_mutex = t THEN NONE ELSE timer_mutex
  /\ goto(t, finished(t))
  /\ UNCHANGED <<hw, gate, settings, tgt, want, update_queued>>
----------------------------------------------------------------------------
(* s5pv210_lock_dvfs_high_level and s5pv210_unlock_dvfs_high_level.        *)
lock_dvfs(c, l) ==
  /\ pc[c] = "idle"
  /\ lockval' = [lockval EXCEPT ![c] = l]
  /\ goto(c, "update")
  /\ UNCHANGED <<hw, gate, policy, user_policy, range_lost, governor, enabled_freqs,
                 locks, tgt, want, update_queued>>

unlock_dvfs(c) ==
  /\ pc[c] = "held"
  /\ lockval' = [lockval EXCEPT ![c] = MAX_PERF_LEVEL]
  /\ goto(c, "update")
  /\ UNCHANGED <<hw, gate, policy, user_policy, range_lost, governor, enabled_freqs,
                 locks, tgt, want, update_queued>>

(* Where store_scaling_governor is while it stops a governor and starts    *)
(* the next.                                                               *)
Stopping == {"gov_stop", "gov_remove", "gov_remove_global", "gov_start"}

(* do_dbs_timer with dbs_check_cpu, without powersave_bias: up to the      *)
(* maximum, or down to a frequency that carries the load.  It reads the    *)
(* policy without rwsem.                                                   *)
do_dbs_timer ==
  /\ governor = "ondemand" /\ pc["gov"] = "idle" /\ timer_mutex = NONE
  /\ pc["user"] \notin Stopping
  /\ timer_mutex' = "gov"
  /\ \/ cur # policy.max /\ call("gov", policy.max, "H", "none", "unlock", "unlock")
     \/ /\ cur # policy.min
        /\ \E f \in {policy.min} \cup {s \in Speeds : policy.min < s /\ s < cur} :
             call("gov", f, "L", "none", "unlock", "unlock")
  /\ UNCHANGED <<hw, gate, settings, rwsem, tgt, update_queued>>

(* cpufreq_update_policy from the work that cpufreq_resume schedules.      *)
handle_update ==
  /\ pc["work"] = "idle" /\ update_queued
  /\ update_queued' = FALSE
  /\ goto("work", "update")
  /\ UNCHANGED <<hw, gate, settings, locks, tgt, want>>
----------------------------------------------------------------------------
(* Writes to the policy's files; the writer is a task, so it is frozen     *)
(* while the system is.                                                    *)
userMayWrite == pc["user"] = "idle" /\ rwsem = NONE /\ pc["pm"] # "frozen"

store_one(object, f) ==
  LET new == [policy EXCEPT ![object] = f] IN
  /\ userMayWrite
  /\ IF overlaps(new)
       THEN /\ policy' = cpufreq_frequency_table_verify(new)
            /\ rwsem' = "user" /\ goto("user", "limits")
       ELSE UNCHANGED <<policy, rwsem, pc>>
  /\ user_policy' = [user_policy EXCEPT ![object] = policy'[object]]
  /\ UNCHANGED <<hw, gate, range_lost, governor, enabled_freqs, lockval,
                 timer_mutex, tgt, want, update_queued>>

store_states_enabled_table(s) ==
  /\ userMayWrite
  /\ enabled_freqs' = s
  /\ UNCHANGED <<hw, gate, policy, user_policy, range_lost, governor, lockval,
                 locks, tgt, want, update_queued, pc>>

(* store_scaling_governor: CPUFREQ_GOV_STOP and, of the new governor,      *)
(* CPUFREQ_GOV_START and CPUFREQ_GOV_LIMITS, all under rwsem.              *)
store_scaling_governor ==
  /\ userMayWrite /\ Governors # {governor}
  /\ rwsem' = "user"
  /\ goto("user", IF governor = "ondemand" THEN "gov_stop" ELSE "gov_start")
  /\ UNCHANGED <<hw, gate, settings, timer_mutex, tgt, want, update_queued>>

(* ondemand's CPUFREQ_GOV_STOP: dbs_timer_exit waits for the work, and     *)
(* sysfs_remove_group for the tasks in the files, of the policy under      *)
(* dbs_mutex and of all CPUs without it.                                   *)
inFile(file) == pc["attr"] = file

governor_stop ==
  /\ \/ pc["user"] = "gov_stop" /\ pc["gov"] = "idle" /\ goto("user", "gov_remove")
     \/ pc["user"] = "gov_remove" /\ ~inFile("old_file") /\ goto("user", "gov_remove_global")
     \/ pc["user"] = "gov_remove_global" /\ ~inFile("global_file") /\ goto("user", "gov_start")
  /\ UNCHANGED <<hw, gate, settings, locks, tgt, want, update_queued>>

(* CPUFREQ_GOV_START of a governor, which then goes on at label.           *)
start(g, label) ==
  CASE g = "performance" -> call("user", policy.max, "H", "none", label, label)
    [] g = "powersave" -> call("user", policy.min, "L", "none", label, label)
    [] g = "ondemand" -> goto("user", label) /\ UNCHANGED want

governor_start(g) ==
  /\ pc["user"] = "gov_start" /\ g # governor
  /\ governor' = g /\ start(g, "limits")
  /\ UNCHANGED <<hw, gate, policy, user_policy, range_lost, enabled_freqs, lockval,
                 locks, tgt, update_queued>>

(* ondemand's files could not be created: the old governor is started      *)
(* again, without CPUFREQ_GOV_LIMITS.  (The files that a failure with the  *)
(* second group leaves behind are not followed.)                           *)
governor_start_fails ==
  /\ pc["user"] = "gov_start" /\ governor # "ondemand" /\ "ondemand" \in Governors
  /\ start(governor, "unlock")
  /\ UNCHANGED <<hw, gate, settings, locks, tgt, update_queued>>

(* A task shows or stores one of ondemand's tunables: in the policy's      *)
(* directory it waits for rwsem, in the global one for dbs_mutex.          *)
attr_enter(file) ==
  /\ pc["attr"] = "idle" /\ governor = "ondemand" /\ pc["pm"] # "frozen"
  /\ pc["user"] # "gov_start" /\ (file = "old_file" => pc["user"] # "gov_remove_global")
  /\ goto("attr", file)
  /\ UNCHANGED <<hw, gate, settings, locks, tgt, want, update_queued>>

attr_leave ==
  /\ \/ inFile("old_file") /\ rwsem = NONE
     \/ inFile("global_file") /\ pc["user"] # "gov_remove"
  /\ goto("attr", "idle")
  /\ UNCHANGED <<hw, gate, settings, locks, tgt, want, update_queued>>
----------------------------------------------------------------------------
(* The suspend thread: s5pv210_cpufreq_notifier_event for                  *)
(* PM_SUSPEND_PREPARE and PM_POST_SUSPEND, and the steps of enter_state    *)
(* between them that this component sees.                                  *)
pm_suspend_prepare ==
  /\ pc["pm"] = "idle" /\ rwsem = NONE
  /\ rwsem' = "pm"
  /\ policy' = [min |-> SLEEP_FREQ, max |-> SLEEP_FREQ]
  /\ call("pm", SLEEP_FREQ, "L", "disable", "ready", "bad")
  /\ UNCHANGED <<hw, gate, user_policy, range_lost, governor, enabled_freqs, lockval,
                 timer_mutex, tgt, update_queued>>

pm_suspend_prepared ==
  /\ pc["pm"] \in {"ready", "bad"}
  /\ rwsem' = NONE
  /\ goto("pm", IF pc["pm"] = "ready" THEN "prepared" ELSE "post")
  /\ UNCHANGED <<hw, gate, settings, timer_mutex, tgt, want, update_queued>>

suspend_freeze_processes ==
  /\ pc["pm"] = "prepared"
  /\ \/ pc["user"] = "idle" /\ pc["attr"] = "idle" /\ goto("pm", "frozen")
     \/ goto("pm", "post")
  /\ UNCHANGED <<hw, gate, settings, locks, tgt, want, update_queued>>

(* The system sleeps and cpufreq_resume runs, or devices abort it.         *)
suspend_devices_and_enter ==
  /\ pc["pm"] = "frozen"
  /\ update_queued' \in {update_queued, TRUE}
  /\ goto("pm", "post")
  /\ UNCHANGED <<hw, gate, settings, locks, tgt, want>>

pm_post_suspend ==
  /\ pc["pm"] = "post" /\ rwsem = NONE
  /\ rwsem' = "pm"
  /\ call("pm", SLEEP_FREQ, "L", "enable", "enabled", "enabled")
  /\ UNCHANGED <<hw, gate, settings, timer_mutex, tgt, update_queued>>

(* Mutant: the policy is evaluated again with its rwsem held.              *)
pm_post_update_locked_mutant ==
  /\ pc["pm"] = "enabled"
  /\ goto("pm", "update")
  /\ UNCHANGED <<hw, gate, settings, locks, tgt, want, update_queued>>

pm_post_update ==
  /\ pc["pm"] = "enabled"
  /\ rwsem' = NONE
  /\ goto("pm", "update")
  /\ UNCHANGED <<hw, gate, settings, timer_mutex, tgt, want, update_queued>>

threadStep(t) ==
  \/ s5pv210_cpufreq_target(t) \/ cpufreq_update_policy(t)
  \/ limits_performance(t) \/ limits_powersave(t) \/ limits_ondemand(t) \/ unlock(t)

pmStep ==
  \/ pm_suspend_prepared \/ suspend_freeze_processes
  \/ suspend_devices_and_enter \/ pm_post_suspend \/ pm_post_update

Next ==
  \/ targetStep
  \/ \E t \in Threads : threadStep(t)
  \/ \E c \in Callers : unlock_dvfs(c) \/ \E l \in LockLevels : lock_dvfs(c, l)
  \/ do_dbs_timer \/ handle_update
  \/ \E f \in UserMins : store_one("min", f)
  \/ \E f \in UserMaxs : store_one("max", f)
  \/ \E s \in EnabledSets : store_states_enabled_table(s)
  \/ store_scaling_governor \/ governor_stop
  \/ \E g \in Governors : governor_start(g)
  \/ governor_start_fails
  \/ (\E file \in {"old_file", "global_file"} : attr_enter(file)) \/ attr_leave
  \/ pm_suspend_prepare \/ pmStep

Spec == Init /\ [][Next]_vars
----------------------------------------------------------------------------
TypeOK ==
  /\ faulty \in BOOLEAN /\ clk \in Levels /\ first_run \in BOOLEAN /\ no_cpufreq_access \in BOOLEAN
  /\ raised \in BOOLEAN /\ range_lost \in BOOLEAN
  /\ vdd_arm \in {arm_volt[l] : l \in Levels} /\ vdd_int \in {int_volt[l] : l \in Levels}
  /\ Min(Speeds) <= policy.min /\ policy.min <= policy.max /\ policy.max <= Max(Speeds)
  /\ user_policy \in [min : Nat, max : Nat]
  /\ governor \in Governors /\ enabled_freqs \in EnabledSets
  /\ lockval \in [Callers -> 0..MAX_PERF_LEVEL]
  /\ rwsem \in Threads \cup {NONE} /\ timer_mutex \in Threads \cup {NONE}
  /\ tgt.by \in Threads \cup {NONE} /\ tgt.index \in Levels /\ update_queued \in BOOLEAN
  /\ pc \in [Threads -> {"idle", "target", "in_target", "update", "limits", "unlock",
                         "held", "ready", "bad", "prepared", "frozen", "post",
                         "enabled", "old_file", "global_file"} \cup Stopping]

(* At every moment both voltages are at least what the clock needs,        *)
(* whoever changes it, between any two steps of a transition and when a    *)
(* regulator fails half-way.                                               *)
VoltageCoversClock ==
  vdd_arm >= arm_volt[clk] /\ vdd_int >= int_volt[clk]

(* "Use 800MHz when entering sleep": once PM_SUSPEND_PREPARE has succeeded *)
(* the clock stays at SLEEP_FREQ until PM_POST_SUSPEND, whatever the       *)
(* governor, writers of the policy and DVFS locks do meanwhile.  The       *)
(* exception is a lock of a faster level that is held when it calls the    *)
(* driver (kernel/power/main.c takes L4, 1 GHz): the driver obeys the lock *)
(* and the system sleeps at a faster clock.                                *)
SleepFreqHeld ==
  pc["pm"] \in {"ready", "prepared", "frozen"} =>
    IF raised THEN cur > SLEEP_FREQ ELSE cur = SLEEP_FREQ

(* A transition that is over, or was refused half-way, leaves the driver   *)
(* open to the governor.                                                   *)
AccessRestored ==
  pc["pm"] = "idle" => ~no_cpufreq_access

(* A DVFS lock is in effect when the call has returned and for as long as  *)
(* it is held outside a suspend: no writer, late work or unlock of another *)
(* owner leaves the clock slower (the run has one owner, the theorem any   *)
(* number).  The exceptions: a regulator may fail; ondemand calls the      *)
(* driver only for a clock outside the policy's range, so it applies the   *)
(* lock with its next sample, against the comment in                       *)
(* s5pv210_lock_dvfs_high_level; and after a resume that lost the user's   *)
(* range (PolicyRestored) the governor may not be called at all.           *)
LimitApplied ==
  /\ pc["pm"] = "idle" /\ pc["user"] = "idle"
  /\ governor # "ondemand" /\ ~faulty /\ ~range_lost
  => \A c \in Callers : pc[c] = "held" => clk <= lockval[c]

(* The configuration for which LimitApplied and PolicyRestored are meant:  *)
(* each table of enabled states has a frequency that all the ranges        *)
(* written to scaling_min_freq and scaling_max_freq have.                  *)
Common == {f \in Speeds : (\A g \in UserMins : g <= f) /\ (\A g \in UserMaxs : f <= g)}
Configured == \A e \in EnabledSets : \E l \in e : freq_table[l] \in Common

(* PM_POST_SUSPEND reverts the range that was forced for sleep: when no    *)
(* transition is under way the policy is the user's.  The exception is a   *)
(* range of the user without SLEEP_FREQ, such as a scaling_max_freq below  *)
(* 800 MHz: __cpufreq_set_policy refuses it, for it does not overlap the   *)
(* forced range, and the policy stays at SLEEP_FREQ.  range_lost marks the *)
(* time from such a refusal until a later PM_POST_SUSPEND.                 *)
PolicyRestored ==
  pc["pm"] = "idle" /\ ~range_lost => policy = cpufreq_frequency_table_verify(user_policy)

(* The refusal has that reason and no other: a range that includes         *)
(* SLEEP_FREQ is never lost.                                               *)
RangeLostForCause ==
  pc["pm"] = "update" /\ user_policy.min <= SLEEP_FREQ /\ SLEEP_FREQ <= user_policy.max =>
    overlaps(user_policy)

(* Whom a thread waits for, NONE if it can go on: set_freq_lock, rwsem,    *)
(* timer_mutex, cancel_delayed_work_sync of a governor that is stopped,    *)
(* the tasks in files that are removed, and dbs_mutex.                     *)
waitsFor(t) ==
  CASE pc[t] = "target" -> tgt.by
    [] pc[t] \in {"update", "post", "old_file"} -> rwsem
    [] pc[t] = "limits" /\ governor = "ondemand" -> timer_mutex
    [] pc[t] = "gov_stop" /\ pc["gov"] # "idle" -> "gov"
    [] pc[t] = "gov_remove" /\ inFile("old_file") -> "attr"
    [] pc[t] = "gov_remove_global" /\ inFile("global_file") -> "attr"
    [] pc[t] = "global_file" /\ pc["user"] = "gov_remove" -> "user"
    [] OTHER -> NONE

(* The circular wait that the code has, against the rule at cpufreq.c:74   *)
(* ("Lock should not be held across __cpufreq_governor(data,               *)
(* CPUFREQ_GOV_STOP)"): the writer of scaling_governor holds rwsem and     *)
(* waits for a task in a file that waits for rwsem.                        *)
StopUnderRwsem ==
  pc["user"] = "gov_remove" /\ inFile("old_file")

(* That is the only deadlock: in any set of threads each of which waits    *)
(* for one of the set, the writer of scaling_governor and the task in      *)
(* ondemand's file wait for each other, whatever DVFS calls, writers,      *)
(* samples, late works and suspends meet.  Without that pair, no threads   *)
(* wait for each other.                                                    *)
NoCircularWait ==
  \A S \in (SUBSET {t \in Threads : waitsFor(t) # NONE}) \ {{}} :
    (\A t \in S : waitsFor(t) \in S) => StopUnderRwsem /\ {"user", "attr"} \subseteq S

(* After any sequence of target calls the clock fits: the voltages cover   *)
(* it, failing regulators or not, and it is no slower than a DVFS lock     *)
(* that is held asks, but for the cases the comment of LimitApplied        *)
(* excludes.                                                               *)
ClockFits ==
  /\ TypeOK
  /\ VoltageCoversClock
  /\ LimitApplied

(* The suspend notifier holds the clock at SLEEP_FREQ over a sleep and     *)
(* gives back access and the range of the user afterwards, against the     *)
(* governor, DVFS locks and the work of cpufreq_resume, but for the cases  *)
(* the comments of SleepFreqHeld and PolicyRestored exclude.               *)
SuspendKeepsClock ==
  /\ SleepFreqHeld
  /\ AccessRestored
  /\ PolicyRestored
  /\ RangeLostForCause
=============================================================================
