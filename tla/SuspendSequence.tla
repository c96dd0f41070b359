-------------------------- MODULE SuspendSequence --------------------------
(***************************************************************************)
(* The order of a transition to sleep and its undoing: pm_suspend and what *)
(* it calls in kernel/power/suspend.c, with the user mode helpers of       *)
(* kernel/kmod.c, which a transition must switch off first.                *)
(*                                                                         *)
(* What the transition has taken away is a sequence, held; every step of   *)
(* the way down may fail, and the labels of the error paths decide what is *)
(* given back.  The devices are one step here (module DevicePM has their   *)
(* steps), as is the freezing of tasks (module Freezer).  CONFIG_PM_DEBUG  *)
(* is off: suspend_test returns 0.                                         *)
(***************************************************************************)
EXTENDS Naturals, SequencesExt

CONSTANTS
  OpSets,  \* the platforms: the callbacks each one's suspend_ops has
  Calls,   \* calls of call_usermodehelper_exec, each with its sub_info
  Modes    \* how they wait: "no_wait", "exec", "proc"

(* suspend.h asks for end with begin, finish with prepare and wake with    *)
(* prepare_late; a platform without suspend_ops is the empty set.          *)
ASSUME OpSetsAssumption ==
  \A o \in OpSets : /\ "begin" \in o => "end" \in o
                    /\ "prepare" \in o => "finish" \in o
                    /\ "prepare_late" \in o => "wake" \in o
ASSUME ModesAssumption == Modes \subseteq {"no_wait", "exec", "proc"}
ASSUME CallsFinite == IsFiniteSet(Calls)

VARIABLES
  pc,           \* where the caller of pm_suspend is
  suspend_ops,  \* the callbacks registered
  other_mutex,  \* somebody else holds pm_mutex
  held,         \* what the transition has taken, in order
  error,        \* error # 0: what pm_suspend returns, or returned last
  slept,        \* this transition has been asleep
  usermodehelper_disabled,
  running_helpers,
  cpc,          \* where each call of call_usermodehelper_exec is
  mode,         \* sub_info->wait
  sub,          \* what the sub_info's work or process is doing
  complete,     \* calls whose completion is done
  khelper_wq,   \* work items queued for khelper
  flags         \* task flags of the process made for each call

seqVars == <<pc, suspend_ops, other_mutex, held, error, slept>>
umhVars == <<cpc, mode, sub, complete, khelper_wq, flags>>
vars == <<seqVars, usermodehelper_disabled, running_helpers, umhVars>>

Resources == {"pm_mutex", "console", "notified", "umh", "tasks", "begin",
              "printk", "gfp", "devices", "platform", "noirq", "late",
              "cpus", "irqs", "sysdev"}
Steps == {"idle", "prepare", "notify", "umh", "umh_wait", "freeze", "begin",
          "printk", "gfp", "devices", "platform", "noirq", "late", "cpus",
          "irqs", "sysdev", "enter", "sysdev_resume", "irqs_on",
          "enable_cpus", "wake", "power_up", "finish", "recover", "resume",
          "restore_gfp", "resume_console", "end", "thaw", "enable", "post",
          "freeze_failed", "restore_console", "unlock"}

(* The task flags of khelper: kthreadd sets PF_NOFREEZE, and khelper's     *)
(* queue is not freezeable, so it never clears it.                         *)
khelper_flags == {"PF_NOFREEZE", "PF_KTHREAD"}
(* A child has its parent's flags; do_execve drops PF_KTHREAD only.        *)
copy_flags(f) == f
do_execve_flags(f) == f \ {"PF_KTHREAD"}
freezeable(c) == "PF_NOFREEZE" \notin flags[c]

frozen == "tasks" \in Range(held) /\ pc # "freeze_failed"
goto(p) == pc' = p
take(x) == held' = Append(held, x)
give_back(x) == held' = RemoveFirst(held, x)

Init ==
  /\ pc = "idle" /\ suspend_ops = {} /\ other_mutex = FALSE
  /\ held = <<>> /\ error = FALSE /\ slept = FALSE
  /\ usermodehelper_disabled = FALSE /\ running_helpers = 0
  /\ cpc = [c \in Calls |-> "idle"] /\ mode = [c \in Calls |-> "exec"]
  /\ sub = [c \in Calls |-> "none"] /\ complete = {}
  /\ khelper_wq = <<>> /\ flags = [c \in Calls |-> {}]
----------------------------------------------------------------------------
(* Registering a platform, and others that take pm_mutex for a while.      *)
suspend_set_ops ==
  /\ pc = "idle" /\ ~other_mutex
  /\ suspend_ops' \in OpSets
  /\ UNCHANGED <<pc, other_mutex, held, error, slept>>

mutex_other ==
  /\ "pm_mutex" \notin Range(held)
  /\ other_mutex' = ~other_mutex
  /\ UNCHANGED <<pc, suspend_ops, held, error, slept>>

(* A step of the way down: it takes x and goes on at next, or it fails,    *)
(* keeps what it has taken by itself in kept, and goes to label.  Only the *)
(* errors of a function whose result is looked at reach error: those of    *)
(* suspend_enter, called as a statement at line 227, do not.               *)
down(at, x, next) ==
  pc = at /\ take(x) /\ goto(next) /\ UNCHANGED error
fails(at, kept, label) ==
  pc = at /\ held' = held \o kept /\ goto(label) /\ error' = TRUE
refused(at, kept, label) ==
  pc = at /\ held' = held \o kept /\ goto(label) /\ UNCHANGED error
skipped(at, next) ==
  pc = at /\ goto(next) /\ UNCHANGED <<held, error>>
up(at, x, next) ==
  pc = at /\ give_back(x) /\ goto(next) /\ UNCHANGED error
op(f) == f \in suspend_ops

valid_state == op("valid")

(* pm_suspend with a state in range: enter_state up to suspend_prepare.    *)
pm_suspend ==
  /\ pc = "idle"
  /\ IF valid_state /\ ~other_mutex
       THEN take("pm_mutex") /\ goto("prepare") /\ error' = FALSE
       ELSE error' = TRUE /\ UNCHANGED <<pc, held>>
  /\ slept' = FALSE

suspend_prepare ==
  \/ ~op("enter") /\ fails("prepare", <<>>, "unlock")
  \/ op("enter") /\ down("prepare", "console", "notify")
(* All the notifiers are called for PM_POST_SUSPEND when one fails.        *)
pm_notifier_call_chain ==
  down("notify", "notified", "umh") \/ fails("notify", <<"notified">>, "post")
suspend_freeze_processes ==
  \/ down("freeze", "tasks", "begin")
  \/ fails("freeze", <<"tasks">>, "freeze_failed")

suspend_ops_begin ==
  \/ op("begin") /\ down("begin", "begin", "printk")
  \/ op("begin") /\ fails("begin", <<"begin">>, "end")
  \/ ~op("begin") /\ skipped("begin", "printk")
suspend_console == down("printk", "printk", "gfp")
pm_restrict_gfp_mask == down("gfp", "gfp", "devices")
dpm_suspend_start ==
  \/ down("devices", "devices", "platform")
  \/ fails("devices", <<"devices">>, "recover")
suspend_ops_recover == skipped("recover", "resume")

suspend_ops_prepare ==
  \/ op("prepare") /\ down("platform", "platform", "noirq")
  \/ op("prepare") /\ refused("platform", <<>>, "resume")
  \/ ~op("prepare") /\ skipped("platform", "noirq")

(* Mutant: the wrong label.                                                *)
dpm_suspend_noirq_label_mutant ==
  down("noirq", "noirq", "late") \/ refused("noirq", <<>>, "resume")

dpm_suspend_noirq ==
  down("noirq", "noirq", "late") \/ refused("noirq", <<>>, "finish")
prepare_late ==
  \/ op("prepare_late") /\ down("late", "late", "cpus")
  \/ op("prepare_late") /\ refused("late", <<>>, "power_up")
  \/ ~op("prepare_late") /\ skipped("late", "cpus")
disable_nonboot_cpus ==
  down("cpus", "cpus", "irqs") \/ refused("cpus", <<"cpus">>, "enable_cpus")
arch_suspend_disable_irqs == down("irqs", "irqs", "sysdev")
sysdev_suspend ==
  down("sysdev", "sysdev", "enter") \/ refused("sysdev", <<>>, "irqs_on")

(* The platform sleeps, refuses, or is not asked: a wakeup is pending.     *)
suspend_ops_enter ==
  /\ skipped("enter", "sysdev_resume")
  /\ slept' \in BOOLEAN

sysdev_resume == up("sysdev_resume", "sysdev", "irqs_on")
arch_suspend_enable_irqs == up("irqs_on", "irqs", "enable_cpus")
enable_nonboot_cpus == up("enable_cpus", "cpus", "wake")
suspend_ops_wake ==
  \/ op("wake") /\ up("wake", "late", "power_up")
  \/ ~op("wake") /\ skipped("wake", "power_up")
dpm_resume_noirq == up("power_up", "noirq", "finish")
suspend_ops_finish ==
  \/ op("finish") /\ up("finish", "platform", "resume")
  \/ ~op("finish") /\ skipped("finish", "resume")
dpm_resume_end == up("resume", "devices", "restore_gfp")
pm_restore_gfp_mask == up("restore_gfp", "gfp", "resume_console")
resume_console == up("resume_console", "printk", "end")
suspend_ops_end ==
  \/ op("end") /\ up("end", "begin", "thaw")
  \/ ~op("end") /\ skipped("end", "thaw")

(* suspend_finish, and the same four calls where suspend_prepare fails.    *)
suspend_thaw_processes ==
  up("thaw", "tasks", "enable") \/ up("freeze_failed", "tasks", "enable")
pm_post_suspend == up("post", "notified", "restore_console")
pm_restore_console == up("restore_console", "console", "unlock")
enter_state_unlock == up("unlock", "pm_mutex", "idle")

transition ==
  \/ /\ \/ suspend_prepare \/ pm_notifier_call_chain
        \/ suspend_freeze_processes \/ suspend_ops_begin \/ suspend_console
        \/ pm_restrict_gfp_mask \/ dpm_suspend_start \/ suspend_ops_recover
        \/ suspend_ops_prepare \/ dpm_suspend_noirq \/ prepare_late
        \/ disable_nonboot_cpus \/ arch_suspend_disable_irqs \/ sysdev_suspend
        \/ sysdev_resume \/ arch_suspend_enable_irqs \/ enable_nonboot_cpus
        \/ suspend_ops_wake \/ dpm_resume_noirq \/ suspend_ops_finish
        \/ dpm_resume_end \/ pm_restore_gfp_mask \/ resume_console
        \/ suspend_ops_end \/ suspend_thaw_processes \/ pm_post_suspend
        \/ pm_restore_console \/ enter_state_unlock
     /\ UNCHANGED slept
  \/ suspend_ops_enter
----------------------------------------------------------------------------
(* usermodehelper_disable: the flag, then the wait for the calls that may  *)
(* have seen it clear, five seconds at most.                               *)
usermodehelper_disable ==
  /\ pc = "umh" /\ goto("umh_wait")
  /\ usermodehelper_disabled' = TRUE
  /\ UNCHANGED <<held, error>>

(* Mutant: does not wait.                                                  *)
usermodehelper_disable_wait_mutant ==
  /\ down("umh_wait", "umh", "freeze")
  /\ UNCHANGED usermodehelper_disabled

(* Mutant: helpers stay disabled after a timeout.                          *)
usermodehelper_disable_keeps_mutant ==
  \/ running_helpers = 0 /\ down("umh_wait", "umh", "freeze")
     /\ UNCHANGED usermodehelper_disabled
  \/ running_helpers # 0 /\ fails("umh_wait", <<>>, "post")
     /\ UNCHANGED usermodehelper_disabled

usermodehelper_disable_wait ==
  \/ /\ running_helpers = 0
     /\ down("umh_wait", "umh", "freeze")
     /\ UNCHANGED usermodehelper_disabled
  \/ /\ running_helpers # 0  \* timed out
     /\ fails("umh_wait", <<>>, "post")
     /\ usermodehelper_disabled' = FALSE

usermodehelper_enable ==
  /\ up("enable", "umh", "post")
  /\ usermodehelper_disabled' = FALSE

(* call_usermodehelper_exec: helper_lock, the checks, the work queued for  *)
(* khelper, the wait unless UMH_NO_WAIT, helper_unlock.                    *)
helper_lock(c, m) ==
  /\ cpc[c] = "idle" /\ sub[c] = "none"
  /\ running_helpers' = running_helpers + 1
  /\ cpc' = [cpc EXCEPT ![c] = "locked"]
  /\ mode' = [mode EXCEPT ![c] = m]
  /\ complete' = complete \ {c}
  /\ UNCHANGED <<sub, khelper_wq, flags>>

(* -EBUSY, or at any time a path that is empty: no helper is configured.   *)
call_usermodehelper_refused(c) ==
  /\ cpc[c] = "locked"
  /\ cpc' = [cpc EXCEPT ![c] = "unlock"]
  /\ UNCHANGED <<running_helpers, mode, sub, complete, khelper_wq, flags>>

call_usermodehelper_queue(c) ==
  /\ cpc[c] = "locked" /\ ~usermodehelper_disabled
  /\ khelper_wq' = Append(khelper_wq, c)
  /\ sub' = [sub EXCEPT ![c] = "queued"]
  /\ cpc' = [cpc EXCEPT ![c] = IF mode[c] = "no_wait" THEN "unlock"
                                                      ELSE "waiting"]
  /\ UNCHANGED <<running_helpers, mode, complete, flags>>

wait_for_completion(c) ==
  /\ cpc[c] = "waiting" /\ c \in complete
  /\ cpc' = [cpc EXCEPT ![c] = "unlock"]
  /\ UNCHANGED <<running_helpers, mode, sub, complete, khelper_wq, flags>>

helper_unlock(c) ==
  /\ cpc[c] = "unlock"
  /\ running_helpers' = running_helpers - 1
  /\ cpc' = [cpc EXCEPT ![c] = "idle"]
  /\ UNCHANGED <<mode, sub, complete, khelper_wq, flags>>

complete_if(c, waits) ==
  complete' = IF mode[c] \in waits THEN complete \cup {c} ELSE complete

(* khelper makes the process; with CLONE_VFORK it then waits until that    *)
(* has executed its program or is gone.  The fork may fail.                *)
vfork_wait == \E c \in Calls : sub[c] = "forked" /\ mode[c] # "proc"

call_usermodehelper_work ==
  /\ khelper_wq # <<>> /\ ~vfork_wait
  /\ LET c == Head(khelper_wq) IN
       \/ /\ sub' = [sub EXCEPT ![c] = "forked"]
          /\ flags' = [flags EXCEPT ![c] = copy_flags(khelper_flags)]
          /\ UNCHANGED complete
       \/ /\ sub' = [sub EXCEPT ![c] = "none"]
          /\ complete_if(c, {"exec", "proc"})
          /\ UNCHANGED flags
  /\ khelper_wq' = Tail(khelper_wq)
  /\ UNCHANGED <<running_helpers, cpc, mode>>

(* Mutant: an exec that fails completes no UMH_WAIT_PROC.                  *)
call_usermodehelper_execve_mutant(c) ==
  /\ sub[c] = "forked"
  /\ \/ /\ sub' = [sub EXCEPT ![c] = "user"]
        /\ flags' = [flags EXCEPT ![c] = do_execve_flags(@)]
        /\ complete_if(c, {"exec"})
     \/ /\ sub' = [sub EXCEPT ![c] = "none"]
        /\ flags' = [flags EXCEPT ![c] = {}]
        /\ complete_if(c, {"exec"})
  /\ UNCHANGED <<running_helpers, cpc, mode, khelper_wq>>

(* The process executes the program, or fails to and exits; khelper, out   *)
(* of its wait, completes the calls that wait for that much.               *)
call_usermodehelper_execve(c) ==
  /\ sub[c] = "forked"
  /\ \/ /\ sub' = [sub EXCEPT ![c] = "user"]
        /\ flags' = [flags EXCEPT ![c] = do_execve_flags(@)]
        /\ complete_if(c, {"exec"})
     \/ /\ sub' = [sub EXCEPT ![c] = "none"]
        /\ flags' = [flags EXCEPT ![c] = {}]
        /\ complete_if(c, {"exec", "proc"})
  /\ UNCHANGED <<running_helpers, cpc, mode, khelper_wq>>

(* The program ends; wait_for_helper has waited for it.                    *)
user_runs(c) == sub[c] = "user" /\ ~(frozen /\ freezeable(c))
wait_for_helper(c) ==
  /\ user_runs(c)
  /\ sub' = [sub EXCEPT ![c] = "none"]
  /\ flags' = [flags EXCEPT ![c] = {}]
  /\ complete_if(c, {"proc"})
  /\ UNCHANGED <<running_helpers, cpc, mode, khelper_wq>>

(* A call goes on once it has been made; a UMH_NO_WAIT one ends before its *)
(* work does.                                                              *)
callStep(c) ==
  \/ call_usermodehelper_refused(c) \/ call_usermodehelper_queue(c)
  \/ wait_for_completion(c) \/ helper_unlock(c)
processStep(c) == call_usermodehelper_execve(c) \/ wait_for_helper(c)

mainStep ==
  \/ transition /\ UNCHANGED <<suspend_ops, other_mutex,
                               usermodehelper_disabled, running_helpers, umhVars>>
  \/ /\ \/ usermodehelper_disable \/ usermodehelper_disable_wait
        \/ usermodehelper_enable
     /\ UNCHANGED <<suspend_ops, other_mutex, slept, running_helpers, umhVars>>

Next ==
  \/ mainStep
  \/ /\ suspend_set_ops \/ mutex_other
     /\ UNCHANGED <<usermodehelper_disabled, running_helpers, umhVars>>
  \/ /\ pm_suspend
     /\ UNCHANGED <<suspend_ops, other_mutex, usermodehelper_disabled,
                    running_helpers, umhVars>>
  \/ /\ \E c \in Calls : \/ \E m \in Modes : helper_lock(c, m)
                         \/ callStep(c) \/ processStep(c)
     /\ UNCHANGED <<seqVars, usermodehelper_disabled>>
  \/ /\ call_usermodehelper_work
     /\ UNCHANGED <<seqVars, usermodehelper_disabled>>

Spec == Init /\ [][Next]_vars

(* The caller of pm_suspend, khelper and the callers of helpers are tasks  *)
(* that get to run, the platform wakes up, and a helper program ends.      *)
Fairness ==
  /\ WF_vars(mainStep)
  /\ WF_vars(call_usermodehelper_work
             /\ UNCHANGED <<seqVars, usermodehelper_disabled>>)
  /\ \A c \in Calls :
       /\ WF_vars(callStep(c) /\ UNCHANGED <<seqVars, usermodehelper_disabled>>)
       /\ WF_vars(processStep(c) /\ UNCHANGED <<seqVars, usermodehelper_disabled>>)
FairSpec == Spec /\ Fairness
----------------------------------------------------------------------------
TypeOK ==
  /\ pc \in Steps /\ suspend_ops \in OpSets \cup {{}}
  /\ other_mutex \in BOOLEAN /\ Range(held) \subseteq Resources
  /\ error \in BOOLEAN /\ slept \in BOOLEAN
  /\ usermodehelper_disabled \in BOOLEAN /\ running_helpers \in Nat
  /\ cpc \in [Calls -> {"idle", "locked", "waiting", "unlock"}]
  /\ mode \in [Calls -> {"no_wait", "exec", "proc"}]
  /\ sub \in [Calls -> {"none", "queued", "forked", "user"}]
  /\ complete \subseteq Calls /\ Range(khelper_wq) \subseteq Calls
  /\ flags \in [Calls -> SUBSET khelper_flags]

(* However a transition ends, it has given everything back when pm_suspend *)
(* returns: the labels of suspend_prepare, suspend_enter,                  *)
(* suspend_devices_and_enter and enter_state between them undo exactly     *)
(* what was done, and user mode helpers are allowed again.                 *)
Unwound == pc = "idle" => held = <<>> /\ ~usermodehelper_disabled

(* What a transition takes away it gives back in the reverse order, from   *)
(* whichever step it fails: interrupts before processors, devices before   *)
(* memory allocation may do I/O again, tasks before the notifiers.         *)
UndoneInReverse ==
  [][Range(held') # Range(held) /\ Len(held') < Len(held)
       => held' = SubSeq(held, 1, Len(held) - 1)]_vars

(* The platform's enter runs with tasks frozen, devices off in both        *)
(* phases, interrupts off and system devices down, for every platform.     *)
EnteredFullyDown ==
  pc = "enter" =>
    Resources \ {"begin", "platform", "late"} \subseteq Range(held)

(* A transition that reports a failure has not been asleep, although the   *)
(* result of suspend_enter is dropped: no error is set before the sleep on *)
(* a path that still gets to it.                                           *)
RefusedMeansAwake == error => ~slept

(* A helper somebody waits for is not started while tasks are frozen: a    *)
(* call that saw the flag clear is counted in running_helpers before it    *)
(* looks, and usermodehelper_disable waits for it.                         *)
NoWaitedHelperStarts ==
  [][\A c \in Calls : sub[c] # "user" /\ sub'[c] = "user" /\ mode[c] # "no_wait"
       => ~frozen]_vars

(* pm_suspend returns, whatever fails on the way.                          *)
SuspendReturns == (pc # "idle") ~> (pc = "idle")

(* Every call of a helper returns, suspends of the system in between or    *)
(* not: neither the refusal nor the freezing of the helper strands it.     *)
HelperCallReturns == \A c \in Calls : (cpc[c] # "idle") ~> (cpc[c] = "idle")

(* A transition has everything down at suspend_ops->enter, has given       *)
(* everything back when pm_suspend returns, and reports a failure only if  *)
(* the platform did not sleep.                                             *)
TransitionSound ==
  /\ TypeOK
  /\ Unwound
  /\ EnteredFullyDown
  /\ RefusedMeansAwake

(* pm_suspend and call_usermodehelper_exec both return, though each can    *)
(* wait for the other.                                                     *)
CallsReturn ==
  /\ SuspendReturns
  /\ HelperCallReturns
=============================================================================
