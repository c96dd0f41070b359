------------------------------ MODULE DevicePM ------------------------------
(***************************************************************************)
(* The device power management core: drivers/base/power/main.c.  A suspend *)
(* moves every device from dpm_list over dpm_prepared_list and             *)
(* dpm_suspended_list to dpm_noirq_list; a resume, or the recovery from a  *)
(* failure at any point, moves it back.  Devices with async_suspend are    *)
(* suspended and resumed by threads of their own, which wait for the       *)
(* completions of children or parent; devices come and go meanwhile.       *)
(*                                                                         *)
(* A callback of a driver succeeds or fails; its start and its end are     *)
(* separate steps, since other threads run while it sleeps.  The prepare,  *)
(* noirq and complete callbacks run one at a time and are one step each.   *)
(* The watchdog of dpm_suspend (a BUG after three seconds) is left out.    *)
(***************************************************************************)
EXTENDS Naturals, SequencesExt

CONSTANTS
  Devices,    \* a tree of devices
  root,       \* its first, always registered
  NoDevice,
  parent,     \* parent[d], or NoDevice
  Async       \* devices with power.async_suspend

ASSUME DevicesAssumption ==
  /\ NoDevice \notin Devices /\ root \in Devices
  /\ parent \in [Devices -> Devices \cup {NoDevice}]
  /\ \A d \in Devices : parent[d] # d /\ (parent[d] = NoDevice <=> d = root)
  /\ Async \subseteq Devices

VARIABLES
  lists,        \* the four lists, and the local one of dpm_complete
  in_suspend,   \* devices with power.in_suspend
  completion,   \* devices whose power.completion is complete
  async_error,  \* async_error # 0
  error,        \* the error of dpm_suspend's loop
  phase,        \* where the thread of the transition is
  cur,          \* the device it is dealing with
  op,           \* where __device_suspend or device_resume of a device is
  hw,           \* what the driver has been told, and has done
  reg           \* devices that are registered

mainVars == <<phase, cur, error>>
vars == <<lists, in_suspend, completion, async_error, mainVars, op, hw, reg>>

ListNames == {"dpm_list", "prepared", "suspended", "noirq", "completed"}
Phases == {"idle", "prepare", "suspend", "suspended", "noirq", "asleep",
           "resume_noirq", "resume_start", "resume", "resumed", "complete"}
(* Waiting for children or for the parent, in the callback, done with or   *)
(* without an error.                                                       *)
OpStates == {"none", "wait", "suspending", "done", "failed", "failing",
             "look", "wait_parent", "resuming"}

last(n) == lists[n][Len(lists[n])]
first(n) == Head(lists[n])
empty(n) == lists[n] = <<>>
listed(d) == \E n \in ListNames : d \in Range(lists[n])
children(d) == {c \in reg : parent[c] = d}
step_op(d, s) == op' = [op EXCEPT ![d] = s]

del(l, d) == RemoveFirst(l, d)
list_move(d, to) ==
  [n \in ListNames |-> IF n = to THEN <<d>> \o del(lists[n], d) ELSE del(lists[n], d)]
list_move_tail(d, to) ==
  [n \in ListNames |-> IF n = to THEN Append(del(lists[n], d), d) ELSE del(lists[n], d)]

Init ==
  /\ reg = {root}
  /\ lists = [n \in ListNames |-> IF n = "dpm_list" THEN <<root>> ELSE <<>>]
  /\ in_suspend = {} /\ completion = Devices
  /\ async_error = FALSE /\ error = FALSE
  /\ phase = "idle" /\ cur = NoDevice
  /\ op = [d \in Devices |-> "none"] /\ hw = [d \in Devices |-> "on"]

-----------------------------------------------------------------------------
(* Devices come, below a parent that is up, and go, leaves first.          *)

device_pm_add(d) ==
  /\ d \notin reg /\ ~ listed(d) /\ op[d] = "none" /\ cur # d /\ phase # "asleep"
  /\ parent[d] \in reg \ in_suspend /\ hw[parent[d]] = "on"
  /\ reg' = reg \cup {d} /\ completion' = completion \cup {d}
  /\ hw' = [hw EXCEPT ![d] = "on"] /\ in_suspend' = in_suspend \ {d}
  /\ lists' = [lists EXCEPT !["dpm_list"] = Append(@, d)]
  /\ UNCHANGED <<async_error, mainVars, op>>

device_pm_remove(d) ==
  /\ d \in reg \ {root} /\ children(d) = {} /\ phase # "asleep"
  /\ reg' = reg \ {d} /\ completion' = completion \cup {d}
  /\ lists' = [n \in ListNames |-> del(lists[n], d)]
  /\ UNCHANGED <<in_suspend, async_error, mainVars, op, hw>>

-----------------------------------------------------------------------------
(* dpm_suspend_start: dpm_prepare, then dpm_suspend.                       *)

dpm_prepare ==
  /\ phase = "idle" /\ phase' = "prepare" /\ error' = FALSE
  /\ UNCHANGED <<lists, in_suspend, completion, async_error, cur, op, hw, reg>>

device_prepare ==
  /\ phase = "prepare" /\ ~ empty("dpm_list")
  /\ in_suspend' = in_suspend \cup {first("dpm_list")}
  /\ lists' = list_move_tail(first("dpm_list"), "prepared")
  /\ UNCHANGED <<completion, async_error, mainVars, op, hw, reg>>

(* The callback fails, other than with EAGAIN, or a wakeup is pending.     *)
device_prepare_fails ==
  /\ phase = "prepare" /\ ~ empty("dpm_list")
  /\ phase' = "resume_start"
  /\ UNCHANGED <<lists, in_suspend, completion, async_error, cur, error, op, hw, reg>>

dpm_suspend ==
  /\ phase = "prepare" /\ empty("dpm_list")
  /\ phase' = "suspend" /\ async_error' = FALSE
  /\ UNCHANGED <<lists, in_suspend, completion, cur, error, op, hw, reg>>

(* A device is picked; its own thread is started if it has one.            *)
device_suspend ==
  /\ phase = "suspend" /\ cur = NoDevice /\ ~ empty("prepared")
  /\ cur' = last("prepared")
  /\ completion' = completion \ {cur'}
  /\ step_op(cur', "wait")
  /\ UNCHANGED <<lists, in_suspend, async_error, phase, error, hw, reg>>

(* Mutant: children are not waited for.                                    *)
dpm_wait_for_children_mutant(d) == TRUE

dpm_wait_for_children(d) ==
  \A c \in children(d) : d \in Async \/ c \in Async => c \in completion

(* In __device_suspend, with an error or with a wakeup pending the         *)
(* callback is not called, and the result is 0.                            *)
__device_suspend(d) ==
  /\ op[d] = "wait" /\ dpm_wait_for_children(d)
  /\ \/ async_error /\ step_op(d, "done") /\ UNCHANGED async_error
     \/ ~ async_error /\ async_error' = TRUE /\ step_op(d, "done")
     \/ ~ async_error /\ step_op(d, "suspending") /\ UNCHANGED async_error
  /\ UNCHANGED <<lists, in_suspend, completion, mainVars, hw, reg>>

suspend_callback(d) ==
  /\ op[d] = "suspending"
  /\ \/ step_op(d, "done") /\ hw' = [hw EXCEPT ![d] = "suspended"]
     \/ step_op(d, "failed") /\ UNCHANGED hw
  /\ UNCHANGED <<lists, in_suspend, completion, async_error, mainVars, reg>>

(* complete_all comes before async_error is set.                           *)
suspend_complete(d) ==
  /\ op[d] \in {"done", "failed"}
  /\ completion' = completion \cup {d}
  /\ step_op(d, IF op[d] = "done" THEN "none" ELSE "failing")
  /\ UNCHANGED <<lists, in_suspend, async_error, mainVars, hw, reg>>

suspend_set_error(d) ==
  /\ op[d] = "failing" /\ step_op(d, "none")
  /\ async_error' = TRUE
  /\ error' = (error \/ d \notin Async)
  /\ UNCHANGED <<lists, in_suspend, completion, phase, cur, hw, reg>>

device_suspend_returns ==
  /\ phase = "suspend" /\ cur # NoDevice
  /\ cur \in Async \/ op[cur] = "none"
  /\ cur' = NoDevice
  /\ lists' = IF ~ error /\ listed(cur) THEN list_move(cur, "suspended") ELSE lists
  /\ phase' = IF error \/ async_error THEN "suspended" ELSE phase
  /\ UNCHANGED <<in_suspend, completion, async_error, error, op, hw, reg>>

all_suspended ==
  /\ phase = "suspend" /\ cur = NoDevice /\ empty("prepared")
  /\ phase' = "suspended"
  /\ UNCHANGED <<lists, in_suspend, completion, async_error, cur, error, op, hw, reg>>

async_synchronize_full == \A d \in Devices : op[d] = "none"

(* Mutant: the errors of the threads are forgotten.                        *)
dpm_suspend_returns_mutant ==
  /\ phase = "suspended" /\ async_synchronize_full
  /\ phase' = IF error THEN "resume_start" ELSE "noirq"
  /\ UNCHANGED <<lists, in_suspend, completion, async_error, cur, error, op, hw, reg>>

(* Mutant: what has failed is tried again.                                 *)
dpm_suspend_retry_mutant ==
  /\ phase = "suspended" /\ async_synchronize_full
  /\ phase' = IF error \/ async_error THEN "suspend" ELSE "noirq"
  /\ UNCHANGED <<lists, in_suspend, completion, async_error, cur, error, op, hw, reg>>

dpm_suspend_returns ==
  /\ phase = "suspended" /\ async_synchronize_full
  /\ phase' = IF error \/ async_error THEN "resume_start" ELSE "noirq"
  /\ UNCHANGED <<lists, in_suspend, completion, async_error, cur, error, op, hw, reg>>

-----------------------------------------------------------------------------
(* dpm_suspend_noirq, the sleep, dpm_resume_noirq.                         *)

device_suspend_noirq ==
  /\ phase = "noirq" /\ ~ empty("suspended")
  /\ \/ /\ lists' = list_move(last("suspended"), "noirq")
        /\ hw' = [hw EXCEPT ![last("suspended")] = "late"]
        /\ UNCHANGED phase
     \/ phase' = "resume_noirq" /\ UNCHANGED <<lists, hw>>
  /\ UNCHANGED <<in_suspend, completion, async_error, cur, error, op, reg>>

platform_sleep ==
  /\ phase = "noirq" /\ empty("suspended") /\ phase' = "asleep"
  /\ UNCHANGED <<lists, in_suspend, completion, async_error, cur, error, op, hw, reg>>

platform_wakeup ==
  /\ phase = "asleep" /\ phase' = "resume_noirq"
  /\ UNCHANGED <<lists, in_suspend, completion, async_error, cur, error, op, hw, reg>>

device_resume_noirq ==
  /\ phase = "resume_noirq" /\ ~ empty("noirq")
  /\ lists' = list_move_tail(first("noirq"), "suspended")
  /\ hw' = [hw EXCEPT ![first("noirq")] = "suspended"]
  /\ UNCHANGED <<in_suspend, completion, async_error, mainVars, op, reg>>

dpm_resume_noirq_returns ==
  /\ phase = "resume_noirq" /\ empty("noirq") /\ phase' = "resume_start"
  /\ UNCHANGED <<lists, in_suspend, completion, async_error, cur, error, op, hw, reg>>

-----------------------------------------------------------------------------
(* dpm_resume_end: dpm_resume, then dpm_complete.                          *)

(* All completions are reset, and the threads started, first.              *)
dpm_resume ==
  /\ phase = "resume_start" /\ phase' = "resume"
  /\ async_error' = FALSE
  /\ completion' = completion \ Range(lists["suspended"])
  /\ op' = [d \in Devices |->
              IF d \in Async \cap Range(lists["suspended"]) THEN "look" ELSE op[d]]
  /\ UNCHANGED <<lists, in_suspend, cur, error, hw, reg>>

dpm_resume_next ==
  /\ phase = "resume" /\ cur = NoDevice /\ ~ empty("suspended")
  /\ IF first("suspended") \in Async
       THEN /\ lists' = list_move_tail(first("suspended"), "prepared")
            /\ UNCHANGED <<cur, op>>
       ELSE /\ cur' = first("suspended") /\ step_op(cur', "look")
            /\ UNCHANGED lists
  /\ UNCHANGED <<in_suspend, completion, async_error, phase, error, hw, reg>>

(* device_resume looks whether its parent is still suspended, and waits.   *)
device_resume(d) ==
  /\ op[d] = "look"
  /\ \/ /\ parent[d] \in in_suspend /\ (d \in Async \/ parent[d] \in Async)
        /\ step_op(d, "wait_parent") /\ UNCHANGED in_suspend
     \/ /\ ~ (parent[d] \in in_suspend /\ (d \in Async \/ parent[d] \in Async))
        /\ step_op(d, "resuming") /\ in_suspend' = in_suspend \ {d}
  /\ UNCHANGED <<lists, completion, async_error, mainVars, hw, reg>>

dpm_wait(d) ==
  /\ op[d] = "wait_parent" /\ parent[d] \in completion
  /\ step_op(d, "resuming") /\ in_suspend' = in_suspend \ {d}
  /\ UNCHANGED <<lists, completion, async_error, mainVars, hw, reg>>

(* Errors are only reported.                                               *)
resume_callback(d) ==
  /\ op[d] = "resuming" /\ step_op(d, "none")
  /\ hw' = [hw EXCEPT ![d] = "on"] /\ completion' = completion \cup {d}
  /\ UNCHANGED <<lists, in_suspend, async_error, mainVars, reg>>

device_resume_returns ==
  /\ phase = "resume" /\ cur # NoDevice /\ op[cur] = "none"
  /\ cur' = NoDevice
  /\ lists' = IF listed(cur) THEN list_move_tail(cur, "prepared") ELSE lists
  /\ UNCHANGED <<in_suspend, completion, async_error, phase, error, op, hw, reg>>

dpm_resume_returns ==
  /\ phase = "resume" /\ cur = NoDevice /\ empty("suspended") /\ phase' = "resumed"
  /\ UNCHANGED <<lists, in_suspend, completion, async_error, cur, error, op, hw, reg>>

dpm_complete ==
  /\ phase = "resumed" /\ async_synchronize_full /\ phase' = "complete"
  /\ UNCHANGED <<lists, in_suspend, completion, async_error, cur, error, op, hw, reg>>

device_complete ==
  /\ phase = "complete" /\ ~ empty("prepared")
  /\ in_suspend' = in_suspend \ {last("prepared")}
  /\ lists' = list_move(last("prepared"), "completed")
  /\ UNCHANGED <<completion, async_error, mainVars, op, hw, reg>>

(* Mutant: list_splice_tail.                                               *)
dpm_complete_returns_mutant ==
  /\ phase = "complete" /\ empty("prepared") /\ phase' = "idle"
  /\ lists' = [lists EXCEPT !["dpm_list"] = @ \o lists["completed"],
                            !["completed"] = <<>>]
  /\ UNCHANGED <<in_suspend, completion, async_error, cur, error, op, hw, reg>>

dpm_complete_returns ==
  /\ phase = "complete" /\ empty("prepared") /\ phase' = "idle"
  /\ lists' = [lists EXCEPT !["dpm_list"] = lists["completed"] \o @,
                            !["completed"] = <<>>]
  /\ UNCHANGED <<in_suspend, completion, async_error, cur, error, op, hw, reg>>

-----------------------------------------------------------------------------
opStep(d) ==
  \/ __device_suspend(d) \/ suspend_callback(d) \/ suspend_complete(d)
  \/ suspend_set_error(d) \/ device_resume(d) \/ dpm_wait(d) \/ resume_callback(d)

mainStep ==
  \/ device_prepare \/ device_prepare_fails \/ dpm_suspend \/ device_suspend
  \/ device_suspend_returns \/ all_suspended \/ dpm_suspend_returns
  \/ device_suspend_noirq \/ platform_sleep \/ device_resume_noirq
  \/ dpm_resume_noirq_returns \/ dpm_resume \/ dpm_resume_next
  \/ device_resume_returns \/ dpm_resume_returns \/ dpm_complete
  \/ device_complete \/ dpm_complete_returns

Next ==
  \/ dpm_prepare \/ platform_wakeup \/ mainStep
  \/ \E d \in Devices : device_pm_add(d) \/ device_pm_remove(d) \/ opStep(d)

Spec == Init /\ [][Next]_vars

(* Callbacks return, threads that are ready run, and what is asleep is     *)
(* woken.                                                                  *)
Fairness == /\ WF_vars(mainStep) /\ WF_vars(platform_wakeup)
            /\ \A d \in Devices : WF_vars(opStep(d))

FairSpec == Spec /\ Fairness

-----------------------------------------------------------------------------
TypeOK ==
  /\ DOMAIN lists = ListNames
  /\ \A n \in ListNames : Range(lists[n]) \subseteq reg
  /\ in_suspend \subseteq Devices /\ completion \subseteq Devices /\ reg \subseteq Devices
  /\ async_error \in BOOLEAN /\ error \in BOOLEAN
  /\ phase \in Phases /\ cur \in Devices \cup {NoDevice}
  /\ op \in [Devices -> OpStates] /\ hw \in [Devices -> {"on", "suspended", "late"}]

before(l, a, b) == \E i, j \in 1..Len(l) : i < j /\ l[i] = a /\ l[j] = b

(* Every registered device is on one list, once, and behind its parent:    *)
(* the order on which suspending from the back relies survives failures,   *)
(* new devices and dpm_complete's local list.                              *)
ListOrder ==
  LET l == lists["completed"] \o lists["dpm_list"]
      m == lists["prepared"] \o lists["suspended"] \o lists["noirq"]
      all == m \o l
  IN  /\ Range(all) = reg /\ \A i, j \in 1..Len(all) : all[i] = all[j] => i = j
      /\ phase = "idle" => \A c \in reg : parent[c] \in reg
                                            => before(lists["dpm_list"], parent[c], c)

(* The platform sleeps only with every device, asynchronous ones included, *)
(* suspended and its noirq callback done.                                  *)
AsleepAllOff == phase = "asleep" => \A d \in reg : hw[d] = "late"

(* After a transition, whether it failed, and where, or not, every device  *)
(* is on and none is still being resumed.                                  *)
AllBackOn ==
  phase = "idle" => /\ in_suspend \cap reg = {}
                    /\ \A d \in reg : hw[d] = "on" /\ op[d] = "none"

(* Documentation/power/devices.txt: a child is never suspended after its   *)
(* parent.  Whatever threads suspend them, no parent is down over a child  *)
(* that is on, unless a failure or a wakeup is on record in async_error or *)
(* on its way there, complete_all having come first.                       *)
ChildrenDownFirst ==
  phase \in {"suspend", "suspended"} /\ ~ async_error
    /\ (\A d \in Devices : op[d] # "failing")
  => \A d \in reg \ {root} : hw[d] = "on" => hw[parent[d]] = "on"

(* And a child is never resumed before its parent: its callback is not     *)
(* called until the parent's has returned, after every failure.  With      *)
(* async_suspend it is: device_resume clears in_suspend, on which a child  *)
(* decides to wait, before it calls the parent's callback.                 *)
ParentsUpFirst ==
  \A d \in reg \ {root} :
    d \notin Async /\ parent[d] \notin Async /\ op[d] = "resuming" => hw[parent[d]] = "on"

(* A transition ends: waiting for children and parents does not block it.  *)
TransitionEnds == phase # "idle" ~> phase = "idle"

(* The lists of the device core hold each registered device once, and      *)
(* parents come before children on dpm_list whenever a transition starts.  *)
ListsSound ==
  /\ TypeOK
  /\ ListOrder

(* The hardware follows the transition: all of it is off when the platform *)
(* sleeps and on again when the transition is over, whatever failed on the *)
(* way down.                                                               *)
HardwareFollows ==
  /\ AsleepAllOff
  /\ AllBackOn

(* A parent goes down after its children and comes up before them, as      *)
(* dpm_wait_for_children, dpm_wait and the order of the lists provide.     *)
FamilyOrder ==
  /\ ChildrenDownFirst
  /\ ParentsUpFirst
=============================================================================
