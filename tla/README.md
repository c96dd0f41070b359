# nubernel-2.6.35: TLA+ models and proofs

The repository is the Linux 2.6.35 kernel of an Android phone (Samsung
SPH-D700, one ARM processor, `CONFIG_PREEMPT`, `HZ=1000`) with the patches of
the nubernel project. This directory models first of all the part that decides
whether, when and how the phone sleeps: wake locks, early suspend, wakeup events, the
task freezers, the suspend transition, the device core and the clock of the
processor. It is kernel code that runs all the time, from interrupts, timers,
work queues and user processes at once, and whose errors show as a phone that
does not wake or does not sleep. Two parts beside it are modelled because they
are the phone's own and hard to test: the default I/O scheduler and the Android
logger. All paths below are relative to `src/Kernel/`;
the configuration is `arch/arm/configs/victory_nubernel-bml_defconfig`.

## 1. Inventory

### Components modelled

**Wake locks** (`kernel/power/wakelock.c`). State: for each lock its flags
(initialized, active, auto-expire) and expiry; one list of active locks, those
without a timeout first; `expire_timer`; `current_event_num`; the single-threaded
work queue `suspend_work_queue`. Operations: `wake_lock_init`,
`wake_lock_destroy`, `wake_lock`, `wake_lock_timeout`, `wake_unlock`, the timer
handler `expire_wake_locks`, the work `suspend`, the late device callback
`power_suspend_late`. All list operations hold `list_lock`; the hard part is
everything between them: a timer detached but not yet run, a suspend work in any
of its steps, a lock taken after the last check. Correct means: no suspend while a
lock blocks it, and no suspend forgotten once nothing blocks it.

**Early suspend** (`kernel/power/earlysuspend.c`). State: the bits
`SUSPEND_REQUESTED` and `SUSPENDED`, the requested state, the handlers by level.
Operations: `request_suspend_state` (from a write to `/sys/power/state`),
`register_early_suspend`, `unregister_early_suspend`, the works `early_suspend`,
`late_resume` and `sync_system`. It runs on the wake locks' queue and holds or
releases the main wake lock. Requests may change several times before a work
runs. Correct means: the main lock is given up only when sleep is both requested
and carried out; each handler is in the state the bits say; the last request wins.

**Wakeup events** (`drivers/base/power/wakeup.c`, with `wakeup_count` of
`kernel/power/main.c`). State: two counters, a saved count, an armed flag, a timer
and its expiry in a word that wraps. Operations: `pm_stay_awake`, `pm_relax`,
`pm_wakeup_event`, `pm_wakeup_timer_fn`, `pm_get_wakeup_count`,
`pm_save_wakeup_count`, and `pm_wakeup_pending` called from the freezer, the
device core and `suspend_enter`. Correct means: the count of open periods is
exact, periods end, and an armed check stops a transition that events came
into.

**Task freezer** (`kernel/freezer.c`, `kernel/power/process.c`,
`include/linux/freezer.h`). State: `TIF_FREEZE` and `PF_FROZEN` of every task,
and where the freezing thread is. Operations: `freeze_task`, `refrigerator`,
`cancel_freezing`, `thaw_process` and the loops of `try_to_freeze_tasks` and
`thaw_tasks`. Hard: flags are read and written without a common lock; tasks that
are stopped or wait for a vfork are not counted; freezing fails half way. Correct
means: a freeze that succeeds leaves no task running, and a thaw leaves no task
behind.

**Cgroup freezer** (`kernel/cgroup_freezer.c`, with its callers in
`kernel/cgroup.c` and `kernel/fork.c`). State: the state of the cgroup and which
tasks are in it; the flags are those of the task freezer. Operations:
reads and writes of `freezer.state`, attach, fork, exit. Two freezers share one flag per
task. Correct means: FROZEN says that every task is frozen, the root
cgroup never freezes, and a suspend neither fails to stop nor sets free a frozen cgroup.

**Device core** (`drivers/base/power/main.c`). State: the four lists, the flags and
completion of each device, `async_error`. Operations: registration and removal, and
prepare, suspend, noirq, resume and complete, by the transition's thread or by one
thread per asynchronous device. Correct means: children before parents on the
way down, the reverse on the way up, everything down when asleep, everything back
after any failure.

**Suspend transition and user mode helpers** (`kernel/power/suspend.c`,
`kernel/kmod.c`). State: what the transition has taken (mutex, console, helpers, tasks,
devices, processors, interrupts), `usermodehelper_disabled`, `running_helpers`, the queue
of khelper. Operations: each step down and its failure, each step up;
`call_usermodehelper_exec` in three modes. Correct means: undone in
reverse order, nothing kept, no user process created while tasks are frozen.

**CPU frequency and DVFS locks** (`arch/arm/mach-s5pv210/cpu-freq.c`,
`drivers/cpufreq/`). State: the token table, the clock level and two voltages, the
policy and the user's policy, the governor, `no_cpufreq_access`, four locks, the files
of ondemand and who is in them. Operations: `s5pv210_lock_dvfs_high_level` and its unlock,
the target call, the governors' START, STOP and LIMITS, ondemand's work and its files, the
policy files, the suspend notifier. Correct means: the voltage never below what the clock needs, locks in
effect while held, the clock fixed over a sleep, the user's range restored, nobody
blocked for ever.

**User space wake locks** (`kernel/power/userwakelock.c`). A tree of named locks, made
on first use, and a conversion of nanoseconds. Correct means: a name finds its own
lock, held as the last write asked.

**I/O scheduler** (`block/sio-iosched.c`, `noop-iosched.c`, `elevator.c`, parts of
`blk-core.c` and `blk-merge.c`). State: two FIFO lists with deadlines, a batch count,
the dispatch queue, `last_merge`, `nr_sorted`, `elvpriv`, the switch of schedulers.
Correct means: no request lost, counted wrongly, overtaking a barrier, left with a
scheduler that exits, or starved.

**Android logger** (`drivers/staging/android/logger.c`). State: a ring of bytes, a
write offset, an offset for new readers and one for each open one. Correct means:
a read returns one whole entry, whatever was overwritten, and returns when there is one.

### How they interact

A write of `mem` to `/sys/power/state` queues `early_suspend`, which calls the
handlers and releases the main wake lock. The last release or timeout of a wake
lock queues the work `suspend`, which checks the locks and calls `pm_suspend`
(`kernel/power/suspend.c`): it freezes tasks (asking `has_wake_lock` and
`pm_wakeup_pending` in every round that leaves some), suspends devices (asking
`pm_wakeup_pending` at each), asks the wake locks a last time in
`power_suspend_late` and `pm_wakeup_pending` with interrupts off, and sleeps. After
any return from it, `suspend` compares event numbers and, if no lock was taken,
takes `unknown_wakeup` for half a second, whose timeout starts the next try. A
write of `on` takes the main lock at once and queues `late_resume`.

Two modules are built on `WakeLock` (`EarlySuspend`, `UserWakeLock`) and
`CgroupFreezer` on `Freezer`: the code below is the same code, and its properties are
checked again where a new caller could break them (`SuspendNotLost` in two runs,
all of `WakeLock` under `UserWakeLock`, `FrozenEnough` as `AllFrozenEnough`).
`SuspendSequence` takes the freeze and the devices as one step each, whose insides are
`Freezer` and `DevicePM`. The I/O scheduler and the logger share no state with the
others.

### Components not (or only partly) modelled

`PROJECT.json` lists them all with reasons. Hibernation and console early suspend are
not compiled. The schedulers vr, bfq, cfq and deadline and the governors smartass and
interactive choose by sector, service time or load: what is right there is a matter of
tuning, not of a property.

Within reach and left to an extension:

* the hand-shake of `fbearlysuspend.c` with the process that draws. `EarlySuspend` has
  when its handler is called;
* the times of `CONFIG_WAKELOCK_STAT`, which only `/proc/wakelocks` reads;
* the loads and stores of the DVFS token table, whose mutex is commented out
  (`cpu-freq.c:496`), and `dvfslock_ctrl` (`kernel/power/main.c`) with its delayed unlock.
  `CpuFreq` takes a call on the table as one step, which is exact for the one owner of
  its instance;
* `device_pm_move_*`, the watchdog and the choice of callback by bus, type and class in
  the device core; the registers, DRAM refresh counters and undervolting in the frequency
  driver; plugging, request limits and flush sequences in the block layer.

The rest of the repository is the upstream kernel, its drivers, file systems and
network, and the build.

## 2. Modules

| module | models | composes |
| --- | --- | --- |
| `WakeupEvents` | wakeup events, `wakeup_count`, the checks of a transition | |
| `WakeLock` | wake locks and the suspend work | |
| `SuspendBlocker` | what wake locks promise (abstract) | implemented by `WakeLock` |
| `EarlySuspend` | early suspend | extends `WakeLock` |
| `Freezer` | task freezer | |
| `UserWakeLock` | locks named by user space | extends `WakeLock` |
| `CgroupFreezer` | cgroup freezer, fork, attach, exit | extends `Freezer` |
| `DevicePM` | device core with asynchronous devices and hot-plug | |
| `SuspendSequence` | `suspend.c` and user mode helpers | |
| `CpuFreq` | frequency changes, policy, governors, suspend notifier | |
| `SioElevator` | sio and noop under the elevator | |
| `Logger` | one Android log | |
| `MC*` | symmetry sets and small definitions for TLC | |
| `*_proofs` | theorems about the module named; `WakeLock_proofs` also about the two that extend it, `Freezer_proofs` about `CgroupFreezer` | |

Definitions carry the names of the C functions. A function that holds its lock
throughout is one action; a function that sleeps, or gives its lock up, is split where
it does, and each part is an action (`suspend_check`, `suspend_note`, ...). A
definition whose name ends in `_mutant` is a plausible error of the code, kept
to show that a property would notice it; nothing refers to it.

**WakeupEvents.** The variables are those of `wakeup.c`, plus `jiffies` as a
word of `JiffiesMod` values, the set `awake` of drivers between
`pm_stay_awake` and `pm_relax` (calls are paired, as the comment on line 43
demands), the readers, and the phase of the transition. The timer core is two
steps, `DetachTimer` and the handler, because `__run_timers` takes a timer off the
wheel before it calls the handler and drops its lock in between. `event_count` is
a 32-bit counter in the code; the model bounds it (`MaxEvents`) and so does not
let it wrap.

**WakeLock.** The active list is a set with an order relation, so that what the
list order guarantees can be stated and proved. Times are jiffies left.
`new_event` is the one thing the code asks of `current_event_num`: whether it
differs from the number the suspend work has noted. `worker` is the step the queue's
thread is at. `pm_suspend_fails` may follow any step before the platform's sleep: a
notifier, a device or the freezer's timeout. Drivers call lock functions until the
processor sleeps; `request_suspend_state` is called only while user space is not
frozen. `Tick` stops when no time is left to count. `wake_lock_destroy` takes a lock that
may be held; `dropped` marks that the last one held without a timeout was destroyed, from
when on, until a lock is taken or released, nobody looks whether a suspend is due.

**EarlySuspend** adds requests, handlers and the two other works to the same
queue, and replaces the free use of the main and sync locks by the calls the code makes.
Handlers are called one a step with `early_suspend_lock` held.

**Freezer** interleaves the freezing thread with the tasks at every access to a
flag, which is how the code is written (its barriers and comments are about
two processors). The shipped build has one processor: its behaviours are among
these. The task list is walked in any order. Tasks that never freeze
(`PF_NOFREEZE`) and exiting ones are not in `Tasks`.

**CgroupFreezer.** One cgroup beside the root. Operations hold `freezer->lock` with
interrupts off and the loops over all tasks hold `tasklist_lock`; on one processor
neither is seen half done by the other, so a cgroup operation does not happen
inside a loop. A fork is four steps. Kernel threads stay in the root cgroup.
Three situations break what a comment or document promises: a system freeze that
fails, a parent or child moved in the middle of a fork, a task moved with a request
pending. `allowed`, fixed in the initial state to a member of `Situated`, says which of
them can happen; each property is claimed for the behaviours without the ones that
break it, and the rest of the properties for all.

**DevicePM.** Start and end of a suspend or resume callback are separate steps; prepare,
noirq and complete callbacks are one step each, since nothing else runs for the
device then. A device is registered only under a parent that is registered and up.
`Async` chooses the devices with threads of their own; any callback may fail. The order of
`async_error` and `complete_all`, and of `in_suspend` and the callback, is kept:
`ChildrenDownFirst` and `ParentsUpFirst` are worded around it.

**SuspendSequence.** `held` is the sequence of what the transition has taken. Every
step that can fail has its failure, `disable_nonboot_cpus` included, and platforms with
any legal choice of `suspend_ops` callbacks are covered by `OpSets`. `suspend_test` is
off (`CONFIG_PM_DEBUG`). A process carries the two task flags that matter.

**CpuFreq.** Three of the levels are enough: SLEEP_FREQ (800 MHz, L6), the 1 GHz at which
`kernel/power/main.c:349` takes a lock (L4), and a slower one (L10). The read of the policy's
pair of limits is atomic, the clock change with its POSTCHANGE notification is one step,
`powersave_bias` is 0. The voltages go up before and down after the clock, each in its own
step, and may be refused in behaviours where `faulty` holds, fixed in the initial state.
A stop of ondemand waits for its work and then for the tasks that are in its files, as
`sysfs_remove_group` does, with `rwsem` held; `attr` is such a task. A governor whose
files cannot be created leaves the old one started again. Two auxiliary variables mark what
the code does not keep up: `raised`, a DVFS lock made the frequency of the sleep faster
than SLEEP_FREQ, and `range_lost`, the user's range was refused after a suspend. `Configured`
says that each table of enabled states has a frequency common to the ranges that are
written, without which no clock fits.

**UserWakeLock.** The tree is its in-order sequence; `FoundInEveryShape` then says what any
search tree over it finds. The words of the conversion are scaled down with their
proportions kept, with a timeout among `Nanos` whose jiffies are cut to 0; `asked` has "cut"
for a write of it.

**SioElevator.** Everything under `queue_lock` is one action. Sectors are
abstracted: any bio may fit any request, any neighbours may touch. Requests that noop
sorts into the dispatch queue go to its tail. Plugging, request limits, insertion
at the front and the flush sequence of a barrier are left out. The tunables are written at
any time; `shortened` marks a shorter expire time that is written while requests wait.
Sysfs may refuse a new scheduler's directory: then the queue points to a scheduler that has
exited until it is put back, and a call of it (`deref_exited`) is an oops, where the
behaviour ends. `before` and `passed` record what was queued before a barrier
and how often the expired head of the asynchronous list was passed over; nothing reads
these auxiliary variables but the properties.

**Logger.** A write is split where the process can sleep or meet a release, which does not take
the mutex: each reader of the walk, the header, each segment. Lengths are two bytes
of the ring, so that one can be split by its end. `whole` records the entries that are
complete. A copy from user space may fail at any segment. `logger_release` and the read of
`orig` are outside the mutex in the code, and each can lead to an accident that the model
has: a write that fails restores an `orig` which another write has made stale, and a file
is closed while a writer is at its reader (the writer then dies with the mutex held).
`damaged` marks the first of them, and everything is claimed up to it, for any number of
writers. `Size >= 2 * MaxLen` is what the code's power of two above `LOGGER_ENTRY_MAX_LEN`
amounts to.

## 3. Runs

| run | question | states |
| --- | --- | --- |
| `wakeup_events` | do counters and timer agree under late handlers and wrap-around, and does every read of `wakeup_count` return? | 178 404 |
| `wakeup_events_doc` | is a transition aborted by every event? (no) | violation |
| `wake_lock` | do list, timer, suspend work and the names of user space agree, and does it all implement `SuspendBlocker`, liveness included? | 313 120 |
| `wake_lock_doc` | does an active lock always prevent suspend? (no) | violation |
| `early_suspend` | do requests, handlers and main lock agree, and does the last request win? | 273 804 |
| `freezer` | is nothing left running, nothing left frozen, and does every frozen task run again? | 123 856 |
| `cgroup_freezer` | does a suspend stop all tasks and keep a FROZEN cgroup, does FROZEN mean frozen, does the root never freeze? | 2 741 215 |
| `device_pm` | do lists, sleep, order and recovery agree, does every transition end? | 46 381 |
| `suspend_sequence` | is everything given back in reverse order, do suspends and helper calls return? | 88 212 |
| `cpufreq` | voltage, sleep frequency, limits and range over changes and suspends, and is there one deadlock only? | 3 381 155 |
| `sio_elevator` | requests, counts, barriers and deadlines over a switch of schedulers, is every request served? | 160 448 |
| `logger` | until an accident, whole entries only, only the oldest dropped, does a read with something to read return? | 509 918 |

What each property says, and which code it is about, is in the comment above it. Most
runs check a few properties that are conjunctions of named parts:

| module | property | parts |
| --- | --- | --- |
| `UserWakeLock` | `UserLocksHold` | `UWTypeOK`, `FoundInEveryShape`, `UserLockAsAsked` |
| `EarlySuspend` | `HandlersFollow` | `ESTypeOK`, `HandlersMatchState`, `LevelOrder` |
| | `SleepInStep` | `MainLockHeld`, `AsleepIsEarlySuspended`, `SuspendNotLost` |
| | `LastRequestWins` | `SleepRequestHonoured`, `WakeupRequestHonoured` |
| `CgroupFreezer` | `FreezerPromises` | `CGTypeOK`, `AllFrozenEnough`, `FrozenMeansFrozen`, `NoFreezerBug`, `RootNotFrozen` |
| `DevicePM` | `ListsSound` | `TypeOK`, `ListOrder` |
| | `HardwareFollows` | `AsleepAllOff`, `AllBackOn` |
| | `FamilyOrder` | `ChildrenDownFirst`, `ParentsUpFirst` |
| `SuspendSequence` | `TransitionSound` | `TypeOK`, `Unwound`, `EnteredFullyDown`, `RefusedMeansAwake` |
| | `CallsReturn` | `SuspendReturns`, `HelperCallReturns` |
| `CpuFreq` | `ClockFits` | `TypeOK`, `VoltageCoversClock`, `LimitApplied` |
| | `SuspendKeepsClock` | `SleepFreqHeld`, `AccessRestored`, `PolicyRestored`, `RangeLostForCause` |
| `SioElevator` | `RequestsAccounted` | `TypeOK`, `CountsExact`, `LastMergeSorted`, `ExitsEmpty` |
| | `DeadlinesKept` | `FifoInDeadlineOrder`, `ExpiredServed` |
| | `EverybodyServed` | `RequestsServed`, `SwitchEnds` |
| `Logger` | `LogSound` | `LoggerTypeOK`, `EntriesIntact`, `OnlyOldestDropped` |

The mutant that goes with such a property breaks one of its parts; it is evidence
about that part, not about each of the others.

Bounds. `JiffiesMod = 8` with delays 1 and 2 and `MaxLatency = 1` keeps all live
times within half a word, as 2^32 does for real delays, and wraps through 0 in
every order. `MaxEvents = 3` allows one timed period to be extended while a
third event is under way. Two locks of user space, one name a prefix of the other, a
driver's lock with timeout 0 (it expires inside the call), `MaxTimeout` and an
`UnknownTimeout` of 1 give every order of timeouts and locks without one. `Nanos` has, beside
0, one timeout: the least whose jiffies are a multiple of the word and are cut to 0. The
theorem covers all others. The early suspend run has one driver lock and two handlers on
two levels (three locks of its own besides); its queue holds all three works. Two user
tasks and one kernel thread suffice for the freezer's two passes: no step looks at
more than one task, and the loops only count.

The cgroup run has two user tasks, each of which can fork the other, move and write,
and a kernel thread. Four devices in a tree of depth three
give a parent with two children and a chain; the orders of threads on it are all
there are between a device and its relatives. Two helper calls meet on one khelper.
Three frequency levels, a DVFS owner that locks at the fastest, a range that excludes
SLEEP_FREQ and the one that does not, two tables of enabled states, three governors, a task
in ondemand's files and a suspend are every pair of threads on the locks, and every case
that the properties except.
Two I/O requests merge with, wait for or stand on either side of one another; a third
only repeats a pair. `fifo_batch` is 0 or 1 and `async_expire` 0 or 1, both written at any
time. Two processes write to a ring of 9 bytes: two entries of 4 bytes do not fill it, so
that entries start at every offset, straddle its end in the header and in the payload, and
each write laps the reader or the head. The run stops at the first accident (`Undamaged`):
`damaged` is never taken back and each property claims nothing once it is set, so what
follows is no part of the question.

Deadlock is checked in every run where the system can always go on, since drivers or tasks
can always act. It is not in three, where the code can really stop: `cpufreq`, by the
circular wait that `NoCircularWait` excepts; `sio_elevator`, by the oops of `deref_exited`; and
`logger`, by the oops of a writer that holds the mutex.

### Fairness

* Time and timers (`Tick`, `DetachTimer`, the handlers): the timer interrupt.
* The worker thread (`suspend /\ running`, `esWorker`): a kernel thread that is
  ready is run; every step of the work ends, freezing by its 20 s `TIMEOUT`. Whether
  anything wakes a sleeping processor is *not* assumed for the wake locks.
* `WakeupEvents`: each `pm_stay_awake` is followed by its `pm_relax`, which is
  what the comment on line 43 asks of drivers; and, for the readers' sake, some wakeup
  follows a sleep, since frozen readers run only then.
* `Freezer`: ready tasks run (`taskStep`), the freezing thread gets on; strong fairness
  of `round_fails` is the `TIMEOUT` again: rounds that leave tasks are not repeated
  for ever. Nothing is assumed of what a task waits for.

* `DevicePM`: callbacks return, threads run, the platform wakes. `SuspendSequence`: the
  caller, khelper and the callers of helpers run, and helper programs end.
* `CpuFreq`: none. Liveness with strong fairness of six threads on four locks is beyond
  TLC here; `NoCircularWait`, an invariant, says that they block one another in no cycle but
  the one.
* `SioElevator`: until an oops, time passes, tasks insert what they allocated, the driver
  fetches, a switch goes on; completion is strong, since a driver may requeue a request but
  not for ever.
* `Logger`: a write and a read that were started go on; the mutex is granted in turn. No
  write is assumed to follow.

### What the violations show

`wakeup_events_doc`: `pm_wakeup_pending` (`wakeup.c:187`) joins its two conditions with
`&&`, where its comment and `main.c:247` promise an abort for either. An event
without a processing time, or one already processed, or one still in progress that has
not moved the count, does not stop the transition.

`wake_lock_doc`: the last look at wake locks is a noirq device callback. Interrupts of
the timer and threads that are not frozen run until `suspend.c:164`; a lock taken there
does not prevent the sleep. `LateLockIsNewEvent` shows what does hold: the work
notices it on the way back.

### Limits of what is claimed

The code does less than its comments say in more places than the two above. There the
excluded behaviour is in the model and the runs reach it; the property has the exception in
its formula and names it in its comment, and is claimed for what remains:

* Wake locks. `wake_lock_destroy` takes a lock off the list without looking whether it was
  the last one: after that of a lock held without a timeout, which `s5pc110_battery.c:2269`
  can do, no suspend is queued and no timer started until another lock is taken or released.
  `SuspendNotLost`, `TimerCoversLocks`, `RetriesWhenUnlocked` and the fairness part of
  `ImplementsBlocker` except it (`dropped`).
* Cgroup freezer. A failing suspend takes back the request of a stopped task that a FROZEN
  cgroup counts on (`process.c:119`), which then runs when it is continued and forks into the
  `BUG_ON` at `cgroup_freezer.c:236`; a parent moved away in the middle of a fork lets the
  cgroup freeze under a child it does not see (the same `BUG_ON`); a task
  takes its request along to the root (`cgroup_freezer.c:190`): `FrozenMeansFrozen`,
  `NoFreezerBug` and `RootNotFrozen` name the situations in `allowed`. `THAWED` written
  before any task has frozen changes nothing (`cgroup_freezer.c:347`): no property says it
  does.
* Device core. The completion is signalled before `async_error` is set (`main.c:923`), so
  a parent can go down over a child that is failing; `in_suspend` is cleared before the
  callback (`main.c:531`), so an asynchronous child need not wait for it.
  `ChildrenDownFirst` and `ParentsUpFirst` exclude these.
* Helpers. A call that does not wait is not counted while it is queued (`kmod.c:406`);
  hence `NoWaitedHelperStarts` is about calls that wait. Helper processes inherit
  `PF_NOFREEZE` from khelper and are not among the tasks the freezer stops.
* Frequency. A DVFS lock at 1 GHz (`kernel/power/main.c:349-353`) overrides SLEEP_FREQ
  (`cpu-freq.c:614`), and the system sleeps at the faster clock, against "Use 800MHz when
  entering sleep" (`SleepFreqHeld`, `raised`). A range of the user without 800 MHz is refused
  after a suspend, since it does not overlap the forced one (`cpufreq.c:1823`), and the policy
  stays at 800 MHz (`PolicyRestored`, `LimitApplied`, `range_lost`); `RangeLostForCause` says
  that this is the only reason. Ondemand does not call the driver on LIMITS (`LimitApplied`
  excludes it).
* Governor files. A write of `scaling_governor` stops ondemand with the policy's `rwsem` held
  (`cpufreq.c:1870`), against the rule at `cpufreq.c:74`. The stop removes ondemand's files
  (`cpufreq_ondemand.c:750`) and waits for the tasks in them, which wait for `rwsem`
  (`cpufreq.c:793`, `818`): a deadlock. `NoCircularWait` says that every circular wait contains
  this one (`StopUnderRwsem`).
* User space wake locks. A timeout whose jiffies are a multiple of 2^32 is stored as none
  (`userwakelock.c:75`): the lock is held until it is released. `UserLockAsAsked` says this of
  a write that is "cut", and the timeout of any other.
* I/O. With `fifo_batch` 0 (`sio-iosched.c:296`) expired asynchronous requests always go first
  and a synchronous one may wait for ever (`RequestsServed` excepts it). A shorter `sync_expire`
  or `async_expire` written while requests wait puts earlier deadlines behind later ones
  (`FifoInDeadlineOrder`, `shortened`). The bound of one batch is for the head of the
  asynchronous list; an expired request behind it waits a batch more for each ahead of it
  (`ExpiredServed`). After a refused registration the queue points to a scheduler whose
  `ops` are NULL (`elevator.c:298` until `1058`), without `queue_lock`; a dispatch then is an
  oops (`deref_exited`): `SwitchEnds` excepts it and `RequestsAccounted` does not say that the
  scheduler the queue points to is alive.
* Logger. The two accidents (`damaged`): `orig` is read before the mutex is taken
  (`logger.c:409`) and a failing write restores it over what another has written, after which
  entries are no longer whole and a reader that is ahead of the restored offset is not woken;
  a release (`logger.c:533-540`) frees a reader that a writer is at. `LogSound` and
  `BlockedReadEnds` claim nothing after either.

## 4. Proofs

All theorems hold for every value of the constants that satisfies the named
assumptions of the modules; `tlapm` checks them to the last leaf. TLC evaluates the
assumptions in every run whose module extends theirs.

**WakeupEvents_proofs** (`TypeCorrect`, `CountersExact`, `ArmedCheckCoversTimer`,
`TimedPeriodHasTimer`). Assumes finitely many drivers, a word of at least two values,
delays that are positive and handlers that are late by less than half a word
(`LatencyAssumption`: `time_after` means nothing beyond it). The inductive invariant is
the type invariant, `InProgressExact`, `SavedNotAhead` and `ArmedCountCoversTimer`.
`InProgressExact` is needed for types: the handler's decrement stays in Nat because an
open timed period counts for one. `SavedNotAhead` is needed so that an event always moves
the count away from the saved one. `TimedPeriodEnds` is inductive with the types alone;
its hard step is the tick of a word that wraps (`TickKeepsPast`).

**WakeLock_proofs** (`TypeCorrect`, `PermanentLocksFirst`, `ExpireTimerCovers`,
`SuspendIsNotLost`, `LateLocksAreEvents`). Assumes the three own locks are distinct and
timeouts are within `MaxTimeout`. The conjunction of the five invariants is inductive.
The central lemmas: `max_timeout` is well defined and is the maximum (by
well-foundedness of the naturals); the result of `has_wake_lock_locked` is -1, 0 or
positive exactly as the locks say; and `Settled`: whatever list an operation leaves, the
timer and the queue it sets from that result restore `TimerCoversLocks` and
`SuspendNotLost`. Each lock operation is then one application of `Settled`.

The same module has the refinement, `WakeLockImplementsBlocker`: `Spec => Blocker!Spec`.
The locks that block are the active ones whose time has not run out; the suspend
work is trying from its first check on and committed from `power_suspend_late` on.
Dropping timed-out locks from the list is a stutter, which needs `PermanentFirst`.

Early suspend, in the same module (`HandlersFollowWorks`, `SleepStaysInStep`). Assumes, beside
those of wake locks, that levels are natural numbers (`LevelsAssumption`). The invariant has two
parts. `HandlerInv` is about lists: the handlers are in order of level and occur once, and
in the middle of a work those called and those in `todo` are the whole list, split at a
level (`Suspending`, `Resuming`), from which `LevelOrder` follows although handlers come
and go between works. `LockInv` is the invariant of wake locks, whose step lemmas are used
again, with the main lock never timed, held as `MainLockHeld` says, and the system past
`power_suspend_late` only with both state bits set.

User space wake locks, in the same module (`UserLocksStayAsAsked`, `UserWritesKeepWakeLocks`,
`UserWritesImplementBlocker`). Assumes that names are sequences of characters, each with a lock
of its own among the drivers' (`UserAssumption`). `diff`, which compares a written name with
one of the tree, is shown to be a strict total order on names (`DiffIsOrder`, by the first place
where two names differ), the tree to be sorted by it, and `insert` to keep it so
(`InsertKeepsOrder`); hence a search in any shape of the tree finds the name. That the lock is
as the last write asked rests on `WriteEffect`: a write leaves the lock of its own name as it
was asked for, and any other lock at most found to have timed out; a timeout that is not cut
is at least one jiffy as a long (`TimeoutIsLong`). The other two theorems: whatever is written, the
list, the timer and the suspend work keep the invariants of `wakelock.c`, and `SuspendBlocker` is
still implemented.

**Freezer_proofs** (`TypeCorrect`, `NoTaskRunsWhenFrozen`, `KernelThreadsFreezeLast`,
`NoTaskLeftFrozen`). Assumes only that kernel threads are tasks. The strengthening
says what `freeze_task` has read and still holds (`CallInv`), how the two flags go with
the task's place in `refrigerator` (`FlagInv`), what a round that has counted no task yet
has established (`FreezeInv`), and that the second thaw pass leaves nothing behind
(`ThawInv`). `TaskStep` proves once that no step of a task sets a request or loses
"frozen enough"; the invariant's parts follow from that.

The cgroup freezer, in the same module (`PromisesKept`, `FrozenStaysFrozen`). Assumes that
`Situated` holds sets of situations. `CallInv`, `FreezeInv` and `ThawInv` do not hold with
a cgroup: a task may be asked to freeze, fork or exit between the rounds, and a FROZEN
cgroup survives a thaw. Their place is taken by `LoopInv`, `PassInv` (tasks on the list
only; in the second pass no user task is half made) and `LeftInv` (what is frozen after a
thaw is frozen for the cgroup's sake). `ForkInv` says that a task runs while it forks. Hence
`Awake`: a user task that runs has been counted in this round or is still to be looked
at, so no operation of user space can undo a round that is about to succeed. `MoveInv`
says what each of the situations is needed for. `FrozenStaysFrozen` is an action
property and needs no invariant. The proof showed that `NoFreezerBug` had been claimed
for too much: a freeze that fails leads to the `BUG_ON` too (see "Limits").

**SuspendSequence_proofs** (`TransitionIsSound`, `ReverseOrder`,
`NoHelperWaitedForStartsFrozen`). Assumes that a platform which has a callback of the way
down has its counterpart (`OpSetsAssumption`, what `suspend_ops` documents), the three
modes of a call (`ModesAssumption`) and finitely many calls (`CallsFinite`). The invariant of
the transition is one equation, `held = stack(pc, suspend_ops)`: what is held is a function
of the step and of the platform's callbacks. Each step then takes the top of one stack to
the next, which is `UndoneInReverse`. For helpers it says that `running_helpers` is the
cardinality of the calls past the check, that a call which waits is counted, and that the
queue holds a call once.

**CpuFreq_proofs** (`NoDeadlock`, `VoltagesCover`, `ClockStaysFit`,
`SuspendKeepsTheClock`). Assumes the shape of the tables (`CpuFreqAssumption`), limits that
are natural numbers (`WritesAssumption`) and threads with names of their own
(`ThreadsAssumption`). `NoDeadlock` rests on the order `rwsem`, `timer_mutex`,
`set_freq_lock`, and on ondemand's work never taking `rwsem` (`LockInv`): the holder of each of
the last two does not wait or waits for the next, so that what is left of a circle is a thread
that holds `rwsem` and removes files. `VoltInv` says
what voltage each step of a change has reached; it holds with regulators that
fail. The last two theorems have the hypothesis `Configured`, which asks that each
table of enabled states has a frequency common to the ranges written; locks may be of any level
and ranges may exclude SLEEP_FREQ. The instance TLC checks satisfies it (`MCConfigured`).
`ConfInv` says who holds `rwsem` where (`HoldsRwsem`), what each thread has asked of the driver
(`MarkInv`), that access is refused only on behalf of the suspend thread (`AccessInv`), what a
sleep finds, raised by a lock or not (`AsleepInv`), that the policy is the verified one of the user
once restored, unless `range_lost` (`PolicyInv`), and that the change under way respects every
lock in effect (`LimitInv`).

**DevicePM_proofs** (`ListsStaySound`, `HardwareFollowsTransition`, `FamilyOrderKept`). Assumes a
tree of devices (`DevicesAssumption`). Read one after the other, `dpm_prepared_list`,
`dpm_suspended_list`, `dpm_noirq_list`, the local list of `dpm_complete` and `dpm_list` are
one sequence in which a child comes after its parent (`Family`); a device goes from the end
of one list to the near end of another with empty ones between (`PhaseLists`), so no move
changes that order. The rest of the invariant follows the position of a device in it: which
devices have `in_suspend` set, where the threads of asynchronous devices may be (`Threads`), which
devices are not reached yet (`Untouched`), and that one that is reached is off or a failure is
on record (`Reached`). `ChildrenDownFirst` needs `Waited`: a callback runs over children that
are down.

**SioElevator_proofs** (`RequestsStayAccounted`, `NothingOvertakesBarriers`, `DeadlinesStayKept`).
Assumes finitely many requests and tunables that are natural numbers (`SioAssumption`). What one
dispatch does to the lists is stated once (`DispatchMoves`), about the record `lists`, and
carried over `elv_drain_elevator` by an induction over the number of dispatches, written
out with the well-foundedness of the naturals; the same gives the existence of the recursive
function `after_dispatches`. `Switching` says that from the attach of the new scheduler to the
end of the switch no request has to do with one, from which the `BUG_ON`s of the exit functions
follow. `DeadlinesStayKept` holds with writers of the tunables at any time.

**Logger_proofs** (`LogStaysSound`). Assumes lengths that two bytes
hold, a header of at least two bytes and a ring of two entries of the greatest length
(`LoggerAssumption`). All offsets are measured by their distance from the start of the entry
under way, or of the next one: from there forward lie first the oldest entries and last the
newest. The invariant says that the whole entries lie side by side behind what is written
(`Ring`), that head and every reader have nothing but whole entries from where they are to the
start of the entry under way (`Cover`), and that those which `fix_up_readers` has been at are
beyond the reach of the write (`Passed`). `Walk` shows by induction over the length that
`get_next_entry` ends at the start of an entry; `FixUp`, with `ClockInterval`, that
`fix_up_readers` moves exactly the offsets the write reaches, and not too far; `WriteBytes` that a
write changes nothing a reader has before it; `EntryEnds` moves the origin to the end of
the entry. A failing write takes the offset back to the start of its entry, unless that is
the accident which sets `damaged`; so `LogStaysSound` has no hypothesis and is about any number
of writers.

Only model-checked: liveness, and the fairness part of the refinement. These need fairness and
`ENABLED`, which are out of the prover's reach.

## 5. Plan

Done: all modules of the table in section 2 and the proofs of section 4; every invariant that a
run checks is also a theorem. Next, in this order:

1. An abstract log, a queue that forgets its oldest entries, that `Logger` implements.
2. The parts of section 1 within reach and not modelled: `device_pm_move_*` and the choice
   of callbacks in `DevicePM`, the frame buffer's hand-shake on `EarlySuspend`, the
   statistics on `WakeLock`, the token table under `CpuFreq`.
