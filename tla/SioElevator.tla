---------------------------- MODULE SioElevator ----------------------------
(***************************************************************************)
(* block/sio-iosched.c, the default I/O scheduler of this kernel, under    *)
(* the elevator of block/elevator.c: requests are allocated, inserted,     *)
(* merged, dispatched to the driver, requeued and freed, while user space  *)
(* tunes the scheduler and switches between it and noop.                   *)
(*                                                                         *)
(* Everything under queue_lock is one action.  Where a request's sectors   *)
(* are is left out: any bio may turn out to extend any request that is     *)
(* still with the scheduler, and any two neighbours to touch.  Requests    *)
(* that noop sorts into queue_head go to its tail: their order between two *)
(* barriers is not looked at.  Plugging, the limits of get_request and the *)
(* sequence of flushes a barrier stands for are left out.                  *)
(***************************************************************************)
EXTENDS Integers, Sequences, FiniteSets, SequencesExt

CONSTANTS
  Rq,              \* struct requests
  NONE,
  Expires,         \* [SYNC |-> values of sync_expire, ASYNC |-> of async_expire],
                   \* in jiffies
  DefaultExpire,   \* [SYNC |-> sync_expire, ASYNC |-> async_expire]
  Batches,         \* values of fifo_batch
  DefaultBatch

Sync == {"SYNC", "ASYNC"}
ExpireTimes == {f \in [Sync -> Nat] : \A s \in Sync : f[s] \in Expires[s]}

ASSUME SioAssumption ==
  /\ NONE \notin Rq /\ IsFiniteSet(Rq)
  /\ Expires \in [Sync -> SUBSET Nat] /\ DefaultExpire \in ExpireTimes
  /\ Batches \subseteq Nat /\ DefaultBatch \in Batches

VARIABLES
  rq,            \* the flags of each request, and jiffies to its rq_fifo_time
  task,          \* allocated, not yet inserted
  driver,        \* in flight
  queue_head,    \* the dispatch queue
  fifo_list, batched, fifo_expire, fifo_batch,   \* struct sio_data
  noop_queue,
  nr_sorted, last_merge, elvpriv,
  elevator,      \* the scheduler the queue points to
  alive,         \* schedulers between their init and their exit
  elvswitch,     \* QUEUE_FLAG_ELVSWITCH
  switcher,      \* where elevator_switch is, or "oops"
  before,        \* requests that were queued when a barrier was
  passed,        \* dispatches since the last write of fifo_batch that passed
                 \* over the expired head of the async list, counted up to
                 \* fifo_batch + 2
  shortened      \* an expire time was shortened while requests waited for it

sioVars == <<fifo_list, batched, fifo_expire, fifo_batch>>
switchVars == <<elevator, alive, elvswitch, switcher>>
vars == <<rq, task, driver, queue_head, sioVars, noop_queue, nr_sorted, last_merge,
          elvpriv, switchVars, before, passed, shortened>>

noRq == [sync |-> "SYNC", priv |-> FALSE, barrier |-> FALSE, left |-> 0]

Init ==
  /\ rq = [r \in Rq |-> noRq] /\ task = {} /\ driver = {} /\ queue_head = <<>>
  /\ fifo_list = [s \in Sync |-> <<>>] /\ batched = 0
  /\ fifo_expire = DefaultExpire /\ fifo_batch = DefaultBatch
  /\ noop_queue = <<>>
  /\ nr_sorted = 0 /\ last_merge = NONE /\ elvpriv = 0
  /\ elevator = "sio" /\ alive = {"sio"} /\ elvswitch = FALSE /\ switcher = "idle"
  /\ before = [r \in Rq |-> {}] /\ passed = 0 /\ shortened = FALSE

sorted == Range(fifo_list["SYNC"]) \cup Range(fifo_list["ASYNC"]) \cup Range(noop_queue)
free == Rq \ (task \cup driver \cup Range(queue_head) \cup sorted)
----------------------------------------------------------------------------
(* The lists of the scheduler and the queue as one value.                  *)
lists == [fifo_list |-> fifo_list, noop_queue |-> noop_queue, queue_head |-> queue_head,
          batched |-> batched, nr_sorted |-> nr_sorted, last_merge |-> last_merge,
          passed |-> passed]

set_lists(s) ==
  /\ fifo_list' = s.fifo_list /\ noop_queue' = s.noop_queue /\ queue_head' = s.queue_head
  /\ batched' = s.batched /\ nr_sorted' = s.nr_sorted /\ last_merge' = s.last_merge
  /\ passed' = s.passed

expired(r) == rq[r].left < 0

sio_expired_request(s, sync) ==
  LET f == s.fifo_list[sync]
  IN  IF f # <<>> /\ expired(Head(f)) THEN Head(f) ELSE NONE

(* Mutant: the synchronous one first.                                      *)
sio_choose_expired_request_mutant(s) ==
  LET sync == sio_expired_request(s, "SYNC")
  IN  IF sync # NONE THEN sync ELSE sio_expired_request(s, "ASYNC")

sio_choose_expired_request(s) ==
  LET async == sio_expired_request(s, "ASYNC")
  IN  IF async # NONE THEN async ELSE sio_expired_request(s, "SYNC")

sio_choose_request(s) ==
  CASE s.fifo_list["SYNC"] # <<>> -> Head(s.fifo_list["SYNC"])
    [] s.fifo_list["SYNC"] = <<>> /\ s.fifo_list["ASYNC"] # <<>> -> Head(s.fifo_list["ASYNC"])
    [] OTHER -> NONE

(* Mutant: last_merge is kept.                                             *)
elv_dispatch_add_tail_mutant(s, r) ==
  [s EXCEPT !.nr_sorted = @ - 1, !.queue_head = Append(@, r)]

elv_dispatch_add_tail(s, r) ==
  [s EXCEPT !.nr_sorted = @ - 1, !.queue_head = Append(@, r),
            !.last_merge = IF @ = r THEN NONE ELSE @]

sio_dispatch_requests(s) ==
  LET check == s.batched > fifo_batch
      e == IF check THEN sio_choose_expired_request(s) ELSE NONE
      r == IF e # NONE THEN e ELSE sio_choose_request(s)
      b == IF check THEN 0 ELSE s.batched
      waiting == sio_expired_request(s, "ASYNC")
  IN  IF r = NONE THEN [s EXCEPT !.batched = b]
      ELSE elv_dispatch_add_tail(
             [s EXCEPT !.fifo_list[rq[r].sync] = RemoveFirst(@, r),
                       !.batched = b + 1,
                       !.passed = CASE waiting \in {NONE, r} -> 0
                                    [] waiting \notin {NONE, r} /\ @ <= fifo_batch + 1 -> @ + 1
                                    [] OTHER -> @], r)

noop_dispatch(s) ==
  IF s.noop_queue = <<>> THEN s
  ELSE elv_dispatch_add_tail([s EXCEPT !.noop_queue = Tail(@)], Head(s.noop_queue))

elevator_dispatch(s) ==
  IF elevator = "sio" THEN sio_dispatch_requests(s) ELSE noop_dispatch(s)

(* The lists after n dispatches, and after elv_drain_elevator, which       *)
(* dispatches until there is nothing left.                                 *)
after_dispatches[n \in 0..(Cardinality(Rq) + 1)] ==
  IF n = 0 THEN {lists} ELSE {elevator_dispatch(s) : s \in after_dispatches[n - 1]}

drained == after_dispatches[Cardinality(Rq) + 1]
----------------------------------------------------------------------------
(* Calls of the scheduler go through q->elevator->ops, which elevator_exit *)
(* sets to NULL.  A scheduler that holds requests is alive, so the guard   *)
(* is needed only where there may be none.                                 *)
has_ops == elevator \in alive

(* __make_request with no request to merge with: get_request_wait, which   *)
(* drops queue_lock.  A failed allocation gives all of it back.            *)
get_request(r, sync, barrier) ==
  /\ r \in free /\ has_ops
  /\ task' = task \cup {r}
  /\ rq' = [rq EXCEPT ![r] = [sync |-> sync, priv |-> ~elvswitch, barrier |-> barrier, left |-> 0]]
  /\ elvpriv' = elvpriv + (IF elvswitch THEN 0 ELSE 1)
  /\ UNCHANGED <<driver, queue_head, sioVars, noop_queue, nr_sorted, last_merge, switchVars,
                 before, passed, shortened>>

(* r goes, the others become as in f.                                      *)
freed_request(r, f) ==
  /\ rq' = f
  /\ elvpriv' = elvpriv - (IF rq[r].priv THEN 1 ELSE 0)
  /\ before' = [b \in Rq |-> IF b = r THEN {} ELSE before[b] \ {r}]

alloc_fails(r) ==
  /\ r \in task /\ task' = task \ {r}
  /\ freed_request(r, [rq EXCEPT ![r] = noRq])
  /\ UNCHANGED <<driver, queue_head, sioVars, noop_queue, nr_sorted, last_merge, switchVars,
                 passed, shortened>>

(* __elv_add_request with ELEVATOR_INSERT_SORT: a barrier, or a request    *)
(* that has nothing to do with the scheduler, goes to the back instead.    *)
sio_add_request(r) ==
  /\ fifo_list' = [fifo_list EXCEPT ![rq[r].sync] = Append(@, r)]
  /\ rq' = [rq EXCEPT ![r].left = fifo_expire[rq[r].sync]]
  /\ UNCHANGED noop_queue

(* Mutant: at the front.                                                   *)
noop_add_request_mutant(r) ==
  /\ noop_queue' = <<r>> \o noop_queue
  /\ UNCHANGED <<fifo_list, rq>>

noop_add_request(r) ==
  /\ noop_queue' = Append(noop_queue, r)
  /\ UNCHANGED <<fifo_list, rq>>

elv_insert_sort(r) ==
  /\ r \in task /\ task' = task \ {r}
  /\ rq[r].priv /\ ~rq[r].barrier
  /\ nr_sorted' = nr_sorted + 1
  /\ last_merge' = IF last_merge = NONE THEN r ELSE last_merge
  /\ IF elevator = "sio" THEN sio_add_request(r) ELSE noop_add_request(r)
  /\ UNCHANGED <<driver, queue_head, batched, fifo_expire, fifo_batch, elvpriv, switchVars,
                 before, passed, shortened>>

(* Mutant: the scheduler is not drained.                                   *)
elv_insert_back_mutant(r) ==
  /\ r \in task /\ task' = task \ {r}
  /\ rq[r].barrier \/ ~rq[r].priv
  /\ has_ops
  /\ queue_head' = Append(queue_head, r)
  /\ before' = [before EXCEPT ![r] = sorted \cup Range(queue_head)]
  /\ UNCHANGED <<rq, driver, sioVars, noop_queue, nr_sorted, last_merge, elvpriv, switchVars,
                 passed, shortened>>

elv_insert_back(r) ==
  /\ r \in task /\ task' = task \ {r}
  /\ rq[r].barrier \/ ~rq[r].priv
  /\ has_ops
  /\ \E s \in drained : set_lists([s EXCEPT !.queue_head = Append(@, r)])
  /\ before' = [before EXCEPT ![r] = sorted \cup Range(queue_head)]
  /\ UNCHANGED <<rq, driver, fifo_expire, fifo_batch, elvpriv, switchVars, shortened>>

(* A bio that extends r, which then touches no neighbour.                  *)
elv_merged_request(r) ==
  /\ r \in sorted
  /\ last_merge' = r
  /\ UNCHANGED <<rq, task, driver, queue_head, sioVars, noop_queue, nr_sorted, elvpriv, switchVars,
                 before, passed, shortened>>

(* attempt_merge of neighbours, with elv_merge_requests: a takes over b    *)
(* and, in sio_merged_requests, b's place and time if b expires first.     *)
adjacent(l, a, b) == \E i \in 1..(Len(l) - 1) : l[i] = a /\ l[i + 1] = b

sio_merged_requests(a, b) ==
  [rq EXCEPT ![b] = noRq, ![a].left = IF rq[b].left < rq[a].left THEN rq[b].left ELSE @]

elv_merge_requests(a, b) ==
  /\ \/ \E s \in Sync : adjacent(fifo_list[s], a, b)
     \/ adjacent(noop_queue, a, b)
  /\ fifo_list' = [s \in Sync |-> RemoveFirst(fifo_list[s], b)]
  /\ noop_queue' = RemoveFirst(noop_queue, b)
  /\ freed_request(b, sio_merged_requests(a, b))
  /\ nr_sorted' = nr_sorted - 1
  /\ last_merge' = a
  /\ UNCHANGED <<task, driver, queue_head, batched, fifo_expire, fifo_batch, switchVars,
                 passed, shortened>>
----------------------------------------------------------------------------
(* blk_fetch_request: the next request of the dispatch queue, which        *)
(* __elv_next_request fills when it is empty.  With nothing to dispatch    *)
(* the scheduler may still start a new batch.                              *)
blk_fetch_request ==
  /\ queue_head = <<>> => has_ops
  /\ \E s \in {IF queue_head = <<>> THEN elevator_dispatch(lists) ELSE lists} :
       \/ /\ s.queue_head # <<>>
          /\ set_lists([s EXCEPT !.queue_head = Tail(@)])
          /\ driver' = driver \cup {Head(s.queue_head)}
          /\ before' = [before EXCEPT ![Head(s.queue_head)] = {}]
       \/ /\ s.queue_head = <<>> /\ s # lists
          /\ set_lists(s)
          /\ UNCHANGED <<driver, before>>
  /\ UNCHANGED <<rq, task, fifo_expire, fifo_batch, elvpriv, switchVars, shortened>>

blk_requeue_request(r) ==
  /\ r \in driver /\ driver' = driver \ {r}
  /\ queue_head' = <<r>> \o queue_head
  /\ UNCHANGED <<rq, task, sioVars, noop_queue, nr_sorted, last_merge, elvpriv, switchVars,
                 before, passed, shortened>>

blk_finish_request(r) ==
  /\ r \in driver /\ driver' = driver \ {r}
  /\ freed_request(r, [rq EXCEPT ![r] = noRq])
  /\ UNCHANGED <<task, queue_head, sioVars, noop_queue, nr_sorted, last_merge, switchVars,
                 passed, shortened>>

Tick ==
  /\ \E s \in Sync : \E r \in Range(fifo_list[s]) : ~expired(r)
  /\ rq' = [r \in Rq |-> IF r \in sorted /\ ~expired(r) THEN [rq[r] EXCEPT !.left = @ - 1] ELSE rq[r]]
  /\ UNCHANGED <<task, driver, queue_head, sioVars, noop_queue, nr_sorted, last_merge, elvpriv,
                 switchVars, before, passed, shortened>>

(* Writes of sync_expire, async_expire and fifo_batch.                     *)
sio_store ==
  /\ "sio" \in alive
  /\ \/ \E s \in Sync : \E x \in Expires[s] :
          /\ fifo_expire' = [fifo_expire EXCEPT ![s] = x]
          /\ shortened' = (shortened \/ (x < fifo_expire[s] /\ fifo_list[s] # <<>>))
          /\ UNCHANGED <<fifo_batch, passed>>
     \/ /\ fifo_batch' \in Batches
        /\ passed' = 0
        /\ UNCHANGED <<fifo_expire, shortened>>
  /\ UNCHANGED <<rq, task, driver, queue_head, fifo_list, batched, noop_queue, nr_sorted,
                 last_merge, elvpriv, switchVars, before>>
----------------------------------------------------------------------------
(* elevator_switch to the other scheduler.  elevator_alloc and the init of *)
(* its data; then, under queue_lock, elv_quiesce_start, which drains the   *)
(* old one until no request has to do with it, and elevator_attach.        *)
other == IF elevator = "sio" THEN "noop" ELSE "sio"

elv_quiesce ==
  /\ \E s \in drained : set_lists(s)
  /\ IF elvpriv = 0 THEN elevator' = other /\ switcher' = "attached"
                    ELSE switcher' = "quiesce" /\ UNCHANGED elevator

elevator_init_queue ==
  /\ switcher = "idle" /\ switcher' = "alloc"
  /\ alive' = alive \cup {other}
  /\ IF other = "sio"
       THEN /\ batched' = 0 /\ fifo_expire' = DefaultExpire /\ fifo_batch' = DefaultBatch
            /\ shortened' = FALSE
       ELSE UNCHANGED <<batched, fifo_expire, fifo_batch, shortened>>
  /\ UNCHANGED <<rq, task, driver, queue_head, fifo_list, noop_queue, nr_sorted, last_merge,
                 elvpriv, elevator, elvswitch, before, passed>>

elv_quiesce_start ==
  /\ switcher = "alloc"
  /\ elvswitch' = TRUE
  /\ elv_quiesce
  /\ UNCHANGED <<rq, task, driver, fifo_expire, fifo_batch, elvpriv, alive, before, shortened>>

elv_quiesce_again ==
  /\ switcher = "quiesce"
  /\ elv_quiesce
  /\ UNCHANGED <<rq, task, driver, fifo_expire, fifo_batch, elvpriv, alive, elvswitch, before,
                 shortened>>

noRequests == <<rq, task, driver, queue_head, sioVars, noop_queue, nr_sorted, last_merge,
                elvpriv, before, passed, shortened>>

(* elv_register_queue, then elevator_exit of the old scheduler ...         *)
elevator_exit_old ==
  /\ switcher = "attached" /\ switcher' = "exited"
  /\ alive' = alive \ {other}
  /\ UNCHANGED <<noRequests, elevator, elvswitch>>

(* ... or fail_register: elevator_exit of the new one, which frees it and  *)
(* sets its ops to NULL.  The queue points to it until the next statement, *)
(* outside queue_lock.                                                     *)
fail_register ==
  /\ switcher = "attached" /\ switcher' = "failed"
  /\ alive' = alive \ {elevator}
  /\ UNCHANGED <<noRequests, elevator, elvswitch>>

reattach ==
  /\ switcher = "failed" /\ switcher' = "exited"
  /\ elevator' = other
  /\ UNCHANGED <<noRequests, alive, elvswitch>>

(* In between, a bio (elv_merge, elv_may_queue), an insertion and a driver *)
(* that finds queue_head empty (elevator_dispatch_fn) follow the NULL ops: *)
(* the caller dies with queue_lock held, and nothing here goes on.         *)
deref_exited ==
  /\ switcher = "failed" /\ switcher' = "oops"
  /\ free # {} \/ task # {} \/ queue_head = <<>>
  /\ UNCHANGED <<noRequests, elevator, alive, elvswitch>>

elv_quiesce_end ==
  /\ switcher = "exited" /\ switcher' = "idle"
  /\ elvswitch' = FALSE
  /\ UNCHANGED <<noRequests, elevator, alive>>

switchStep ==
  \/ elv_quiesce_start \/ elv_quiesce_again \/ elevator_exit_old \/ fail_register
  \/ reattach \/ elv_quiesce_end
----------------------------------------------------------------------------
running == switcher # "oops"
insert(r) == elv_insert_sort(r) \/ elv_insert_back(r)

Next ==
  /\ running
  /\ \/ \E r \in Rq : \/ \E s \in Sync, b \in BOOLEAN : get_request(r, s, b)
                      \/ alloc_fails(r) \/ insert(r) \/ elv_merged_request(r)
                      \/ blk_requeue_request(r) \/ blk_finish_request(r)
                      \/ \E b \in Rq : elv_merge_requests(r, b)
     \/ blk_fetch_request \/ Tick \/ sio_store
     \/ elevator_init_queue \/ switchStep \/ deref_exited

Spec == Init /\ [][Next]_vars

(* Time passes, tasks insert what they have allocated, the driver asks for *)
(* requests and ends each, and a switch goes on, until an oops.            *)
FairSpec ==
  /\ Spec
  /\ WF_vars(running /\ Tick) /\ WF_vars(running /\ blk_fetch_request) /\ WF_vars(switchStep)
  /\ \A r \in Rq : WF_vars(running /\ insert(r)) /\ SF_vars(running /\ blk_finish_request(r))
----------------------------------------------------------------------------
(* Each request is in one place, once, and the flags fit.                  *)
TypeOK ==
  /\ \A r \in Rq : /\ rq[r].sync \in Sync /\ rq[r].priv \in BOOLEAN /\ rq[r].barrier \in BOOLEAN
                   /\ rq[r].left = -1 \/ rq[r].left \in Nat
  /\ batched \in Nat /\ fifo_batch \in Batches /\ fifo_expire \in ExpireTimes
  /\ Cardinality(task) + Cardinality(driver) + Len(queue_head) + Len(fifo_list["SYNC"])
       + Len(fifo_list["ASYNC"]) + Len(noop_queue) + Cardinality(free) = Cardinality(Rq)
  /\ \A s \in Sync : \A r \in Range(fifo_list[s]) : rq[r].sync = s
  /\ before \in [Rq -> SUBSET Rq] /\ passed \in Nat /\ shortened \in BOOLEAN

(* nr_sorted, by which elv_drain_elevator tells whether "forced            *)
(* dispatching is broken", counts the requests the scheduler holds, and    *)
(* elvpriv, which elv_quiesce_start waits for, those that were given to it *)
(* or may still be.                                                        *)
CountsExact ==
  /\ nr_sorted = Cardinality(sorted)
  /\ elvpriv = Cardinality({r \in Rq \ free : rq[r].priv})
  /\ \A r \in sorted : rq[r].priv

(* last_merge, which the next bio may be put into, is still with the       *)
(* scheduler: not dispatched, merged away or freed.                        *)
LastMergeSorted == last_merge # NONE => last_merge \in sorted

(* The BUG_ONs of sio_exit_queue and noop_exit_queue: a scheduler the      *)
(* queue does not point to holds no request, and from the time the new one *)
(* is attached until the switch ends neither does, whichever is to exit.   *)
ExitsEmpty ==
  /\ switcher \in {"attached", "failed", "exited"} => sorted = {}
  /\ elevator # "sio" => \A s \in Sync : fifo_list[s] = <<>>
  /\ elevator # "noop" => noop_queue = <<>>

(* "barriers implicitly indicate back insertion": what was queued before   *)
(* a barrier, with either scheduler and over requeues, merges and          *)
(* switches, comes out before it.                                          *)
BarrierNotOvertaken ==
  \A i \in DOMAIN queue_head :
    \A b \in before[queue_head[i]] :
      b \notin sorted /\ \A j \in DOMAIN queue_head : queue_head[j] = b => j < i

(* sio_expired_request looks at the head of a list only: nothing behind it *)
(* expires earlier, merges and longer expire times included, unless an     *)
(* expire time was shortened while requests waited for the old one.        *)
FifoInDeadlineOrder ==
  shortened \/ \A s \in Sync : \A i, j \in DOMAIN fifo_list[s] :
    i < j => rq[fifo_list[s][i]].left <= rq[fifo_list[s][j]].left

(* "Retrieve any expired request after a batch of sequential requests":    *)
(* once it has expired, the request at the head of the asynchronous list   *)
(* is passed over by one batch at most, and the dispatch that looked       *)
(* before it expired.  Only the head: an expired request behind it waits   *)
(* a batch more for each one ahead of it.  A write of fifo_batch starts a  *)
(* new count.                                                              *)
ExpiredServed == passed <= fifo_batch + 1

(* Every request that the scheduler takes is dispatched or merged, except  *)
(* a synchronous one while fifo_batch is 0, which sio_fifo_batch_store     *)
(* allows: then every dispatch looks for expired requests, asynchronous    *)
(* ones first, and as long as those keep expiring it waits.                *)
RequestsServed ==
  \A r \in Rq :
    r \in sorted ~> r \notin sorted \/ (rq[r].sync = "SYNC" /\ fifo_batch = 0)

(* A switch of schedulers ends, by an oops if its registration fails and   *)
(* the exited scheduler is called.                                         *)
SwitchEnds == elvswitch ~> ~elvswitch \/ switcher = "oops"

(* Every request is accounted for: nr_sorted and elvpriv say what the      *)
(* scheduler holds and may still be given, last_merge points to a request  *)
(* of it, and a scheduler that exits holds none.  That the scheduler the   *)
(* queue points to has not exited is not claimed: see deref_exited.        *)
RequestsAccounted ==
  /\ TypeOK
  /\ CountsExact
  /\ LastMergeSorted
  /\ ExitsEmpty

(* sio keeps its deadlines: the head of a list, the only request asked     *)
(* whether it has expired, has the earliest one unless a time was          *)
(* shortened under it, and the expired head of the asynchronous list is    *)
(* passed over by no more than a batch and a dispatch.                     *)
DeadlinesKept ==
  /\ FifoInDeadlineOrder
  /\ ExpiredServed

(* Everybody is served: a request that the scheduler took is dispatched or *)
(* merged, and a switch of schedulers, which waits for all of them, ends.  *)
(* The exceptions are a synchronous request while fifo_batch is 0, and the *)
(* switch that ends in an oops.                                            *)
EverybodyServed ==
  /\ RequestsServed
  /\ SwitchEnds
=============================================================================
