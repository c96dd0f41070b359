-------------------------- MODULE WakeLock_proofs --------------------------
(***************************************************************************)
(* wakelock.c for any set of locks and any timeouts, and the two of its    *)
(* clients that are modelled with it: earlysuspend.c for any handlers and  *)
(* any levels, and userwakelock.c for any names and any timeouts.          *)
(***************************************************************************)
EXTENDS EarlySuspend, UserWakeLock, SequenceTheorems, FiniteSetTheorems,
        WellFoundedInduction, TLAPS

USE LocksAssumption, TimeoutsAssumption

Left == [Locks -> 0 .. MaxTimeout]

-----------------------------------------------------------------------------
(* max_timeout is well defined: it bounds the time left of every lock and  *)
(* is the time left of one of them, or 0.                                  *)
LEMMA MaxTimeoutIsMax ==
  ASSUME NEW A \in SUBSET Locks, NEW lf \in Left
  PROVE  /\ max_timeout(A, lf) \in 0 .. MaxTimeout
         /\ \A l \in A : lf[l] <= max_timeout(A, lf)
         /\ max_timeout(A, lf) = 0 \/ \E l \in A : lf[l] = max_timeout(A, lf)
<1> DEFINE U == {k \in Nat : \A l \in A : lf[l] <= k}
<1>1. MaxTimeout \in U /\ U \subseteq Nat
  BY DEF Left
<1>2. PICK m \in U : \A k \in U : ~ (<<k, m>> \in OpToRel(<, Nat))
  <2> HIDE DEF U
  <2> QED
    BY <1>1, NatLessThanWellFounded, WFMin
<1>3. \A k \in U : m <= k
  <2> SUFFICES ASSUME NEW k \in U, k < m PROVE FALSE
    OBVIOUS
  <2>1. OpToRel(<, Nat) = {ss \in Nat \X Nat : ss[1] < ss[2]}
    BY DEF OpToRel
  <2>2. <<k, m>> \in Nat \X Nat /\ <<k, m>>[1] < <<k, m>>[2]
    OBVIOUS
  <2>3. <<k, m>> \in OpToRel(<, Nat)
    BY <2>1, <2>2
  <2> QED
    BY <1>2, <2>3
<1>4. m \in 0 .. MaxTimeout /\ \A l \in A : lf[l] <= m
  BY <1>1, <1>3
<1>5. m = 0 \/ \E l \in A : lf[l] = m
  <2> SUFFICES ASSUME m # 0 PROVE \E l \in A : lf[l] = m
    OBVIOUS
  <2>1. m - 1 \in Nat /\ m - 1 \notin U
    BY <1>3, <1>4
  <2>2. PICK l \in A : ~ (lf[l] <= m - 1)
    BY <2>1
  <2> QED
    BY <1>4, <2>2 DEF Left
<1> QED
  BY <1>4, <1>5 DEF max_timeout

(* The result is -1 with a lock that has no timeout; otherwise it is 0     *)
(* exactly when every lock has timed out.                                  *)
LEMMA HasWakeLockResult ==
  ASSUME NEW A \in SUBSET Locks, NEW T \in SUBSET A, NEW lf \in Left
  PROVE  LET r == has_wake_lock_locked(A, T, lf)
         IN  /\ r \in {-1} \cup 0 .. MaxTimeout
             /\ r = -1 <=> A \ T # {}
             /\ r = 0 => A = T /\ \A l \in A : lf[l] = 0
             /\ r > 0 => A = T /\ \A l \in A : lf[l] <= r
             /\ A \ T = {} /\ (\A l \in A : lf[l] = 0) => r = 0
BY MaxTimeoutIsMax DEF has_wake_lock_locked, Left

(* Queueing a work keeps those already pending.                            *)
LEMMA QueueWork ==
  ASSUME NEW q \in Seq(Works), NEW w \in Works
  PROVE  /\ queue_work(q, w) \in Seq(Works)
         /\ pending(queue_work(q, w), w)
         /\ \A v \in Works : pending(q, v) => pending(queue_work(q, w), v)
BY DEF queue_work, pending

-----------------------------------------------------------------------------
(* The inductive invariant.  SuspendNotLost needs TimerCoversLocks: the    *)
(* timer handler and the suspend work give up when they find a lock with a *)
(* timeout, and only a pending timer then brings the system back to the    *)
(* try.                                                                    *)
IInv ==
  /\ TypeOK
  /\ PermanentFirst
  /\ TimerCoversLocks
  /\ SuspendNotLost
  /\ LateLockIsNewEvent

FirstIn(A, T, ord) ==
  \A p \in A \ T, t \in T : <<p, t>> \in ord /\ <<t, p>> \notin ord

(* Dropping timed locks from a list in which the others come first.        *)
LEMMA SetList ==
  ASSUME NEW A \in SUBSET Locks, NEW T \in SUBSET A, NEW X \in SUBSET T,
         NEW ord \in SUBSET (A \X A), NEW lf \in Left, FirstIn(A, T, ord),
         set_list(A, T, ord, lf, X)
  PROVE  /\ active' = A \ X /\ left' = lf
         /\ auto_expire' \in SUBSET active'
         /\ ahead' \in SUBSET (active' \X active')
         /\ PermanentFirst'
         /\ permanent' = A \ T
<1>1. /\ active' = A \ X /\ auto_expire' = T \ X /\ left' = lf
      /\ ahead' = list_del(ord, X)
  BY DEF set_list
<1>2. permanent' = A \ T
  BY <1>1 DEF permanent
<1>3. ahead' \in SUBSET (active' \X active')
  BY <1>1 DEF list_del
<1>4. PermanentFirst'
  BY <1>1, <1>2 DEF PermanentFirst, FirstIn, list_del
<1> QED
  BY <1>1, <1>2, <1>3, <1>4

(* The list part of the invariant.                                         *)
LEMMA ListFirst == IInv => FirstIn(active, auto_expire, ahead)
BY DEF IInv, PermanentFirst, FirstIn, permanent

(* A call of has_wake_lock: it drops timed-out locks only.                 *)
LEMMA HasWakeLockStep ==
  ASSUME IInv, has_wake_lock
  PROVE  /\ active' \in SUBSET active
         /\ auto_expire' \in SUBSET active'
         /\ ahead' \in SUBSET (active' \X active')
         /\ left' = left
         /\ PermanentFirst'
         /\ permanent' = permanent
         /\ has_lock = 0 => active' = {}
<1> DEFINE X == timed_out(active, auto_expire, ahead, left)
<1>1. /\ active \in SUBSET Locks /\ auto_expire \in SUBSET active
      /\ ahead \in SUBSET (active \X active) /\ left \in Left
  BY DEF IInv, TypeOK, Left
<1>2. X \in SUBSET auto_expire
  BY DEF timed_out
<1>3. set_list(active, auto_expire, ahead, left, X)
  BY DEF has_wake_lock
<1>4. /\ active' = active \ X /\ left' = left
      /\ auto_expire' \in SUBSET active'
      /\ ahead' \in SUBSET (active' \X active')
      /\ PermanentFirst'
      /\ permanent' = active \ auto_expire
  <2> HIDE DEF X
  <2> QED
    BY <1>1, <1>2, <1>3, ListFirst, SetList
<1>5. has_lock = 0 => active = auto_expire /\ \A l \in active : left[l] = 0
  BY <1>1, HasWakeLockResult DEF has_lock
<1>6. has_lock = 0 => X = active
  BY <1>1, <1>5 DEF timed_out
<1> QED
  BY <1>1, <1>4, <1>6 DEF permanent

(* After has_wake_lock_locked has run over the list A and the timer and    *)
(* the work queue were set by its result, the timer covers the locks and a *)
(* list without a lock that has no timeout leads to the next try.          *)
LEMMA Settled ==
  ASSUME NEW A \in SUBSET Locks, NEW T \in SUBSET A, NEW lf \in Left,
         suspend_work_queue \in Seq(Works),
         active' \in SUBSET A, permanent' = A \ T, left' = lf,
         set_expire_timer(has_wake_lock_locked(A, T, lf)),
         queue_suspend(suspend_work_queue, has_wake_lock_locked(A, T, lf))
  PROVE  /\ expire_timer' \in {NoTimer} \cup 0 .. MaxTimeout
         /\ suspend_work_queue' \in Seq(Works)
         /\ TimerCoversLocks'
         /\ permanent' = {} =>
              pending(suspend_work_queue', "suspend") \/ expire_timer' # NoTimer
<1> DEFINE r == has_wake_lock_locked(A, T, lf)
<1>1. /\ r \in {-1} \cup 0 .. MaxTimeout
      /\ r = -1 <=> A \ T # {}
      /\ r = 0 => A = T /\ \A l \in A : lf[l] = 0
      /\ r > 0 => A = T /\ \A l \in A : lf[l] <= r
  BY HasWakeLockResult
<1>2. /\ expire_timer' = IF r > 0 THEN r ELSE NoTimer
      /\ suspend_work_queue' =
           IF r = 0 THEN queue_work(suspend_work_queue, "suspend") ELSE suspend_work_queue
  BY DEF set_expire_timer, queue_suspend
<1> HIDE DEF r
<1>3. expire_timer' \in {NoTimer} \cup 0 .. MaxTimeout
  BY <1>1, <1>2
<1>4. suspend_work_queue' \in Seq(Works) /\ (r = 0 => pending(suspend_work_queue', "suspend"))
  BY <1>2, QueueWork DEF Works
<1>5. TimerCoversLocks'
  <2>1. expire_timer' # NoTimer =>
          permanent' = {} /\ \A l \in active' : left'[l] <= expire_timer'
    BY <1>1, <1>2
  <2>2. permanent' = {} /\ (\E l \in active' : left'[l] > 0) => expire_timer' # NoTimer
    <3> SUFFICES ASSUME permanent' = {}, NEW l \in active', left'[l] > 0
                 PROVE  expire_timer' # NoTimer
      OBVIOUS
    <3>1. r # 0 /\ r # -1
      BY <1>1
    <3> QED
      BY <1>1, <1>2, <3>1 DEF NoTimer
  <2> QED
    BY <2>1, <2>2 DEF TimerCoversLocks
<1>6. permanent' = {} =>
        pending(suspend_work_queue', "suspend") \/ expire_timer' # NoTimer
  BY <1>1, <1>2, <1>4 DEF NoTimer
<1> QED
  BY <1>3, <1>4, <1>5, <1>6

-----------------------------------------------------------------------------
Places == SuspendSteps \cup {"idle", "other"}

(* wake_lock, at the head of the list, whatever works q are pending then.  *)
LEMMA WakeLockStep ==
  ASSUME IInv, NEW l \in Locks, NEW q \in Seq(Works), wake_lock_q(l, q), worker' \in Places
  PROVE  IInv'
<1> DEFINE A == active \cup {l}
           T == auto_expire \ {l}
           ord == list_add(ahead, active, l)
           lf == [left EXCEPT ![l] = 0]
<1>1. /\ active \in SUBSET Locks /\ auto_expire \in SUBSET active
      /\ ahead \in SUBSET (active \X active) /\ left \in Left
  BY DEF IInv, TypeOK, Left
<1>2. /\ A \in SUBSET Locks /\ T \in SUBSET A /\ ord \in SUBSET (A \X A) /\ lf \in Left
      /\ l \in A \ T
  BY <1>1 DEF list_add, list_del, Left
<1>3. FirstIn(A, T, ord)
  BY <1>1, ListFirst DEF FirstIn, list_add, list_del
<1>4. set_list(A, T, ord, lf, {})
  BY DEF wake_lock_q
<1> HIDE DEF A, T, ord, lf
<1>5. /\ active' = A /\ left' = lf
      /\ auto_expire' \in SUBSET active' /\ ahead' \in SUBSET (active' \X active')
      /\ PermanentFirst' /\ permanent' = A \ T
  <2> DEFINE X == {}
  <2>1. X \in SUBSET T /\ set_list(A, T, ord, lf, X) /\ A \ X = A
    BY <1>4
  <2> HIDE DEF X
  <2> QED
    BY <1>2, <1>3, <2>1, SetList
<1>6. /\ initialized' = initialized /\ l \in initialized /\ timer_detached' = timer_detached
      /\ new_event' = TRUE /\ expire_timer' = NoTimer
      /\ suspend_work_queue' = q /\ dropped' \in BOOLEAN
  BY DEF wake_lock_q
<1>7. active' \in SUBSET initialized'
  BY <1>5, <1>6 DEF IInv, TypeOK, A
<1>8. TypeOK'
  <2>1. left' \in [Locks -> 0 .. MaxTimeout]
    BY <1>2, <1>5 DEF Left
  <2>2. new_event' \in BOOLEAN
    BY <1>6
  <2> QED
    BY <1>5, <1>6, <1>7, <2>1, <2>2 DEF IInv, TypeOK, Places
<1>9. TimerCoversLocks' /\ SuspendNotLost' /\ LateLockIsNewEvent'
  BY <1>2, <1>5, <1>6 DEF TimerCoversLocks, SuspendNotLost, LateLockIsNewEvent
<1> QED
  BY <1>5, <1>8, <1>9 DEF IInv

(* wake_lock_timeout, at the tail of the list.                             *)
LEMMA WakeLockTimeoutStep ==
  ASSUME IInv, NEW l \in Locks, NEW timeout \in 0 .. MaxTimeout,
         wake_lock_timeout_q(l, timeout, suspend_work_queue), worker' \in Places
  PROVE  IInv'
<1> DEFINE A == active \cup {l}
           T == auto_expire \cup {l}
           ord == list_add_tail(ahead, active, l)
           lf == [left EXCEPT ![l] = timeout]
           X == timed_out(A, T, ord, lf)
           r == has_wake_lock_locked(A, T, lf)
<1>1. /\ active \in SUBSET Locks /\ auto_expire \in SUBSET active
      /\ ahead \in SUBSET (active \X active) /\ left \in Left
      /\ suspend_work_queue \in Seq(Works)
  BY DEF IInv, TypeOK, Left
<1>2. /\ A \in SUBSET Locks /\ T \in SUBSET A /\ ord \in SUBSET (A \X A) /\ lf \in Left
      /\ X \in SUBSET T
  BY <1>1 DEF list_add_tail, list_del, Left, timed_out
<1>3. FirstIn(A, T, ord)
  BY <1>1, ListFirst DEF FirstIn, list_add_tail, list_del
<1>4. /\ set_list(A, T, ord, lf, X)
      /\ set_expire_timer(r) /\ queue_suspend(suspend_work_queue, r)
      /\ initialized' = initialized /\ l \in initialized /\ timer_detached' = timer_detached
      /\ new_event' = TRUE /\ dropped' \in BOOLEAN
  BY DEF wake_lock_timeout_q
<1>5. A \in SUBSET initialized
  BY <1>4 DEF IInv, TypeOK
<1> HIDE DEF A, T, ord, lf, X
<1>6. /\ active' = A \ X /\ left' = lf
      /\ auto_expire' \in SUBSET active' /\ ahead' \in SUBSET (active' \X active')
      /\ PermanentFirst' /\ permanent' = A \ T
  BY <1>2, <1>3, <1>4, SetList
<1>7. /\ expire_timer' \in {NoTimer} \cup 0 .. MaxTimeout
      /\ suspend_work_queue' \in Seq(Works)
      /\ TimerCoversLocks'
      /\ permanent' = {} =>
           pending(suspend_work_queue', "suspend") \/ expire_timer' # NoTimer
  BY <1>1, <1>2, <1>4, <1>6, Settled
<1>8. TypeOK'
  BY <1>2, <1>4, <1>5, <1>6, <1>7 DEF IInv, TypeOK, Places, Left
<1>9. SuspendNotLost' /\ LateLockIsNewEvent'
  BY <1>4, <1>7 DEF SuspendNotLost, LateLockIsNewEvent
<1> QED
  BY <1>6, <1>7, <1>8, <1>9 DEF IInv

(* wake_unlock.                                                            *)
LEMMA WakeUnlockStep ==
  ASSUME IInv, NEW l \in Locks, wake_unlock_q(l, suspend_work_queue), worker' \in Places,
         worker' \in {"noirq", "asleep"} => worker \in {"noirq", "asleep"}
  PROVE  IInv'
<1> DEFINE A == active \ {l}
           T == auto_expire \ {l}
           ord == list_del(ahead, {l})
           lf == [left EXCEPT ![l] = 0]
           X == timed_out(A, T, ord, lf)
           r == has_wake_lock_locked(A, T, lf)
<1>1. /\ active \in SUBSET Locks /\ auto_expire \in SUBSET active
      /\ ahead \in SUBSET (active \X active) /\ left \in Left
      /\ suspend_work_queue \in Seq(Works)
  BY DEF IInv, TypeOK, Left
<1>2. /\ A \in SUBSET Locks /\ T \in SUBSET A /\ ord \in SUBSET (A \X A) /\ lf \in Left
      /\ X \in SUBSET T
  BY <1>1 DEF list_del, Left, timed_out
<1>3. FirstIn(A, T, ord)
  BY <1>1, ListFirst DEF FirstIn, list_del
<1>4. /\ set_list(A, T, ord, lf, X)
      /\ set_expire_timer(r) /\ queue_suspend(suspend_work_queue, r)
      /\ initialized' = initialized /\ timer_detached' = timer_detached
      /\ new_event' = new_event
  BY DEF wake_unlock_q
<1>5. A \in SUBSET initialized /\ A \in SUBSET active /\ dropped' \in BOOLEAN
  BY DEF IInv, TypeOK, wake_unlock_q
<1> HIDE DEF A, T, ord, lf, X
<1>6. /\ active' = A \ X /\ left' = lf
      /\ auto_expire' \in SUBSET active' /\ ahead' \in SUBSET (active' \X active')
      /\ PermanentFirst' /\ permanent' = A \ T
  BY <1>2, <1>3, <1>4, SetList
<1>7. /\ expire_timer' \in {NoTimer} \cup 0 .. MaxTimeout
      /\ suspend_work_queue' \in Seq(Works)
      /\ TimerCoversLocks'
      /\ permanent' = {} =>
           pending(suspend_work_queue', "suspend") \/ expire_timer' # NoTimer
  BY <1>1, <1>2, <1>4, <1>6, Settled
<1>8. TypeOK'
  BY <1>2, <1>4, <1>5, <1>6, <1>7 DEF IInv, TypeOK, Places, Left
<1>9. SuspendNotLost'
  BY <1>7 DEF SuspendNotLost
<1>10. LateLockIsNewEvent'
  BY <1>4, <1>5, <1>6 DEF IInv, LateLockIsNewEvent
<1> QED
  BY <1>6, <1>7, <1>8, <1>9, <1>10 DEF IInv

-----------------------------------------------------------------------------
(* At first no lock is held and no timer is pending.                       *)
LEMMA InitIInv == Init => IInv
<1> SUFFICES ASSUME Init PROVE IInv
  OBVIOUS
<1>1. TypeOK
  <2>1. left \in [Locks -> 0 .. MaxTimeout]
    BY DEF Init
  <2>2. suspend_work_queue \in Seq(Works)
    BY DEF Init
  <2>3. initialized \in SUBSET Locks /\ active \in SUBSET initialized
    BY DEF Init, OwnLocks
  <2>4. auto_expire \in SUBSET active /\ ahead \in SUBSET (active \X active)
    BY DEF Init
  <2>5. timer_detached \in BOOLEAN /\ new_event \in BOOLEAN
    BY DEF Init
  <2> QED
    BY <2>1, <2>2, <2>3, <2>4, <2>5 DEF Init, TypeOK
<1>2. main_wake_lock \in permanent /\ auto_expire = {}
  BY DEF Init, permanent
<1>3. PermanentFirst /\ TimerCoversLocks /\ SuspendNotLost /\ LateLockIsNewEvent
  BY <1>2 DEF Init, PermanentFirst, TimerCoversLocks, SuspendNotLost, LateLockIsNewEvent
<1> QED
  BY <1>1, <1>3 DEF IInv

(* Steps that leave the locks, the timer and the queue alone.              *)
LEMMA WorkerStep ==
  ASSUME IInv, UNCHANGED <<lockVars, timerVars, suspend_work_queue>>,
         worker \in SuspendSteps, worker' \in Places, new_event' \in BOOLEAN,
         \/ worker' \in {"note", "unknown_wakeup"}
         \/ worker' \in SuspendSteps /\ ~ new_event'
         \/ /\ new_event' = new_event
            /\ \/ worker' \in SuspendSteps /\ worker \notin {"check", "note", "unknown_wakeup"}
               \/ new_event /\ worker \notin {"check", "note", "unknown_wakeup"},
         worker' \in {"noirq", "asleep"} =>
           worker \in {"noirq", "asleep"} /\ new_event' = new_event
  PROVE  IInv'
<1>1. TypeOK'
  BY DEF IInv, TypeOK, lockVars, timerVars, Places
<1>2. PermanentFirst' /\ TimerCoversLocks' /\ permanent' = permanent
  BY DEF IInv, PermanentFirst, TimerCoversLocks, permanent, lockVars, timerVars
<1>3. LateLockIsNewEvent'
  BY DEF IInv, LateLockIsNewEvent, lockVars
<1>4. SuspendNotLost'
  BY <1>2 DEF IInv, SuspendNotLost, lockVars, timerVars
<1> QED
  BY <1>1, <1>2, <1>3, <1>4 DEF IInv

(* Steps of the suspend work that call has_wake_lock: with a lock found    *)
(* they give up, with none they go on.                                     *)
LEMMA CheckStep ==
  ASSUME IInv, has_wake_lock,
         UNCHANGED <<initialized, dropped, timerVars, new_event, suspend_work_queue>>,
         worker \in SuspendSteps, worker' \in Places,
         IF has_lock # 0
           THEN worker' \in {"idle", "compare"}
           ELSE \/ worker' = "note"
                \/ worker' \in SuspendSteps /\ worker \notin {"check", "note", "unknown_wakeup"}
  PROVE  IInv'
<1>1. /\ active' \in SUBSET active /\ auto_expire' \in SUBSET active'
      /\ ahead' \in SUBSET (active' \X active') /\ left' = left
      /\ PermanentFirst' /\ permanent' = permanent
      /\ has_lock = 0 => active' = {}
  BY HasWakeLockStep
<1>2. TypeOK'
  BY <1>1 DEF IInv, TypeOK, timerVars, Places
<1>3. TimerCoversLocks'
  BY <1>1 DEF IInv, TimerCoversLocks, timerVars
<1>4. LateLockIsNewEvent'
  BY <1>1 DEF LateLockIsNewEvent
<1>5. SuspendNotLost'
  <2>1. CASE has_lock # 0
    <3>1. permanent = {} => \E l \in active : left[l] > 0
      <4>1. /\ active \in SUBSET Locks /\ auto_expire \in SUBSET active /\ left \in Left
        BY DEF IInv, TypeOK, Left
      <4>2. active \ auto_expire = {} /\ (\A l \in active : left[l] = 0) => has_lock = 0
        BY <4>1, HasWakeLockResult DEF has_lock
      <4> QED
        BY <2>1, <4>1, <4>2 DEF permanent, Left
    <3>2. permanent = {} /\ ~ dropped => expire_timer # NoTimer
      BY <3>1 DEF IInv, TimerCoversLocks
    <3> QED
      BY <1>1, <3>2 DEF SuspendNotLost, timerVars
  <2>2. CASE has_lock = 0
    BY <1>1, <2>2 DEF IInv, SuspendNotLost, timerVars
  <2> QED
    BY <2>1, <2>2
<1> QED
  BY <1>1, <1>2, <1>3, <1>4, <1>5 DEF IInv

(* The calls of drivers.                                                   *)
LEMMA DriverStep == ASSUME IInv, NEW l \in Locks, driver(l) PROVE IInv'
<1>0. worker \in Places
  BY DEF IInv, TypeOK, Places
<1>1. CASE wake_lock(l)
  BY <1>0, <1>1, WakeLockStep DEF wake_lock, IInv, TypeOK
<1>2. CASE wake_unlock(l)
  BY <1>0, <1>2, WakeUnlockStep DEF wake_unlock
<1>3. ASSUME NEW timeout \in Timeouts, wake_lock_timeout(l, timeout) PROVE IInv'
  BY <1>0, <1>3, WakeLockTimeoutStep DEF wake_lock_timeout
<1>4. CASE wake_lock_init(l)
  <2>1. TypeOK'
    BY <1>4 DEF IInv, TypeOK, wake_lock_init, timerVars, workVars
  <2> QED
    BY <1>4, <2>1 DEF IInv, PermanentFirst, TimerCoversLocks, SuspendNotLost,
       LateLockIsNewEvent, permanent, wake_lock_init, timerVars, workVars
<1>5. CASE wake_lock_destroy(l)
  <2>1. /\ active' = active \ {l} /\ auto_expire' = auto_expire \ {l}
        /\ ahead' = list_del(ahead, {l}) /\ left' = [left EXCEPT ![l] = 0]
        /\ initialized' = initialized \ {l}
        /\ UNCHANGED <<timerVars, new_event, workVars>>
        /\ permanent' = permanent \ {l}
        /\ dropped' = (dropped \/ permanent = {l})
    BY <1>5 DEF wake_lock_destroy, set_list, permanent
  <2>2. left' \in [Locks -> 0 .. MaxTimeout]
    BY <2>1 DEF IInv, TypeOK
  <2>3. dropped' \in BOOLEAN
    BY <2>1
  <2>4. TypeOK'
    BY <2>3, <2>1, <2>2 DEF IInv, TypeOK, list_del, timerVars, workVars
  <2>5. PermanentFirst'
    <3> SUFFICES ASSUME NEW p \in permanent', NEW t \in auto_expire'
                 PROVE  <<p, t>> \in ahead' /\ <<t, p>> \notin ahead'
      BY DEF PermanentFirst
    <3>1. p # l /\ t # l
      BY <2>1 DEF permanent
    <3>2. <<p, t>> \in ahead /\ <<t, p>> \notin ahead
      BY <2>1 DEF IInv, PermanentFirst
    <3> QED
      BY <2>1, <3>1, <3>2 DEF list_del
  <2>6. \A k \in active' : k \in active /\ left'[k] = left[k]
    BY <2>1 DEF IInv, TypeOK
  <2>7. permanent' = {} /\ ~ dropped' => permanent = {} /\ ~ dropped
    BY <2>1
  <2>8. TimerCoversLocks'
    BY <2>1, <2>6, <2>7 DEF IInv, TimerCoversLocks, timerVars
  <2>9. SuspendNotLost' /\ LateLockIsNewEvent'
    BY <2>1, <2>7 DEF IInv, SuspendNotLost, LateLockIsNewEvent, timerVars, workVars
  <2> QED
    BY <2>4, <2>5, <2>8, <2>9 DEF IInv
<1> QED
  BY <1>1, <1>2, <1>3, <1>4, <1>5 DEF driver

(* The tick, the timer core and the timer's handler.                       *)
LEMMA ClockStep == IInv /\ clock => IInv'
<1> SUFFICES ASSUME IInv, clock PROVE IInv'
  OBVIOUS
<1>1. CASE Tick
  <2>1. /\ left' = [l \in Locks |-> minus1(left[l])] /\ expire_timer' = minus1(expire_timer)
        /\ UNCHANGED <<initialized, active, auto_expire, ahead, timer_detached,
                       new_event, workVars, dropped>>
        /\ permanent' = permanent
    BY <1>1 DEF Tick, permanent
  <2>2. left' \in [Locks -> 0 .. MaxTimeout]
    BY <2>1 DEF IInv, TypeOK, minus1
  <2>3. expire_timer' \in {NoTimer} \cup 0 .. MaxTimeout
        /\ (expire_timer' = NoTimer <=> expire_timer = NoTimer)
    BY <2>1 DEF IInv, TypeOK, minus1, NoTimer
  <2>4. TypeOK'
    BY <2>1, <2>2, <2>3 DEF IInv, TypeOK, workVars
  <2>5. \A l \in active : /\ left[l] <= expire_timer => left'[l] <= expire_timer'
                          /\ left'[l] > 0 => left[l] > 0
    BY <2>1 DEF IInv, TypeOK, minus1, NoTimer
  <2>6. TimerCoversLocks'
    BY <2>1, <2>3, <2>5 DEF IInv, TimerCoversLocks
  <2>7. PermanentFirst' /\ SuspendNotLost' /\ LateLockIsNewEvent'
    BY <2>1, <2>3 DEF IInv, PermanentFirst, SuspendNotLost, LateLockIsNewEvent, workVars
  <2> QED
    BY <2>4, <2>6, <2>7 DEF IInv
<1>2. CASE DetachTimer
  <2>1. TypeOK'
    <3>1. timer_detached' \in BOOLEAN
      BY <1>2 DEF DetachTimer
    <3>2. UNCHANGED <<lockVars, new_event, workVars>> /\ expire_timer' = NoTimer
      BY <1>2 DEF DetachTimer
    <3> QED
      BY <3>1, <3>2 DEF IInv, TypeOK, lockVars, workVars
  <2>2. permanent' = permanent /\ PermanentFirst' /\ LateLockIsNewEvent'
    BY <1>2 DEF DetachTimer, IInv, PermanentFirst, LateLockIsNewEvent, permanent,
       lockVars, workVars
  <2>3. TimerCoversLocks'
    BY <1>2, <2>2 DEF DetachTimer, IInv, TypeOK, TimerCoversLocks, NoTimer, lockVars
  <2>4. SuspendNotLost'
    BY <1>2 DEF DetachTimer, SuspendNotLost
  <2> QED
    BY <2>1, <2>2, <2>3, <2>4 DEF IInv
<1>3. CASE expire_wake_locks
  <2>1. /\ has_wake_lock /\ queue_suspend(suspend_work_queue, has_lock)
        /\ timer_detached' = FALSE
        /\ UNCHANGED <<initialized, dropped, expire_timer, new_event, worker>>
    BY <1>3 DEF expire_wake_locks
  <2>2. /\ active' \in SUBSET active /\ auto_expire' \in SUBSET active'
        /\ ahead' \in SUBSET (active' \X active') /\ left' = left
        /\ PermanentFirst' /\ permanent' = permanent
    BY <2>1, HasWakeLockStep
  <2>3. /\ suspend_work_queue' \in Seq(Works)
        /\ has_lock = 0 => pending(suspend_work_queue', "suspend")
    BY <2>1, QueueWork DEF queue_suspend, IInv, TypeOK, Works
  <2>4. TypeOK'
    BY <2>1, <2>2, <2>3 DEF IInv, TypeOK
  <2>5. TimerCoversLocks' /\ LateLockIsNewEvent'
    BY <2>1, <2>2 DEF IInv, TimerCoversLocks, LateLockIsNewEvent
  <2>6. permanent = {} /\ ~ dropped /\ has_lock # 0 => expire_timer # NoTimer
    <3>1. /\ active \in SUBSET Locks /\ auto_expire \in SUBSET active /\ left \in Left
      BY DEF IInv, TypeOK, Left
    <3>2. active \ auto_expire = {} /\ (\A l \in active : left[l] = 0) => has_lock = 0
      BY <3>1, HasWakeLockResult DEF has_lock
    <3> QED
      BY <3>1, <3>2 DEF IInv, TimerCoversLocks, permanent, Left
  <2>7. SuspendNotLost'
    BY <2>1, <2>2, <2>3, <2>6 DEF SuspendNotLost
  <2> QED
    BY <2>2, <2>4, <2>5, <2>7 DEF IInv
<1> QED
  BY <1>1, <1>2, <1>3 DEF clock

(* The suspend work.                                                       *)
LEMMA SuspendWorkStep == IInv /\ suspend => IInv'
<1> SUFFICES ASSUME IInv, suspend PROVE IInv'
  OBVIOUS
<1>0. worker \in Places /\ UnknownTimeout \in 0 .. MaxTimeout
  BY DEF IInv, TypeOK, Places
<1> USE DEF goto, Places, SuspendSteps
<1>1. CASE run_suspend_work
  <2>1. /\ UNCHANGED <<lockVars, timerVars, new_event>> /\ worker' = "check"
        /\ suspend_work_queue' = Tail(suspend_work_queue) /\ suspend_work_queue # <<>>
    BY <1>1 DEF run_suspend_work
  <2>2. suspend_work_queue' \in Seq(Works)
    BY <2>1 DEF IInv, TypeOK
  <2>3. TypeOK'
    BY <2>1, <2>2 DEF IInv, TypeOK, lockVars, timerVars
  <2> QED
    BY <2>1, <2>3 DEF IInv, PermanentFirst, TimerCoversLocks, SuspendNotLost,
       LateLockIsNewEvent, permanent, lockVars, timerVars
<1>2. CASE suspend_check
  BY <1>0, <1>2, CheckStep DEF suspend_check
<1>3. CASE suspend_note
  BY <1>3, WorkerStep DEF suspend_note
<1>4. CASE pm_suspend
  BY <1>4, WorkerStep DEF pm_suspend, IInv, TypeOK
<1>5. CASE pm_suspend_fails
  BY <1>5, WorkerStep DEF pm_suspend_fails, IInv, TypeOK
<1>6. CASE try_to_freeze_tasks
  BY <1>0, <1>6, CheckStep DEF try_to_freeze_tasks
<1>7. CASE tasks_frozen
  BY <1>7, WorkerStep DEF tasks_frozen, IInv, TypeOK
<1>8. CASE power_suspend_late
  BY <1>0, <1>8, CheckStep DEF power_suspend_late
<1>9. CASE suspend_ops_enter
  BY <1>9, WorkerStep DEF suspend_ops_enter, IInv, TypeOK
<1>10. CASE wakeup
  BY <1>10, WorkerStep DEF wakeup, IInv, TypeOK
<1>11. CASE suspend_compare
  BY <1>11, WorkerStep DEF suspend_compare, IInv, TypeOK
<1>12. CASE suspend_unknown_wakeup
  BY <1>0, <1>12, WakeLockTimeoutStep DEF suspend_unknown_wakeup
<1> QED
  BY <1>1, <1>2, <1>3, <1>4, <1>5, <1>6, <1>7, <1>8, <1>9, <1>10, <1>11,
     <1>12 DEF suspend

(* Every step keeps the invariant.                                         *)
LEMMA NextIInv == IInv /\ [Next]_vars => IInv'
<1> SUFFICES ASSUME IInv, [Next]_vars PROVE IInv'
  OBVIOUS
<1>1. ASSUME NEW l \in Locks, wake_lock(l) \/ wake_unlock(l) PROVE IInv'
  BY <1>1, DriverStep DEF driver
<1>2. ASSUME NEW l \in DriverLocks, driver(l) PROVE IInv'
  BY <1>2, DriverStep DEF DriverLocks
<1>3. CASE UNCHANGED vars
  BY <1>3 DEF vars, lockVars, timerVars, workVars, IInv, TypeOK, PermanentFirst,
     TimerCoversLocks, SuspendNotLost, LateLockIsNewEvent, permanent
<1> QED
  BY <1>1, <1>2, <1>3, ClockStep, SuspendWorkStep DEF Next

(* Every reachable state is well typed, the active list and its order      *)
(* included.                                                               *)
THEOREM TypeCorrect == Spec => []TypeOK
BY InitIInv, NextIInv, PTL DEF Spec, IInv

(* The scan of has_wake_lock_locked meets the locks without a timeout      *)
(* before any other.                                                       *)
THEOREM PermanentLocksFirst == Spec => []PermanentFirst
BY InitIInv, NextIInv, PTL DEF Spec, IInv

(* expire_timer, however it is moved, stopped or found detached, never     *)
(* fires early and is never missing.                                       *)
THEOREM ExpireTimerCovers == Spec => []TimerCoversLocks
BY InitIInv, NextIInv, PTL DEF Spec, IInv

(* No interleaving of wake_lock, wake_lock_timeout, wake_unlock, timers    *)
(* and a running suspend work loses the next try to suspend.               *)
THEOREM SuspendIsNotLost == Spec => []SuspendNotLost
BY InitIInv, NextIInv, PTL DEF Spec, IInv

(* A lock on the list after power_suspend_late let the suspend pass is a   *)
(* new event.                                                              *)
THEOREM LateLocksAreEvents == Spec => []LateLockIsNewEvent
BY InitIInv, NextIInv, PTL DEF Spec, IInv

-----------------------------------------------------------------------------
(* wakelock.c implements SuspendBlocker: every step of the list, the       *)
(* timer, the work queue and the suspend work is a step of the promise or  *)
(* leaves it alone.                                                        *)

(* The locks of list A that block suspend.                                 *)
HeldIn(A, T, lf) == {l \in A : l \in T => lf[l] > 0}

(* Locks dropped because they have timed out blocked nothing.              *)
LEMMA SetListHeld ==
  ASSUME NEW A, NEW T, NEW ord, NEW lf,
         set_list(A, T, ord, lf, timed_out(A, T, ord, lf))
  PROVE  held' = HeldIn(A, T, lf)
BY DEF held, HeldIn, set_list, timed_out

(* A call of has_wake_lock changes nothing that blocks suspend, and its    *)
(* result is 0 only if nothing does.                                       *)
LEMMA HasWakeLockHeld ==
  ASSUME IInv, has_wake_lock
  PROVE  held' = held /\ (has_lock = 0 => held = {})
<1>1. held' = HeldIn(active, auto_expire, left)
  BY SetListHeld DEF has_wake_lock
<1>2. active \in SUBSET Locks /\ auto_expire \in SUBSET active /\ left \in Left
  BY DEF IInv, TypeOK, Left
<1>3. has_lock = 0 => active = auto_expire /\ \A l \in active : left[l] = 0
  BY <1>2, HasWakeLockResult DEF has_lock
<1> QED
  BY <1>1, <1>3 DEF held, HeldIn

(* Every step is a step of the promise or leaves it alone.                 *)
LEMMA StepSimulates == IInv /\ [Next]_vars => [Blocker!Next]_<<held, mode>>
<1> SUFFICES ASSUME IInv, [Next]_vars PROVE [Blocker!Next]_<<held, mode>>
  OBVIOUS
<1> USE DEF Blocker!Next, Blocker!Acquire, Blocker!Release
<1>0. /\ left \in [Locks -> 0 .. MaxTimeout] /\ active \in SUBSET Locks
      /\ auto_expire \in SUBSET active
  BY DEF IInv, TypeOK
<1>1. ASSUME NEW l \in Locks, wake_lock_q(l, suspend_work_queue)
      PROVE  held' = held \cup {l}
  BY <1>0, <1>1 DEF wake_lock_q, set_list, held
<1>2. ASSUME NEW l \in Locks, NEW timeout \in 0 .. MaxTimeout,
             wake_lock_timeout_q(l, timeout, suspend_work_queue)
      PROVE  held' = held \cup {l} \/ held' \in SUBSET held
  <2>1. held' = HeldIn(active \cup {l}, auto_expire \cup {l}, [left EXCEPT ![l] = timeout])
    BY <1>2, SetListHeld DEF wake_lock_timeout_q
  <2> QED
    BY <1>0, <2>1 DEF HeldIn, held
<1>3. ASSUME NEW l \in Locks, wake_unlock_q(l, suspend_work_queue)
      PROVE  held' \in SUBSET held
  <2>1. held' = HeldIn(active \ {l}, auto_expire \ {l}, [left EXCEPT ![l] = 0])
    BY <1>3, SetListHeld DEF wake_unlock_q
  <2> QED
    BY <1>0, <2>1 DEF HeldIn, held
<1>4. ASSUME NEW l \in Locks, wake_lock(l) \/ wake_unlock(l) PROVE Blocker!Next
  <2>1. mode' = mode
    BY <1>4 DEF wake_lock, wake_unlock, mode
  <2> QED
    BY <1>1, <1>3, <1>4, <2>1 DEF wake_lock, wake_unlock
<1>5. ASSUME NEW l \in DriverLocks, driver(l) PROVE [Blocker!Next]_<<held, mode>>
  <2>1. l \in Locks
    BY DEF DriverLocks
  <2>2. CASE wake_lock_init(l)
    BY <2>2 DEF wake_lock_init, held, mode, workVars
  <2>3. CASE wake_lock_destroy(l)
    <3>1. mode' = mode
      BY <2>3 DEF wake_lock_destroy, mode, workVars
    <3>2. held' \in SUBSET held
      BY <1>0, <2>3 DEF wake_lock_destroy, set_list, held
    <3> QED
      BY <3>1, <3>2
  <2>4. ASSUME NEW timeout \in Timeouts, wake_lock_timeout(l, timeout) PROVE Blocker!Next
    <3>1. mode' = mode
      BY <2>4 DEF wake_lock_timeout, mode
    <3>2. wake_lock_timeout_q(l, timeout, suspend_work_queue) /\ timeout \in 0 .. MaxTimeout
      BY <2>4 DEF wake_lock_timeout
    <3>3. held' = held \cup {l} \/ held' \in SUBSET held
      BY <1>2, <2>1, <3>2
    <3> QED
      BY ONLY <2>1, <3>1, <3>3 DEF Blocker!Next, Blocker!Acquire, Blocker!Release
  <2> QED
    BY <1>4, <1>5, <2>1, <2>2, <2>3, <2>4 DEF driver
<1>6. CASE Tick
  <2>1. mode' = mode
    BY <1>6 DEF Tick, mode, workVars
  <2>2. held' \in SUBSET held
    BY <1>0, <1>6 DEF Tick, held, minus1
  <2> QED
    BY <2>1, <2>2
<1>7. CASE DetachTimer
  BY <1>7 DEF DetachTimer, held, mode, lockVars, workVars
<1>8. CASE expire_wake_locks
  <2>1. mode' = mode
    BY <1>8 DEF expire_wake_locks, mode
  <2> QED
    BY <1>8, <2>1, HasWakeLockHeld DEF expire_wake_locks
<1>9. CASE suspend
  <2> USE DEF goto, mode
  <2>1. ASSUME UNCHANGED lockVars PROVE held' = held
    BY <2>1 DEF held, lockVars
  <2>2. CASE run_suspend_work
    BY <2>1, <2>2 DEF run_suspend_work
  <2>3. CASE suspend_check
    <3>1. held' = held /\ (has_lock = 0 => held = {})
      BY <2>3, HasWakeLockHeld DEF suspend_check
    <3> QED
      BY <2>3, <3>1 DEF suspend_check, Blocker!Try
  <2>4. CASE suspend_note
    BY <2>1, <2>4 DEF suspend_note
  <2>5. CASE pm_suspend
    BY <2>1, <2>5 DEF pm_suspend
  <2>6. CASE pm_suspend_fails
    BY <2>1, <2>6 DEF pm_suspend_fails, Blocker!Abandon, Blocker!Wake
  <2>7. CASE try_to_freeze_tasks
    <3>1. held' = held
      BY <2>7, HasWakeLockHeld DEF try_to_freeze_tasks
    <3> QED
      BY <2>7, <3>1 DEF try_to_freeze_tasks, Blocker!Abandon
  <2>8. CASE tasks_frozen
    BY <2>1, <2>8 DEF tasks_frozen
  <2>9. CASE power_suspend_late
    <3>1. held' = held /\ (has_lock = 0 => held = {})
      BY <2>9, HasWakeLockHeld DEF power_suspend_late
    <3> QED
      BY <2>9, <3>1 DEF power_suspend_late, Blocker!Abandon, Blocker!Commit
  <2>10. CASE suspend_ops_enter
    BY <2>1, <2>10 DEF suspend_ops_enter
  <2>11. CASE wakeup
    BY <2>1, <2>11 DEF wakeup, Blocker!Wake
  <2>12. CASE suspend_compare
    BY <2>1, <2>12 DEF suspend_compare
  <2>13. CASE suspend_unknown_wakeup
    <3>1. /\ unknown_wakeup \in Locks /\ UnknownTimeout \in 0 .. MaxTimeout
          /\ wake_lock_timeout_q(unknown_wakeup, UnknownTimeout, suspend_work_queue)
      BY <2>13 DEF suspend_unknown_wakeup
    <3>2. held' = held \cup {unknown_wakeup} \/ held' \in SUBSET held
      BY <1>2, <3>1
    <3>3. mode' = mode
      BY <2>13 DEF suspend_unknown_wakeup
    <3> QED
      BY ONLY <3>1, <3>2, <3>3 DEF Blocker!Next, Blocker!Acquire, Blocker!Release
  <2> QED
    BY <1>9, <2>2, <2>3, <2>4, <2>5, <2>6, <2>7, <2>8, <2>9, <2>10, <2>11, <2>12,
       <2>13 DEF suspend
<1>10. CASE UNCHANGED vars
  BY <1>10 DEF vars, lockVars, workVars, held, mode
<1> QED
  <2>1. main_wake_lock \in Locks /\ sync_wake_lock \in Locks
    BY LocksAssumption
  <2> QED
    BY <1>4, <1>5, <1>6, <1>7, <1>8, <1>9, <1>10, <2>1 DEF Next, clock

(* At first nothing is held.                                               *)
LEMMA InitSimulates == Init => Blocker!Init
BY DEF Init, Blocker!Init, held, mode

(* The suspend work commits to a sleep only with nothing that blocks it,   *)
(* and tries only then: the safety part of ImplementsBlocker.              *)
THEOREM WakeLockImplementsBlocker == Spec => Blocker!Spec
BY InitIInv, NextIInv, InitSimulates, StepSimulates, PTL
   DEF Spec, Blocker!Spec, Blocker!vars

-----------------------------------------------------------------------------
(* EarlySuspend: lists of handlers.                                        *)

USE LevelsAssumption

(* The elements of a list, by position.                                    *)
LEMMA InList ==
  ASSUME NEW S, NEW s \in Seq(S)
  PROVE  /\ DOMAIN s = 1 .. Len(s)
         /\ \A x : x \in Range(s) <=> \E i \in 1 .. Len(s) : s[i] = x
         /\ Range(s) \in SUBSET S
BY DEF Range

(* An empty list has no elements.                                          *)
LEMMA EmptyList == Range(<<>>) = {}
BY DEF Range

(* InsertAt keeps the elements before the position and moves the others.   *)
LEMMA InsertAtPositions ==
  ASSUME NEW S, NEW s \in Seq(S), NEW p \in 1 .. Len(s) + 1, NEW e \in S
  PROVE  /\ InsertAt(s, p, e) \in Seq(S)
         /\ Len(InsertAt(s, p, e)) = Len(s) + 1
         /\ \A i \in 1 .. Len(s) + 1 :
              InsertAt(s, p, e)[i] = IF i < p THEN s[i] ELSE IF i = p THEN e ELSE s[i - 1]
<1> DEFINE a == SubSeq(s, 1, p - 1)
           b == SubSeq(s, p, Len(s))
           m == a \o <<e>>
<1>1. a \in Seq(S) /\ Len(a) = p - 1 /\ \A i \in 1 .. p - 1 : a[i] = s[i]
  OBVIOUS
<1>2. b \in Seq(S) /\ Len(b) = Len(s) - p + 1
      /\ \A i \in 1 .. Len(s) - p + 1 : b[i] = s[p + i - 1]
  OBVIOUS
<1>3. m \in Seq(S) /\ Len(m) = p /\ \A i \in 1 .. p : m[i] = IF i < p THEN s[i] ELSE e
  <2> HIDE DEF a
  <2> QED
    BY <1>1
<1>4. InsertAt(s, p, e) = m \o b
  BY DEF InsertAt
<1> HIDE DEF a, b, m
<1>5. m \o b \in Seq(S) /\ Len(m \o b) = Len(s) + 1
  <2>1. m \o b \in Seq(S) /\ Len(m \o b) = Len(m) + Len(b)
    BY <1>2, <1>3, ConcatProperties
  <2> QED
    BY <1>2, <1>3, <2>1
<1>6. \A i \in 1 .. Len(s) + 1 : (m \o b)[i] = IF i <= p THEN m[i] ELSE b[i - p]
  BY <1>2, <1>3, ConcatProperties
<1> QED
  BY <1>2, <1>3, <1>4, <1>5, <1>6

(* RemoveAt moves the elements after the position.                         *)
LEMMA RemoveAtPositions ==
  ASSUME NEW S, NEW s \in Seq(S), NEW p \in 1 .. Len(s)
  PROVE  /\ RemoveAt(s, p) \in Seq(S)
         /\ Len(RemoveAt(s, p)) = Len(s) - 1
         /\ \A i \in 1 .. Len(s) - 1 :
              RemoveAt(s, p)[i] = IF i < p THEN s[i] ELSE s[i + 1]
<1> DEFINE a == SubSeq(s, 1, p - 1)
           b == SubSeq(s, p + 1, Len(s))
<1>1. a \in Seq(S) /\ Len(a) = p - 1 /\ \A i \in 1 .. p - 1 : a[i] = s[i]
  OBVIOUS
<1>2. b \in Seq(S) /\ Len(b) = Len(s) - p
      /\ \A i \in 1 .. Len(s) - p : b[i] = s[p + i]
  OBVIOUS
<1>3. RemoveAt(s, p) = a \o b
  BY DEF RemoveAt
<1> HIDE DEF a, b
<1>4. Len(s) \in Nat /\ p \in Int /\ 1 <= p /\ p <= Len(s)
  OBVIOUS
<1>5. a \o b \in Seq(S) /\ Len(a \o b) = Len(s) - 1
  <2>1. a \o b \in Seq(S) /\ Len(a \o b) = Len(a) + Len(b)
    BY <1>1, <1>2, ConcatProperties
  <2> QED
    BY <1>1, <1>2, <1>4, <2>1
<1>6. \A i \in 1 .. Len(s) - 1 : (a \o b)[i] = IF i <= p - 1 THEN a[i] ELSE b[i - (p - 1)]
  BY <1>1, <1>2, <1>4, ConcatProperties
<1>7. ASSUME NEW i \in 1 .. Len(s) - 1
      PROVE  (a \o b)[i] = IF i < p THEN s[i] ELSE s[i + 1]
  <2>0. i \in Int /\ 1 <= i /\ i <= Len(s) - 1
    BY <1>4
  <2>1. ASSUME i < p PROVE (a \o b)[i] = s[i]
    <3>1. i \in 1 .. p - 1 /\ i <= p - 1
      BY <1>4, <2>0, <2>1
    <3>2. (a \o b)[i] = a[i]
      BY <1>6, <3>1
    <3> QED
      BY <1>1, <3>1, <3>2
  <2>2. ASSUME ~ (i < p) PROVE (a \o b)[i] = s[i + 1]
    <3> DEFINE k == i - (p - 1)
    <3>1. k \in 1 .. Len(s) - p /\ p + k = i + 1 /\ ~ (i <= p - 1)
      BY <1>4, <2>0, <2>2
    <3>2. (a \o b)[i] = b[k]
      BY <1>6, <3>1
    <3> HIDE DEF k
    <3>3. b[k] = s[p + k]
      BY <1>2, <3>1
    <3> QED
      BY <3>1, <3>2, <3>3
  <2> QED
    BY <2>1, <2>2
<1> QED
  BY <1>3, <1>5, <1>7

(* Reverse lists the same elements, each at the mirrored position.         *)
LEMMA ReversePositions ==
  ASSUME NEW S, NEW s \in Seq(S)
  PROVE  /\ Reverse(s) \in Seq(S)
         /\ Len(Reverse(s)) = Len(s)
         /\ \A i \in 1 .. Len(s) : Reverse(s)[i] = s[Len(s) - i + 1]
BY DEF Reverse

(* A list is ordered by level, ascending or descending, and lists no       *)
(* handler twice.                                                          *)
Ascending(s) == \A i, j \in 1 .. Len(s) : i <= j => Levels[s[i]] <= Levels[s[j]]
Descending(s) == \A i, j \in 1 .. Len(s) : i <= j => Levels[s[i]] >= Levels[s[j]]
Distinct(s) == \A i, j \in 1 .. Len(s) : s[i] = s[j] => i = j

(* The least element of a nonempty set of naturals.                        *)
LEMMA MinIsLeast ==
  ASSUME NEW S \in SUBSET Nat, S # {}
  PROVE  Min(S) \in S /\ \A k \in S : Min(S) <= k
<1>1. PICK m \in S : \A k \in S : ~ (<<k, m>> \in OpToRel(<, Nat))
  BY NatLessThanWellFounded, WFMin
<1>2. \A k \in S : m <= k
  <2> SUFFICES ASSUME NEW k \in S, k < m PROVE FALSE
    OBVIOUS
  <2>1. OpToRel(<, Nat) = {ss \in Nat \X Nat : ss[1] < ss[2]}
    BY DEF OpToRel
  <2>2. <<k, m>> \in Nat \X Nat /\ <<k, m>>[1] < <<k, m>>[2]
    OBVIOUS
  <2>3. <<k, m>> \in OpToRel(<, Nat)
    BY <2>1, <2>2
  <2> QED
    BY <1>1, <2>3
<1> QED
  BY <1>1, <1>2 DEF Min

(* register_early_suspend's loop finds the place of the new handler: the   *)
(* list stays ordered by level and gains the handler and nothing else.     *)
LEMMA InsertByLevel ==
  ASSUME NEW s \in Seq(Handlers), NEW h \in Handlers, Ascending(s), Distinct(s),
         h \notin Range(s)
  PROVE  /\ insert_by_level(s, h) \in Seq(Handlers)
         /\ Ascending(insert_by_level(s, h))
         /\ Distinct(insert_by_level(s, h))
         /\ Range(insert_by_level(s, h)) = Range(s) \cup {h}
<1> DEFINE higher == {i \in DOMAIN s : Levels[s[i]] > Levels[h]}
           p == IF higher = {} THEN Len(s) + 1 ELSE Min(higher)
           t == InsertAt(s, p, h)
<1>1. \A i \in 1 .. Len(s) : s[i] \in Handlers /\ s[i] # h /\ Levels[s[i]] \in Nat
  BY InList
<1>2. Levels[h] \in Nat /\ Len(s) \in Nat /\ DOMAIN s = 1 .. Len(s)
  OBVIOUS
<1>3. /\ p \in 1 .. Len(s) + 1
      /\ \A i \in 1 .. Len(s) : i < p => Levels[s[i]] <= Levels[h]
      /\ p <= Len(s) => Levels[s[p]] > Levels[h]
  <2>1. CASE higher = {}
    <3>1. p = Len(s) + 1
      BY <2>1
    <3>2. ASSUME NEW i \in 1 .. Len(s) PROVE Levels[s[i]] <= Levels[h]
      <4>1. i \in DOMAIN s /\ i \notin higher
        BY <1>2, <2>1
      <4>2. ~ (Levels[s[i]] > Levels[h])
        BY <4>1
      <4> QED
        BY <1>1, <1>2, <4>2
    <3> HIDE DEF p
    <3> QED
      BY <1>2, <3>1, <3>2
  <2>2. CASE higher # {}
    <3>1. higher \in SUBSET Nat
      BY <1>2
    <3>2. Min(higher) \in higher /\ \A k \in higher : Min(higher) <= k
      <4> HIDE DEF higher
      <4> QED
        BY <2>2, <3>1, MinIsLeast
    <3>3. p = Min(higher)
      BY <2>2
    <3> HIDE DEF p
    <3>4. p \in 1 .. Len(s) /\ Levels[s[p]] > Levels[h]
      BY <1>2, <3>2, <3>3
    <3>5. ASSUME NEW i \in 1 .. Len(s), i < p PROVE Levels[s[i]] <= Levels[h]
      <4>1. i \notin higher
        <5> HIDE DEF higher
        <5> QED
          BY <3>2, <3>3, <3>4, <3>5
      <4> QED
        BY <1>1, <1>2, <4>1
    <3> QED
      BY <1>2, <3>4, <3>5
  <2> QED
    BY <2>1, <2>2
<1>4. insert_by_level(s, h) = t
  BY DEF insert_by_level
<1> HIDE DEF p
<1>5. /\ t \in Seq(Handlers) /\ Len(t) = Len(s) + 1
      /\ \A i \in 1 .. Len(s) + 1 : t[i] = IF i < p THEN s[i] ELSE IF i = p THEN h ELSE s[i - 1]
  BY <1>3, InsertAtPositions
<1> HIDE DEF t, higher
<1>6. \A i \in 1 .. Len(s) : i >= p => Levels[s[i]] > Levels[h]
  BY <1>1, <1>2, <1>3 DEF Ascending
<1>7. Ascending(t)
  <2> SUFFICES ASSUME NEW i \in 1 .. Len(s) + 1, NEW j \in 1 .. Len(s) + 1, i <= j
               PROVE  Levels[t[i]] <= Levels[t[j]]
    BY <1>5 DEF Ascending
  <2>1. CASE j < p
    <3>0. i \in Int /\ j \in Int /\ p \in Int /\ i < p
      BY <1>2, <1>3, <2>1
    <3>1. t[i] = s[i] /\ t[j] = s[j]
      BY <1>5, <2>1, <3>0
    <3>2. i \in 1 .. Len(s) /\ j \in 1 .. Len(s)
      BY <1>2, <1>3, <2>1, <3>0
    <3> QED
      BY <3>1, <3>2 DEF Ascending
  <2>2. CASE j = p
    BY <1>1, <1>2, <1>3, <1>5, <2>2
  <2>3. CASE j > p /\ i = p
    <3>1. t[j] = s[j - 1] /\ t[i] = h /\ j - 1 \in 1 .. Len(s) /\ j - 1 >= p
      BY <1>2, <1>3, <1>5, <2>3
    <3> QED
      BY <1>1, <1>2, <1>6, <3>1
  <2>4. CASE j > p /\ i # p
    <3> DEFINE k == IF i < p THEN i ELSE i - 1
    <3>0. i \in Int /\ j \in Int /\ p \in Int
      BY <1>2, <1>3
    <3>1. t[j] = s[j - 1] /\ t[i] = s[k]
      <4>1. t[j] = s[j - 1]
        BY <1>5, <2>4, <3>0
      <4>2. t[i] = IF i < p THEN s[i] ELSE s[i - 1]
        BY <1>5, <2>4
      <4> QED
        BY <4>1, <4>2
    <3>2. j - 1 \in 1 .. Len(s) /\ k \in 1 .. Len(s) /\ k <= j - 1
      BY <1>2, <1>3, <2>4
    <3> QED
      BY <3>1, <3>2 DEF Ascending
  <2> QED
    BY <1>2, <1>3, <2>1, <2>2, <2>3, <2>4
<1>8. Distinct(t)
  <2> SUFFICES ASSUME NEW i \in 1 .. Len(s) + 1, NEW j \in 1 .. Len(s) + 1, t[i] = t[j]
               PROVE  i = j
    BY <1>5 DEF Distinct
  <2> DEFINE at(k) == IF k < p THEN k ELSE k - 1
  <2>1. ASSUME NEW k \in 1 .. Len(s) + 1, k # p
        PROVE  t[k] = s[at(k)] /\ at(k) \in 1 .. Len(s) /\ t[k] # h
    <3>1. t[k] = s[at(k)] /\ at(k) \in 1 .. Len(s)
      BY <1>2, <1>3, <1>5, <2>1
    <3> QED
      BY <1>1, <3>1
  <2>2. t[p] = h
    BY <1>3, <1>5
  <2>3. CASE i # p /\ j # p
    <3>1. at(i) = at(j)
      BY <2>1, <2>3 DEF Distinct
    <3> QED
      BY <1>2, <1>3, <2>3, <3>1
  <2> QED
    BY <2>1, <2>2, <2>3
<1>9. Range(t) = Range(s) \cup {h}
  <2>1. ASSUME NEW x \in Range(t) PROVE x \in Range(s) \cup {h}
    <3>1. PICK i \in 1 .. Len(s) + 1 : t[i] = x
      BY <1>5, InList
    <3>2. CASE i = p
      BY <1>5, <3>1, <3>2
    <3>3. CASE i # p
      <4>1. x = s[IF i < p THEN i ELSE i - 1] /\ (IF i < p THEN i ELSE i - 1) \in 1 .. Len(s)
        BY <1>2, <1>3, <1>5, <3>1, <3>3
      <4> QED
        BY <4>1, InList
    <3> QED
      BY <3>2, <3>3
  <2>2. ASSUME NEW x \in Range(s) PROVE x \in Range(t)
    <3>1. PICK i \in 1 .. Len(s) : s[i] = x
      BY InList
    <3>2. i \in Int /\ p \in Int /\ Len(s) \in Nat /\ 1 <= i /\ i <= Len(s)
      BY <1>2, <1>3
    <3>3. PICK k \in 1 .. Len(s) + 1 : IF i < p THEN k = i ELSE k = i + 1
      BY <3>2
    <3>4. t[k] = IF k < p THEN s[k] ELSE IF k = p THEN h ELSE s[k - 1]
      BY <1>5
    <3>5. t[k] = x
      BY <3>1, <3>2, <3>3, <3>4
    <3>6. k \in 1 .. Len(t)
      BY <1>5
    <3> QED
      BY <1>5, <3>5, <3>6, InList
  <2>3. h \in Range(t)
    BY <1>3, <1>5, InList
  <2> QED
    BY <2>1, <2>2, <2>3
<1> QED
  BY <1>4, <1>5, <1>7, <1>8, <1>9

(* Taking a handler off the list keeps the order of the others.            *)
LEMMA RemoveHandler ==
  ASSUME NEW s \in Seq(Handlers), NEW p \in DOMAIN s, Ascending(s), Distinct(s)
  PROVE  /\ RemoveAt(s, p) \in Seq(Handlers)
         /\ Ascending(RemoveAt(s, p))
         /\ Distinct(RemoveAt(s, p))
         /\ Range(RemoveAt(s, p)) = Range(s) \ {s[p]}
<1> DEFINE t == RemoveAt(s, p)
<1>1. p \in 1 .. Len(s) /\ Len(s) \in Nat
  OBVIOUS
<1>2. /\ t \in Seq(Handlers) /\ Len(t) = Len(s) - 1
      /\ \A i \in 1 .. Len(s) - 1 : t[i] = IF i < p THEN s[i] ELSE s[i + 1]
  BY <1>1, RemoveAtPositions
<1> HIDE DEF t
<1> DEFINE at(k) == IF k < p THEN k ELSE k + 1
<1>0. ASSUME NEW k \in 1 .. Len(t) PROVE t[k] = s[at(k)] /\ at(k) \in 1 .. Len(s)
  <2>1. k \in 1 .. Len(s) - 1
    BY <1>2
  <2>2. at(k) \in 1 .. Len(s)
    BY <1>1, <2>1
  <2> QED
    BY <1>2, <2>1, <2>2
<1>3. Ascending(t)
  <2> SUFFICES ASSUME NEW i \in 1 .. Len(t), NEW j \in 1 .. Len(t), i <= j
               PROVE  Levels[t[i]] <= Levels[t[j]]
    BY DEF Ascending
  <2>1. at(i) <= at(j)
    <3>1. i \in Int /\ j \in Int /\ p \in Int
      BY <1>1, <1>2
    <3> QED
      BY <3>1
  <2> HIDE DEF at
  <2> QED
    BY <1>0, <2>1 DEF Ascending
<1>4. Distinct(t)
  <2> SUFFICES ASSUME NEW i \in 1 .. Len(t), NEW j \in 1 .. Len(t), t[i] = t[j]
               PROVE  i = j
    BY DEF Distinct
  <2>1. at(i) = at(j)
    <3> HIDE DEF at
    <3> QED
      BY <1>0 DEF Distinct
  <2>2. i \in Int /\ j \in Int /\ p \in Int
    BY <1>1, <1>2
  <2> QED
    BY <2>1, <2>2
<1>5. Range(t) = Range(s) \ {s[p]}
  <2>1. ASSUME NEW x \in Range(t) PROVE x \in Range(s) /\ x # s[p]
    <3>1. PICK i \in 1 .. Len(s) - 1 : t[i] = x
      BY <1>2, InList
    <3>2. x = s[at(i)] /\ at(i) \in 1 .. Len(s)
      BY <1>0, <1>2, <3>1
    <3>3. at(i) # p
      BY <1>1
    <3> HIDE DEF at
    <3> QED
      BY <1>1, <3>2, <3>3, InList DEF Distinct
  <2>2. ASSUME NEW x \in Range(s), x # s[p] PROVE x \in Range(t)
    <3>1. PICK i \in 1 .. Len(s) : s[i] = x
      BY InList
    <3>2. i # p
      BY <2>2, <3>1
    <3> DEFINE k == IF i < p THEN i ELSE i - 1
    <3>3. k \in 1 .. Len(t) /\ at(k) = i
      BY <1>1, <1>2, <3>2
    <3>4. t[k] = x
      BY <1>0, <3>1, <3>3
    <3> HIDE DEF k
    <3> QED
      BY <1>2, <3>3, <3>4, InList
  <2> QED
    BY <2>1, <2>2
<1> QED
  BY <1>2, <1>3, <1>4, <1>5 DEF t

(* late_resume walks the list backwards.                                   *)
LEMMA ReverseHandlers ==
  ASSUME NEW s \in Seq(Handlers), Ascending(s)
  PROVE  /\ Reverse(s) \in Seq(Handlers)
         /\ Descending(Reverse(s))
         /\ Range(Reverse(s)) = Range(s)
<1> DEFINE t == Reverse(s)
<1>1. /\ t \in Seq(Handlers) /\ Len(t) = Len(s) /\ Len(s) \in Nat
      /\ \A i \in 1 .. Len(s) : t[i] = s[Len(s) - i + 1]
  BY ReversePositions
<1> HIDE DEF t
<1>2. Descending(t)
  <2> SUFFICES ASSUME NEW i \in 1 .. Len(s), NEW j \in 1 .. Len(s), i <= j
               PROVE  Levels[t[i]] >= Levels[t[j]]
    BY <1>1 DEF Descending
  <2> DEFINE m == Len(s) - i + 1
             n == Len(s) - j + 1
  <2>1. m \in 1 .. Len(s) /\ n \in 1 .. Len(s) /\ n <= m /\ t[i] = s[m] /\ t[j] = s[n]
    BY <1>1
  <2> HIDE DEF m, n
  <2>2. s[m] \in Handlers /\ s[n] \in Handlers
    BY <2>1
  <2> QED
    BY <2>1, <2>2 DEF Ascending
<1>3. Range(t) = Range(s)
  <2> DEFINE at(k) == Len(s) - k + 1
  <2>1. ASSUME NEW i \in 1 .. Len(s)
        PROVE  at(i) \in 1 .. Len(s) /\ at(at(i)) = i /\ t[i] = s[at(i)]
    <3>1. Len(s) \in Int /\ i \in Int /\ 1 <= i /\ i <= Len(s)
      BY <1>1
    <3>2. at(i) \in 1 .. Len(s) /\ at(at(i)) = i
      BY <3>1
    <3> QED
      BY <1>1, <3>2
  <2>2. ASSUME NEW i \in 1 .. Len(s) PROVE s[i] = t[at(i)]
    <3> HIDE DEF at
    <3> QED
      BY <2>1
  <2> HIDE DEF at
  <2>3. ASSUME NEW x \in Range(t) PROVE x \in Range(s)
    <3>1. PICK i \in 1 .. Len(s) : t[i] = x
      BY <1>1, InList
    <3>2. at(i) \in 1 .. Len(s) /\ s[at(i)] = x
      BY <2>1, <3>1
    <3> QED
      BY <3>2, InList
  <2>4. ASSUME NEW x \in Range(s) PROVE x \in Range(t)
    <3>1. PICK i \in 1 .. Len(s) : s[i] = x
      BY InList
    <3>2. at(i) \in 1 .. Len(t) /\ t[at(i)] = x
      BY <1>1, <2>1, <2>2, <3>1
    <3> QED
      BY <1>1, <3>2, InList
  <2> QED
    BY <2>3, <2>4
<1> QED
  BY <1>1, <1>2, <1>3 DEF t

(* The first of a list and the rest of it.                                 *)
LEMMA HeadAndTail ==
  ASSUME NEW s \in Seq(Handlers), s # <<>>
  PROVE  /\ Head(s) \in Handlers /\ Tail(s) \in Seq(Handlers)
         /\ Range(s) = {Head(s)} \cup Range(Tail(s))
         /\ Ascending(s) => /\ Ascending(Tail(s))
                            /\ \A x \in Range(Tail(s)) : Levels[Head(s)] <= Levels[x]
         /\ Descending(s) => /\ Descending(Tail(s))
                             /\ \A x \in Range(Tail(s)) : Levels[Head(s)] >= Levels[x]
<1> DEFINE t == Tail(s)
<1>0. Len(s) \in Nat \ {0}
  OBVIOUS
<1>1. /\ Len(s) \in Nat \ {0} /\ t \in Seq(Handlers) /\ Len(t) = Len(s) - 1
      /\ Head(s) = s[1] /\ Head(s) \in Handlers
      /\ \A i \in 1 .. Len(s) - 1 : t[i] = s[i + 1]
  OBVIOUS
<1> HIDE DEF t
<1>2. ASSUME NEW x \in Range(t) PROVE \E i \in 2 .. Len(s) : x = s[i]
  <2>1. PICK i \in 1 .. Len(s) - 1 : t[i] = x
    BY <1>1, InList
  <2>2. i + 1 \in 2 .. Len(s)
    BY <1>0
  <2>3. x = s[i + 1]
    BY <1>1, <2>1
  <2> QED
    BY <2>2, <2>3
<1>3. Range(s) = {Head(s)} \cup Range(t)
  <2>1. ASSUME NEW x \in Range(s), x # Head(s) PROVE x \in Range(t)
    <3>1. PICK i \in 1 .. Len(s) : s[i] = x
      BY InList
    <3>2. i # 1
      BY <1>1, <2>1, <3>1
    <3>3. i - 1 \in 1 .. Len(s) - 1 /\ (i - 1) + 1 = i
      BY <1>0, <3>2
    <3>4. i - 1 \in 1 .. Len(t) /\ t[i - 1] = x
      BY <1>1, <3>1, <3>3
    <3> QED
      BY <1>1, <3>4, InList
  <2>2. ASSUME NEW x \in Range(t) PROVE x \in Range(s)
    <3>1. PICK i \in 2 .. Len(s) : x = s[i]
      BY <1>2
    <3>2. i \in 1 .. Len(s)
      BY <1>0
    <3> QED
      BY <3>1, <3>2, InList
  <2>3. Head(s) \in Range(s)
    BY <1>1, InList
  <2> QED
    BY <2>1, <2>2, <2>3
<1>4. Ascending(s) => Ascending(t) /\ \A x \in Range(t) : Levels[Head(s)] <= Levels[x]
  <2> SUFFICES ASSUME Ascending(s)
               PROVE  Ascending(t) /\ \A x \in Range(t) : Levels[Head(s)] <= Levels[x]
    OBVIOUS
  <2>1. ASSUME NEW i \in 1 .. Len(t), NEW j \in 1 .. Len(t), i <= j
        PROVE  Levels[t[i]] <= Levels[t[j]]
    <3>1. i \in 1 .. Len(s) - 1 /\ j \in 1 .. Len(s) - 1
          /\ t[i] = s[i + 1] /\ t[j] = s[j + 1]
      BY <1>1
    <3>2. i + 1 \in 1 .. Len(s) /\ j + 1 \in 1 .. Len(s) /\ i + 1 <= j + 1
      BY <1>0, <2>1, <3>1
    <3> QED
      BY <3>1, <3>2 DEF Ascending
  <2>2. ASSUME NEW x \in Range(t) PROVE Levels[Head(s)] <= Levels[x]
    <3>1. PICK i \in 2 .. Len(s) : x = s[i]
      BY <1>2
    <3>2. 1 \in 1 .. Len(s) /\ i \in 1 .. Len(s) /\ 1 <= i
      BY <1>0
    <3> QED
      BY <1>1, <3>1, <3>2 DEF Ascending
  <2> QED
    BY <2>1, <2>2 DEF Ascending
<1>5. Descending(s) => Descending(t) /\ \A x \in Range(t) : Levels[Head(s)] >= Levels[x]
  <2> SUFFICES ASSUME Descending(s)
               PROVE  Descending(t) /\ \A x \in Range(t) : Levels[Head(s)] >= Levels[x]
    OBVIOUS
  <2>1. ASSUME NEW i \in 1 .. Len(t), NEW j \in 1 .. Len(t), i <= j
        PROVE  Levels[t[i]] >= Levels[t[j]]
    <3>1. i \in 1 .. Len(s) - 1 /\ j \in 1 .. Len(s) - 1
          /\ t[i] = s[i + 1] /\ t[j] = s[j + 1]
      BY <1>1
    <3>2. i + 1 \in 1 .. Len(s) /\ j + 1 \in 1 .. Len(s) /\ i + 1 <= j + 1
      BY <1>0, <2>1, <3>1
    <3> QED
      BY <3>1, <3>2 DEF Descending
  <2>2. ASSUME NEW x \in Range(t) PROVE Levels[Head(s)] >= Levels[x]
    <3>1. PICK i \in 2 .. Len(s) : x = s[i]
      BY <1>2
    <3>2. 1 \in 1 .. Len(s) /\ i \in 1 .. Len(s) /\ 1 <= i
      BY <1>0
    <3> QED
      BY <1>1, <3>1, <3>2 DEF Descending
  <2> QED
    BY <2>1, <2>2 DEF Descending
<1> QED
  BY <1>1, <1>3, <1>4, <1>5 DEF t

-----------------------------------------------------------------------------
(* The handlers.  early_suspend has called the handlers that are not in    *)
(* todo, from the lowest level up, late_resume from the highest down.      *)
Suspending ==
  /\ "SUSPENDED" \in state
  /\ Ascending(todo)
  /\ suspended \cup Range(todo) = Range(early_suspend_handlers)
  /\ \A k \in suspended, h \in Range(todo) : Levels[k] <= Levels[h]

Resuming ==
  /\ "SUSPENDED" \notin state
  /\ Descending(todo)
  /\ suspended \subseteq Range(todo)
  /\ \A k \in Range(early_suspend_handlers) \ suspended, h \in Range(todo) :
       Levels[k] >= Levels[h]

HandlerTypes ==
  /\ state \in SUBSET StateBits
  /\ requested_suspend_state \in {"on", "mem"}
  /\ early_suspend_handlers \in Seq(Handlers)
  /\ suspended \in SUBSET Range(early_suspend_handlers)
  /\ es_step \in {"none", "early_suspend", "suspending", "unlock_main",
                  "late_resume", "resuming"}
  /\ todo \in Seq(Handlers)
  /\ sync_pending \in BOOLEAN /\ syncing \in BOOLEAN

HandlerInv ==
  /\ HandlerTypes
  /\ Ascending(early_suspend_handlers) /\ Distinct(early_suspend_handlers)
  /\ HandlersMatchState
  /\ es_step = "suspending" => Suspending
  /\ es_step = "resuming" => Resuming

(* Suspended handlers are a lower part of the list.                        *)
LEMMA HandlersInOrder == HandlerInv => LevelOrder
<1> SUFFICES ASSUME HandlerInv,
                    NEW h \in Range(early_suspend_handlers),
                    NEW k \in Range(early_suspend_handlers),
                    Levels[h] < Levels[k], k \in suspended
             PROVE  h \in suspended
  BY DEF LevelOrder
<1>1. Levels[h] \in Nat /\ Levels[k] \in Nat
  BY InList DEF HandlerInv, HandlerTypes
<1>2. CASE es_step = "suspending"
  BY <1>1, <1>2 DEF HandlerInv, Suspending
<1>3. CASE es_step = "resuming"
  BY <1>1, <1>3 DEF HandlerInv, Resuming
<1>4. CASE mutex_free
  BY <1>4 DEF HandlerInv, HandlersMatchState
<1> QED
  BY <1>2, <1>3, <1>4 DEF mutex_free

(* Steps that leave the handlers alone, and of the state the SUSPENDED bit.*)
LEMMA OthersKeepHandlers ==
  ASSUME HandlerInv, UNCHANGED handlerVars,
         state' \in SUBSET StateBits, "SUSPENDED" \in state' <=> "SUSPENDED" \in state,
         requested_suspend_state' \in {"on", "mem"},
         sync_pending' \in BOOLEAN, syncing' \in BOOLEAN
  PROVE  HandlerInv'
<1>1. HandlerTypes'
  BY DEF HandlerInv, HandlerTypes, handlerVars
<1>2. Ascending(early_suspend_handlers)' /\ Distinct(early_suspend_handlers)'
  BY DEF HandlerInv, handlerVars, Ascending, Distinct
<1>3. HandlersMatchState'
  BY DEF HandlerInv, HandlersMatchState, mutex_free, handlerVars
<1>4. es_step' = "suspending" => Suspending'
  BY DEF HandlerInv, Suspending, Ascending, handlerVars
<1>5. es_step' = "resuming" => Resuming'
  BY DEF HandlerInv, Resuming, Descending, handlerVars
<1> QED
  BY <1>1, <1>2, <1>3, <1>4, <1>5 DEF HandlerInv

(* Registering and unregistering, outside the works that call handlers.    *)
LEMMA RegisterStep ==
  ASSUME HandlerInv, NEW h \in Handlers, register_early_suspend(h)
  PROVE  HandlerInv'
<1> DEFINE new == insert_by_level(early_suspend_handlers, h)
<1>1. /\ early_suspend_handlers' = new /\ h \notin Range(early_suspend_handlers)
      /\ mutex_free /\ UNCHANGED <<requestVars, es_step, todo, syncVars>>
      /\ suspended' = IF "SUSPENDED" \in state THEN suspended \cup {h} ELSE suspended
  BY DEF register_early_suspend
<1>2. /\ new \in Seq(Handlers) /\ Ascending(new) /\ Distinct(new)
      /\ Range(new) = Range(early_suspend_handlers) \cup {h}
  BY <1>1, InsertByLevel DEF HandlerInv, HandlerTypes
<1> HIDE DEF new
<1>3. suspended' = IF "SUSPENDED" \in state THEN Range(new) ELSE {}
  BY <1>1, <1>2 DEF HandlerInv, HandlersMatchState
<1>4. HandlerTypes'
  BY <1>1, <1>2, <1>3 DEF HandlerInv, HandlerTypes, requestVars, syncVars
<1>5. HandlersMatchState' /\ es_step' \notin {"suspending", "resuming"}
  BY <1>1, <1>3 DEF HandlersMatchState, mutex_free, requestVars
<1>6. Ascending(early_suspend_handlers)' /\ Distinct(early_suspend_handlers)'
  BY <1>1, <1>2 DEF Ascending, Distinct
<1> QED
  BY <1>4, <1>5, <1>6 DEF HandlerInv

(* unregister_early_suspend, outside and in the middle of a work.          *)
LEMMA UnregisterStep ==
  ASSUME HandlerInv, NEW h \in Handlers, unregister_early_suspend(h)
  PROVE  HandlerInv'
<1>1. PICK i \in DOMAIN early_suspend_handlers :
        /\ early_suspend_handlers[i] = h
        /\ early_suspend_handlers' = RemoveAt(early_suspend_handlers, i)
  BY DEF unregister_early_suspend
<1> DEFINE new == RemoveAt(early_suspend_handlers, i)
<1>2. /\ mutex_free /\ UNCHANGED <<requestVars, es_step, todo, syncVars>>
      /\ suspended' = suspended \ {h}
  BY DEF unregister_early_suspend
<1>3. /\ new \in Seq(Handlers) /\ Ascending(new) /\ Distinct(new)
      /\ Range(new) = Range(early_suspend_handlers) \ {h}
  BY <1>1, RemoveHandler DEF HandlerInv, HandlerTypes
<1>4. early_suspend_handlers' = new
  BY <1>1
<1> HIDE DEF new
<1>5. suspended' = IF "SUSPENDED" \in state THEN Range(new) ELSE {}
  BY <1>2, <1>3 DEF HandlerInv, HandlersMatchState
<1>6. HandlerTypes'
  BY <1>2, <1>3, <1>4, <1>5 DEF HandlerInv, HandlerTypes, requestVars, syncVars
<1>7. HandlersMatchState' /\ es_step' \notin {"suspending", "resuming"}
  BY <1>2, <1>4, <1>5 DEF HandlersMatchState, mutex_free, requestVars
<1>8. Ascending(early_suspend_handlers)' /\ Distinct(early_suspend_handlers)'
  BY <1>3, <1>4 DEF Ascending, Distinct
<1> QED
  BY <1>6, <1>7, <1>8 DEF HandlerInv

(* The works.                                                              *)
LEMMA WorkKeepsHandlers ==
  ASSUME HandlerInv, worker = "idle" => es_step = "none", esWorker
  PROVE  HandlerInv'
<1> USE DEF HandlerInv, HandlerTypes, HandlersMatchState, mutex_free, StateBits
<1>0. UNCHANGED <<requested_suspend_state, early_suspend_handlers, syncing>>
      /\ sync_pending' \in BOOLEAN
  BY DEF esWorker, run_work, early_suspend_begin, early_suspend_call, early_suspend_called,
     early_suspend_unlock_main, late_resume_begin, late_resume_call, late_resume_called,
     requestVars, syncVars
<1>1. Ascending(early_suspend_handlers)' /\ Distinct(early_suspend_handlers)'
  BY <1>0 DEF Ascending, Distinct
<1>2. ASSUME NEW w \in {"early_suspend", "late_resume"}, run_work(w) PROVE HandlerInv'
  BY <1>0, <1>1, <1>2 DEF run_work, requestVars
<1>3. CASE early_suspend_begin
  <2>1. CASE state = {"SUSPEND_REQUESTED"}
    <3>1. /\ state' = StateBits /\ es_step' = "suspending"
          /\ todo' = early_suspend_handlers /\ suspended' = suspended
      BY <1>3, <2>1 DEF early_suspend_begin
    <3>2. suspended = {}
      BY <1>3, <2>1 DEF early_suspend_begin
    <3>3. Suspending'
      BY <1>0, <3>1, <3>2 DEF Suspending, Ascending
    <3> QED
      BY <1>0, <1>1, <3>1, <3>2, <3>3
  <2>2. CASE state # {"SUSPEND_REQUESTED"}
    BY <1>0, <1>1, <1>3, <2>2 DEF early_suspend_begin
  <2> QED
    BY <2>1, <2>2
<1>4. CASE early_suspend_call
  <2>1. /\ es_step = "suspending" /\ todo # <<>> /\ Suspending
        /\ suspended' = suspended \cup {Head(todo)} /\ todo' = Tail(todo)
        /\ state' = state /\ es_step' = es_step
    BY <1>4 DEF early_suspend_call, requestVars
  <2>2. /\ Head(todo) \in Handlers /\ Tail(todo) \in Seq(Handlers)
        /\ Range(todo) = {Head(todo)} \cup Range(Tail(todo))
        /\ Ascending(Tail(todo))
        /\ \A x \in Range(Tail(todo)) : Levels[Head(todo)] <= Levels[x]
    BY <2>1, HeadAndTail DEF Suspending
  <2>3. Ascending(todo)'
    BY <2>1, <2>2 DEF Ascending
  <2>4. Suspending'
    BY <1>0, <2>1, <2>2, <2>3 DEF Suspending
  <2> QED
    BY <1>0, <1>1, <2>1, <2>2, <2>4 DEF Suspending
<1>5. CASE early_suspend_called
  <2>1. todo = <<>>
    BY <1>5 DEF early_suspend_called
  <2>2. Range(todo) = {}
    BY <2>1, EmptyList
  <2> QED
    BY <1>0, <1>1, <1>5, <2>2 DEF early_suspend_called, Suspending, requestVars
<1>6. CASE early_suspend_unlock_main
  BY <1>0, <1>1, <1>6 DEF early_suspend_unlock_main, requestVars
<1>7. CASE late_resume_begin
  <2>1. CASE state = {"SUSPENDED"}
    <3>1. /\ state' = {} /\ es_step' = "resuming" /\ suspended' = suspended
          /\ todo' = Reverse(early_suspend_handlers)
      BY <1>7, <2>1 DEF late_resume_begin
    <3>2. suspended = Range(early_suspend_handlers)
      BY <1>7, <2>1 DEF late_resume_begin
    <3>3. /\ todo' \in Seq(Handlers) /\ Range(todo') = Range(early_suspend_handlers)
          /\ Descending(todo')
      BY <3>1, ReverseHandlers
    <3>4. Descending(todo)'
      BY <3>3 DEF Descending
    <3>5. Resuming'
      BY <1>0, <3>1, <3>2, <3>3, <3>4 DEF Resuming
    <3> QED
      BY <1>0, <1>1, <3>1, <3>2, <3>3, <3>5
  <2>2. CASE state # {"SUSPENDED"}
    BY <1>0, <1>1, <1>7, <2>2 DEF late_resume_begin
  <2> QED
    BY <2>1, <2>2
<1>8. CASE late_resume_call
  <2>1. /\ es_step = "resuming" /\ todo # <<>> /\ Resuming
        /\ suspended' = suspended \ {Head(todo)} /\ todo' = Tail(todo)
        /\ state' = state /\ es_step' = es_step
    BY <1>8 DEF late_resume_call, requestVars
  <2>2. /\ Head(todo) \in Handlers /\ Tail(todo) \in Seq(Handlers)
        /\ Range(todo) = {Head(todo)} \cup Range(Tail(todo))
        /\ Descending(Tail(todo))
        /\ \A x \in Range(Tail(todo)) : Levels[Head(todo)] >= Levels[x]
    BY <2>1, HeadAndTail DEF Resuming
  <2>3. Descending(todo)'
    BY <2>1, <2>2 DEF Descending
  <2>4. Resuming'
    BY <1>0, <2>1, <2>2, <2>3 DEF Resuming
  <2> QED
    BY <1>0, <1>1, <2>1, <2>2, <2>4
<1>9. CASE late_resume_called
  <2>1. todo = <<>>
    BY <1>9 DEF late_resume_called
  <2>2. Range(todo) = {}
    BY <2>1, EmptyList
  <2> QED
    BY <1>0, <1>1, <1>9, <2>2 DEF late_resume_called, Resuming, requestVars
<1> QED
  BY <1>2, <1>3, <1>4, <1>5, <1>6, <1>7, <1>8, <1>9 DEF esWorker

-----------------------------------------------------------------------------
(* The locks.                                                              *)
USE LocksAssumption, TimeoutsAssumption

(* A step of the other works on the queue: it touches no lock, and a       *)
(* pending suspend work stays pending.                                     *)
LEMMA OtherWorkStep ==
  ASSUME IInv, UNCHANGED <<lockVars, timerVars, new_event>>,
         suspend_work_queue' \in Seq(Works),
         pending(suspend_work_queue, "suspend") => pending(suspend_work_queue', "suspend"),
         \/ worker' = worker
         \/ worker \in {"idle", "other"} /\ worker' \in {"idle", "other"}
  PROVE  IInv'
<1>1. TypeOK'
  BY DEF IInv, TypeOK, lockVars, timerVars
<1>2. permanent' = permanent /\ PermanentFirst' /\ TimerCoversLocks'
  BY DEF IInv, PermanentFirst, TimerCoversLocks, permanent, lockVars, timerVars
<1>3. SuspendNotLost'
  BY <1>2 DEF IInv, SuspendNotLost, SuspendSteps, lockVars, timerVars
<1>4. LateLockIsNewEvent'
  BY DEF IInv, LateLockIsNewEvent, lockVars
<1> QED
  BY <1>1, <1>2, <1>3, <1>4 DEF IInv

(* Taking another work off the queue leaves the suspend work pending.      *)
LEMMA OtherWorkTaken ==
  ASSUME NEW q \in Seq(Works), q # <<>>, Head(q) # "suspend", pending(q, "suspend")
  PROVE  pending(Tail(q), "suspend")
<1>1. PICK i \in 1 .. Len(q) : q[i] = "suspend"
  BY DEF pending
<1>2. i # 1
  BY <1>1
<1>3. i - 1 \in 1 .. Len(Tail(q)) /\ Tail(q)[i - 1] = "suspend"
  BY <1>1, <1>2
<1> QED
  BY <1>3 DEF pending

(* The main lock has no timeout; only request_suspend_state takes it and   *)
(* only the early_suspend work releases it.                                *)
MainUntouched == (main_wake_lock \in active' <=> main_wake_lock \in active)
                 /\ main_wake_lock \notin auto_expire'

(* A scan of the list does not drop a main lock without a timeout.         *)
LEMMA HasWakeLockKeepsMain ==
  ASSUME main_wake_lock \notin auto_expire, has_wake_lock
  PROVE  MainUntouched
BY DEF MainUntouched, has_wake_lock, set_list, timed_out

(* Nor does a lock of another.                                             *)
LEMMA WakeLockKeepsMain ==
  ASSUME main_wake_lock \notin auto_expire,
         NEW l \in Locks, l # main_wake_lock, NEW q, wake_lock_q(l, q)
  PROVE  MainUntouched
BY DEF MainUntouched, wake_lock_q, set_list

(* Nor one with a timeout.                                                 *)
LEMMA WakeLockTimeoutKeepsMain ==
  ASSUME main_wake_lock \notin auto_expire,
         NEW l \in Locks, l # main_wake_lock, NEW q, NEW timeout,
         wake_lock_timeout_q(l, timeout, q)
  PROVE  MainUntouched
BY DEF MainUntouched, wake_lock_timeout_q, set_list, timed_out

(* Nor an unlock of another.                                               *)
LEMMA WakeUnlockKeepsMain ==
  ASSUME main_wake_lock \notin auto_expire,
         NEW l \in Locks, l # main_wake_lock, NEW q, wake_unlock_q(l, q)
  PROVE  MainUntouched
BY DEF MainUntouched, wake_unlock_q, set_list, timed_out

(* Nor do drivers.                                                         *)
LEMMA DriversKeepMain ==
  ASSUME main_wake_lock \notin auto_expire, NEW l \in DriverLocks, driver(l)
  PROVE  MainUntouched /\ worker' = worker
<1>1. l \in Locks /\ l # main_wake_lock
  BY DEF DriverLocks, OwnLocks
<1>2. CASE wake_lock(l) \/ wake_unlock(l) \/ \E timeout \in Timeouts : wake_lock_timeout(l, timeout)
  BY <1>1, <1>2, WakeLockKeepsMain, WakeLockTimeoutKeepsMain, WakeUnlockKeepsMain
     DEF wake_lock, wake_unlock, wake_lock_timeout
<1>3. CASE wake_lock_init(l)
  BY <1>3 DEF MainUntouched, wake_lock_init, workVars
<1>4. CASE wake_lock_destroy(l)
  BY <1>1, <1>4 DEF MainUntouched, wake_lock_destroy, set_list, workVars
<1> QED
  BY <1>2, <1>3, <1>4 DEF driver

(* Nor does the clock.                                                     *)
LEMMA ClockKeepsMain ==
  ASSUME main_wake_lock \notin auto_expire, clock
  PROVE  MainUntouched /\ worker' = worker
<1>1. CASE Tick
  BY <1>1 DEF Tick, MainUntouched, workVars
<1>2. CASE DetachTimer
  BY <1>2 DEF DetachTimer, MainUntouched, lockVars, workVars
<1>3. CASE expire_wake_locks
  BY <1>3, HasWakeLockKeepsMain DEF expire_wake_locks
<1> QED
  BY <1>1, <1>2, <1>3 DEF clock

(* The suspend work gets past power_suspend_late only without the main     *)
(* lock.                                                                   *)
LEMMA SuspendWorkKeepsMain ==
  ASSUME IInv, main_wake_lock \notin auto_expire, suspend
  PROVE  /\ MainUntouched
         /\ worker # "other" /\ worker' # "other"
         /\ worker' \in {"noirq", "asleep"} =>
              worker \in {"noirq", "asleep"} \/ main_wake_lock \notin active
<1> USE DEF goto
<1>1. CASE suspend_check \/ try_to_freeze_tasks
  BY <1>1, HasWakeLockKeepsMain DEF suspend_check, try_to_freeze_tasks
<1>2. CASE power_suspend_late
  <2>1. MainUntouched
    BY <1>2, HasWakeLockKeepsMain DEF power_suspend_late
  <2>2. has_lock = 0 => active' = {}
    BY <1>2, HasWakeLockStep DEF power_suspend_late
  <2> QED
    BY <1>2, <2>1, <2>2 DEF power_suspend_late, MainUntouched
<1>3. CASE suspend_unknown_wakeup
  <2>1. MainUntouched
    BY <1>3, WakeLockTimeoutKeepsMain DEF suspend_unknown_wakeup
  <2> QED
    BY <1>3, <2>1 DEF suspend_unknown_wakeup
<1>4. CASE \/ run_suspend_work \/ suspend_note \/ pm_suspend \/ pm_suspend_fails
           \/ tasks_frozen \/ suspend_ops_enter \/ wakeup \/ suspend_compare
  BY <1>4 DEF run_suspend_work, suspend_note, pm_suspend, pm_suspend_fails, tasks_frozen,
     suspend_ops_enter, wakeup, suspend_compare, lockVars, MainUntouched
<1> QED
  BY <1>1, <1>2, <1>3, <1>4 DEF suspend

-----------------------------------------------------------------------------
(* The two together.  The worker is in one work at a time; the system is   *)
(* past power_suspend_late only while sleep is requested and the handlers  *)
(* are suspended.                                                          *)
LockInv ==
  /\ IInv
  /\ main_wake_lock \notin auto_expire
  /\ MainLockHeld
  /\ es_step # "none" <=> worker = "other"
  /\ worker \in {"noirq", "asleep"} => state = StateBits

ESInv == LockInv /\ HandlerInv

(* The invariant is what the theorems say, and more.                       *)
LEMMA ESInvImplies == ESInv => HandlersFollow /\ SleepInStep
<1> SUFFICES ASSUME ESInv PROVE HandlersFollow /\ SleepInStep
  OBVIOUS
<1>1. ESTypeOK
  BY DEF ESInv, LockInv, HandlerInv, HandlerTypes, IInv, ESTypeOK
<1>2. AsleepIsEarlySuspended
  BY DEF ESInv, LockInv, HandlerInv, HandlersMatchState, mutex_free, StateBits,
     AsleepIsEarlySuspended
<1> QED
  BY <1>1, <1>2, HandlersInOrder DEF ESInv, LockInv, HandlerInv, IInv,
     HandlersFollow, SleepInStep

(* At first nothing is early-suspended and the main lock is held.          *)
LEMMA InitESInv == ESInit => ESInv
<1> SUFFICES ASSUME ESInit PROVE ESInv
  OBVIOUS
<1>1. IInv
  BY InitIInv DEF ESInit
<1>2. LockInv
  BY <1>1 DEF ESInit, Init, LockInv, MainLockHeld
<1>3. early_suspend_handlers \in Seq(Handlers) /\ todo \in Seq(Handlers)
      /\ Len(early_suspend_handlers) = 0
  BY DEF ESInit
<1>4. sync_pending \in BOOLEAN /\ syncing \in BOOLEAN /\ state \in SUBSET StateBits
      /\ suspended \in SUBSET Range(early_suspend_handlers)
  BY DEF ESInit
<1>5. HandlerTypes
  BY <1>3, <1>4 DEF ESInit, HandlerTypes
<1>6. Ascending(early_suspend_handlers) /\ Distinct(early_suspend_handlers)
  BY <1>3 DEF Ascending, Distinct
<1>7. HandlersMatchState /\ es_step = "none"
  BY DEF ESInit, HandlersMatchState
<1> QED
  BY <1>2, <1>5, <1>6, <1>7 DEF ESInv, HandlerInv

(* Every step of early suspend, drivers and the suspend work keeps it.     *)
LEMMA NextESInv == ESInv /\ [ESNext]_allVars => ESInv'
<1> SUFFICES ASSUME ESInv, [ESNext]_allVars PROVE ESInv'
  OBVIOUS
<1>0. IInv /\ main_wake_lock \notin auto_expire /\ worker \in Places
      /\ suspend_work_queue \in Seq(Works)
  BY DEF ESInv, LockInv, IInv, TypeOK, Places
(* Steps that leave the requests and the handlers alone.                   *)
<1>1. ASSUME UNCHANGED <<requestVars, handlerVars>>,
             sync_pending' \in BOOLEAN, syncing' \in BOOLEAN,
             IInv', MainUntouched, worker = "other" <=> worker' = "other",
             worker' \in {"noirq", "asleep"} =>
               worker \in {"noirq", "asleep"} \/ main_wake_lock \notin active
      PROVE  ESInv'
  <2>1. HandlerInv'
    BY <1>1, OthersKeepHandlers DEF ESInv, HandlerInv, HandlerTypes, requestVars
  <2>2. LockInv'
    BY <1>1 DEF ESInv, LockInv, MainLockHeld, MainUntouched, requestVars, handlerVars
  <2> QED
    BY <2>1, <2>2 DEF ESInv
<1>2. CASE UNCHANGED esVars /\ (clock \/ \E l \in DriverLocks : driver(l))
  <2>1. IInv'
    BY <1>0, <1>2, ClockStep, DriverStep DEF DriverLocks
  <2>2. MainUntouched /\ worker' = worker
    BY <1>0, <1>2, ClockKeepsMain, DriversKeepMain
  <2>3. sync_pending' \in BOOLEAN /\ syncing' \in BOOLEAN
    BY <1>2 DEF ESInv, HandlerInv, HandlerTypes, esVars, syncVars
  <2> QED
    BY <1>1, <1>2, <2>1, <2>2, <2>3 DEF esVars
<1>3. CASE suspend_work
  <2>1. suspend /\ UNCHANGED esVars
    BY <1>3 DEF suspend_work
  <2>2. sync_pending' \in BOOLEAN /\ syncing' \in BOOLEAN
    BY <2>1 DEF ESInv, HandlerInv, HandlerTypes, esVars, syncVars
  <2> QED
    BY <1>0, <1>1, <2>1, <2>2, SuspendWorkStep, SuspendWorkKeepsMain DEF esVars
<1>4. CASE sync_system_begin
  <2>1. wake_lock_q(sync_wake_lock, suspend_work_queue) /\ worker' \in Places
    BY <1>0, <1>4 DEF sync_system_begin
  <2>3. IInv' /\ MainUntouched
    BY <1>0, <2>1, WakeLockStep, WakeLockKeepsMain
  <2>2. sync_pending' \in BOOLEAN /\ syncing' \in BOOLEAN
    BY <1>4 DEF sync_system_begin
  <2> QED
    BY <1>1, <1>4, <2>2, <2>3 DEF sync_system_begin
<1>5. CASE sync_system_end
  <2>1. wake_unlock_q(sync_wake_lock, suspend_work_queue) /\ worker' = worker
    BY <1>5 DEF sync_system_end
  <2>3. IInv' /\ MainUntouched
    BY <1>0, <2>1, WakeUnlockStep, WakeUnlockKeepsMain
  <2>2. sync_pending' \in BOOLEAN /\ syncing' \in BOOLEAN
    BY <1>5 DEF sync_system_end, ESInv, HandlerInv, HandlerTypes
  <2> QED
    BY <1>1, <1>5, <2>2, <2>3 DEF sync_system_end
<1>6. ASSUME NEW h \in Handlers, register_early_suspend(h) \/ unregister_early_suspend(h)
      PROVE  ESInv'
  <2>1. HandlerInv'
    BY <1>6, RegisterStep, UnregisterStep DEF ESInv
  <2>2. UNCHANGED <<vars, requestVars, es_step>>
    BY <1>6 DEF register_early_suspend, unregister_early_suspend
  <2>3. IInv'
    BY <1>0, <2>2, NextIInv
  <2>4. LockInv'
    BY <2>2, <2>3 DEF ESInv, LockInv, MainLockHeld, vars, lockVars, workVars, requestVars
  <2> QED
    BY <2>1, <2>4 DEF ESInv
<1>7. ASSUME NEW new_state \in {"on", "mem"}, request_suspend_state(new_state) PROVE ESInv'
  <2>1. /\ worker' = worker /\ UNCHANGED handlerVars /\ UNCHANGED syncVars
        /\ requested_suspend_state' = new_state
        /\ worker \notin {"noirq", "asleep"}
    BY <1>7 DEF request_suspend_state, user_runs
  <2>2. /\ state' \in SUBSET StateBits
        /\ "SUSPENDED" \in state' <=> "SUSPENDED" \in state
    BY <1>7 DEF request_suspend_state, ESInv, HandlerInv, HandlerTypes, StateBits
  <2>3. HandlerInv'
    BY <2>1, <2>2, OthersKeepHandlers DEF ESInv, HandlerInv, HandlerTypes, syncVars
  <2>4. IInv' /\ main_wake_lock \notin auto_expire' /\ MainLockHeld'
    <3>1. CASE /\ "SUSPEND_REQUESTED" \notin state /\ new_state # "on"
               /\ suspend_work_queue' = queue_work(suspend_work_queue, "early_suspend")
               /\ UNCHANGED <<lockVars, timerVars, new_event>>
      <4>1. /\ suspend_work_queue' \in Seq(Works)
            /\ pending(suspend_work_queue, "suspend") => pending(suspend_work_queue', "suspend")
        BY <1>0, <3>1, QueueWork DEF Works
      <4>2. IInv'
        <5>1. worker' = worker /\ UNCHANGED <<lockVars, timerVars, new_event>>
          BY <2>1, <3>1
        <5> QED
          BY <1>0, <4>1, <5>1, OtherWorkStep
      <4> QED
        BY <1>0, <3>1, <4>2 DEF ESInv, LockInv, MainLockHeld, StateBits, lockVars
    <3>2. CASE wake_lock_q(main_wake_lock, queue_work(suspend_work_queue, "late_resume"))
      <4>1. queue_work(suspend_work_queue, "late_resume") \in Seq(Works)
        BY <1>0, QueueWork DEF Works
      <4>2. IInv'
        <5>1. main_wake_lock \in Locks /\ worker' \in Places
          BY <1>0, <2>1
        <5> QED
          BY <1>0, <3>2, <4>1, <5>1, WakeLockStep
      <4>3. main_wake_lock \in active' /\ main_wake_lock \notin auto_expire'
        BY <3>2 DEF wake_lock_q, set_list
      <4> QED
        BY <4>2, <4>3 DEF MainLockHeld
    <3>3. CASE UNCHANGED <<state, lockVars, timerVars, new_event, suspend_work_queue>>
      <4>1. IInv'
        <5>1. worker' = worker /\ UNCHANGED <<lockVars, timerVars, new_event>>
          BY <2>1, <3>3
        <5>2. /\ suspend_work_queue' \in Seq(Works)
              /\ pending(suspend_work_queue, "suspend") => pending(suspend_work_queue', "suspend")
          BY <1>0, <3>3
        <5> QED
          BY <1>0, <5>1, <5>2, OtherWorkStep
      <4> QED
        BY <1>0, <3>3, <4>1 DEF ESInv, LockInv, MainLockHeld, lockVars
    <3> QED
      BY <1>7, <3>1, <3>2, <3>3 DEF request_suspend_state
  <2>5. LockInv'
    BY <2>1, <2>4 DEF ESInv, LockInv, handlerVars
  <2> QED
    BY <2>3, <2>5 DEF ESInv
<1>8. CASE esWorker
  <2>1. HandlerInv'
    BY <1>8, WorkKeepsHandlers DEF ESInv, LockInv
  <2> SUFFICES LockInv'
    BY <2>1 DEF ESInv
  <2> USE DEF ESInv, LockInv
  <2>2. ASSUME NEW w \in {"early_suspend", "late_resume"}, run_work(w) PROVE LockInv'
    <3>1. /\ suspend_work_queue' = Tail(suspend_work_queue) /\ suspend_work_queue # <<>>
          /\ Head(suspend_work_queue) # "suspend" /\ worker = "idle" /\ worker' = "other"
          /\ UNCHANGED <<lockVars, timerVars, new_event, state>> /\ es_step' = w
      BY <2>2 DEF run_work, requestVars
    <3>2. IInv'
      BY <1>0, <3>1, OtherWorkTaken, OtherWorkStep
    <3> QED
      BY <3>1, <3>2 DEF MainLockHeld, lockVars
  <2>3. CASE early_suspend_begin \/ early_suspend_call \/ early_suspend_called \/ late_resume_call
    <3>1. UNCHANGED vars
      BY <2>3 DEF early_suspend_begin, early_suspend_call, early_suspend_called, late_resume_call
    <3>2. IInv'
      BY <1>0, <3>1, NextIInv
    <3>3. es_step # "none" /\ es_step' # "none"
      BY <2>3 DEF early_suspend_begin, early_suspend_call, early_suspend_called, late_resume_call
    <3>4. state' = state \/ state = {"SUSPEND_REQUESTED"}
      BY <2>3 DEF early_suspend_begin, early_suspend_call, early_suspend_called,
         late_resume_call, requestVars
    <3>5. MainLockHeld'
      BY <3>1, <3>4 DEF MainLockHeld, StateBits, vars, lockVars
    <3> QED
      BY <3>1, <3>2, <3>3, <3>5 DEF vars, lockVars, workVars
  <2>4. CASE early_suspend_unlock_main
    <3>1. worker = "other" /\ worker' = "idle" /\ es_step' = "none" /\ state' = state
      BY <2>4 DEF early_suspend_unlock_main, requestVars
    <3>2. CASE state = StateBits
      <4>1. wake_unlock_q(main_wake_lock, suspend_work_queue)
        BY <2>4, <3>2 DEF early_suspend_unlock_main
      <4>2. IInv'
        <5>1. main_wake_lock \in Locks /\ worker' \in Places /\ worker' \notin {"noirq", "asleep"}
          BY <3>1 DEF Places
        <5> QED
          BY <1>0, <4>1, <5>1, WakeUnlockStep
      <4>3. main_wake_lock \notin auto_expire'
        BY <4>1 DEF wake_unlock_q, set_list
      <4> QED
        BY <3>1, <3>2, <4>2, <4>3 DEF MainLockHeld
    <3>3. CASE state # StateBits
      <4>1. UNCHANGED <<lockVars, timerVars, new_event, suspend_work_queue>>
        BY <2>4, <3>3 DEF early_suspend_unlock_main
      <4>2. IInv'
        BY <1>0, <3>1, <4>1, OtherWorkStep
      <4> QED
        BY <3>1, <4>1, <4>2 DEF MainLockHeld, lockVars
    <3> QED
      BY <3>2, <3>3
  <2>5. CASE late_resume_begin
    <3>1. /\ worker = "other" /\ UNCHANGED <<lockVars, timerVars, new_event, suspend_work_queue>>
          /\ \/ worker' = "other" /\ es_step' = "resuming" /\ state = {"SUSPENDED"}
             \/ worker' = "idle" /\ es_step' = "none" /\ state' = state
      BY <2>5 DEF late_resume_begin
    <3>2. IInv'
      BY <1>0, <3>1, OtherWorkStep
    <3>3. MainLockHeld'
      BY <3>1 DEF MainLockHeld, StateBits, lockVars
    <3> QED
      BY <3>1, <3>2, <3>3 DEF lockVars
  <2>6. CASE late_resume_called
    <3>1. /\ worker = "other" /\ UNCHANGED <<lockVars, timerVars, new_event, suspend_work_queue>>
          /\ worker' = "idle" /\ es_step' = "none" /\ state' = state
      BY <2>6 DEF late_resume_called, requestVars
    <3>2. IInv'
      BY <1>0, <3>1, OtherWorkStep
    <3> QED
      BY <3>1, <3>2 DEF MainLockHeld, lockVars
  <2> QED
    BY <1>8, <2>2, <2>3, <2>4, <2>5, <2>6 DEF esWorker
<1>9. CASE UNCHANGED allVars
  <2>1. UNCHANGED vars /\ UNCHANGED esVars
    BY <1>9 DEF allVars
  <2>2. IInv'
    BY <1>0, <2>1, NextIInv
  <2>3. sync_pending' \in BOOLEAN /\ syncing' \in BOOLEAN
    BY <2>1 DEF ESInv, HandlerInv, HandlerTypes, esVars, syncVars
  <2> QED
    BY <1>0, <1>1, <2>1, <2>2, <2>3 DEF MainUntouched, vars, lockVars, workVars, esVars
<1> QED
  BY <1>2, <1>3, <1>4, <1>5, <1>6, <1>7, <1>8, <1>9 DEF ESNext

(* Whatever handlers register or unregister meanwhile, early_suspend and   *)
(* late_resume leave every handler as the SUSPENDED bit says, and at every *)
(* moment a suspended handler has those of lower levels suspended too.     *)
THEOREM HandlersFollowWorks == ESSpec => []HandlersFollow
BY InitESInv, NextESInv, ESInvImplies, PTL DEF ESSpec

(* No interleaving of requests, works, drivers and timers gives up the     *)
(* main wake lock, or sleeps, with a wakeup request unanswered or a        *)
(* handler awake, and none forgets a suspend that nothing blocks.          *)
THEOREM SleepStaysInStep == ESSpec => []SleepInStep
BY InitESInv, NextESInv, ESInvImplies, PTL DEF ESSpec

-----------------------------------------------------------------------------
(* The names of userwakelock.c and their order.                            *)

(* a comes after b: at the first place where they differ b has ended or    *)
(* has the lower character.                                                *)
Above(a, b) ==
  \E k \in 1 .. Len(a) :
    /\ \A i \in 1 .. k - 1 : i <= Len(b) /\ a[i] = b[i]
    /\ k > Len(b) \/ a[k] > b[k]

(* The order of names is strict.                                           *)
LEMMA AboveAsymmetric ==
  ASSUME NEW a \in Seq(Nat), NEW b \in Seq(Nat), Above(a, b)
  PROVE  ~ Above(b, a) /\ a # b
<1>1. PICK k \in 1 .. Len(a) :
        /\ \A i \in 1 .. k - 1 : i <= Len(b) /\ a[i] = b[i]
        /\ k > Len(b) \/ a[k] > b[k]
  BY DEF Above
<1>2. a # b
  BY <1>1
<1>3. ASSUME NEW m \in 1 .. Len(b),
             \A i \in 1 .. m - 1 : i <= Len(a) /\ b[i] = a[i],
             m > Len(a) \/ b[m] > a[m]
      PROVE  FALSE
  <2>1. CASE m < k
    <3>1. m \in 1 .. k - 1 /\ m \in 1 .. Len(a)
      BY <2>1
    <3> QED
      BY <1>1, <1>3, <3>1
  <2>2. CASE m >= k
    <3>1. k <= Len(b) /\ k \in 1 .. Len(b)
      BY <2>2
    <3>2. a[k] > b[k]
      BY <1>1, <3>1
    <3>3. CASE m = k
      BY <1>3, <3>2, <3>3
    <3>4. CASE m > k
      <4>1. k \in 1 .. m - 1
        BY <3>4
      <4> QED
        BY <1>3, <3>1, <3>2, <4>1
    <3> QED
      BY <2>2, <3>3, <3>4
  <2> QED
    BY <2>1, <2>2
<1> QED
  BY <1>2, <1>3 DEF Above

(* The order of names is transitive.                                       *)
LEMMA AboveTransitive ==
  ASSUME NEW a \in Seq(Nat), NEW b \in Seq(Nat), NEW c \in Seq(Nat),
         Above(a, b), Above(b, c)
  PROVE  Above(a, c)
<1>1. PICK k \in 1 .. Len(a) :
        /\ \A i \in 1 .. k - 1 : i <= Len(b) /\ a[i] = b[i]
        /\ k > Len(b) \/ a[k] > b[k]
  BY DEF Above
<1>2. PICK m \in 1 .. Len(b) :
        /\ \A i \in 1 .. m - 1 : i <= Len(c) /\ b[i] = c[i]
        /\ m > Len(c) \/ b[m] > c[m]
  BY DEF Above
<1>3. CASE k <= m
  <2>1. a[k] > b[k] /\ k \in 1 .. Len(b)
    BY <1>1, <1>3
  <2>2. ASSUME NEW i \in 1 .. k - 1 PROVE i <= Len(c) /\ a[i] = c[i]
    <3>1. i \in 1 .. m - 1
      BY <1>3
    <3> QED
      BY <1>1, <1>2, <3>1
  <2>3. k > Len(c) \/ a[k] > c[k]
    <3>1. CASE k = m
      <4>1. CASE m > Len(c)
        BY <3>1, <4>1
      <4>2. CASE ~ (m > Len(c))
        <5>1. b[k] > c[k] /\ k \in 1 .. Len(c)
          BY <1>2, <3>1, <4>2
        <5> QED
          BY <2>1, <5>1
      <4> QED
        BY <4>1, <4>2
    <3>2. CASE k < m
      <4>1. k \in 1 .. m - 1
        BY <3>2
      <4> QED
        BY <1>2, <2>1, <4>1
    <3> QED
      BY <1>3, <3>1, <3>2
  <2> QED
    BY <2>2, <2>3 DEF Above
<1>4. CASE m < k
  <2>1. m \in 1 .. k - 1 /\ m \in 1 .. Len(a)
    BY <1>4
  <2>2. a[m] = b[m]
    BY <1>1, <2>1
  <2>3. ASSUME NEW i \in 1 .. m - 1 PROVE i <= Len(c) /\ a[i] = c[i]
    <3>1. i \in 1 .. k - 1
      BY <1>4
    <3> QED
      BY <1>1, <1>2, <3>1
  <2>4. m > Len(c) \/ a[m] > c[m]
    BY <1>2, <2>2
  <2> QED
    BY <2>1, <2>3, <2>4 DEF Above
<1> QED
  BY <1>3, <1>4

(* The comparison of lookup_wake_lock_name tells the order of two names:   *)
(* the strncmp of the first and the length of the second are enough.       *)
LEMMA DiffIsOrder ==
  ASSUME NEW a \in Seq(Nat), NEW b \in Seq(Nat)
  PROVE  /\ diff(a, b) \in {-1, 0, 1}
         /\ diff(a, b) = 0 <=> a = b
         /\ diff(a, b) > 0 <=> Above(a, b)
         /\ diff(a, b) < 0 <=> Above(b, a)
<1> DEFINE differ == {i \in 1 .. Len(a) : i > Len(b) \/ a[i] # b[i]}
<1>0. /\ Above(a, b) => ~ Above(b, a) /\ a # b
      /\ Above(b, a) => ~ Above(a, b) /\ a # b
  BY AboveAsymmetric
<1>1. CASE differ = {}
  <2>1. \A i \in 1 .. Len(a) : i <= Len(b) /\ a[i] = b[i]
    BY <1>1
  <2>2. Len(a) <= Len(b)
    BY <2>1
  <2>3. CASE Len(b) > Len(a)
    <3>1. diff(a, b) = -1
      BY <1>1, <2>3 DEF diff
    <3>2. Above(b, a)
      <4>1. Len(a) + 1 \in 1 .. Len(b)
        BY <2>3
      <4>2. \A i \in 1 .. (Len(a) + 1) - 1 : i <= Len(a) /\ b[i] = a[i]
        BY <2>1
      <4>3. Len(a) + 1 > Len(a)
        OBVIOUS
      <4> QED
        BY <4>1, <4>2, <4>3 DEF Above
    <3> QED
      BY <1>0, <3>1, <3>2
  <2>4. CASE Len(b) = Len(a)
    <3>1. diff(a, b) = 0
      BY <1>1, <2>4 DEF diff
    <3>2. a = b
      BY <2>1, <2>4
    <3> QED
      BY <1>0, <3>1, <3>2
  <2> QED
    BY <2>2, <2>3, <2>4
<1>2. CASE differ # {}
  <2> DEFINE k == Min(differ)
  <2>1. k \in differ /\ \A i \in differ : k <= i
    <3>1. differ \in SUBSET Nat
      OBVIOUS
    <3> HIDE DEF differ
    <3> QED
      BY <1>2, <3>1, MinIsLeast
  <2>2. diff(a, b) = IF k > Len(b) \/ a[k] > b[k] THEN 1 ELSE -1
    BY <1>2 DEF diff
  <2> HIDE DEF k
  <2>3. k \in 1 .. Len(a) /\ (k > Len(b) \/ a[k] # b[k])
    BY <2>1
  <2>4. \A i \in 1 .. k - 1 : i \in 1 .. Len(a) /\ i <= Len(b) /\ a[i] = b[i]
    <3> SUFFICES ASSUME NEW i \in 1 .. k - 1
                 PROVE  i \in 1 .. Len(a) /\ i <= Len(b) /\ a[i] = b[i]
      OBVIOUS
    <3>1. i \in 1 .. Len(a) /\ ~ (k <= i)
      <4>1. k \in Int /\ Len(a) \in Nat /\ k <= Len(a)
        BY <2>3
      <4>2. i \in Int /\ 1 <= i /\ i <= k - 1
        BY <4>1
      <4> QED
        BY <4>1, <4>2
    <3>2. i \notin differ
      BY <2>1, <3>1
    <3> QED
      BY <3>1, <3>2
  <2>5. CASE k > Len(b) \/ a[k] > b[k]
    <3>1. diff(a, b) = 1
      BY <2>2, <2>5
    <3>2. Above(a, b)
      BY <2>3, <2>4, <2>5 DEF Above
    <3> QED
      BY <1>0, <3>1, <3>2
  <2>6. CASE ~ (k > Len(b) \/ a[k] > b[k])
    <3>1. diff(a, b) = -1
      BY <2>2, <2>6
    <3>2. k \in 1 .. Len(b) /\ b[k] > a[k]
      BY <2>3, <2>6
    <3>3. \A i \in 1 .. k - 1 : i <= Len(a) /\ b[i] = a[i]
      BY <2>4
    <3>4. Above(b, a)
      BY <3>2, <3>3 DEF Above
    <3> QED
      BY <1>0, <3>1, <3>4
  <2> QED
    BY <2>5, <2>6
<1> QED
  BY <1>1, <1>2

-----------------------------------------------------------------------------
(* The tree, in order: every name comes after those before it.             *)
Sorted(t) == \A i, j \in 1 .. Len(t) : i < j => Above(t[j], t[i])

(* Names are sequences of characters.                                      *)
LEMMA NamesAreSequences == \A n \in Names : n \in Seq(Nat)
BY UserAssumption

(* A search that goes by the comparison finds each name at its own place,  *)
(* wherever in the tree it starts.                                         *)
LEMMA SortedIsFound ==
  ASSUME tree \in Seq(Names), Sorted(tree)
  PROVE  FoundInEveryShape
<1> SUFFICES ASSUME NEW n \in Names, NEW i \in 1 .. Len(tree)
             PROVE  /\ diff(n, tree[i]) = 0 <=> n = tree[i]
                    /\ \A j \in 1 .. Len(tree) : tree[j] = n /\ i < j => diff(n, tree[i]) > 0
                    /\ \A j \in 1 .. Len(tree) : tree[j] = n /\ i > j => diff(n, tree[i]) < 0
  BY InList DEF FoundInEveryShape
<1>1. n \in Seq(Nat) /\ tree[i] \in Seq(Nat)
  BY NamesAreSequences
<1>2. /\ diff(n, tree[i]) = 0 <=> n = tree[i]
      /\ diff(n, tree[i]) > 0 <=> Above(n, tree[i])
      /\ diff(n, tree[i]) < 0 <=> Above(tree[i], n)
  BY <1>1, DiffIsOrder
<1> QED
  BY <1>2 DEF Sorted

(* A name that no lookup finds is not in the tree.                         *)
LEMMA FoundIsIn ==
  ASSUME tree \in Seq(Names), NEW n \in Names
  PROVE  found(n) <=> \E i \in 1 .. Len(tree) : tree[i] = n
<1>1. \A i \in 1 .. Len(tree) : diff(n, tree[i]) = 0 <=> n = tree[i]
  BY NamesAreSequences, DiffIsOrder
<1> QED
  BY <1>1, InList DEF found

(* Where the search for a new name ends: all names before the place are    *)
(* lower, all others higher.                                               *)
LEMMA InsertPlace ==
  ASSUME tree \in Seq(Names), Sorted(tree), NEW n \in Names, ~ found(n),
         NEW p, p = 1 + Cardinality({i \in DOMAIN tree : diff(n, tree[i]) > 0})
  PROVE  /\ p \in 1 .. Len(tree) + 1
         /\ \A i \in 1 .. Len(tree) : i < p => Above(n, tree[i])
         /\ \A i \in 1 .. Len(tree) : i >= p => Above(tree[i], n)
<1> DEFINE P == {i \in DOMAIN tree : diff(n, tree[i]) > 0}
           U == {i \in 1 .. Len(tree) + 1 : i \notin P}
           m == Min(U)
<1>0. DOMAIN tree = 1 .. Len(tree) /\ n \in Seq(Nat)
      /\ \A i \in 1 .. Len(tree) : tree[i] \in Seq(Nat)
  BY NamesAreSequences, InList
<1>1. \A i \in 1 .. Len(tree) : i \in P <=> Above(n, tree[i])
  <2> SUFFICES ASSUME NEW i \in 1 .. Len(tree) PROVE i \in P <=> Above(n, tree[i])
    OBVIOUS
  <2>1. diff(n, tree[i]) > 0 <=> Above(n, tree[i])
    BY <1>0, DiffIsOrder
  <2> QED
    BY <1>0, <2>1
<1>2. P \in SUBSET (1 .. Len(tree))
  BY <1>0
<1>3. p = 1 + Cardinality(P)
  OBVIOUS
<1> HIDE DEF P
<1>4. m \in U /\ \A i \in U : m <= i
  <2>1. Len(tree) + 1 \in U /\ U \in SUBSET Nat
    BY <1>2
  <2> HIDE DEF U
  <2> QED
    BY <2>1, MinIsLeast
<1> HIDE DEF m
<1>5. m \in 1 .. Len(tree) + 1 /\ m \notin P
  BY <1>4
<1>6. ASSUME NEW i \in 1 .. Len(tree), i < m PROVE i \in P
  <2>1. i \in 1 .. Len(tree) + 1 /\ ~ (m <= i)
    BY <1>5, <1>6
  <2> QED
    BY <1>4, <2>1
<1>7. ASSUME NEW i \in 1 .. Len(tree), i >= m PROVE i \notin P
  <2>1. CASE i = m
    BY <1>5, <2>1
  <2>2. CASE i # m
    <3>1. m \in 1 .. Len(tree) /\ m < i
      BY <1>5, <1>7, <2>2
    <3>2. Above(tree[i], tree[m]) /\ ~ Above(n, tree[m])
      BY <1>1, <1>5, <3>1 DEF Sorted
    <3> QED
      BY <1>0, <1>1, <3>1, <3>2, AboveTransitive
  <2> QED
    BY <2>1, <2>2
<1>8. P = 1 .. m - 1
  <2>1. ASSUME NEW i \in P PROVE i \in 1 .. m - 1
    <3>1. i \in 1 .. Len(tree)
      BY <1>2
    <3>2. ~ (i >= m)
      BY <1>7, <3>1
    <3> QED
      BY <1>5, <3>1, <3>2
  <2>2. ASSUME NEW i \in 1 .. m - 1 PROVE i \in P
    BY <1>5, <1>6
  <2> QED
    BY <2>1, <2>2
<1>9. Cardinality(P) = m - 1
  BY <1>5, <1>8, FS_Interval
<1>10. p = m
  BY <1>3, <1>5, <1>9
<1>11. ASSUME NEW i \in 1 .. Len(tree), i >= p PROVE Above(tree[i], n)
  <2>1. ~ Above(n, tree[i])
    BY <1>1, <1>7, <1>10, <1>11
  <2>2. n # tree[i]
    BY FoundIsIn
  <2> QED
    BY <1>0, <2>1, <2>2, DiffIsOrder
<1> QED
  BY <1>1, <1>5, <1>6, <1>10, <1>11

(* A new name keeps the tree in order.                                     *)
LEMMA InsertKeepsOrder ==
  ASSUME tree \in Seq(Names), Sorted(tree), NEW n \in Names, ~ found(n)
  PROVE  insert(n) \in Seq(Names) /\ Sorted(insert(n))
<1> DEFINE p == 1 + Cardinality({i \in DOMAIN tree : diff(n, tree[i]) > 0})
           t == InsertAt(tree, p, n)
<1>1. insert(n) = t
  BY DEF insert
<1> HIDE DEF p
<1>2. /\ p \in 1 .. Len(tree) + 1
      /\ \A i \in 1 .. Len(tree) : i < p => Above(n, tree[i])
      /\ \A i \in 1 .. Len(tree) : i >= p => Above(tree[i], n)
  BY InsertPlace DEF p
<1>3. /\ t \in Seq(Names) /\ Len(t) = Len(tree) + 1
      /\ \A i \in 1 .. Len(tree) + 1 :
           t[i] = IF i < p THEN tree[i] ELSE IF i = p THEN n ELSE tree[i - 1]
  BY ONLY <1>2, tree \in Seq(Names), n \in Names, InsertAtPositions
<1> HIDE DEF t
<1>4. ASSUME NEW i \in 1 .. Len(t), NEW j \in 1 .. Len(t), i < j
      PROVE  Above(t[j], t[i])
  <2>0. i \in Int /\ j \in Int /\ p \in Int /\ Len(tree) \in Nat
    BY <1>2
  <2>1. CASE j < p
    <3>1. i \in 1 .. Len(tree) /\ j \in 1 .. Len(tree) /\ i < p
      BY <1>2, <1>3, <1>4, <2>0, <2>1
    <3>2. t[i] = tree[i] /\ t[j] = tree[j]
      BY <1>3, <2>1, <3>1
    <3> QED
      BY <1>4, <3>1, <3>2 DEF Sorted
  <2>2. CASE j = p
    <3>1. i \in 1 .. Len(tree) /\ i < p
      BY <1>2, <1>3, <1>4, <2>0, <2>2
    <3>2. t[i] = tree[i] /\ t[j] = n
      BY <1>3, <2>2, <3>1
    <3> QED
      BY <1>2, <3>1, <3>2
  <2>3. CASE j > p
    <3>1. j - 1 \in 1 .. Len(tree) /\ j - 1 >= p /\ t[j] = tree[j - 1]
      BY <1>2, <1>3, <2>0, <2>3
    <3>2. CASE i = p
      <4>1. t[i] = n
        BY <1>3, <3>2
      <4> QED
        BY <1>2, <3>1, <4>1
    <3>3. CASE i < p
      <4>1. i \in 1 .. Len(tree) /\ t[i] = tree[i] /\ i < j - 1
        BY <1>2, <1>3, <2>0, <2>3, <3>3
      <4> QED
        BY <3>1, <4>1 DEF Sorted
    <3>4. CASE i > p
      <4>1. i - 1 \in 1 .. Len(tree) /\ t[i] = tree[i - 1] /\ i - 1 < j - 1
        BY <1>2, <1>3, <1>4, <2>0, <3>4
      <4> QED
        BY <3>1, <4>1 DEF Sorted
    <3> QED
      BY <2>0, <3>2, <3>3, <3>4
  <2> QED
    BY <2>0, <2>1, <2>2, <2>3
<1> QED
  BY <1>1, <1>3, <1>4 DEF Sorted

-----------------------------------------------------------------------------
(* The conversion of a timeout.                                            *)

(* The C remainder by a positive number.                                   *)
LEMMA Remainder ==
  ASSUME NEW x \in Nat, NEW y \in Nat \ {0}
  PROVE  x % y \in 0 .. y - 1
OBVIOUS

(* At least a jiffy, and a long, which is 0 for the timeouts it cuts only. *)
LEMMA TimeoutIsLong ==
  ASSUME NEW ns \in Nanos
  PROVE  /\ timeout_of(ns) \in Nat \ {0}
         /\ to_long(timeout_of(ns)) \in (-MaxTimeout - 1) .. MaxTimeout
         /\ to_long(timeout_of(ns)) = 0 <=> cut(ns)
<1>1. /\ ns \in Nat /\ U64 \in Nat \ {0} /\ NSEC_PER_JIFFY \in Nat \ {0}
      /\ MaxTimeout \in Nat
  BY UserAssumption
<1> DEFINE r == (ns + NSEC_PER_JIFFY - 1) % U64
           t == timeout_of(ns)
           w == t % (2 * (MaxTimeout + 1))
<1>2. r \in Nat
  <2>1. ns + NSEC_PER_JIFFY - 1 \in Nat
    BY <1>1
  <2> QED
    BY <1>1, <2>1, Remainder
<1>3. t \in Nat \ {0}
  <2>1. t = IF r \div NSEC_PER_JIFFY <= 0 THEN 1 ELSE r \div NSEC_PER_JIFFY
    BY DEF timeout_of, jiffies_of
  <2> HIDE DEF r, t
  <2>2. r \div NSEC_PER_JIFFY \in Int
    BY <1>1, <1>2
  <2> QED
    BY <2>1, <2>2
<1>4. to_long(t) = IF w > MaxTimeout THEN w - 2 * (MaxTimeout + 1) ELSE w
  BY DEF to_long
<1> HIDE DEF t
<1>5. w \in 0 .. 2 * (MaxTimeout + 1) - 1
  <2>1. 2 * (MaxTimeout + 1) \in Nat \ {0}
    BY <1>1
  <2> QED
    BY <1>3, <2>1, Remainder
<1>6. w = 0 <=> cut(ns)
  <2> DEFINE j == jiffies_of(ns)
             m == 2 * (MaxTimeout + 1)
  <2>1. j \in Int /\ m \in Nat /\ m >= 2
    BY <1>1, <1>2 DEF jiffies_of
  <2>2. t = (IF j <= 0 THEN 1 ELSE j) /\ (cut(ns) <=> j > 0 /\ j % m = 0)
    BY DEF t, timeout_of, cut
  <2>3. w = t % m
    OBVIOUS
  <2> HIDE DEF j, m, w
  <2>4. CASE j <= 0
    <3>1. 1 % m = 1
      BY <2>1
    <3> QED
      BY <2>1, <2>2, <2>3, <2>4, <3>1
  <2>5. CASE j > 0
    BY <2>1, <2>2, <2>3, <2>5
  <2> QED
    BY <2>1, <2>4, <2>5
<1> HIDE DEF w
<1> QED
  BY <1>1, <1>3, <1>4, <1>5, <1>6 DEF t

-----------------------------------------------------------------------------
(* What calls of wakelock.c do to locks they are not about: they may find  *)
(* one timed out, and take none.                                           *)
Untouched(k) == (k \in permanent' <=> k \in permanent) /\ (k \in active' => k \in active)

(* The scan of the list.                                                   *)
LEMMA ScanTouchesNone == ASSUME has_wake_lock, NEW k PROVE Untouched(k)
BY DEF Untouched, permanent, has_wake_lock, set_list, timed_out

(* wake_lock: the lock is held without a timeout.                          *)
LEMMA LockEffect ==
  ASSUME NEW l, NEW q, wake_lock_q(l, q), NEW k
  PROVE  IF k = l THEN k \in permanent' /\ k \in active' ELSE Untouched(k)
BY DEF Untouched, permanent, wake_lock_q, set_list

(* wake_lock_timeout: the lock is not held without one.                    *)
LEMMA LockTimeoutEffect ==
  ASSUME NEW l, NEW q, NEW timeout, wake_lock_timeout_q(l, timeout, q), NEW k
  PROVE  IF k = l THEN k \notin permanent' ELSE Untouched(k)
BY DEF Untouched, permanent, wake_lock_timeout_q, set_list, timed_out

(* wake_unlock: the lock is not held.                                      *)
LEMMA UnlockEffect ==
  ASSUME NEW l, NEW q, wake_unlock_q(l, q), NEW k
  PROVE  IF k = l THEN k \notin permanent' /\ k \notin active' ELSE Untouched(k)
BY DEF Untouched, permanent, wake_unlock_q, set_list, timed_out

(* A driver touches its own lock.                                          *)
LEMMA DriverTouchesOwn ==
  ASSUME NEW l, driver(l), NEW k, k # l
  PROVE  Untouched(k)
<1>1. CASE wake_lock(l) \/ wake_unlock(l)
  BY <1>1, LockEffect, UnlockEffect DEF wake_lock, wake_unlock
<1>2. ASSUME NEW timeout \in Timeouts, wake_lock_timeout(l, timeout) PROVE Untouched(k)
  BY <1>2, LockTimeoutEffect DEF wake_lock_timeout
<1>3. CASE wake_lock_init(l)
  BY <1>3 DEF wake_lock_init, Untouched, permanent
<1>4. CASE wake_lock_destroy(l)
  BY <1>4 DEF wake_lock_destroy, set_list, Untouched, permanent
<1> QED
  BY <1>1, <1>2, <1>3, <1>4 DEF driver

(* The clock touches none.                                                 *)
LEMMA ClockTouchesNone == ASSUME clock, NEW k PROVE Untouched(k)
<1>1. CASE Tick
  BY <1>1 DEF Tick, Untouched, permanent
<1>2. CASE DetachTimer
  BY <1>2 DEF DetachTimer, lockVars, Untouched, permanent
<1>3. CASE expire_wake_locks
  BY <1>3, ScanTouchesNone DEF expire_wake_locks
<1> QED
  BY <1>1, <1>2, <1>3 DEF clock

(* The suspend work touches only the lock for unknown wakeups.             *)
LEMMA SuspendTouchesOwn ==
  ASSUME suspend, NEW k, k # unknown_wakeup
  PROVE  Untouched(k)
<1>1. CASE suspend_check \/ try_to_freeze_tasks \/ power_suspend_late
  BY <1>1, ScanTouchesNone DEF suspend_check, try_to_freeze_tasks, power_suspend_late
<1>2. CASE suspend_unknown_wakeup
  BY <1>2, LockTimeoutEffect DEF suspend_unknown_wakeup
<1>3. CASE \/ run_suspend_work \/ suspend_note \/ pm_suspend \/ pm_suspend_fails
           \/ tasks_frozen \/ suspend_ops_enter \/ wakeup \/ suspend_compare
  BY <1>3 DEF run_suspend_work, suspend_note, pm_suspend, pm_suspend_fails, tasks_frozen,
     suspend_ops_enter, wakeup, suspend_compare, lockVars, Untouched, permanent
<1> QED
  BY <1>1, <1>2, <1>3 DEF suspend

(* No step of the kernel touches the lock of a name.                       *)
LEMMA KernelTouchesNoName ==
  ASSUME kernel, NEW n \in Names
  PROVE  Untouched(lockOf[n])
<1>1. lockOf[n] \in DriverLocks
  BY UserAssumption
<1>2. lockOf[n] \notin OwnLocks
  BY <1>1 DEF DriverLocks
<1>3. ASSUME NEW l \in DriverLocks \ {lockOf[m] : m \in Names}, driver(l)
      PROVE  Untouched(lockOf[n])
  BY <1>3, DriverTouchesOwn
<1>4. CASE wake_lock(main_wake_lock) \/ wake_unlock(main_wake_lock)
  BY <1>2, <1>4, LockEffect, UnlockEffect DEF wake_lock, wake_unlock, OwnLocks
<1>5. CASE clock \/ suspend
  BY <1>2, <1>5, ClockTouchesNone, SuspendTouchesOwn DEF OwnLocks
<1> QED
  BY <1>3, <1>4, <1>5 DEF kernel

-----------------------------------------------------------------------------
(* The inductive invariant of userwakelock.c: a write past its lookup      *)
(* makes the call that its name was last asked for.                        *)
StoresWhatWasAsked ==
  storing # NONE =>
    /\ storing.op = "unlock" => asked[storing.name] = "nothing"
    /\ storing.op = "lock" /\ storing.timeout = 0 => asked[storing.name] \in {"lock", "cut"}
    /\ storing.op = "lock" /\ storing.timeout # 0 => asked[storing.name] = "timeout"

UWInv ==
  /\ tree \in Seq(Names) /\ Sorted(tree)
  /\ storing \in Writes \cup {NONE}
  /\ asked \in [Names -> {"nothing", "lock", "timeout", "cut"}]
  /\ StoresWhatWasAsked
  /\ UserLockAsAsked

(* The calls of a write keep the invariant of wakelock.c.                  *)
LEMMA WriteStep ==
  ASSUME IInv, storing \in Writes, wake_lock_store \/ wake_unlock_store
  PROVE  IInv'
<1> DEFINE l == lockOf[storing.name]
           t == IF storing.timeout < 0 THEN 0 ELSE storing.timeout
<1>1. l \in Locks /\ t \in 0 .. MaxTimeout
  BY UserAssumption DEF Writes, DriverLocks
<1>2. worker \in Places
  BY DEF IInv, TypeOK, Places
<1>3. wake_lock_timeout(l, t) \/ wake_lock(l) \/ wake_unlock(l)
  BY DEF wake_lock_store, wake_unlock_store
<1> HIDE DEF l, t
<1>4. CASE wake_lock_timeout(l, t)
  BY <1>1, <1>2, <1>4, WakeLockTimeoutStep DEF wake_lock_timeout
<1>5. CASE wake_lock(l) \/ wake_unlock(l)
  BY <1>1, <1>5, DriverStep DEF driver
<1> QED
  BY <1>3, <1>4, <1>5

(* A step of the kernel is one of wakelock.c.                              *)
LEMMA KernelIsNext == kernel => Next
<1> SUFFICES ASSUME kernel PROVE Next
  OBVIOUS
<1>1. ASSUME NEW l \in DriverLocks \ {lockOf[n] : n \in Names}, driver(l) PROVE Next
  BY <1>1 DEF Next
<1> QED
  BY <1>1 DEF kernel, Next

(* What user space writes keeps the invariant of wakelock.c.               *)
LEMMA UserKeepsIInv ==
  ASSUME IInv, storing \in Writes \cup {NONE}, [UWNext]_uwAll
  PROVE  IInv' /\ storing' \in Writes \cup {NONE}
<1>1. ASSUME NEW n \in Names, NEW ns \in Nanos \cup {NONE}, wake_lock_store_lookup(n, ns)
      PROVE  IInv' /\ storing' \in Writes
  <2>1. lockOf[n] \in Locks
    BY UserAssumption DEF DriverLocks
  <2>2. IInv'
    <3>1. CASE UNCHANGED vars
      BY <3>1, NextIInv
    <3>2. CASE wake_lock_init(lockOf[n])
      <4>1. TypeOK'
        BY <2>1, <3>2 DEF IInv, TypeOK, wake_lock_init, timerVars, workVars
      <4> QED
        BY <3>2, <4>1 DEF IInv, PermanentFirst, TimerCoversLocks, SuspendNotLost,
           LateLockIsNewEvent, permanent, wake_lock_init, timerVars, workVars
    <3> QED
      BY <1>1, <3>1, <3>2 DEF wake_lock_store_lookup
  <2>3. (IF ns = NONE THEN 0 ELSE to_long(timeout_of(ns))) \in (-MaxTimeout - 1) .. MaxTimeout
    BY TimeoutIsLong
  <2>4. storing' = [name |-> n, op |-> "lock",
                    timeout |-> IF ns = NONE THEN 0 ELSE to_long(timeout_of(ns))]
    BY <1>1 DEF wake_lock_store_lookup
  <2> QED
    BY <2>2, <2>3, <2>4 DEF Writes
<1>2. ASSUME NEW n \in Names, wake_unlock_store_lookup(n)
      PROVE  IInv' /\ storing' \in Writes
  <2>1. UNCHANGED vars
    BY <1>2 DEF wake_unlock_store_lookup
  <2>2. IInv'
    BY <2>1, NextIInv
  <2>3. storing' = [name |-> n, op |-> "unlock", timeout |-> 0]
    BY <1>2 DEF wake_unlock_store_lookup
  <2> QED
    BY <2>2, <2>3 DEF Writes
<1>3. CASE wake_lock_store \/ wake_unlock_store
  <2>1. storing # NONE /\ storing' = NONE
    BY <1>3 DEF wake_lock_store, wake_unlock_store
  <2> QED
    BY <1>3, <2>1, WriteStep
<1>4. CASE kernel
  <2>1. UNCHANGED storing
    BY <1>4 DEF kernel, uwVars
  <2> QED
    BY <1>4, <2>1, KernelIsNext, NextIInv
<1>5. CASE UNCHANGED uwAll
  <2>1. UNCHANGED vars /\ UNCHANGED storing
    BY <1>5 DEF uwAll, uwVars
  <2> QED
    BY <2>1, NextIInv
<1> QED
  BY <1>1, <1>2, <1>3, <1>4, <1>5 DEF UWNext

(* At first the tree is empty and nothing is asked.                        *)
LEMMA InitUWInv == UWInit => IInv /\ UWInv
<1> SUFFICES ASSUME UWInit PROVE IInv /\ UWInv
  OBVIOUS
<1>1. IInv
  BY InitIInv DEF UWInit
<1>2. tree \in Seq(Names) /\ Sorted(tree)
  BY DEF UWInit, Sorted
<1>3. storing = NONE /\ asked = [n \in Names |-> "nothing"]
  BY DEF UWInit
<1>4. \A n \in Names : lockOf[n] \notin active
  BY UserAssumption DEF UWInit, Init, DriverLocks, OwnLocks
<1>5. UserLockAsAsked
  BY <1>3, <1>4 DEF UserLockAsAsked, permanent
<1> QED
  BY <1>1, <1>2, <1>3, <1>5 DEF UWInv, StoresWhatWasAsked

(* UserLockAsAsked for one name.                                           *)
AsAsked(n) ==
  /\ asked[n] \in {"lock", "cut"} <=> lockOf[n] \in permanent
  /\ asked[n] = "nothing" => lockOf[n] \notin active

(* A write of its lock leaves the lock of its name as it was asked for,    *)
(* and every other name's lock alone.                                      *)
LEMMA WriteEffect ==
  ASSUME UWInv, wake_lock_store \/ wake_unlock_store
  PROVE  \A n \in Names : IF n = storing.name THEN AsAsked(n)' ELSE Untouched(lockOf[n])
<1>1. storing # NONE /\ storing \in Writes
  BY DEF UWInv, wake_lock_store, wake_unlock_store
<1> DEFINE m == storing.name
           t == IF storing.timeout < 0 THEN 0 ELSE storing.timeout
<1>2. m \in Names /\ asked' = asked
  BY <1>1 DEF Writes, wake_lock_store, wake_unlock_store
<1>3. \A n \in Names : n # m => lockOf[n] # lockOf[m]
  BY <1>2, UserAssumption
<1>4. CASE wake_lock_store /\ storing.timeout # 0
  <2>1. wake_lock_timeout_q(lockOf[m], t, suspend_work_queue) /\ storing.op = "lock"
    BY <1>4 DEF wake_lock_store, wake_lock_timeout
  <2>2. asked[m] = "timeout"
    BY <1>1, <1>4, <2>1 DEF UWInv, StoresWhatWasAsked
  <2>3. \A k : IF k = lockOf[m] THEN k \notin permanent' ELSE Untouched(k)
    BY <2>1, LockTimeoutEffect
  <2> QED
    BY <1>2, <1>3, <2>2, <2>3 DEF AsAsked
<1>5. CASE wake_lock_store /\ storing.timeout = 0
  <2>1. wake_lock_q(lockOf[m], suspend_work_queue) /\ storing.op = "lock"
    BY <1>5 DEF wake_lock_store, wake_lock
  <2>2. asked[m] \in {"lock", "cut"}
    BY <1>1, <1>5, <2>1 DEF UWInv, StoresWhatWasAsked
  <2>3. \A k : IF k = lockOf[m] THEN k \in permanent' /\ k \in active' ELSE Untouched(k)
    BY <2>1, LockEffect
  <2> QED
    BY <1>2, <1>3, <2>2, <2>3 DEF AsAsked
<1>6. CASE wake_unlock_store
  <2>1. wake_unlock_q(lockOf[m], suspend_work_queue) /\ storing.op = "unlock"
    BY <1>6 DEF wake_unlock_store, wake_unlock
  <2>2. asked[m] = "nothing"
    BY <1>1, <2>1 DEF UWInv, StoresWhatWasAsked
  <2>3. \A k : IF k = lockOf[m] THEN k \notin permanent' /\ k \notin active' ELSE Untouched(k)
    BY <2>1, UnlockEffect
  <2> QED
    BY <1>2, <1>3, <2>2, <2>3 DEF AsAsked
<1> QED
  BY <1>4, <1>5, <1>6

(* A lookup asks for the call that its write will make.                    *)
LEMMA LookupStep ==
  ASSUME UWInv, storing = NONE, NEW n \in Names, NEW w \in Writes, w.name = n,
         NEW what \in {"nothing", "lock", "timeout", "cut"},
         w.op = "unlock" => what = "nothing",
         w.op = "lock" /\ w.timeout = 0 => what \in {"lock", "cut"},
         w.op = "lock" /\ w.timeout # 0 => what = "timeout",
         storing' = w, asked' = [asked EXCEPT ![n] = what],
         tree' \in Seq(Names), Sorted(tree'),
         UNCHANGED <<active, auto_expire>>
  PROVE  UWInv'
<1>1. asked \in [Names -> {"nothing", "lock", "timeout", "cut"}]
  BY DEF UWInv
<1>2. asked' \in [Names -> {"nothing", "lock", "timeout", "cut"}] /\ asked'[n] = what
  BY <1>1
<1>3. StoresWhatWasAsked'
  BY <1>2 DEF StoresWhatWasAsked
<1>4. storing' # NONE /\ permanent' = permanent
  BY UserAssumption DEF permanent
<1>5. UserLockAsAsked'
  <2> SUFFICES ASSUME NEW m \in Names, storing'.name # m PROVE AsAsked(m)'
    BY <1>4 DEF UserLockAsAsked, AsAsked
  <2>1. AsAsked(m)
    BY DEF UWInv, UserLockAsAsked, AsAsked
  <2>2. asked'[m] = asked[m]
    BY <1>1
  <2> QED
    BY <1>4, <2>1, <2>2 DEF AsAsked
<1> QED
  BY <1>2, <1>3, <1>5 DEF UWInv

(* Every step keeps the invariant of user space's locks.                   *)
LEMMA NextUWInv ==
  ASSUME UWInv, [UWNext]_uwAll
  PROVE  UWInv'
<1>1. ASSUME NEW n \in Names, NEW ns \in Nanos \cup {NONE}, wake_lock_store_lookup(n, ns)
      PROVE  UWInv'
  <2> DEFINE w == [name |-> n, op |-> "lock",
                   timeout |-> IF ns = NONE THEN 0 ELSE to_long(timeout_of(ns))]
             what == IF ns = NONE THEN "lock"
                     ELSE IF cut(ns) THEN "cut" ELSE "timeout"
  <2>1. /\ storing = NONE /\ storing' = w /\ asked' = [asked EXCEPT ![n] = what]
    BY <1>1 DEF wake_lock_store_lookup
  <2>2. UNCHANGED <<active, auto_expire>>
    BY <1>1 DEF wake_lock_store_lookup, wake_lock_init, vars, lockVars
  <2>3. tree' \in Seq(Names) /\ Sorted(tree')
    <3>1. CASE found(n)
      BY <1>1, <3>1 DEF wake_lock_store_lookup, UWInv
    <3>2. CASE ~ found(n)
      BY <1>1, <3>2, InsertKeepsOrder DEF wake_lock_store_lookup, UWInv
    <3> QED
      BY <3>1, <3>2
  <2>4. (IF ns = NONE THEN 0 ELSE to_long(timeout_of(ns))) \in (-MaxTimeout - 1) .. MaxTimeout
    BY TimeoutIsLong
  <2>5. w \in Writes /\ w.name = n
    BY <2>4 DEF Writes
  <2>6. /\ what \in {"nothing", "lock", "timeout", "cut"}
        /\ w.op = "unlock" => what = "nothing"
        /\ w.op = "lock" /\ w.timeout = 0 => what \in {"lock", "cut"}
        /\ w.op = "lock" /\ w.timeout # 0 => what = "timeout"
    BY TimeoutIsLong
  <2> HIDE DEF w, what
  <2> QED
    BY <2>1, <2>2, <2>3, <2>5, <2>6, LookupStep
<1>2. ASSUME NEW n \in Names, wake_unlock_store_lookup(n) PROVE UWInv'
  <2> DEFINE w == [name |-> n, op |-> "unlock", timeout |-> 0]
             what == "nothing"
  <2>1. /\ storing = NONE /\ storing' = w /\ asked' = [asked EXCEPT ![n] = what]
        /\ tree' = tree
    BY <1>2 DEF wake_unlock_store_lookup
  <2>2. UNCHANGED <<active, auto_expire>>
    BY <1>2 DEF wake_unlock_store_lookup, vars, lockVars
  <2>3. tree' \in Seq(Names) /\ Sorted(tree')
    BY <2>1 DEF UWInv
  <2>4. w \in Writes /\ w.name = n
    BY DEF Writes
  <2>5. /\ what \in {"nothing", "lock", "timeout", "cut"}
        /\ w.op = "unlock" => what = "nothing"
        /\ w.op = "lock" /\ w.timeout = 0 => what \in {"lock", "cut"}
        /\ w.op = "lock" /\ w.timeout # 0 => what = "timeout"
    OBVIOUS
  <2> HIDE DEF w, what
  <2> QED
    BY <2>1, <2>2, <2>3, <2>4, <2>5, LookupStep
<1>3. CASE wake_lock_store \/ wake_unlock_store
  <2>1. storing # NONE /\ storing' = NONE /\ UNCHANGED <<tree, asked>>
    BY <1>3 DEF wake_lock_store, wake_unlock_store
  <2>2. ASSUME NEW n \in Names PROVE AsAsked(n)'
    <3>1. CASE n = storing.name
      BY <1>3, <3>1, WriteEffect
    <3>2. CASE n # storing.name
      <4>1. AsAsked(n)
        BY <3>2 DEF UWInv, UserLockAsAsked, AsAsked
      <4>2. Untouched(lockOf[n])
        BY <1>3, <3>2, WriteEffect
      <4> QED
        BY <2>1, <4>1, <4>2 DEF AsAsked, Untouched
    <3> QED
      BY <3>1, <3>2
  <2>3. UserLockAsAsked'
    BY <2>2 DEF UserLockAsAsked, AsAsked
  <2> QED
    BY <2>1, <2>3 DEF UWInv, StoresWhatWasAsked
<1>4. ASSUME UNCHANGED uwVars, \A n \in Names : Untouched(lockOf[n]) PROVE UWInv'
  <2>1. UNCHANGED <<tree, storing, asked>>
    BY <1>4 DEF uwVars
  <2>2. UserLockAsAsked'
    <3> SUFFICES ASSUME NEW n \in Names, storing = NONE \/ storing.name # n
                 PROVE  AsAsked(n)'
      BY <2>1 DEF UserLockAsAsked, AsAsked
    <3>1. AsAsked(n)
      BY DEF UWInv, UserLockAsAsked, AsAsked
    <3> QED
      BY <1>4, <2>1, <3>1 DEF AsAsked, Untouched
  <2> QED
    BY <2>1, <2>2 DEF UWInv, StoresWhatWasAsked
<1>5. CASE kernel
  <2>1. UNCHANGED uwVars
    BY <1>5 DEF kernel
  <2> QED
    BY <1>4, <1>5, <2>1, KernelTouchesNoName
<1>6. CASE UNCHANGED uwAll
  <2>1. UNCHANGED uwVars /\ UNCHANGED <<active, auto_expire>>
    BY <1>6 DEF uwAll, vars, lockVars
  <2> QED
    BY <1>4, <2>1 DEF Untouched, permanent
<1> QED
  BY <1>1, <1>2, <1>3, <1>5, <1>6 DEF UWNext

-----------------------------------------------------------------------------
(* The invariant is what the theorem says, and more.                       *)
LEMMA UWInvImplies == IInv /\ UWInv => UserLocksHold
<1> SUFFICES ASSUME IInv, UWInv PROVE UserLocksHold
  OBVIOUS
<1>1. UWTypeOK
  BY DEF IInv, UWInv, UWTypeOK
<1>2. FoundInEveryShape
  BY SortedIsFound DEF UWInv
<1> QED
  BY <1>1, <1>2 DEF UWInv, UserLocksHold

(* Both invariants together are inductive.                                 *)
LEMMA NextUserInv ==
  IInv /\ UWInv /\ [UWNext]_uwAll => IInv' /\ UWInv'
<1>1. UWInv => storing \in Writes \cup {NONE}
  BY DEF UWInv
<1> QED
  BY <1>1, UserKeepsIInv, NextUWInv

(* Whatever names and drivers' locks there are, a lookup finds the lock of *)
(* its own name, and between writes a lock is held as the last write about *)
(* its name asked, a timeout that a long cuts to 0 apart.                  *)
THEOREM UserLocksStayAsAsked == UWSpec => []UserLocksHold
<1>1. IInv /\ UWInv /\ [UWNext]_uwAll => (IInv /\ UWInv)'
  BY NextUserInv
<1> QED
  BY <1>1, InitUWInv, UWInvImplies, PTL DEF UWSpec

-----------------------------------------------------------------------------
(* wakelock.c under user space.                                            *)

(* At first, the invariant of wakelock.c holds and no write is under way.  *)
LEMMA InitWritten == UWInit => IInv /\ storing \in Writes \cup {NONE}
BY InitUWInv DEF UWInv

(* Every step keeps the invariant of wakelock.c.                           *)
LEMMA NextWritten ==
  IInv /\ storing \in Writes \cup {NONE} /\ [UWNext]_uwAll
    => (IInv /\ storing \in Writes \cup {NONE})'
BY UserKeepsIInv

(* The lists, the expire timer and the suspend work stay in step under any *)
(* writes, the timeouts that a long stores as 0 or less included.          *)
THEOREM UserWritesKeepWakeLocks ==
  UWSpec => [](TypeOK /\ PermanentFirst /\ TimerCoversLocks /\ SuspendNotLost
               /\ LateLockIsNewEvent)
BY InitWritten, NextWritten, PTL DEF UWSpec, IInv

(* A call of a write is a step of SuspendBlocker.                          *)
LEMMA WriteSimulates ==
  ASSUME IInv, storing \in Writes, wake_lock_store \/ wake_unlock_store
  PROVE  [Blocker!Next]_<<held, mode>>
<1> DEFINE l == lockOf[storing.name]
           t == IF storing.timeout < 0 THEN 0 ELSE storing.timeout
<1>1. l \in DriverLocks /\ l \in Locks /\ t \in 0 .. MaxTimeout
  BY UserAssumption DEF Writes, DriverLocks
<1>2. wake_lock_timeout(l, t) \/ wake_lock(l) \/ wake_unlock(l)
  BY DEF wake_lock_store, wake_unlock_store
<1> HIDE DEF l, t
<1>3. CASE wake_lock(l) \/ wake_unlock(l)
  <2>1. Next
    BY <1>1, <1>3 DEF Next, driver
  <2> QED
    BY <2>1, StepSimulates
<1>4. CASE wake_lock_timeout(l, t)
  <2>1. mode' = mode
    BY <1>4 DEF wake_lock_timeout, mode
  <2>2. held' = HeldIn(active \cup {l}, auto_expire \cup {l}, [left EXCEPT ![l] = t])
    BY <1>4, SetListHeld DEF wake_lock_timeout, wake_lock_timeout_q
  <2>3. held' = held \cup {l} \/ held' \in SUBSET held
    BY <1>1, <2>2 DEF HeldIn, held, IInv, TypeOK
  <2> QED
    BY ONLY <1>1, <2>1, <2>3 DEF Blocker!Next, Blocker!Acquire, Blocker!Release
<1> QED
  BY <1>2, <1>3, <1>4

(* A step of user space is a step of the abstract blocker, or none.        *)
LEMMA UserStepSimulates ==
  ASSUME IInv, storing \in Writes \cup {NONE}, [UWNext]_uwAll
  PROVE  [Blocker!Next]_<<held, mode>>
<1>1. ASSUME UNCHANGED vars \/ kernel PROVE [Blocker!Next]_<<held, mode>>
  BY <1>1, KernelIsNext, StepSimulates
<1>2. ASSUME NEW n, wake_lock_init(lockOf[n]) PROVE [Blocker!Next]_<<held, mode>>
  BY <1>2 DEF wake_lock_init, held, mode, workVars
<1>3. ASSUME NEW n, NEW ns, wake_lock_store_lookup(n, ns)
      PROVE  [Blocker!Next]_<<held, mode>>
  BY <1>1, <1>2, <1>3 DEF wake_lock_store_lookup
<1>4. ASSUME NEW n, wake_unlock_store_lookup(n) PROVE [Blocker!Next]_<<held, mode>>
  BY <1>1, <1>4 DEF wake_unlock_store_lookup
<1>5. CASE wake_lock_store \/ wake_unlock_store
  <2>1. storing \in Writes
    BY <1>5 DEF wake_lock_store, wake_unlock_store
  <2> QED
    BY <1>5, <2>1, WriteSimulates
<1>6. CASE UNCHANGED uwAll
  BY <1>1, <1>6 DEF uwAll
<1> QED
  BY <1>1, <1>3, <1>4, <1>5, <1>6 DEF UWNext

(* Under user space's writes too wakelock.c commits to a sleep, and tries  *)
(* one, only with nothing that blocks it.                                  *)
THEOREM UserWritesImplementBlocker == UWSpec => Blocker!Spec
<1>1. UWInit => Blocker!Init
  BY InitSimulates DEF UWInit
<1>2. IInv /\ storing \in Writes \cup {NONE} /\ [UWNext]_uwAll
        => [Blocker!Next]_<<held, mode>>
  BY UserStepSimulates
<1> QED
  BY <1>1, <1>2, InitWritten, NextWritten, PTL DEF UWSpec, Blocker!Spec, Blocker!vars
=============================================================================
