---------------------------- MODULE UserWakeLock ----------------------------
(***************************************************************************)
(* kernel/power/userwakelock.c: wake locks that user space names, creates  *)
(* and takes by writing "name [nanoseconds]" to /sys/power/wake_lock.      *)
(*                                                                         *)
(* A name is a sequence of characters, as short as the comparison needs.   *)
(* The red-black tree is its in-order sequence of names; what a lookup     *)
(* finds must not depend on the shape of the tree.  The words of the       *)
(* conversion keep their proportions: U64 for u64, MaxTimeout for LONG_MAX *)
(* and NSEC_PER_JIFFY for NSEC_PER_SEC / HZ.                               *)
(***************************************************************************)
EXTENDS WakeLock, SequencesExt

CONSTANTS
  Names,
  lockOf,           \* the wake_lock in each name's user_wake_lock
  Nanos,            \* timeouts that are written
  NSEC_PER_JIFFY, U64,
  NONE

(* A write past its lookup: NONE, or the name, the call to make and its    *)
(* timeout, 0 for none.                                                    *)
Writes == [name : Names, op : {"lock", "unlock"},
           timeout : (-MaxTimeout - 1)..MaxTimeout]

ASSUME UserAssumption ==
  /\ Names \subseteq Seq(Nat)
  /\ lockOf \in [Names -> DriverLocks]
  /\ \A m, n \in Names : lockOf[m] = lockOf[n] => m = n
  /\ U64 \in Nat /\ NSEC_PER_JIFFY \in 1..U64 /\ Nanos \subseteq 0..(U64 - 1)
  /\ NONE \notin Nanos /\ NONE \notin Writes

VARIABLES
  tree,      \* user_wake_locks
  storing,   \* the write that holds tree_lock, past its lookup
  asked      \* what the last write about each name asked for: "nothing", a
             \* "lock", a lock with a "timeout", or with one that a long "cut"s
             \* to 0, a multiple of 2^32 jiffies

uwVars == <<tree, storing, asked>>
uwAll == <<vars, uwVars>>

UWInit ==
  /\ Init
  /\ tree = <<>> /\ storing = NONE
  /\ asked = [n \in Names |-> "nothing"]
----------------------------------------------------------------------------
(* strncmp of the first Len(buf) characters, and -1 for a longer name.     *)
diff(buf, name) ==
  LET differ == {i \in 1..Len(buf) : i > Len(name) \/ buf[i] # name[i]} IN
  IF differ = {} THEN IF Len(name) > Len(buf) THEN -1 ELSE 0
  ELSE LET i == Min(differ) IN
       IF i > Len(name) \/ buf[i] > name[i] THEN 1 ELSE -1

found(n) == \E i \in DOMAIN tree : diff(n, tree[i]) = 0
insert(n) == InsertAt(tree, 1 + Cardinality({i \in DOMAIN tree : diff(n, tree[i]) > 0}), n)

(* Nanoseconds to jiffies in u64, rounded up and at least 1, then stored   *)
(* in a long.                                                              *)
jiffies_of(ns) == ((ns + NSEC_PER_JIFFY - 1) % U64) \div NSEC_PER_JIFFY

(* Mutant: 0 is not made 1.                                                *)
timeout_of_mutant(ns) == jiffies_of(ns)

timeout_of(ns) == IF jiffies_of(ns) <= 0 THEN 1 ELSE jiffies_of(ns)

to_long(t) ==
  LET w == t % (2 * (MaxTimeout + 1))
  IN  IF w > MaxTimeout THEN w - 2 * (MaxTimeout + 1) ELSE w

(* A timeout that a long cannot hold and cuts to 0.                        *)
cut(ns) == jiffies_of(ns) > 0 /\ jiffies_of(ns) % (2 * (MaxTimeout + 1)) = 0
----------------------------------------------------------------------------
(* wake_lock_store: lookup_wake_lock_name under tree_lock, which makes the *)
(* lock unless memory is short, and the lock.  ns is NONE when no timeout  *)
(* is written.                                                             *)
wake_lock_store_lookup(n, ns) ==
  /\ user_runs /\ storing = NONE
  /\ storing' = [name |-> n, op |-> "lock",
                 timeout |-> IF ns = NONE THEN 0 ELSE to_long(timeout_of(ns))]
  /\ asked' = [asked EXCEPT ![n] = IF ns = NONE THEN "lock"
                                   ELSE IF cut(ns) THEN "cut" ELSE "timeout"]
  /\ IF found(n) THEN UNCHANGED <<tree, vars>>
                 ELSE tree' = insert(n) /\ wake_lock_init(lockOf[n])

wake_lock_store ==
  /\ storing # NONE /\ storing.op = "lock"
  /\ IF storing.timeout # 0
       THEN wake_lock_timeout(lockOf[storing.name],
                              IF storing.timeout < 0 THEN 0 ELSE storing.timeout)
       ELSE wake_lock(lockOf[storing.name])
  /\ storing' = NONE
  /\ UNCHANGED <<tree, asked>>

(* A name that is not found is -EINVAL.                                    *)
wake_unlock_store_lookup(n) ==
  /\ user_runs /\ storing = NONE /\ found(n)
  /\ storing' = [name |-> n, op |-> "unlock", timeout |-> 0]
  /\ asked' = [asked EXCEPT ![n] = "nothing"]
  /\ UNCHANGED <<tree, vars>>

wake_unlock_store ==
  /\ storing # NONE /\ storing.op = "unlock"
  /\ wake_unlock(lockOf[storing.name])
  /\ storing' = NONE
  /\ UNCHANGED <<tree, asked>>

(* The rest of WakeLock, drivers' locks included; a task in a write is not *)
(* frozen.  sync_wake_lock is EarlySuspend's.                              *)
kernel ==
  /\ \/ \E l \in DriverLocks \ {lockOf[n] : n \in Names} : driver(l)
     \/ user_runs /\ wake_lock(main_wake_lock)
     \/ worker = "idle" /\ wake_unlock(main_wake_lock)
     \/ clock \/ suspend
  /\ worker = "freeze" /\ worker' = "devices" => storing = NONE
  /\ UNCHANGED uwVars

UWNext ==
  \/ \E n \in Names, ns \in Nanos \cup {NONE} : wake_lock_store_lookup(n, ns)
  \/ \E n \in Names : wake_unlock_store_lookup(n)
  \/ wake_lock_store \/ wake_unlock_store
  \/ kernel

UWSpec == UWInit /\ [][UWNext]_uwAll

(* As for WakeLock; a write that has begun goes on.                        *)
UWFairSpec == UWSpec /\ Fairness /\ WF_uwAll(wake_lock_store \/ wake_unlock_store)
----------------------------------------------------------------------------
UWTypeOK ==
  /\ TypeOK
  /\ tree \in Seq(Names)
  /\ storing \in Writes \cup {NONE}
  /\ asked \in [Names -> {"nothing", "lock", "timeout", "cut"}]

(* Whatever the order in which names were created and the tree was         *)
(* rebalanced, a lookup goes the right way at every node: each name stops  *)
(* it at its own node and at no other, names that are prefixes included.   *)
FoundInEveryShape ==
  \A n \in Names, i \in DOMAIN tree :
    /\ diff(n, tree[i]) = 0 <=> n = tree[i]
    /\ \A j \in DOMAIN tree : tree[j] = n /\ i < j => diff(n, tree[i]) > 0
    /\ \A j \in DOMAIN tree : tree[j] = n /\ i > j => diff(n, tree[i]) < 0

(* Between writes a name that was locked is held until it is unlocked, and *)
(* one that was written with a timeout, "jiffies > 0", is not held without *)
(* one: no write of a timeout keeps the system awake for good.  The one    *)
(* exception is a timeout of a multiple of 2^32 jiffies: the long of       *)
(* lookup_wake_lock_name stores it as 0, which wake_lock_store takes for   *)
(* none, and the lock is held until it is unlocked.                        *)
UserLockAsAsked ==
  \A n \in Names :
    storing = NONE \/ storing.name # n =>
      /\ asked[n] \in {"lock", "cut"} <=> lockOf[n] \in permanent
      /\ asked[n] = "nothing" => lockOf[n] \notin active

(* What the files wake_lock and wake_unlock promise: lookup_wake_lock_name *)
(* finds the lock of the name that was written, the conversion of the      *)
(* timeout stays a long, and the lock is held as the last write asked.     *)
UserLocksHold ==
  /\ UWTypeOK
  /\ FoundInEveryShape
  /\ UserLockAsAsked
=============================================================================
