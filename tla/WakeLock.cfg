SPECIFICATION UWFairSpec
CONSTANTS
  main_wake_lock = main
  unknown_wakeup = unknown
  sync_wake_lock = sync
  la = la
  lab = lab
  d1 = d1
  Locks = {main, unknown, sync, la, lab, d1}
  Names <- MCNames
  lockOf <- MCLockOf
  Timeouts = {0}
  UnknownTimeout = 1
  MaxTimeout = 1
  Nanos = {0, 12}
  NSEC_PER_JIFFY = 3
  U64 = 64
  NONE = NONE
INVARIANTS
  TypeOK
  UserLocksHold
  PermanentFirst
  TimerCoversLocks
  SuspendNotLost
  LateLockIsNewEvent
PROPERTIES
  ImplementsBlocker
  RetriesWhenUnlocked
