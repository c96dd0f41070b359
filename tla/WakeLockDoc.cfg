SPECIFICATION Spec
CONSTANTS
  main_wake_lock = main
  unknown_wakeup = unknown
  sync_wake_lock = sync
  d1 = d1
  Locks = {main, unknown, sync, d1}
  Timeouts = {0, 2}
  UnknownTimeout = 1
  MaxTimeout = 2
INVARIANTS
  NoSleepWhileLocked
