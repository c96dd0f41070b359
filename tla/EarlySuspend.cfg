SPECIFICATION ESFairSpec
CONSTANTS
  main_wake_lock = main
  unknown_wakeup = unknown
  sync_wake_lock = sync
  d1 = d1
  h1 = h1
  h3 = h3
  Locks = {main, unknown, sync, d1}
  Timeouts = {1}
  UnknownTimeout = 1
  MaxTimeout = 1
  Handlers = {h1, h3}
  Levels <- MCLevels
INVARIANTS
  HandlersFollow
  SleepInStep
PROPERTIES
  LastRequestWins
