SPECIFICATION FairSpec
CONSTANTS
  u1 = u1
  u2 = u2
  Units = {u1, u2}
  Procs = {mgr, obs}
  Admins = {mgr}
  JiffiesMod = 8
  Delays = {1, 2}
  MaxLatency = 1
  MaxEvents = 3
INVARIANTS
  TypeOK
  InProgressExact
  TimedPeriodEnds
  ArmedCountCoversTimer
PROPERTIES
  ReadReturns
