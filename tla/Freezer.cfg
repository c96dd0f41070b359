SPECIFICATION FairSpec
CONSTANTS
  u1 = u1
  u2 = u2
  k1 = k1
  Tasks = {u1, u2, k1}
  KThreads = {k1}
INVARIANTS
  TypeOK
  FrozenEnough
  KernelThreadsLast
  AllThawed
PROPERTIES
  ThawedTasksRun
