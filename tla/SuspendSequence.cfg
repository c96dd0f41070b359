SPECIFICATION FairSpec
CONSTANTS
  OpSets <- MCOpSets
  Calls = {c1, c2}
  Modes = {"no_wait", "exec", "proc"}
INVARIANTS
  TransitionSound
PROPERTIES
  UndoneInReverse
  NoWaitedHelperStarts
  CallsReturn
