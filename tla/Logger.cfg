SPECIFICATION FairSpec
CONSTANTS
  w1 = w1
  w2 = w2
  a = a
  NONE = NONE
  Writers = {w1, w2}
  Readers = {a}
  Size = 9
  Base = 2
  Header = 2
  Payloads = {2}
  Bytes = {1}
CONSTRAINT Undamaged
CHECK_DEADLOCK FALSE
INVARIANTS
  LogSound
PROPERTIES
  BlockedReadEnds
