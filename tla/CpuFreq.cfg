SPECIFICATION Spec
CONSTANTS
  NUM_FREQ = 3
  freq_table <- MCFreqTable
  arm_volt <- MCArmVolt
  int_volt <- MCIntVolt
  SLEEP_FREQ = 800
  mfc = mfc
  Callers = {mfc}
  LockLevels = {0}
  UserMins = {100}
  UserMaxs = {400}
  Governors = {"ondemand", "performance", "powersave"}
  EnabledSets = {{0, 1, 2}, {0, 2}}
  RegulatorsFail = {FALSE, TRUE}
  NONE = NONE
INVARIANTS
  ClockFits
  SuspendKeepsClock
  NoCircularWait
CHECK_DEADLOCK FALSE
