SPECIFICATION FairSpec
CONSTANTS
  r1 = r1
  r2 = r2
  r3 = r3
  Runs = {r1, r2, r3}
  MAX_CONCURRENT_EXECUTIONS = 1
CHECK_DEADLOCK FALSE
INVARIANTS
  SlotAccounting
  NoIdleSlot
  OnlyLateOutputLost
  NoReaderLeft
PROPERTIES
  ImplementsSlotPool
  RunEnds
