SPECIFICATION FairSpec
CONSTANTS
  h1 = h1
  h2 = h2
  s1 = s1
  s2 = s2
  Handlers = {h1, h2}
  Sessions = {s1, s2}
  None = None
  Unset = Unset
  Malformed = Malformed
  Sizes = {0, 3}
  DefaultSize = 5
  MAX_SESSION_ENTRIES = 1
  KIB = 2
  PROJECT_ID_BASE = 1000
CHECK_DEADLOCK FALSE
INVARIANTS
  LimitsSet
  SweepRemovesAlone
  RemovedUnderCancelledOnly
  ShutdownLeavesNothing
PROPERTIES
  ShutsDown
