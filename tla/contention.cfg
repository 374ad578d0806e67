SPECIFICATION FairSpec
CONSTANTS
  t1 = t1
  t2 = t2
  t3 = t3
  s1 = s1
  Tasks = {t1,t2,t3}
  Sessions = {s1}
  None = None
  Sweeper = Sweeper
  MAX_SESSIONS = 1
  QuotaConfigured = FALSE
  PROJECT_ID_BASE = 1
  PROJECT_ID_MAX = 1
  SlowSetup = FALSE
INVARIANTS
  LockOwnership
  NoUseAfterDelete
  QueuedOnce
PROPERTIES
  AbandonedSwept
  NoEndlessWait
