SPECIFICATION Spec
CONSTANTS
  t1 = t1
  t2 = t2
  s1 = s1
  s2 = s2
  s3 = s3
  Tasks = {t1,t2}
  Sessions = {s1,s2,s3}
  None = None
  Sweeper = Sweeper
  MAX_SESSIONS = 2
  QuotaConfigured = TRUE
  PROJECT_ID_BASE = 1
  PROJECT_ID_MAX = 2
  SlowSetup = TRUE
INVARIANTS
  NoSpentAllowance
