SPECIFICATION HistSpec
CONSTANTS
  t1 = t1
  t2 = t2
  s1 = s1
  s2 = s2
  Tasks = {t1,t2}
  Sessions = {s1,s2}
  None = None
  Sweeper = Sweeper
  MAX_SESSIONS = 1
  QuotaConfigured = FALSE
  PROJECT_ID_BASE = 1
  PROJECT_ID_MAX = 2
  SlowSetup = FALSE
INVARIANTS
  SeedingNotSwept
