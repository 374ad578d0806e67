SPECIFICATION FairSpec
CONSTANTS
  CHECKS <- Registry
  Group <- GroupOf
  OptIn = {"timeout"}
  Heavy = {"flood"}
  Wanted <- SessionsOf
  Typo = "typo"
  MaxSessions = 4
INVARIANTS
  SessionsFreed
  ExitTells
PROPERTIES
  Ends
