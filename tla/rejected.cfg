SPECIFICATION Spec
CONSTANTS
  Names = {"a", "b"}
  Places <- Tree
  MaxParts = 2
  ProgramSurvives = FALSE
CHECK_DEADLOCK FALSE
INVARIANTS
  RejectedLeavesNothing
