SPECIFICATION Spec
CONSTANTS
  Root = Root
  D1 = D1
  D2 = D2
  F = F
  L = L
  X = X
  SubDirs = {D1, D2}
  Files = {F}
  Links = {L}
  Others = {X}
  Outside = Outside
  Names = {"a", "b"}
  None = None
  RawPaths <- Written
  Modes <- ModesUsed
  MaxClosed = 1
  CAP = 1
  CHUNK = 2
SYMMETRY Symmetric
INVARIANTS
  Contained
  NormalisesRight
  NoDescriptorLeak
PROPERTIES
  AnswersTruly
  CappedCopy
  FailedCopyLeavesNothing
