SPECIFICATION Spec
CONSTANTS
  i1 = i1
  i2 = i2
  Paths = {1, 2, 3}
  Dirs <- Places
  Dir <- Where
  HiddenDirs <- Hidden
  Inodes = {i1, i2}
  Data = {"short", "longer"}
  Size <- Length
  NoFile = NoFile
  Link = Link
  Foreign = {foreign}
  foreign = foreign
  MaxEvents = 3
  MAX_RESULT_ATTACHMENTS = 1
  MAX_OUTPUT_SIZE = 1
  CHUNK = 2
  Survivor = TRUE
CHECK_DEADLOCK FALSE
SYMMETRY Symmetric
INVARIANTS
  ChangesReported
  SplitComplete
PROPERTIES
  OutputCut
  AnswerSurvivesRequests
