\* A compaction whose output files may cut a user key in two.
SPECIFICATION Spec
CONSTANTS
  Keys = {1, 2}
  NumLevels = 4
  MaxMemLevel = 2
  GrandLimit = 1
  ExpandLimit = 25
  MaxWrites = 4
  Deletable = {}
  MaxIterators = 0
  SeekCompactions = FALSE
  MaxFiles = 8
  MaxSnapshots = 1
  MaxOutputs = 2
  L0Trigger = 2
  LevelLimit = 2
  SplitsKeys = TRUE
  Errors = FALSE
  ManualRequests <- NoRequests
INVARIANT ReadsRight
CHECK_DEADLOCK FALSE
