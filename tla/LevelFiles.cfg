\* Flushes and merges among four levels of at most five tables.
SPECIFICATION Spec
CONSTANTS
  Keys = {1, 2}
  NumLevels = 4
  MaxMemLevel = 2
  GrandLimit = 0
  ExpandLimit = 25
  MaxWrites = 3
  Deletable = {1}
  MaxIterators = 1
  SeekCompactions = TRUE
  MaxFiles = 5
  MaxSnapshots = 1
  MaxOutputs = 2
  L0Trigger = 2
  LevelLimit = 2
  SplitsKeys = FALSE
  Errors = TRUE
  ManualRequests <- OneKey
INVARIANT TypeOK
INVARIANT LevelsDisjoint
INVARIANT NewerFirst
INVARIANT FilesKept
INVARIANT ReadsRight
PROPERTY IsKeyValueStore
CHECK_DEADLOCK FALSE
