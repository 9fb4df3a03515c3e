\* Two threads that write, a tiny memtable, two crashes, every call of the file system may fail.
SPECIFICATION FairSpec
CONSTANTS
  Clients = {c1, c2}
  MaxCalls = 3
  MaxCrashes = 2
  MergeKeys = 1
  MemLimit = 1
  L0Compaction = 1
  L0Slowdown = 1
  L0Stop = 2
  Faults = {"append", "sync", "newlog", "table", "manifest"}
INVARIANT TypeOK
INVARIANT NoneLostByKill
INVARIANT Durable
INVARIANT AckedFound
INVARIANT SeqUnique
PROPERTY EveryWriteReturns
CHECK_DEADLOCK FALSE
