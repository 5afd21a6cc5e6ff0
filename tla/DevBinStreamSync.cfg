SPECIFICATION DsSpec
CONSTANTS
  DsBuf = 3
  DsBack = 2
  DsMaxBytes = 7
  DsHandles = {0, 3}
INVARIANT DoSynced
CHECK_DEADLOCK FALSE
