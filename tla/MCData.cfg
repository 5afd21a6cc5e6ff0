SPECIFICATION MCSpec
CONSTANTS
  Threads = {t1, t2, t3}
  Values = {a, b}
  NoMsg = NoMsg
  Junk = Junk
  MaxTokens = 2
  CqMaxCap = 3
  CqMaxItems = 7
  CqBlocks = {b1, b2, b3}
  StMaxCap = 3
  StMaxItems = 6
  KySize = 3
  KyMaxItems = 5
  KyKeys = {k1, k2}
  EMPTY_SLOT = none
  SlReaders = {r1}
  SlWidth = 2
  AcThreads = {t1, t2}
  AcCounters = {c1, c2}
  AcWidth = 1
  AcNobody = AcNobody
  TmNs = 4
  TmMs = 2
  TmMaxSec = 2
  BfMaxCap = 2
  BfFixed = 1
  BfMaxItems = 2
  BfBlocks = {b1, b2}
  BfArrayAt = 1
  BcCap = 9
  BcArray = 3
  BcMaxCalls = 4
  DsBuf = 3
  DsBack = 2
  DsMaxBytes = 7
  DsHandles = {0, 3}
  BsCap = 7
  BsMaxCalls = 2
  BsTypes = {"byte", "int16", "int32", "block", "empty", "buffer"}
  SoAcceptors = {acceptor}
  SoConnectors = {connector}
  SoStreams = {s1, s2}
  SoUdps = {u}
  SoHandles = {3, 4, 5, 6}
  DvObjects = {d1, d2}
  DvHandles = {3, 4}
INVARIANTS
  SlotTokens CqInOrder ContainersKeep CountersExact TmAgrees
  BfKeeps BcAgrees DsInOrder BsAgrees OneOwner
PROPERTIES
  FifoSpec
CHECK_DEADLOCK FALSE
