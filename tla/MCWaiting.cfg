SPECIFICATION MCSpec
CONSTANTS
  Threads = {t1, t2, t3}
  NoThread = NoThread
  Waits = {"block", "timed"}
  RmThreads = {t1, t2, t3}
  RmNobody = RmNobody
  MaxLevel = 2
  CdThreads = {t1, t2}
  CdValues = {v1, v2}
  CdWakers = {"signal", "broadcast"}
  EcThreads = {h1, h2}
  EcMaxConns = 3
  EcMaxPackets = 2
  FwMaxConns = 2
  FwMaxPackets = 2
INVARIANTS
  LevelExact RmNoLostWakeup NoLostWakeup StopSilences OneShotOnce ServersHold
PROPERTIES
  Heard ServersReady
CHECK_DEADLOCK FALSE
