SPECIFICATION SoSpec
CONSTANTS
  SoAcceptors = {acceptor}
  SoConnectors = {connector}
  SoStreams = {s1, s2}
  SoUdps = {u}
  SoHandles = {3, 4, 5, 6}
INVARIANT SoNoLeak
CHECK_DEADLOCK FALSE
