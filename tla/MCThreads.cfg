SPECIFICATION MCSpec
CONSTANTS
  Threads = {t1, t2, t3}
  MaxNest = 2
  MaxRuns = 3
  QtProducers = {p1, p2}
  QtCap = 1
  QtMaxMsgs = 3
  QtMaxQuits = 2
  QtMaxRuns = 2
  PlClients = {c1, c2}
  PlMaxCap = 3
  PlMaxResize = 1
  AqQues = 3
  AqBufs = 2
  AqMaxFrames = 4
  TrTotal = 4
  TrWant = 3
  TrPipe = 2
  TrErrors = 1
INVARIANTS
  Exclusion SleepersStopped DestroySafe OneHolder InOrder
PROPERTIES
  WriterAdmitted WaitReturns QtQuitEnds Flows
CHECK_DEADLOCK FALSE
