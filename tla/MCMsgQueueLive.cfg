SPECIFICATION LiveSpec
CONSTANTS
  Threads = {t1, t2, t3}
  Values = {a}
  NoMsg = NoMsg
  Junk = Junk
  NoThread = NoThread
  MaxCap = 2
PROPERTY NobodyStranded
CHECK_DEADLOCK FALSE
