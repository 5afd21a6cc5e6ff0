SPECIFICATION LiveSpec
CONSTANTS
  Keys = {k1}
  Objs = {o1, o2}
  Null = Null
  Junk = Junk
  MaxObj = 2
  Clients = {c1, c2}
  Nobody = Nobody
  MaxCalls = 2
  MaxNoise = 1
  ReadTimeout = FALSE
INVARIANTS FirstRegistered ReplyOwn AtMostOnce
PROPERTIES SendReturns QuitTakesEffect
CHECK_DEADLOCK FALSE
