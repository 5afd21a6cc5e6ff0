SPECIFICATION Spec
CONSTANTS
  Keys = {k1}
  Objs = {o1}
  Null = Null
  Junk = Junk
  MaxObj = 1
  Clients = {c1}
  Nobody = Nobody
  MaxCalls = 2
  MaxNoise = 0
  ReadTimeout = TRUE
INVARIANT ReplyIdMatches
CHECK_DEADLOCK FALSE
