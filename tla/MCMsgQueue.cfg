SPECIFICATION Spec
CONSTANTS
  Threads = {t1, t2, t3}
  Values = {a, b}
  NoMsg = NoMsg
  Junk = Junk
  NoThread = NoThread
  MaxCap = 2
SYMMETRY Symmetry
INVARIANTS TypeOK RingHolds DataAccounting NoOverwrite QuiescentExact
PROPERTY FifoSpec
CHECK_DEADLOCK FALSE
