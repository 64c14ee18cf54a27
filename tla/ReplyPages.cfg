SPECIFICATION SmallSpec
CONSTANTS
  w1 = w1
  w2 = w2
  None = None
  Replies = {1, 2, 3}
  Relays = {w1, w2}
  MaxTime = 3
  Limit = 1
  MaxHops = 4
  MaxLoads = 2
INVARIANTS
  LastPageIsLast
CHECK_DEADLOCK FALSE
