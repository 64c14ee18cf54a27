SPECIFICATION PartsSpec
CONSTANTS
  s1 = s1
  s2 = s2
  w1 = w1
  w2 = w2
  None = None
  Tips = {1, 2, 3}
  SameItem = {1, 2, 3}
  OfDomain = {1, 2}
  OfHost = {1, 2}
  MaxItems = 1
  Sockets = {s1, s2}
  MaxClients = 2
  Replies = {1, 2, 3}
  Relays = {w1, w2}
  MaxTime = 3
  Limit = 1
  MaxHops = 4
  MaxLoads = 2
INVARIANTS
  TypesOK
  CapHolds
  GivenOnce
  ListIsRight
  KeepsDialling
  LoopsAreFound
  NoGap
PROPERTIES
  RepliesSettle
CHECK_DEADLOCK FALSE
