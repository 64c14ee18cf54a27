SPECIFICATION PartsSpec
CONSTANTS
  c1 = c1
  c2 = c2
  e1 = e1
  e2 = e2
  z1 = z1
  z2 = z2
  z3 = z3
  b1 = b1
  b2 = b2
  Visitors = {c1, c2}
  MaxBalance = 2
  Unknown = Unknown
  Viewers = {c1}
  MaxTip = 2
  MaxMoves = 3
  MaxFailures = 5
  NoBlock = NoBlock
  Notes = {e1, e2}
  Zaps = {z1, z2, z3}
  Tags <- Named
  NoteOf <- FirstOf
  NoNote = NoNote
  Subs = {b1, b2}
  MaxCache = 1
  MaxBatch = 1
  MaxSeen = 2
  MaxQueue = 2
  NoSub = NoSub
INVARIANTS
  TypesOK
  OneBalance
PROPERTIES
  TotalOnlyGrows
  BalanceReaches
  BlockReaches
  WaitingEnds
CHECK_DEADLOCK FALSE
