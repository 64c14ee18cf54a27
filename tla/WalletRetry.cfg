SPECIFICATION FairSpec
CONSTANTS
  Visitors = {c1, c2}
  MaxBalance = 2
  Unknown = Unknown
PROPERTIES
  EveryClientHears
CHECK_DEADLOCK FALSE
