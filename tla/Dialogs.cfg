SPECIFICATION PartsSpec
CONSTANTS
  k1 = k1
  k2 = k2
  x1 = x1
  x2 = x2
  r1 = r1
  r2 = r2
  Sessions = {k1, k2}
  Keys = {x1, x2}
  Requests = {r1, r2}
  MaxAttempts = 2
INVARIANTS
  TypesOK
  GrantedKeyStays
  LoginIsSigned
PROPERTIES
  VerifiedLogsIn
  ZapFollowsFlow
  PaymentIsSeen
CHECK_DEADLOCK FALSE
