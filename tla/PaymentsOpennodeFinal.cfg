SPECIFICATION Spec
CONSTANTS
  a = a
  z = z
  r1 = r1
  r2 = r2
  s1 = s1
  Charges = {z}
  ActionCharges = {}
  ZapCharges = {z}
  HostCharges = {z}
  Requests = {r1}
  Sweepers = {s1}
  Provider = "opennode"
  RegtestPay = FALSE
  Take = 1
PROPERTIES
  PaidRowIsFinal
CHECK_DEADLOCK FALSE
