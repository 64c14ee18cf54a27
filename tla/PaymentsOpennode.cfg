SPECIFICATION FairSpec
CONSTANTS
  a = a
  z = z
  r1 = r1
  r2 = r2
  s1 = s1
  Charges = {z}
  ActionCharges = {}
  ZapCharges = {z}
  HostCharges = {z}
  Requests = {r1}
  Sweepers = {s1}
  Provider = "opennode"
  RegtestPay = TRUE
  Take = 1
INVARIANTS
  PaidMeansSettled
  NoMoneyIgnored
PROPERTY SettledGetsStored
CHECK_DEADLOCK FALSE
