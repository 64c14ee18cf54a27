SPECIFICATION FairSpec
CONSTANTS
  a = a
  z = z
  r1 = r1
  r2 = r2
  s1 = s1
  Charges = {a, z}
  ActionCharges = {a}
  ZapCharges = {z}
  HostCharges = {z}
  Requests = {r1}
  Sweepers = {s1}
  Provider = "lnbits"
  RegtestPay = FALSE
  Take = 1
INVARIANTS
  TypeOK
  PaidMeansSettled
  NoMoneyIgnored
  AnnouncedIsStored
PROPERTIES
  PaidRowIsFinal
  ShownPaidIsFinal
  ImplementsLedger
  SettledGetsStored
CHECK_DEADLOCK FALSE
