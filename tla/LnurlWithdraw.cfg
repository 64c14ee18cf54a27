SPECIFICATION Spec
CONSTANTS
  k1 = k1
  k2 = k2
  i1 = i1
  i2 = i2
  big = big
  r1 = r1
  r2 = r2
  r3 = r3
  Sessions = {k1, k2}
  Invoices = {i1, i2, big}
  Payable = {i1, i2}
  Requests = {r1, r2, r3}
SYMMETRY Interchangeable
INVARIANTS TypeOK OnePayerAtATime PaidMeansPaidOut OneSurePayout
PROPERTY GrantedOnce
