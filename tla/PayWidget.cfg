SPECIFICATION FairSpec
CONSTANTS
  c1 = c1
  c2 = c2
  d = d
  None = None
  Charges = {c1, c2, d}
  Own = {c1, c2}
  WithRef = {c1}
INVARIANTS
  TypeOK
  ToldOncePaid
  RightInvoiceNamed
PROPERTIES
  PaidIsNoticed
CHECK_DEADLOCK FALSE
