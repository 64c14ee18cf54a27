SPECIFICATION Spec
CONSTANTS
  MaxAttempts = 2
PROPERTIES
  SendSaysPaidOfPaid
CHECK_DEADLOCK FALSE
