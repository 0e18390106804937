SPECIFICATION Spec
CONSTANTS
  Malformed = {}
  CallIds = {0}
  MaxSends = 1
  Called <- CallAny
  Service <- AllMethods
  LateDelivery = FALSE
  Misuse = TRUE
  Breaks = FALSE
INVARIANT ErrorEndsCall
CHECK_DEADLOCK FALSE
