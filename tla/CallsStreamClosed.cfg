SPECIFICATION Spec
CONSTANTS
  Malformed = {}
  CallIds = {0}
  MaxSends = 1
  Called <- CallAny
  Service <- AllMethods
  LateDelivery = FALSE
  Misuse = FALSE
  Breaks = FALSE
INVARIANT OneStreamClosed
CHECK_DEADLOCK FALSE
