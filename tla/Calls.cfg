SPECIFICATION Spec
CONSTANTS
  Malformed = {bad}
  CallIds = {0}
  MaxSends = 2
  Called <- CallAny
  Service <- AllButUnary
  LateDelivery = TRUE
  Misuse = TRUE
  Breaks = TRUE
INVARIANTS
  TypeOK
  OkMeansAnswered
  EndOfRequests
  ErrorsHaveACause
  TableHoldsRunning
  PendingIsReachable
PROPERTIES
  KeepsContract
CHECK_DEADLOCK FALSE
