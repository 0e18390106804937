SPECIFICATION Spec
CONSTANTS
  Malformed = {bad}
  CallIds = {0, 1}
  MaxSends = 1
  Called <- CallOneDuplex
  Service <- AllMethods
  LateDelivery = FALSE
  Misuse = FALSE
  Breaks = FALSE
INVARIANTS
  NoCrossTalk
  ErrorsHaveACause
PROPERTIES
  KeepsContract
CHECK_DEADLOCK FALSE
