SPECIFICATION Spec
CONSTANTS
  Malformed = {bad}
  CallIds = {0, 1}
  MaxSends = 1
  MaxCalls = 2
  Service <- MCService
  LateDelivery = FALSE
INVARIANTS
  TypeOK
  EntriesRun
  OnlyReuseHides
  ReplacedGetsNothing
PROPERTIES
  OnlyTheAddressed
CHECK_DEADLOCK FALSE
