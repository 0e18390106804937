SPECIFICATION FairSpec
CONSTANTS
  NULL = NULL
  Users = {"", "u"}
  Tags = {"t1"}
  AuthLists <- MCAuthLists
  ServerOptions <- MCServerOptions
  LateDelivery = FALSE
  Malformed = {bad}
  CallIds = {0, 1}
  MaxSends = 1
  Called <- MCCalled
  Misuse = FALSE
  Service <- MCService
INVARIANTS
  HandlersKnowTheUser
  InStep
PROPERTIES
  ImplementsCalls
  CallsSettle
CHECK_DEADLOCK FALSE
