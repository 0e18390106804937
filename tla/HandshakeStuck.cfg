SPECIFICATION Spec
CONSTANTS
  NULL = NULL
  RpcMessage <- MCRpcMessage
  Users = {"", "u"}
  Tags = {"t1", "t2"}
  AuthLists <- MCAuthLists
  ServerOptions <- MCServerOptions
  LateDelivery = FALSE
  MaxInFlight = 1
INVARIANT FailureReturnsToAuth
CHECK_DEADLOCK FALSE
