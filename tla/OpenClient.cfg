SPECIFICATION OpenClientSpec
CONSTANTS
  NULL = NULL
  RpcMessage <- MCRpcMessage
  Users = {"u"}
  Tags = {"t1", "t2"}
  AuthLists <- MCAuthLists
  AnyServerFrame <- MCAnyServerFrame
  LateDelivery = TRUE
  MaxFromServer = 2
INVARIANTS
  OpenClientTypeOK
  OfferedModesOnly
  PromiseFollowsState
  OneSignature
CHECK_DEADLOCK FALSE
