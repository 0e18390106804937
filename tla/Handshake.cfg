SPECIFICATION FairSpec
CONSTANTS
  NULL = NULL
  RpcMessage <- MCRpcMessage
  Users = {"", "u", "v"}
  Tags = {"t1", "t2"}
  AuthLists <- MCAuthLists
  ServerOptions <- MCServerOptions
  LateDelivery = TRUE
  MaxInFlight = 2
INVARIANTS
  TypeOK
  IInv
  Agreement
  InStep
  SignatureMatches
  AllTried
  ActiveByOfferedMode
PROPERTIES
  ImplementsLogin
  ConnectSettles
CHECK_DEADLOCK FALSE
