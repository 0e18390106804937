SPECIFICATION OpenServerSpec
CONSTANTS
  NULL = NULL
  RpcMessage <- MCRpcMessage
  Users = {"", "u"}
  Tags = {"t1", "t2"}
  ClientAuths <- MCClientAuths
  ServerOptions <- MCServerOptions
  LateDelivery = TRUE
  MaxFromClient = 2
  MaxChallenges = 2
INVARIANTS
  OpenServerTypeOK
  OneCheckAtATime
  ChallengeOutstanding
PROPERTIES
  IdentityFixed
  LatestChallengeOnly
CHECK_DEADLOCK FALSE
