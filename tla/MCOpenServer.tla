---------------------------- MODULE MCOpenServer ----------------------------
EXTENDS OpenServer

MCRpcMessage == {[kind |-> "rpc"]}

MCClientAuths ==
  {[auth |-> "guest", tag |-> "t1"], [auth |-> "token", tag |-> "t1"],
   [auth |-> "pubkey", tag |-> "t1"], [auth |-> "pubkey", tag |-> "t2"]}

\* Every callback, one mode refused, and a server with a fixed user.
MCServerOptions ==
  [userId : {NULL}, modes : {{"guest", "token", "pubkey"}, {"pubkey"}}]
    \cup [userId : {"u"}, modes : {{}}]
=============================================================================
