---------------------------- MODULE MCHandshake -----------------------------
EXTENDS Handshake

MCRpcMessage == {[kind |-> "rpc"]}

Guest  == [auth |-> "guest", tag |-> "t1"]
Token1 == [auth |-> "token", tag |-> "t1"]
Token2 == [auth |-> "token", tag |-> "t2"]
Key1   == [auth |-> "pubkey", tag |-> "t1"]
Key2   == [auth |-> "pubkey", tag |-> "t2"]

\* Every mode alone, retries within a mode, and every order of falling back
\* from one mode to another.
MCAuthLists ==
  {<<>>, <<Guest>>, <<Token1, Token2>>, <<Key1, Key2>>, <<Guest, Key1>>,
   <<Key1, Token1>>, <<Token1, Key1, Guest>>, <<Key1, Guest, Key2>>}

MCServerOptions ==
  [userId : {NULL}, modes : SUBSET AuthMode] \cup [userId : {"", "u"}, modes : {{}}]
=============================================================================
