---------------------------- MODULE MCOpenClient ----------------------------
EXTENDS OpenClient

MCRpcMessage == {[kind |-> "rpc"]}

\* Fallback between modes, retries within one, and modes that are not offered.
MCAuthLists ==
  {<<[auth |-> "token", tag |-> "t1"], [auth |-> "pubkey", tag |-> "t1"],
     [auth |-> "guest", tag |-> "t1"], [auth |-> "pubkey", tag |-> "t2"]>>,
   <<[auth |-> "pubkey", tag |-> "t2"], [auth |-> "token", tag |-> "t1"]>>}

MCAnyServerFrame ==
  {Welcome(1, u, modes) : u \in {NULL, "u"}, modes \in {{}, {"pubkey"}, {"token", "pubkey"}}}
    \cup {Welcome(2, NULL, {"guest"})}
    \cup {AuthResponse("userId", "u"), AuthResponse("error", "AUTHERR_BAD_CREDENTIAL"),
          AuthResponse("pubkeyChallenge", 1), AuthResponse("pubkeyChallenge", 2),
          AuthResponse("none", NULL)}
    \cup RpcMessage \cup Garbage
=============================================================================
