------------------------------ MODULE MCSession ------------------------------
EXTENDS Session

Key1 == [auth |-> "pubkey", tag |-> "t1"]

\* The longest handshake without a second try, and the shortest.
MCAuthLists == {<<Key1>>}

MCServerOptions ==
  {[userId |-> NULL, modes |-> {"pubkey"}], [userId |-> "u", modes |-> {}]}

Unary == [clientStreaming |-> FALSE, serverStreaming |-> FALSE]
ServerStreaming == [clientStreaming |-> FALSE, serverStreaming |-> TRUE]
ClientStreaming == [clientStreaming |-> TRUE, serverStreaming |-> FALSE]

MCService == {Unary, ServerStreaming, ClientStreaming}

\* A streaming call, and a unary one that the onError of the first may make.
MCCalled ==
  [i \in CallIds |-> IF i = 0 THEN {ServerStreaming, ClientStreaming} ELSE {Unary}]
=============================================================================
