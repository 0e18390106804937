----------------------------- MODULE MCOpenCalls ----------------------------
EXTENDS OpenCalls

\* Every kind of method but the unary one, which the service does not have.
MCService ==
  {[clientStreaming |-> FALSE, serverStreaming |-> TRUE],
   [clientStreaming |-> TRUE, serverStreaming |-> FALSE],
   [clientStreaming |-> TRUE, serverStreaming |-> TRUE]}
=============================================================================
