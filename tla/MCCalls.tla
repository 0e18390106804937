------------------------------- MODULE MCCalls ------------------------------
EXTENDS Calls

Unary == [clientStreaming |-> FALSE, serverStreaming |-> FALSE]
ServerStreaming == [clientStreaming |-> FALSE, serverStreaming |-> TRUE]
ClientStreaming == [clientStreaming |-> TRUE, serverStreaming |-> FALSE]
Duplex == [clientStreaming |-> TRUE, serverStreaming |-> TRUE]

AllMethods == {Unary, ServerStreaming, ClientStreaming, Duplex}

\* A service that lacks one of the methods clients call.
AllButUnary == AllMethods \ {Unary}

CallAny == [i \in CallIds |-> AllMethods]

\* All pairs of kinds but two duplex calls, whose state space is larger than
\* that of all the others together.
CallOneDuplex == [i \in CallIds |-> IF i = 0 THEN AllMethods ELSE AllMethods \ {Duplex}]
=============================================================================
