---------------------------- MODULE RpcProtocol -----------------------------
(***************************************************************************)
(* The messages of sockrpc.proto that carry calls, once a connection is    *)
(* active.  Method names, deadlines and error texts are left out; the      *)
(* bytes of a request or response are a body that tells where it was       *)
(* written.  "kind" is the type the writer encoded, as in Protocol.        *)
(***************************************************************************)
EXTENDS Naturals, Sequences

CONSTANTS
  Malformed,  \* a set of bodies: bytes the reader's MethodInfo cannot decode
  CallIds,    \* the IDs calls may have
  MaxSends    \* bound: messages one side writes in a call

ASSUME RpcAssumption ==
  /\ CallIds \subseteq Nat /\ MaxSends \in Nat \ {0}
  /\ Malformed \cap [call : Nat, n : Nat] = {}

\* What MethodInfo says of a method; it stands for the method's name.
Method == [clientStreaming : BOOLEAN, serverStreaming : BOOLEAN]

\* The n-th message one side writes in a call.
Body == [call : Nat, n : Nat] \cup Malformed

\* The codes the server sends, out of the nine sockrpc.proto declares.
ErrorCode ==
  {"ERR_INTERNAL", "ERR_BAD_ID", "ERR_BAD_METHOD", "ERR_BAD_INPUT", "ERR_BAD_STREAM_SEND",
   "ERR_USER"}

ClientMessage ==
  [kind : {"rpc"}, id : Nat, oneofKind : {"call"}, method : Method, body : Body]
    \cup [kind : {"rpc"}, id : Nat, oneofKind : {"callClientStream"}, method : Method]
    \cup [kind : {"rpc"}, id : Nat, oneofKind : {"streamSend"}, body : Body]
    \cup [kind : {"rpc"}, id : Nat, oneofKind : {"streamClose", "abort", "none"}]

ServerMessage ==
  [kind : {"rpc"}, id : Nat, oneofKind : {"error"}, code : ErrorCode]
    \cup [kind : {"rpc"}, id : Nat, oneofKind : {"callResponse", "streamRecv"}, body : Body]
    \cup [kind : {"rpc"}, id : Nat, oneofKind : {"streamClosed", "none"}]

-----------------------------------------------------------------------------
Call(i, m, b) == [kind |-> "rpc", id |-> i, oneofKind |-> "call", method |-> m, body |-> b]

CallClientStream(i, m) == [kind |-> "rpc", id |-> i, oneofKind |-> "callClientStream", method |-> m]

StreamSend(i, b) == [kind |-> "rpc", id |-> i, oneofKind |-> "streamSend", body |-> b]

StreamClose(i) == [kind |-> "rpc", id |-> i, oneofKind |-> "streamClose"]

Abort(i) == [kind |-> "rpc", id |-> i, oneofKind |-> "abort"]

\* A ClientMessage or ServerMessage without a message, which no writer of this
\* library sends.
NoMessage(i) == [kind |-> "rpc", id |-> i, oneofKind |-> "none"]

Error(i, c) == [kind |-> "rpc", id |-> i, oneofKind |-> "error", code |-> c]

CallResponse(i, b) == [kind |-> "rpc", id |-> i, oneofKind |-> "callResponse", body |-> b]

StreamRecv(i, b) == [kind |-> "rpc", id |-> i, oneofKind |-> "streamRecv", body |-> b]

StreamClosed(i) == [kind |-> "rpc", id |-> i, oneofKind |-> "streamClosed"]
=============================================================================
