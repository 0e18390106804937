------------------------------- MODULE Session -------------------------------
(***************************************************************************)
(* A connection from the welcome to the last call: the handshake of        *)
(* Handshake and the calls of Calls on the same socket.  What ties them is *)
(* the state of either end: "Active" sends a frame to the RPC layer, the   *)
(* close event of an active client runs abortAll, a caller has a transport *)
(* when the promise of connectSockRpc resolved, and a handler is given the *)
(* user ID that the handshake left at the server.                          *)
(***************************************************************************)
EXTENDS Naturals, Sequences, FiniteSets

CONSTANTS
  LateDelivery,                         \* of WebSocket
  NULL, Users, Tags,                    \* of Protocol
  AuthLists, ServerOptions,             \* of Handshake
  Malformed, CallIds, MaxSends,         \* of RpcProtocol
  Called, Misuse, Service               \* of Calls

VARIABLES
  wire, fin, ready,                     \* of WebSocket
  connectAuth, clientState, auth, authTypes, lastAuth, authFailures, promise,
  transportUser, signing,
  options, serverState, user, pubkeyChallenge, issued, pending,
  next, made, clientCalls,
  runs, serverCalls,
  served  \* history: served[r] is the user ID that run r was given

R == INSTANCE Calls WITH Breaks <- TRUE
H == INSTANCE Handshake WITH
       MaxInFlight <- 0,
       RpcMessage  <- R!ClientMessage \cup R!ServerMessage

ASSUME SessionAssumption ==
  /\ H!LateDeliveryAssumption /\ H!UsersAssumption /\ H!AuthListsAssumption
  /\ H!ServerOptionsAssumption /\ H!ChallengeAssumption
  /\ R!RpcAssumption /\ R!CallerAssumption /\ R!ServiceAssumption

\* The parts of the state, by end and module.
clientAuthVars ==
  <<connectAuth, clientState, auth, authTypes, lastAuth, authFailures, promise,
    transportUser, signing>>
clientCallVars == <<next, made, clientCalls>>
serverAuthVars == <<options, serverState, user, pubkeyChallenge, pending, issued>>
serverCallVars == <<runs, serverCalls, served>>
clientVars == <<clientAuthVars, clientCallVars>>
serverVars == <<serverAuthVars, serverCallVars>>

vars == <<clientVars, serverVars, wire, fin, ready>>

Init ==
  /\ H!Init
  /\ R!ClientInit
  /\ R!ServerInit
  /\ served = <<>>

-----------------------------------------------------------------------------
(* The client's end.                                                        *)

\* case State.Active: transport.handleServerMessage
ClientRpc ==
  /\ H!Deliverable("client") /\ clientState = "Active" /\ H!Received.kind = "rpc"
  /\ R!ClientHandles
  /\ UNCHANGED clientAuthVars

\* The close event: an active client aborts its calls.
ClientOnClose ==
  /\ clientState = "Active"
  /\ R!ClientOnClose
  /\ H!ClientOnClose

\* Mutant of ClientConnects: the close event never reaches the transport.
ClientConnectsAlone ==
  /\ clientState = "Active" => H!CloseEvent("client")
  /\ H!ClientNext
  /\ UNCHANGED clientCallVars

\* Everything else the client does, an active one only with a frame that is no
\* ServerMessage.
ClientConnects ==
  /\ clientState = "Active" => H!Deliverable("client") /\ H!Received.kind # "rpc"
  /\ H!ClientNext
  /\ UNCHANGED clientCallVars

\* The promise of connectSockRpc handed out the transport, and never takes it
\* back.
Caller ==
  /\ promise = "resolved"
  /\ R!Caller
  /\ UNCHANGED clientAuthVars

-----------------------------------------------------------------------------
(* The server's end.                                                        *)

\* case State.Active: handleClientMessage; a handler that starts is given the
\* user of the connection.
ServerRpc ==
  /\ H!Deliverable("server") /\ serverState = "Active" /\ H!Arrived.kind = "rpc"
  /\ R!ServerHandles
  /\ served' = IF Len(runs') > Len(runs) THEN Append(served, user) ELSE served
  /\ UNCHANGED serverAuthVars

ServerConnects ==
  /\ serverState = "Active" => H!Deliverable("server") /\ H!Arrived.kind # "rpc"
  /\ H!ServerNext
  /\ UNCHANGED serverCallVars

ServerOnClose ==
  /\ serverState = "Active"
  /\ R!ServerOnClose
  /\ UNCHANGED <<serverAuthVars, served>>

Handler == R!Handler /\ UNCHANGED <<serverAuthVars, served>>

-----------------------------------------------------------------------------
Next ==
  \/ (ClientRpc \/ ClientOnClose \/ ClientConnects \/ Caller) /\ UNCHANGED serverVars
  \/ (ServerRpc \/ ServerConnects \/ ServerOnClose \/ Handler) /\ UNCHANGED clientVars
  \/ R!SocketStep /\ UNCHANGED <<clientVars, serverVars>>

\* The fairness of Handshake and of Calls: the event loops and the network make
\* progress, callbacks return, sign() settles, and handlers end.
Fairness ==
  /\ WF_vars((ClientRpc \/ ClientOnClose \/ ClientConnects) /\ UNCHANGED serverVars)
  /\ WF_vars((ServerRpc \/ ServerConnects \/ ServerOnClose) /\ UNCHANGED clientVars)
  /\ \A r \in 1..Cardinality(CallIds) :
       WF_vars(/\ r \in DOMAIN runs /\ R!HandlerEnds(r)
               /\ UNCHANGED <<serverAuthVars, served, clientVars>>)
  /\ \A e \in R!Ends : WF_vars(R!Discard(e) /\ UNCHANGED <<clientVars, serverVars>>)

Spec == Init /\ [][Next]_vars

FairSpec == Spec /\ Fairness

-----------------------------------------------------------------------------
(***************************************************************************)
(* Every handler was given the user that the client, too, was told it is   *)
(* logged in as, and none ran before the client was told; only of a client *)
(* that was told the empty user ID nothing is known (server.ts:261, 334,   *)
(* 501, 524, client.ts:476).                                               *)
(***************************************************************************)
HandlersKnowTheUser ==
  \A r \in DOMAIN runs :
    /\ transportUser # NULL
    /\ served[r] = user /\ transportUser \in {user, ""}

(***************************************************************************)
(* The frames of the calls reach an end only when it decodes them as such, *)
(* and the frames of the handshake only when it expects them: a first call *)
(* never overtakes the answer that made the client active (client.ts:455,  *)
(* server.ts:489).                                                         *)
(***************************************************************************)
InStep == H!InStep

\* What Calls sees of the wire.  Of the handshake at most one frame is under
\* way, ahead of the frames of the calls.
CallFrames(frames) ==
  IF frames # <<>> /\ Head(frames).kind # "rpc" THEN Tail(frames) ELSE frames

callWire == [e \in R!Ends |-> CallFrames(wire[e])]

C == INSTANCE Calls WITH Breaks <- TRUE, wire <- callWire

(***************************************************************************)
(* What Calls says of two ends that start active holds in a session: the   *)
(* handshake leaves a fresh connection to the calls, no step of it touches *)
(* them, and no frame of theirs is lost to it (client.ts:506-541,          *)
(* server.ts:546-552).                                                     *)
(***************************************************************************)
ImplementsCalls == C!Spec

(***************************************************************************)
(* A client that is let in sees the end of every call it made on the       *)
(* connection, whether that holds or breaks, and of the calls its onError  *)
(* callbacks make while abortAll runs, if the callbacks and handlers of    *)
(* the server end (client.ts:181-191, 528-541).                            *)
(***************************************************************************)
CallsSettle == R!CallsSettle
=============================================================================
