---------------------------- MODULE SessionProofs ----------------------------
(***************************************************************************)
(* Proofs about Session: what HandshakeProofs proves of the handshake and  *)
(* CallsProofs of the calls holds of a connection that goes through both,  *)
(* for every configuration, every set of methods and every number of       *)
(* calls.                                                                  *)
(*                                                                         *)
(* HP and CP are the handshake and the calls of Session together with the  *)
(* theorems about them; the lemmas of the next section say that they are   *)
(* the H, R and C of Session.                                              *)
(***************************************************************************)
EXTENDS Session, TLAPS

Rpc == R!ClientMessage \cup R!ServerMessage

HP == INSTANCE HandshakeProofs WITH MaxInFlight <- 0, RpcMessage <- Rpc

CP == INSTANCE CallsProofs WITH Breaks <- TRUE, wire <- callWire

-----------------------------------------------------------------------------
(* What the instances assume and define.                                    *)

\* The frames of the calls are told from those of the handshake.
LEMMA RpcKind == \A m \in Rpc : m.kind = "rpc"
  BY DEF Rpc, R!ClientMessage, R!ServerMessage

\* The constants of Session satisfy what Handshake assumes of its own.
LEMMA HandshakeAssumed ==
  /\ HP!LateDeliveryAssumption /\ HP!UsersAssumption /\ HP!RpcMessageAssumption
  /\ HP!AuthListsAssumption /\ HP!ServerOptionsAssumption /\ HP!ChallengeAssumption
  /\ HP!MaxInFlightAssumption
  BY RpcKind, SessionAssumption DEF H!Auth, HP!Auth, H!AuthMode, HP!AuthMode

\* They satisfy what Calls assumes, too.
LEMMA CallsAssumed ==
  /\ CP!LateDeliveryAssumption /\ CP!RpcAssumption /\ CP!CallerAssumption
  /\ CP!ServiceAssumption /\ CP!BreaksAssumption
  BY SessionAssumption DEF R!Method, CP!Method

\* The handshake of Session starts as the one that was proved about.
LEMMA HandshakeInit == H!Init => HP!Init
  BY DEF H!Init, H!ClientInit, H!ServerInit, H!SocketInit, H!Ends, H!SendWelcome, H!Auth,
      H!Welcome, H!AuthMode, HP!Init, HP!ClientInit, HP!ServerInit, HP!SocketInit, HP!Ends,
      HP!SendWelcome, HP!Auth, HP!Welcome, HP!AuthMode

\* Its client takes the same steps.
LEMMA HandshakeClient == H!ClientNext => HP!ClientNext
  BY DEF H!ClientNext, H!ClientReceive, H!ClientSigned, H!ClientSignFails, H!ClientWelcome,
      H!ClientNewerVersion, H!ClientAccepted, H!ClientRefused, H!ClientChallenged,
      H!ClientIgnored, H!ClientBadMessage, H!ClientUnexpected, H!ClientDispatch, H!ClientOnClose,
      H!Push, H!ChallengeResponse, H!Auth, H!sockVars, H!Deliverable, H!Received, H!Activate,
      H!Authenticate, H!Catch, H!ClientAuthResponse, H!Pop, H!clientVars, H!CloseEvent,
      H!Connecting, H!Settle, H!Peer, H!AuthMode, H!TryNext, H!GiveUp, H!CloseSocket, H!Usable,
      H!AuthRequest, HP!ClientNext, HP!ClientReceive, HP!ClientSigned, HP!ClientSignFails,
      HP!ClientWelcome, HP!ClientNewerVersion, HP!ClientAccepted, HP!ClientRefused,
      HP!ClientChallenged, HP!ClientIgnored, HP!ClientBadMessage, HP!ClientUnexpected,
      HP!ClientDispatch, HP!ClientOnClose, HP!Push, HP!ChallengeResponse, HP!Auth, HP!sockVars,
      HP!Deliverable, HP!Received, HP!Activate, HP!Authenticate, HP!Catch, HP!ClientAuthResponse,
      HP!Pop, HP!clientVars, HP!CloseEvent, HP!Connecting, HP!Settle, HP!Peer, HP!AuthMode,
      HP!TryNext, HP!GiveUp, HP!CloseSocket, HP!Usable, HP!AuthRequest

\* So does its server.
LEMMA HandshakeServer == H!ServerNext => HP!ServerNext
  BY DEF H!ServerNext, H!ServerReceive, H!ServerReturn, H!ServerAuthRequest,
      H!ServerChallengeResponse, H!ServerBadMessage, H!ServerUnexpected, H!ServerDispatch,
      H!ServerOnClose, H!ServerAccepts, H!ServerValidates, H!ServerRefuses, H!ServerChallenges,
      H!ServerRejects, H!ServerValidateThrows, H!Deliverable, H!Auth, H!Arrived, H!Pop,
      H!ServerThrow, H!serverVars, H!CloseEvent, H!AuthReturns, H!Supported, H!Respond,
      H!ValidateReturns, H!Verifies, H!AuthMode, H!CloseSocket, H!Peer, H!Push, H!AuthResponse,
      HP!ServerNext, HP!ServerReceive, HP!ServerReturn, HP!ServerAuthRequest,
      HP!ServerChallengeResponse, HP!ServerBadMessage, HP!ServerUnexpected, HP!ServerDispatch,
      HP!ServerOnClose, HP!ServerAccepts, HP!ServerValidates, HP!ServerRefuses,
      HP!ServerChallenges, HP!ServerRejects, HP!ServerValidateThrows, HP!Deliverable, HP!Auth,
      HP!Arrived, HP!Pop, HP!ServerThrow, HP!serverVars, HP!CloseEvent, HP!AuthReturns,
      HP!Supported, HP!Respond, HP!ValidateReturns, HP!Verifies, HP!AuthMode, HP!CloseSocket,
      HP!Peer, HP!Push, HP!AuthResponse

\* The close events are steps of the handshake in any state.
LEMMA HandshakeCloses ==
  /\ H!ClientOnClose => HP!ClientOnClose /\ HP!ClientNext
  /\ R!CloseEvent("server") /\ UNCHANGED serverAuthVars => HP!ServerOnClose /\ HP!ServerNext
  BY DEF R!CloseEvent, R!Peer, HP!ServerOnClose, HP!serverVars, serverAuthVars, HP!ClientNext,
      HP!ClientReceive, HP!ServerNext, HP!ServerReceive, H!ClientOnClose, H!CloseEvent,
      H!Connecting, H!Settle, H!Peer, H!Auth, H!AuthMode, HP!ClientOnClose, HP!CloseEvent,
      HP!Connecting, HP!Settle, HP!Peer, HP!Auth, HP!AuthMode

\* InStep says the same of both.
LEMMA HandshakeInStep == HP!InStep => InStep
  BY DEF InStep, H!InStep, H!Deliverable, H!Received, H!Auth, H!Arrived, H!AuthMode, HP!InStep,
      HP!Deliverable, HP!Received, HP!Auth, HP!Arrived, HP!AuthMode

\* The calls and the handshake have one socket.
LEMMA HandshakeSocket == R!SocketStep => HP!SocketStep
  BY DEF R!SocketStep, R!Ends, R!Discard, R!UserClose, R!Lose, R!Pop, R!CloseSocket, R!Peer,
      HP!SocketStep, HP!Ends, HP!Discard, HP!UserClose, HP!Lose, HP!Pop, HP!CloseSocket, HP!Peer

\* The frame an end reads is the first one on its wire.
LEMMA HandshakeReads ==
  /\ H!Deliverable("client") => wire["client"] # <<>>
  /\ H!Deliverable("server") => wire["server"] # <<>>
  /\ H!Received = Head(wire["client"]) /\ H!Arrived = Head(wire["server"])
  BY DEF H!Deliverable, H!Received, H!Arrived

\* The calls of ImplementsCalls start as those that were proved about.
LEMMA CallsInit == CP!Init => C!Init
  BY DEF C!Init, C!ClientInit, C!ServerInit, C!SocketInit, C!Ends, C!NoCall, CP!Init,
      CP!ClientInit, CP!ServerInit, CP!SocketInit, CP!Ends, CP!NoCall

\* Their client takes the same steps.
LEMMA CallsClient == C!ClientNext <=> CP!ClientNext
  BY DEF C!ClientNext, C!ClientReceive, C!Caller, C!ClientHandles, C!ClientOnClose,
      C!ClientMakes, C!ClientStreamSends, C!ClientStreamCompletes, C!ClientIgnores, C!ClientError,
      C!ClientResponse, C!ClientStreamRecv, C!ClientStreamClosed, C!CloseEvent, C!AbortAll,
      C!Make, C!HasStream, C!Push, C!StreamSend, C!StreamClose, C!Deliverable, C!Received, C!Take,
      C!Receives, C!Settle, C!Pending, C!Got, C!Pop, C!Peer, C!Retries, C!First, C!NewCall,
      C!CallClientStream, C!Call, CP!ClientNext, CP!ClientReceive, CP!Caller, CP!ClientHandles,
      CP!ClientOnClose, CP!ClientMakes, CP!ClientStreamSends, CP!ClientStreamCompletes,
      CP!ClientIgnores, CP!ClientError, CP!ClientResponse, CP!ClientStreamRecv,
      CP!ClientStreamClosed, CP!CloseEvent, CP!AbortAll, CP!Make, CP!HasStream, CP!Push,
      CP!StreamSend, CP!StreamClose, CP!Deliverable, CP!Received, CP!Take, CP!Receives, CP!Settle,
      CP!Pending, CP!Got, CP!Pop, CP!Peer, CP!Retries, CP!First, CP!NewCall, CP!CallClientStream, CP!Call

\* So does their server.
LEMMA CallsServer == CP!ServerNext => C!ServerNext
  BY DEF C!ServerNext, C!ServerReceive, C!Handler, C!ServerHandles, C!ServerOnClose,
      C!HandlerSends, C!HandlerCompletes, C!HandlerEnds, C!ServerCall, C!ServerCallClientStream,
      C!ServerBadId, C!ServerBadStreamSend, C!ServerStreamSend, C!ServerStreamClose,
      C!ServerAbort, C!ServerIgnores, C!CloseEvent, C!serverVars, C!NextBody, C!Push, C!StreamRecv,
      C!StreamClosed,
      C!StreamingReturns, C!ResponseReturns, C!HandlerThrows, C!Arrives, C!Arrived, C!Refuse,
      C!NoCall, C!StartRun, C!Accept, C!Addressed, C!Peer, C!EndRun, C!Closed, C!CallResponse,
      C!Error, C!Deliverable, C!Pop, CP!ServerNext, CP!ServerReceive, CP!Handler,
      CP!ServerHandles, CP!ServerOnClose, CP!HandlerSends, CP!HandlerCompletes, CP!HandlerEnds,
      CP!ServerCall, CP!ServerCallClientStream, CP!ServerBadId, CP!ServerBadStreamSend,
      CP!ServerStreamSend, CP!ServerStreamClose, CP!ServerAbort, CP!ServerIgnores, CP!CloseEvent,
      CP!serverVars,
      CP!NextBody, CP!Push, CP!StreamRecv, CP!StreamClosed, CP!StreamingReturns,
      CP!ResponseReturns, CP!HandlerThrows, CP!Arrives, CP!Arrived, CP!Refuse, CP!NoCall,
      CP!StartRun, CP!Accept, CP!Addressed, CP!Peer, CP!EndRun, CP!Closed, CP!CallResponse,
      CP!Error, CP!Deliverable, CP!Pop

\* And the connection.
LEMMA CallsSocket == CP!SocketStep => C!SocketStep
  BY DEF C!SocketStep, C!Ends, C!Discard, C!UserClose, C!Lose, C!Pop, C!CloseSocket, C!Peer,
      CP!SocketStep, CP!Ends, CP!Discard, CP!UserClose, CP!Lose, CP!Pop, CP!CloseSocket, CP!Peer

\* Together: a step of the one is a step of the other, stutters included.
LEMMA CallsNext == [CP!Next]_(CP!vars) => [C!Next]_(C!vars)
<1>1. CP!Next => C!Next
  BY CallsClient, CallsServer, CallsSocket
  DEF CP!Next, C!Next, CP!clientVars, C!clientVars, CP!serverVars, C!serverVars
<1>2. UNCHANGED CP!vars => UNCHANGED C!vars
  BY DEF C!vars, C!clientVars, C!serverVars, C!sockVars, CP!vars, CP!clientVars, CP!serverVars,
      CP!sockVars
<1> QED
  BY <1>1, <1>2
-----------------------------------------------------------------------------
(* What Calls sees of the wire.                                             *)

Nothing == [e \in R!Ends |-> <<>>]

\* While the ends connect it sees nothing, once they did it sees everything.
LEMMA NothingWhenEmpty ==
  (\A e \in R!Ends : wire[e] = <<>>) => callWire = Nothing
  BY DEF callWire, CallFrames, Nothing

\* The one frame of the handshake that may be under way hides no other.
LEMMA NothingBefore ==
  HP!IInv /\ HP!Connects => callWire = Nothing
<1> SUFFICES ASSUME HP!IInv, HP!Connects, NEW e \in R!Ends
             PROVE  CallFrames(wire[e]) = <<>>
  BY DEF callWire, Nothing
<1>1. e \in HP!Ends /\ HP!SocketTypeOK(HP!Quiet) /\ wire \in [HP!Ends -> Seq(HP!Quiet)]
  BY DEF R!Ends, HP!Ends, HP!Connects, HP!SocketTypeOK
<1>2. ASSUME wire[e] # <<>> PROVE Head(wire[e]).kind # "rpc" /\ Tail(wire[e]) = <<>>
  <2>1. Head(wire[e]) \in HP!Quiet
    BY <1>1, <1>2, HP!PopFacts, HandshakeAssumed
  <2>2. Tail(wire[e]) = <<>>
    BY <1>1, <1>2, HP!Alone, HandshakeAssumed
  <2> QED
    BY <2>1, <2>2 DEF HP!Quiet
<1> QED
  BY <1>2 DEF CallFrames

\* Every frame is one of a call, whatever it says.
OnlyRpc(w) == \E S : w \in [R!Ends -> Seq(S)] /\ \A f \in S : f.kind = "rpc"

\* Frames of calls are all seen.
LEMMA EverythingIf == OnlyRpc(wire) => callWire = wire
<1> SUFFICES ASSUME NEW S, wire \in [R!Ends -> Seq(S)], \A f \in S : f.kind = "rpc"
             PROVE  callWire = wire
  BY DEF OnlyRpc
<1>1. ASSUME NEW e \in R!Ends PROVE CallFrames(wire[e]) = wire[e]
  BY <1>1 DEF CallFrames
<1> QED
  BY <1>1 DEF callWire

\* They are all there is once the promise resolved.
LEMMA EverythingAfter ==
  HP!SocketTypeOK(Rpc) => OnlyRpc(wire) /\ callWire = wire
  BY EverythingIf, RpcKind DEF OnlyRpc, HP!SocketTypeOK, HP!Ends, R!Ends

\* The same of the wire that a step leaves.
LEMMA Then ==
  /\ (\A e \in R!Ends : wire[e] = <<>>)' => (callWire = Nothing)'
  /\ (HP!IInv /\ HP!Connects)' => (callWire = Nothing)'
  /\ OnlyRpc(wire)' => (callWire = wire)'
  /\ HP!SocketTypeOK(Rpc)' => (OnlyRpc(wire) /\ callWire = wire)'
<1>1. (\A e \in R!Ends : wire[e] = <<>>) => callWire = Nothing
  BY NothingWhenEmpty
<1>2. HP!IInv /\ HP!Connects => callWire = Nothing
  BY NothingBefore
<1>3. OnlyRpc(wire) => callWire = wire
  BY EverythingIf
<1>4. HP!SocketTypeOK(Rpc) => OnlyRpc(wire) /\ callWire = wire
  BY EverythingAfter
<1> QED
  BY <1>1, <1>2, <1>3, <1>4, PTL

\* The calls put no other frame on it.
LEMMA OnlyRpcKept ==
  ASSUME NEW w, OnlyRpc(w), NEW e \in R!Ends
  PROVE  /\ w[e] # <<>> => OnlyRpc(R!Pop(w, e))
         /\ \A f : f.kind = "rpc" => OnlyRpc(R!Push(w, e, f))
<1> PICK S : w \in [R!Ends -> Seq(S)] /\ \A f \in S : f.kind = "rpc"
  BY DEF OnlyRpc
<1>1. ASSUME w[e] # <<>> PROVE OnlyRpc(R!Pop(w, e))
  <2>1. R!Pop(w, e) \in [R!Ends -> Seq(S)]
    BY <1>1 DEF R!Pop, R!Ends
  <2> QED
    BY <2>1 DEF OnlyRpc
<1>2. ASSUME NEW f, f.kind = "rpc" PROVE OnlyRpc(R!Push(w, e, f))
  <2> DEFINE T == S \cup {f}
  <2>1. ASSUME NEW s \in Seq(S) PROVE s \in Seq(T) /\ Append(s, f) \in Seq(T)
    <3>1. s \in [1..Len(s) -> T]
      OBVIOUS
    <3>2. s \in Seq(T)
      BY <3>1
    <3> QED
      BY <3>2
  <2>2. R!Push(w, e, f) \in [R!Ends -> Seq(T)]
    BY <2>1 DEF R!Push, R!Ends, R!Peer
  <2> QED
    BY <1>2, <2>2 DEF OnlyRpc
<1> QED
  BY <1>1, <1>2

\* The frames of both ends, and what an end may do with them.
LEMMA CallFrameKinds ==
  \A i, m, b, c :
    /\ R!Call(i, m, b).kind = "rpc" /\ R!CallClientStream(i, m).kind = "rpc"
    /\ R!StreamSend(i, b).kind = "rpc" /\ R!StreamClose(i).kind = "rpc"
    /\ R!Error(i, c).kind = "rpc" /\ R!CallResponse(i, b).kind = "rpc"
    /\ R!StreamRecv(i, b).kind = "rpc" /\ R!StreamClosed(i).kind = "rpc"
  BY DEF R!Call, R!CallClientStream, R!StreamSend, R!StreamClose, R!Error, R!CallResponse,
         R!StreamRecv, R!StreamClosed

Sends(e) == \E f : f.kind = "rpc" /\ wire' = R!Push(wire, e, f)

Takes(e) ==
  /\ wire[e] # <<>>
  /\ \/ wire' = R!Pop(wire, e)
     \/ \E f : f.kind = "rpc" /\ wire' = R!Push(R!Pop(wire, e), e, f)

\* A streaming handler that returns sends twice.
SendsTwice(e) ==
  \E f : f.kind = "rpc" /\ wire' = R!Push(R!Push(wire, e, f), e, f)

\* What the RPC layers do to the wire, handler by handler (client.ts:126-179,
\* 193-380, server.ts:235-485).
LEMMA CallFramesSent ==
  /\ R!ClientHandles => Takes("client")
  /\ R!Caller => Sends("client") \/ UNCHANGED wire
  /\ R!ServerHandles => Takes("server")
  /\ R!Handler => Sends("server") \/ SendsTwice("server")
<1>1. ASSUME R!ClientHandles PROVE Takes("client")
  <2>1. CASE R!ClientStreamClosed
    <3>1. wire["client"] # <<>>
      BY <2>1 DEF R!ClientStreamClosed, R!Receives, R!Deliverable
    <3>2. PICK i : \/ wire' = R!Pop(wire, "client")
                   \/ wire' = R!Push(R!Pop(wire, "client"), "client", R!StreamClose(i))
      BY <2>1 DEF R!ClientStreamClosed
    <3> QED
      BY <3>1, <3>2, CallFrameKinds DEF Takes
  <2>2. CASE R!ClientIgnores \/ R!ClientError \/ R!ClientResponse \/ R!ClientStreamRecv
    BY <2>2
    DEF R!ClientIgnores, R!ClientError, R!ClientResponse, R!ClientStreamRecv, R!Take,
        R!Receives, R!Deliverable, Takes
  <2> QED
    BY <1>1, <2>1, <2>2 DEF R!ClientHandles
<1>2. ASSUME R!Caller PROVE Sends("client") \/ UNCHANGED wire
  <2>1. ASSUME NEW m, R!Make(m) PROVE Sends("client") \/ UNCHANGED wire
    BY <2>1, CallFrameKinds DEF R!Make, Sends
  <2>2. ASSUME NEW i, R!ClientStreamSends(i) \/ R!ClientStreamCompletes(i)
        PROVE  Sends("client")
    BY <2>2, CallFrameKinds DEF R!ClientStreamSends, R!ClientStreamCompletes, Sends
  <2> QED
    BY <1>2, <2>1, <2>2 DEF R!Caller, R!ClientMakes
<1>3. ASSUME R!ServerHandles PROVE Takes("server")
  <2>1. wire["server"] # <<>>
    BY <1>3
    DEF R!ServerHandles, R!ServerCall, R!ServerCallClientStream, R!ServerBadId,
        R!ServerBadStreamSend, R!ServerStreamSend, R!ServerStreamClose, R!ServerAbort,
        R!ServerIgnores, R!Arrives, R!Deliverable
  <2>2. R!Accept \/ \E c : R!Refuse(c)
    BY <1>3
    DEF R!ServerHandles, R!ServerCall, R!ServerCallClientStream, R!ServerBadId,
        R!ServerBadStreamSend, R!ServerStreamSend, R!ServerStreamClose, R!ServerAbort,
        R!ServerIgnores
  <2> QED
    BY <2>1, <2>2, CallFrameKinds DEF R!Accept, R!Refuse, Takes
<1>4. ASSUME R!Handler PROVE Sends("server") \/ SendsTwice("server")
  <2>1. ASSUME NEW r, R!HandlerSends(r) \/ R!HandlerCompletes(r)
        PROVE  Sends("server")
    BY <2>1, CallFrameKinds DEF R!HandlerSends, R!HandlerCompletes, Sends
  <2>2. ASSUME NEW r, R!StreamingReturns(r)
        PROVE  Sends("server") \/ SendsTwice("server")
    BY <2>2, CallFrameKinds DEF R!StreamingReturns, Sends, SendsTwice
  <2>3. ASSUME NEW r, R!ResponseReturns(r) \/ R!HandlerThrows(r)
        PROVE  Sends("server")
    BY <2>3, CallFrameKinds DEF R!ResponseReturns, R!HandlerThrows, Sends
  <2> QED
    BY <1>4, <2>1, <2>2, <2>3 DEF R!Handler, R!HandlerEnds
<1> QED
  BY <1>1, <1>2, <1>3, <1>4

\* So none of their steps puts a frame of the handshake there.
LEMMA CallFramesOnly ==
  ASSUME OnlyRpc(wire), R!ClientHandles \/ R!Caller \/ R!ServerHandles \/ R!Handler
  PROVE  OnlyRpc(wire)'
<1>1. ASSUME NEW e \in R!Ends, Takes(e) \/ Sends(e) \/ SendsTwice(e)
      PROVE  OnlyRpc(wire')
  BY <1>1, OnlyRpcKept DEF Takes, Sends, SendsTwice
<1>2. OnlyRpc(wire')
  BY <1>1, CallFramesSent DEF R!Ends
<1> QED
  BY <1>2 DEF OnlyRpc

\* The steps of the calls are then those of Calls.
LEMMA CallSteps ==
  ASSUME callWire = wire, callWire' = wire'
  PROVE  /\ R!ClientHandles => CP!ClientHandles
         /\ R!Caller => CP!Caller
         /\ R!ServerHandles => CP!ServerHandles
         /\ R!Handler => CP!Handler
         /\ R!SocketStep => CP!SocketStep
<1>1. R!ClientIgnores => CP!ClientIgnores
  BY DEF R!ClientIgnores, R!Deliverable, R!Received, R!Take, R!Pop, CP!ClientIgnores,
      CP!Deliverable, CP!Received, CP!Take, CP!Pop
<1>2. R!ClientError => CP!ClientError
  BY DEF R!ClientError, R!Receives, R!Received, R!Settle, R!Pending, R!Take, R!Deliverable, R!Pop,
      CP!ClientError, CP!Receives, CP!Received, CP!Settle, CP!Pending, CP!Take, CP!Deliverable,
      CP!Pop
<1>3. R!ClientResponse => CP!ClientResponse
  BY DEF R!ClientResponse, R!Receives, R!Received, R!Settle, R!Pending, R!Got, R!Take, R!Deliverable, R!Pop,
      CP!ClientResponse, CP!Receives, CP!Received, CP!Settle, CP!Pending, CP!Got, CP!Take,
      CP!Deliverable, CP!Pop
<1>4. R!ClientStreamRecv => CP!ClientStreamRecv
  BY DEF R!ClientStreamRecv, R!Receives, R!Received, R!Pending, R!Got, R!Take, R!Deliverable, R!Pop,
      CP!ClientStreamRecv, CP!Receives, CP!Received, CP!Pending, CP!Got, CP!Take, CP!Deliverable,
      CP!Pop
<1>5. R!ClientStreamClosed => CP!ClientStreamClosed
  <2>1. /\ R!Pop(wire, "client") = CP!Pop(callWire, "client")
        /\ \A w : /\ R!Push(w, "client", R!StreamClose(R!Received.id)) =
                       CP!Push(w, "client", CP!StreamClose(CP!Received.id))
        /\ R!Received.id = CP!Received.id
    BY DEF R!Pop, R!Push, R!Peer, R!StreamClose, R!Received, CP!Pop, CP!Push, CP!Peer,
        CP!StreamClose, CP!Received
  <2>2. R!Receives({"streamClosed"}) => CP!Receives({"streamClosed"})
    BY DEF R!Receives, R!Deliverable, R!Received, CP!Receives, CP!Deliverable, CP!Received
  <2>3. \A i, s, b : R!Settle(i, s, b) => CP!Settle(i, s, b)
    BY DEF R!Settle, R!Pending, CP!Settle, CP!Pending
  <2>4. ASSUME R!ClientStreamClosed PROVE CP!ClientStreamClosed
    <3> DEFINE i == R!Received.id
               w == R!Pop(wire, "client")
    <3>1. /\ wire' = IF made[i].method.clientStreaming
                       THEN R!Push(w, "client", R!StreamClose(i))
                       ELSE w
          /\ IF made[i].method.serverStreaming
               THEN R!Settle(i, "ok", made[i].received)
               ELSE UNCHANGED <<made, clientCalls>>
          /\ UNCHANGED <<next, fin, ready>>
      BY <2>4 DEF R!ClientStreamClosed
    <3>2. R!Receives({"streamClosed"})
      BY <2>4 DEF R!ClientStreamClosed
    <3> HIDE DEF i, w
    <3>3. /\ callWire' = IF made[i].method.clientStreaming
                       THEN CP!Push(w, "client", CP!StreamClose(i))
                       ELSE w
          /\ IF made[i].method.serverStreaming
               THEN CP!Settle(i, "ok", made[i].received)
               ELSE UNCHANGED <<made, clientCalls>>
      BY <3>1, <2>1, <2>3 DEF i
    <3>4. i = CP!Received.id /\ w = CP!Pop(callWire, "client")
      BY <2>1 DEF i, w
    <3> QED
      BY <2>2, <3>1, <3>2, <3>3, <3>4 DEF CP!ClientStreamClosed
  <2> QED
    BY <2>4
<1>6. R!Caller => CP!Caller
  <2>1. R!ClientMakes => CP!ClientMakes
    <3>1. /\ \A i, m : R!First(i, m) = CP!First(i, m)
          /\ \A m, t, l, c : R!NewCall(m, t, l, c) = CP!NewCall(m, t, l, c)
          /\ \A i, m : R!CallClientStream(i, m) = CP!CallClientStream(i, m)
          /\ \A i, m, b : R!Call(i, m, b) = CP!Call(i, m, b)
          /\ \A f : R!Push(wire, "client", f) = CP!Push(callWire, "client", f)
      BY DEF R!First, R!NewCall, R!CallClientStream, R!Call, R!Push, R!Peer, CP!First,
          CP!NewCall, CP!CallClientStream, CP!Call, CP!Push, CP!Peer
    <3>2. ASSUME NEW m, R!Make(m) PROVE CP!Make(m)
      BY <3>1, <3>2 DEF R!Make, CP!Make
    <3> QED
      BY <3>2 DEF R!ClientMakes, CP!ClientMakes
  <2>2. ASSUME NEW i, R!ClientStreamSends(i) PROVE CP!ClientStreamSends(i)
    BY <2>2
    DEF R!ClientStreamSends, R!HasStream, R!Push, R!StreamSend, R!Peer, CP!ClientStreamSends,
        CP!HasStream, CP!Push, CP!StreamSend, CP!Peer
  <2>3. ASSUME NEW i, R!ClientStreamCompletes(i) PROVE CP!ClientStreamCompletes(i)
    BY <2>3
    DEF R!ClientStreamCompletes, R!HasStream, R!Push, R!StreamClose, R!Peer,
        CP!ClientStreamCompletes, CP!HasStream, CP!Push, CP!StreamClose, CP!Peer
  <2> QED
    BY <2>1, <2>2, <2>3 DEF R!Caller, CP!Caller
<1>7. R!ServerCall => CP!ServerCall
  BY DEF R!ServerCall, R!Arrives, R!Arrived, R!Refuse, R!serverVars, R!NoCall, R!StartRun,
      R!Accept, R!Deliverable, R!Push, R!Pop, R!Error, R!Peer, CP!ServerCall, CP!Arrives,
      CP!Arrived, CP!Refuse, CP!serverVars, CP!NoCall, CP!StartRun, CP!Accept, CP!Deliverable,
      CP!Push, CP!Pop, CP!Error, CP!Peer
<1>8. R!ServerCallClientStream => CP!ServerCallClientStream
  BY DEF R!ServerCallClientStream, R!Arrives, R!Arrived, R!StartRun, R!Accept, R!Refuse,
      R!serverVars, R!Deliverable, R!Pop, R!Push, R!Error, R!Peer, CP!ServerCallClientStream,
      CP!Arrives, CP!Arrived, CP!StartRun, CP!Accept, CP!Refuse, CP!serverVars, CP!Deliverable,
      CP!Pop, CP!Push, CP!Error, CP!Peer
<1>9. R!ServerBadId => CP!ServerBadId
  BY DEF R!ServerBadId, R!Arrives, R!Addressed, R!NoCall, R!Refuse, R!serverVars, R!Deliverable,
      R!Arrived, R!Push, R!Pop, R!Error, R!Peer, CP!ServerBadId, CP!Arrives, CP!Addressed,
      CP!NoCall, CP!Refuse, CP!serverVars, CP!Deliverable, CP!Arrived, CP!Push, CP!Pop, CP!Error,
      CP!Peer
<1>10. R!ServerBadStreamSend => CP!ServerBadStreamSend
  BY DEF R!ServerBadStreamSend, R!Arrives, R!Addressed, R!NoCall, R!Arrived, R!Refuse,
      R!serverVars, R!Deliverable, R!Push, R!Pop, R!Error, R!Peer, CP!ServerBadStreamSend,
      CP!Arrives, CP!Addressed, CP!NoCall, CP!Arrived, CP!Refuse, CP!serverVars, CP!Deliverable,
      CP!Push, CP!Pop, CP!Error, CP!Peer
<1>11. R!ServerStreamSend => CP!ServerStreamSend
  BY DEF R!ServerStreamSend, R!Arrives, R!Addressed, R!NoCall, R!Arrived, R!Accept,
      R!Deliverable, R!Pop, CP!ServerStreamSend, CP!Arrives, CP!Addressed, CP!NoCall, CP!Arrived,
      CP!Accept, CP!Deliverable, CP!Pop
<1>12. R!ServerStreamClose => CP!ServerStreamClose
  BY DEF R!ServerStreamClose, R!Arrives, R!Addressed, R!NoCall, R!Accept, R!Deliverable,
      R!Arrived, R!Pop, CP!ServerStreamClose, CP!Arrives, CP!Addressed, CP!NoCall, CP!Accept,
      CP!Deliverable, CP!Arrived, CP!Pop
<1>13. R!ServerAbort => CP!ServerAbort
  BY DEF R!ServerAbort, R!Arrives, R!Addressed, R!NoCall, R!Accept, R!Deliverable, R!Arrived,
      R!Pop, CP!ServerAbort, CP!Arrives, CP!Addressed, CP!NoCall, CP!Accept, CP!Deliverable,
      CP!Arrived, CP!Pop
<1>14. R!Handler => CP!Handler
  BY DEF R!Handler, R!HandlerSends, R!HandlerCompletes, R!HandlerEnds, R!NextBody, R!Push,
      R!StreamRecv, R!StreamClosed, R!StreamingReturns, R!ResponseReturns, R!HandlerThrows,
      R!Peer, R!EndRun, R!Closed, R!CallResponse, R!Error, R!NoCall, CP!Handler, CP!HandlerSends,
      CP!HandlerCompletes, CP!HandlerEnds, CP!NextBody, CP!Push, CP!StreamRecv, CP!StreamClosed,
      CP!StreamingReturns, CP!ResponseReturns, CP!HandlerThrows, CP!Peer, CP!EndRun, CP!Closed,
      CP!CallResponse, CP!Error, CP!NoCall
<1>15. R!SocketStep => CP!SocketStep
  BY DEF R!SocketStep, R!Ends, R!Discard, R!UserClose, R!Lose, R!Pop, R!CloseSocket, R!Peer,
      CP!SocketStep, CP!Ends, CP!Discard, CP!UserClose, CP!Lose, CP!Pop, CP!CloseSocket, CP!Peer
<1>16. R!ClientHandles => CP!ClientHandles
  BY <1>1, <1>2, <1>3, <1>4, <1>5 DEF R!ClientHandles, CP!ClientHandles
<1>17. R!ServerIgnores => CP!ServerIgnores
  BY DEF R!ServerIgnores, R!Arrives, R!Accept, R!Deliverable, R!Arrived, R!Pop, R!serverVars,
      CP!ServerIgnores, CP!Arrives, CP!Accept, CP!Deliverable, CP!Arrived, CP!Pop, CP!serverVars
<1>18. R!ServerHandles => CP!ServerHandles
  BY <1>7, <1>8, <1>9, <1>10, <1>11, <1>12, <1>13, <1>17 DEF R!ServerHandles, CP!ServerHandles
<1> QED
  BY <1>6, <1>14, <1>15, <1>16, <1>18

-----------------------------------------------------------------------------
(***************************************************************************)
(* The inductive invariant.  Either the ends connect, no call was made and *)
(* no handler runs, or the promise of connectSockRpc resolved, and then    *)
(* the user of the connection is the one every handler was given.          *)
(***************************************************************************)
BeforeCalls == HP!Connects /\ next = 0 /\ runs = <<>>

Given ==
  /\ served \in Seq(Users \cup {NULL}) /\ Len(served) = Len(runs)
  /\ \A r \in DOMAIN runs : served[r] = user

SInv ==
  /\ HP!TypeInv /\ HP!IInv
  /\ CP!IInv
  /\ BeforeCalls \/ HP!Connected
  /\ Given

\* It holds when the server has sent its welcome, and the calls are at their start.
LEMMA SessionBegins ==
  ASSUME Init
  PROVE  SInv /\ CP!Init
<1>1. HP!Init /\ HP!TypeInv /\ HP!IInv
  BY HandshakeInit, HandshakeAssumed, HP!TypesBegin, HP!TokenBegins DEF Init
<1>2. HP!Connects
  <2>1. /\ promise = "pending" /\ clientState = "BeforeWelcome" /\ signing = {}
        /\ wire = [e \in HP!Ends |-> IF e = "client" THEN <<HP!SendWelcome>> ELSE <<>>]
    BY <1>1 DEF HP!Init, HP!ClientInit, HP!ServerInit, HP!SocketInit
  <2>2. options.userId \in Users \cup {NULL} /\ options.modes \in SUBSET HP!AuthMode
    BY <1>1, HandshakeAssumed DEF HP!TypeInv, HP!TypeOK, HP!ServerTypeOK
  <2>3. HP!SendWelcome \in HP!Quiet
    BY <1>1, <2>2, HP!QuietFrames, HandshakeAssumed DEF HP!SendWelcome
  <2>4. <<HP!SendWelcome>> \in Seq(HP!Quiet) /\ <<>> \in Seq(HP!Quiet)
    BY <2>3
  <2>5. HP!SocketTypeOK(HP!Quiet)
    BY <1>1, <2>1, <2>4 DEF HP!SocketTypeOK, HP!TypeInv, HP!TypeOK
  <2> QED
    BY <2>1, <2>5 DEF HP!Connects, HP!Connecting
<1>3. callWire = Nothing
  BY <1>1, <1>2, NothingBefore
<1>4. CP!Init
  BY <1>1, <1>3
  DEF Init, R!ClientInit, R!ServerInit, CP!Init, CP!ClientInit, CP!ServerInit, CP!SocketInit,
      R!NoCall, CP!NoCall, CP!Ends, R!Ends, Nothing, HP!Init, HP!SocketInit, HP!Ends
<1>5. CP!IInv
  BY <1>4, CP!Begins, CallsAssumed
<1>6. BeforeCalls /\ Given
  BY <1>2 DEF Init, R!ClientInit, R!ServerInit, BeforeCalls, Given
<1> QED
  BY <1>1, <1>4, <1>5, <1>6 DEF SInv

(***************************************************************************)
(* The steps before the promise resolves: Calls sees at most the socket    *)
(* close, break or lose what it sees nothing of.                           *)
(***************************************************************************)

\* What such a step of end e is to Calls.
LEMMA MovesAreCalls ==
  ASSUME CP!IInv, next = 0, callWire = Nothing, callWire' = Nothing,
         UNCHANGED <<next, made, clientCalls, runs, serverCalls>>
  PROVE  /\ \A e \in R!Ends : HP!Moves(e) => [CP!Next]_(CP!vars)
         /\ R!SocketStep => [CP!Next]_(CP!vars)
<1>0. /\ UNCHANGED CP!clientVars /\ UNCHANGED CP!serverVars /\ UNCHANGED callWire
      /\ \A e \in R!Ends : callWire[e] = <<>>
  BY DEF CP!clientVars, CP!serverVars, Nothing
<1>1. UNCHANGED <<fin, ready>> => UNCHANGED CP!vars
  BY <1>0 DEF CP!vars, CP!sockVars, CP!clientVars, CP!serverVars
<1>2. ASSUME NEW e \in R!Ends, HP!CloseSocket(e) PROVE [CP!Next]_(CP!vars)
  <2>1. CP!UserClose(e) \/ UNCHANGED <<fin, ready>>
    BY <1>0, <1>2 DEF HP!CloseSocket, CP!UserClose, CP!CloseSocket, HP!Peer, CP!Peer
  <2>2. e \in CP!Ends
    BY DEF CP!Ends, R!Ends
  <2> QED
    BY <1>0, <1>1, <2>1, <2>2 DEF CP!Next, CP!SocketStep
<1>3. ASSUME NEW e \in R!Ends, HP!CloseEvent(e) PROVE [CP!Next]_(CP!vars)
  <2>1. CP!CloseEvent(e)
    BY <1>0, <1>3 DEF HP!CloseEvent, CP!CloseEvent, HP!Peer, CP!Peer
  <2>2. CASE e = "client"
    <3>1. clientCalls = {} /\ made \in [0..(0 - 1) -> CP!Made]
      BY DEF CP!IInv, CP!Types, CP!ClientTypes, CP!ClientTypeOK
    <3>2. CP!AbortAll({"err", "threw"})
      <4> DEFINE new == [i \in 0..(0 - 1) |-> i]
                 after == [i \in 0..(0 - 1) |->
                             IF i >= next THEN new[i]
                             ELSE IF i \in clientCalls /\ CP!Pending(i)
                               THEN [made[i] EXCEPT !.status = "err"]
                             ELSE made[i]]
      <4>1. 0..(0 - 1) = {} /\ DOMAIN made = {}
        BY <3>1
      <4>2. made = after
        BY <3>1, <4>1
      <4>3. \A S : new \in [0..(0 - 1) -> S]
        BY <4>1
      <4>4. \A i \in DOMAIN new : new[i] \in CP!Retries(i, {"err", "threw"})
        BY <4>1
      <4> HIDE DEF new
      <4> QED
        BY <3>1, <4>1, <4>2, <4>3, <4>4 DEF CP!AbortAll
    <3> QED
      BY <1>0, <2>1, <2>2, <3>2 DEF CP!Next, CP!ClientNext, CP!ClientReceive, CP!ClientOnClose
  <2>3. CASE e = "server"
    BY <1>0, <2>1, <2>3
    DEF CP!Next, CP!ServerNext, CP!ServerReceive, CP!ServerOnClose
  <2> QED
    BY <2>2, <2>3 DEF R!Ends
<1>4. ASSUME R!SocketStep PROVE [CP!Next]_(CP!vars)
  <2>1. CASE \E e \in R!Ends : R!Discard(e)
    BY <1>1, <2>1 DEF R!Discard
  <2>2. CASE \E e \in R!Ends : R!UserClose(e)
    BY <1>2, <2>2 DEF R!UserClose, R!CloseSocket, HP!CloseSocket, R!Peer, HP!Peer
  <2>3. CASE R!Lose
    <3>1. 0 \in 0..Len(callWire["client"]) /\ 0 \in 0..Len(callWire["server"])
      BY <1>0 DEF R!Ends
    <3>2. callWire' = [e \in CP!Ends |-> SubSeq(callWire[e], 1, IF e = "client" THEN 0 ELSE 0)]
      BY <1>0 DEF Nothing, R!Ends, CP!Ends
    <3>3. CP!Lose
      BY <2>3, <3>1, <3>2 DEF R!Lose, CP!Lose, R!Ends, CP!Ends
    <3> QED
      BY <1>0, <3>3 DEF CP!Next, CP!SocketStep
  <2> QED
    BY <1>4, <2>1, <2>2, <2>3 DEF R!SocketStep
<1> QED
  BY <1>1, <1>2, <1>3, <1>4 DEF HP!Moves

\* Nothing of the calls happens yet, and only the handshake goes on.
LEMMA OnlyHandshake ==
  ASSUME HP!IInv, BeforeCalls, Next
  PROVE  /\ UNCHANGED <<next, made, clientCalls, runs, serverCalls, served>>
         /\ \/ HP!ClientNext /\ UNCHANGED HP!serverVars
            \/ HP!ServerNext /\ UNCHANGED HP!clientVars
            \/ R!SocketStep /\ UNCHANGED <<HP!clientVars, HP!serverVars>>
<1>1. promise # "resolved" /\ clientState # "Active" /\ DOMAIN runs = {}
  BY DEF BeforeCalls, HP!Connects
<1>2. ~ServerRpc
  <2> SUFFICES ASSUME ServerRpc PROVE FALSE
    OBVIOUS
  <2>1. wire["server"] # <<>> /\ Head(wire["server"]).kind = "rpc"
    BY HandshakeReads DEF ServerRpc
  <2>2. "server" \in HP!Ends /\ wire \in [HP!Ends -> Seq(HP!Quiet)]
    BY DEF BeforeCalls, HP!Connects, HP!SocketTypeOK, HP!Ends
  <2>3. Head(wire["server"]) \in HP!Quiet
    BY <2>1, <2>2, HP!PopFacts, HandshakeAssumed
  <2> QED
    BY <2>1, <2>3 DEF HP!Quiet
<1>3. ~ClientRpc /\ ~ClientOnClose /\ ~Caller /\ ~Handler
  BY <1>1 DEF ClientRpc, ClientOnClose, Caller, Handler, R!Handler
<1>4. CASE ClientConnects /\ UNCHANGED serverVars
  BY <1>4, HandshakeClient
  DEF ClientConnects, serverVars, serverAuthVars, serverCallVars, clientCallVars, HP!serverVars
<1>5. CASE (ServerConnects \/ ServerOnClose) /\ UNCHANGED clientVars
  <2>1. HP!ServerNext /\ UNCHANGED <<runs, serverCalls, served>>
    BY <1>5, HandshakeServer, HandshakeCloses
    DEF ServerConnects, ServerOnClose, R!ServerOnClose, R!serverVars, serverCallVars
  <2> QED
    BY <1>5, <2>1 DEF clientVars, clientAuthVars, clientCallVars, HP!clientVars
<1>6. CASE R!SocketStep /\ UNCHANGED <<clientVars, serverVars>>
  BY <1>6
  DEF clientVars, clientAuthVars, clientCallVars, HP!clientVars, serverVars, serverAuthVars,
      serverCallVars, HP!serverVars
<1> QED
  BY <1>2, <1>3, <1>4, <1>5, <1>6 DEF Next

\* What goes on keeps the invariant of the handshake.
LEMMA HandshakeKept ==
  ASSUME HP!TypeInv, HP!IInv,
         \/ HP!ClientNext /\ UNCHANGED HP!serverVars
         \/ HP!ServerNext /\ UNCHANGED HP!clientVars
         \/ R!SocketStep /\ UNCHANGED <<HP!clientVars, HP!serverVars>>
  PROVE  HP!TypeInv' /\ HP!IInv'
<1>1. HP!Next
  BY HandshakeSocket DEF HP!Next, HP!ClientStep, HP!ServerStep
<1>2. HP!TypeInv'
  BY <1>1, HP!TypesKept, HandshakeAssumed
<1>3. HP!TokenInv'
  BY <1>1, HP!TokenKept, HandshakeAssumed
<1> QED
  BY <1>2, <1>3 DEF HP!IInv, HP!TypeInv

\* A step of the handshake keeps the invariant, and may be the one that resolves
\* the promise (client.ts:475-479).
LEMMA ConnectingStep ==
  ASSUME SInv, BeforeCalls, Next
  PROVE  SInv' /\ [CP!Next]_(CP!vars)
<1>1. /\ HP!TypeInv /\ HP!IInv /\ HP!Connects /\ CP!IInv /\ next = 0 /\ callWire = Nothing
  BY NothingBefore DEF SInv, BeforeCalls
<1>2. /\ UNCHANGED <<next, made, clientCalls, runs, serverCalls, served>>
      /\ \/ HP!ClientNext /\ UNCHANGED HP!serverVars
         \/ HP!ServerNext /\ UNCHANGED HP!clientVars
         \/ R!SocketStep /\ UNCHANGED <<HP!clientVars, HP!serverVars>>
  BY <1>1, OnlyHandshake
<1>3. HP!TypeInv' /\ HP!IInv'
  BY <1>1, <1>2, HandshakeKept
<1>4. /\ \/ R!SocketStep
         \/ HP!Moves("client")
         \/ HP!Moves("server")
      /\ \/ HP!Connects'
         \/ HP!Connected' /\ \A e \in HP!Ends : wire'[e] = <<>>
  <2>1. CASE HP!ClientNext /\ UNCHANGED HP!serverVars
    BY <1>1, <2>1, HP!ClientHandsOver, HandshakeAssumed
  <2>2. CASE HP!ServerNext /\ UNCHANGED HP!clientVars
    BY <1>1, <2>2, HP!ServerConnects, HandshakeAssumed
  <2>3. CASE R!SocketStep /\ UNCHANGED <<HP!clientVars, HP!serverVars>>
    BY <1>1, <2>3, HandshakeSocket, HP!SocketConnects, HandshakeAssumed
  <2> QED
    BY <1>2, <2>1, <2>2, <2>3
<1>5. callWire' = Nothing
  <2>1. (callWire = Nothing)'
    BY <1>3, <1>4, Then DEF HP!Ends, R!Ends
  <2> QED
    BY <2>1 DEF Nothing
<1>6. [CP!Next]_(CP!vars)
  BY <1>1, <1>2, <1>4, <1>5, MovesAreCalls DEF R!Ends
<1>7. CP!IInv'
  BY <1>1, <1>6, CP!Step, CallsAssumed
<1>8. (BeforeCalls \/ HP!Connected)'
  BY <1>1, <1>2, <1>4 DEF BeforeCalls
<1>9. Given'
  BY <1>2 DEF SInv, BeforeCalls, Given
<1> QED
  BY <1>3, <1>6, <1>7, <1>8, <1>9 DEF SInv

(***************************************************************************)
(* The steps after it: of the handshake's only the close events are left.  *)
(***************************************************************************)

\* No other event reaches an end.
LEMMA OnlyTheCalls ==
  ASSUME HP!IInv, HP!Connected, Next
  PROVE  \/ (ClientRpc \/ ClientOnClose \/ Caller) /\ UNCHANGED serverVars
         \/ (ServerRpc \/ ServerOnClose \/ Handler) /\ UNCHANGED clientVars
         \/ R!SocketStep /\ UNCHANGED <<clientVars, serverVars>>
<1>1. /\ serverState = "Active"
      /\ \A e \in HP!Ends : wire[e] # <<>> => Head(wire[e]).kind = "rpc"
      /\ HP!ClientNext => clientState = "Active"
  BY HP!OnlyCalls, HandshakeAssumed
<1>2. ~ClientConnects
  BY <1>1, HandshakeClient, HandshakeReads DEF ClientConnects, HP!Ends
<1>3. ~ServerConnects
  BY <1>1, HandshakeReads DEF ServerConnects, HP!Ends
<1> QED
  BY <1>2, <1>3 DEF Next

\* The invariant of Calls types the wire it sees.
LEMMA TypedWire ==
  (CP!IInv /\ callWire = wire)' => HP!SocketTypeOK(Rpc)'
<1>1. CP!IInv /\ callWire = wire => HP!SocketTypeOK(Rpc)
  <2> SUFFICES ASSUME CP!IInv, callWire = wire PROVE HP!SocketTypeOK(Rpc)
    OBVIOUS
  <2>1. CP!SocketTypeOK(CP!ClientMessage \cup CP!ServerMessage)
    BY CP!TypesFollow, CallsAssumed DEF CP!TypeOK
  <2>2. CP!ClientMessage \cup CP!ServerMessage = Rpc
    BY DEF Rpc, R!ClientMessage, R!Method, R!Body, R!ServerMessage, R!ErrorCode,
        CP!ClientMessage, CP!Method, CP!Body, CP!ServerMessage, CP!ErrorCode
  <2> QED
    BY <2>1, <2>2 DEF CP!SocketTypeOK, HP!SocketTypeOK, CP!Ends, HP!Ends
<1> QED
  BY <1>1, PTL

\* What the RPC layers leave to the adapter.
LEMMA SocketUntouched ==
  ASSUME R!ClientHandles \/ R!Caller \/ R!ServerHandles \/ R!Handler
  PROVE  UNCHANGED <<fin, ready>>
<1>1. R!ClientHandles \/ R!Caller => UNCHANGED <<fin, ready>>
  BY DEF R!ClientHandles, R!ClientIgnores, R!ClientError, R!ClientResponse, R!ClientStreamRecv,
         R!ClientStreamClosed, R!Take, R!Caller, R!ClientMakes, R!ClientStreamSends,
         R!ClientStreamCompletes
<1>2. R!ServerHandles => UNCHANGED <<fin, ready>>
  BY DEF R!ServerHandles, R!ServerCall, R!ServerCallClientStream, R!ServerBadId,
         R!ServerBadStreamSend, R!ServerStreamSend, R!ServerStreamClose, R!ServerAbort,
         R!ServerIgnores, R!Accept, R!Refuse
<1>3. R!Handler => UNCHANGED <<fin, ready>>
  BY DEF R!Handler, R!HandlerSends, R!HandlerCompletes, R!HandlerEnds, R!StreamingReturns,
         R!ResponseReturns, R!HandlerThrows, R!EndRun
<1> QED
  BY <1>1, <1>2, <1>3

\* A step of the calls alone.
LEMMA TalkStep ==
  ASSUME SInv, HP!Connected,
         \/ (ClientRpc \/ Caller) /\ UNCHANGED serverVars
         \/ (ServerRpc \/ Handler) /\ UNCHANGED clientVars
  PROVE  /\ CP!Next /\ CP!IInv'
         /\ HP!TypeInv' /\ HP!IInv' /\ HP!Connected'
         /\ UNCHANGED user
<1>1. OnlyRpc(wire) /\ callWire = wire
  BY EverythingAfter DEF HP!Connected
<1>2. OnlyRpc(wire)'
  BY <1>1, CallFramesOnly DEF ClientRpc, Caller, ServerRpc, Handler
<1>3. callWire' = wire'
  BY <1>2, Then
<1>4. CP!Next
  BY <1>1, <1>3, CallSteps
  DEF ClientRpc, Caller, ServerRpc, Handler, CP!Next, CP!ClientNext, CP!ClientReceive,
      CP!ServerNext, CP!ServerReceive, clientVars, clientCallVars, serverVars, serverCallVars,
      CP!clientVars, CP!serverVars
<1>5. CP!IInv'
  BY <1>4, CP!Step, CallsAssumed DEF SInv
<1>6. UNCHANGED <<HP!clientVars, HP!serverVars, fin, ready, user>>
  BY SocketUntouched
  DEF ClientRpc, Caller, ServerRpc, Handler, HP!clientVars, HP!serverVars, clientVars,
      serverVars, clientAuthVars, serverAuthVars
<1>7. HP!SocketTypeOK(Rpc)'
  BY <1>3, <1>5, TypedWire
<1>8. HP!TypeInv' /\ HP!IInv' /\ HP!Connected'
  BY <1>6, <1>7, HP!CallsKeep, HandshakeAssumed DEF SInv
<1> QED
  BY <1>4, <1>5, <1>6, <1>8

\* A close event, or a step of the connection, is one of both.
LEMMA CloseStep ==
  ASSUME SInv, HP!Connected,
         \/ ClientOnClose /\ UNCHANGED serverVars
         \/ ServerOnClose /\ UNCHANGED clientVars
         \/ R!SocketStep /\ UNCHANGED <<clientVars, serverVars>>
  PROVE  /\ CP!Next /\ CP!IInv'
         /\ HP!TypeInv' /\ HP!IInv' /\ HP!Connected'
         /\ UNCHANGED <<user, runs, served>>
<1>1. callWire = wire
  BY EverythingAfter DEF HP!Connected
<1>2. \/ HP!ClientOnClose /\ HP!ClientNext /\ UNCHANGED HP!serverVars
      \/ HP!ServerOnClose /\ HP!ServerNext /\ UNCHANGED HP!clientVars
      \/ R!SocketStep /\ HP!SocketStep /\ UNCHANGED <<HP!clientVars, HP!serverVars>>
  BY HandshakeCloses, HandshakeSocket
  DEF ClientOnClose, ServerOnClose, R!ServerOnClose, HP!clientVars, HP!serverVars, clientVars,
      serverVars, clientAuthVars, serverAuthVars
<1>3. HP!TypeInv' /\ HP!IInv'
  BY <1>2, HandshakeKept DEF SInv
<1>4. HP!Connected'
  BY <1>2, HP!StaysConnected, HandshakeAssumed
<1>5. callWire' = wire'
  BY <1>4, Then DEF HP!Connected
<1>6. CP!Next
  <2>1. CASE ClientOnClose /\ UNCHANGED serverVars
    <3>1. R!ClientOnClose
      BY <2>1 DEF ClientOnClose
    <3>2. CP!CloseEvent("client")
      BY <1>1, <1>5, <3>1
      DEF R!ClientOnClose, R!CloseEvent, R!Peer, CP!CloseEvent, CP!Peer
    <3>3. R!AbortAll({"err", "threw"}) <=> CP!AbortAll({"err", "threw"})
      BY DEF R!AbortAll, R!Pending, CP!Pending, R!Retries, R!NewCall, R!First, CP!AbortAll, CP!Retries, CP!NewCall,
          CP!First
    <3>4. R!AbortAll({"err", "threw"})
      BY <3>1 DEF R!ClientOnClose
    <3>5. CP!AbortAll({"err", "threw"})
      BY <3>3, <3>4
    <3> QED
      BY <2>1, <3>2, <3>5
      DEF CP!Next, CP!ClientNext, CP!ClientReceive, CP!ClientOnClose, CP!serverVars,
          serverVars, serverCallVars
  <2>2. CASE ServerOnClose /\ UNCHANGED clientVars
    <3>1. R!ServerOnClose
      BY <2>2 DEF ServerOnClose
    <3>2. CP!ServerOnClose
      BY <1>1, <1>5, <3>1
      DEF R!ServerOnClose, R!CloseEvent, R!serverVars, R!Peer, CP!ServerOnClose,
          CP!CloseEvent, CP!serverVars, CP!Peer
    <3> QED
      BY <2>2, <3>2
      DEF CP!Next, CP!ServerNext, CP!ServerReceive, CP!clientVars, clientVars, clientCallVars
  <2>3. CASE R!SocketStep /\ UNCHANGED <<clientVars, serverVars>>
    BY <1>1, <1>5, <2>3, CallSteps
    DEF CP!Next, CP!clientVars, CP!serverVars, clientVars, clientCallVars, serverVars,
        serverCallVars
  <2> QED
    BY <2>1, <2>2, <2>3
<1>7. CP!IInv'
  BY <1>6, CP!Step, CallsAssumed DEF SInv
<1>8. UNCHANGED <<user, runs, served>>
  BY DEF ClientOnClose, ServerOnClose, R!ServerOnClose, R!serverVars, serverVars,
         serverAuthVars, serverCallVars
<1> QED
  BY <1>3, <1>4, <1>6, <1>7, <1>8

\* A frame starts at most one handler, and nothing but a frame starts one.
LEMMA RunsGrow ==
  ASSUME CP!IInv, CP!IInv'
  PROVE  /\ runs \in Seq(CP!Run) /\ runs' \in Seq(CP!Run)
         /\ R!ServerHandles => Len(runs') = Len(runs) \/ (\E run : runs' = Append(runs, run))
         /\ R!Handler => Len(runs') = Len(runs)
<1>1. runs \in Seq(CP!Run) /\ runs' \in Seq(CP!Run)
  BY DEF CP!IInv, CP!Types, CP!ServerTypes, CP!ServerTypeOK
<1>2. DOMAIN runs' = DOMAIN runs => Len(runs') = Len(runs)
  BY <1>1
<1>3. ASSUME R!ServerHandles
      PROVE  DOMAIN runs' = DOMAIN runs \/ (\E run : runs' = Append(runs, run))
  <2>1. CASE R!ServerCall \/ R!ServerCallClientStream
    <3>1. (\E q, o : R!StartRun(q, o)) \/ UNCHANGED runs
      BY <2>1 DEF R!ServerCall, R!ServerCallClientStream, R!serverVars
    <3> QED
      BY <3>1 DEF R!StartRun
  <2>2. CASE R!ServerBadId \/ R!ServerBadStreamSend \/ R!ServerStreamSend
             \/ R!ServerStreamClose \/ R!ServerAbort \/ R!ServerIgnores
    BY <2>2
    DEF R!ServerBadId, R!ServerBadStreamSend, R!ServerStreamSend, R!ServerStreamClose,
        R!ServerAbort, R!ServerIgnores, R!serverVars
  <2> QED
    BY <1>3, <2>1, <2>2 DEF R!ServerHandles
<1>4. R!Handler => DOMAIN runs' = DOMAIN runs
  BY DEF R!Handler, R!HandlerSends, R!HandlerCompletes, R!HandlerEnds, R!StreamingReturns,
         R!ResponseReturns, R!HandlerThrows, R!EndRun
<1> QED
  BY <1>1, <1>2, <1>3, <1>4

\* A handler that starts is given the user, who never changes (server.ts:261, 334).
LEMMA GivenKept ==
  ASSUME SInv, CP!IInv', UNCHANGED user,
         \/ UNCHANGED <<runs, served>>
         \/ R!Handler /\ UNCHANGED served
         \/ ServerRpc
  PROVE  Given'
<1>1. /\ runs \in Seq(CP!Run) /\ runs' \in Seq(CP!Run)
      /\ served \in Seq(Users \cup {NULL}) /\ Len(served) = Len(runs)
      /\ \A r \in DOMAIN runs : served[r] = user
  BY RunsGrow DEF SInv, Given
<1>2. user \in Users \cup {NULL}
  BY DEF SInv, HP!TypeInv, HP!TypeOK, HP!ServerTypeOK
<1>3. CASE UNCHANGED <<runs, served>>
  BY <1>1, <1>3 DEF Given
<1>4. ASSUME Len(runs') = Len(runs), UNCHANGED served PROVE Given'
  BY <1>1, <1>4 DEF Given
<1>5. CASE R!Handler /\ UNCHANGED served
  BY <1>4, <1>5, RunsGrow DEF SInv
<1>6. CASE ServerRpc
  <2>1. ASSUME NEW run, runs' = Append(runs, run) PROVE Given'
    <3>1. Len(runs') = Len(runs) + 1 /\ served' = Append(served, user)
      BY <1>1, <1>6, <2>1 DEF ServerRpc
    <3>2. /\ served' \in Seq(Users \cup {NULL}) /\ Len(served') = Len(runs) + 1
          /\ \A r \in 1..Len(runs) + 1 : served'[r] = user
      BY <1>1, <1>2, <3>1
    <3> QED
      BY <1>1, <3>1, <3>2 DEF Given
  <2>2. CASE Len(runs') = Len(runs)
    BY <1>1, <1>4, <1>6, <2>2 DEF ServerRpc
  <2> QED
    BY <1>6, <2>1, <2>2, RunsGrow DEF SInv, ServerRpc
<1> QED
  BY <1>3, <1>5, <1>6

\* A step of the calls, or of a connection that closes, keeps the invariant.
LEMMA ConnectedStep ==
  ASSUME SInv, HP!Connected, Next
  PROVE  SInv' /\ CP!Next
<1>1. HP!IInv
  BY DEF SInv
<1>2. CASE \/ (ClientRpc \/ Caller) /\ UNCHANGED serverVars
           \/ (ServerRpc \/ Handler) /\ UNCHANGED clientVars
  <2>1. Given'
    BY <1>2, TalkStep, GivenKept DEF serverVars, serverCallVars, Handler
  <2> QED
    BY <1>2, <2>1, TalkStep DEF SInv
<1>3. CASE \/ ClientOnClose /\ UNCHANGED serverVars
           \/ ServerOnClose /\ UNCHANGED clientVars
           \/ R!SocketStep /\ UNCHANGED <<clientVars, serverVars>>
  <2>1. Given'
    BY <1>3, CloseStep, GivenKept
  <2> QED
    BY <1>3, <2>1, CloseStep DEF SInv
<1> QED
  BY <1>1, <1>2, <1>3, OnlyTheCalls

\* So does no step at all.
LEMMA StutterStep ==
  ASSUME SInv, UNCHANGED vars
  PROVE  SInv' /\ UNCHANGED CP!vars
<1>1. UNCHANGED CP!vars
  BY DEF vars, clientVars, serverVars, clientCallVars, serverCallVars, CP!vars, CP!clientVars,
         CP!serverVars, CP!sockVars, callWire
<1>2. CP!IInv'
  BY <1>1, CP!Step, CallsAssumed DEF SInv
<1>3. UNCHANGED HP!vars /\ UNCHANGED <<HP!clientVars, HP!serverVars, HP!sockVars>>
  BY DEF vars, clientVars, serverVars, clientAuthVars, serverAuthVars, HP!vars, HP!clientVars,
         HP!serverVars, HP!sockVars
<1>4. HP!TypeInv' /\ HP!IInv'
  <2>1. HP!TypeInv' /\ HP!TokenInv'
    BY <1>3, HP!TypesKept, HP!TokenKept, HandshakeAssumed DEF SInv
  <2> QED
    BY <2>1 DEF HP!IInv, HP!TypeInv
<1>5. (BeforeCalls \/ HP!Connected)' /\ Given'
  BY DEF SInv, BeforeCalls, Given, HP!Connected, HP!Connects, HP!SocketTypeOK, vars, clientVars,
         serverVars, clientAuthVars, serverAuthVars, clientCallVars, serverCallVars
<1> QED
  BY <1>1, <1>2, <1>4, <1>5 DEF SInv

\* Every step keeps the invariant and is one of Calls, or nothing to it.
LEMMA SessionStep ==
  ASSUME SInv, [Next]_vars
  PROVE  SInv' /\ [CP!Next]_(CP!vars)
<1>1. CASE Next
  BY <1>1, ConnectingStep, ConnectedStep DEF SInv
<1>2. CASE UNCHANGED vars
  BY <1>2, StutterStep
<1> QED
  BY <1>1, <1>2

-----------------------------------------------------------------------------
(* The theorems.                                                            *)

(***************************************************************************)
(* The invariants of both layers hold at once, and the promise of          *)
(* connectSockRpc tells which of them has the socket (client.ts:402-541,   *)
(* server.ts:487-552).                                                     *)
(***************************************************************************)
THEOREM SessionInvariant == Spec => []SInv
  BY SessionBegins, SessionStep, PTL DEF Spec

(***************************************************************************)
(* Every handler was given the user of the connection, and that is the     *)
(* user the client was told, whoever it is, whatever the configurations    *)
(* and however many calls there are (server.ts:261, 334, 501, 524,         *)
(* client.ts:476).                                                         *)
(***************************************************************************)
THEOREM HandlersKnowTheUserHolds == Spec => []HandlersKnowTheUser
<1>1. SInv => HandlersKnowTheUser
  <2>1. BeforeCalls => DOMAIN runs = {}
    BY DEF BeforeCalls
  <2> QED
    BY <2>1 DEF SInv, Given, HP!Connected, HandlersKnowTheUser
<1> QED
  BY <1>1, SessionInvariant, PTL

(***************************************************************************)
(* Each end decodes every frame as the message it was encoded as, also     *)
(* the first calls, which follow the handshake on the same socket          *)
(* (client.ts:455, server.ts:489).                                         *)
(***************************************************************************)
THEOREM InStepHolds == Spec => []InStep
<1>1. SInv => InStep
  BY HandshakeInStep, HP!ReadsInStep, HandshakeAssumed DEF SInv
<1> QED
  BY <1>1, SessionInvariant, PTL

(***************************************************************************)
(* A session is one of two ends that start active, preceded by a handshake *)
(* which touches nothing of the calls (client.ts:506-541,                  *)
(* server.ts:546-552).                                                     *)
(***************************************************************************)
THEOREM CallsImplemented == Spec => CP!Spec
  BY SessionBegins, SessionStep, SessionInvariant, PTL DEF Spec, CP!Spec

(***************************************************************************)
(* The same as the property of the run states it (client.ts:506-541,       *)
(* server.ts:546-552).                                                     *)
(***************************************************************************)
THEOREM ImplementsCallsHolds == Spec => ImplementsCalls
<1>1. Init => C!Init
  BY SessionBegins, CallsInit
<1>2. SInv /\ [Next]_vars => [C!Next]_(C!vars)
  BY SessionStep, CallsNext
<1> QED
  BY <1>1, <1>2, SessionInvariant, PTL DEF Spec, ImplementsCalls, C!Spec

(***************************************************************************)
(* So a session keeps what CallsProofs proves of the calls: no two of them *)
(* see each other's messages, a success is one handler's answer, complete  *)
(* and in order, a handler that sees the end of its requests has them all, *)
(* a failure has a cause, and no answer is lost to a table                 *)
(* (client.ts:126-191, server.ts:235-380).                                 *)
(***************************************************************************)
THEOREM CallsKeepTheirPromises ==
  Spec => [](/\ R!NoCrossTalk /\ R!OkMeansAnswered /\ R!EndOfRequests /\ R!ErrorsHaveACause
             /\ R!PendingIsReachable /\ R!TableHoldsRunning)
<1>1. /\ CP!Spec => []CP!NoCrossTalk
      /\ CP!Spec => []CP!OkMeansAnswered
      /\ CP!Spec => []CP!EndOfRequests
      /\ CP!Spec => []CP!ErrorsHaveACause
      /\ CP!Spec => []CP!PendingIsReachable
      /\ CP!Spec => []CP!TableHoldsRunning
  BY CP!NoCrossTalkHolds, CP!OkMeansAnsweredHolds, CP!EndOfRequestsHolds,
     CP!ErrorsHaveACauseHolds, CP!PendingIsReachableHolds, CP!TableHoldsRunningHolds,
     CallsAssumed
<1>2. CP!NoCrossTalk <=> R!NoCrossTalk
  BY DEF R!NoCrossTalk, R!IsPrefix, R!Decodable, R!Without, CP!NoCrossTalk, CP!IsPrefix,
      CP!Decodable, CP!Without
<1>3. CP!OkMeansAnswered <=> R!OkMeansAnswered
  BY DEF R!OkMeansAnswered, R!RunsOf, CP!OkMeansAnswered, CP!RunsOf
<1>4. CP!EndOfRequests <=> R!EndOfRequests
  BY DEF R!EndOfRequests, R!Decodable, R!Without, CP!EndOfRequests, CP!Decodable, CP!Without
<1>5. CP!ErrorsHaveACause <=> R!ErrorsHaveACause
  BY DEF R!ErrorsHaveACause, R!Fault, R!RunsOf, CP!ErrorsHaveACause, CP!Fault, CP!RunsOf
<1>6. CP!PendingIsReachable <=> R!PendingIsReachable
  BY DEF R!PendingIsReachable, CP!PendingIsReachable
<1>7. CP!TableHoldsRunning <=> R!TableHoldsRunning
  BY DEF R!TableHoldsRunning, R!RunsOf, R!NoCall, CP!TableHoldsRunning, CP!RunsOf, CP!NoCall
<1> QED
  BY <1>1, <1>2, <1>3, <1>4, <1>5, <1>6, <1>7, CallsImplemented, PTL

(***************************************************************************)
(* And each call of a session, by itself, is a behaviour of CallContract:  *)
(* made, written to, served at most once, answered, ended once             *)
(* (client.ts:126-191, server.ts:235-380).                                 *)
(***************************************************************************)
THEOREM ContractKept == Spec => CP!KeepsContract
<1>1. CP!Spec => CP!KeepsContract
  BY CP!KeepsContractHolds, CallsAssumed
<1> QED
  BY <1>1, CallsImplemented, PTL
==============================================================================
