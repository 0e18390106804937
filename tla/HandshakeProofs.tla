-------------------------- MODULE HandshakeProofs ---------------------------
(***************************************************************************)
(* Proofs about Handshake, for every set of users and tags, every          *)
(* configuration of client and server, and both kinds of adapter.          *)
(***************************************************************************)
EXTENDS Handshake, EndpointProofs

-----------------------------------------------------------------------------
(* Type correctness.                                                        *)

TypeInv == TypeOK /\ Presented /\ Challenged

\* The variables have their types at the start, whatever the configurations.
LEMMA TypesBegin ==
  ASSUME Init
  PROVE  TypeInv
<1>1. ClientTypeOK /\ Presented
  BY AuthListsAssumption
  DEF Init, ClientInit, ClientTypeOK, Presented, ClientState, Connecting
<1>2. ServerTypeOK /\ Challenged
  BY ServerOptionsAssumption DEF Init, ServerInit, ServerTypeOK, ServerState, Challenged
<1>3. SendWelcome \in Frame
  BY FrameTypes, ServerOptionsAssumption DEF SendWelcome, Init, ServerInit
<1>4. SocketTypeOK(Frame)
  BY <1>3 DEF Init, SocketInit, SocketTypeOK
<1> QED
  BY <1>1, <1>2, <1>4 DEF TypeInv, TypeOK, Frame

\* No step of either end or of the connection breaks them.
LEMMA TypesKept ==
  ASSUME TypeInv, [Next]_vars
  PROVE  TypeInv'
<1>1. ClientTypes /\ ServerTypes
  BY DEF TypeInv, TypeOK, ClientTypes, ServerTypes, Frame
<1>2. ASSUME ClientTypes', ServerTypes' PROVE TypeInv'
  BY <1>2 DEF TypeInv, TypeOK, ClientTypes, ServerTypes, Frame
<1>3. ASSUME ClientNext \/ ClientCall, UNCHANGED serverVars PROVE TypeInv'
  <2>1. ClientTypes'
    BY <1>1, <1>3, ClientTypesStep
  <2>2. ServerTypes'
    BY <1>1, <1>3, <2>1
    DEF ClientTypes, ServerTypes, ServerTypeOK, Challenged, serverVars
  <2> QED
    BY <1>2, <2>1, <2>2
<1>4. ASSUME ServerNext \/ ServerSend, UNCHANGED clientVars PROVE TypeInv'
  <2>1. ServerTypes'
    BY <1>1, <1>4, ServerTypesStep
  <2>2. ClientTypes'
    BY <1>1, <1>4, <2>1
    DEF ClientTypes, ServerTypes, ClientTypeOK, Presented, clientVars
  <2> QED
    BY <1>2, <2>1, <2>2
<1>5. ASSUME SocketStep, UNCHANGED <<clientVars, serverVars>> PROVE TypeInv'
  <2>1. SocketTypeOK(Frame)'
    BY <1>1, <1>5, SocketTypes DEF ClientTypes, Ends
  <2> QED
    BY <1>1, <1>2, <1>5, <2>1
    DEF ClientTypes, ServerTypes, ClientTypeOK, Presented, clientVars,
        ServerTypeOK, Challenged, serverVars
<1>6. CASE UNCHANGED vars
  BY <1>1, <1>2, <1>6
  DEF vars, ClientTypes, ServerTypes, ClientTypeOK, Presented, clientVars,
      ServerTypeOK, Challenged, serverVars, SocketTypeOK, sockVars
<1> QED
  BY <1>3, <1>4, <1>5, <1>6 DEF Next, ClientStep, ServerStep, Traffic

(***************************************************************************)
(* The types of all variables, with what makes them inductive, are an      *)
(* invariant for any users, configurations and adapter: in particular no   *)
(* handler of client.ts:471-501 or server.ts:487-556 reads a field of an   *)
(* undefined lastAuth or pubkeyChallenge.                                  *)
(***************************************************************************)
THEOREM TypeInvariant == Spec => []TypeInv
  BY TypesBegin, TypesKept, PTL DEF Spec

(***************************************************************************)
(* The type invariant of the handshake (client.ts:398, server.ts:114).     *)
(***************************************************************************)
THEOREM TypeCorrect == Spec => []TypeOK
<1>1. TypeInv => TypeOK
  BY DEF TypeInv
<1> QED
  BY <1>1, TypeInvariant, PTL

-----------------------------------------------------------------------------
(* The inductive invariant.                                                 *)

\* What the invariant says of the frame a client handler runs on, and of the
\* wire once it is taken off.
LEMMA ClientReads ==
  ASSUME IInv, Deliverable("client")
  PROVE  /\ \/ Received.kind = "welcome" /\ WelcomeInv(1)
            \/ Received.kind = "authResponse" /\ AuthResponseInv(1)
            \/ /\ Received.kind = "rpc"
               /\ serverState = "Active" /\ clientState \in {"Active", "Closed"}
         /\ Received = ToClient[1]
         /\ Pop(wire, "client")["client"] = Tail(ToClient)
         /\ Pop(wire, "client")["server"] = ToServer
         /\ \A i \in DOMAIN Tail(ToClient) :
              Tail(ToClient)[i].kind = "rpc" /\ serverState = "Active"
         /\ serverState # "Active" =>
              /\ Tail(ToClient) = <<>> /\ ToServer = <<>>
              /\ pending = {} /\ signing = {}
<1>1. wire \in [Ends -> Seq(Frame)] /\ "client" \in Ends /\ Peer("client") = "server"
  BY DEF IInv, TypeOK, SocketTypeOK, Ends, Peer, Frame
<1>2. ToClient # <<>> /\ ToClient \in Seq(Frame)
  BY <1>1 DEF Deliverable, ToClient
<1>3. /\ Received = ToClient[1] /\ 1 \in DOMAIN ToClient
      /\ Pop(wire, "client")["client"] = Tail(ToClient)
      /\ Pop(wire, "client")["server"] = ToServer
      /\ \A i \in DOMAIN Tail(ToClient) :
           i + 1 \in DOMAIN ToClient /\ i + 1 # 1 /\ Tail(ToClient)[i] = ToClient[i + 1]
  <2>1. /\ Pop(wire, "client")["client"] = Tail(wire["client"])
        /\ Pop(wire, "client")[Peer("client")] = wire[Peer("client")]
        /\ Head(wire["client"]) = wire["client"][1]
        /\ 1 \in DOMAIN wire["client"]
        /\ \A i \in DOMAIN Tail(wire["client"]) :
             i + 1 \in DOMAIN wire["client"] /\ Tail(wire["client"])[i] = wire["client"][i + 1]
    BY <1>1, <1>2 DEF ToClient, Pop, Ends, Peer
  <2>2. \A i \in DOMAIN Tail(ToClient) : i \in Nat \ {0}
    BY <1>2
  <2>3. \A i \in DOMAIN Tail(ToClient) : i + 1 # 1
    BY <2>2
  <2> QED
    BY <1>1, <2>1, <2>3 DEF Received, ToClient, ToServer
<1>4. ~Deaf
  BY DEF Deliverable, Deaf
<1>5. \/ Received.kind = "welcome" /\ WelcomeInv(1)
      \/ Received.kind = "authResponse" /\ AuthResponseInv(1)
      \/ /\ Received.kind = "rpc"
         /\ serverState = "Active" /\ clientState \in {"Active", "Closed"}
  BY <1>3, <1>4 DEF IInv, TokenInv, ToClientInv
<1>6. \A i \in DOMAIN Tail(ToClient) :
        Tail(ToClient)[i].kind = "rpc" /\ serverState = "Active"
  BY <1>3 DEF IInv, TokenInv, ToClientInv, WelcomeInv, AuthResponseInv
<1>7. serverState # "Active" =>
        /\ Tail(ToClient) = <<>> /\ ToServer = <<>>
        /\ pending = {} /\ signing = {}
  BY <1>2 DEF IInv, TokenInv, OneToken
<1> QED
  BY <1>3, <1>5, <1>6, <1>7

\* The same for a server handler.
LEMMA ServerReads ==
  ASSUME IInv, Deliverable("server")
  PROVE  /\ \/ /\ Arrived.kind = "authRequest"
               /\ serverState \in {"Auth", "ProcessingAuth"}
               /\ clientState \in {"Auth", "Closed"}
               /\ Arrived.request = lastAuth
            \/ /\ Arrived.kind = "challengeResponse"
               /\ serverState = "PubkeyChallenge"
               /\ clientState \in {"Auth", "Closed"}
               /\ Arrived.signature =
                    [by |-> pubkeyChallenge.validate, over |-> pubkeyChallenge.challenge]
            \/ Arrived.kind = "rpc" /\ serverState = "Active"
         /\ Pop(wire, "server")["server"] = Tail(ToServer)
         /\ Pop(wire, "server")["client"] = ToClient
         /\ serverState = "Active" =>
              \A i \in DOMAIN Tail(ToServer) : Tail(ToServer)[i].kind = "rpc"
         /\ serverState # "Active" =>
              /\ Tail(ToServer) = <<>> /\ ToClient = <<>>
              /\ pending = {} /\ signing = {}
<1>1. wire \in [Ends -> Seq(Frame)] /\ "server" \in Ends /\ Peer("server") = "client"
  BY DEF IInv, TypeOK, SocketTypeOK, Ends, Peer, Frame
<1>2. ToServer # <<>> /\ ToServer \in Seq(Frame)
  BY <1>1 DEF Deliverable, ToServer
<1>3. /\ Arrived = ToServer[1] /\ 1 \in DOMAIN ToServer
      /\ Pop(wire, "server")["server"] = Tail(ToServer)
      /\ Pop(wire, "server")["client"] = ToClient
      /\ \A i \in DOMAIN Tail(ToServer) :
           i + 1 \in DOMAIN ToServer /\ Tail(ToServer)[i] = ToServer[i + 1]
  <2>1. /\ Pop(wire, "server")["server"] = Tail(wire["server"])
        /\ Pop(wire, "server")[Peer("server")] = wire[Peer("server")]
        /\ Head(wire["server"]) = wire["server"][1]
        /\ 1 \in DOMAIN wire["server"]
        /\ \A i \in DOMAIN Tail(wire["server"]) :
             i + 1 \in DOMAIN wire["server"] /\ Tail(wire["server"])[i] = wire["server"][i + 1]
    BY <1>1, <1>2 DEF ToServer, Pop, Ends, Peer
  <2> QED
    BY <1>1, <2>1 DEF Arrived, ToClient, ToServer
<1>4. serverState # "Active" =>
        /\ Tail(ToServer) = <<>> /\ ToClient = <<>>
        /\ pending = {} /\ signing = {}
  BY <1>2 DEF IInv, TokenInv, OneToken
<1>5. serverState = "Active" =>
        \A i \in DOMAIN Tail(ToServer) : Tail(ToServer)[i].kind = "rpc"
  BY <1>3 DEF IInv, TokenInv, ToServerInv
<1> QED
  BY <1>3, <1>4, <1>5 DEF IInv, TokenInv, ToServerInv

\* The wire after a send, as the invariant sees it.
LEMMA PushWire ==
  ASSUME NEW w \in [Ends -> Seq(Frame)], NEW f
  PROVE  /\ wire' = Push(w, "client", f) =>
              /\ ToClient' = w["client"]
              /\ ToServer' = w["server"] \/ ToServer' = Append(w["server"], f)
         /\ wire' = Push(w, "server", f) =>
              /\ ToServer' = w["server"]
              /\ \/ ToClient' = Append(w["client"], f)
                 \/ /\ ToClient' = w["client"]
                    /\ ready["server"] # "open" \/ fin["client"]
  BY DEF Push, Peer, Ends, ToClient, ToServer

\* The wire holds one frame.
LEMMA OneFrame ==
  ASSUME NEW s, NEW f, s = <<>> \/ s = <<f>>
  PROVE  /\ Len(s) <= 1
         /\ Append(<<>>, f) = <<f>> /\ <<f>> # <<>>
         /\ \A i \in DOMAIN s : i = 1 /\ s[i] = f
<1>1. Append(<<>>, f) = <<f>> /\ <<f>> # <<>>
  OBVIOUS
<1>2. CASE s = <<>>
  BY <1>1, <1>2
<1>3. CASE s = <<f>>
  BY <1>1, <1>3
<1> QED
  BY <1>2, <1>3

LEMMA NothingToServer ==
  ASSUME ToServer' = <<>>
  PROVE  ToServerInv'
  BY DEF ToServerInv

\* No token is left: most of the invariant is void.
LEMMA NoToken ==
  ASSUME ToClient' = <<>>, ToServer' = <<>>, pending' = {}, signing' = {}
  PROVE  OneToken' /\ ToClientInv' /\ ToServerInv' /\ PendingInv' /\ SigningInv'
  BY DEF OneToken, ToClientInv, ToServerInv, PendingInv, SigningInv

(* The client's steps.                                                      *)

\* An exception in the client's message handler: the frame it runs on is
\* lost, and the client is closed.
LEMMA CatchKeeps ==
  ASSUME IInv, Deliverable("client"), clientState \in Connecting,
         NEW reason \in Rejection, Catch(reason), UNCHANGED <<serverVars, signing>>,
         serverState = "PubkeyChallenge" => lastAuth' = lastAuth
  PROVE  TokenInv'
<1> USE DEF IInv, TokenInv
<1>1. /\ ToClient' = Tail(ToClient) /\ ToServer' = ToServer
      /\ clientState' = "Closed"
      /\ promise' = "resolved" => promise = "resolved"
      /\ UNCHANGED <<serverState, user, pubkeyChallenge, pending, issued, signing>>
  BY ClientReads DEF Catch, ToClient, ToServer, serverVars, Settle, Rejection
<1>2. CASE serverState = "Active"
  <2>1. \A i \in DOMAIN ToServer : ToServer[i].kind = "rpc"
    BY <1>2 DEF ToServerInv
  <2> QED
    BY <1>1, <1>2, <2>1, ClientReads
    DEF OneToken, ToClientInv, ToServerInv, PendingInv, SigningInv, ServerInv, ClientInv,
        Agreement
<1>3. CASE serverState # "Active"
  <2>1. ToClient' = <<>> /\ ToServer' = <<>> /\ pending' = {} /\ signing' = {}
    BY <1>1, <1>3, ClientReads
  <2> QED
    BY <1>1, <1>3, <2>1, NoToken DEF ServerInv, ClientInv, Agreement
<1> QED
  BY <1>2, <1>3

\* authenticate() turns the frame into an auth request.
LEMMA AuthenticateKeeps ==
  ASSUME IInv, Deliverable("client"), clientState \in {"BeforeWelcome", "Auth"},
         serverState \in {"Auth", "ProcessingAuth"},
         NEW types, Authenticate(types), UNCHANGED <<serverVars, signing>>
  PROVE  TokenInv'
<1> USE DEF IInv, TokenInv
<1>1. ASSUME NEW reason \in Rejection, Catch(reason) PROVE TokenInv'
  <2> HIDE DEF IInv, TokenInv
  <2> QED
    BY <1>1, CatchKeeps DEF Connecting
<1>2. CASE GiveUp(types)
  BY <1>1, <1>2 DEF GiveUp, Rejection
<1>3. ASSUME NEW last \in DOMAIN auth,
             lastAuth' = auth[last], clientState' = "Auth", promise' = promise,
             wire' = Push(Pop(wire, "client"), "client", AuthRequest(auth[last])),
             UNCHANGED <<fin, ready>>
      PROVE  TokenInv'
  <2>1. Pop(wire, "client") \in [Ends -> Seq(Frame)]
    BY PopFacts DEF TypeOK, SocketTypeOK, Frame, Deliverable, Ends
  <2>2. /\ ToClient' = <<>> /\ pending' = {} /\ signing' = {}
        /\ ToServer' = <<>> \/ ToServer' = <<AuthRequest(lastAuth')>>
    <3>1. Pop(wire, "client")["client"] = <<>> /\ Pop(wire, "client")["server"] = <<>>
          /\ pending = {} /\ signing = {}
      BY ClientReads
    <3>2. /\ ToClient' = Pop(wire, "client")["client"]
          /\ \/ ToServer' = Pop(wire, "client")["server"]
             \/ ToServer' = Append(Pop(wire, "client")["server"], AuthRequest(auth[last]))
      BY <1>3, <2>1, PushWire
    <3> QED
      BY <1>3, <3>1, <3>2, OneFrame DEF serverVars
  <2>3. UNCHANGED <<serverState, user, pubkeyChallenge, issued>>
    BY DEF serverVars
  <2>4. promise' # "resolved"
    BY <1>3 DEF ClientInv
  <2>5. OneToken' /\ ToClientInv' /\ PendingInv' /\ SigningInv'
    <3>1. Len(ToServer') <= 1 /\ Len(ToClient') <= 1
      BY <2>2, OneFrame
    <3> QED
      BY <2>2, <3>1 DEF OneToken, ToClientInv, PendingInv, SigningInv
  <2>6. ToServerInv'
    BY <1>3, <2>2, <2>3 DEF ToServerInv, AuthRequest
  <2>7. ServerInv' /\ ClientInv'
    BY <1>3, <2>2, <2>3, <2>4 DEF ServerInv, ClientInv, Agreement
  <2> QED
    BY <2>5, <2>6, <2>7
<1> QED
  BY <1>1, <1>2, <1>3 DEF Authenticate, TryNext, Usable, Rejection

\* The handshake ends on the client's side.
LEMMA ActivateKeeps ==
  ASSUME IInv, Deliverable("client"), clientState \in {"BeforeWelcome", "Auth"},
         serverState = "Active", NEW t, user = t \/ t = "", Activate(t),
         UNCHANGED <<serverVars, signing>>
  PROVE  TokenInv'
<1> USE DEF IInv, TokenInv
<1>1. /\ ToClient' = Tail(ToClient) /\ ToServer' = ToServer
      /\ clientState' = "Active" /\ transportUser' = t
      /\ UNCHANGED <<serverState, user, pubkeyChallenge, pending, issued, signing>>
  BY ClientReads DEF Activate, ToClient, ToServer, serverVars
<1>2. \A i \in DOMAIN ToServer : ToServer[i].kind = "rpc"
  BY DEF ToServerInv
<1> QED
  BY <1>1, <1>2, ClientReads
  DEF OneToken, ToClientInv, ToServerInv, PendingInv, SigningInv, ServerInv, ClientInv, Agreement

\* Every step of the client.
LEMMA ClientKeeps ==
  ASSUME IInv, ClientNext \/ ClientCall, UNCHANGED serverVars
  PROVE  TokenInv'
<1>0. UNCHANGED <<serverState, user, pubkeyChallenge, pending, issued>>
  BY DEF serverVars
<1>1. CASE ClientWelcome
  <2>1. Received.kind = "welcome" /\ WelcomeInv(1) /\ Deliverable("client")
        /\ clientState = "BeforeWelcome" /\ UNCHANGED signing
    BY <1>1, ClientReads DEF ClientWelcome
  <2>2. Received.userId = options.userId
    BY <2>1, ClientReads DEF WelcomeInv
  <2>3. CASE Received.userId # NULL /\ Activate(Received.userId)
    <3>1. serverState = "Active" /\ user = Received.userId
      BY <2>1, <2>2, <2>3, ClientReads DEF WelcomeInv
    <3> QED
      BY <2>1, <2>3, <3>1, ActivateKeeps
  <2>4. CASE Received.userId = NULL /\ Authenticate(Received.auth)
    <3>1. serverState = "Auth"
      BY <2>1, <2>2, <2>4, ClientReads DEF WelcomeInv
    <3> QED
      BY <2>1, <2>4, <3>1, AuthenticateKeeps
  <2> QED
    BY <1>1, <2>3, <2>4 DEF ClientWelcome
<1>2. CASE ClientNewerVersion
  BY <1>2, CatchKeeps DEF ClientNewerVersion, Connecting, Rejection
<1>3. CASE ClientAccepted
  <2>1. /\ Received.response.oneofKind = "userId" /\ AuthResponseInv(1)
        /\ Deliverable("client") /\ clientState = "Auth" /\ UNCHANGED signing
        /\ Activate(Received.response.value)
    BY <1>3, ClientReads DEF ClientAccepted, ClientAuthResponse
  <2>2. serverState = "Active" /\ (user = Received.response.value \/ Received.response.value = "")
    BY <2>1, ClientReads DEF AuthResponseInv
  <2> QED
    BY <2>1, <2>2, ActivateKeeps
<1>4. CASE ClientRefused
  <2>1. /\ Received.response.oneofKind = "error" /\ AuthResponseInv(1)
        /\ Deliverable("client") /\ clientState = "Auth" /\ UNCHANGED signing
        /\ Authenticate(authTypes)
    BY <1>4, ClientReads DEF ClientRefused, ClientAuthResponse
  <2>2. serverState \in {"Auth", "ProcessingAuth"}
    BY <2>1, ClientReads DEF AuthResponseInv
  <2> QED
    BY <2>1, <2>2, AuthenticateKeeps
<1>5. CASE ClientChallenged
  <2>1. /\ Received.response.oneofKind = "pubkeyChallenge" /\ AuthResponseInv(1)
        /\ Deliverable("client") /\ clientState = "Auth" /\ lastAuth' = lastAuth
    BY <1>5, ClientReads DEF ClientChallenged, ClientAuthResponse
  <2>2. serverState = "PubkeyChallenge" /\ Received.response.value = issued
    BY <2>1, ClientReads DEF AuthResponseInv
  <2>3. CASE (Catch("UnexpectedMessage") \/ Catch("SignThrew")) /\ UNCHANGED signing
    BY <2>1, <2>3, CatchKeeps DEF Connecting, Rejection
  <2>4. CASE /\ clientState' = "PubkeyChallenge" /\ promise' = promise
             /\ signing' = signing \cup
                  {[method |-> lastAuth, challenge |-> Received.response.value]}
             /\ wire' = Pop(wire, "client")
    <3>1. /\ ToClient' = <<>> /\ ToServer' = <<>> /\ pending' = {}
          /\ signing' = {[method |-> lastAuth, challenge |-> issued]}
      BY <1>0, <2>1, <2>2, <2>4, ClientReads DEF ToClient, ToServer
    <3>2. OneToken' /\ ToClientInv' /\ ToServerInv' /\ PendingInv'
      BY <3>1 DEF OneToken, ToClientInv, ToServerInv, PendingInv
    <3>3. SigningInv'
      BY <1>0, <2>2, <2>4, <3>1 DEF SigningInv, IInv, TokenInv, ServerInv
    <3>4. ServerInv' /\ ClientInv'
      BY <1>0, <2>1, <2>2, <2>4, <3>1
      DEF ServerInv, ClientInv, Agreement, IInv, TokenInv
    <3> QED
      BY <3>2, <3>3, <3>4 DEF TokenInv
  <2> QED
    BY <1>5, <2>3, <2>4 DEF ClientChallenged
<1>6. CASE ClientIgnored
  BY <1>6, ClientReads DEF ClientIgnored, ClientAuthResponse, AuthResponseInv
<1>7. CASE ClientSigned
  <2>1. PICK s \in signing :
          /\ signing' = signing \ {s}
          /\ wire' = Push(wire, "client", ChallengeResponse(s.method, s.challenge))
    BY <1>7 DEF ClientSigned
  <2>2. /\ serverState = "PubkeyChallenge" /\ s.method = pubkeyChallenge.validate
        /\ s.challenge = pubkeyChallenge.challenge /\ signing = {s}
    BY <2>1 DEF IInv, TokenInv, SigningInv
  <2>3. ToClient = <<>> /\ ToServer = <<>> /\ pending = {}
    BY <2>1, <2>2 DEF IInv, TokenInv, OneToken
  <2> DEFINE f == ChallengeResponse(s.method, s.challenge)
  <2>4. ToClient' = ToClient /\ (ToServer' = ToServer \/ ToServer' = Append(ToServer, f))
    BY <2>1, PushWire DEF ToClient, ToServer, IInv, TypeOK, SocketTypeOK, Frame
  <2>5. f.kind = "challengeResponse"
        /\ f.signature = [by |-> pubkeyChallenge.validate, over |-> pubkeyChallenge.challenge]
    BY <2>2 DEF ChallengeResponse
  <2> HIDE DEF f
  <2>6. /\ ToClient' = <<>> /\ pending' = {} /\ signing' = {}
        /\ ToServer' = <<>> \/ ToServer' = <<f>>
    BY <1>0, <2>1, <2>2, <2>3, <2>4, OneFrame
  <2>7. Len(ToServer') <= 1 /\ \A i \in DOMAIN ToServer' : ToServer'[i] = f
    BY <2>6, OneFrame
  <2>8. OneToken' /\ ToClientInv' /\ PendingInv' /\ SigningInv'
    BY <2>6, <2>7 DEF OneToken, ToClientInv, PendingInv, SigningInv
  <2>9. ToServerInv'
    BY <1>0, <1>7, <2>2, <2>5, <2>7 DEF ToServerInv, ClientSigned
  <2>10. ServerInv' /\ ClientInv'
    BY <1>0, <1>7, <2>2, <2>6
    DEF ClientSigned, ServerInv, ClientInv, Agreement, IInv, TokenInv
  <2> QED
    BY <2>8, <2>9, <2>10 DEF TokenInv
<1>8. CASE ClientSignFails
  BY <1>0, <1>8
  DEF ClientSignFails, sockVars, IInv, TokenInv, OneToken, ToClientInv, WelcomeInv,
      AuthResponseInv, ToServerInv, PendingInv, SigningInv, ServerInv, ClientInv, Agreement,
      ToClient, ToServer, Deaf, Verifies, serverVars
<1>9. CASE ClientBadMessage
  BY <1>9, ClientReads DEF ClientBadMessage, WelcomeInv, AuthResponseInv
<1>10. CASE ClientUnexpected
  BY <1>10, ClientReads DEF ClientUnexpected, WelcomeInv, AuthResponseInv
<1>11. CASE ClientDispatch
  <2>1. /\ ToClient' = Tail(ToClient) /\ ToServer' = ToServer
        /\ UNCHANGED <<clientState, promise, transportUser, lastAuth, signing, fin, ready>>
        /\ clientState = "Closed" \/ (clientState = "Active" /\ serverState = "Active")
    BY <1>11, ClientReads
    DEF ClientDispatch, clientVars, ToClient, ToServer, IInv, TokenInv, ClientInv, Agreement
  <2>2. serverState # "Active" => ToClient' = <<>> /\ ToServer' = <<>> /\ pending = {}
                                     /\ signing = {}
    BY <1>11, <2>1, ClientReads DEF ClientDispatch
  <2>3. ToClientInv'
    BY <1>0, <1>11, <2>1, ClientReads DEF ToClientInv, ClientDispatch
  <2>4. OneToken' /\ ToServerInv' /\ PendingInv' /\ SigningInv'
    BY <1>0, <2>1, <2>2
    DEF OneToken, ToServerInv, PendingInv, SigningInv, Verifies, IInv, TokenInv
  <2>5. ServerInv' /\ ClientInv'
    BY <1>0, <2>1 DEF ServerInv, ClientInv, Agreement, IInv, TokenInv, Deaf
  <2> QED
    BY <2>3, <2>4, <2>5 DEF TokenInv
<1>12. CASE ClientCall
  <2>1. /\ ToClient' = ToClient
        /\ ToServer' = ToServer \/ \E m \in RpcMessage : ToServer' = Append(ToServer, m)
    BY <1>12, PushWire DEF ClientCall, ToClient, ToServer, IInv, TypeOK, SocketTypeOK, Frame
  <2>2. /\ UNCHANGED <<clientState, promise, transportUser, lastAuth, signing, fin, ready>>
        /\ serverState = "Active" /\ clientState \in {"Active", "Closed"}
    BY <1>12 DEF ClientCall, clientVars, IInv, TokenInv, ClientInv
  <2>3. \A i \in DOMAIN ToServer : ToServer[i].kind = "rpc"
    BY <2>2 DEF IInv, TokenInv, ToServerInv
  <2>4. ToServer \in Seq(Frame)
    BY DEF ToServer, IInv, TypeOK, SocketTypeOK, Frame, Ends
  <2>5. \A i \in DOMAIN ToServer' : ToServer'[i].kind = "rpc"
    BY <2>1, <2>3, <2>4, FrameTypes
  <2>6. ToServerInv' /\ ToClientInv'
    BY <1>0, <2>1, <2>2, <2>5
    DEF ToServerInv, ToClientInv, WelcomeInv, AuthResponseInv, Deaf, IInv, TokenInv, serverVars
  <2>7. pending = {} /\ signing = {}
    BY <2>2 DEF IInv, TokenInv, ServerInv
  <2>8. OneToken' /\ PendingInv' /\ SigningInv'
    BY <1>0, <2>2, <2>7 DEF OneToken, PendingInv, SigningInv
  <2>9. ServerInv' /\ ClientInv'
    BY <1>0, <2>1, <2>2, <2>7 DEF ServerInv, ClientInv, Agreement, IInv, TokenInv, Deaf
  <2> QED
    BY <2>6, <2>8, <2>9 DEF TokenInv
<1>13. CASE ClientOnClose
  <2>1. /\ ToClient' = <<>> /\ ToClient = <<>> /\ ToServer' = ToServer /\ clientState' = "Closed"
        /\ promise' = "resolved" => promise = "resolved"
        /\ UNCHANGED <<lastAuth, signing>>
    BY <1>13 DEF ClientOnClose, CloseEvent, ToClient, ToServer, Settle
  <2>2. ToClientInv' /\ ToServerInv'
    BY <1>0, <2>1 DEF ToClientInv, ToServerInv, IInv, TokenInv
  <2>3. OneToken' /\ PendingInv' /\ SigningInv'
    BY <1>0, <2>1 DEF OneToken, PendingInv, SigningInv, Verifies, IInv, TokenInv
  <2>4. ServerInv' /\ ClientInv'
    BY <1>0, <2>1 DEF ServerInv, ClientInv, Agreement, IInv, TokenInv
  <2> QED
    BY <2>2, <2>3, <2>4 DEF TokenInv
<1> QED
  BY <1>1, <1>2, <1>3, <1>4, <1>5, <1>6, <1>7, <1>8, <1>9, <1>10, <1>11, <1>12, <1>13
  DEF ClientNext, ClientReceive

(* The server's steps.                                                      *)

\* The answer to an auth request: the token goes from the application's
\* callback to the wire.
LEMMA RespondKeeps ==
  ASSUME IInv, NEW p \in pending, pending' = pending \ {p}, UNCHANGED clientVars,
         NEW state \in {"Auth", "ProcessingAuth", "PubkeyChallenge", "Active"},
         NEW oneof, NEW v, Respond(state, oneof, v),
         \/ oneof = "userId" /\ state = "Active" /\ (user' = v \/ v = "")
         \/ oneof = "error" /\ state \in {"Auth", "ProcessingAuth"}
         \/ /\ oneof = "pubkeyChallenge" /\ state = "PubkeyChallenge" /\ v = issued'
            /\ pubkeyChallenge' = [challenge |-> issued', validate |-> lastAuth]
  PROVE  TokenInv'
<1> USE DEF IInv, TokenInv
<1>1. /\ serverState = "ProcessingAuth" /\ clientState \in {"Auth", "Closed"}
      /\ pending' = {} /\ signing = {} /\ ToClient = <<>> /\ ToServer = <<>>
  BY DEF PendingInv, OneToken
<1>2. /\ UNCHANGED <<clientState, lastAuth, promise, signing>> /\ promise # "resolved"
      /\ UNCHANGED <<ready, fin>> /\ serverState' = state
  BY <1>1 DEF clientVars, Respond, ClientInv
<1> DEFINE f == AuthResponse(oneof, v)
<1>3. /\ ToServer' = <<>>
      /\ \/ ToClient' = Append(ToClient, f)
         \/ ToClient' = ToClient /\ (ready["server"] # "open" \/ fin["client"])
  BY <1>1, PushWire DEF Respond, ToClient, ToServer, TypeOK, SocketTypeOK, Frame
<1>4. f.kind = "authResponse" /\ f.response.oneofKind = oneof /\ f.response.value = v
  BY DEF AuthResponse
<1> HIDE DEF f
<1>5. ToClient' = <<f>> \/ (ToClient' = <<>> /\ (ready["server"] # "open" \/ fin["client"]))
  BY <1>1, <1>3, OneFrame
<1>6. Len(ToClient') <= 1 /\ \A i \in DOMAIN ToClient' : i = 1 /\ ToClient'[i] = f
  BY <1>5, OneFrame
<1>7. ToClientInv'
  BY <1>1, <1>2, <1>4, <1>6 DEF ToClientInv, AuthResponseInv
<1>8. OneToken' /\ ToServerInv' /\ PendingInv' /\ SigningInv'
  <2>1. ToServer' = <<>> /\ Len(ToServer') <= 1
    BY <1>3, OneFrame
  <2>2. pending' = {} /\ signing' = {}
    BY <1>1, <1>2
  <2>3. OneToken' /\ PendingInv' /\ SigningInv'
    BY <1>6, <2>1, <2>2 DEF OneToken, PendingInv, SigningInv
  <2>4. ToServerInv'
    BY <2>1, NothingToServer
  <2> QED
    BY <2>3, <2>4
<1>9. ToClient' # <<>> \/ ready["server"] # "open" \/ fin["client"]
  BY <1>5, OneFrame
<1>10. ServerInv' /\ ClientInv'
  BY <1>1, <1>2, <1>9 DEF ServerInv, ClientInv, Agreement
<1> QED
  BY <1>7, <1>8, <1>10

\* A handler takes a credential off the wire and passes it to the application.
LEMMA CallKeeps ==
  ASSUME IInv, Deliverable("server"), UNCHANGED clientVars,
         serverState \in {"Auth", "PubkeyChallenge"}, clientState \in {"Auth", "Closed"},
         wire' = Pop(wire, "server"), serverState' = "ProcessingAuth",
         UNCHANGED issued, NEW p, pending' = pending \cup {p},
         IF p.call = "handleAuthRequest"
           THEN p.request = lastAuth
           ELSE Verifies(p) /\ p.challenge = issued
  PROVE  TokenInv'
<1>1. /\ ToClient' = <<>> /\ ToServer' = <<>> /\ pending' = {p} /\ signing' = {}
  BY ServerReads DEF ToClient, ToServer, clientVars
<1>2. /\ UNCHANGED <<clientState, lastAuth, promise>> /\ promise # "resolved"
      /\ clientState # "Active"
  BY DEF clientVars, IInv, TokenInv, ClientInv
<1>3. OneToken' /\ ToClientInv' /\ ToServerInv' /\ SigningInv'
  BY <1>1 DEF OneToken, ToClientInv, ToServerInv, SigningInv
<1>4. PendingInv'
  BY <1>1, <1>2 DEF PendingInv, Verifies
<1>5. ServerInv' /\ ClientInv'
  BY <1>1, <1>2 DEF ServerInv, ClientInv, Agreement
<1> QED
  BY <1>3, <1>4, <1>5 DEF TokenInv

\* Every step of the server.
LEMMA ServerKeeps ==
  ASSUME IInv, ServerNext \/ ServerSend, UNCHANGED clientVars
  PROVE  TokenInv'
<1>0. UNCHANGED <<clientState, lastAuth, promise, transportUser, signing>>
  BY DEF clientVars
<1>1. CASE ServerAuthRequest
  <2>1. /\ serverState = "Auth" /\ clientState \in {"Auth", "Closed"}
        /\ Arrived.request = lastAuth /\ Deliverable("server")
    BY <1>1, ServerReads DEF ServerAuthRequest
  <2> QED
    BY <1>1, <2>1, CallKeeps DEF ServerAuthRequest
<1>2. CASE ServerChallengeResponse
  <2>1. /\ serverState = "PubkeyChallenge" /\ clientState \in {"Auth", "Closed"}
        /\ Arrived.signature =
             [by |-> pubkeyChallenge.validate, over |-> pubkeyChallenge.challenge]
        /\ pubkeyChallenge.challenge = issued /\ Deliverable("server")
    BY <1>2, ServerReads DEF ServerChallengeResponse, IInv, TokenInv, ServerInv
  <2> DEFINE p == [call |-> "validate", validate |-> pubkeyChallenge.validate,
                   challenge |-> pubkeyChallenge.challenge, signature |-> Arrived.signature]
  <2>2. p.call # "handleAuthRequest" /\ Verifies(p) /\ p.challenge = issued
    BY <2>1 DEF Verifies
  <2>3. pending' = pending \cup {p}
    BY <1>2 DEF ServerChallengeResponse
  <2> HIDE DEF p
  <2> QED
    BY <1>2, <2>1, <2>2, <2>3, CallKeeps DEF ServerChallengeResponse
<1>3. CASE ServerBadMessage
  BY <1>3, ServerReads DEF ServerBadMessage
<1>4. CASE ServerUnexpected
  <2>1. /\ ToClient' = <<>> /\ ToServer' = <<>> /\ pending' = {} /\ signing' = {}
        /\ serverState = "ProcessingAuth" /\ serverState' = serverState
    BY <1>0, <1>4, ServerReads
    DEF ServerUnexpected, ServerThrow, ToClient, ToServer, serverVars
  <2> QED
    BY <1>0, <2>1, NoToken DEF TokenInv, ServerInv, ClientInv, Agreement, IInv
<1>5. ASSUME ServerDispatch \/ ServerSend, ServerInv', ToClientInv', ToServerInv'
      PROVE  TokenInv'
  <2>1. /\ serverState = "Active" /\ UNCHANGED <<serverState, user, pending>>
    BY <1>5 DEF ServerDispatch, ServerSend, serverVars
  <2>2. pending = {} /\ signing = {}
    BY <2>1 DEF IInv, TokenInv, ServerInv
  <2>3. OneToken' /\ PendingInv' /\ SigningInv'
    BY <1>0, <2>1, <2>2 DEF OneToken, PendingInv, SigningInv
  <2>4. ToServer = <<>> => ToServer' = <<>>
    BY <1>5, PushWire
    DEF ServerDispatch, ServerSend, Deliverable, ToServer, IInv, TypeOK, SocketTypeOK, Frame
  <2>5. ClientInv'
    BY <1>0, <2>1, <2>2, <2>4 DEF ClientInv, Agreement, IInv, TokenInv
  <2> QED
    BY <1>5, <2>3, <2>5 DEF TokenInv
<1>6. CASE ServerDispatch
  <2>1. /\ ToServer' = Tail(ToServer) /\ ToClient' = ToClient
        /\ UNCHANGED <<serverVars, fin, ready>> /\ serverState = "Active"
    BY <1>6, ServerReads DEF ServerDispatch, ToClient, ToServer
  <2>2. ToServerInv'
    BY <1>6, <2>1, ServerReads DEF ToServerInv, ServerDispatch, serverVars
  <2>3. ToClientInv' /\ ServerInv'
    BY <1>0, <2>1
    DEF ToClientInv, WelcomeInv, AuthResponseInv, ServerInv, Deaf, IInv, TokenInv, serverVars
  <2> QED
    BY <1>5, <1>6, <2>2, <2>3
<1>7. CASE ServerSend
  <2>1. /\ ToServer' = ToServer /\ UNCHANGED <<serverVars, fin, ready>>
        /\ serverState = "Active"
        /\ \/ \E m \in RpcMessage : ToClient' = Append(ToClient, m)
           \/ ToClient' = ToClient
    BY <1>7, PushWire
    DEF ServerSend, ToClient, ToServer, IInv, TypeOK, SocketTypeOK, Frame
  <2>2. ToServerInv'
    BY <1>0, <2>1 DEF ToServerInv, IInv, TokenInv, serverVars
  <2>3. ToClient' # ToClient /\ ToClient = <<>> => clientState \in {"Active", "Closed"} \/ Deaf
    <3>1. wire' = wire \/ (ready["server"] = "open" /\ ~fin["client"])
      BY <1>7 DEF ServerSend, Push, Peer
    <3> QED
      BY <2>1, <3>1 DEF ServerInv, IInv, TokenInv, ToClient
  <2>4. ToClient \in Seq(Frame)
    BY DEF ToClient, IInv, TypeOK, SocketTypeOK, Frame, Ends
  <2>5. \A i \in DOMAIN ToClient' :
          \/ i \in DOMAIN ToClient /\ ToClient'[i] = ToClient[i]
          \/ /\ ToClient'[i].kind = "rpc"
             /\ i = 1 => clientState \in {"Active", "Closed"} \/ Deaf
    BY <2>1, <2>3, <2>4, FrameTypes
  <2>6. ToClientInv'
    <3>1. Deaf' = Deaf
      BY <2>1 DEF Deaf
    <3>2. ASSUME NEW i \in DOMAIN ToClient', i \in DOMAIN ToClient, ToClient'[i] = ToClient[i]
          PROVE  \/ ToClient'[i].kind = "welcome" /\ WelcomeInv(i)'
                 \/ ToClient'[i].kind = "authResponse" /\ AuthResponseInv(i)'
                 \/ /\ ToClient'[i].kind = "rpc"
                    /\ serverState' = "Active"
                    /\ i = 1 => clientState' \in {"Active", "Closed"} \/ Deaf'
      BY <1>0, <2>1, <3>1, <3>2
      DEF ToClientInv, WelcomeInv, AuthResponseInv, IInv, TokenInv, serverVars
    <3> QED
      BY <1>0, <2>1, <2>5, <3>1, <3>2 DEF ToClientInv, serverVars
  <2>7. ToClient # <<>> => ToClient' # <<>>
    BY <2>1, <2>4, FrameTypes
  <2>8. ServerInv'
    BY <1>0, <2>1, <2>7 DEF ServerInv, Deaf, IInv, TokenInv, serverVars
  <2> QED
    BY <1>5, <1>7, <2>2, <2>6, <2>8
<1>8. CASE ServerOnClose
  <2>1. /\ ToServer' = ToServer /\ ToClient' = ToClient /\ UNCHANGED serverVars
        /\ ready'["client"] = ready["client"] /\ fin'["client"] = TRUE
    BY <1>8 DEF ServerOnClose, CloseEvent, ToClient, ToServer, Ends, Peer, IInv, TypeOK, SocketTypeOK
  <2>2. ToServerInv' /\ ToClientInv'
    BY <1>0, <2>1
    DEF ToServerInv, ToClientInv, WelcomeInv, AuthResponseInv, Deaf, IInv, TokenInv, serverVars
  <2>3. OneToken' /\ PendingInv' /\ SigningInv'
    BY <1>0, <2>1 DEF OneToken, PendingInv, SigningInv, Verifies, IInv, TokenInv, serverVars
  <2>4. ServerInv' /\ ClientInv'
    BY <1>0, <2>1 DEF ServerInv, ClientInv, Agreement, IInv, TokenInv, serverVars
  <2> QED
    BY <2>2, <2>3, <2>4 DEF TokenInv
<1>9. ASSUME NEW p \in pending PROVE p.call = "handleAuthRequest" => p.request = lastAuth
  BY DEF PendingInv, IInv, TokenInv
<1>10. ASSUME NEW p \in pending, NEW id \in Users, ServerAccepts(p, id) PROVE TokenInv'
  BY <1>10, RespondKeeps DEF ServerAccepts, AuthReturns
<1>11. ASSUME NEW p \in pending, NEW id \in Users, ServerValidates(p, id) PROVE TokenInv'
  BY <1>11, RespondKeeps DEF ServerValidates, ValidateReturns
<1>12. ASSUME NEW p \in pending, ServerRefuses(p) PROVE TokenInv'
  BY <1>12, RespondKeeps DEF ServerRefuses, AuthReturns
<1>13. ASSUME NEW p \in pending, ServerChallenges(p) PROVE TokenInv'
  BY <1>9, <1>13, RespondKeeps DEF ServerChallenges, AuthReturns
<1>14. ASSUME NEW p \in pending, ServerRejects(p) PROVE TokenInv'
  BY <1>14, RespondKeeps DEF ServerRejects, ValidateReturns
<1>15. ASSUME NEW p \in pending, ServerValidateThrows(p) PROVE TokenInv'
  <2>1. serverState = "ProcessingAuth"
    BY DEF PendingInv, IInv, TokenInv
  <2> QED
    BY <1>15, <2>1, RespondKeeps DEF ServerValidateThrows, ValidateReturns
<1>16. CASE ServerReturn
  BY <1>10, <1>11, <1>12, <1>13, <1>14, <1>15, <1>16 DEF ServerReturn
<1> QED
  BY <1>1, <1>2, <1>3, <1>4, <1>6, <1>7, <1>8, <1>16 DEF ServerNext, ServerReceive

(* The connection's own steps.                                              *)

\* A step that takes frames away, from the front of the client's wire only if
\* the client is deaf, and otherwise closes ends.
LEMMA LossKeeps ==
  ASSUME IInv, UNCHANGED <<clientVars, serverVars>>,
         ToClient' \in Seq(Frame), ToServer' \in Seq(Frame),
         Len(ToClient') <= Len(ToClient), Len(ToServer') <= Len(ToServer),
         ToClientInv', ToServerInv',
         Deaf => Deaf', fin["client"] => fin'["client"],
         ready["server"] # "open" => ready'["server"] # "open",
         ToClient' # ToClient => Deaf' \/ fin'["client"]
  PROVE  TokenInv'
<1>0. UNCHANGED <<clientState, lastAuth, promise, transportUser, signing,
                  serverState, user, pubkeyChallenge, pending, issued>>
  BY DEF clientVars, serverVars
<1>1. ToClient \in Seq(Frame) /\ ToServer \in Seq(Frame)
  BY DEF IInv, TypeOK, SocketTypeOK, ToClient, ToServer, Ends, Frame
<1>2. /\ ToClient' # <<>> => ToClient # <<>>
      /\ ToServer' # <<>> => ToServer # <<>>
  BY <1>1, EmptySeq
<1>3. OneToken'
  BY <1>0, <1>1, <1>2 DEF OneToken, IInv, TokenInv
<1>4. PendingInv' /\ SigningInv'
  BY <1>0 DEF PendingInv, SigningInv, Verifies, IInv, TokenInv
<1>5. ServerInv'
  BY <1>0 DEF ServerInv, IInv, TokenInv
<1>6. ClientInv'
  BY <1>0, <1>2 DEF ClientInv, Agreement, IInv, TokenInv
<1> QED
  BY <1>3, <1>4, <1>5, <1>6 DEF TokenInv

LEMMA SocketKeeps ==
  ASSUME IInv, SocketStep, UNCHANGED <<clientVars, serverVars>>
  PROVE  TokenInv'
<1>0. UNCHANGED <<clientState, lastAuth, options, serverState, user, pubkeyChallenge, issued>>
  BY DEF clientVars, serverVars
<1>1. /\ wire \in [Ends -> Seq(Frame)] /\ wire' \in [Ends -> Seq(Frame)]
      /\ ToClient \in Seq(Frame) /\ ToServer \in Seq(Frame)
      /\ ToClient' \in Seq(Frame) /\ ToServer' \in Seq(Frame)
  BY SocketTypes DEF IInv, TypeOK, SocketTypeOK, ToClient, ToServer, Ends, Frame
\* What is left of a direction when its end is cut off.
<1>2. ASSUME Deaf => Deaf', Len(ToClient') <= Len(ToClient),
             \A i \in DOMAIN ToClient' : ToClient'[i] = ToClient[i]
      PROVE  ToClientInv'
  <2>1. ASSUME NEW i \in DOMAIN ToClient' PROVE i \in DOMAIN ToClient
    BY <1>1, <1>2
  <2>2. ASSUME NEW i \in DOMAIN ToClient', i \in DOMAIN ToClient, ToClient'[i] = ToClient[i]
        PROVE  \/ ToClient'[i].kind = "welcome" /\ WelcomeInv(i)'
               \/ ToClient'[i].kind = "authResponse" /\ AuthResponseInv(i)'
               \/ /\ ToClient'[i].kind = "rpc"
                  /\ serverState' = "Active"
                  /\ i = 1 => clientState' \in {"Active", "Closed"} \/ Deaf'
    BY <1>0, <1>2, <2>2 DEF ToClientInv, WelcomeInv, AuthResponseInv, IInv, TokenInv
  <2> QED
    BY <1>2, <2>1, <2>2 DEF ToClientInv
<1>3. ASSUME Len(ToServer') <= Len(ToServer),
             \A i \in DOMAIN ToServer' : ToServer'[i] = ToServer[i]
      PROVE  ToServerInv'
  <2>1. ASSUME NEW i \in DOMAIN ToServer' PROVE i \in DOMAIN ToServer
    BY <1>1, <1>3
  <2> QED
    BY <1>0, <1>3, <2>1 DEF ToServerInv, IInv, TokenInv
<1>4. CASE Discard("client")
  <2>1. /\ ToClient # <<>> /\ ToClient' = Tail(ToClient) /\ ToServer' = ToServer
        /\ Deaf /\ Deaf' /\ UNCHANGED <<fin, ready>>
    BY <1>1, <1>4 DEF Discard, Pop, Ends, ToClient, ToServer, Deaf
  <2>2. /\ Len(ToClient') <= Len(ToClient)
        /\ \A i \in DOMAIN ToClient' :
             i + 1 \in DOMAIN ToClient /\ ToClient'[i] = ToClient[i + 1] /\ i + 1 # 1
    BY <1>1, <2>1
  <2>3. ToClientInv'
    BY <1>0, <2>1, <2>2 DEF ToClientInv, WelcomeInv, AuthResponseInv, IInv, TokenInv
  <2>4. ToServerInv' /\ Len(ToServer') <= Len(ToServer)
    BY <1>1, <1>3, <2>1
  <2> QED
    BY <1>1, <2>1, <2>2, <2>3, <2>4, LossKeeps
<1>5. CASE Discard("server")
  <2>1. /\ ToServer # <<>> /\ ToServer' = Tail(ToServer) /\ ToClient' = ToClient
        /\ UNCHANGED <<fin, ready>> /\ Deaf' = Deaf
    BY <1>1, <1>5 DEF Discard, Pop, Ends, ToClient, ToServer, Deaf
  <2>2. /\ Len(ToServer') <= Len(ToServer) /\ Len(ToClient') <= Len(ToClient)
        /\ Len(ToServer') = Len(ToServer) - 1
        /\ \A i \in DOMAIN ToServer' :
             i + 1 \in DOMAIN ToServer /\ ToServer'[i] = ToServer[i + 1]
    BY <1>1, <2>1
  <2>3. ToClientInv'
    BY <1>2, <2>1, <2>2
  <2>4. ToServerInv'
    BY <1>0, <2>2 DEF ToServerInv, IInv, TokenInv
  <2> QED
    BY <1>1, <2>1, <2>2, <2>3, <2>4, LossKeeps
<1>6. CASE \E e \in Ends : UserClose(e)
  <2>1. /\ ToServer' = ToServer /\ ToClient' = ToClient
        /\ Deaf => Deaf'
        /\ fin["client"] => fin'["client"]
        /\ ready["server"] # "open" => ready'["server"] # "open"
    BY <1>6 DEF UserClose, CloseSocket, ToClient, ToServer, Ends, Peer, Deaf, IInv, TypeOK,
       SocketTypeOK
  <2>2. Len(ToServer') <= Len(ToServer) /\ Len(ToClient') <= Len(ToClient)
    BY <1>1, <2>1
  <2> QED
    BY <1>1, <1>2, <1>3, <2>1, <2>2, LossKeeps
<1>7. CASE Lose
  <2>1. PICK i \in 0..Len(ToClient), j \in 0..Len(ToServer) :
          ToClient' = SubSeq(ToClient, 1, i) /\ ToServer' = SubSeq(ToServer, 1, j)
    BY <1>7 DEF Lose, Ends, ToClient, ToServer
  <2>2. /\ Len(ToServer') <= Len(ToServer) /\ Len(ToClient') <= Len(ToClient)
        /\ \A k \in DOMAIN ToClient' : ToClient'[k] = ToClient[k]
        /\ \A k \in DOMAIN ToServer' : ToServer'[k] = ToServer[k]
    BY <1>1, <2>1, SubSeqProperties
  <2>3. fin'["client"] /\ UNCHANGED ready /\ Deaf' = Deaf
    BY <1>7 DEF Lose, Ends, Deaf
  <2> QED
    BY <1>1, <1>2, <1>3, <2>2, <2>3, LossKeeps
<1> QED
  BY <1>4, <1>5, <1>6, <1>7 DEF SocketStep, Ends

\* The welcome is the first token.
LEMMA TokenBegins ==
  ASSUME Init, TypeInv
  PROVE  IInv
<1> DEFINE f == SendWelcome
<1>1. /\ ToClient = <<f>> /\ ToServer = <<>> /\ pending = {} /\ signing = {}
      /\ clientState = "BeforeWelcome" /\ promise = "pending"
  BY DEF Init, ClientInit, ServerInit, SocketInit, ToClient, ToServer, Ends
<1>2. f.kind = "welcome" /\ f.userId = options.userId
  BY DEF SendWelcome, Welcome
<1>3. /\ serverState \in {"Auth", "Active"} /\ user = options.userId
      /\ serverState = "Active" <=> options.userId # NULL
  BY DEF Init, ServerInit
<1> HIDE DEF f
<1>4. Len(ToClient) <= 1 /\ Len(ToServer) <= 1 /\ ToClient # <<>>
      /\ \A i \in DOMAIN ToClient : i = 1 /\ ToClient[i] = f
  BY <1>1, OneFrame
<1>5. OneToken /\ PendingInv /\ SigningInv
  BY <1>1, <1>4 DEF OneToken, PendingInv, SigningInv
<1>6. ToClientInv
  BY <1>1, <1>2, <1>3, <1>4 DEF ToClientInv, WelcomeInv
<1>7. ToServerInv
  BY <1>1 DEF ToServerInv
<1>8. ServerInv /\ ClientInv
  BY <1>1, <1>3, <1>4 DEF ServerInv, ClientInv, Agreement
<1> QED
  BY <1>5, <1>6, <1>7, <1>8 DEF IInv, TokenInv, TypeInv

\* Every step hands the token on, or drops it with the connection.
LEMMA TokenKept ==
  ASSUME IInv, [Next]_vars
  PROVE  TokenInv'
<1>1. CASE ClientStep
  BY <1>1, ClientKeeps DEF ClientStep
<1>2. CASE ServerStep
  BY <1>2, ServerKeeps DEF ServerStep
<1>3. CASE Traffic
  BY <1>3, ClientKeeps, ServerKeeps DEF Traffic
<1>4. CASE SocketStep /\ UNCHANGED <<clientVars, serverVars>>
  BY <1>4, SocketKeeps
<1>5. CASE UNCHANGED vars
  <2>1. /\ UNCHANGED <<clientState, lastAuth, promise, transportUser, signing, options,
                      serverState, user, pubkeyChallenge, pending, issued, wire, fin, ready>>
        /\ ToClient' = ToClient /\ ToServer' = ToServer /\ Deaf' = Deaf
    BY <1>5 DEF vars, clientVars, serverVars, sockVars, ToClient, ToServer, Deaf
  <2>2. ToClientInv'
    <3>1. ASSUME NEW i
          PROVE  (WelcomeInv(i)' <=> WelcomeInv(i)) /\ (AuthResponseInv(i)' <=> AuthResponseInv(i))
      BY <2>1 DEF WelcomeInv, AuthResponseInv
    <3> QED
      BY <2>1, <3>1 DEF ToClientInv, IInv, TokenInv
  <2>3. OneToken' /\ ToServerInv' /\ PendingInv' /\ SigningInv'
    BY <2>1 DEF OneToken, ToServerInv, PendingInv, SigningInv, Verifies, IInv, TokenInv
  <2>4. ServerInv' /\ ClientInv'
    BY <2>1 DEF ServerInv, ClientInv, Agreement, IInv, TokenInv
  <2> QED
    BY <2>2, <2>3, <2>4 DEF TokenInv
<1> QED
  BY <1>1, <1>2, <1>3, <1>4, <1>5 DEF Next

(***************************************************************************)
(* The inductive invariant holds: until the server is active the handshake *)
(* is one token, whatever the configurations, the callbacks, the signer,   *)
(* the losses and the adapter do.                                          *)
(***************************************************************************)
THEOREM Invariant == Spec => []IInv
<1>1. Init => TypeInv /\ IInv
  BY TypesBegin, TokenBegins
<1>2. TypeInv /\ IInv /\ [Next]_vars => TypeInv' /\ IInv'
  BY TypesKept, TokenKept DEF TypeInv, IInv
<1> QED
  BY <1>1, <1>2, PTL DEF Spec

(***************************************************************************)
(* A client that believes it is logged in is, as the user it was told      *)
(* (client.ts:475-479, server.ts:493-501, 523-526).                        *)
(***************************************************************************)
THEOREM AgreementHolds == Spec => []Agreement
<1>1. IInv => Agreement
  BY DEF IInv, TokenInv, ClientInv
<1> QED
  BY <1>1, Invariant, PTL

\* The frame that is next at either end is one its state decodes.
LEMMA ReadsInStep ==
  ASSUME IInv
  PROVE  InStep
<1>1. Deliverable("client") =>
        \/ clientState = "BeforeWelcome" /\ Received.kind = "welcome"
        \/ clientState = "Auth" /\ Received.kind = "authResponse"
        \/ clientState = "Active" /\ Received.kind = "rpc"
        \/ clientState = "Closed"
  BY ClientReads DEF WelcomeInv, AuthResponseInv
<1>2. Deliverable("server") =>
        \/ serverState \in {"Auth", "ProcessingAuth"} /\ Arrived.kind = "authRequest"
        \/ serverState = "PubkeyChallenge" /\ Arrived.kind = "challengeResponse"
        \/ serverState = "Active" /\ Arrived.kind = "rpc"
  BY ServerReads
<1> QED
  BY <1>1, <1>2 DEF InStep

(***************************************************************************)
(* Frames carry no type, and every frame that is delivered has the one the *)
(* reader's state decodes (client.ts:455, server.ts:489).                  *)
(***************************************************************************)
THEOREM InStepHolds == Spec => []InStep
<1>1. IInv => InStep
  BY ReadsInStep
<1> QED
  BY <1>1, Invariant, PTL

(***************************************************************************)
(* The server only ever validates the client's own, current signature      *)
(* (client.ts:483, server.ts:515-522).                                     *)
(***************************************************************************)
THEOREM SignatureMatchesHolds == Spec => []SignatureMatches
<1>1. IInv => SignatureMatches
  BY DEF IInv, TokenInv, PendingInv, SignatureMatches
<1> QED
  BY <1>1, Invariant, PTL

-----------------------------------------------------------------------------
(* What the client tried.                                                   *)

\* The entries the client reports as refused are the first it presented.
Reported(types) ==
  \A k \in 1..Len(authFailures) : authFailures[k].method = Nth(types, k)

(***************************************************************************)
(* An entry is refused, presented, or left; it is presented when those     *)
(* before it were refused.  A signer that settles late sets a closed       *)
(* client back to Auth, so this holds for as long as one is under way.     *)
(***************************************************************************)
Tried ==
  /\ clientState = "BeforeWelcome" => auth = connectAuth /\ authFailures = <<>>
  /\ FromTheEnd(authTypes)
  /\ clientState \in {"Auth", "PubkeyChallenge"} \/ signing # {} =>
       /\ Len(authFailures) + 1 + Len(Left(authTypes)) = Len(All(authTypes))
       /\ lastAuth = Nth(authTypes, Len(authFailures) + 1)
       /\ Reported(authTypes)
  /\ promise = "AuthenticationFailed" =>
       /\ clientState = "Closed" /\ signing = {}
       /\ Len(authFailures) = Len(All(authTypes))
       /\ Reported(authTypes)

\* authenticate() takes the next entry, or reports that all were refused.
LEMMA AuthenticateTries ==
  ASSUME ClientTypeOK, NEW types, authTypes' = types, UNCHANGED <<connectAuth, signing>>,
         Authenticate(types), FromTheEnd(types), signing = {},
         clientState \in Connecting, promise # "AuthenticationFailed",
         Len(authFailures') \in Nat,
         Len(authFailures') + Len(Left(types)) = Len(All(types)),
         \A k \in 1..Len(authFailures') : authFailures'[k].method = Nth(types, k)
  PROVE  Tried'
<1>0. /\ Len(Left(types)) \in Nat /\ Len(All(types)) \in Nat
      /\ All(types)' = All(types) /\ All(authTypes)' = All(types)
      /\ Left(authTypes)' = Left(types)'
  BY Entries DEF All, Left, NotOffered
<1>1. Reported(authTypes)'
  BY <1>0 DEF Reported, Nth
<1>2. FromTheEnd(authTypes)' <=> FromTheEnd(types)'
  BY <1>0 DEF FromTheEnd
<1>3. CASE TryNext(types)
  <2>1. PICK last \in Usable(types) :
          /\ \A i \in Usable(types) : i <= last
          /\ lastAuth' = auth[last]
          /\ auth' = SubSeq(auth, 1, last - 1)
          /\ \/ clientState' = "Auth" /\ promise' = promise
             \/ Catch("SendFailed")
    BY <1>3 DEF TryNext
  <2>2. /\ Len(Left(types)') = Len(Left(types)) - 1 /\ Len(Left(types)) >= 1
        /\ auth[last] = All(types)[Len(Left(types))] /\ FromTheEnd(types)'
    BY <2>1, PresentsLast
  <2>3. lastAuth' = Nth(authTypes, Len(authFailures) + 1)'
    <3>1. Len(All(types)) + 1 - (Len(authFailures') + 1) = Len(Left(types))
      BY <1>0
    <3> QED
      BY <1>0, <2>1, <2>2, <3>1 DEF Nth
  <2>4. Len(authFailures') + 1 + Len(Left(authTypes)') = Len(All(authTypes)')
    BY <1>0, <2>2
  <2>5. clientState' \in {"Auth", "Closed"} /\ promise' # "AuthenticationFailed"
    BY <2>1 DEF Catch, Settle
  <2> QED
    BY <1>1, <1>2, <2>2, <2>3, <2>4, <2>5 DEF Tried
<1>4. CASE GiveUp(types)
  <2>1. auth' = <<>> /\ clientState' = "Closed" /\ Left(types) = <<>>
    BY <1>4, NoneLeft DEF GiveUp, Catch
  <2>2. Left(types)' = <<>>
    BY <2>1, WithoutEmpty DEF Left
  <2>3. FromTheEnd(types)'
    BY <1>0, <2>2 DEF FromTheEnd
  <2>4. Len(authFailures') = Len(All(authTypes)')
    BY <1>0, <2>1
  <2> QED
    BY <1>1, <1>2, <2>1, <2>3, <2>4 DEF Tried
<1> QED
  BY <1>3, <1>4 DEF Authenticate

\* A step that leaves the lists alone and presents nothing.
LEMMA TriedSame ==
  ASSUME Tried, UNCHANGED <<connectAuth, auth, authTypes, authFailures, lastAuth>>,
         clientState' = "BeforeWelcome" => clientState = "BeforeWelcome",
         clientState' \in {"Auth", "PubkeyChallenge"} \/ signing' # {} =>
           clientState \in {"Auth", "PubkeyChallenge"} \/ signing # {},
         promise' = "AuthenticationFailed" =>
           /\ promise = "AuthenticationFailed"
           /\ clientState' = "Closed" /\ signing' = {}
  PROVE  Tried'
<1>1. /\ All(authTypes)' = All(authTypes) /\ Left(authTypes)' = Left(authTypes)
      /\ \A k : Nth(authTypes, k)' = Nth(authTypes, k)
  BY DEF All, Left, Nth, NotOffered
<1>2. FromTheEnd(authTypes)' <=> FromTheEnd(authTypes)
  BY <1>1 DEF FromTheEnd
<1>3. Reported(authTypes)' <=> Reported(authTypes)
  BY <1>1 DEF Reported
<1>4. Nth(authTypes, Len(authFailures) + 1)' = Nth(authTypes, Len(authFailures) + 1)
  BY <1>1 DEF Nth
<1> QED
  BY <1>1, <1>2, <1>3, <1>4 DEF Tried

\* Every step of the client.
LEMMA ClientTries ==
  ASSUME IInv, Tried, ClientNext \/ ClientCall
  PROVE  Tried'
<1>0. ClientTypeOK
  BY DEF IInv, TypeOK
<1>1. ASSUME Deliverable("client"), clientState \in {"BeforeWelcome", "Auth"},
             serverState # "Active"
      PROVE  signing = {}
  BY <1>1, ClientReads
<1>2. CASE ClientWelcome /\ Authenticate(Received.auth)
  <2> DEFINE types == Received.auth
  <2>1. /\ Deliverable("client") /\ clientState = "BeforeWelcome"
        /\ authTypes' = types /\ Authenticate(types)
        /\ UNCHANGED <<connectAuth, authFailures, signing>>
    BY <1>2 DEF ClientWelcome
  <2>2. signing = {}
    BY <2>1 DEF IInv, TokenInv, ClientInv
  <2>3. auth = connectAuth /\ authFailures = <<>> /\ promise # "AuthenticationFailed"
    BY <2>1 DEF Tried
  <2> HIDE DEF types
  <2>4. Left(types) = All(types) /\ Len(All(types)) \in Nat
    BY <1>0, <2>3, Entries
  <2>5. FromTheEnd(types)
    BY <2>4 DEF FromTheEnd
  <2>6. /\ Len(authFailures') = 0
        /\ \A k \in 1..Len(authFailures') : authFailures'[k].method = Nth(types, k)
    BY <2>1, <2>3
  <2>7. Len(authFailures') + Len(Left(types)) = Len(All(types)) /\ Len(authFailures') \in Nat
    BY <2>4, <2>6
  <2> QED
    BY <1>0, <2>1, <2>2, <2>3, <2>5, <2>6, <2>7, AuthenticateTries DEF Connecting
<1>3. CASE ClientWelcome /\ Activate(Received.userId)
  <2>1. /\ clientState = "BeforeWelcome" /\ clientState' = "Active"
        /\ UNCHANGED <<connectAuth, auth, authFailures, signing>>
        /\ promise' \in {promise, "resolved"}
    BY <1>3 DEF ClientWelcome, Activate, Settle
  <2>2. auth = connectAuth /\ promise # "AuthenticationFailed" /\ signing = {}
    BY <2>1 DEF Tried, IInv, TokenInv, ClientInv
  <2>3. Left(authTypes)' = All(authTypes)'
    BY <2>1, <2>2 DEF Left, All
  <2>4. All(authTypes)' \in Seq(Auth)
    <3>1. connectAuth' \in Seq(Auth)
      BY <1>0, <2>1, Entries
    <3> QED
      BY <3>1, WithoutType DEF All
  <2>5. FromTheEnd(authTypes)'
    BY <2>3, <2>4 DEF FromTheEnd
  <2> QED
    BY <2>1, <2>2, <2>5 DEF Tried
<1>4. CASE ClientRefused
  <2>1. /\ Deliverable("client") /\ clientState = "Auth"
        /\ Received.kind = "authResponse" /\ Received.response.oneofKind = "error"
        /\ Authenticate(authTypes) /\ UNCHANGED <<connectAuth, authTypes, signing>>
        /\ authFailures' =
             Append(authFailures, [method |-> lastAuth, error |-> Received.response.value])
    BY <1>4 DEF ClientRefused, ClientAuthResponse
  <2>2. signing = {}
    <3>1. AuthResponseInv(1) /\ Received = ToClient[1]
      BY <2>1, ClientReads
    <3>2. serverState # "Active"
      BY <2>1, <3>1 DEF AuthResponseInv
    <3> QED
      BY <1>1, <2>1, <3>2
  <2>3. /\ Len(authFailures) + 1 + Len(Left(authTypes)) = Len(All(authTypes))
        /\ lastAuth = Nth(authTypes, Len(authFailures) + 1)
        /\ Reported(authTypes) /\ FromTheEnd(authTypes)
        /\ promise # "AuthenticationFailed"
    BY <2>1 DEF Tried
  <2> DEFINE e == [method |-> lastAuth, error |-> Received.response.value]
  <2>4. e.method = lastAuth
    OBVIOUS
  <2> HIDE DEF e
  <2>5. /\ Len(authFailures) \in Nat /\ Len(authFailures') = Len(authFailures) + 1
        /\ authFailures'[Len(authFailures) + 1] = e
        /\ \A k \in 1..Len(authFailures) : authFailures'[k] = authFailures[k]
    <3> DEFINE S == [method : Auth \cup {NULL}, error : AuthErrorCode]
    <3>1. authFailures \in Seq(S) /\ e \in S
      <4>1. Received \in Frame
        BY <2>1, PopFacts DEF Deliverable, Received, Ends, IInv, TypeOK, SocketTypeOK, Frame
      <4>2. Received.response.value \in AuthErrorCode
        BY <2>1, <4>1, FrameContents
      <4> QED
        BY <1>0, <4>2 DEF ClientTypeOK, e
    <3> HIDE DEF S
    <3>2. authFailures' = Append(authFailures, e)
      BY <2>1 DEF e
    <3> QED
      BY <3>1, <3>2, AppendProperties
  <2>6. \A k \in 1..Len(authFailures') : authFailures'[k].method = Nth(authTypes, k)
    BY <2>3, <2>4, <2>5 DEF Reported
  <2>7. Len(Left(authTypes)) \in Nat /\ Len(All(authTypes)) \in Nat
    BY <1>0, Entries
  <2>8. Len(authFailures') + Len(Left(authTypes)) = Len(All(authTypes)) /\ Len(authFailures') \in Nat
    BY <2>3, <2>5, <2>7
  <2>9. PICK types : types = authTypes
    OBVIOUS
  <2> QED
    BY <1>0, <2>1, <2>2, <2>3, <2>6, <2>8, <2>9, AuthenticateTries DEF Connecting
<1>5. ASSUME NEW reason \in Rejection \ {"AuthenticationFailed"}, Catch(reason),
             UNCHANGED <<connectAuth, auth, authTypes, authFailures, lastAuth, signing>>
      PROVE  Tried'
  <2>1. /\ clientState' \in {clientState, "Closed"} /\ clientState' # "BeforeWelcome"
        /\ promise' = "AuthenticationFailed" => promise = "AuthenticationFailed"
    BY <1>5 DEF Catch, Settle, Connecting
  <2>2. promise = "AuthenticationFailed" => clientState = "Closed" /\ signing = {}
    BY DEF Tried
  <2> QED
    BY <1>5, <2>1, <2>2, TriedSame
<1>6. CASE ClientNewerVersion
  BY <1>5, <1>6 DEF ClientNewerVersion, Rejection
<1>7. CASE ClientAccepted
  <2>1. /\ clientState = "Auth" /\ clientState' = "Active"
        /\ promise' \in {promise, "resolved"}
        /\ UNCHANGED <<connectAuth, auth, authTypes, authFailures, lastAuth, signing>>
    BY <1>7 DEF ClientAccepted, ClientAuthResponse, Activate, Settle
  <2>2. promise # "AuthenticationFailed"
    BY <2>1 DEF Tried
  <2> QED
    BY <2>1, <2>2, TriedSame
<1>8. CASE ClientChallenged
  <2>1. /\ clientState = "Auth"
        /\ UNCHANGED <<connectAuth, auth, authTypes, authFailures, lastAuth>>
    BY <1>8 DEF ClientChallenged, ClientAuthResponse
  <2>2. CASE (Catch("UnexpectedMessage") \/ Catch("SignThrew")) /\ UNCHANGED signing
    BY <1>5, <2>1, <2>2 DEF Rejection
  <2>3. CASE clientState' = "PubkeyChallenge" /\ promise' = promise
    <3>1. promise # "AuthenticationFailed"
      BY <2>1 DEF Tried
    <3> QED
      BY <2>1, <2>3, <3>1, TriedSame
  <2> QED
    BY <1>8, <2>2, <2>3 DEF ClientChallenged
<1>9. CASE ClientIgnored \/ ClientDispatch \/ ClientCall
  <2>1. UNCHANGED <<connectAuth, clientState, auth, authTypes, lastAuth, authFailures,
                    promise, signing>>
    BY <1>9 DEF ClientIgnored, ClientDispatch, ClientCall, clientVars
  <2> QED
    BY <2>1, TriedSame DEF Tried
<1>10. CASE ClientSigned \/ ClientSignFails
  <2>1. /\ signing # {} /\ clientState' \in {"Auth", clientState}
        /\ UNCHANGED <<connectAuth, auth, authTypes, lastAuth, authFailures, promise>>
    BY <1>10 DEF ClientSigned, ClientSignFails
  <2>2. promise # "AuthenticationFailed"
    BY <2>1 DEF Tried
  <2> QED
    BY <2>1, <2>2, TriedSame
<1>11. CASE ClientBadMessage
  BY <1>5, <1>11 DEF ClientBadMessage, Rejection
<1>12. CASE ClientUnexpected
  BY <1>5, <1>12 DEF ClientUnexpected, Rejection
<1>13. CASE ClientOnClose
  <2>1. /\ clientState' = "Closed"
        /\ UNCHANGED <<connectAuth, auth, authTypes, lastAuth, authFailures, signing>>
        /\ promise' = "AuthenticationFailed" => promise = "AuthenticationFailed"
    BY <1>13 DEF ClientOnClose, Settle
  <2>2. promise = "AuthenticationFailed" => signing = {}
    BY DEF Tried
  <2> QED
    BY <2>1, <2>2, TriedSame
<1> QED
  BY <1>2, <1>3, <1>4, <1>6, <1>7, <1>8, <1>9, <1>10, <1>11, <1>12, <1>13
  DEF ClientNext, ClientReceive, ClientWelcome

\* The invariant of the client's attempts.
LEMMA TriedHolds == Spec => []Tried
<1>1. Init => Tried
  <2> SUFFICES ASSUME Init PROVE Tried
    OBVIOUS
  <2>1. /\ clientState = "BeforeWelcome" /\ auth = connectAuth /\ authFailures = <<>>
        /\ promise = "pending" /\ signing = {} /\ connectAuth \in AuthLists
    BY DEF Init, ClientInit
  <2>2. connectAuth \in Seq(Auth)
    BY <2>1, AuthListsAssumption
  <2>3. All(authTypes) \in Seq(Auth) /\ Left(authTypes) = All(authTypes)
    BY <2>1, <2>2, WithoutType DEF All, Left
  <2>4. FromTheEnd(authTypes)
    BY <2>3 DEF FromTheEnd
  <2> QED
    BY <2>1, <2>4 DEF Tried
<1>2. IInv /\ Tried /\ [Next]_vars => Tried'
  <2> SUFFICES ASSUME IInv, Tried, [Next]_vars PROVE Tried'
    OBVIOUS
  <2>1. CASE ClientNext \/ ClientCall
    BY <2>1, ClientTries
  <2>2. CASE UNCHANGED clientVars
    <3>1. UNCHANGED <<connectAuth, clientState, auth, authTypes, lastAuth, authFailures,
                      promise, signing>>
      BY <2>2 DEF clientVars
    <3> QED
      BY <3>1, TriedSame DEF Tried
  <2> QED
    BY <2>1, <2>2 DEF Next, ClientStep, ServerStep, Traffic, vars
<1> QED
  BY <1>1, <1>2, Invariant, PTL DEF Spec

(***************************************************************************)
(* connectSockRpc fails for want of credentials only when every entry of   *)
(* an offered mode was refused once, in order, and it reports exactly      *)
(* these (client.ts:414-452).                                              *)
(***************************************************************************)
THEOREM AllTriedHolds == Spec => []AllTried
<1>1. IInv /\ Tried => AllTried
  <2> SUFFICES ASSUME IInv, Tried, promise = "AuthenticationFailed"
               PROVE  [i \in DOMAIN authFailures |-> authFailures[i].method] = Candidates
    BY DEF AllTried
  <2>1. ClientTypeOK
    BY DEF IInv, TypeOK
  <2>2. Len(authFailures) = Len(All(authTypes)) /\ Reported(authTypes)
    BY DEF Tried
  <2>3. DOMAIN authFailures = 1..Len(authFailures)
    BY <2>1 DEF ClientTypeOK
  <2>4. Len(All(authTypes)) \in Nat
    BY <2>1, Entries
  <2>5. Candidates = [k \in 1..Len(All(authTypes)) |->
                        All(authTypes)[(Len(All(authTypes)) - k) + 1]]
    BY DEF Candidates, Reverse, All
  <2>6. \A k \in 1..Len(All(authTypes)) :
          authFailures[k].method = All(authTypes)[(Len(All(authTypes)) - k) + 1]
    <3>1. \A k \in 1..Len(All(authTypes)) :
            (Len(All(authTypes)) - k) + 1 = Len(All(authTypes)) + 1 - k
      BY <2>4
    <3> QED
      BY <2>2, <3>1 DEF Reported, Nth
  <2> QED
    BY <2>2, <2>3, <2>5, <2>6
<1> QED
  BY <1>1, Invariant, TriedHolds, PTL

-----------------------------------------------------------------------------
(* The mode of the entry a connection is active by.                         *)

\* The server has a callback for the entry presented last.
LastOffered == lastAuth # NULL /\ lastAuth.auth \in options.modes

\* A challenge is only sent, and a signature only checked, for such an entry,
\* and while it is, the client presents no other.
ByOfferedMode ==
  /\ serverState = "PubkeyChallenge" => LastOffered
  /\ \A p \in pending : p.call = "validate" => LastOffered
  /\ ActiveByOfferedMode

\* The client presents another entry only after a refusal, or first of all.
LEMMA PresentsAfterRefusal ==
  ASSUME IInv, ClientNext \/ ClientCall, UNCHANGED serverVars
  PROVE  \/ lastAuth' = lastAuth
         \/ serverState \in {"Auth", "ProcessingAuth"} /\ pending = {}
<1>1. CASE ClientWelcome /\ Received.userId = NULL
  <2>1. WelcomeInv(1) /\ Received = ToClient[1] /\ Deliverable("client")
    BY <1>1, ClientReads DEF ClientWelcome
  <2>2. serverState = "Auth"
    BY <1>1, <2>1 DEF WelcomeInv
  <2> QED
    BY <2>1, <2>2, ClientReads
<1>2. CASE ClientWelcome /\ Activate(Received.userId)
  BY <1>2 DEF Activate
<1>3. CASE ClientRefused
  <2>1. /\ AuthResponseInv(1) /\ Received = ToClient[1] /\ Deliverable("client")
        /\ Received.response.oneofKind = "error"
    BY <1>3, ClientReads DEF ClientRefused, ClientAuthResponse
  <2>2. serverState \in {"Auth", "ProcessingAuth"}
    BY <2>1 DEF AuthResponseInv
  <2> QED
    BY <2>1, <2>2, ClientReads
<1>4. CASE ClientNewerVersion \/ ClientAccepted \/ ClientChallenged \/ ClientIgnored
           \/ ClientBadMessage \/ ClientUnexpected \/ ClientDispatch \/ ClientOnClose
           \/ ClientSigned \/ ClientSignFails \/ ClientCall
  BY <1>4
  DEF ClientNewerVersion, ClientAccepted, Activate, ClientChallenged, ClientIgnored,
      ClientBadMessage, ClientUnexpected, ClientDispatch, ClientOnClose, ClientSigned,
      ClientSignFails, ClientCall, clientVars
<1> QED
  BY <1>1, <1>2, <1>3, <1>4 DEF ClientNext, ClientReceive, ClientWelcome

\* Every step of the server.
LEMMA ServerByOfferedMode ==
  ASSUME IInv, ByOfferedMode, ServerNext \/ ServerSend, UNCHANGED clientVars
  PROVE  ByOfferedMode'
<1>0. lastAuth' = lastAuth
  BY DEF clientVars
<1>1. ASSUME NEW p \in pending
      PROVE  /\ p.call = "handleAuthRequest" => p.request = lastAuth
             /\ pending = {p} /\ serverState = "ProcessingAuth"
  BY DEF IInv, TokenInv, PendingInv
<1>2. ASSUME UNCHANGED serverVars PROVE ByOfferedMode'
  BY <1>0, <1>2 DEF serverVars, ByOfferedMode, ActiveByOfferedMode, LastOffered
<1>3. CASE ServerBadMessage \/ ServerUnexpected \/ ServerDispatch \/ ServerSend \/ ServerOnClose
  BY <1>2, <1>3
  DEF ServerBadMessage, ServerUnexpected, ServerThrow, ServerDispatch, ServerSend, ServerOnClose
<1>4. CASE ServerAuthRequest
  BY <1>0, <1>4 DEF ServerAuthRequest, ByOfferedMode, ActiveByOfferedMode, LastOffered
<1>5. CASE ServerChallengeResponse
  BY <1>0, <1>5 DEF ServerChallengeResponse, ByOfferedMode, ActiveByOfferedMode, LastOffered
<1>6. ASSUME NEW p \in pending, pending' = pending \ {p}, UNCHANGED options,
             serverState' \in {"Active", "PubkeyChallenge"} => LastOffered
      PROVE  ByOfferedMode'
  <2>1. pending' = {}
    BY <1>1, <1>6
  <2> QED
    BY <1>0, <1>6, <2>1 DEF ByOfferedMode, ActiveByOfferedMode, LastOffered
<1>7. ASSUME NEW p \in pending, NEW id \in Users, ServerAccepts(p, id) PROVE ByOfferedMode'
  <2>1. /\ pending' = pending \ {p} /\ UNCHANGED options
        /\ Supported(p.request) /\ p.request = lastAuth
    BY <1>1, <1>7 DEF ServerAccepts, AuthReturns, Respond
  <2> QED
    BY <1>6, <2>1 DEF Supported, LastOffered
<1>8. ASSUME NEW p \in pending, NEW id \in Users, ServerValidates(p, id) PROVE ByOfferedMode'
  <2>1. pending' = pending \ {p} /\ UNCHANGED options /\ p.call = "validate"
    BY <1>8 DEF ServerValidates, ValidateReturns, Respond
  <2> QED
    BY <1>6, <2>1 DEF ByOfferedMode
<1>9. ASSUME NEW p \in pending, ServerRefuses(p) PROVE ByOfferedMode'
  <2>1. pending' = pending \ {p} /\ UNCHANGED options /\ serverState' = "Auth"
    BY <1>9 DEF ServerRefuses, AuthReturns, Respond
  <2> QED
    BY <1>6, <2>1
<1>10. ASSUME NEW p \in pending, ServerChallenges(p) PROVE ByOfferedMode'
  <2>1. /\ pending' = pending \ {p} /\ UNCHANGED options
        /\ Supported(p.request) /\ p.request = lastAuth
    BY <1>1, <1>10 DEF ServerChallenges, AuthReturns, Respond
  <2> QED
    BY <1>6, <2>1 DEF Supported, LastOffered
<1>11. ASSUME NEW p \in pending, ServerRejects(p) PROVE ByOfferedMode'
  <2>1. pending' = pending \ {p} /\ UNCHANGED options /\ serverState' = "Auth"
    BY <1>11 DEF ServerRejects, ValidateReturns, Respond
  <2> QED
    BY <1>6, <2>1
<1>12. ASSUME NEW p \in pending, ServerValidateThrows(p) PROVE ByOfferedMode'
  <2>1. pending' = pending \ {p} /\ UNCHANGED options /\ p.call = "validate"
    BY <1>12 DEF ServerValidateThrows, ValidateReturns, Respond
  <2> QED
    BY <1>6, <2>1 DEF ByOfferedMode
<1>13. CASE ServerReturn
  BY <1>7, <1>8, <1>9, <1>10, <1>11, <1>12, <1>13 DEF ServerReturn
<1> QED
  BY <1>3, <1>4, <1>5, <1>13 DEF ServerNext, ServerReceive

(***************************************************************************)
(* A connection of a server that asks for authentication is active only by *)
(* an entry of a mode the server has a callback for (client.ts:417,        *)
(* server.ts:170-216).                                                     *)
(***************************************************************************)
THEOREM ActiveByOfferedModeHolds == Spec => []ActiveByOfferedMode
<1>1. Init => ByOfferedMode
  BY DEF Init, ServerInit, ByOfferedMode, ActiveByOfferedMode
<1>2. IInv /\ ByOfferedMode /\ [Next]_vars => ByOfferedMode'
  <2> SUFFICES ASSUME IInv, ByOfferedMode, [Next]_vars PROVE ByOfferedMode'
    OBVIOUS
  <2>1. CASE (ClientNext \/ ClientCall) /\ UNCHANGED serverVars
    <3>1. CASE lastAuth' = lastAuth
      BY <2>1, <3>1 DEF serverVars, ByOfferedMode, ActiveByOfferedMode, LastOffered
    <3>2. CASE serverState \in {"Auth", "ProcessingAuth"} /\ pending = {}
      BY <2>1, <3>2 DEF serverVars, ByOfferedMode, ActiveByOfferedMode
    <3> QED
      BY <2>1, <3>1, <3>2, PresentsAfterRefusal
  <2>2. CASE (ServerNext \/ ServerSend) /\ UNCHANGED clientVars
    BY <2>2, ServerByOfferedMode
  <2>3. CASE UNCHANGED <<clientVars, serverVars>>
    BY <2>3 DEF clientVars, serverVars, ByOfferedMode, ActiveByOfferedMode, LastOffered
  <2> QED
    BY <2>1, <2>2, <2>3 DEF Next, ClientStep, ServerStep, Traffic, vars
<1>3. ByOfferedMode => ActiveByOfferedMode
  BY DEF ByOfferedMode
<1> QED
  BY <1>1, <1>2, <1>3, Invariant, PTL DEF Spec

-----------------------------------------------------------------------------
(***************************************************************************)
(* Handshake implements Login, for all values of the constants.            *)
(*                                                                         *)
(* A step of Handshake is a Grant where a callback of the server's         *)
(* application returns a user ID, a Tell where the client makes its        *)
(* transport, a Reject where the promise is rejected, and a stutter        *)
(* everywhere else.  That a Tell is right, the user ID and the moment,     *)
(* follows from the inductive invariant above; that there is one Tell from *)
(* Told below.                                                             *)
(***************************************************************************)

\* A client that has been told stays out of the states in which it is.
Told ==
  transportUser # NULL => serverState = "Active" /\ clientState \in {"Active", "Closed"}

\* The abstract step, with the instance's definitions expanded.
LoginStep ==
  \/ /\ serverState # "Active" /\ serverState' = "Active"
     /\ user' \in Users \cup {NULL}
     /\ UNCHANGED <<transportUser, promise>>
  \/ /\ serverState = "Active" /\ serverState' = "Active"
     /\ transportUser = NULL /\ transportUser' \in {user, ""} \ {NULL}
     /\ promise' = IF promise = "pending" THEN "resolved" ELSE promise
     /\ UNCHANGED user
  \/ /\ promise = "pending" /\ promise' \in Rejection
     /\ UNCHANGED <<serverState, user, transportUser>>
  \/ /\ serverState = "Active" <=> serverState' = "Active"
     /\ UNCHANGED <<user, transportUser, promise>>

\* It is a step of Login.
LEMMA LoginStepIsOne == LoginStep => [L!Next]_(L!loginVars)
<1> SUFFICES ASSUME LoginStep PROVE [L!Next]_(L!loginVars)
  OBVIOUS
<1>1. ASSUME NEW p \in Rejection PROVE p \notin {"pending", "resolved"}
  BY DEF Rejection
<1> QED
  BY <1>1 DEF LoginStep, L!Next, L!Grant, L!Tell, L!Reject, L!loginVars

(* The client's steps.                                                      *)

\* An exception in the message handler rejects the promise, if it does
\* anything to it.
LEMMA CatchImplements ==
  ASSUME Told, clientState \in Connecting, NEW reason \in Rejection, Catch(reason),
         UNCHANGED <<serverState, user, transportUser>>
  PROVE  LoginStep /\ Told'
<1>1. transportUser = NULL
  BY DEF Told, Connecting
<1>2. promise' = IF promise = "pending" THEN reason ELSE promise
  BY DEF Catch, Settle
<1> QED
  BY <1>1, <1>2 DEF LoginStep, Told

\* The next entry is tried, or the promise is rejected.
LEMMA AuthenticateImplements ==
  ASSUME Told, clientState \in Connecting, NEW types, Authenticate(types),
         UNCHANGED <<serverState, user, transportUser>>
  PROVE  LoginStep /\ Told'
<1>1. ASSUME NEW reason \in Rejection, Catch(reason) PROVE LoginStep /\ Told'
  BY <1>1, CatchImplements
<1>2. CASE UNCHANGED promise
  BY <1>2 DEF LoginStep, Told, Connecting
<1> QED
  BY <1>1, <1>2 DEF Authenticate, TryNext, GiveUp, Rejection

\* The client makes its transport: it is told.
LEMMA ActivateImplements ==
  ASSUME Told, clientState \in Connecting, serverState = "Active", NEW t \in Users,
         user = t \/ t = "", Activate(t), UNCHANGED <<serverState, user>>
  PROVE  LoginStep /\ Told'
<1>1. transportUser = NULL /\ transportUser' = t /\ t # NULL
  BY UsersAssumption DEF Told, Connecting, Activate
<1>2. promise' = IF promise = "pending" THEN "resolved" ELSE promise
  BY DEF Activate, Settle
<1> QED
  BY <1>1, <1>2 DEF LoginStep, Told, Activate

\* Every step of the client.
LEMMA ClientImplements ==
  ASSUME IInv, Told, ClientNext \/ ClientCall, UNCHANGED serverVars
  PROVE  LoginStep /\ Told'
<1>0. UNCHANGED <<serverState, user>>
  BY DEF serverVars
<1>1. CASE ClientWelcome
  <2>1. /\ Received.kind = "welcome" /\ WelcomeInv(1) /\ clientState \in Connecting
        /\ Received.userId \in Users \cup {NULL}
    <3>1. Received.kind = "welcome" /\ WelcomeInv(1) /\ Received = ToClient[1]
      BY <1>1, ClientReads DEF ClientWelcome
    <3>2. ToClient[1].userId = options.userId /\ options.userId \in Users \cup {NULL}
      BY <3>1, ServerOptionsAssumption DEF WelcomeInv, IInv, TypeOK, ServerTypeOK
    <3> QED
      BY <1>1, <3>1, <3>2 DEF ClientWelcome, Connecting
  <2>2. CASE Received.userId # NULL /\ Activate(Received.userId)
    <3>1. serverState = "Active" /\ user = Received.userId
      BY <1>1, <2>1, <2>2, ClientReads DEF WelcomeInv, ClientWelcome
    <3> QED
      BY <1>0, <2>1, <2>2, <3>1, ActivateImplements
  <2>3. CASE Authenticate(Received.auth) /\ UNCHANGED transportUser
    BY <1>0, <2>1, <2>3, AuthenticateImplements
  <2> QED
    BY <1>1, <2>2, <2>3 DEF ClientWelcome
<1>2. CASE ClientAccepted
  <2>1. /\ Received.kind = "authResponse" /\ AuthResponseInv(1) /\ clientState \in Connecting
        /\ Received.response.oneofKind = "userId" /\ Activate(Received.response.value)
    BY <1>2, ClientReads DEF ClientAccepted, ClientAuthResponse, Connecting
  <2>2. /\ serverState = "Active" /\ Received.response.value \in Users
        /\ user = Received.response.value \/ Received.response.value = ""
    <3>1. Received = ToClient[1] /\ Received.response.oneofKind = "userId"
      BY <1>2, ClientReads DEF ClientAccepted, ClientAuthResponse
    <3>2. /\ serverState = "Active"
          /\ user = Received.response.value \/ Received.response.value = ""
      BY <2>1, <3>1 DEF AuthResponseInv
    <3>3. Received \in Frame
      <4>1. Deliverable("client") /\ wire \in [Ends -> Seq(Frame)]
        BY <1>2 DEF ClientAccepted, ClientAuthResponse, IInv, TypeOK, SocketTypeOK, Frame
      <4> QED
        BY <4>1 DEF Deliverable, Received, Ends
    <3> QED
      BY <2>1, <3>1, <3>2, <3>3, FrameContents
  <2> QED
    BY <1>0, <2>1, <2>2, ActivateImplements
<1>3. CASE ClientRefused
  BY <1>0, <1>3, AuthenticateImplements DEF ClientRefused, ClientAuthResponse, Connecting
<1>4. ASSUME NEW reason \in Rejection, Catch(reason), UNCHANGED transportUser
      PROVE  LoginStep /\ Told'
  <2>1. CASE clientState \in Connecting
    BY <1>0, <1>4, <2>1, CatchImplements
  <2>2. CASE clientState \notin Connecting
    BY <1>0, <1>4, <2>2 DEF Catch, LoginStep, Told
  <2> QED
    BY <2>1, <2>2
<1>5. CASE ClientNewerVersion \/ ClientBadMessage \/ ClientUnexpected
  BY <1>4, <1>5 DEF ClientNewerVersion, ClientBadMessage, ClientUnexpected, Rejection
<1>6. CASE ClientChallenged
  <2>1. CASE Catch("UnexpectedMessage") \/ Catch("SignThrew")
    BY <1>4, <1>6, <2>1 DEF ClientChallenged, Rejection
  <2>2. CASE clientState' = "PubkeyChallenge" /\ promise' = promise
    BY <1>0, <1>6, <2>2 DEF ClientChallenged, ClientAuthResponse, LoginStep, Told
  <2> QED
    BY <1>6, <2>1, <2>2 DEF ClientChallenged
<1>7. CASE ClientIgnored \/ ClientDispatch \/ ClientCall \/ ClientSignFails
  BY <1>0, <1>7
  DEF ClientIgnored, ClientDispatch, ClientCall, ClientSignFails, clientVars, LoginStep, Told
<1>8. CASE ClientSigned
  <2>1. signing # {}
    BY <1>8 DEF ClientSigned
  <2>2. transportUser = NULL
    BY <2>1 DEF IInv, TokenInv, SigningInv, Told
  <2> QED
    BY <1>0, <1>8, <2>2 DEF ClientSigned, LoginStep, Told
<1>9. CASE ClientOnClose
  <2>1. promise' = IF clientState \in Connecting /\ promise = "pending"
                     THEN "SocketClosed" ELSE promise
    BY <1>9 DEF ClientOnClose, Settle
  <2> QED
    BY <1>0, <1>9, <2>1 DEF ClientOnClose, LoginStep, Told, Rejection
<1> QED
  BY <1>1, <1>2, <1>3, <1>5, <1>6, <1>7, <1>8, <1>9 DEF ClientNext, ClientReceive

(* The server's steps.                                                      *)

\* Every step of the server.
LEMMA ServerImplements ==
  ASSUME IInv, Told, ServerNext \/ ServerSend, UNCHANGED clientVars
  PROVE  LoginStep /\ Told'
<1>0. UNCHANGED <<clientState, transportUser, promise>>
  BY DEF clientVars
<1>1. ASSUME NEW p \in pending, NEW id \in Users, ServerAccepts(p, id) \/ ServerValidates(p, id)
      PROVE  LoginStep /\ Told'
  <2>1. serverState # "Active" /\ transportUser = NULL
    BY DEF IInv, TokenInv, PendingInv, Told
  <2>2. serverState' = "Active" /\ user' \in Users \cup {NULL}
    BY <1>1 DEF ServerAccepts, ServerValidates, Respond, IInv, TypeOK, ServerTypeOK
  <2> QED
    BY <1>0, <2>1, <2>2 DEF LoginStep, Told
<1>2. ASSUME NEW p \in pending,
             ServerRefuses(p) \/ ServerChallenges(p) \/ ServerRejects(p) \/ ServerValidateThrows(p)
      PROVE  LoginStep /\ Told'
  <2>1. serverState # "Active" /\ transportUser = NULL
    BY DEF IInv, TokenInv, PendingInv, Told
  <2>2. serverState' # "Active" /\ UNCHANGED user
    BY <1>2, <2>1
    DEF ServerRefuses, ServerChallenges, ServerRejects, ServerValidateThrows, Respond
  <2> QED
    BY <1>0, <2>1, <2>2 DEF LoginStep, Told
<1>3. CASE ServerReceive \/ ServerSend
  <2>1. UNCHANGED user /\ (serverState = "Active" <=> serverState' = "Active")
    BY <1>3
    DEF ServerReceive, ServerSend, ServerAuthRequest, ServerChallengeResponse, ServerBadMessage,
        ServerUnexpected, ServerDispatch, ServerOnClose, ServerThrow, serverVars
  <2> QED
    BY <1>0, <2>1 DEF LoginStep, Told
<1> QED
  BY <1>1, <1>2, <1>3 DEF ServerNext, ServerReturn

(***************************************************************************)
(* The handshake implements its abstract specification: a grant is for     *)
(* good, the client is told once, what was granted, and the caller's       *)
(* promise is resolved then or not at all (client.ts:402-541,              *)
(* server.ts:487-545).                                                     *)
(***************************************************************************)
THEOREM LoginImplemented == Spec => ImplementsLogin
<1>1. Init => L!Init /\ Told
  <2> SUFFICES ASSUME Init PROVE L!Init /\ Told
    OBVIOUS
  <2>1. /\ serverState = IF options.userId # NULL THEN "Active" ELSE "Auth"
        /\ user = options.userId /\ user \in Users \cup {NULL}
    BY ServerOptionsAssumption DEF Init, ServerInit
  <2>2. promise = "pending" /\ transportUser = NULL
    BY DEF Init, ClientInit
  <2> QED
    BY <2>1, <2>2 DEF L!Init, Told
<1>2. IInv /\ Told /\ [Next]_vars => [L!Next]_(L!loginVars) /\ Told'
  <2> SUFFICES ASSUME IInv, Told, [Next]_vars PROVE LoginStep /\ Told'
    BY LoginStepIsOne
  <2>1. CASE ClientStep
    BY <2>1, ClientImplements DEF ClientStep
  <2>2. CASE ServerStep
    BY <2>2, ServerImplements DEF ServerStep
  <2>3. CASE Traffic
    BY <2>3, ClientImplements, ServerImplements DEF Traffic
  <2>4. CASE UNCHANGED <<clientVars, serverVars>>
    BY <2>4 DEF clientVars, serverVars, LoginStep, Told
  <2> QED
    BY <2>1, <2>2, <2>3, <2>4 DEF Next, vars
<1> QED
  BY <1>1, <1>2, Invariant, PTL DEF Spec, ImplementsLogin, L!Spec

-----------------------------------------------------------------------------
(***************************************************************************)
(* The handover to the calls, for Session.  Until the promise of           *)
(* connectSockRpc resolves no frame of a call is under way, and from then  *)
(* on no other: this is why neither layer ever sees a frame of the other.  *)
(***************************************************************************)
Quiet == {f \in Frame : f.kind # "rpc"}

\* What sign() settles with after the close event puts the client's state back
\* to "Auth", but by then nothing is delivered to it any more.
Connects ==
  /\ SocketTypeOK(Quiet)
  /\ promise # "resolved" /\ clientState # "Active"
  /\ clientState \in Connecting => promise = "pending" \/ ready["client"] = "closed"
  /\ clientState = "Closed" /\ signing # {} => ready["client"] = "closed"

Connected ==
  /\ SocketTypeOK(RpcMessage)
  /\ promise = "resolved"
  /\ clientState = "Closed" => ready["client"] = "closed"
  /\ transportUser # NULL /\ transportUser \in {user, ""}

\* What a step of end e does to the socket, besides its frames.
Moves(e) == UNCHANGED <<fin, ready>> \/ CloseSocket(e) \/ CloseEvent(e)

\* A frame of the handshake is alone in its direction.
LEMMA Alone ==
  ASSUME IInv, SocketTypeOK(Quiet)
  PROVE  /\ \A e \in Ends : wire[e] # <<>> => Tail(wire[e]) = <<>>
         /\ serverState = "Active" => wire["server"] = <<>>
         /\ wire["client"] # <<>> => signing = {}
<1>1. /\ ToClient \in Seq(Quiet) /\ ToServer \in Seq(Quiet)
      /\ ToClient = wire["client"] /\ ToServer = wire["server"]
  BY DEF SocketTypeOK, ToClient, ToServer, Ends
<1>2. \A i \in DOMAIN ToClient : ToClient[i].kind # "rpc"
  BY <1>1 DEF Quiet
<1>3. \A i \in DOMAIN ToServer : ToServer[i].kind # "rpc"
  BY <1>1 DEF Quiet
<1>4. \A i \in DOMAIN ToClient : i = 1
  BY <1>2 DEF IInv, TokenInv, ToClientInv, WelcomeInv, AuthResponseInv
<1>5. Len(ToClient) <= 1
  <2>1. ASSUME NEW s \in Seq(Quiet), \A i \in DOMAIN s : i = 1 PROVE Len(s) <= 1
    <3>1. Len(s) \in Nat /\ (Len(s) >= 2 => 2 \in DOMAIN s)
      OBVIOUS
    <3> QED
      BY <2>1, <3>1
  <2> QED
    BY <1>1, <1>4, <2>1
<1>6. serverState = "Active" => DOMAIN ToServer = {}
  BY <1>3 DEF IInv, TokenInv, ToServerInv
<1>7. serverState = "Active" => ToServer = <<>>
  <2>1. ASSUME NEW s \in Seq(Quiet), DOMAIN s = {} PROVE s = <<>>
    <3>1. Len(s) \in Nat /\ (Len(s) >= 1 => 1 \in DOMAIN s)
      OBVIOUS
    <3> QED
      BY <2>1, <3>1, EmptySeq
  <2> QED
    BY <1>1, <1>6, <2>1
<1>8. serverState # "Active" => Len(ToServer) <= 1
  BY DEF IInv, TokenInv, OneToken
<1>9. ASSUME NEW s \in Seq(Quiet), Len(s) <= 1, s # <<>> PROVE Tail(s) = <<>>
  BY <1>9
<1>10. ToClient # <<>> => signing = {}
  BY DEF IInv, TokenInv, OneToken, ServerInv
<1>11. /\ ToClient # <<>> => Tail(ToClient) = <<>>
       /\ ToServer # <<>> => Tail(ToServer) = <<>>
  BY <1>1, <1>5, <1>7, <1>8, <1>9
<1> QED
  BY <1>1, <1>7, <1>10, <1>11 DEF Ends

\* Taking a frame off the wire and sending one keep it quiet.
LEMMA QuietWires ==
  ASSUME SocketTypeOK(Quiet), NEW e \in Ends
  PROVE  /\ wire[e] # <<>> => Pop(wire, e) \in [Ends -> Seq(Quiet)]
         /\ \A f \in Quiet :
              /\ Push(wire, e, f) \in [Ends -> Seq(Quiet)]
              /\ wire[e] # <<>> => Push(Pop(wire, e), e, f) \in [Ends -> Seq(Quiet)]
<1>1. wire \in [Ends -> Seq(Quiet)]
  BY DEF SocketTypeOK
<1>2. wire[e] # <<>> => Pop(wire, e) \in [Ends -> Seq(Quiet)]
  BY <1>1, PopFacts
<1> QED
  BY <1>1, <1>2, PushFacts

\* The frames of the handshake are no frames of calls.
LEMMA QuietFrames ==
  /\ \A u \in Users : AuthResponse("userId", u) \in Quiet
  /\ \A c \in AuthErrorCode : AuthResponse("error", c) \in Quiet
  /\ \A n \in Nat : AuthResponse("pubkeyChallenge", n) \in Quiet
  /\ \A m \in Auth : AuthRequest(m) \in Quiet
  /\ \A m \in Auth, n \in Nat : ChallengeResponse(m, n) \in Quiet
  /\ \A u \in Users \cup {NULL}, m \in SUBSET AuthMode : Welcome(1, u, m) \in Quiet
  BY FrameTypes DEF Quiet, AuthResponse, AuthRequest, ChallengeResponse, Welcome

(* The client's steps.                                                      *)

LEMMA CatchConnects ==
  ASSUME IInv, Connects, Deliverable("client"), clientState \in Connecting,
         NEW reason \in Rejection, Catch(reason), UNCHANGED signing
  PROVE  Connects' /\ Moves("client")
<1>1. /\ wire' = Pop(wire, "client") /\ CloseSocket("client")
      /\ clientState' = "Closed"
      /\ promise' = IF promise = "pending" THEN reason ELSE promise
  BY DEF Catch, Settle
<1>2. "client" \in Ends /\ wire["client"] # <<>>
  BY DEF Ends, Deliverable
<1>3. SocketTypeOK(Quiet)'
  BY <1>1, <1>2, QuietWires, SocketTypes DEF Connects, SocketTypeOK
<1>4. signing' = {}
  BY <1>2, Alone DEF Connects
<1> QED
  BY <1>1, <1>3, <1>4 DEF Connects, Moves, Rejection, Connecting

LEMMA AuthenticateConnects ==
  ASSUME IInv, Connects, Deliverable("client"), clientState \in Connecting,
         NEW types, Authenticate(types), UNCHANGED signing
  PROVE  Connects' /\ Moves("client")
<1>1. ASSUME NEW reason \in Rejection, Catch(reason) PROVE Connects' /\ Moves("client")
  BY <1>1, CatchConnects
<1>2. ASSUME NEW last \in DOMAIN auth, clientState' = "Auth",
             wire' = Push(Pop(wire, "client"), "client", AuthRequest(auth[last])),
             UNCHANGED <<promise, fin, ready>>
      PROVE  Connects' /\ Moves("client")
  <2>1. auth[last] \in Auth
    BY DEF IInv, TypeOK, ClientTypeOK
  <2>2. SocketTypeOK(Quiet)'
    BY <1>2, <2>1, QuietFrames, QuietWires DEF Connects, SocketTypeOK, Deliverable, Ends
  <2> QED
    BY <1>2, <2>2 DEF Connects, Moves, Connecting
<1> QED
  BY <1>1, <1>2 DEF Authenticate, TryNext, GiveUp, Usable, Rejection

\* The promise resolves, and the wire is left to the calls.
LEMMA ActivateConnects ==
  ASSUME IInv, Connects, Deliverable("client"), clientState \in Connecting,
         serverState = "Active", NEW t \in Users, user = t \/ t = "", Activate(t),
         UNCHANGED serverVars
  PROVE  Connected' /\ Moves("client") /\ \A e \in Ends : wire'[e] = <<>>
<1>1. /\ wire' = Pop(wire, "client") /\ clientState' = "Active" /\ transportUser' = t
      /\ promise' = IF promise = "pending" THEN "resolved" ELSE promise
      /\ UNCHANGED <<fin, ready, user>>
  BY DEF Activate, Settle, serverVars
<1>2. promise' = "resolved"
  BY <1>1 DEF Connects, Deliverable
<1>3. /\ wire \in [Ends -> Seq(Quiet)] /\ wire["client"] # <<>>
      /\ Tail(wire["client"]) = <<>> /\ wire["server"] = <<>>
  BY Alone DEF Connects, SocketTypeOK, Deliverable, Ends
<1>4. wire' = [e \in Ends |-> <<>>]
  BY <1>1, <1>3 DEF Pop, Ends
<1>5. SocketTypeOK(RpcMessage)'
  <2>1. wire' \in [Ends -> Seq(RpcMessage)]
    BY <1>4, EmptySeq
  <2> QED
    BY <1>1, <2>1 DEF Connects, SocketTypeOK
<1>6. t # NULL
  BY UsersAssumption
<1> QED
  BY <1>1, <1>2, <1>4, <1>5, <1>6 DEF Connected, Moves

(***************************************************************************)
(* A step of the client goes on with the handshake or ends it, with        *)
(* nothing under way (client.ts:402-541).                                  *)
(***************************************************************************)
LEMMA ClientHandsOver ==
  ASSUME IInv, Connects, ClientNext, UNCHANGED serverVars
  PROVE  /\ Moves("client")
         /\ Connects' \/ (Connected' /\ \A e \in Ends : wire'[e] = <<>>)
<1>0. /\ "client" \in Ends
      /\ Deliverable("client") => wire["client"] # <<>>
  BY DEF Ends, Deliverable
<1>1. ASSUME Deliverable("client"), wire' = Pop(wire, "client"), UNCHANGED <<fin, ready, promise>>,
             clientState' \in Connecting => clientState \in Connecting,
             clientState' = "Closed" => clientState = "Closed" /\ signing' = signing,
             clientState' # "Active"
      PROVE  Connects' /\ Moves("client")
  <2>1. SocketTypeOK(Quiet)'
    BY <1>0, <1>1, QuietWires DEF Connects, SocketTypeOK
  <2> QED
    BY <1>1, <2>1 DEF Connects, Moves
<1>2. CASE ClientWelcome
  <2>1. /\ Received.kind = "welcome" /\ WelcomeInv(1) /\ clientState \in Connecting
        /\ Received = ToClient[1] /\ Deliverable("client") /\ UNCHANGED signing
    BY <1>2, ClientReads DEF ClientWelcome, Connecting
  <2>2. Received.userId = options.userId /\ options.userId \in Users \cup {NULL}
    BY <2>1, ServerOptionsAssumption DEF WelcomeInv, IInv, TypeOK, ServerTypeOK
  <2>3. CASE Received.userId # NULL /\ Activate(Received.userId)
    <3>1. serverState = "Active" /\ user = Received.userId /\ Received.userId \in Users
      BY <2>1, <2>2, <2>3 DEF WelcomeInv
    <3> QED
      BY <2>1, <2>3, <3>1, ActivateConnects
  <2>4. CASE Authenticate(Received.auth)
    BY <2>1, <2>4, AuthenticateConnects
  <2> QED
    BY <1>2, <2>3, <2>4 DEF ClientWelcome
<1>3. CASE ClientAccepted
  <2>1. /\ Received.response.oneofKind = "userId" /\ AuthResponseInv(1)
        /\ Received = ToClient[1] /\ Received.kind = "authResponse"
        /\ Deliverable("client") /\ clientState \in Connecting
        /\ Activate(Received.response.value)
    BY <1>3, ClientReads DEF ClientAccepted, ClientAuthResponse, Connecting
  <2>2. serverState = "Active" /\ (user = Received.response.value \/ Received.response.value = "")
    BY <2>1 DEF AuthResponseInv
  <2>3. Received \in Frame
    <3>1. Received \in Quiet
      BY <1>0, <2>1, PopFacts DEF Received, Connects, SocketTypeOK
    <3> QED
      BY <3>1 DEF Quiet
  <2>4. Received.response.value \in Users
    BY <2>1, <2>3, FrameContents
  <2> QED
    BY <2>1, <2>2, <2>4, ActivateConnects
<1>4. CASE ClientRefused
  BY <1>4, AuthenticateConnects DEF ClientRefused, ClientAuthResponse, Connecting
<1>5. CASE ClientChallenged
  <2>1. Deliverable("client") /\ clientState \in Connecting
    BY <1>5 DEF ClientChallenged, ClientAuthResponse, Connecting
  <2>2. CASE (Catch("UnexpectedMessage") \/ Catch("SignThrew")) /\ UNCHANGED signing
    BY <2>1, <2>2, CatchConnects DEF Rejection
  <2>3. CASE /\ clientState' = "PubkeyChallenge" /\ wire' = Pop(wire, "client")
             /\ UNCHANGED <<promise, fin, ready>>
    BY <1>1, <2>1, <2>3
  <2> QED
    BY <1>5, <2>2, <2>3 DEF ClientChallenged
<1>6. CASE ClientIgnored
  BY <1>1, <1>6 DEF ClientIgnored, ClientAuthResponse, clientVars
<1>7. CASE ClientNewerVersion
  BY <1>7, CatchConnects DEF ClientNewerVersion, Connecting, Rejection
<1>8. CASE ClientBadMessage
  BY <1>8, CatchConnects DEF ClientBadMessage, Connecting, Rejection, Connects
<1>9. CASE ClientUnexpected
  BY <1>9, CatchConnects DEF ClientUnexpected, Connecting, Rejection
<1>10. CASE ClientDispatch
  BY <1>1, <1>10 DEF ClientDispatch, clientVars, Connects
<1>11. CASE ClientOnClose
  <2>1. SocketTypeOK(Quiet)' /\ ready'["client"] = "closed" /\ CloseEvent("client")
    BY <1>0, <1>11, SocketTypes DEF ClientOnClose, CloseEvent, Connects, SocketTypeOK
  <2> QED
    BY <1>11, <2>1 DEF ClientOnClose, Settle, Connects, Connecting, Moves
<1>12. CASE ClientSigned
  <2>1. PICK s \in signing : wire' = Push(wire, "client", ChallengeResponse(s.method, s.challenge))
    BY <1>12 DEF ClientSigned
  <2>2. ChallengeResponse(s.method, s.challenge) \in Quiet
    BY QuietFrames DEF IInv, TypeOK, ClientTypeOK
  <2>3. SocketTypeOK(Quiet)'
    BY <1>0, <1>12, <2>1, <2>2, QuietWires DEF ClientSigned, Connects, SocketTypeOK
  <2>4. clientState \in {"PubkeyChallenge", "Closed"}
    BY <2>1 DEF IInv, TokenInv, SigningInv
  <2> QED
    BY <1>12, <2>1, <2>3, <2>4 DEF ClientSigned, Connects, Connecting, Moves
<1>13. CASE ClientSignFails
  BY <1>13 DEF ClientSignFails, sockVars, Connects, SocketTypeOK, Moves
<1> QED
  BY <1>2, <1>3, <1>4, <1>5, <1>6, <1>7, <1>8, <1>9, <1>10, <1>11, <1>12, <1>13
  DEF ClientNext, ClientReceive

(* The server's steps, and those of the connection.                         *)

\* A step of the server goes on with the handshake.
LEMMA ServerConnects ==
  ASSUME IInv, Connects, ServerNext, UNCHANGED clientVars
  PROVE  Connects' /\ Moves("server")
<1>0. /\ "server" \in Ends
      /\ Deliverable("server") => wire["server"] # <<>>
      /\ UNCHANGED <<clientState, promise, signing>>
      /\ ready \in [Ends -> {"open", "closing", "closed"}] /\ "client" \in Ends
  BY DEF Ends, Deliverable, clientVars, Connects, SocketTypeOK
<1>1. ASSUME SocketTypeOK(Quiet)', Moves("server") PROVE Connects'
  <2>1. ready'["client"] = ready["client"]
    BY <1>0, <1>1 DEF Moves, CloseSocket, CloseEvent
  <2> QED
    BY <1>0, <1>1, <2>1 DEF Connects
<1>2. ASSUME Deliverable("server"), wire' = Pop(wire, "server"), UNCHANGED <<fin, ready>>
      PROVE  SocketTypeOK(Quiet)' /\ Moves("server")
  <2>1. wire' \in [Ends -> Seq(Quiet)]
    BY <1>0, <1>2, QuietWires DEF Connects
  <2> QED
    BY <1>2, <2>1 DEF Connects, SocketTypeOK, Moves
<1>3. ASSUME Deliverable("server"), ServerThrow
      PROVE  SocketTypeOK(Quiet)' /\ Moves("server")
  <2>1. wire' \in [Ends -> Seq(Quiet)] /\ CloseSocket("server")
    BY <1>0, <1>3, QuietWires DEF Connects, ServerThrow
  <2> QED
    BY <1>0, <2>1, SocketTypes DEF Connects, SocketTypeOK, Moves
<1>4. ASSUME NEW state, NEW oneof, NEW v, AuthResponse(oneof, v) \in Quiet,
             Respond(state, oneof, v)
      PROVE  SocketTypeOK(Quiet)' /\ Moves("server")
  <2>1. wire' \in [Ends -> Seq(Quiet)] /\ UNCHANGED <<fin, ready>>
    BY <1>0, <1>4, QuietWires DEF Connects, Respond
  <2> QED
    BY <2>1 DEF Connects, SocketTypeOK, Moves
<1>5. CASE ServerAuthRequest \/ ServerChallengeResponse \/ ServerDispatch
  BY <1>1, <1>2, <1>5 DEF ServerAuthRequest, ServerChallengeResponse, ServerDispatch
<1>6. CASE ServerBadMessage \/ ServerUnexpected
  BY <1>1, <1>3, <1>6 DEF ServerBadMessage, ServerUnexpected
<1>7. CASE ServerOnClose
  <2>1. SocketTypeOK(Quiet)' /\ CloseEvent("server")
    BY <1>0, <1>7, SocketTypes DEF ServerOnClose, Connects
  <2> QED
    BY <1>1, <2>1 DEF Moves
<1>8. ASSUME NEW p \in pending, NEW id \in Users, ServerAccepts(p, id) \/ ServerValidates(p, id)
      PROVE  Connects' /\ Moves("server")
  BY <1>1, <1>4, <1>8, QuietFrames DEF ServerAccepts, ServerValidates
<1>9. ASSUME NEW p \in pending, ServerRefuses(p) \/ ServerRejects(p) \/ ServerValidateThrows(p)
      PROVE  Connects' /\ Moves("server")
  BY <1>1, <1>4, <1>9, QuietFrames
  DEF ServerRefuses, ServerRejects, ServerValidateThrows, AuthErrorCode
<1>10. ASSUME NEW p \in pending, ServerChallenges(p)
       PROVE  Connects' /\ Moves("server")
  <2>1. issued' \in Nat
    BY <1>10 DEF ServerChallenges, IInv, TypeOK, ServerTypeOK
  <2> QED
    BY <1>1, <1>4, <1>10, <2>1, QuietFrames DEF ServerChallenges
<1> QED
  BY <1>5, <1>6, <1>7, <1>8, <1>9, <1>10 DEF ServerNext, ServerReceive, ServerReturn

LEMMA SocketConnects ==
  ASSUME Connects, SocketStep, UNCHANGED <<clientVars, serverVars>>
  PROVE  Connects'
<1>1. SocketTypeOK(Quiet)'
  BY SocketTypes DEF Connects, Ends
<1>2. ready["client"] = "closed" => ready'["client"] = "closed"
  BY DEF SocketStep, Discard, UserClose, CloseSocket, Lose, Connects, SocketTypeOK, Ends
<1> QED
  BY <1>1, <1>2 DEF Connects, clientVars

(* Once connected.                                                          *)

\* Every frame is one of a call, and a client that is not active sees no event.
LEMMA OnlyCalls ==
  ASSUME IInv, Connected
  PROVE  /\ serverState = "Active" /\ clientState \in {"Active", "Closed"}
         /\ \A e \in Ends : wire[e] # <<>> => Head(wire[e]).kind = "rpc"
         /\ ClientNext => clientState = "Active"
<1>1. serverState = "Active" /\ clientState \in {"Active", "Closed"} /\ signing = {}
  BY DEF Connected, IInv, TokenInv, ClientInv, ServerInv
<1>2. ASSUME NEW e \in Ends, wire[e] # <<>> PROVE Head(wire[e]).kind = "rpc"
  <2>1. Head(wire[e]) \in RpcMessage
    BY <1>2, PopFacts DEF Connected, SocketTypeOK
  <2> QED
    BY <2>1, RpcMessageAssumption
<1>3. clientState = "Closed" => ~Deliverable("client") /\ ~CloseEvent("client")
  BY DEF Connected, Deliverable, CloseEvent
<1>4. ClientNext => clientState = "Active"
  BY <1>1, <1>3
  DEF ClientNext, ClientReceive, ClientWelcome, ClientNewerVersion, ClientAccepted,
      ClientRefused, ClientChallenged, ClientIgnored, ClientAuthResponse, ClientBadMessage,
      ClientUnexpected, ClientDispatch, ClientOnClose, ClientSigned, ClientSignFails
<1> QED
  BY <1>1, <1>2, <1>4

\* Closing the connection, or losing it, ends no handshake that is over.
LEMMA StaysConnected ==
  ASSUME Connected,
         \/ ClientOnClose /\ UNCHANGED serverVars
         \/ ServerOnClose /\ UNCHANGED clientVars
         \/ SocketStep /\ UNCHANGED <<clientVars, serverVars>>
  PROVE  Connected'
<1> USE DEF Connected
<1>1. CASE ClientOnClose /\ UNCHANGED serverVars
  <2>1. CloseEvent("client") /\ SocketTypeOK(RpcMessage)'
    BY <1>1, SocketTypes DEF ClientOnClose, Ends
  <2>2. ready'["client"] = "closed"
    BY <2>1 DEF CloseEvent, SocketTypeOK, Ends
  <2> QED
    BY <1>1, <2>1, <2>2 DEF ClientOnClose, Settle, serverVars
<1>2. CASE ServerOnClose /\ UNCHANGED clientVars
  <2>1. CloseEvent("server") /\ SocketTypeOK(RpcMessage)'
    BY <1>2, SocketTypes DEF ServerOnClose, Ends
  <2>2. ready'["client"] = ready["client"]
    BY <2>1 DEF CloseEvent, SocketTypeOK, Ends
  <2> QED
    BY <1>2, <2>1, <2>2 DEF ServerOnClose, clientVars, serverVars
<1>3. CASE SocketStep /\ UNCHANGED <<clientVars, serverVars>>
  <2>1. SocketTypeOK(RpcMessage)'
    BY <1>3, SocketTypes DEF Ends
  <2>2. ready["client"] = "closed" => ready'["client"] = "closed"
    BY <1>3 DEF SocketStep, Discard, UserClose, CloseSocket, Lose, SocketTypeOK, Ends
  <2> QED
    BY <1>3, <2>1, <2>2 DEF clientVars, serverVars
<1> QED
  BY <1>1, <1>2, <1>3

\* The traffic of the calls keeps what the handshake established.
LEMMA CallsKeep ==
  ASSUME TypeInv, IInv, Connected, UNCHANGED <<clientVars, serverVars, fin, ready>>,
         SocketTypeOK(RpcMessage)'
  PROVE  TypeInv' /\ IInv' /\ Connected'
<1>1. UNCHANGED <<connectAuth, clientState, auth, authTypes, lastAuth, authFailures, promise,
                  transportUser, signing, options, serverState, user, pubkeyChallenge, pending,
                  issued, fin, ready>>
  BY DEF clientVars, serverVars
<1>2. serverState = "Active" /\ clientState \in {"Active", "Closed"} /\ pending = {}
      /\ signing = {}
  BY DEF Connected, IInv, TokenInv, ClientInv, ServerInv
<1>3. SocketTypeOK(Frame)'
  <2>1. \A m \in RpcMessage : m \in Frame
    BY DEF Frame, ServerFrame
  <2>2. ASSUME NEW s \in Seq(RpcMessage) PROVE s \in Seq(Frame)
    <3>1. s \in [1..Len(s) -> Frame]
      BY <2>1
    <3> QED
      BY <3>1
  <2> QED
    BY <2>2 DEF SocketTypeOK
<1>4. TypeInv'
  BY <1>1, <1>3 DEF TypeInv, TypeOK, ClientTypeOK, ServerTypeOK, Presented, Challenged, Frame
<1>5. /\ \A i \in DOMAIN ToClient' : ToClient'[i].kind = "rpc"
      /\ \A i \in DOMAIN ToServer' : ToServer'[i].kind = "rpc"
  BY RpcMessageAssumption DEF SocketTypeOK, ToClient, ToServer, Ends
<1>6. ToClientInv' /\ ToServerInv' /\ OneToken' /\ PendingInv' /\ SigningInv'
  BY <1>1, <1>2, <1>5 DEF ToClientInv, ToServerInv, OneToken, PendingInv, SigningInv
<1>7. ServerInv' /\ ClientInv'
  BY <1>1, <1>2 DEF ServerInv, ClientInv, Agreement, IInv, TokenInv
<1> QED
  BY <1>1, <1>4, <1>6, <1>7 DEF IInv, TokenInv, TypeInv, Connected
=============================================================================
