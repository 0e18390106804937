---------------------------- MODULE OpenEndProofs ----------------------------
(***************************************************************************)
(* What either half of the handshake guarantees against any peer, for all  *)
(* values of the constants.                                                *)
(*                                                                         *)
(* The server: the state is ProcessingAuth from the moment a callback of   *)
(* the application is called until it returns, and no frame starts another *)
(* in that state.  So there is one call at a time, none while the          *)
(* connection is active, and no challenge is generated between the one     *)
(* that is answered and the check of the answer.                           *)
(*                                                                         *)
(* The client: authenticate() takes the entries off the end of a list and  *)
(* never puts one back, so what it has presented is what is gone from the  *)
(* list.  It awaits nothing between setting the state and sending; sign()  *)
(* it awaits, in a state in which every frame ends the attempt to connect. *)
(***************************************************************************)
EXTENDS OpenServer, OpenClient, EndpointProofs, FiniteSetTheorems

-----------------------------------------------------------------------------
(* The server against any client.                                           *)

\* One callback at a time, and only in ProcessingAuth.
OneCall ==
  pending # {} => serverState = "ProcessingAuth" /\ \E p \in pending : pending = {p}

\* What is outstanding or being validated is the last challenge.
LastChallenge ==
  /\ pubkeyChallenge # NULL => pubkeyChallenge.challenge = issued
  /\ \A p \in pending : p.call = "validate" => p.challenge = issued

CheckInv == ServerTypes /\ OneCall /\ ChallengeOutstanding /\ LastChallenge

-----------------------------------------------------------------------------
\* The frames that start a callback.
LEMMA Starts ==
  ASSUME CheckInv, ServerAuthRequest \/ ServerChallengeResponse
  PROVE  (OneCall /\ ChallengeOutstanding /\ LastChallenge)'
<1> USE DEF CheckInv, OneCall, ChallengeOutstanding, LastChallenge
<1>1. CASE ServerAuthRequest
  <2>1. pending = {} /\ pubkeyChallenge = NULL
    BY <1>1 DEF ServerAuthRequest
  <2>2. pending' = {[call |-> "handleAuthRequest", request |-> Arrived.request]}
    BY <1>1, <2>1 DEF ServerAuthRequest
  <2> QED
    BY <1>1, <2>1, <2>2 DEF ServerAuthRequest
<1>2. CASE ServerChallengeResponse
  <2>1. pending = {} /\ pubkeyChallenge.challenge = issued
    BY <1>2 DEF ServerChallengeResponse
  <2>2. pending' = {[call |-> "validate", validate |-> pubkeyChallenge.validate,
                     challenge |-> issued, signature |-> Arrived.signature]}
    BY <1>2, <2>1 DEF ServerChallengeResponse
  <2> QED
    BY <1>2, <2>1, <2>2 DEF ServerChallengeResponse
<1> QED
  BY <1>1, <1>2

\* A callback returns.
LEMMA Returns ==
  ASSUME CheckInv, NEW p \in pending,
         \/ \E id \in Users : ServerAccepts(p, id) \/ ServerValidates(p, id)
         \/ ServerRefuses(p) \/ ServerChallenges(p)
         \/ ServerRejects(p) \/ ServerValidateThrows(p)
  PROVE  /\ (OneCall /\ ChallengeOutstanding /\ LastChallenge)'
         /\ pending' = {} /\ serverState = "ProcessingAuth"
<1>1. serverState = "ProcessingAuth" /\ pending = {p} /\ pubkeyChallenge = NULL
  BY DEF CheckInv, OneCall, ChallengeOutstanding
<1>2. pending' = {}
  BY <1>1 DEF ServerAccepts, ServerValidates, ServerRefuses, ServerChallenges,
              ServerRejects, ServerValidateThrows, AuthReturns, ValidateReturns
<1>3. CASE ServerChallenges(p)
  <2>1. /\ pubkeyChallenge' = [challenge |-> issued', validate |-> p.request]
        /\ serverState' = "PubkeyChallenge"
    BY <1>3 DEF ServerChallenges, Respond
  <2>2. pubkeyChallenge' # NULL
    <3>1. issued' \in Nat /\ p.request \in Auth
      BY <1>3 DEF CheckInv, ServerTypes, ServerChallenges, Supported, AuthReturns, ServerTypeOK,
                  PendingCall
    <3> QED
      BY <2>1, <3>1, ChallengeAssumption
  <2> QED
    BY <1>1, <1>2, <2>1, <2>2 DEF CheckInv, OneCall, ChallengeOutstanding, LastChallenge
<1>4. CASE ~ServerChallenges(p)
  <2>1. UNCHANGED <<pubkeyChallenge, issued>> /\ serverState' # "PubkeyChallenge"
    BY <1>1, <1>4 DEF ServerAccepts, ServerValidates, ServerRefuses, ServerRejects,
                      ServerValidateThrows, Respond
  <2> QED
    BY <1>1, <1>2, <2>1 DEF CheckInv, OneCall, ChallengeOutstanding, LastChallenge
<1> QED
  BY <1>3, <1>4, <1>1, <1>2

\* Everything else leaves the server's state alone.
LEMMA Others ==
  ASSUME [OpenServerNext]_openServerVars
  PROVE  \/ ServerAuthRequest \/ ServerChallengeResponse \/ ServerReturn
         \/ UNCHANGED serverVars
  BY DEF OpenServerNext, openServerVars, ServerNext, ServerReceive, ServerBadMessage, ServerUnexpected, ServerThrow,
         ServerDispatch, ServerOnClose, AnyClient

\* Whatever the client sends is a frame.
LEMMA AnyClientTypes ==
  ASSUME ServerTypes, AnyClient
  PROVE  ServerTypes'
<1>0. "client" \in Ends
  BY DEF Ends
<1>1. ASSUME NEW f \in Frames, wire' = Push(wire, "client", f), UNCHANGED <<fin, ready>>
      PROVE  SocketTypeOK(Frame)'
  <2>1. f \in Frame
    BY OpenServerAssumption, FrameTypes DEF Frames, Frame, ClientFrame, ClientAuthRequest, AuthRequest
  <2> QED
    BY <1>0, <1>1, <2>1, PushFacts DEF ServerTypes, SocketTypeOK
<1>2. ASSUME Deliverable("client"), wire' = Pop(wire, "client"), UNCHANGED <<fin, ready>>
      PROVE  SocketTypeOK(Frame)'
  BY <1>0, <1>2, PopFacts DEF ServerTypes, SocketTypeOK, Deliverable
<1>3. ASSUME CloseEvent("client") PROVE SocketTypeOK(Frame)'
  BY <1>0, <1>3, SocketTypes DEF ServerTypes
<1>4. SocketTypeOK(Frame)' /\ UNCHANGED serverVars
  BY <1>1, <1>2, <1>3 DEF AnyClient
<1> QED
  BY <1>4 DEF ServerTypes, ServerTypeOK, Challenged, serverVars

\* Every step keeps the types.
LEMMA TypesStep ==
  ASSUME ServerTypes, [OpenServerNext]_openServerVars
  PROVE  ServerTypes'
<1>1. CASE ServerNext
  BY <1>1, ServerTypesStep
<1>2. CASE AnyClient
  BY <1>2, AnyClientTypes
<1>3. CASE SocketStep /\ UNCHANGED serverVars
  <2>1. SocketTypeOK(Frame)'
    BY <1>3, SocketTypes DEF ServerTypes, Ends
  <2> QED
    BY <1>3, <2>1 DEF ServerTypes, ServerTypeOK, Challenged, serverVars
<1>4. CASE UNCHANGED openServerVars
  BY <1>4 DEF openServerVars, serverVars, sockVars, ServerTypes, ServerTypeOK, Challenged, SocketTypeOK
<1> QED
  BY <1>1, <1>2, <1>3, <1>4 DEF OpenServerNext

(***************************************************************************)
(* One callback is awaited at a time, in ProcessingAuth, and the challenge *)
(* outstanding or being checked is the last one generated (server.ts:492,  *)
(* 514-516).                                                               *)
(***************************************************************************)
THEOREM CheckInvariant == OpenServerSpec => []CheckInv
<1>1. OpenServerInit => CheckInv
  <2> SUFFICES ASSUME OpenServerInit PROVE CheckInv
    OBVIOUS
  <2>1. SendWelcome \in Frame
    BY FrameTypes, ServerOptionsAssumption DEF SendWelcome, OpenServerInit, ServerInit
  <2>2. SocketTypeOK(Frame)
    BY <2>1 DEF OpenServerInit, SocketInit, SocketTypeOK
  <2> QED
    BY <2>2, ServerOptionsAssumption
    DEF OpenServerInit, ServerInit, CheckInv, ServerTypes, ServerTypeOK, ServerState, Challenged, OneCall,
        ChallengeOutstanding, LastChallenge
<1>2. CheckInv /\ [OpenServerNext]_openServerVars => CheckInv'
  <2> SUFFICES ASSUME CheckInv, [OpenServerNext]_openServerVars PROVE CheckInv'
    OBVIOUS
  <2>1. CASE UNCHANGED serverVars
    BY <2>1, TypesStep DEF serverVars, CheckInv, OneCall, ChallengeOutstanding, LastChallenge
  <2>2. CASE ServerReturn
    BY <2>2, Returns, TypesStep DEF ServerReturn, CheckInv
  <2> QED
    BY <2>1, <2>2, Others, Starts, TypesStep DEF CheckInv
<1> QED
  BY <1>1, <1>2, PTL DEF OpenServerSpec

(***************************************************************************)
(* Whatever the client sends, the server's variables keep their types and  *)
(* what it sends is a frame (server.ts:487-556).                           *)
(***************************************************************************)
THEOREM OpenServerTypesHold == OpenServerSpec => []OpenServerTypeOK
<1>1. CheckInv => OpenServerTypeOK
  BY DEF CheckInv, ServerTypes, OpenServerTypeOK, Frame
<1> QED
  BY <1>1, CheckInvariant, PTL

(***************************************************************************)
(* However many requests arrive during an await, one credential is checked *)
(* at a time (server.ts:492, 505, 514).                                    *)
(***************************************************************************)
THEOREM OneCheckHolds == OpenServerSpec => []OneCheckAtATime
<1>1. CheckInv => OneCheckAtATime
  <2>1. pending = {} => Cardinality(pending) = 0
    BY FS_EmptySet
  <2>2. \A p : pending = {p} => Cardinality(pending) = 1
    BY FS_Singleton
  <2> QED
    BY <2>1, <2>2 DEF CheckInv, OneCall, OneCheckAtATime
<1> QED
  BY <1>1, CheckInvariant, PTL

(***************************************************************************)
(* A challenge is outstanding exactly while its answer is awaited          *)
(* (server.ts:494, 514-516).                                               *)
(***************************************************************************)
THEOREM ChallengeOutstandingHolds == OpenServerSpec => []ChallengeOutstanding
<1>1. CheckInv => ChallengeOutstanding
  BY DEF CheckInv
<1> QED
  BY <1>1, CheckInvariant, PTL

(***************************************************************************)
(* Nothing a client sends changes the user of an active connection         *)
(* (server.ts:493-501, 519-524).                                           *)
(***************************************************************************)
THEOREM IdentityFixedHolds == OpenServerSpec => IdentityFixed
<1>1. CheckInv /\ [OpenServerNext]_openServerVars =>
        [serverState = "Active" => serverState' = "Active" /\ user' = user]_openServerVars
  <2> SUFFICES ASSUME CheckInv, [OpenServerNext]_openServerVars, serverState = "Active"
               PROVE  serverState' = "Active" /\ user' = user
    OBVIOUS
  <2>1. pending = {}
    BY DEF CheckInv, OneCall
  <2>2. ~ServerReturn /\ ~ServerAuthRequest /\ ~ServerChallengeResponse
    BY <2>1 DEF ServerReturn, ServerAuthRequest, ServerChallengeResponse
  <2> QED
    BY <2>2, Others DEF serverVars
<1> QED
  BY <1>1, CheckInvariant, PTL DEF OpenServerSpec, IdentityFixed

(***************************************************************************)
(* A pubkey login rests on a signature over the last challenge, by the key *)
(* it was generated for (server.ts:209, 515-522).                          *)
(***************************************************************************)
THEOREM LatestChallengeHolds == OpenServerSpec => LatestChallengeOnly
<1> DEFINE Checked ==
             \A p \in pending \ pending' :
               p.call = "validate" /\ serverState' = "Active" =>
                 p.signature = [by |-> p.validate, over |-> issued]
<1>1. CheckInv /\ [OpenServerNext]_openServerVars => [Checked]_openServerVars
  <2> SUFFICES ASSUME CheckInv, [OpenServerNext]_openServerVars,
                      NEW q \in pending \ pending', q.call = "validate", serverState' = "Active"
               PROVE  q.signature = [by |-> q.validate, over |-> issued]
    OBVIOUS
  <2>1. pending = {q} /\ serverState = "ProcessingAuth" /\ q.challenge = issued
    BY DEF CheckInv, OneCall, LastChallenge
  <2>2. PICK p \in pending :
          \/ \E id \in Users : ServerAccepts(p, id) \/ ServerValidates(p, id)
          \/ ServerRefuses(p) \/ ServerChallenges(p)
          \/ ServerRejects(p) \/ ServerValidateThrows(p)
    BY <2>1, Others DEF ServerReturn, serverVars, ServerAuthRequest, ServerChallengeResponse
  <2>3. p = q
    BY <2>1
  <2>4. Verifies(q)
    BY <2>1, <2>2, <2>3
    DEF ServerAccepts, ServerValidates, ServerRefuses, ServerChallenges, ServerRejects,
        ServerValidateThrows, AuthReturns, ValidateReturns, Respond
  <2> QED
    BY <2>1, <2>4 DEF Verifies
<1> QED
  BY <1>1, CheckInvariant, PTL DEF OpenServerSpec, LatestChallengeOnly
-----------------------------------------------------------------------------
(* The client against any server: type correctness.                         *)

\* The client presents entries, and never none.
Requests ==
  /\ requests \in Seq(Auth)
  /\ \A i \in DOMAIN wire["server"] :
       wire["server"][i].kind = "authRequest" => wire["server"][i].request \in Auth

TypeInv == ClientTypes /\ Requests

\* What a frame of the client adds to those under way to the server.
LEMMA SendsLast ==
  ASSUME SocketTypeOK(Frame), NEW w \in [Ends -> Seq(Frame)], w["server"] = wire["server"],
         NEW f \in Frame, wire' = Push(w, "client", f)
  PROVE  /\ \/ wire'["server"] = Append(wire["server"], f)
               /\ ready["client"] = "open" /\ ~fin["server"]
            \/ wire'["server"] = wire["server"]
               /\ ~(ready["client"] = "open" /\ ~fin["server"])
         /\ wire["server"] \in Seq(Frame)
  BY DEF Push, Ends, Peer, SocketTypeOK

\* Taking a frame off the client's side leaves the server's side alone.
LEMMA ClientPops ==
  ASSUME SocketTypeOK(Frame), Deliverable("client")
  PROVE  /\ Pop(wire, "client") \in [Ends -> Seq(Frame)]
         /\ Pop(wire, "client")["server"] = wire["server"]
         /\ Received \in Frame
<1>1. "client" \in Ends /\ Peer("client") = "server"
  BY DEF Ends, Peer
<1> QED
  BY <1>1, PopFacts DEF SocketTypeOK, Deliverable, Received

\* What each step of the client does to the frames under way to the server:
\* it presents an entry, answers a challenge, or sends nothing.
Presents ==
  \E last \in DOMAIN auth :
    /\ lastAuth' = auth[last] /\ auth' = SubSeq(auth, 1, last - 1)
    /\ wire' = Push(Pop(wire, "client"), "client", AuthRequest(auth[last]))
    /\ Deliverable("client")

Answers ==
  \E s \in signing : wire' = Push(wire, "client", ChallengeResponse(s.method, s.challenge))

LEMMA ClientSends ==
  ASSUME ClientTypes, ClientNext
  PROVE  Presents \/ Answers \/ wire'["server"] = wire["server"]
<1>0. SocketTypeOK(Frame)
  BY DEF ClientTypes
<1>1. ASSUME Deliverable("client"), wire' = Pop(wire, "client")
      PROVE  wire'["server"] = wire["server"]
  BY <1>0, <1>1, ClientPops
<1>2. ASSUME Deliverable("client"), NEW reason, Catch(reason)
      PROVE  wire'["server"] = wire["server"]
  BY <1>1, <1>2 DEF Catch
<1>3. ASSUME Deliverable("client"), NEW types, Authenticate(types)
      PROVE  Presents \/ wire'["server"] = wire["server"]
  <2>1. CASE TryNext(types)
    BY <1>2, <1>3, <2>1 DEF TryNext, Presents, Usable
  <2>2. CASE GiveUp(types)
    BY <1>2, <1>3, <2>2 DEF GiveUp
  <2> QED
    BY <1>3, <2>1, <2>2 DEF Authenticate
<1>4. CASE ClientWelcome
  BY <1>1, <1>3, <1>4 DEF ClientWelcome, Activate
<1>5. CASE ClientRefused
  BY <1>3, <1>5 DEF ClientRefused, ClientAuthResponse
<1>6. CASE ClientNewerVersion \/ ClientBadMessage \/ ClientUnexpected
  BY <1>2, <1>6 DEF ClientNewerVersion, ClientBadMessage, ClientUnexpected
<1>7. CASE ClientAccepted \/ ClientIgnored \/ ClientDispatch
  BY <1>1, <1>7 DEF ClientAccepted, ClientAuthResponse, Activate, ClientIgnored, ClientDispatch
<1>8. CASE ClientChallenged
  BY <1>1, <1>2, <1>8 DEF ClientChallenged, ClientAuthResponse
<1>9. CASE ClientSigned
  BY <1>9 DEF ClientSigned, Answers
<1>10. CASE ClientSignFails \/ ClientOnClose
  BY <1>10 DEF ClientSignFails, sockVars, ClientOnClose, CloseEvent
<1> QED
  BY <1>4, <1>5, <1>6, <1>7, <1>8, <1>9, <1>10 DEF ClientNext, ClientReceive

\* A frame that is sent, unless it is a request for nothing, keeps them typed.
LEMMA RequestsGrow ==
  ASSUME Requests, wire["server"] \in Seq(Frame), UNCHANGED requests,
         NEW f \in Frame, f.kind = "authRequest" => f.request \in Auth,
         wire'["server"] \in {Append(wire["server"], f), wire["server"]}
  PROVE  Requests'
<1>1. CASE wire'["server"] = wire["server"]
  BY <1>1 DEF Requests
<1>2. CASE wire'["server"] = Append(wire["server"], f)
  <2>1. \A i \in DOMAIN Append(wire["server"], f) :
          \/ i \in DOMAIN wire["server"] /\ Append(wire["server"], f)[i] = wire["server"][i]
          \/ Append(wire["server"], f)[i] = f
    OBVIOUS
  <2> QED
    BY <1>2, <2>1 DEF Requests
<1> QED
  BY <1>1, <1>2

\* So do frames taken away from either end.
LEMMA RequestsShrink ==
  ASSUME Requests, SocketTypeOK(Frame), requests' \in Seq(Auth),
         \A i \in DOMAIN wire'["server"] :
           \E j \in DOMAIN wire["server"] : wire'["server"][i] = wire["server"][j]
  PROVE  Requests'
  BY DEF Requests

\* The frames under way to the server, after each step that is not the client's.
LEMMA ServerSideShrinks ==
  ASSUME SocketTypeOK(Frame), AnyServer \/ SocketStep
  PROVE  \/ wire'["server"] = wire["server"] /\ ~ServerReads
         \/ /\ wire'["server"] = Tail(wire["server"]) /\ wire["server"] # <<>>
            /\ ServerReads \/ (~LateDelivery /\ ready["server"] = "closing")
            /\ UNCHANGED <<fin, ready>>
         \/ /\ \E k \in 0..Len(wire["server"]) :
                 wire'["server"] = SubSeq(wire["server"], 1, k)
            /\ ~ServerReads /\ fin' = [e \in Ends |-> TRUE] /\ UNCHANGED ready
<1>0. wire \in [Ends -> Seq(Frame)] /\ "server" \in Ends /\ "client" \in Ends
  BY DEF SocketTypeOK, Ends
<1>1. CASE ServerReads
  BY <1>0, <1>1 DEF ServerReads, Deliverable, Pop
<1>2. CASE ~ServerReads
  <2>1. CASE ServerSends
    BY <1>0, <1>2, <2>1 DEF ServerSends, Push, Peer
  <2>2. CASE CloseEvent("server")
    BY <1>2, <2>2 DEF CloseEvent
  <2>3. CASE \E e \in Ends : Discard(e)
    BY <1>0, <1>2, <2>3 DEF Discard, Pop, Ends
  <2>4. CASE \E e \in Ends : UserClose(e)
    BY <1>2, <2>4 DEF UserClose
  <2>5. CASE Lose
    <3>1. PICK k \in 0..Len(wire["server"]) : wire'["server"] = SubSeq(wire["server"], 1, k)
      BY <1>0, <2>5 DEF Lose
    <3> QED
      BY <1>2, <2>5, <3>1 DEF Lose
  <2> QED
    BY <1>2, <2>1, <2>2, <2>3, <2>4, <2>5 DEF AnyServer, SocketStep
<1> QED
  BY <1>1, <1>2

\* An end that is not the client's moves: frames come and go, ends close.
LEMMA ServerTypesKept ==
  ASSUME SocketTypeOK(Frame), AnyServer \/ SocketStep
  PROVE  SocketTypeOK(Frame)'
<1>0. "server" \in Ends /\ "client" \in Ends /\ wire \in [Ends -> Seq(Frame)]
  BY DEF Ends, SocketTypeOK
<1>1. CASE ServerReads
  BY <1>0, <1>1, PopFacts DEF ServerReads, Deliverable, SocketTypeOK
<1>2. CASE ServerSends
  <2>1. PICK f \in AnyServerFrame : wire' = Push(wire, "server", f)
    BY <1>2 DEF ServerSends
  <2>2. f \in Frame
    BY <2>1, OpenClientAssumption DEF Frame
  <2>3. wire' \in [Ends -> Seq(Frame)]
    BY <1>0, <2>1, <2>2, PushFacts
  <2> QED
    BY <1>2, <2>3 DEF ServerSends, SocketTypeOK
<1>3. CASE CloseEvent("server")
  BY <1>0, <1>3, SocketTypes
<1>4. CASE SocketStep
  BY <1>0, <1>4, SocketTypes
<1> QED
  BY <1>1, <1>2, <1>3, <1>4 DEF AnyServer

(***************************************************************************)
(* The types of all variables, with what makes them inductive, are an      *)
(* invariant whatever frames the server sends: in particular no handler of *)
(* client.ts:455-505 reads a field of an undefined lastAuth, and every     *)
(* auth request holds an entry.                                            *)
(***************************************************************************)
THEOREM TypeInvariant == OpenClientSpec => []TypeInv
<1>1. OpenClientInit => TypeInv
  <2> SUFFICES ASSUME OpenClientInit PROVE TypeInv
    OBVIOUS
  <2>1. ClientTypeOK /\ Presented
    BY AuthListsAssumption
    DEF OpenClientInit, ClientInit, ClientTypeOK, Presented, ClientState, Connecting
  <2>2. SocketTypeOK(Frame) /\ wire["server"] = <<>>
    BY DEF OpenClientInit, SocketInit, SocketTypeOK, Ends
  <2>3. requests \in Seq(Auth)
    BY DEF OpenClientInit
  <2> QED
    BY <2>1, <2>2, <2>3 DEF TypeInv, ClientTypes, Requests
<1>2. TypeInv /\ [OpenClientNext]_openClientVars => TypeInv'
  <2> SUFFICES ASSUME TypeInv, [OpenClientNext]_openClientVars PROVE TypeInv'
    OBVIOUS
  <2>0. /\ ClientTypes /\ Requests /\ SocketTypeOK(Frame)
        /\ wire["server"] \in Seq(Frame) /\ auth \in Seq(Auth)
    BY DEF TypeInv, ClientTypes, SocketTypeOK, Ends, ClientTypeOK
  <2>1. CASE ClientNext /\ UNCHANGED requests
    <3>1. ClientTypes'
      BY <2>0, <2>1, ClientTypesStep
    <3>2. CASE Presents
      <4>1. PICK last \in DOMAIN auth :
              wire' = Push(Pop(wire, "client"), "client", AuthRequest(auth[last]))
              /\ Deliverable("client")
        BY <3>2 DEF Presents
      <4>2. auth[last] \in Auth
        BY <2>0
      <4>3. PICK f \in Frame : f = AuthRequest(auth[last])
        BY <4>2, FrameTypes
      <4>4. f.request \in Auth
        BY <4>2, <4>3 DEF AuthRequest
      <4>5. wire'["server"] \in {Append(wire["server"], f), wire["server"]}
        BY <2>0, <4>1, <4>3, ClientPops, SendsLast
      <4> QED
        BY <2>0, <2>1, <3>1, <4>4, <4>5, RequestsGrow DEF TypeInv
    <3>3. CASE Answers
      <4>1. PICK s \in signing : wire' = Push(wire, "client", ChallengeResponse(s.method, s.challenge))
        BY <3>3 DEF Answers
      <4>2. s.method \in Auth /\ s.challenge \in Nat
        BY <2>0 DEF ClientTypes, ClientTypeOK
      <4>3. PICK f \in Frame : f = ChallengeResponse(s.method, s.challenge)
        BY <4>2, FrameTypes
      <4>4. f.kind # "authRequest"
        BY <4>3 DEF ChallengeResponse
      <4>5. wire \in [Ends -> Seq(Frame)]
        BY <2>0 DEF SocketTypeOK
      <4>6. wire'["server"] \in {Append(wire["server"], f), wire["server"]}
        BY <2>0, <4>1, <4>3, <4>5, SendsLast
      <4> QED
        BY <2>0, <2>1, <3>1, <4>4, <4>6, RequestsGrow DEF TypeInv
    <3>4. CASE wire'["server"] = wire["server"]
      BY <2>0, <2>1, <3>1, <3>4 DEF TypeInv, Requests
    <3> QED
      BY <2>0, <2>1, <3>2, <3>3, <3>4, ClientSends
  <2>2. CASE (AnyServer \/ (SocketStep /\ UNCHANGED requests)) /\ UNCHANGED clientVars
    <3>1. SocketTypeOK(Frame)'
      BY <2>0, <2>2, ServerTypesKept
    <3>2. ClientTypes'
      BY <2>0, <2>2, <3>1 DEF ClientTypes, ClientTypeOK, Presented, clientVars
    <3>3. requests' \in Seq(Auth)
      <4>1. CASE ServerReads
        <5>1. wire["server"] # <<>> /\ Head(wire["server"]) = wire["server"][1]
              /\ 1 \in DOMAIN wire["server"]
          BY <2>0, <4>1 DEF ServerReads, Deliverable
        <5>2. Head(wire["server"]).kind = "authRequest" => Head(wire["server"]).request \in Auth
          BY <2>0, <5>1 DEF Requests
        <5> QED
          BY <2>0, <4>1, <5>2 DEF ServerReads, Requests
      <4>2. CASE UNCHANGED requests
        BY <2>0, <4>2 DEF Requests
      <4> QED
        BY <2>2, <4>1, <4>2 DEF AnyServer, ServerSends
    <3>4. \A i \in DOMAIN wire'["server"] :
            \E j \in DOMAIN wire["server"] : wire'["server"][i] = wire["server"][j]
      <4>1. CASE wire'["server"] = wire["server"]
        BY <4>1
      <4>2. CASE wire'["server"] = Tail(wire["server"]) /\ wire["server"] # <<>>
        <5>1. \A i \in DOMAIN Tail(wire["server"]) :
                i + 1 \in DOMAIN wire["server"] /\ Tail(wire["server"])[i] = wire["server"][i + 1]
          BY <2>0, <4>2
        <5> QED
          BY <4>2, <5>1
      <4>3. CASE \E k \in 0..Len(wire["server"]) : wire'["server"] = SubSeq(wire["server"], 1, k)
        BY <2>0, <4>3
      <4> QED
        BY <2>0, <2>2, <4>1, <4>2, <4>3, ServerSideShrinks
    <3> QED
      BY <2>0, <3>2, <3>3, <3>4, RequestsShrink DEF TypeInv
  <2>3. CASE UNCHANGED openClientVars
    BY <2>0, <2>3
    DEF openClientVars, TypeInv, ClientTypes, ClientTypeOK, Presented, clientVars, SocketTypeOK,
        sockVars, Requests
  <2> QED
    BY <2>1, <2>2, <2>3 DEF OpenClientNext, AnyServer
<1> QED
  BY <1>1, <1>2, PTL DEF OpenClientSpec

(***************************************************************************)
(* The type invariant of the client's half (client.ts:398).                *)
(***************************************************************************)
THEOREM OpenClientTypesHold == OpenClientSpec => []OpenClientTypeOK
<1>1. TypeInv => OpenClientTypeOK
  BY DEF TypeInv, ClientTypes, Requests, OpenClientTypeOK, Frame
<1> QED
  BY <1>1, TypeInvariant, PTL

-----------------------------------------------------------------------------
(* The promise.                                                             *)

\* While the promise is pending, the client is connecting, and a signature is
\* awaited at most once, in the state for it.
Awaiting ==
  promise = "pending" =>
    /\ clientState \in Connecting
    /\ \/ signing = {}
       \/ clientState = "PubkeyChallenge" /\ \E s \in signing : signing = {s}

\* A client whose promise was resolved has no signature to wait for, and one
\* whose promise was rejected no open socket: that the continuation of sign()
\* sets it back to Auth leads nowhere.
Ended ==
  /\ promise = "resolved" => clientState \in {"Active", "Closed"} /\ signing = {}
  /\ promise \in Rejection => ready["client"] # "open"

PromiseInv == Awaiting /\ Ended

\* The message handler throws.
LEMMA CatchEnds ==
  ASSUME ClientTypes, PromiseInv, NEW reason \in Rejection, Catch(reason),
         clientState \in Connecting \/ UNCHANGED signing
  PROVE  PromiseInv'
<1>0. /\ promise \in {"pending", "resolved"} \cup Rejection
      /\ "pending" \notin Rejection /\ "resolved" \notin Rejection
      /\ ready \in [Ends -> {"open", "closing", "closed"}] /\ "client" \in Ends
  BY DEF ClientTypes, ClientTypeOK, Rejection, SocketTypeOK, Ends
<1>1. ready'["client"] # "open"
  BY <1>0 DEF Catch, CloseSocket
<1>2. CASE clientState \in Connecting
  <2>1. promise # "resolved"
    BY <1>2 DEF PromiseInv, Ended, Connecting
  <2>2. clientState' = "Closed" /\ promise' \in Rejection
    BY <1>0, <1>2, <2>1 DEF Catch, Settle
  <2> QED
    BY <1>0, <1>1, <2>2 DEF PromiseInv, Awaiting, Ended
<1>3. CASE clientState \notin Connecting
  <2>1. UNCHANGED <<clientState, promise, signing>>
    BY <1>3 DEF Catch
  <2> QED
    BY <1>1, <2>1 DEF PromiseInv, Awaiting, Ended
<1> QED
  BY <1>2, <1>3

\* The client makes its transport.
LEMMA ActivateEnds ==
  ASSUME ClientTypes, PromiseInv, NEW t, Activate(t), UNCHANGED signing,
         clientState \in {"BeforeWelcome", "Auth"}
  PROVE  PromiseInv'
<1>0. /\ promise \in {"pending", "resolved"} \cup Rejection
      /\ "pending" \notin Rejection /\ "resolved" \notin Rejection
  BY DEF ClientTypes, ClientTypeOK, Rejection
<1>1. clientState' = "Active" /\ promise' = IF promise = "pending" THEN "resolved" ELSE promise
  BY DEF Activate, Settle
<1>2. promise' # "pending" /\ (promise' = "resolved" => promise = "pending")
  BY <1>0, <1>1 DEF PromiseInv, Ended
<1>3. promise' = "resolved" => signing' = {}
  BY <1>2 DEF PromiseInv, Awaiting
<1>4. promise' \in Rejection => promise' = promise /\ ready' = ready
  BY <1>0, <1>1 DEF Activate
<1> QED
  BY <1>1, <1>2, <1>3, <1>4 DEF PromiseInv, Awaiting, Ended

\* authenticate().
LEMMA AuthenticateEnds ==
  ASSUME ClientTypes, PromiseInv, NEW types, Authenticate(types), UNCHANGED signing,
         clientState \in {"BeforeWelcome", "Auth"}
  PROVE  PromiseInv'
<1>1. CASE TryNext(types)
  <2>1. CASE Catch("SendFailed")
    BY <2>1, CatchEnds DEF Rejection
  <2>2. CASE clientState' = "Auth" /\ UNCHANGED <<promise, fin, ready>>
    BY <2>2 DEF PromiseInv, Awaiting, Ended, Connecting
  <2> QED
    BY <1>1, <2>1, <2>2 DEF TryNext
<1>2. CASE GiveUp(types)
  BY <1>2, CatchEnds DEF GiveUp, Rejection
<1> QED
  BY <1>1, <1>2 DEF Authenticate

\* Every step of the client.
LEMMA ClientEnds ==
  ASSUME ClientTypes, PromiseInv, ClientNext
  PROVE  PromiseInv'
<1>1. CASE ClientWelcome
  BY <1>1, ActivateEnds, AuthenticateEnds DEF ClientWelcome
<1>2. CASE ClientAccepted
  BY <1>2, ActivateEnds DEF ClientAccepted, ClientAuthResponse
<1>3. CASE ClientRefused
  BY <1>3, AuthenticateEnds DEF ClientRefused, ClientAuthResponse
<1>4. CASE ClientChallenged
  <2>1. CASE (Catch("UnexpectedMessage") \/ Catch("SignThrew")) /\ UNCHANGED signing
    BY <2>1, CatchEnds DEF Rejection
  <2>2. CASE /\ clientState = "Auth" /\ clientState' = "PubkeyChallenge"
             /\ \E s : signing' = signing \cup {s}
             /\ UNCHANGED <<promise, ready>>
    <3>1. PICK s : signing' = signing \cup {s}
      BY <2>2
    <3>2. promise = "pending" => signing = {}
      BY <2>2 DEF PromiseInv, Awaiting
    <3>3. promise' = "pending" => s \in signing' /\ signing' = {s}
      BY <2>2, <3>1, <3>2
    <3> QED
      BY <2>2, <3>3 DEF PromiseInv, Awaiting, Ended, Connecting
  <2> QED
    BY <1>4, <2>1, <2>2 DEF ClientChallenged, ClientAuthResponse
<1>5. CASE ClientNewerVersion \/ ClientBadMessage \/ ClientUnexpected
  BY <1>5, CatchEnds DEF ClientNewerVersion, ClientBadMessage, ClientUnexpected, Rejection
<1>6. CASE ClientIgnored \/ ClientDispatch
  BY <1>6 DEF ClientIgnored, ClientDispatch, clientVars, PromiseInv, Awaiting, Ended
<1>7. CASE ClientSigned
  <2>1. PICK s \in signing : signing' = signing \ {s}
    BY <1>7 DEF ClientSigned
  <2>2. clientState' = "Auth" /\ UNCHANGED <<promise, ready>>
    BY <1>7 DEF ClientSigned
  <2>3. promise = "pending" => signing' = {}
    BY <2>1 DEF PromiseInv, Awaiting
  <2> QED
    BY <2>2, <2>3 DEF PromiseInv, Awaiting, Ended, Connecting
<1>8. CASE ClientSignFails
  <2>1. PICK s \in signing : signing' = signing \ {s}
    BY <1>8 DEF ClientSignFails
  <2>2. UNCHANGED <<clientState, promise, ready>>
    BY <1>8 DEF ClientSignFails, sockVars
  <2>3. promise = "pending" => signing' = {}
    BY <2>1 DEF PromiseInv, Awaiting
  <2> QED
    BY <2>2, <2>3 DEF PromiseInv, Awaiting, Ended
<1>9. CASE ClientOnClose
  <2>1. /\ clientState' = "Closed" /\ ready'["client"] = "closed"
        /\ clientState \in Connecting => promise' # "pending"
        /\ clientState \notin Connecting => promise' = promise
        /\ promise' = "resolved" => promise = "resolved"
        /\ signing' = signing
    BY <1>9
    DEF ClientOnClose, CloseEvent, Settle, Ends, ClientTypes, SocketTypeOK
  <2>2. promise' # "pending"
    BY <2>1 DEF PromiseInv, Awaiting
  <2> QED
    BY <2>1, <2>2 DEF PromiseInv, Awaiting, Ended
<1> QED
  BY <1>1, <1>2, <1>3, <1>4, <1>5, <1>6, <1>7, <1>8, <1>9 DEF ClientNext, ClientReceive

\* Nobody else opens the client's socket again.
LEMMA ReadyStays ==
  ASSUME SocketTypeOK(Frame), AnyServer \/ SocketStep, ready["client"] # "open"
  PROVE  ready'["client"] # "open"
<1>1. CASE AnyServer
  BY <1>1 DEF AnyServer, ServerReads, ServerSends, CloseEvent, SocketTypeOK, Ends
<1>2. CASE SocketStep
  BY <1>2
  DEF SocketStep, Discard, UserClose, CloseSocket, Lose, SocketTypeOK, Ends
<1> QED
  BY <1>1, <1>2

LEMMA PromiseInvariant == OpenClientSpec => []PromiseInv
<1>1. OpenClientInit => PromiseInv
  <2> SUFFICES ASSUME OpenClientInit PROVE PromiseInv
    OBVIOUS
  <2>1. clientState = "BeforeWelcome" /\ promise = "pending" /\ signing = {}
    BY DEF OpenClientInit, ClientInit
  <2> QED
    BY <2>1 DEF PromiseInv, Awaiting, Ended, Connecting, Rejection
<1>2. TypeInv /\ PromiseInv /\ [OpenClientNext]_openClientVars => PromiseInv'
  <2> SUFFICES ASSUME TypeInv, PromiseInv, [OpenClientNext]_openClientVars PROVE PromiseInv'
    OBVIOUS
  <2>0. ClientTypes /\ SocketTypeOK(Frame)
    BY DEF TypeInv, ClientTypes
  <2>1. CASE ClientNext
    BY <2>0, <2>1, ClientEnds
  <2>2. CASE UNCHANGED clientVars /\ (AnyServer \/ SocketStep \/ UNCHANGED ready)
    <3>1. UNCHANGED <<clientState, promise, signing>>
      BY <2>2 DEF clientVars
    <3>2. ready["client"] # "open" => ready'["client"] # "open"
      BY <2>0, <2>2, ReadyStays
    <3> QED
      BY <3>1, <3>2 DEF PromiseInv, Awaiting, Ended
  <2> QED
    BY <2>1, <2>2 DEF OpenClientNext, AnyServer, openClientVars, sockVars
<1> QED
  BY <1>1, <1>2, TypeInvariant, PTL DEF OpenClientSpec

(***************************************************************************)
(* The promise, the state of the client and its socket agree, against any  *)
(* server, for any signer, and whether or not frames are delivered after   *)
(* close() (client.ts:398-541).                                            *)
(***************************************************************************)
THEOREM PromiseFollowsStateHolds == OpenClientSpec => []PromiseFollowsState
<1>1. PromiseInv => PromiseFollowsState
  BY DEF PromiseInv, Awaiting, Ended, PromiseFollowsState
<1> QED
  BY <1>1, PromiseInvariant, PTL

(***************************************************************************)
(* While connecting, the client asks for one signature at a time, and its  *)
(* continuation finds the state it left, whatever the server sends         *)
(* meanwhile (client.ts:481-488, 502).                                     *)
(***************************************************************************)
THEOREM OneSignatureHolds == OpenClientSpec => []OneSignature
<1>1. PromiseInv => OneSignature
  <2> SUFFICES ASSUME PromiseInv, promise = "pending"
               PROVE  IF clientState = "PubkeyChallenge" THEN Cardinality(signing) <= 1
                      ELSE signing = {}
    BY DEF OneSignature
  <2>1. CASE signing = {}
    BY <2>1, FS_EmptySet
  <2>2. CASE clientState = "PubkeyChallenge" /\ \E s \in signing : signing = {s}
    BY <2>2, FS_Singleton
  <2> QED
    BY <2>1, <2>2 DEF PromiseInv, Awaiting
<1> QED
  BY <1>1, PromiseInvariant, PTL

-----------------------------------------------------------------------------
(* The entries presented.                                                   *)

\* The auth requests among the frames under way to the server.
Asked == Without(wire["server"], {f \in Frame : f.kind # "authRequest"})

\* The server's side still gets frames; what the client sends still leaves.
Listens == ready["server"] = "open" \/ (LateDelivery /\ ready["server"] = "closing")

Carries == ready["client"] = "open" /\ ~fin["server"]

\* Of n entries of w, presented from its end, those in r arrived and those in
\* the frames a are under way.  Entries may be lost, but only the last ones,
\* and only when the connection is.
Due(r, a, w, n, listens, carries) ==
  /\ Len(r) <= n
  /\ \A k \in 1..Len(r) : r[k] = w[Len(w) + 1 - k]
  /\ listens =>
       /\ Len(r) + Len(a) <= n
       /\ carries => Len(r) + Len(a) = n
       /\ \A k \in 1..Len(a) : a[k].request = w[Len(w) + 1 - (Len(r) + k)]

Gone(types) == Len(All(types)) - Len(Left(types))

Requested(types) ==
  /\ FromTheEnd(types)
  /\ Due(requests, Asked, All(types), Gone(types), Listens, Carries)

\* Nothing is presented before the welcome.
Fresh ==
  clientState = "BeforeWelcome" =>
    /\ auth = connectAuth /\ signing = {}
    /\ wire["server"] = <<>> /\ requests = <<>>

RequestInv == Requested(authTypes) /\ Fresh

\* An entry is presented in a frame that leaves.
LEMMA DueSent ==
  ASSUME NEW r \in Seq(Auth), NEW a \in Seq(Frame), NEW w \in Seq(Auth), NEW n \in Nat,
         NEW l \in BOOLEAN, Due(r, a, w, n, l, TRUE),
         NEW f \in Frame, f.request = w[Len(w) - n]
  PROVE  Due(r, Append(a, f), w, n + 1, l, TRUE)
<1>1. /\ Len(Append(a, f)) = Len(a) + 1 /\ Append(a, f)[Len(a) + 1] = f
      /\ \A k \in 1..Len(a) : Append(a, f)[k] = a[k]
      /\ Len(r) \in Nat /\ Len(a) \in Nat /\ Len(w) \in Nat
  OBVIOUS
<1> DEFINE b == Append(a, f)
<1> HIDE DEF b
<1>2. Len(r) <= n + 1 /\ \A k \in 1..Len(r) : r[k] = w[Len(w) + 1 - k]
  BY <1>1 DEF Due
<1>3. ASSUME l PROVE Len(r) + Len(b) = n + 1
  BY <1>1, <1>3 DEF Due, b
<1>4. ASSUME l, NEW k \in 1..Len(b) PROVE b[k].request = w[Len(w) + 1 - (Len(r) + k)]
  <2>1. CASE k \in 1..Len(a)
    BY <1>1, <1>4, <2>1 DEF Due, b
  <2>2. CASE k = Len(a) + 1
    <3>1. Len(w) + 1 - (Len(r) + k) = Len(w) - n
      BY <1>1, <1>4, <2>2 DEF Due
    <3> QED
      BY <1>1, <2>2, <3>1 DEF b
  <2> QED
    BY <1>1, <1>4, <2>1, <2>2 DEF b
<1>5. ASSUME l PROVE Len(r) + Len(b) <= n + 1
  BY <1>1, <1>3, <1>5 DEF b
<1> QED
  BY <1>2, <1>3, <1>4, <1>5 DEF Due, b

\* The connection is lost, and with it the last frames under way.
LEMMA DueLost ==
  ASSUME NEW r \in Seq(Auth), NEW a \in Seq(Frame), NEW w \in Seq(Auth), NEW n \in Nat,
         NEW l \in BOOLEAN, NEW c \in BOOLEAN, Due(r, a, w, n, l, c),
         NEW m \in 0..Len(a)
  PROVE  Due(r, SubSeq(a, 1, m), w, n, l, FALSE)
<1>1. /\ Len(r) \in Nat /\ Len(a) \in Nat /\ Len(SubSeq(a, 1, m)) = m
      /\ \A k \in 1..m : SubSeq(a, 1, m)[k] = a[k]
  OBVIOUS
<1> QED
  BY <1>1 DEF Due

\* The server reads an entry.
LEMMA DueRead ==
  ASSUME NEW r \in Seq(Auth), NEW a \in Seq(Frame), NEW w \in Seq(Auth), NEW n \in Nat,
         NEW c \in BOOLEAN, Due(r, a, w, n, TRUE, c), a # <<>>, a[1].request \in Auth
  PROVE  Due(Append(r, a[1].request), Tail(a), w, n, TRUE, c)
<1>1. PICK e \in Auth : e = a[1].request
  OBVIOUS
<1>2. /\ Len(Append(r, e)) = Len(r) + 1 /\ Append(r, e)[Len(r) + 1] = e
      /\ \A k \in 1..Len(r) : Append(r, e)[k] = r[k]
      /\ Len(r) \in Nat /\ Len(a) \in Nat /\ Len(a) >= 1
      /\ Len(Tail(a)) = Len(a) - 1
      /\ \A k \in 1..Len(Tail(a)) : k + 1 \in 1..Len(a) /\ Tail(a)[k] = a[k + 1]
  OBVIOUS
<1> DEFINE s == Append(r, e)
           t == Tail(a)
<1> HIDE DEF s, t
<1>3. Len(r) + Len(a) <= n /\ (c => Len(r) + Len(a) = n)
  BY DEF Due
<1>4. Len(s) <= n /\ Len(s) + Len(t) <= n /\ (c => Len(s) + Len(t) = n)
  BY <1>2, <1>3 DEF s, t
<1>5. ASSUME NEW k \in 1..Len(s) PROVE s[k] = w[Len(w) + 1 - k]
  <2>1. CASE k \in 1..Len(r)
    BY <1>2, <2>1 DEF Due, s
  <2>2. CASE k = Len(r) + 1
    BY <1>1, <1>2, <2>2 DEF Due, s
  <2> QED
    BY <1>2, <1>5, <2>1, <2>2 DEF s
<1>6. ASSUME NEW k \in 1..Len(t) PROVE t[k].request = w[Len(w) + 1 - (Len(s) + k)]
  <2>1. k + 1 \in 1..Len(a) /\ t[k] = a[k + 1]
    BY <1>2, <1>6 DEF t
  <2>2. a[k + 1].request = w[Len(w) + 1 - (Len(r) + (k + 1))]
    BY <2>1 DEF Due
  <2>3. Len(r) + (k + 1) = Len(s) + k
    BY <1>2, <1>6 DEF s
  <2> QED
    BY <2>1, <2>2, <2>3
<1>7. Due(s, t, w, n, TRUE, c)
  BY <1>4, <1>5, <1>6 DEF Due
<1> QED
  BY <1>1, <1>7 DEF s, t

\* Nobody opens a socket or mends a connection.
LEMMA OnlyCloses ==
  ASSUME SocketTypeOK(Frame), ClientTypeOK, ClientNext \/ AnyServer \/ SocketStep
  PROVE  (Listens' => Listens) /\ (Carries' => Carries)
<1> USE DEF Listens, Carries, Ends, SocketTypeOK
<1>1. ASSUME UNCHANGED <<fin, ready>>
      PROVE  (Listens' => Listens) /\ (Carries' => Carries)
  BY <1>1
<1>2. ASSUME NEW e \in Ends, CloseSocket(e)
      PROVE  (Listens' => Listens) /\ (Carries' => Carries)
  BY <1>2 DEF CloseSocket, Peer
<1>3. ASSUME NEW reason, Catch(reason)
      PROVE  (Listens' => Listens) /\ (Carries' => Carries)
  BY <1>2, <1>3 DEF Catch
<1>4. ASSUME NEW types, Authenticate(types)
      PROVE  (Listens' => Listens) /\ (Carries' => Carries)
  BY <1>1, <1>3, <1>4 DEF Authenticate, TryNext, GiveUp
<1>5. ASSUME NEW e \in Ends, CloseEvent(e)
      PROVE  (Listens' => Listens) /\ (Carries' => Carries)
  BY <1>5 DEF CloseEvent, Peer
<1>6. CASE ClientNext
  <2>1. CASE ClientWelcome
    BY <1>1, <1>4, <2>1 DEF ClientWelcome, Activate
  <2>2. CASE ClientRefused
    BY <1>4, <2>2 DEF ClientRefused
  <2>3. CASE ClientNewerVersion \/ ClientBadMessage \/ ClientUnexpected
    BY <1>3, <2>3 DEF ClientNewerVersion, ClientBadMessage, ClientUnexpected
  <2>4. CASE ClientChallenged
    BY <1>1, <1>3, <2>4 DEF ClientChallenged
  <2>5. CASE ClientAccepted \/ ClientIgnored \/ ClientDispatch \/ ClientSigned \/ ClientSignFails
    BY <1>1, <2>5
    DEF ClientAccepted, Activate, ClientIgnored, ClientDispatch, ClientSigned, ClientSignFails,
        sockVars
  <2>6. CASE ClientOnClose
    BY <1>5, <2>6 DEF ClientOnClose
  <2> QED
    BY <1>6, <2>1, <2>2, <2>3, <2>4, <2>5, <2>6 DEF ClientNext, ClientReceive
<1>7. CASE AnyServer
  BY <1>1, <1>5, <1>7 DEF AnyServer, ServerReads, ServerSends
<1>8. CASE SocketStep
  <2>1. CASE \E e \in Ends : Discard(e)
    BY <1>1, <2>1 DEF Discard
  <2>2. CASE \E e \in Ends : UserClose(e)
    BY <1>2, <2>2 DEF UserClose
  <2>3. CASE Lose
    BY <2>3 DEF Lose
  <2> QED
    BY <1>8, <2>1, <2>2, <2>3 DEF SocketStep
<1> QED
  BY <1>6, <1>7, <1>8

LEMMA DueTypes ==
  ASSUME TypeInv
  PROVE  /\ Asked \in Seq(Frame) /\ requests \in Seq(Auth) /\ wire["server"] \in Seq(Frame)
         /\ Listens \in BOOLEAN /\ Carries \in BOOLEAN
         /\ SocketTypeOK(Frame) /\ ClientTypeOK
         /\ \A types : /\ All(types) \in Seq(Auth) /\ Left(types) \in Seq(Auth)
                       /\ FromTheEnd(types) => Gone(types) \in Nat
<1>1. /\ SocketTypeOK(Frame) /\ ClientTypeOK /\ requests \in Seq(Auth)
      /\ wire["server"] \in Seq(Frame)
  BY DEF TypeInv, ClientTypes, Requests, SocketTypeOK, Ends
<1>2. Asked \in Seq(Frame)
  BY <1>1, WithoutType DEF Asked
<1>3. Listens \in BOOLEAN /\ Carries \in BOOLEAN
  BY DEF Listens, Carries
<1>4. \A types : All(types) \in Seq(Auth) /\ Left(types) \in Seq(Auth)
  BY <1>1, Entries
<1>5. \A types : FromTheEnd(types) => Gone(types) \in Nat
  <2> TAKE types
  <2>1. Len(Left(types)) \in Nat /\ Len(All(types)) \in Nat
    BY <1>4
  <2> QED
    BY <2>1 DEF FromTheEnd, Gone
<1> QED
  BY <1>1, <1>2, <1>3, <1>4, <1>5

\* Nothing is read and nothing presented, or what is presented is lost.
LEMMA RequestedKept ==
  ASSUME TypeInv, TypeInv', NEW types, Requested(types), FromTheEnd(types)',
         UNCHANGED requests, All(types)' = All(types),
         Gone(types) <= Gone(types)', Carries' => Gone(types)' = Gone(types),
         Asked' = Asked, Listens' => Listens, Carries' => Carries
  PROVE  Requested(types)'
<1>1. /\ requests \in Seq(Auth) /\ Asked \in Seq(Frame) /\ All(types) \in Seq(Auth)
      /\ Gone(types) \in Nat /\ Listens \in BOOLEAN /\ Carries \in BOOLEAN
  BY DueTypes DEF Requested
<1>2. Gone(types)' \in Nat /\ Listens' \in BOOLEAN /\ Carries' \in BOOLEAN
  <2>1. Gone(types)' = Len(All(types)') - Len(Left(types)')
    BY DEF Gone
  <2>2. Len(All(types)') \in Nat /\ Len(Left(types)') \in Nat
        /\ Len(Left(types)') <= Len(All(types)')
    <3>1. ClientTypeOK'
      BY DEF TypeInv, ClientTypes
    <3>2. connectAuth' \in Seq(Auth) /\ auth' \in Seq(Auth)
      BY <3>1, AuthListsAssumption DEF ClientTypeOK
    <3>3. All(types)' \in Seq(Auth) /\ Left(types)' \in Seq(Auth)
      BY <3>2, WithoutType DEF All, Left, NotOffered
    <3> QED
      BY <3>3 DEF FromTheEnd
  <2> QED
    BY <2>1, <2>2 DEF Listens, Carries
<1>3. Due(requests, Asked, All(types), Gone(types), Listens, Carries)
  BY DEF Requested
<1>4. PICK r \in Seq(Auth), a \in Seq(Frame), w \in Seq(Auth) :
        r = requests /\ a = Asked /\ w = All(types)
  BY <1>1
<1>5. PICK n \in Nat, m \in Nat : n = Gone(types) /\ m = Gone(types)'
  BY <1>1, <1>2
<1>6. PICK l \in BOOLEAN, c \in BOOLEAN, l2 \in BOOLEAN, c2 \in BOOLEAN :
        l = Listens /\ c = Carries /\ l2 = Listens' /\ c2 = Carries'
  BY <1>1, <1>2
<1>7. Due(r, a, w, m, l2, c2)
  <2>1. Due(r, a, w, n, l, c)
    BY <1>3, <1>4, <1>5, <1>6
  <2>2. n <= m /\ (l2 => l) /\ (l2 /\ c2 => c /\ m = n)
    BY <1>5, <1>6
  <2>3. Len(r) \in Nat /\ Len(a) \in Nat
    OBVIOUS
  <2>4. Len(r) <= m /\ \A k \in 1..Len(r) : r[k] = w[Len(w) + 1 - k]
    BY <2>1, <2>2, <2>3 DEF Due
  <2>5. ASSUME l2
        PROVE  /\ Len(r) + Len(a) <= m
               /\ \A k \in 1..Len(a) : a[k].request = w[Len(w) + 1 - (Len(r) + k)]
    BY <2>1, <2>2, <2>3, <2>5 DEF Due
  <2>6. ASSUME l2, c2 PROVE Len(r) + Len(a) = m
    BY <2>1, <2>2, <2>3, <2>6 DEF Due
  <2> QED
    BY <2>4, <2>5, <2>6 DEF Due
<1>8. Due(requests', Asked', All(types)', Gone(types)', Listens', Carries')
  BY <1>4, <1>5, <1>6, <1>7
<1> QED
  BY <1>8 DEF Requested

\* authenticate() presents an entry, or finds none.
LEMMA AuthenticateRequests ==
  ASSUME TypeInv, TypeInv', NEW types, Requested(types), Deliverable("client"),
         Authenticate(types), UNCHANGED <<connectAuth, requests>>
  PROVE  Requested(types)'
<1>0. /\ SocketTypeOK(Frame) /\ ClientTypeOK /\ FromTheEnd(types)
      /\ wire["server"] \in Seq(Frame) /\ Asked \in Seq(Frame) /\ requests \in Seq(Auth)
      /\ All(types) \in Seq(Auth) /\ Left(types) \in Seq(Auth)
      /\ Gone(types) \in Nat /\ Listens \in BOOLEAN
  BY DueTypes DEF Requested
<1>1. /\ Pop(wire, "client") \in [Ends -> Seq(Frame)]
      /\ Pop(wire, "client")["server"] = wire["server"]
  BY <1>0, ClientPops
<1>2. (Listens' => Listens) /\ (Carries' => Carries)
      /\ (\A reason : Catch(reason) => ~Carries')
  BY <1>0 DEF Authenticate, TryNext, GiveUp, Catch, CloseSocket, Listens, Carries,
              SocketTypeOK, Ends, Peer
<1>3. \A reason : Catch(reason) => Asked' = Asked
  BY <1>1 DEF Catch, Asked
<1>4. CASE TryNext(types)
  <2>1. PICK last \in Usable(types) :
          /\ \A i \in Usable(types) : i <= last
          /\ lastAuth' = auth[last]
          /\ auth' = SubSeq(auth, 1, last - 1)
          /\ \/ /\ clientState' = "Auth"
                /\ wire' = Push(Pop(wire, "client"), "client", AuthRequest(auth[last]))
                /\ UNCHANGED <<promise, fin, ready>>
             \/ ready["client"] # "open" /\ Catch("SendFailed")
    BY <1>4 DEF TryNext
  <2>2. /\ Len(Left(types)') = Len(Left(types)) - 1 /\ Len(Left(types)) >= 1
        /\ All(types)' = All(types) /\ auth[last] \in Auth
        /\ auth[last] = All(types)[Len(Left(types))]
        /\ FromTheEnd(types)'
    BY <1>0, <2>1, PresentsLast
  <2>3. Gone(types)' = Gone(types) + 1
    <3>1. Gone(types)' = Len(All(types)') - Len(Left(types)')
      BY DEF Gone
    <3>2. Len(Left(types)) \in Nat /\ Len(All(types)) \in Nat
      BY <1>0
    <3> QED
      BY <2>2, <3>1, <3>2 DEF Gone
  <2>4. CASE /\ wire' = Push(Pop(wire, "client"), "client", AuthRequest(auth[last]))
             /\ UNCHANGED <<fin, ready>>
    <3>1. PICK f \in Frame : f = AuthRequest(auth[last])
      BY <2>2, FrameTypes
    <3>2. f.kind = "authRequest" /\ f.request = auth[last]
      BY <3>1 DEF AuthRequest
    <3>3. CASE Carries
      <4>1. wire'["server"] = Append(wire["server"], f)
        BY <1>0, <1>1, <2>4, <3>1, <3>3, SendsLast DEF Carries
      <4>2. Asked' = Append(Asked, f)
        <5> DEFINE T == {x \in Frame : x.kind # "authRequest"}
        <5>1. f \notin T
          BY <3>2
        <5> HIDE DEF T
        <5>2. Without(Append(wire["server"], f), T) = Append(Without(wire["server"], T), f)
          BY <1>0, <5>1, WithoutAppend
        <5> QED
          BY <4>1, <5>2 DEF Asked, T
      <4>3. Listens' = Listens /\ Carries'
        BY <2>4, <3>3 DEF Listens, Carries
      <4>4. PICK r \in Seq(Auth), a \in Seq(Frame), w \in Seq(Auth), n \in Nat,
                 l \in BOOLEAN :
              r = requests /\ a = Asked /\ w = All(types) /\ n = Gone(types) /\ l = Listens
        BY <1>0
      <4>5. Due(r, a, w, n, l, TRUE)
        BY <3>3, <4>4 DEF Requested
      <4>6. f.request = w[Len(w) - n]
        <5>1. Len(Left(types)) = Len(w) - n
          <6>1. Len(Left(types)) \in Nat /\ Len(All(types)) \in Nat
            BY <1>0
          <6> QED
            BY <4>4, <6>1 DEF Gone
        <5> QED
          BY <2>2, <3>2, <4>4, <5>1
      <4>7. Due(r, Append(a, f), w, n + 1, l, TRUE)
        BY <4>5, <4>6, DueSent
      <4>8. Due(requests', Asked', All(types)', Gone(types)', Listens', Carries')
        BY <2>2, <2>3, <4>2, <4>3, <4>4, <4>7
      <4> QED
        BY <2>2, <4>8 DEF Requested
    <3>4. CASE ~Carries
      <4>1. wire'["server"] = wire["server"]
        BY <1>0, <1>1, <2>4, <3>1, <3>4, SendsLast DEF Carries
      <4>2. Asked' = Asked
        BY <4>1 DEF Asked
      <4>3. Gone(types) <= Gone(types)'
        BY <1>0, <2>3
      <4> QED
        BY <1>2, <2>2, <3>4, <4>2, <4>3, RequestedKept
    <3> QED
      BY <3>3, <3>4
  <2>5. CASE Catch("SendFailed")
    <3>1. Gone(types) <= Gone(types)'
      BY <1>0, <2>3
    <3> QED
      BY <1>2, <1>3, <2>2, <2>5, <3>1, RequestedKept
  <2> QED
    BY <2>1, <2>4, <2>5
<1>5. CASE GiveUp(types)
  <2>1. auth' = <<>> /\ Usable(types) = {} /\ Catch("AuthenticationFailed")
    BY <1>5 DEF GiveUp
  <2>2. Left(types) = <<>> /\ Left(types)' = <<>>
    BY <1>0, <2>1, NoneLeft, WithoutEmpty DEF Left
  <2>3. All(types)' = All(types)
    BY DEF All, NotOffered
  <2>4. Gone(types)' = Gone(types) /\ Gone(types) <= Gone(types)'
    <3>1. Gone(types)' = Len(All(types)') - Len(Left(types)')
      BY DEF Gone
    <3> QED
      BY <1>0, <2>2, <2>3, <3>1 DEF Gone
  <2>5. FromTheEnd(types)'
    <3>1. Len(Left(types)') <= Len(All(types)')
          /\ \A k \in 1..Len(Left(types)') : Left(types)'[k] = All(types)'[k]
      BY <1>0, <2>2, <2>3 DEF FromTheEnd
    <3> QED
      BY <3>1 DEF FromTheEnd
  <2> QED
    BY <1>2, <1>3, <2>1, <2>3, <2>4, <2>5, RequestedKept
<1> QED
  BY <1>4, <1>5 DEF Authenticate

\* Until the welcome nothing is presented, whatever it will offer.
LEMMA FreshRequested ==
  ASSUME TypeInv, Fresh, clientState = "BeforeWelcome", NEW types
  PROVE  Requested(types)
<1>1. auth = connectAuth /\ wire["server"] = <<>> /\ requests = <<>>
  BY DEF Fresh
<1>2. Left(types) = All(types) /\ All(types) \in Seq(Auth) /\ Left(types) \in Seq(Auth)
  BY <1>1, DueTypes DEF Left, All
<1>3. Asked = <<>>
  BY <1>1, WithoutEmpty DEF Asked
<1>4. Len(All(types)) \in Nat
  BY <1>2
<1>5. Gone(types) = 0
  BY <1>2, <1>4 DEF Gone
<1>6. FromTheEnd(types)
  BY <1>2, <1>4 DEF FromTheEnd
<1>7. Due(requests, Asked, All(types), 0, Listens, Carries)
  BY <1>1, <1>3 DEF Due
<1> QED
  BY <1>5, <1>6, <1>7 DEF Requested

\* The other steps, for the entries: none is touched.
LEMMA EntriesKept ==
  ASSUME TypeInv, TypeInv', NEW types, Requested(types), UNCHANGED <<connectAuth, auth, requests>>,
         Asked' = Asked, Listens' => Listens, Carries' => Carries
  PROVE  Requested(types)'
<1>1. All(types)' = All(types) /\ Left(types)' = Left(types)
  BY DEF All, Left, NotOffered
<1>2. Gone(types)' = Gone(types)
  BY <1>1 DEF Gone
<1>3. FromTheEnd(types)'
  BY <1>1 DEF FromTheEnd, Requested
<1>4. Gone(types) <= Gone(types)'
  BY <1>2, DueTypes DEF Requested
<1> QED
  BY <1>1, <1>2, <1>3, <1>4, RequestedKept

\* Every step of the client.
LEMMA ClientRequests ==
  ASSUME TypeInv, TypeInv', RequestInv, ClientNext, UNCHANGED requests
  PROVE  RequestInv'
<1>0. /\ SocketTypeOK(Frame) /\ ClientTypeOK /\ wire["server"] \in Seq(Frame)
      /\ wire \in [Ends -> Seq(Frame)] /\ Requested(authTypes) /\ Fresh
  BY DueTypes DEF RequestInv, SocketTypeOK
<1>1. (Listens' => Listens) /\ (Carries' => Carries)
  BY <1>0, OnlyCloses
<1>2. PICK types : types = authTypes
  OBVIOUS
<1>3. UNCHANGED connectAuth
  BY DEF ClientNext, ClientReceive, ClientWelcome, ClientNewerVersion, ClientAccepted,
         ClientRefused, ClientChallenged, ClientIgnored, ClientBadMessage, ClientUnexpected,
         ClientDispatch, ClientOnClose, ClientSigned, ClientSignFails, clientVars
<1>4. clientState' # "BeforeWelcome"
  <2>1. \A reason : Catch(reason) => clientState' = "Closed" \/ clientState \in {"Active", "Closed"}
    BY <1>0 DEF Catch, ClientTypeOK, ClientState
  <2>2. \A t : Authenticate(t) /\ clientState \in Connecting => clientState' # "BeforeWelcome"
    BY <2>1 DEF Authenticate, TryNext, GiveUp, Connecting
  <2>3. CASE ClientWelcome
    BY <2>2, <2>3 DEF ClientWelcome, Activate, Connecting
  <2>4. CASE ClientNewerVersion \/ ClientBadMessage \/ ClientUnexpected
    BY <2>1, <2>4 DEF ClientNewerVersion, ClientBadMessage, ClientUnexpected, Catch
  <2>5. CASE ClientRefused
    BY <2>2, <2>5 DEF ClientRefused, ClientAuthResponse, Connecting
  <2>6. CASE ClientChallenged
    BY <2>1, <2>6 DEF ClientChallenged, ClientAuthResponse
  <2>7. CASE ClientAccepted \/ ClientIgnored \/ ClientDispatch \/ ClientSigned \/ ClientOnClose
    BY <2>7
    DEF ClientAccepted, Activate, ClientIgnored, ClientAuthResponse, ClientDispatch, clientVars,
        ClientSigned, ClientOnClose
  <2>8. CASE ClientSignFails
    BY <1>0, <2>8 DEF ClientSignFails, Fresh
  <2> QED
    BY <2>3, <2>4, <2>5, <2>6, <2>7, <2>8 DEF ClientNext, ClientReceive
<1>5. Fresh'
  BY <1>4 DEF Fresh
<1>6. ASSUME UNCHANGED <<auth, authTypes>>, Asked' = Asked
      PROVE  Requested(authTypes)'
  <2>1. Requested(types)'
    BY <1>0, <1>1, <1>2, <1>3, <1>6, EntriesKept
  <2> QED
    BY <1>2, <1>6, <2>1
<1>7. CASE ClientWelcome
  <2>1. PICK offered : offered = Received.auth
    OBVIOUS
  <2>2. authTypes' = offered /\ clientState = "BeforeWelcome" /\ Deliverable("client")
        /\ (Activate(Received.userId) \/ Authenticate(offered))
    BY <1>7, <2>1 DEF ClientWelcome
  <2>3. Requested(offered)
    BY <1>0, <2>2, FreshRequested
  <2>4. ASSUME Authenticate(offered) PROVE Requested(offered)'
    BY <1>3, <2>2, <2>3, <2>4, AuthenticateRequests
  <2>5. ASSUME Activate(Received.userId) PROVE Requested(offered)'
    <3>1. UNCHANGED auth /\ wire' = Pop(wire, "client")
      BY <2>5 DEF Activate
    <3>2. Asked' = Asked
      BY <1>0, <2>2, <3>1, ClientPops DEF Asked
    <3> QED
      BY <1>1, <1>3, <2>3, <3>1, <3>2, EntriesKept
  <2>6. Requested(offered)'
    BY <2>2, <2>4, <2>5
  <2> QED
    BY <1>5, <2>2, <2>6 DEF RequestInv
<1>8. CASE ClientRefused
  <2>1. Authenticate(types) /\ Deliverable("client") /\ authTypes' = types
    BY <1>2, <1>8 DEF ClientRefused, ClientAuthResponse
  <2>2. Requested(types)'
    BY <1>0, <1>2, <1>3, <2>1, AuthenticateRequests
  <2> QED
    BY <1>5, <2>1, <2>2 DEF RequestInv
<1>9. CASE ~(ClientWelcome \/ ClientRefused)
  <2>1. UNCHANGED <<auth, authTypes>>
    BY <1>9
    DEF ClientNext, ClientReceive, ClientNewerVersion, ClientAccepted, Activate,
        ClientChallenged, ClientIgnored, ClientBadMessage, ClientUnexpected,
        ClientDispatch, ClientOnClose, ClientSigned, ClientSignFails, clientVars
  <2>2. Asked' = Asked
    <3>1. CASE wire'["server"] = wire["server"]
      BY <3>1 DEF Asked
    <3>2. CASE Answers
      <4>1. PICK s \in signing :
              wire' = Push(wire, "client", ChallengeResponse(s.method, s.challenge))
        BY <3>2 DEF Answers
      <4>2. s.method \in Auth /\ s.challenge \in Nat
        BY <1>0 DEF ClientTypeOK
      <4>3. PICK f \in Frame : f = ChallengeResponse(s.method, s.challenge)
        BY <4>2, FrameTypes
      <4>4. wire'["server"] = Append(wire["server"], f) \/ wire'["server"] = wire["server"]
        BY <1>0, <4>1, <4>3, SendsLast
      <4> DEFINE T == {x \in Frame : x.kind # "authRequest"}
      <4>5. f \in T
        BY <4>3 DEF ChallengeResponse
      <4> HIDE DEF T
      <4>6. Without(Append(wire["server"], f), T) = Without(wire["server"], T)
        BY <1>0, <4>5, WithoutAppend
      <4> QED
        BY <4>4, <4>6 DEF Asked, T
    <3>3. CASE Presents
      <4>1. PICK last \in DOMAIN auth : auth' = SubSeq(auth, 1, last - 1)
        BY <3>3 DEF Presents
      <4>2. auth \in Seq(Auth) /\ last \in 1..Len(auth)
        BY <1>0, <4>1 DEF ClientTypeOK
      <4>3. Len(SubSeq(auth, 1, last - 1)) = last - 1
        BY <4>2
      <4> QED
        BY <2>1, <4>1, <4>2, <4>3
    <3> QED
      BY <3>1, <3>2, <3>3, ClientSends DEF TypeInv
  <2> QED
    BY <1>5, <1>6, <2>1, <2>2 DEF RequestInv
<1> QED
  BY <1>7, <1>8, <1>9

\* Every step of the server and the connection.
LEMMA ServerRequests ==
  ASSUME TypeInv, TypeInv', RequestInv, AnyServer \/ (SocketStep /\ UNCHANGED requests),
         UNCHANGED clientVars
  PROVE  RequestInv'
<1>0. /\ SocketTypeOK(Frame) /\ ClientTypeOK /\ wire["server"] \in Seq(Frame)
      /\ Requested(authTypes) /\ Fresh
      /\ Asked \in Seq(Frame) /\ requests \in Seq(Auth) /\ All(authTypes) \in Seq(Auth)
      /\ Gone(authTypes) \in Nat /\ Listens \in BOOLEAN /\ Carries \in BOOLEAN
  BY DueTypes DEF RequestInv, Requested
<1>1. (Listens' => Listens) /\ (Carries' => Carries)
  BY <1>0, OnlyCloses
<1>2. UNCHANGED <<connectAuth, clientState, auth, authTypes, signing>>
  BY DEF clientVars
<1>3. PICK types : types = authTypes
  OBVIOUS
<1>4. All(types)' = All(types) /\ Left(types)' = Left(types)
  BY <1>2 DEF All, Left, NotOffered
<1>5. Gone(types)' = Gone(types) /\ FromTheEnd(types)'
  BY <1>0, <1>3, <1>4 DEF Gone, FromTheEnd, Requested
<1>6. ~ServerReads => UNCHANGED requests
  BY DEF AnyServer, ServerSends
<1> DEFINE T == {x \in Frame : x.kind # "authRequest"}
           s == wire["server"]
<1>7. Asked = Without(s, T) /\ Asked' = Without(s', T)
  BY DEF Asked
<1>8. PICK r \in Seq(Auth), a \in Seq(Frame), w \in Seq(Auth), n \in Nat,
           l \in BOOLEAN, c \in BOOLEAN :
        /\ r = requests /\ a = Asked /\ w = All(types) /\ n = Gone(types)
        /\ l = Listens /\ c = Carries
  BY <1>0, <1>3
<1>9. Due(r, a, w, n, l, c)
  BY <1>0, <1>3, <1>8 DEF Requested
<1>10. ASSUME Due(requests', Asked', w, n, Listens', Carries')
       PROVE  Requested(types)'
  BY <1>4, <1>5, <1>8, <1>10 DEF Requested
<1> HIDE DEF T
<1>11. ASSUME s' = s /\ ~ServerReads PROVE Requested(types)'
  BY <1>0, <1>1, <1>2, <1>3, <1>6, <1>7, <1>11, EntriesKept
<1>12. ASSUME s' = Tail(s), s # <<>>,
              ServerReads \/ (~LateDelivery /\ ready["server"] = "closing"),
              UNCHANGED <<fin, ready>>
       PROVE  Requested(types)'
  <2>1. Listens' = Listens /\ Carries' = Carries
    BY <1>12 DEF Listens, Carries
  <2>2. CASE ServerReads
    <3>1. Listens
      BY <2>2 DEF ServerReads, Deliverable, Listens
    <3>2. Head(s) = s[1] /\ s[1] \in Frame
      BY <1>0, <1>12
    <3>3. CASE s[1].kind = "authRequest"
      <4>1. s[1] \notin T
        BY <3>3 DEF T
      <4>2. Without(s, T) # <<>> /\ Without(s, T)[1] = s[1]
            /\ Without(Tail(s), T) = Tail(Without(s, T))
        BY <1>0, <1>12, <4>1, WithoutTail
      <4>3. a # <<>> /\ a[1] = s[1] /\ Asked' = Tail(a)
        BY <1>7, <1>8, <1>12, <4>2
      <4>4. requests' = Append(r, a[1].request)
        BY <1>8, <2>2, <3>2, <3>3, <4>3 DEF ServerReads
      <4>5. a[1].request \in Auth
        BY <1>0, <1>12, <3>3, <4>3 DEF TypeInv, Requests
      <4>6. Due(r, a, w, n, TRUE, c)
        BY <1>8, <1>9, <3>1
      <4>7. Due(Append(r, a[1].request), Tail(a), w, n, TRUE, c)
        BY <4>3, <4>5, <4>6, DueRead
      <4> QED
        BY <1>8, <1>10, <2>1, <3>1, <4>3, <4>4, <4>7
    <3>4. CASE s[1].kind # "authRequest"
      <4>1. s[1] \in T
        BY <3>2, <3>4 DEF T
      <4>2. Without(Tail(s), T) = Without(s, T)
        BY <1>0, <1>12, <4>1, WithoutTail
      <4>3. UNCHANGED requests
        BY <2>2, <3>2, <3>4 DEF ServerReads
      <4> QED
        BY <1>0, <1>1, <1>2, <1>3, <1>7, <1>12, <4>2, <4>3, EntriesKept
    <3> QED
      BY <3>3, <3>4
  <2>3. CASE ~ServerReads
    <3>1. ~Listens
      BY <1>12, <2>3 DEF Listens
    <3>2. Due(r, Asked', w, n, FALSE, c)
      BY <1>9 DEF Due
    <3> QED
      BY <1>6, <1>8, <1>10, <2>1, <2>3, <3>1, <3>2
  <2> QED
    BY <2>2, <2>3
<1>13. ASSUME \E k \in 0..Len(s) : s' = SubSeq(s, 1, k),
              ~ServerReads, fin' = [e \in Ends |-> TRUE], UNCHANGED ready
       PROVE  Requested(types)'
  <2>1. ~Carries' /\ Listens' = Listens /\ UNCHANGED requests
    BY <1>6, <1>13 DEF Carries, Listens, Ends
  <2>2. PICK k \in 0..Len(s) : s' = SubSeq(s, 1, k)
    BY <1>13
  <2>3. PICK m \in 0..Len(a) : Asked' = SubSeq(a, 1, m)
    <3>1. PICK q \in Seq(Frame) : q = s
      BY <1>0
    <3>2. k \in 0..Len(q)
      BY <3>1
    <3>3. \E m \in 0..Len(Without(q, T)) :
            Without(SubSeq(q, 1, k), T) = SubSeq(Without(q, T), 1, m)
      BY <3>2, WithoutSubSeq
    <3> QED
      BY <1>7, <1>8, <2>2, <3>1, <3>3
  <2>4. Due(r, SubSeq(a, 1, m), w, n, l, FALSE)
    BY <1>9, DueLost
  <2>5. Listens' = l /\ Carries' = FALSE /\ requests' = r
    BY <1>8, <2>1 DEF Carries, Listens
  <2>6. Due(requests', Asked', w, n, Listens', Carries')
    BY <2>3, <2>4, <2>5
  <2> QED
    BY <1>10, <2>6
<1>14. Requested(types)'
  BY <1>0, <1>11, <1>12, <1>13, ServerSideShrinks
<1>15. Fresh'
  <2> SUFFICES ASSUME clientState = "BeforeWelcome" PROVE s' = <<>> /\ UNCHANGED requests
    BY <1>0, <1>2 DEF Fresh
  <2>1. s = <<>>
    BY <1>0 DEF Fresh
  <2>2. ~ServerReads
    BY <2>1 DEF ServerReads, Deliverable
  <2>3. s' = <<>>
    BY <1>0, <2>1, <2>2, ServerSideShrinks
  <2> QED
    BY <1>6, <2>2, <2>3
<1> QED
  BY <1>2, <1>3, <1>14, <1>15 DEF RequestInv

(***************************************************************************)
(* What was requested is, in order, the usable entries from the end of the *)
(* list, and nothing the server sends, at any time, makes the client       *)
(* present one twice or one whose mode it was not offered                  *)
(* (client.ts:414-452).                                                    *)
(***************************************************************************)
THEOREM OfferedModesOnlyHolds == OpenClientSpec => []OfferedModesOnly
<1>1. OpenClientInit => RequestInv
  <2> SUFFICES ASSUME OpenClientInit PROVE RequestInv
    OBVIOUS
  <2>1. auth = connectAuth /\ requests = <<>> /\ wire["server"] = <<>> /\ signing = {}
        /\ connectAuth \in Seq(Auth)
    BY AuthListsAssumption DEF OpenClientInit, ClientInit, SocketInit, Ends
  <2>2. Left(authTypes) = All(authTypes) /\ All(authTypes) \in Seq(Auth)
    BY <2>1, WithoutType DEF Left, All
  <2>3. Asked = <<>>
    BY <2>1, WithoutEmpty DEF Asked
  <2>4. Len(All(authTypes)) \in Nat
    BY <2>2
  <2>5. Gone(authTypes) = 0 /\ FromTheEnd(authTypes)
    BY <2>2, <2>4 DEF Gone, FromTheEnd
  <2>6. Due(requests, Asked, All(authTypes), 0, Listens, Carries)
    BY <2>1, <2>3 DEF Due
  <2> QED
    BY <2>1, <2>5, <2>6 DEF RequestInv, Requested, Fresh
<1>2. TypeInv /\ TypeInv' /\ RequestInv /\ [OpenClientNext]_openClientVars => RequestInv'
  <2> SUFFICES ASSUME TypeInv, TypeInv', RequestInv, [OpenClientNext]_openClientVars PROVE RequestInv'
    OBVIOUS
  <2>1. CASE ClientNext /\ UNCHANGED requests
    BY <2>1, ClientRequests
  <2>2. CASE (AnyServer \/ (SocketStep /\ UNCHANGED requests)) /\ UNCHANGED clientVars
    BY <2>2, ServerRequests
  <2>3. CASE UNCHANGED openClientVars
    BY <2>3
    DEF openClientVars, clientVars, sockVars, RequestInv, Requested, Fresh, FromTheEnd, Left, All, Gone,
        Asked, Listens, Carries
  <2> QED
    BY <2>1, <2>2, <2>3 DEF OpenClientNext, AnyServer
<1>3. TypeInv /\ RequestInv => OfferedModesOnly
  <2> SUFFICES ASSUME TypeInv, RequestInv PROVE OfferedModesOnly
    OBVIOUS
  <2> DEFINE w == All(authTypes)
             rev == Reverse(w)
  <2>1. /\ requests \in Seq(Auth) /\ w \in Seq(Auth) /\ Candidates = rev
        /\ Left(authTypes) \in Seq(Auth)
    BY DueTypes DEF Candidates, All
  <2>2. Requested(authTypes)
    BY DEF RequestInv
  <2>3. Len(requests) <= Len(w)
        /\ \A k \in 1..Len(requests) : requests[k] = w[Len(w) + 1 - k]
    BY <2>1, <2>2 DEF Requested, Due, Gone
  <2>4. rev \in Seq(Auth) /\ Len(rev) = Len(w)
        /\ \A k \in 1..Len(w) : rev[k] = w[Len(w) + 1 - k]
    <3> HIDE DEF w
    <3>1. Len(w) \in Nat
      BY <2>1
    <3>2. \A k \in 1..Len(w) : (Len(w) - k) + 1 \in 1..Len(w) /\ (Len(w) - k) + 1 = Len(w) + 1 - k
      BY <3>1
    <3> QED
      BY <2>1, <3>1, <3>2 DEF Reverse
  <2> HIDE DEF w, rev
  <2>5. SubSeq(requests, 1, Len(requests)) = SubSeq(rev, 1, Len(requests))
    BY <2>1, <2>3, <2>4
  <2> QED
    BY <2>1, <2>3, <2>4, <2>5 DEF OfferedModesOnly, IsPrefix
<1> QED
  BY <1>1, <1>2, <1>3, TypeInvariant, PTL DEF OpenClientSpec
=============================================================================
