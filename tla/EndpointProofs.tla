--------------------------- MODULE EndpointProofs ---------------------------
(***************************************************************************)
(* The types each end of the handshake keeps, whatever is at the other     *)
(* end, and what authenticate() does with the entries it was given.        *)
(***************************************************************************)
EXTENDS ClientConnect, ServerAuth, CommonProofs

Frame == ServerFrame \cup ClientFrame

\* The frames the endpoints build are frames.
LEMMA FrameTypes ==
  /\ \A u \in Users \cup {NULL}, m \in SUBSET AuthMode : Welcome(1, u, m) \in Frame
  /\ \A u \in Users : AuthResponse("userId", u) \in Frame
  /\ \A c \in AuthErrorCode : AuthResponse("error", c) \in Frame
  /\ \A n \in Nat : AuthResponse("pubkeyChallenge", n) \in Frame
  /\ \A m \in Auth : AuthRequest(m) \in Frame
  /\ \A m \in Auth, n \in Nat : ChallengeResponse(m, n) \in Frame
  /\ \A m \in RpcMessage : m \in Frame /\ m.kind = "rpc"
  BY RpcMessageAssumption
  DEF Frame, ServerFrame, ClientFrame, Welcome, ServerWelcome, AuthResponse,
      ServerAuthResponse, AuthOutcome, AuthRequest, ClientAuthRequest,
      ChallengeResponse, ClientPubkeyChallengeResponse, Signature

\* What a frame of each kind holds.
LEMMA FrameContents ==
  ASSUME NEW f \in Frame
  PROVE  /\ f.kind = "welcome" => f.userId \in Users \cup {NULL} /\ f.auth \in SUBSET AuthMode
         /\ f.kind = "authResponse" =>
              /\ f.response.oneofKind = "userId" => f.response.value \in Users
              /\ f.response.oneofKind = "error" => f.response.value \in AuthErrorCode
              /\ f.response.oneofKind = "pubkeyChallenge" => f.response.value \in Nat
         /\ f.kind = "authRequest" => f.request \in Auth \cup {NULL}
         /\ f.kind = "challengeResponse" => f.signature \in Signature
  BY RpcMessageAssumption
  DEF Frame, ServerFrame, ClientFrame, ServerWelcome, ServerAuthResponse, AuthOutcome,
      ClientAuthRequest, ClientPubkeyChallengeResponse, Garbage

-----------------------------------------------------------------------------
(* The server.                                                              *)

(***************************************************************************)
(* ServerTypeOK alone is not inductive: the server reads the fields of     *)
(* pubkeyChallenge in State.PubkeyChallenge, and it may not be NULL there. *)
(***************************************************************************)
Challenged == serverState = "PubkeyChallenge" => pubkeyChallenge \in Challenge

ServerTypes == ServerTypeOK /\ Challenged /\ SocketTypeOK(Frame)

\* Every step of the server keeps the server's variables and the wire typed.
LEMMA ServerTypesStep ==
  ASSUME ServerTypes, ServerNext \/ ServerSend
  PROVE  ServerTypes'
<1> USE DEF ServerTypes
<1>0. "server" \in Ends
  BY DEF Ends
<1>1. ASSUME Deliverable("server")
      PROVE  /\ wire["server"] # <<>> /\ Arrived \in Frame
             /\ Pop(wire, "server") \in [Ends -> Seq(Frame)]
  BY <1>0, <1>1, PopFacts DEF Deliverable, Arrived, SocketTypeOK
<1>2. ASSUME NEW state \in ServerState, NEW oneof, NEW v, AuthResponse(oneof, v) \in Frame,
             Respond(state, oneof, v)
      PROVE  SocketTypeOK(Frame)' /\ serverState' = state /\ options' = options
  BY <1>0, <1>2, PushFacts DEF Respond, SocketTypeOK
<1>3. ASSUME Deliverable("server"), ServerThrow PROVE ServerTypes'
  BY <1>0, <1>1, <1>3, SocketTypes
  DEF ServerThrow, serverVars, ServerTypeOK, Challenged, SocketTypeOK
<1>4. CASE ServerAuthRequest
  <2>1. Arrived.request \in Auth \cup {NULL} /\ Pop(wire, "server") \in [Ends -> Seq(Frame)]
    BY <1>1, <1>4, FrameContents DEF ServerAuthRequest
  <2>2. [call |-> "handleAuthRequest", request |-> Arrived.request] \in PendingCall
    BY <2>1 DEF PendingCall
  <2> QED
    BY <1>4, <2>1, <2>2
    DEF ServerAuthRequest, ServerTypeOK, ServerState, Challenged, SocketTypeOK
<1>5. CASE ServerChallengeResponse
  <2>1. Arrived.signature \in Signature /\ Pop(wire, "server") \in [Ends -> Seq(Frame)]
    BY <1>1, <1>5, FrameContents DEF ServerChallengeResponse
  <2>2. pubkeyChallenge \in Challenge
    BY <1>5 DEF ServerChallengeResponse, Challenged
  <2>3. [call |-> "validate", validate |-> pubkeyChallenge.validate,
         challenge |-> pubkeyChallenge.challenge, signature |-> Arrived.signature]
          \in PendingCall
    BY <2>1, <2>2 DEF PendingCall, Challenge
  <2> QED
    BY <1>5, <2>1, <2>3
    DEF ServerChallengeResponse, ServerTypeOK, ServerState, Challenged, SocketTypeOK
<1>6. CASE ServerBadMessage
  BY <1>3, <1>6 DEF ServerBadMessage
<1>7. CASE ServerUnexpected
  BY <1>3, <1>7 DEF ServerUnexpected
<1>8. CASE ServerDispatch
  BY <1>1, <1>8 DEF ServerDispatch, serverVars, ServerTypeOK, Challenged, SocketTypeOK
<1>9. CASE ServerSend
  <2>1. PICK m \in RpcMessage : wire' = Push(wire, "server", m)
    BY <1>9 DEF ServerSend
  <2>2. wire' \in [Ends -> Seq(Frame)]
    BY <1>0, <2>1, FrameTypes, PushFacts DEF SocketTypeOK
  <2> QED
    BY <1>9, <2>2 DEF ServerSend, serverVars, ServerTypeOK, Challenged, SocketTypeOK
<1>10. CASE ServerOnClose
  BY <1>0, <1>10, SocketTypes DEF ServerOnClose, serverVars, ServerTypeOK, Challenged
<1>11. ASSUME NEW p \in pending, NEW id \in Users, ServerAccepts(p, id) PROVE ServerTypes'
  <2>1. SocketTypeOK(Frame)' /\ serverState' = "Active" /\ options' = options
    BY <1>2, <1>11, FrameTypes DEF ServerAccepts, ServerState
  <2> QED
    BY <1>11, <2>1 DEF ServerAccepts, AuthReturns, ServerTypeOK, ServerState, Challenged
<1>12. ASSUME NEW p \in pending, NEW id \in Users, ServerValidates(p, id) PROVE ServerTypes'
  <2>1. SocketTypeOK(Frame)' /\ serverState' = "Active" /\ options' = options
    BY <1>2, <1>12, FrameTypes DEF ServerValidates, ServerState
  <2> QED
    BY <1>12, <2>1 DEF ServerValidates, ValidateReturns, ServerTypeOK, ServerState, Challenged
<1>13. ASSUME NEW p \in pending, ServerRefuses(p) PROVE ServerTypes'
  <2>1. SocketTypeOK(Frame)' /\ serverState' = "Auth" /\ options' = options
    BY <1>2, <1>13, FrameTypes DEF ServerRefuses, ServerState, AuthErrorCode
  <2> QED
    BY <1>13, <2>1 DEF ServerRefuses, AuthReturns, ServerTypeOK, ServerState, Challenged
<1>14. ASSUME NEW p \in pending, ServerChallenges(p) PROVE ServerTypes'
  <2>1. issued' \in Nat /\ p.request \in Auth
    BY <1>14 DEF ServerChallenges, Supported, AuthReturns, ServerTypeOK, PendingCall
  <2>2. SocketTypeOK(Frame)' /\ serverState' = "PubkeyChallenge" /\ options' = options
    BY <1>2, <1>14, <2>1, FrameTypes DEF ServerChallenges, ServerState
  <2>3. pubkeyChallenge' \in Challenge
    BY <1>14, <2>1 DEF ServerChallenges, Challenge
  <2> QED
    BY <1>14, <2>1, <2>2, <2>3
    DEF ServerChallenges, AuthReturns, ServerTypeOK, ServerState, Challenged
<1>15. ASSUME NEW p \in pending, ServerRejects(p) PROVE ServerTypes'
  <2>1. SocketTypeOK(Frame)' /\ serverState' = "Auth" /\ options' = options
    BY <1>2, <1>15, FrameTypes DEF ServerRejects, ServerState, AuthErrorCode
  <2> QED
    BY <1>15, <2>1 DEF ServerRejects, ValidateReturns, ServerTypeOK, ServerState, Challenged
<1>16. ASSUME NEW p \in pending, ServerValidateThrows(p) PROVE ServerTypes'
  <2>1. SocketTypeOK(Frame)' /\ serverState' = serverState /\ options' = options
    BY <1>2, <1>16, FrameTypes DEF ServerValidateThrows, ServerTypeOK, AuthErrorCode
  <2> QED
    BY <1>16, <2>1 DEF ServerValidateThrows, ValidateReturns, ServerTypeOK, Challenged
<1>17. CASE ServerReturn
  BY <1>11, <1>12, <1>13, <1>14, <1>15, <1>16, <1>17 DEF ServerReturn
<1> QED
  BY <1>4, <1>5, <1>6, <1>7, <1>8, <1>9, <1>10, <1>17 DEF ServerNext, ServerReceive

-----------------------------------------------------------------------------
(* The client.                                                              *)

(***************************************************************************)
(* ClientTypeOK alone is not inductive: the client reads the fields of     *)
(* lastAuth in State.Auth, and it may not be NULL there.                   *)
(***************************************************************************)
Presented ==
  clientState \in {"Auth", "PubkeyChallenge"} \/ signing # {} => lastAuth \in Auth

ClientTypes == ClientTypeOK /\ Presented /\ SocketTypeOK(Frame)

\* What an exception in the client's message handler does.
LEMMA CatchTypes ==
  ASSUME ClientTypes, wire["client"] # <<>>, NEW reason \in Rejection, Catch(reason)
  PROVE  /\ SocketTypeOK(Frame)'
         /\ clientState' \in {"Active", "Closed"}
         /\ promise' \in {"pending", "resolved"} \cup Rejection
<1> USE DEF ClientTypes
<1>0. "client" \in Ends
  BY DEF Ends
<1>1. wire' \in [Ends -> Seq(Frame)]
  BY <1>0, PopFacts DEF Catch, SocketTypeOK
<1>2. SocketTypeOK(Frame)'
  BY <1>0, <1>1, SocketTypes DEF Catch, SocketTypeOK
<1> QED
  BY <1>2 DEF Catch, Settle, ClientTypeOK, ClientState

\* What authenticate() does.
LEMMA AuthenticateTypes ==
  ASSUME ClientTypes, wire["client"] # <<>>, NEW types, Authenticate(types)
  PROVE  /\ SocketTypeOK(Frame)'
         /\ clientState' \in {"Auth", "Active", "Closed"}
         /\ promise' \in {"pending", "resolved"} \cup Rejection
         /\ auth' \in Seq(Auth)
         /\ lastAuth' \in Auth \/ (lastAuth' = lastAuth /\ clientState' # "Auth")
<1> USE DEF ClientTypes
<1>0. "client" \in Ends
  BY DEF Ends
<1>1. CASE TryNext(types)
  <2>1. PICK last \in Usable(types) :
          /\ lastAuth' = auth[last]
          /\ auth' = SubSeq(auth, 1, last - 1)
          /\ \/ /\ clientState' = "Auth"
                /\ wire' = Push(Pop(wire, "client"), "client", AuthRequest(auth[last]))
                /\ UNCHANGED <<promise, fin, ready>>
             \/ Catch("SendFailed")
    BY <1>1 DEF TryNext
  <2>2. auth \in Seq(Auth) /\ last \in 1..Len(auth)
    BY DEF ClientTypeOK, Usable
  <2>3. auth[last] \in Auth
    BY <2>2
  <2>4. auth' \in Seq(Auth)
    BY <2>1, <2>2, <2>3, SubSeqProperties
  <2>5. CASE clientState' = "Auth" /\ UNCHANGED <<promise, fin, ready>>
             /\ wire' = Push(Pop(wire, "client"), "client", AuthRequest(auth[last]))
    <3>1. Pop(wire, "client") \in [Ends -> Seq(Frame)]
      BY <1>0, PopFacts DEF SocketTypeOK
    <3>2. AuthRequest(auth[last]) \in Frame
      BY <2>3, FrameTypes
    <3>3. wire' \in [Ends -> Seq(Frame)]
      BY <1>0, <2>5, <3>1, <3>2, PushFacts
    <3> QED
      BY <2>1, <2>3, <2>4, <2>5, <3>3 DEF SocketTypeOK, ClientTypeOK
  <2>6. CASE Catch("SendFailed")
    BY <2>1, <2>3, <2>4, <2>6, CatchTypes DEF Rejection
  <2> QED
    BY <2>1, <2>5, <2>6
<1>2. CASE GiveUp(types)
  <2>1. auth' = <<>> /\ lastAuth' = lastAuth /\ Catch("AuthenticationFailed")
    BY <1>2 DEF GiveUp
  <2> QED
    BY <2>1, CatchTypes DEF Rejection
<1> QED
  BY <1>1, <1>2 DEF Authenticate

\* Every step of the client keeps the client's variables and the wire typed.
LEMMA ClientTypesStep ==
  ASSUME ClientTypes, ClientNext \/ ClientCall
  PROVE  ClientTypes'
<1> USE DEF ClientTypes
<1>0. "client" \in Ends
  BY DEF Ends
<1> DEFINE Popped == Pop(wire, "client")
<1>1. ASSUME Deliverable("client")
      PROVE  wire["client"] # <<>> /\ Received \in Frame /\ Popped \in [Ends -> Seq(Frame)]
  BY <1>0, <1>1, PopFacts DEF Deliverable, Received, SocketTypeOK
<1>2. \A t \in Users : Activate(t) /\ Deliverable("client") =>
        /\ SocketTypeOK(Frame)'
        /\ clientState' = "Active" /\ transportUser' \in Users
        /\ promise' \in {"pending", "resolved"} \cup Rejection
        /\ UNCHANGED <<auth, lastAuth>>
  BY <1>1 DEF Activate, Settle, SocketTypeOK, ClientTypeOK
<1>3. CASE ClientWelcome
  <2>1. /\ Received \in Frame /\ Received.kind = "welcome" /\ wire["client"] # <<>>
        /\ authTypes' = Received.auth
        /\ UNCHANGED <<connectAuth, authFailures, signing>>
    BY <1>1, <1>3 DEF ClientWelcome
  <2>2. Received.userId \in Users \cup {NULL} /\ Received.auth \in SUBSET AuthMode
    BY <2>1, FrameContents
  <2>3. CASE Received.userId # NULL /\ Activate(Received.userId)
    BY <1>2, <1>3, <2>1, <2>2, <2>3 DEF ClientWelcome, ClientTypeOK, ClientState, Presented
  <2>4. CASE Authenticate(Received.auth) /\ UNCHANGED transportUser
    <3> HIDE DEF ClientTypes
    <3>1. /\ SocketTypeOK(Frame)'
          /\ clientState' \in {"Auth", "Active", "Closed"}
          /\ promise' \in {"pending", "resolved"} \cup Rejection
          /\ auth' \in Seq(Auth)
          /\ lastAuth' \in Auth \/ (lastAuth' = lastAuth /\ clientState' # "Auth")
      BY <2>1, <2>4, AuthenticateTypes
    <3> QED
      BY <2>1, <2>2, <2>4, <3>1
      DEF ClientTypes, ClientTypeOK, ClientState, Connecting, Presented
  <2> QED
    BY <1>3, <2>3, <2>4 DEF ClientWelcome
<1>4. ASSUME NEW reason \in Rejection, wire["client"] # <<>>, Catch(reason),
             UNCHANGED <<connectAuth, auth, authTypes, lastAuth, authFailures, transportUser,
                         signing>>
      PROVE  ClientTypes'
  <2> HIDE DEF ClientTypes
  <2>1. /\ SocketTypeOK(Frame)'
        /\ clientState' \in {"Active", "Closed"}
        /\ promise' \in {"pending", "resolved"} \cup Rejection
    BY <1>4, CatchTypes
  <2> QED
    BY <1>4, <2>1 DEF ClientTypes, ClientTypeOK, ClientState, Connecting, Presented
<1>5. CASE ClientNewerVersion
  BY <1>1, <1>4, <1>5 DEF ClientNewerVersion, Rejection
<1>6. CASE ClientAccepted
  <2>1. Received.response.value \in Users
    BY <1>1, <1>6, FrameContents DEF ClientAccepted, ClientAuthResponse
  <2> QED
    BY <1>2, <1>6, <2>1
    DEF ClientAccepted, ClientAuthResponse, ClientTypeOK, ClientState, Presented
<1>7. CASE ClientRefused
  <2>1. Received.response.value \in AuthErrorCode /\ wire["client"] # <<>>
    BY <1>1, <1>7, FrameContents DEF ClientRefused, ClientAuthResponse
  <2>2. authFailures' \in Seq([method : Auth \cup {NULL}, error : AuthErrorCode])
    BY <1>7, <2>1 DEF ClientRefused, ClientTypeOK
  <2>3. Authenticate(authTypes)
        /\ UNCHANGED <<connectAuth, authTypes, transportUser, signing>>
    BY <1>7 DEF ClientRefused
  <2> HIDE DEF ClientTypes
  <2>4. /\ SocketTypeOK(Frame)'
        /\ clientState' \in {"Auth", "Active", "Closed"}
        /\ promise' \in {"pending", "resolved"} \cup Rejection
        /\ auth' \in Seq(Auth)
        /\ lastAuth' \in Auth \/ (lastAuth' = lastAuth /\ clientState' # "Auth")
    BY <2>1, <2>3, AuthenticateTypes
  <2> QED
    BY <2>2, <2>3, <2>4
    DEF ClientTypes, ClientTypeOK, ClientState, Connecting, Presented
<1>8. CASE ClientChallenged
  <2>1. /\ Received.response.value \in Nat /\ lastAuth \in Auth /\ wire["client"] # <<>>
        /\ Popped \in [Ends -> Seq(Frame)]
    BY <1>1, <1>8, FrameContents DEF ClientChallenged, ClientAuthResponse, Presented
  <2>2. CASE /\ clientState' = "PubkeyChallenge" /\ wire' = Popped
             /\ signing' = signing \cup
                  {[method |-> lastAuth, challenge |-> Received.response.value]}
             /\ UNCHANGED <<promise, fin, ready>>
    BY <1>8, <2>1, <2>2
    DEF ClientChallenged, ClientTypeOK, ClientState, Connecting, Presented, SocketTypeOK
  <2>3. CASE Catch("UnexpectedMessage") /\ UNCHANGED signing
    BY <1>4, <1>8, <2>1, <2>3 DEF ClientChallenged, Rejection
  <2>4. CASE Catch("SignThrew") /\ UNCHANGED signing
    BY <1>4, <1>8, <2>1, <2>4 DEF ClientChallenged, Rejection
  <2> QED
    BY <1>8, <2>2, <2>3, <2>4 DEF ClientChallenged
<1>9. CASE ClientIgnored
  BY <1>1, <1>9
  DEF ClientIgnored, ClientAuthResponse, clientVars, ClientTypeOK, Presented, SocketTypeOK
<1>10. CASE ClientSigned
  <2>1. PICK s \in signing :
          /\ signing' = signing \ {s}
          /\ wire' = Push(wire, "client", ChallengeResponse(s.method, s.challenge))
    BY <1>10 DEF ClientSigned
  <2>2. ChallengeResponse(s.method, s.challenge) \in Frame
    BY FrameTypes DEF ClientTypeOK
  <2>3. wire' \in [Ends -> Seq(Frame)]
    BY <1>0, <2>1, <2>2, PushFacts DEF SocketTypeOK
  <2> QED
    BY <1>10, <2>1, <2>3
    DEF ClientSigned, ClientTypeOK, ClientState, Connecting, Presented, SocketTypeOK
<1>11. CASE ClientSignFails
  BY <1>11 DEF ClientSignFails, sockVars, ClientTypeOK, Presented, SocketTypeOK
<1>12. CASE ClientBadMessage
  BY <1>1, <1>4, <1>12 DEF ClientBadMessage, Rejection
<1>13. CASE ClientUnexpected
  BY <1>1, <1>4, <1>13 DEF ClientUnexpected, Rejection
<1>14. CASE ClientDispatch
  BY <1>1, <1>14 DEF ClientDispatch, clientVars, ClientTypeOK, Presented, SocketTypeOK
<1>15. CASE ClientCall
  <2>1. PICK m \in RpcMessage : wire' = Push(wire, "client", m)
    BY <1>15 DEF ClientCall
  <2>2. wire' \in [Ends -> Seq(Frame)]
    BY <1>0, <2>1, FrameTypes, PushFacts DEF SocketTypeOK
  <2> QED
    BY <1>15, <2>2 DEF ClientCall, clientVars, ClientTypeOK, Presented, SocketTypeOK
<1>16. CASE ClientOnClose
  <2>1. SocketTypeOK(Frame)'
    BY <1>0, <1>16, SocketTypes DEF ClientOnClose
  <2> QED
    BY <1>16, <2>1 DEF ClientOnClose, Settle, Rejection, ClientTypeOK, ClientState, Presented
<1> QED
  BY <1>3, <1>5, <1>6, <1>7, <1>8, <1>9, <1>10, <1>11, <1>12, <1>13, <1>14, <1>15, <1>16
  DEF ClientNext, ClientReceive

-----------------------------------------------------------------------------
(* The entries.                                                             *)

\* The last entry is the first one more.
LEMMA OneMore ==
  ASSUME NEW S, NEW s \in Seq(S), NEW n \in 1..Len(s)
  PROVE  /\ SubSeq(s, 1, n - 1) \in Seq(S) /\ s[n] \in S
         /\ SubSeq(s, 1, n) = Append(SubSeq(s, 1, n - 1), s[n])
<1>1. SubSeq(s, 1, n - 1) \in Seq(S) /\ s[n] \in S
  BY SubSeqProperties
<1>2. SubSeq(s, 1, n) = SubSeq(s, 1, n - 1) \o <<s[n]>>
  BY SubSeqRecursiveSecond
<1>3. SubSeq(s, 1, n - 1) \o <<s[n]>> = Append(SubSeq(s, 1, n - 1), s[n])
  BY <1>1, AppendIsConcat
<1> QED
  BY <1>1, <1>2, <1>3

\* An entry that is dropped adds nothing to what is left.
LEMMA OneDropped ==
  ASSUME NEW S, NEW s \in Seq(S), NEW T, NEW n \in 1..Len(s), s[n] \in T
  PROVE  Without(SubSeq(s, 1, n), T) = Without(SubSeq(s, 1, n - 1), T)
<1>1. /\ SubSeq(s, 1, n - 1) \in Seq(S) /\ s[n] \in S
      /\ SubSeq(s, 1, n) = Append(SubSeq(s, 1, n - 1), s[n])
  BY OneMore
<1>2. PICK t \in Seq(S) : t = SubSeq(s, 1, n - 1)
  BY <1>1
<1>3. PICK e \in S : e = s[n]
  BY <1>1
<1>4. \A x \in Seq(S), y \in S :
        Without(Append(x, y), T) = IF y \in T THEN Without(x, T) ELSE Append(Without(x, T), y)
  BY WithoutAppend
<1>5. Without(Append(t, e), T) = Without(t, T)
  BY <1>3, <1>4
<1> QED
  BY <1>1, <1>2, <1>3, <1>5

\* After the last entry that is usable nothing is left.
LEMMA NothingAfter ==
  ASSUME NEW S, NEW s \in Seq(S), NEW T, NEW n \in 0..Len(s),
         \A k \in (n + 1)..Len(s) : s[k] \in T
  PROVE  Without(s, T) = Without(SubSeq(s, 1, n), T)
<1> DEFINE K == {k \in Nat : n + k <= Len(s) =>
                   Without(SubSeq(s, 1, n + k), T) = Without(SubSeq(s, 1, n), T)}
<1>0. Len(s) \in Nat
  OBVIOUS
<1>1. 0 \in K
  BY <1>0
<1>2. ASSUME NEW k \in Nat, k \in K PROVE k + 1 \in K
  <2> SUFFICES ASSUME n + (k + 1) <= Len(s)
               PROVE  Without(SubSeq(s, 1, n + (k + 1)), T) = Without(SubSeq(s, 1, n), T)
    BY <1>2
  <2> DEFINE j == n + (k + 1)
  <2>1. j \in 1..Len(s) /\ j - 1 = n + k /\ s[j] \in T
    BY <1>0
  <2>2. Without(SubSeq(s, 1, j - 1), T) = Without(SubSeq(s, 1, n), T)
    BY <1>0, <1>2, <2>1
  <2> HIDE DEF j, K
  <2>3. Without(SubSeq(s, 1, j), T) = Without(SubSeq(s, 1, j - 1), T)
    BY <2>1, OneDropped
  <2> QED
    BY <2>2, <2>3 DEF j
<1>3. Len(s) - n \in K
  <2>1. Nat \subseteq K
    <3> HIDE DEF K
    <3> QED
      BY <1>1, <1>2, Induction
  <2> QED
    BY <1>0, <2>1
<1>4. Without(SubSeq(s, 1, Len(s)), T) = Without(SubSeq(s, 1, n), T)
  BY <1>0, <1>3
<1> QED
  BY <1>4, SubSeqFull

\* The entries of ConnectOptions.auth, and of those not tried yet, whose mode
\* is offered.
All(types) == Without(connectAuth, NotOffered(types))

Left(types) == Without(auth, NotOffered(types))

\* What is left are the first of them: authenticate() takes them from the end.
FromTheEnd(types) ==
  /\ Len(Left(types)) <= Len(All(types))
  /\ \A k \in 1..Len(Left(types)) : Left(types)[k] = All(types)[k]

\* The n-th entry that is presented.
Nth(types, n) == All(types)[Len(All(types)) + 1 - n]

LEMMA Entries ==
  ASSUME ClientTypeOK, NEW types
  PROVE  /\ connectAuth \in Seq(Auth) /\ auth \in Seq(Auth)
         /\ All(types) \in Seq(Auth) /\ Left(types) \in Seq(Auth)
         /\ auth = connectAuth => Left(types) = All(types)
         /\ Len(Left(types)) \in Nat /\ Len(All(types)) \in Nat
  BY AuthListsAssumption, WithoutType DEF ClientTypeOK, All, Left

(***************************************************************************)
(* The entry authenticate() presents is the last one of an offered mode    *)
(* that is left, and leaves the others (client.ts:414-424).                *)
(***************************************************************************)
LEMMA PresentsLast ==
  ASSUME ClientTypeOK, NEW types, UNCHANGED connectAuth, FromTheEnd(types),
         NEW last \in Usable(types), \A i \in Usable(types) : i <= last,
         auth' = SubSeq(auth, 1, last - 1)
  PROVE  /\ Len(Left(types)') = Len(Left(types)) - 1 /\ Len(Left(types)) >= 1
         /\ All(types)' = All(types) /\ auth[last] \in Auth
         /\ auth[last] = All(types)[Len(Left(types))]
         /\ FromTheEnd(types)'
<1> DEFINE T == NotOffered(types)
           rest == SubSeq(auth, 1, last - 1)
<1>1. auth \in Seq(Auth) /\ last \in 1..Len(auth) /\ auth[last].auth \in types
  BY Entries DEF Usable
<1>2. auth[last] \in Auth /\ auth[last] \notin T /\ rest \in Seq(Auth)
  BY <1>1, OneMore DEF NotOffered
<1>3. \A k \in (last + 1)..Len(auth) : auth[k] \in T
  <2> SUFFICES ASSUME NEW k \in (last + 1)..Len(auth) PROVE auth[k] \in T
    OBVIOUS
  <2>1. k \in 1..Len(auth) /\ ~(k <= last) /\ auth[k] \in Auth
    BY <1>1
  <2>2. k \notin Usable(types)
    BY <2>1
  <2> QED
    BY <1>1, <2>1, <2>2 DEF Usable, NotOffered
<1>4. Without(auth, T) = Without(SubSeq(auth, 1, last), T)
  <2> HIDE DEF T
  <2>1. last \in 0..Len(auth)
    BY <1>1
  <2> QED
    BY <1>1, <1>3, <2>1, NothingAfter
<1>5. SubSeq(auth, 1, last) = Append(rest, auth[last])
  BY <1>1, OneMore
<1>6. Without(auth, T) = Append(Without(rest, T), auth[last])
  <2> HIDE DEF T, rest
  <2>1. PICK e \in Auth : e = auth[last]
    BY <1>2
  <2>2. Without(Append(rest, e), T) = Append(Without(rest, T), e)
    BY <1>2, <2>1, WithoutAppend
  <2> QED
    BY <1>4, <1>5, <2>1, <2>2
<1>7. Left(types)' = Without(rest, T) /\ All(types)' = All(types)
  BY DEF Left, All, NotOffered
<1>8. Without(rest, T) \in Seq(Auth) /\ All(types) \in Seq(Auth)
  <2> HIDE DEF T, rest
  <2> QED
    BY <1>2, WithoutType, Entries
<1> DEFINE v == Without(rest, T)
           w == All(types)
<1>9. Left(types) = Append(v, auth[last])
  BY <1>6 DEF Left
<1>10. v \in Seq(Auth) /\ w \in Seq(Auth) /\ Left(types)' = v /\ All(types)' = w
  BY <1>7, <1>8
<1>11. Len(Append(v, auth[last])) <= Len(w)
       /\ \A k \in 1..Len(Append(v, auth[last])) : Append(v, auth[last])[k] = w[k]
  BY <1>9 DEF FromTheEnd
<1> HIDE DEF v, w
<1>12. /\ Len(v) \in Nat /\ Len(w) \in Nat /\ Len(Append(v, auth[last])) = Len(v) + 1
       /\ Append(v, auth[last])[Len(v) + 1] = auth[last]
       /\ \A k \in 1..Len(v) : Append(v, auth[last])[k] = v[k]
  BY <1>2, <1>10, AppendProperties
<1>13. Len(v) <= Len(w) /\ \A k \in 1..Len(v) : v[k] = w[k]
  BY <1>11, <1>12
<1>14. auth[last] = w[Len(v) + 1]
  BY <1>11, <1>12
<1>15. FromTheEnd(types)'
  BY <1>10, <1>13 DEF FromTheEnd
<1>16. Len(Left(types)) = Len(v) + 1 /\ Len(Left(types)') = Len(v) /\ All(types) = w
  BY <1>9, <1>10, <1>12 DEF w
<1> QED
  BY <1>2, <1>10, <1>12, <1>14, <1>15, <1>16

\* If authenticate() finds no entry of an offered mode, none is left.
LEMMA NoneLeft ==
  ASSUME ClientTypeOK, NEW types, Usable(types) = {}
  PROVE  Left(types) = <<>>
<1> DEFINE T == NotOffered(types)
<1>1. auth \in Seq(Auth)
  BY Entries
<1>2. \A k \in (0 + 1)..Len(auth) : auth[k] \in T
  BY <1>1 DEF Usable, NotOffered
<1>3. 0 \in 0..Len(auth)
  BY <1>1
<1> HIDE DEF T
<1>4. Without(auth, T) = Without(SubSeq(auth, 1, 0), T)
  BY <1>1, <1>2, <1>3, NothingAfter
<1>5. SubSeq(auth, 1, 0) = <<>>
  BY <1>1, SubSeqEmpty
<1> QED
  BY <1>4, <1>5, WithoutEmpty DEF Left, T
=============================================================================
