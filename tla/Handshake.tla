----------------------------- MODULE Handshake ------------------------------
(***************************************************************************)
(* A client and a server of this library on the two ends of a connection:  *)
(* the README's authentication protocol as client.ts and server.ts play    *)
(* it, with the connection failing and either application closing its      *)
(* socket at any moment.                                                   *)
(***************************************************************************)
EXTENDS ClientConnect, ServerAuth

CONSTANT MaxInFlight  \* bound: RPC frames under way in one direction

ASSUME MaxInFlightAssumption == MaxInFlight \in Nat

vars == <<clientVars, serverVars, sockVars>>

TypeOK ==
  /\ ClientTypeOK
  /\ ServerTypeOK
  /\ SocketTypeOK(ServerFrame \cup ClientFrame)

Init ==
  /\ ClientInit
  /\ ServerInit
  /\ SocketInit([e \in Ends |-> IF e = "client" THEN <<SendWelcome>> ELSE <<>>])

ClientStep == ClientNext /\ UNCHANGED serverVars
ServerStep == ServerNext /\ UNCHANGED clientVars

\* The RPC traffic that starts as soon as an end believes the handshake over.
Traffic ==
  \/ Len(wire["server"]) < MaxInFlight /\ ClientCall /\ UNCHANGED serverVars
  \/ Len(wire["client"]) < MaxInFlight /\ ServerSend /\ UNCHANGED clientVars

Next ==
  \/ ClientStep
  \/ ServerStep
  \/ Traffic
  \/ SocketStep /\ UNCHANGED <<clientVars, serverVars>>

\* The event loops and the network make progress, the application's callbacks
\* return and sign() settles.  Nobody has to close a socket or make a call.
Fairness ==
  /\ WF_vars(ClientReceive /\ UNCHANGED serverVars)
  /\ WF_vars((ClientSigned \/ ClientSignFails) /\ UNCHANGED serverVars)
  /\ WF_vars(ServerReceive /\ UNCHANGED clientVars)
  /\ WF_vars(ServerReturn /\ UNCHANGED clientVars)
  /\ \A e \in Ends : WF_vars(Discard(e) /\ UNCHANGED <<clientVars, serverVars>>)

Spec == Init /\ [][Next]_vars

FairSpec == Spec /\ Fairness

-----------------------------------------------------------------------------
(* Safety                                                                   *)

(***************************************************************************)
(* A client that believes it is logged in is: the server made the          *)
(* connection active before, for the user ID the client was told (the      *)
(* empty user ID excepted: server.ts:524 does not store it).               *)
(***************************************************************************)
Agreement ==
  clientState = "Active" =>
    /\ serverState = "Active"
    /\ user = transportUser \/ transportUser = ""

(***************************************************************************)
(* The two state machines are in step: a frame that reaches an end was     *)
(* encoded as the message type that end's state decodes (client.ts:455,    *)
(* server.ts:489), though frames carry no type.                            *)
(***************************************************************************)
InStep ==
  /\ Deliverable("client") =>
       \/ clientState = "BeforeWelcome" /\ Received.kind = "welcome"
       \/ clientState = "Auth" /\ Received.kind = "authResponse"
       \/ clientState = "Active" /\ Received.kind = "rpc"
       \/ clientState = "Closed"
  /\ Deliverable("server") =>
       \/ serverState \in {"Auth", "ProcessingAuth"} /\ Arrived.kind = "authRequest"
       \/ serverState = "PubkeyChallenge" /\ Arrived.kind = "challengeResponse"
       \/ serverState = "Active" /\ Arrived.kind = "rpc"

(***************************************************************************)
(* What the server validates is the client's answer to the challenge it is *)
(* validated against, signed with the key that was presented: no signature *)
(* is late, repeated or made for another entry (client.ts:483,             *)
(* server.ts:515-522).                                                     *)
(***************************************************************************)
SignatureMatches ==
  \A p \in pending : p.call = "validate" => Verifies(p) /\ p.challenge = issued

(***************************************************************************)
(* connectSockRpc gives up only when every configured entry of an offered  *)
(* mode was refused, once, from the last to the first, and reports exactly *)
(* these (client.ts:414-452).                                              *)
(***************************************************************************)
AllTried ==
  promise = "AuthenticationFailed" =>
    [i \in DOMAIN authFailures |-> authFailures[i].method] = Candidates

(***************************************************************************)
(* A client ends up with a user only if it presented an entry, or sees the *)
(* fixed user of the server: an active connection whose server asks for    *)
(* authentication has a client that sent an entry of a mode the server has *)
(* a callback for (client.ts:417, server.ts:170-216).                      *)
(***************************************************************************)
ActiveByOfferedMode ==
  serverState = "Active" /\ options.userId = NULL =>
    lastAuth # NULL /\ lastAuth.auth \in options.modes

(***************************************************************************)
(* The two ends keep what the handshake promises (Login): every step       *)
(* grants, tells, rejects, or is of no concern to the applications         *)
(* (client.ts:402-541, server.ts:487-545).                                 *)
(***************************************************************************)
L == INSTANCE Login WITH
       granted <- serverState = "Active",
       told    <- transportUser,
       answer  <- IF promise \in {"pending", "resolved"} THEN promise ELSE "rejected"

ImplementsLogin == L!Spec

-----------------------------------------------------------------------------
(* Why the safety properties hold.  Until the server is active the          *)
(* handshake is a token that is in one place at a time: a frame to the      *)
(* client, a frame to the server, a callback of the server's application or *)
(* a call of sign().  A closed or lost connection may swallow it, nothing   *)
(* duplicates it.                                                           *)

ToClient == wire["client"]
ToServer == wire["server"]

\* Nothing will be delivered to the client any more.
Deaf == ready["client"] # "open" /\ ~LateDelivery

OneToken ==
  serverState # "Active" =>
    /\ Len(ToClient) <= 1 /\ Len(ToServer) <= 1
    /\ ToClient # <<>> => ToServer = <<>> /\ pending = {} /\ signing = {}
    /\ ToServer # <<>> => pending = {} /\ signing = {}
    /\ pending # {} => signing = {}

WelcomeInv(i) ==
  /\ i = 1
  /\ clientState \in {"BeforeWelcome", "Closed"}
  /\ ToClient[i].userId = options.userId
  /\ \/ ToClient[i].userId # NULL /\ serverState = "Active" /\ user = options.userId
     \/ ToClient[i].userId = NULL /\ serverState = "Auth"

AuthResponseInv(i) ==
  LET r == ToClient[i].response
  IN  /\ i = 1
      /\ clientState \in {"Auth", "Closed"}
      /\ \/ /\ r.oneofKind = "userId"
            /\ serverState = "Active"
            /\ user = r.value \/ r.value = ""
         \/ /\ r.oneofKind = "error"
            /\ serverState \in {"Auth", "ProcessingAuth"}
         \/ /\ r.oneofKind = "pubkeyChallenge"
            /\ serverState = "PubkeyChallenge"
            /\ r.value = issued

ToClientInv ==
  \A i \in DOMAIN ToClient :
    \/ ToClient[i].kind = "welcome" /\ WelcomeInv(i)
    \/ ToClient[i].kind = "authResponse" /\ AuthResponseInv(i)
    \/ /\ ToClient[i].kind = "rpc"
       /\ serverState = "Active"
       /\ i = 1 => clientState \in {"Active", "Closed"} \/ Deaf

ToServerInv ==
  \A i \in DOMAIN ToServer :
    \/ /\ ToServer[i].kind = "authRequest"
       /\ serverState \in {"Auth", "ProcessingAuth"}
       /\ clientState \in {"Auth", "Closed"}
       /\ ToServer[i].request = lastAuth
    \/ /\ ToServer[i].kind = "challengeResponse"
       /\ serverState = "PubkeyChallenge"
       /\ clientState \in {"Auth", "Closed"}
       /\ ToServer[i].signature =
            [by |-> pubkeyChallenge.validate, over |-> pubkeyChallenge.challenge]
    \/ ToServer[i].kind = "rpc" /\ serverState = "Active"

PendingInv ==
  pending # {} =>
    /\ serverState = "ProcessingAuth"
    /\ clientState \in {"Auth", "Closed"}
    /\ \E p \in pending : pending = {p}
    /\ \A p \in pending :
         IF p.call = "handleAuthRequest"
           THEN p.request = lastAuth
           ELSE Verifies(p) /\ p.challenge = issued

SigningInv ==
  signing # {} =>
    /\ serverState = "PubkeyChallenge"
    /\ clientState \in {"PubkeyChallenge", "Closed"}
    /\ signing = {[method |-> pubkeyChallenge.validate,
                   challenge |-> pubkeyChallenge.challenge]}

ServerInv ==
  /\ serverState = "PubkeyChallenge" =>
       pubkeyChallenge = [challenge |-> issued, validate |-> lastAuth]
  /\ serverState = "Active" =>
       /\ pending = {} /\ signing = {}
       /\ \/ ToClient # <<>> \/ clientState \in {"Active", "Closed"}
          \/ Deaf \/ fin["client"] \/ ready["server"] # "open"
  /\ serverState # "Closed"

ClientInv ==
  /\ clientState = "BeforeWelcome" =>
       pending = {} /\ signing = {} /\ ToServer = <<>> /\ serverState \in {"Auth", "Active"}
  /\ promise = "resolved" =>
       serverState = "Active" /\ clientState \in {"Active", "Closed"}
  /\ Agreement

TokenInv ==
  /\ OneToken
  /\ ToClientInv
  /\ ToServerInv
  /\ PendingInv
  /\ SigningInv
  /\ ServerInv
  /\ ClientInv

IInv == TypeOK /\ TokenInv

-----------------------------------------------------------------------------
(* Liveness                                                                 *)

\* sign() rejected and client.ts:483 has no handler for that.
SignRejected == clientState = "PubkeyChallenge" /\ signing = {}

(***************************************************************************)
(* The promise connectSockRpc returned settles, whatever the callbacks     *)
(* return and wherever the connection fails, unless sign() rejects, which  *)
(* client.ts:483 does not handle, and the connection stays open for good:  *)
(* also the caller of a client whose sign() rejected hears of it when the  *)
(* connection ends (client.ts:407-413, 514-541).                           *)
(***************************************************************************)
ConnectSettles ==
  <>(promise # "pending") \/ <>[](SignRejected /\ ready["client"] = "open")

-----------------------------------------------------------------------------
(* What the README says of the handshake, and the code does not do.         *)

(***************************************************************************)
(* README.md:25, "PubkeyChallenge --> Auth: Failure": a server that is     *)
(* processing nothing waits for the next auth request.                     *)
(***************************************************************************)
FailureReturnsToAuth == serverState = "ProcessingAuth" => pending # {}

(***************************************************************************)
(* README.md:29, the user ID, "an arbitrary string", "is saved on the      *)
(* socket connection, and is accessible on the server in every RPC call".  *)
(***************************************************************************)
UserSaved == clientState = "Active" => user = transportUser
=============================================================================
