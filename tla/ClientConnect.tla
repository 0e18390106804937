--------------------------- MODULE ClientConnect ----------------------------
(***************************************************************************)
(* The client's half of the handshake: connectSockRpc in client.ts, from   *)
(* the registration of its socket handlers to the moment its promise       *)
(* settles, and what the same handlers do with the socket afterwards.      *)
(*                                                                         *)
(* JavaScript runs one event at a time, so every event handler is one      *)
(* action.  The two things that outlive the handler that started them are  *)
(* variables: the promise connectSockRpc returned, and the promises of     *)
(* sign() whose continuation has not run.                                  *)
(***************************************************************************)
EXTENDS Protocol, WebSocket, Subsequences, FiniteSets, SequencesExt

CONSTANT AuthLists   \* the values of ConnectOptions.auth to consider

ASSUME AuthListsAssumption == AuthLists \subseteq Seq(Auth) /\ AuthLists # {}

VARIABLES
  connectAuth,    \* options.auth, what the caller asked for; never changes
  clientState,    \* state
  auth,           \* auth: the entries not tried yet; the last one is next
  authTypes,      \* authTypes: the modes the welcome offered
  lastAuth,       \* lastAuth
  authFailures,   \* authFailures
  promise,        \* the promise connectSockRpc returned, with the reason of a rejection
  transportUser,  \* transport.user; NULL before there is a transport
  signing         \* the calls of sign() that have not settled

clientVars ==
  <<connectAuth, clientState, auth, authTypes, lastAuth, authFailures, promise,
    transportUser, signing>>

Connecting == {"BeforeWelcome", "Auth", "PubkeyChallenge"}

ClientState == Connecting \cup {"Active", "Closed"}

Rejection ==
  {"AuthenticationFailed", "SocketClosed", "NewerVersion", "BadMessage",
   "UnexpectedMessage", "SignThrew", "SendFailed"}

ClientTypeOK ==
  /\ connectAuth \in AuthLists
  /\ clientState \in ClientState
  /\ auth \in Seq(Auth)
  /\ authTypes \in SUBSET AuthMode
  /\ lastAuth \in Auth \cup {NULL}
  /\ authFailures \in Seq([method : Auth \cup {NULL}, error : AuthErrorCode])
  /\ promise \in {"pending", "resolved"} \cup Rejection
  /\ transportUser \in Users \cup {NULL}
  /\ signing \in SUBSET [method : Auth, challenge : Nat]

ClientInit ==
  /\ clientState = "BeforeWelcome"
  /\ connectAuth \in AuthLists
  /\ auth = connectAuth
  /\ authTypes = {}
  /\ lastAuth = NULL
  /\ authFailures = <<>>
  /\ promise = "pending"
  /\ transportUser = NULL
  /\ signing = {}

-----------------------------------------------------------------------------
\* A promise settles once: what comes second is ignored.
Settle(outcome) == promise' = IF promise = "pending" THEN outcome ELSE promise

\* The frame the message handler of the client runs on.
Received == Head(wire["client"])

\* Mutant of Catch: the socket stays open.
CatchLeavesOpen(reason) ==
  /\ IF clientState \in Connecting
       THEN Settle(reason) /\ clientState' = "Closed"
       ELSE UNCHANGED <<promise, clientState>>
  /\ wire' = Pop(wire, "client")
  /\ UNCHANGED <<fin, ready>>

\* An exception in the message handler.
Catch(reason) ==
  /\ IF clientState \in Connecting
       THEN Settle(reason) /\ clientState' = "Closed"
       ELSE UNCHANGED <<promise, clientState>>
  /\ wire' = Pop(wire, "client")
  /\ CloseSocket("client")

\* Mutant of Usable: the modes the server offered are not looked at.
UsableAll(types) == DOMAIN auth

\* The entries of auth that authenticate() would try, given the offered modes.
Usable(types) == {i \in DOMAIN auth : auth[i].auth \in types}

\* Mutants of TryNext: an entry too many is popped; lastAuth is not set.
TryNextPopsTwo(types) ==
  \E last \in Usable(types) :
    /\ \A i \in Usable(types) : i <= last
    /\ lastAuth' = auth[last]
    /\ auth' = SubSeq(auth, 1, last - 2)
    /\ clientState' = "Auth"
    /\ wire' = Push(Pop(wire, "client"), "client", AuthRequest(auth[last]))
    /\ UNCHANGED <<promise, fin, ready>>

TryNextForgets(types) ==
  \E last \in Usable(types) :
    /\ \A i \in Usable(types) : i <= last
    /\ auth' = SubSeq(auth, 1, last - 1)
    /\ clientState' = "Auth"
    /\ wire' = Push(Pop(wire, "client"), "client", AuthRequest(auth[last]))
    /\ UNCHANGED <<lastAuth, promise, fin, ready>>

\* authenticate() finds an entry of an offered mode: the last one; those
\* after it are gone.
TryNext(types) ==
  \E last \in Usable(types) :
    /\ \A i \in Usable(types) : i <= last
    /\ lastAuth' = auth[last]
    /\ auth' = SubSeq(auth, 1, last - 1)
    /\ \/ /\ clientState' = "Auth"
          /\ wire' = Push(Pop(wire, "client"), "client", AuthRequest(auth[last]))
          /\ UNCHANGED <<promise, fin, ready>>
       \/ \* send() of some platforms throws on a socket that is not open
          /\ ready["client"] # "open"
          /\ Catch("SendFailed")

\* authenticate() finds none: it reports authFailures and throws.
GiveUp(types) ==
  /\ Usable(types) = {}
  /\ auth' = <<>>
  /\ UNCHANGED lastAuth
  /\ Catch("AuthenticationFailed")

Authenticate(types) == TryNext(types) \/ GiveUp(types)

\* Mutant of Activate: the transport gets the credential for a user ID.
ActivateWithAuth(user) ==
  /\ transportUser' = IF lastAuth = NULL THEN user ELSE lastAuth.tag
  /\ clientState' = "Active"
  /\ Settle("resolved")
  /\ wire' = Pop(wire, "client")
  /\ UNCHANGED <<fin, ready, auth, lastAuth>>

\* transport = new SockRpcTransport(...), state = Active, resolve(transport)
Activate(user) ==
  /\ transportUser' = user
  /\ clientState' = "Active"
  /\ Settle("resolved")
  /\ wire' = Pop(wire, "client")
  /\ UNCHANGED <<fin, ready, auth, lastAuth>>

-----------------------------------------------------------------------------
(* case State.BeforeWelcome                                                 *)

ClientWelcome ==
  /\ Deliverable("client") /\ clientState = "BeforeWelcome"
  /\ Received.kind = "welcome"
  /\ Received.sockrpc <= 1
  /\ authTypes' = Received.auth
  /\ \/ /\ Received.userId # NULL
        /\ Activate(Received.userId)
     \/ /\ Received.userId = NULL
        /\ Authenticate(Received.auth)
        /\ UNCHANGED transportUser
  /\ UNCHANGED <<connectAuth, authFailures, signing>>

ClientNewerVersion ==
  /\ Deliverable("client") /\ clientState = "BeforeWelcome"
  /\ Received.kind = "welcome"
  /\ Received.sockrpc > 1
  /\ Catch("NewerVersion")
  /\ UNCHANGED <<connectAuth, auth, authTypes, lastAuth, authFailures, transportUser, signing>>

-----------------------------------------------------------------------------
(* case State.Auth                                                          *)

ClientAuthResponse(oneof) ==
  /\ Deliverable("client") /\ clientState = "Auth"
  /\ Received.kind = "authResponse"
  /\ Received.response.oneofKind = oneof

ClientAccepted ==
  /\ ClientAuthResponse("userId")
  /\ Activate(Received.response.value)
  /\ UNCHANGED <<connectAuth, authTypes, authFailures, signing>>

ClientRefused ==
  /\ ClientAuthResponse("error")
  /\ authFailures' =
       Append(authFailures, [method |-> lastAuth, error |-> Received.response.value])
  /\ Authenticate(authTypes)
  /\ UNCHANGED <<connectAuth, authTypes, transportUser, signing>>

\* Mutant of ClientChallenged: the state is not set before sign() is awaited.
ClientChallengedInAuth ==
  /\ ClientAuthResponse("pubkeyChallenge")
  /\ lastAuth.auth = "pubkey"
  /\ signing' = signing \cup
       {[method |-> lastAuth, challenge |-> Received.response.value]}
  /\ wire' = Pop(wire, "client")
  /\ UNCHANGED <<connectAuth, clientState, auth, authTypes, lastAuth, authFailures, promise,
                 transportUser, fin, ready>>

ClientChallenged ==
  /\ ClientAuthResponse("pubkeyChallenge")
  /\ \/ /\ lastAuth.auth = "pubkey"
        /\ clientState' = "PubkeyChallenge"
        /\ signing' = signing \cup
             {[method |-> lastAuth, challenge |-> Received.response.value]}
        /\ wire' = Pop(wire, "client")
        /\ UNCHANGED <<promise, fin, ready>>
     \/ /\ lastAuth.auth # "pubkey"
        /\ Catch("UnexpectedMessage")
        /\ UNCHANGED signing
     \/ \* sign() throws before it returns a promise
        /\ lastAuth.auth = "pubkey"
        /\ Catch("SignThrew")
        /\ UNCHANGED signing
  /\ UNCHANGED <<connectAuth, auth, authTypes, lastAuth, authFailures, transportUser>>

\* A response with no oneof set matches no case.
ClientIgnored ==
  /\ ClientAuthResponse("none")
  /\ wire' = Pop(wire, "client")
  /\ UNCHANGED <<clientVars, fin, ready>>

\* The continuation of sign(): it asks nothing of the state it finds.
ClientSigned ==
  /\ \E s \in signing :
       /\ signing' = signing \ {s}
       /\ wire' = Push(wire, "client", ChallengeResponse(s.method, s.challenge))
  /\ clientState' = "Auth"
  /\ UNCHANGED <<connectAuth, auth, authTypes, lastAuth, authFailures, promise, transportUser,
                 fin, ready>>

\* sign() rejects: nobody catches it, and the state stays PubkeyChallenge.
ClientSignFails ==
  /\ \E s \in signing : signing' = signing \ {s}
  /\ UNCHANGED <<connectAuth, clientState, auth, authTypes, lastAuth, authFailures, promise,
                 transportUser, sockVars>>

-----------------------------------------------------------------------------
(* The other cases of the message handler.                                  *)

\* The decoder of the current state does not accept the frame.
ClientBadMessage ==
  /\ Deliverable("client")
  /\ \/ clientState = "BeforeWelcome" /\ Received.kind # "welcome"
     \/ clientState = "Auth" /\ Received.kind # "authResponse"
     \/ clientState = "Active" /\ Received.kind # "rpc"
  /\ Catch("BadMessage")
  /\ UNCHANGED <<connectAuth, auth, authTypes, lastAuth, authFailures, transportUser, signing>>

\* case State.PubkeyChallenge
ClientUnexpected ==
  /\ Deliverable("client") /\ clientState = "PubkeyChallenge"
  /\ Catch("UnexpectedMessage")
  /\ UNCHANGED <<connectAuth, auth, authTypes, lastAuth, authFailures, transportUser, signing>>

\* case State.Active: the transport takes the message; case State.Closed:
\* nothing does.  Neither touches the state of the connection.
ClientDispatch ==
  /\ Deliverable("client")
  /\ \/ clientState = "Active" /\ Received.kind = "rpc"
     \/ clientState = "Closed"
  /\ wire' = Pop(wire, "client")
  /\ UNCHANGED <<clientVars, fin, ready>>

\* A call on the transport the promise handed out.
ClientCall ==
  /\ promise = "resolved"
  /\ \E m \in RpcMessage : wire' = Push(wire, "client", m)
  /\ UNCHANGED <<clientVars, fin, ready>>

\* Mutants of ClientOnClose: "case State.PubkeyChallenge" is missing; the
\* promise is forgotten.
ClientOnCloseNotSigning ==
  /\ CloseEvent("client")
  /\ IF clientState \in Connecting \ {"PubkeyChallenge"}
       THEN Settle("SocketClosed")
       ELSE UNCHANGED promise
  /\ clientState' = "Closed"
  /\ UNCHANGED <<connectAuth, auth, authTypes, lastAuth, authFailures, transportUser, signing>>

ClientOnCloseSilent ==
  /\ CloseEvent("client")
  /\ clientState' = "Closed"
  /\ UNCHANGED <<connectAuth, auth, authTypes, lastAuth, authFailures, promise, transportUser,
                 signing>>

\* The handler given to onClose.
ClientOnClose ==
  /\ CloseEvent("client")
  /\ IF clientState \in Connecting THEN Settle("SocketClosed") ELSE UNCHANGED promise
  /\ clientState' = "Closed"
  /\ UNCHANGED <<connectAuth, auth, authTypes, lastAuth, authFailures, transportUser, signing>>

ClientReceive ==
  \/ ClientWelcome
  \/ ClientNewerVersion
  \/ ClientAccepted
  \/ ClientRefused
  \/ ClientChallenged
  \/ ClientIgnored
  \/ ClientBadMessage
  \/ ClientUnexpected
  \/ ClientDispatch
  \/ ClientOnClose

ClientNext == ClientReceive \/ ClientSigned \/ ClientSignFails

-----------------------------------------------------------------------------
(* What the properties of the client refer to.                              *)

NotOffered(types) == {m \in Auth : m.auth \notin types}

\* The entries of ConnectOptions.auth of an offered mode, from the last to the
\* first: what the client presents if nothing but refusals comes back.
Candidates == Reverse(Without(connectAuth, NotOffered(authTypes)))
=============================================================================
