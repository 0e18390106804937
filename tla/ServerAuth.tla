----------------------------- MODULE ServerAuth -----------------------------
(***************************************************************************)
(* The server's half of the handshake: class SockRpcServer of server.ts,   *)
(* from its constructor to the moment a connection has a user, and what    *)
(* handleSocketMessage does with the frames that come afterwards.          *)
(*                                                                         *)
(* The callbacks in ServerOptions.auth are asynchronous and belong to the  *)
(* application: "pending" holds the calls of them that have not returned,  *)
(* and they may return whatever their type allows or throw.  While one is  *)
(* pending the socket may deliver further frames.                          *)
(***************************************************************************)
EXTENDS Protocol, WebSocket

CONSTANT
  ServerOptions  \* the values of ServerOptions.auth to consider: the user ID of
                 \* every connection, or (userId = NULL) the modes with a callback

ASSUME ServerOptionsAssumption ==
  /\ ServerOptions \subseteq [userId : Users \cup {NULL}, modes : SUBSET AuthMode]
  /\ ServerOptions # {}

\* null is no object.
ASSUME ChallengeAssumption == NULL \notin [challenge : Nat, validate : Auth]

VARIABLES
  options,          \* options.auth; never changes
  serverState,      \* state
  user,             \* user
  pubkeyChallenge,  \* pubkeyChallenge: the challenge sent and the key it was sent for
  pending,          \* the calls of application callbacks under way
  issued            \* how many challenges were generated; the random bytes of
                    \* the n-th are represented by n

serverVars == <<options, serverState, user, pubkeyChallenge, pending, issued>>

ServerState == {"Auth", "ProcessingAuth", "PubkeyChallenge", "Active", "Closed"}

\* PubkeyChallengeValidator as ed25519Validator builds it: a closure over the
\* entry the client presented.
Challenge == [challenge : Nat, validate : Auth]

\* handleAuthRequest(request), or validate({challenge, signature}).
PendingCall ==
  [call : {"handleAuthRequest"}, request : Auth \cup {NULL}]
    \cup [call : {"validate"}, validate : Auth, challenge : Nat, signature : Signature]

ServerTypeOK ==
  /\ options \in ServerOptions
  /\ serverState \in ServerState
  /\ user \in Users \cup {NULL}
  /\ pubkeyChallenge \in Challenge \cup {NULL}
  /\ pending \in SUBSET PendingCall
  /\ issued \in Nat

\* The constructor.
ServerInit ==
  /\ options \in ServerOptions
  /\ serverState = IF options.userId # NULL THEN "Active" ELSE "Auth"
  /\ user = options.userId
  /\ pubkeyChallenge = NULL
  /\ pending = {}
  /\ issued = 0

\* start() sends this before anything else can happen on the socket.
SendWelcome ==
  Welcome(1, options.userId, IF options.userId # NULL THEN {} ELSE options.modes)

-----------------------------------------------------------------------------
Arrived == Head(wire["server"])

\* A rejection of handleSocketMessage: logged, and the socket is closed.  The
\* state stays what it was.
ServerThrow ==
  /\ wire' = Pop(wire, "server")
  /\ CloseSocket("server")
  /\ UNCHANGED serverVars

\* The end of an auth request: the new state, and the response to the client.
Respond(state, oneof, v) ==
  /\ serverState' = state
  /\ wire' = Push(wire, "server", AuthResponse(oneof, v))
  /\ UNCHANGED <<fin, ready, options>>

-----------------------------------------------------------------------------
(* case State.Auth: handleAuthRequest is called ...                         *)

\* Mutant of ServerAuthRequest: the state is not set before the await.
ServerAuthRequestInAuth ==
  /\ Deliverable("server") /\ serverState = "Auth"
  /\ Arrived.kind = "authRequest"
  /\ pending' = pending \cup {[call |-> "handleAuthRequest", request |-> Arrived.request]}
  /\ wire' = Pop(wire, "server")
  /\ UNCHANGED <<options, serverState, user, pubkeyChallenge, issued, fin, ready>>

ServerAuthRequest ==
  /\ Deliverable("server") /\ serverState = "Auth"
  /\ Arrived.kind = "authRequest"
  /\ serverState' = "ProcessingAuth"
  /\ pending' = pending \cup {[call |-> "handleAuthRequest", request |-> Arrived.request]}
  /\ wire' = Pop(wire, "server")
  /\ UNCHANGED <<options, user, pubkeyChallenge, issued, fin, ready>>

(* ... and returns.                                                         *)

\* The server has a callback for the mode of the request.
Supported(request) == request # NULL /\ request.auth \in options.modes

AuthReturns(p) ==
  /\ p \in pending /\ p.call = "handleAuthRequest"
  /\ pending' = pending \ {p}

\* Mutant of ServerAccepts: user is not set.
ServerAcceptsForgets(p, id) ==
  /\ AuthReturns(p)
  /\ Supported(p.request) /\ p.request.auth \in {"guest", "token"}
  /\ Respond("Active", "userId", id)
  /\ UNCHANGED <<user, pubkeyChallenge, issued>>

\* guest() or token() returned a user ID.
ServerAccepts(p, id) ==
  /\ AuthReturns(p)
  /\ Supported(p.request) /\ p.request.auth \in {"guest", "token"}
  /\ user' = id
  /\ Respond("Active", "userId", id)
  /\ UNCHANGED <<pubkeyChallenge, issued>>

\* The mode has no callback, token() or pubkey() returned null, or the
\* callback threw.
ServerRefuses(p) ==
  /\ AuthReturns(p)
  /\ \/ ~Supported(p.request) /\ Respond("Auth", "error", "AUTHERR_BAD_MODE")
     \/ /\ Supported(p.request)
        /\ p.request.auth # "guest"
        /\ Respond("Auth", "error", "AUTHERR_BAD_CREDENTIAL")
     \/ Supported(p.request) /\ Respond("Auth", "error", "AUTHERR_INTERNAL")
  /\ UNCHANGED <<user, pubkeyChallenge, issued>>

\* Mutants of ServerChallenges: the challenge stored is not the one sent; the
\* state goes back to Auth; the validator is not stored.
ServerChallengesOther(p) ==
  /\ AuthReturns(p)
  /\ Supported(p.request) /\ p.request.auth = "pubkey"
  /\ issued' = issued + 1
  /\ pubkeyChallenge' = [challenge |-> issued, validate |-> p.request]
  /\ Respond("PubkeyChallenge", "pubkeyChallenge", issued')
  /\ UNCHANGED user

ServerChallengesInAuth(p) ==
  /\ AuthReturns(p)
  /\ Supported(p.request) /\ p.request.auth = "pubkey"
  /\ issued' = issued + 1
  /\ pubkeyChallenge' = [challenge |-> issued', validate |-> p.request]
  /\ Respond("Auth", "pubkeyChallenge", issued')
  /\ UNCHANGED user

ServerChallengesNobody(p) ==
  /\ AuthReturns(p)
  /\ Supported(p.request) /\ p.request.auth = "pubkey"
  /\ issued' = issued + 1
  /\ pubkeyChallenge' = [challenge |-> issued', validate |-> NULL]
  /\ Respond("PubkeyChallenge", "pubkeyChallenge", issued')
  /\ UNCHANGED user

\* pubkey() returned a validator.
ServerChallenges(p) ==
  /\ AuthReturns(p)
  /\ Supported(p.request) /\ p.request.auth = "pubkey"
  /\ issued' = issued + 1
  /\ pubkeyChallenge' = [challenge |-> issued', validate |-> p.request]
  /\ Respond("PubkeyChallenge", "pubkeyChallenge", issued')
  /\ UNCHANGED user

-----------------------------------------------------------------------------
(* case State.PubkeyChallenge: validate is called ...                       *)

\* Mutant of ServerChallengeResponse: the challenge can be answered again.
ServerChallengeResponseKeeps ==
  /\ Deliverable("server") /\ serverState = "PubkeyChallenge"
  /\ Arrived.kind = "challengeResponse"
  /\ serverState' = "ProcessingAuth"
  /\ pending' = pending \cup
       {[call |-> "validate", validate |-> pubkeyChallenge.validate,
         challenge |-> pubkeyChallenge.challenge, signature |-> Arrived.signature]}
  /\ wire' = Pop(wire, "server")
  /\ UNCHANGED <<options, user, pubkeyChallenge, issued, fin, ready>>

ServerChallengeResponse ==
  /\ Deliverable("server") /\ serverState = "PubkeyChallenge"
  /\ Arrived.kind = "challengeResponse"
  /\ serverState' = "ProcessingAuth"
  /\ pending' = pending \cup
       {[call |-> "validate", validate |-> pubkeyChallenge.validate,
         challenge |-> pubkeyChallenge.challenge, signature |-> Arrived.signature]}
  /\ pubkeyChallenge' = NULL
  /\ wire' = Pop(wire, "server")
  /\ UNCHANGED <<options, user, issued, fin, ready>>

(* ... and returns.                                                         *)

ValidateReturns(p) ==
  /\ p \in pending /\ p.call = "validate"
  /\ pending' = pending \ {p}

\* crypto.subtle.verify in ed25519Validator: the signature is by the key that
\* was presented, over this challenge.
Verifies(p) == p.signature = [by |-> p.validate, over |-> p.challenge]

\* Mutant of ServerValidates: no user ID is stored.
ServerValidatesForgets(p, id) ==
  /\ ValidateReturns(p)
  /\ Verifies(p)
  /\ Respond("Active", "userId", id)
  /\ UNCHANGED <<user, pubkeyChallenge, issued>>

\* An empty user ID makes the connection active and is not stored.
ServerValidates(p, id) ==
  /\ ValidateReturns(p)
  /\ Verifies(p)
  /\ user' = IF id # "" THEN id ELSE user
  /\ Respond("Active", "userId", id)
  /\ UNCHANGED <<pubkeyChallenge, issued>>

ServerRejects(p) ==
  /\ ValidateReturns(p)
  /\ Respond("Auth", "error", "AUTHERR_BAD_CREDENTIAL")
  /\ UNCHANGED <<user, pubkeyChallenge, issued>>

\* validate threw: the client is told, the state stays ProcessingAuth.
ServerValidateThrows(p) ==
  /\ ValidateReturns(p)
  /\ Respond(serverState, "error", "AUTHERR_INTERNAL")
  /\ UNCHANGED <<user, pubkeyChallenge, issued>>

-----------------------------------------------------------------------------
(* The other cases of handleSocketMessage.                                  *)

\* The decoder of the current state does not accept the frame.
ServerBadMessage ==
  /\ Deliverable("server")
  /\ \/ serverState = "Auth" /\ Arrived.kind # "authRequest"
     \/ serverState = "PubkeyChallenge" /\ Arrived.kind # "challengeResponse"
     \/ serverState = "Active" /\ Arrived.kind # "rpc"
  /\ ServerThrow

\* case State.ProcessingAuth
ServerUnexpected ==
  /\ Deliverable("server") /\ serverState = "ProcessingAuth"
  /\ ServerThrow

\* case State.Active: the RPC layer takes the message.
ServerDispatch ==
  /\ Deliverable("server")
  /\ serverState = "Active" /\ Arrived.kind = "rpc"
  /\ wire' = Pop(wire, "server")
  /\ UNCHANGED <<serverVars, fin, ready>>

\* The RPC layer sends: only a call it received makes it do so.
ServerSend ==
  /\ serverState = "Active"
  /\ \E m \in RpcMessage : wire' = Push(wire, "server", m)
  /\ UNCHANGED <<serverVars, fin, ready>>

\* The server registers no handler for the close event.
ServerOnClose ==
  /\ CloseEvent("server")
  /\ UNCHANGED serverVars

ServerReceive ==
  \/ ServerAuthRequest
  \/ ServerChallengeResponse
  \/ ServerBadMessage
  \/ ServerUnexpected
  \/ ServerDispatch
  \/ ServerOnClose

ServerReturn ==
  \E p \in pending :
    \/ \E id \in Users : ServerAccepts(p, id) \/ ServerValidates(p, id)
    \/ ServerRefuses(p)
    \/ ServerChallenges(p)
    \/ ServerRejects(p)
    \/ ServerValidateThrows(p)

ServerNext == ServerReceive \/ ServerReturn
=============================================================================
