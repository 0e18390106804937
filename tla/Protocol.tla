------------------------------ MODULE Protocol ------------------------------
(***************************************************************************)
(* The messages of sockrpc.proto that open a connection; those that follow *)
(* them are a parameter.                                                   *)
(*                                                                         *)
(* Nothing on the wire says which message type a frame holds: a reader     *)
(* picks the decoder from its own state.  The field "kind" is therefore    *)
(* not data of the protocol but the type the writer encoded; a reader may  *)
(* use it only to decide whether its decoder is the right one.             *)
(***************************************************************************)
EXTENDS Naturals, Sequences

CONSTANTS
  NULL,   \* JavaScript's null and undefined
  Users,  \* user IDs, strings; "" may be one of them
  Tags,   \* tells two entries of the same auth mode apart (two tokens, two keys)
  RpcMessage  \* ServerMessage and ClientMessage: what they hold is the business
              \* of the RPC layer

ASSUME UsersAssumption == Users \subseteq STRING /\ Users # {} /\ NULL \notin Users

ASSUME RpcMessageAssumption == \A m \in RpcMessage : m.kind = "rpc"

AuthMode == {"guest", "token", "pubkey"}

\* The codes the server sends; AUTHERR_RATE_LIMITED and AUTHERR_USER_BANNED
\* are declared in sockrpc.proto and used nowhere.
AuthErrorCode == {"AUTHERR_INTERNAL", "AUTHERR_BAD_MODE", "AUTHERR_BAD_CREDENTIAL"}

\* One way to authenticate, as the client is configured with it.
Auth == [auth : AuthMode, tag : Tags]

\* What ed25519Signer returns: who signed, and which challenge.
Signature == [by : Auth, over : Nat]

ServerWelcome ==
  [kind : {"welcome"}, sockrpc : Nat, userId : Users \cup {NULL},
   auth : SUBSET AuthMode]

AuthOutcome ==
  [oneofKind : {"userId"}, value : Users]
    \cup [oneofKind : {"error"}, value : AuthErrorCode]
    \cup [oneofKind : {"pubkeyChallenge"}, value : Nat]
    \cup [oneofKind : {"none"}, value : {NULL}]

ServerAuthResponse == [kind : {"authResponse"}, response : AuthOutcome]

ClientAuthRequest == [kind : {"authRequest"}, request : Auth \cup {NULL}]

ClientPubkeyChallengeResponse == [kind : {"challengeResponse"}, signature : Signature]

\* A frame no decoder accepts.
Garbage == [kind : {"garbage"}]

ServerFrame == ServerWelcome \cup ServerAuthResponse \cup RpcMessage \cup Garbage
ClientFrame ==
  ClientAuthRequest \cup ClientPubkeyChallengeResponse \cup RpcMessage \cup Garbage

-----------------------------------------------------------------------------
Welcome(version, user, modes) ==
  [kind |-> "welcome", sockrpc |-> version, userId |-> user, auth |-> modes]

AuthResponse(oneof, v) ==
  [kind |-> "authResponse", response |-> [oneofKind |-> oneof, value |-> v]]

AuthRequest(method) == [kind |-> "authRequest", request |-> method]

ChallengeResponse(method, challenge) ==
  [kind |-> "challengeResponse", signature |-> [by |-> method, over |-> challenge]]
=============================================================================
