----------------------------- MODULE OpenServer -----------------------------
(***************************************************************************)
(* The server's half of the handshake against a client that may be another *)
(* implementation or out of step: it sends any frame in any state, does    *)
(* not wait for the answer to one before it sends the next, and may sign   *)
(* any challenge of the connection.                                        *)
(***************************************************************************)
EXTENDS ServerAuth, FiniteSets

CONSTANTS
  ClientAuths,   \* the entries the client presents
  MaxFromClient,  \* bound: client frames under way
  MaxChallenges  \* bound: no pubkey request is sent once so many challenges were issued

ASSUME OpenServerAssumption ==
  ClientAuths \subseteq Auth /\ MaxFromClient \in Nat /\ MaxChallenges \in Nat

openServerVars == <<serverVars, sockVars>>

OpenServerTypeOK == ServerTypeOK /\ SocketTypeOK(ServerFrame \cup ClientFrame)

OpenServerInit ==
  /\ ServerInit
  /\ SocketInit([e \in Ends |-> IF e = "client" THEN <<SendWelcome>> ELSE <<>>])

\* The frames the client may send now.
Frames ==
  {AuthRequest(m) : m \in IF issued < MaxChallenges
                            THEN ClientAuths \cup {NULL}
                            ELSE {m \in ClientAuths : m.auth # "pubkey"}}
    \cup {ChallengeResponse(m, c) : m \in {m \in ClientAuths : m.auth = "pubkey"},
                                    c \in 1..issued}
    \cup RpcMessage \cup Garbage

AnyClient ==
  /\ UNCHANGED serverVars
  /\ \/ /\ Len(wire["server"]) < MaxFromClient /\ wire["client"] = <<>>
        /\ \E f \in Frames : wire' = Push(wire, "client", f)
        /\ UNCHANGED <<fin, ready>>
     \/ /\ Deliverable("client")
        /\ wire' = Pop(wire, "client")
        /\ UNCHANGED <<fin, ready>>
     \/ CloseEvent("client")

OpenServerNext ==
  \/ ServerNext
  \/ AnyClient
  \/ SocketStep /\ UNCHANGED serverVars

OpenServerSpec == OpenServerInit /\ [][OpenServerNext]_openServerVars

-----------------------------------------------------------------------------
(***************************************************************************)
(* Only one credential is being checked at any time, however many requests *)
(* arrive during the await (server.ts:492, 505, 514).                      *)
(***************************************************************************)
OneCheckAtATime == Cardinality(pending) <= 1

(***************************************************************************)
(* Once a connection is active its user never changes and it is never      *)
(* asked to authenticate again: no answer of a callback that was overtaken *)
(* can replace the identity (server.ts:493-501, 519-524).                  *)
(***************************************************************************)
IdentityFixed ==
  [][serverState = "Active" => serverState' = "Active" /\ user' = user]_openServerVars

(***************************************************************************)
(* A pubkey login rests on a signature over the challenge generated last,  *)
(* by the key it was generated for: signatures over earlier challenges of  *)
(* the connection are worth nothing (server.ts:209, 515-522).              *)
(***************************************************************************)
LatestChallengeOnly ==
  [][\A p \in pending \ pending' :
       p.call = "validate" /\ serverState' = "Active" =>
         p.signature = [by |-> p.validate, over |-> issued]]_openServerVars

(***************************************************************************)
(* A challenge is outstanding exactly while the server waits for the       *)
(* answer to it (server.ts:209 and 494, 514-516).                          *)
(***************************************************************************)
ChallengeOutstanding == serverState = "PubkeyChallenge" <=> pubkeyChallenge # NULL
=============================================================================
