----------------------------- MODULE OpenClient -----------------------------
(***************************************************************************)
(* The client's half of the handshake against a server that may be another *)
(* implementation or out of step: it sends any frame at any time.          *)
(***************************************************************************)
EXTENDS ClientConnect

CONSTANTS
  AnyServerFrame,  \* the frames the server may send
  MaxFromServer    \* bound: server frames under way

ASSUME OpenClientAssumption ==
  AnyServerFrame \subseteq ServerFrame /\ MaxFromServer \in Nat

VARIABLE requests  \* history: the entries presented in auth requests that arrived

openClientVars == <<clientVars, sockVars, requests>>

OpenClientTypeOK ==
  /\ ClientTypeOK
  /\ SocketTypeOK(ServerFrame \cup ClientFrame)
  /\ requests \in Seq(Auth)

OpenClientInit ==
  /\ ClientInit
  /\ SocketInit([e \in Ends |-> <<>>])
  /\ requests = <<>>

\* The server reads what the client sent before it sends more.
ServerReads ==
  /\ Deliverable("server")
  /\ wire' = Pop(wire, "server")
  /\ requests' = LET f == Head(wire["server"])
                 IN  IF f.kind = "authRequest" THEN Append(requests, f.request) ELSE requests
  /\ UNCHANGED <<fin, ready>>

ServerSends ==
  /\ Len(wire["client"]) < MaxFromServer /\ wire["server"] = <<>>
  /\ \E f \in AnyServerFrame : wire' = Push(wire, "server", f)
  /\ UNCHANGED <<fin, ready, requests>>

AnyServer ==
  /\ \/ ServerReads
     \/ ServerSends
     \/ CloseEvent("server") /\ UNCHANGED requests
  /\ UNCHANGED clientVars

OpenClientNext ==
  \/ ClientNext /\ UNCHANGED requests
  \/ AnyServer
  \/ SocketStep /\ UNCHANGED <<clientVars, requests>>

OpenClientSpec == OpenClientInit /\ [][OpenClientNext]_openClientVars

-----------------------------------------------------------------------------
(***************************************************************************)
(* A credential leaves the client only if the welcome offered its mode,    *)
(* and only once: whatever the server answers, or sends unasked, the       *)
(* requests are the usable entries of ConnectOptions.auth from the last to *)
(* the first (client.ts:414-452).                                          *)
(***************************************************************************)
OfferedModesOnly == IsPrefix(requests, Candidates)

(***************************************************************************)
(* The promise and the socket agree with what the handlers will do: while  *)
(* it is pending the client is connecting, once it is resolved the client  *)
(* never goes back to the handshake, and once it is rejected the socket is *)
(* closed or closing.  The last makes the late continuation of sign()      *)
(* (client.ts:483-488) harmless, though it revives a closed client, which  *)
(* then takes frames that still arrive for its own: whatever the revived   *)
(* client does, no credential and no signature leaves it after its caller  *)
(* was told that connecting failed (client.ts:514-541).                    *)
(***************************************************************************)
PromiseFollowsState ==
  /\ promise = "pending" => clientState \in Connecting
  /\ promise = "resolved" => clientState \in {"Active", "Closed"}
  /\ promise \in Rejection => ready["client"] # "open"

(***************************************************************************)
(* sign() may prompt a human: while connecting, it is outstanding at most  *)
(* once and only in the state that waits for it, so its continuation finds *)
(* the state it left, whatever the server sends meanwhile                  *)
(* (client.ts:481-488, 502).                                               *)
(***************************************************************************)
OneSignature ==
  promise = "pending" =>
    IF clientState = "PubkeyChallenge" THEN Cardinality(signing) <= 1 ELSE signing = {}
=============================================================================
