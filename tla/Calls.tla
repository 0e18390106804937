------------------------------- MODULE Calls --------------------------------
(***************************************************************************)
(* The RPC layers of this library's client and server on the two ends of   *)
(* an active connection: any number of calls of the four kinds at once,    *)
(* whose messages overtake each other only between the two directions,     *)
(* while handlers fail, callers misuse their streams and the connection    *)
(* breaks.                                                                 *)
(***************************************************************************)
EXTENDS ClientCalls, ServerCalls, Subsequences, SequencesExt, FiniteSets

CONSTANT Breaks  \* bound: whether the connection closes or is lost

ASSUME BreaksAssumption == Breaks \in BOOLEAN

vars == <<clientVars, serverVars, sockVars>>

TypeOK ==
  /\ ClientTypeOK
  /\ ServerTypeOK
  /\ SocketTypeOK(ClientMessage \cup ServerMessage)

Init ==
  /\ ClientInit
  /\ ServerInit
  /\ SocketInit([e \in Ends |-> <<>>])

Next ==
  \/ ClientNext /\ UNCHANGED serverVars
  \/ ServerNext /\ UNCHANGED clientVars
  \/ Breaks /\ SocketStep /\ UNCHANGED <<clientVars, serverVars>>

Spec == Init /\ [][Next]_vars

-----------------------------------------------------------------------------
RunsOf(i) == {r \in DOMAIN runs : runs[r].id = i}

Decodable(bodies) == Without(bodies, Malformed)

(***************************************************************************)
(* A call that succeeds for its caller has had exactly one handler, and    *)
(* the caller got what that handler sent, all of it and in order: the      *)
(* response of a handler that returned, or everything up to the end of a   *)
(* stream the handler closed (client.ts:126-179, server.ts:265-294,        *)
(* 339-368).                                                               *)
(***************************************************************************)
OkMeansAnswered ==
  \A i \in DOMAIN made : made[i].status = "ok" =>
    \E r \in RunsOf(i) :
      /\ RunsOf(i) = {r}
      /\ runs[r].method = made[i].method
      /\ made[i].received = runs[r].sent
      /\ IF made[i].method.serverStreaming THEN runs[r].closed ELSE runs[r].result = "returned"

(***************************************************************************)
(* At any time a caller has a prefix of what its handler sent, and a       *)
(* handler a prefix of what its caller sent before completing the stream:  *)
(* calls that share the socket never see each other's messages             *)
(* (client.ts:127, server.ts:395).                                         *)
(***************************************************************************)
NoCrossTalk ==
  \A r \in DOMAIN runs :
    LET call == made[runs[r].id]
    IN  /\ IsPrefix(call.received, runs[r].sent)
        /\ IsPrefix(runs[r].requests, Decodable(call.sent))

(***************************************************************************)
(* A handler that sees its request stream end has every request: only      *)
(* after it closed its own stream does the client close the other for the  *)
(* caller (client.ts:166, server.ts:361, 451).                             *)
(***************************************************************************)
EndOfRequests ==
  \A r \in DOMAIN runs :
    LET call == made[runs[r].id]
    IN  runs[r].outStream = "closed" /\ runs[r].result = "running" /\ ~runs[r].closed =>
          call.completed /\ runs[r].requests = Decodable(call.sent)

\* What can go wrong with call i while the connection lives.
Fault(i) ==
  \/ made[i].misused
  \/ made[i].method \notin Service
  \/ \E j \in DOMAIN made[i].sent : made[i].sent[j] \in Malformed
  \/ \E r \in RunsOf(i) :
       runs[r].result = "threw" \/ \E j \in DOMAIN runs[r].sent : runs[r].sent[j] \in Malformed

(***************************************************************************)
(* A call fails for a reason: the connection ended, the handler failed, a  *)
(* message did not decode, or the caller misused the stream.  Messages     *)
(* that cross the end of a call on the wire (a request after the handler   *)
(* returned, the streamClose of client.ts:166, the second streamClosed of  *)
(* server.ts:280 and 354, and the errors they provoke) never fail a call.  *)
(***************************************************************************)
ErrorsHaveACause ==
  \A i \in DOMAIN made :
    made[i].status = "err" => Fault(i) \/ ready["client"] = "closed"

(***************************************************************************)
(* The server's table holds the running handlers, each under its ID, and   *)
(* nothing else (server.ts:258, 304, 331, 378).                            *)
(***************************************************************************)
TableHoldsRunning ==
  \A i \in CallIds :
    {r \in RunsOf(i) : runs[r].result = "running"} = {serverCalls[i]} \ {NoCall}

(***************************************************************************)
(* Only the close event makes callers wait in vain: a pending call is in   *)
(* the table, where an answer or abortAll finds it, and once the close     *)
(* event has been handled only calls made after it are pending             *)
(* (client.ts:181-191, 203, 256, 305, 361).                                *)
(***************************************************************************)
PendingIsReachable ==
  \A i \in DOMAIN made : made[i].status = "pending" =>
    i \in clientCalls /\ (ready["client"] = "closed" => made[i].late)

(***************************************************************************)
(* Every call that is not made on a closed connection settles, whatever is *)
(* lost, if handlers end.                                                  *)
(***************************************************************************)
CallsSettle ==
  \A i \in CallIds :
    (i \in DOMAIN made /\ ~made[i].late) ~> (i \in DOMAIN made /\ made[i].status # "pending")

-----------------------------------------------------------------------------
\* The run of call i, if there is one.
RunOf(i) ==
  IF RunsOf(i) = {}
    THEN [result |-> "none", requests |-> <<>>, sent |-> <<>>, closed |-> FALSE]
    ELSE runs[CHOOSE r \in RunsOf(i) : \A s \in RunsOf(i) : r <= s]

CallOf(i) ==
  IF i \in DOMAIN made THEN made[i] ELSE [status |-> "none", sent |-> <<>>, received |-> <<>>]

Contract(i) == INSTANCE CallContract WITH
  status    <- CallOf(i).status,
  sent      <- CallOf(i).sent,
  received  <- CallOf(i).received,
  handler   <- RunOf(i).result,
  requests  <- RunOf(i).requests,
  responses <- RunOf(i).sent,
  closed    <- RunOf(i).closed

(***************************************************************************)
(* Each call by itself keeps CallContract, whatever the others do: it is   *)
(* served once, and once its caller knows how it ended neither that nor    *)
(* what it received changes any more, though messages for it still arrive  *)
(* (client.ts:126-191, 230, server.ts:235-380).  Besides, no ID has two    *)
(* runs.                                                                   *)
(***************************************************************************)
KeepsContract ==
  /\ \A i \in CallIds : Contract(i)!Init
  /\ [][\A i \in CallIds :
          /\ [Contract(i)!Next]_(Contract(i)!callVars)
          /\ Cardinality(RunsOf(i)') <= 1]_vars

-----------------------------------------------------------------------------
(* What the README says of the calls, and the code does not do.             *)

(***************************************************************************)
(* README.md:88, "SS_wait --> [*]: ServerMessage (streamClosed)": a        *)
(* streamClosed ends the call, so there is one of it.                      *)
(***************************************************************************)
OneStreamClosed ==
  \A i, j \in DOMAIN wire["client"] :
    /\ wire["client"][i].oneofKind = "streamClosed"
    /\ wire["client"][j].oneofKind = "streamClosed"
    /\ wire["client"][i].id = wire["client"][j].id
    => i = j

(***************************************************************************)
(* README.md:101, "CS_streamSend --> [*]: ServerMessage (error)": an error *)
(* ends the call.                                                          *)
(***************************************************************************)
ErrorEndsCall ==
  \A i \in DOMAIN wire["client"] :
    wire["client"][i].oneofKind = "error" => serverCalls[wire["client"][i].id] = NoCall
=============================================================================
