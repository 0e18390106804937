----------------------------- MODULE OpenCalls ------------------------------
(***************************************************************************)
(* The server's RPC layer against a client that may be another             *)
(* implementation: it sends any frame at any time, aborts calls, and uses  *)
(* the ID of a call again, during the call or after it.                    *)
(*                                                                         *)
(* The client sends what it likes whatever it has read, so it makes no     *)
(* difference when it reads, nor when, before it is handled, a frame is    *)
(* sent: it reads at once, and has one frame under way.  Nor does a broken *)
(* connection make one, as the server does not notice: it looks like a     *)
(* client that stops sending.                                              *)
(***************************************************************************)
EXTENDS ServerCalls, FiniteSets

CONSTANT MaxCalls  \* bound: call frames the client sends

\* IDs are 64-bit numbers.
ASSUME OpenCallsAssumption == MaxCalls \in Nat /\ IsFiniteSet(CallIds)

VARIABLES
  uses,      \* history: uses[i] is the number of call frames sent with ID i
  startedBy  \* history: the number, under its ID, of the call frame that started a run

historyVars == <<uses, startedBy>>

vars == <<historyVars, serverVars, sockVars>>

TypeOK ==
  /\ uses \in [CallIds -> 0..MaxCalls]
  /\ startedBy \in [DOMAIN runs -> 0..MaxCalls]
  /\ ServerTypeOK
  /\ SocketTypeOK(ClientMessage \cup ServerMessage)

Init ==
  /\ uses = [i \in CallIds |-> 0]
  /\ startedBy = <<>>
  /\ ServerInit
  /\ SocketInit([e \in Ends |-> <<>>])

\* A message of the n-th call under an ID, or bytes that are none.
Bodies(i, n) == {[call |-> i, n |-> n]} \cup Malformed

CallFrames(i) ==
  {Call(i, m, b) : m \in Method, b \in Bodies(i, uses[i] + 1)}
    \cup {CallClientStream(i, m) : m \in Method}

OtherFrames(i) ==
  {StreamSend(i, b) : b \in Bodies(i, uses[i])} \cup {StreamClose(i), Abort(i), NoMessage(i)}

\* A handler's request stream takes MaxSends messages (a bound).
Room(i) == serverCalls[i] # NoCall => Len(runs[serverCalls[i]].requests) < MaxSends

\* The call frames sent so far, by ID and number.
CallsSent == {c \in CallIds \X (1..MaxCalls) : c[2] <= uses[c[1]]}

ClientSends ==
  /\ wire["server"] = <<>>
  /\ \E i \in CallIds :
       \/ /\ Cardinality(CallsSent) < MaxCalls
          /\ uses' = [uses EXCEPT ![i] = @ + 1]
          /\ \E f \in CallFrames(i) : wire' = Push(wire, "client", f)
       \/ /\ \E f \in OtherFrames(i) :
               /\ f.oneofKind = "streamSend" => Room(i)
               /\ wire' = Push(wire, "client", f)
          /\ UNCHANGED uses
  /\ UNCHANGED <<startedBy, fin, ready>>

ClientReads ==
  /\ wire' = Pop(wire, "client")
  /\ UNCHANGED <<historyVars, fin, ready>>

\* A run that is started is that of the call frame sent last: there is one
\* frame under way.
RecordStart ==
  startedBy' = [r \in DOMAIN runs' |->
                  IF r \in DOMAIN runs THEN startedBy[r] ELSE uses[Arrived.id]]

Next ==
  \/ /\ wire["client"] # <<>>
     /\ ClientReads /\ UNCHANGED serverVars
  \/ /\ wire["client"] = <<>>
     /\ \/ ClientSends /\ UNCHANGED serverVars
        \/ ServerNext /\ RecordStart /\ UNCHANGED uses

Spec == Init /\ [][Next]_vars

-----------------------------------------------------------------------------
RunsOf(i) == {r \in DOMAIN runs : runs[r].id = i}

Running(i) == {r \in RunsOf(i) : runs[r].result = "running"}

(***************************************************************************)
(* Whatever IDs the client uses, an entry of the table leads to a handler  *)
(* that is still running, the last one started under the ID: no request    *)
(* stream or signal of a call that is over is touched (server.ts:258, 304, *)
(* 331, 378, 395, 468).                                                    *)
(***************************************************************************)
EntriesRun ==
  \A i \in CallIds : serverCalls[i] # NoCall =>
    /\ serverCalls[i] \in Running(i)
    /\ \A r \in RunsOf(i) : r <= serverCalls[i]

(***************************************************************************)
(* A client that uses an ID once can reach its handler for as long as it   *)
(* runs, in whatever way it uses the other IDs; only a second call with    *)
(* the ID of a running one, even a call that is refused, takes the entry   *)
(* away from it (server.ts:255-258, 304).                                  *)
(***************************************************************************)
OnlyReuseHides ==
  \A i \in CallIds : uses[i] <= 1 => Running(i) = {serverCalls[i]} \ {NoCall}

(***************************************************************************)
(* When an ID is used again while its first handler still runs, the call   *)
(* that replaces it is the border: the old handler, though it is running   *)
(* and its request stream is open, gets nothing of what the client sends   *)
(* from then on, whether the new one gets it or it is refused, and the new *)
(* one gets nothing of what was sent before (server.ts:258, 331, 395).     *)
(***************************************************************************)
ReplacedGetsNothing ==
  \A i \in CallIds : \A old, new \in RunsOf(i) : old < new =>
    /\ \A j \in DOMAIN runs[old].requests : runs[old].requests[j].n < startedBy[new]
    /\ \A k \in DOMAIN runs[new].requests : runs[new].requests[k].n >= startedBy[new]

(***************************************************************************)
(* A request, the end of a request stream or an abort touches one handler, *)
(* the last one that was started under its ID, and only while it runs: no  *)
(* handler of another ID is aborted, nor one whose ID was used again       *)
(* (server.ts:395, 423-483).                                               *)
(***************************************************************************)
OnlyTheAddressed ==
  [][ServerReceive =>
       \A r \in DOMAIN runs : runs'[r] # runs[r] =>
         /\ runs[r].id = Arrived.id /\ runs[r].result = "running"
         /\ \A s \in RunsOf(Arrived.id) : s <= r]_vars
=============================================================================
