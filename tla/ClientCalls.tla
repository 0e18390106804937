---------------------------- MODULE ClientCalls -----------------------------
(***************************************************************************)
(* The client's half of the RPC layer: SockRpcTransport of client.ts and   *)
(* the streams it hands to the caller.                                     *)
(*                                                                         *)
(* A call leaves the table in a microtask after its status settled, that   *)
(* is, before the next frame is handled: settling and removal are one step *)
(* here.                                                                   *)
(***************************************************************************)
EXTENDS RpcProtocol, WebSocket

CONSTANTS
  Called,  \* the methods of the client's service that the call of an ID may be to
  Misuse   \* bound: whether callers use a request stream they completed

ASSUME CallerAssumption == Called \in [CallIds -> SUBSET Method] /\ Misuse \in BOOLEAN

VARIABLES
  next,         \* next: the ID of the next call
  made,         \* the calls made so far, as their callers see them
  clientCalls   \* calls: the IDs in the table

clientVars == <<next, made, clientCalls>>

Made ==
  [method : Method,
   late : BOOLEAN,        \* made after the close event
   sent : Seq(Body),      \* what the caller sent before it completed the stream
   completed : BOOLEAN,   \* the caller completed the request stream
   misused : BOOLEAN,     \* the caller used the request stream after that
   received : Seq(Body),  \* what the caller got
   status : {"pending", "ok", "err", "threw"}]

ClientTypeOK ==
  /\ next \in Nat
  /\ made \in [0..(next - 1) -> Made]
  /\ clientCalls \subseteq DOMAIN made

ClientInit ==
  /\ next = 0
  /\ made = [i \in {} |-> {}]
  /\ clientCalls = {}

-----------------------------------------------------------------------------
(* unary, serverStreaming, clientStreaming, duplex                          *)

\* What the caller may send with call i: a call that streams requests sends
\* none yet.
First(i, m) ==
  IF m.clientStreaming THEN {<<>>}
    ELSE {<<b>> : b \in {[call |-> i, n |-> 1]} \cup Malformed}

NewCall(m, sent, late, status) ==
  [method |-> m, late |-> late, sent |-> sent, completed |-> FALSE, misused |-> FALSE,
   received |-> <<>>, status |-> status]

\* The call as it is made: put in the table and sent, or thrown back at the
\* caller by a send() that throws on a socket that is not open, or because its
\* request does not encode; then it is taken off the table again.
Make(m) ==
  \E sent \in First(next, m), status \in {"pending", "threw"} :
    /\ status = "threw" => ready["client"] # "open" \/ ~m.clientStreaming
    /\ made' = [i \in 0..next |->
                  IF i < next THEN made[i]
                  ELSE NewCall(m, sent, ready["client"] = "closed", status)]
    /\ IF status = "pending"
         THEN /\ clientCalls' = clientCalls \cup {next}
              /\ wire' = Push(wire, "client", IF m.clientStreaming THEN CallClientStream(next, m)
                                                ELSE Call(next, m, sent[1]))
         ELSE UNCHANGED <<clientCalls, wire>>

\* Mutant of ClientMakes: this.next without ++.
ClientMakesSameId ==
  /\ next \in CallIds
  /\ \E m \in Called[next] : Make(m)
  /\ UNCHANGED <<next, fin, ready>>

ClientMakes ==
  /\ next \in CallIds
  /\ next' = next + 1
  /\ \E m \in Called[next] : Make(m)
  /\ UNCHANGED <<fin, ready>>

\* The caller has a request stream.  Nothing records that it was completed.
HasStream(i) ==
  /\ made[i].method.clientStreaming /\ made[i].status # "threw"
  /\ made[i].completed => Misuse /\ ~made[i].misused

\* SockRpcClientStream.send
ClientStreamSends(i) ==
  /\ HasStream(i)
  /\ Len(made[i].sent) < MaxSends
  /\ \E b \in {[call |-> i, n |-> Len(made[i].sent) + 1]} \cup Malformed :
       /\ made' = IF made[i].completed
                    THEN [made EXCEPT ![i].misused = TRUE]
                    ELSE [made EXCEPT ![i].sent = Append(@, b)]
       /\ wire' = Push(wire, "client", StreamSend(i, b))
  /\ UNCHANGED <<next, clientCalls, fin, ready>>

\* SockRpcClientStream.complete
ClientStreamCompletes(i) ==
  /\ HasStream(i)
  /\ made' = [made EXCEPT ![i].completed = TRUE, ![i].misused = made[i].completed]
  /\ wire' = Push(wire, "client", StreamClose(i))
  /\ UNCHANGED <<next, clientCalls, fin, ready>>

-----------------------------------------------------------------------------
(* handleServerMessage                                                      *)

Received == Head(wire["client"])

Receives(oneof) ==
  /\ Deliverable("client")
  /\ Received.oneofKind \in oneof
  /\ Received.id \in clientCalls

Pending(i) == made[i].status = "pending"

\* The status of call i settles, unless it did: a promise settles once, and so
\* does the controller of a response stream.
Settle(i, status, received) ==
  /\ made' = IF Pending(i)
               THEN [made EXCEPT ![i].status = status, ![i].received = received]
               ELSE made
  /\ clientCalls' = clientCalls \ {i}

Take ==
  /\ wire' = Pop(wire, "client")
  /\ UNCHANGED <<next, fin, ready>>

\* A message for a call that has settled is ignored, and so is one whose oneof
\* is not set.
ClientIgnores ==
  /\ Deliverable("client")
  /\ Received.id \notin clientCalls \/ Received.oneofKind = "none"
  /\ Take
  /\ UNCHANGED <<made, clientCalls>>

\* The message a call got so far and the new one.
Got == Append(made[Received.id].received, Received.body)

\* The server says so, or its message makes no sense for the call.
ClientError ==
  /\ \/ Receives({"error"})
     \/ Receives({"callResponse"}) /\ made[Received.id].method.serverStreaming
     \/ Receives({"streamRecv"}) /\ ~made[Received.id].method.serverStreaming
     \/ Receives({"callResponse", "streamRecv"}) /\ Received.body \in Malformed
  /\ Settle(Received.id, "err", made[Received.id].received)
  /\ Take

ClientResponse ==
  /\ Receives({"callResponse"})
  /\ ~made[Received.id].method.serverStreaming /\ Received.body \notin Malformed
  /\ Settle(Received.id, "ok", Got)
  /\ Take

ClientStreamRecv ==
  /\ Receives({"streamRecv"})
  /\ made[Received.id].method.serverStreaming /\ Received.body \notin Malformed
  /\ made' = IF Pending(Received.id) THEN [made EXCEPT ![Received.id].received = Got] ELSE made
  /\ Take
  /\ UNCHANGED clientCalls

\* Mutant of ClientStreamClosed: the response stream is completed only when
\* there is no request stream to complete.
ClientStreamClosedEither ==
  /\ Receives({"streamClosed"})
  /\ LET i == Received.id
         w == Pop(wire, "client")
     IN  IF made[i].method.clientStreaming
           THEN /\ wire' = Push(w, "client", StreamClose(i))
                /\ UNCHANGED <<made, clientCalls>>
           ELSE /\ wire' = w
                /\ IF made[i].method.serverStreaming
                     THEN Settle(i, "ok", made[i].received)
                     ELSE UNCHANGED <<made, clientCalls>>
  /\ UNCHANGED <<next, fin, ready>>

\* call.in?.complete(), then call.out?.notifyComplete(): the request stream of
\* a duplex call is closed for the caller, whether it is done or not.
ClientStreamClosed ==
  /\ Receives({"streamClosed"})
  /\ LET i == Received.id
         w == Pop(wire, "client")
     IN  /\ wire' = IF made[i].method.clientStreaming
                      THEN Push(w, "client", StreamClose(i))
                      ELSE w
         /\ IF made[i].method.serverStreaming
              THEN Settle(i, "ok", made[i].received)
              ELSE UNCHANGED <<made, clientCalls>>
  /\ UNCHANGED <<next, fin, ready>>

-----------------------------------------------------------------------------
\* The calls with ID i that a callback may make while abortAll runs it.
Retries(i, outcomes) ==
  UNION {{NewCall(m, sent, FALSE, status) : sent \in First(i, m), status \in outcomes} :
           m \in Called[i]}

\* abortAll.  Callbacks registered with a response stream's onError run inside
\* it and may make calls, which the iteration over the table reaches too: as
\* they are made on a closed socket, send() throws, or does nothing and the
\* iteration ends them.
AbortAll(outcomes) ==
  /\ \E n \in {next} \cup {i + 1 : i \in CallIds} :
       /\ next <= n /\ next..(n - 1) \subseteq CallIds
       /\ n > next => \E i \in clientCalls : made[i].method.serverStreaming
       /\ next' = n
       /\ \E new \in [next..(n - 1) -> UNION {Retries(i, outcomes) : i \in CallIds}] :
            /\ \A i \in DOMAIN new : new[i] \in Retries(i, outcomes)
            /\ made' = [i \in 0..(n - 1) |->
                          IF i >= next THEN new[i]
                          ELSE IF i \in clientCalls /\ Pending(i)
                            THEN [made[i] EXCEPT !.status = "err"]
                          ELSE made[i]]
  /\ clientCalls' = {}

\* Mutants of ClientOnClose: the table is emptied, and no caller is told;
\* abortAll iterates over a copy of the table.
ClientOnCloseForgets ==
  /\ CloseEvent("client")
  /\ clientCalls' = {}
  /\ UNCHANGED <<next, made>>

ClientOnCloseSnapshot == CloseEvent("client") /\ AbortAll({"pending", "threw"})

\* The handler given to onClose.
ClientOnClose == CloseEvent("client") /\ AbortAll({"err", "threw"})

ClientHandles ==
  \/ ClientIgnores
  \/ ClientError
  \/ ClientResponse
  \/ ClientStreamRecv
  \/ ClientStreamClosed

ClientReceive == ClientHandles \/ ClientOnClose

Caller ==
  \/ ClientMakes
  \/ \E i \in DOMAIN made : ClientStreamSends(i) \/ ClientStreamCompletes(i)

ClientNext == ClientReceive \/ Caller
=============================================================================
