------------------------- MODULE ServerCallsProofs --------------------------
(***************************************************************************)
(* What each step of the server's RPC layer does to its handlers, its      *)
(* table and the wire, whatever client is at the other end.                *)
(***************************************************************************)
EXTENDS ServerCalls, CommonProofs

\* The messages of calls whose IDs are used.
Message == {f \in ClientMessage \cup ServerMessage : f.id \in CallIds}

ServerTypes == ServerTypeOK /\ SocketTypeOK(Message)

\* The server's answers are messages.
LEMMA Answers ==
  ASSUME NEW i \in CallIds
  PROVE  /\ \A c \in ErrorCode : Error(i, c) \in Message
         /\ \A b \in Body : CallResponse(i, b) \in Message /\ StreamRecv(i, b) \in Message
         /\ StreamClosed(i) \in Message
  BY RpcAssumption
  DEF Message, ServerMessage, Error, CallResponse, StreamRecv, StreamClosed

\* What a message of each kind holds.
LEMMA Contents ==
  ASSUME NEW f \in Message
  PROVE  /\ f.id \in CallIds
         /\ f.oneofKind \in {"call", "callClientStream"} => f.method \in Method
         /\ f.oneofKind \in {"call", "streamSend"} => f.body \in Body
  BY DEF Message, ClientMessage, ServerMessage

\* What is on the server's side of the wire when a message arrives.
LEMMA Arrival ==
  ASSUME ServerTypes, Deliverable("server")
  PROVE  /\ Arrived \in Message /\ Arrived.id \in CallIds
         /\ Arrived = wire["server"][1] /\ 1 \in DOMAIN wire["server"]
         /\ Pop(wire, "server") \in [Ends -> Seq(Message)]
         /\ Pop(wire, "server")["server"] = Tail(wire["server"])
         /\ Pop(wire, "server")["client"] = wire["client"]
<1>1. "server" \in Ends /\ Peer("server") = "client"
  BY DEF Ends, Peer
<1>2. wire \in [Ends -> Seq(Message)] /\ wire["server"] # <<>>
  BY DEF Deliverable, ServerTypes, SocketTypeOK
<1>3. Arrived \in Message
  BY <1>1, <1>2, PopFacts DEF Arrived
<1>4. /\ Arrived = wire["server"][1] /\ 1 \in DOMAIN wire["server"]
      /\ Pop(wire, "server") \in [Ends -> Seq(Message)]
      /\ Pop(wire, "server")["server"] = Tail(wire["server"])
  BY <1>1, <1>2, PopFacts DEF Arrived
<1>5. Pop(wire, "server")["client"] = wire["client"]
  BY <1>2 DEF Pop, Ends
<1> QED
  BY <1>3, <1>4, <1>5, Contents

\* What the server sends does not change what it is sent.
LEMMA Sending ==
  ASSUME NEW w \in [Ends -> Seq(Message)], NEW f \in Message
  PROVE  /\ Push(w, "server", f) \in [Ends -> Seq(Message)]
         /\ Push(w, "server", f)["server"] = w["server"]
BY PushFacts DEF Ends

\* A run in the table is replaced.
LEMMA Replace ==
  ASSUME ServerTypes, NEW r \in DOMAIN runs, NEW run \in Run
  PROVE  /\ [runs EXCEPT ![r] = run] \in Seq(Run)
         /\ DOMAIN [runs EXCEPT ![r] = run] = DOMAIN runs
         /\ \A s \in DOMAIN runs : [runs EXCEPT ![r] = run][s] = IF s = r THEN run ELSE runs[s]
BY DEF ServerTypes, ServerTypeOK

-----------------------------------------------------------------------------
(* What a step does to the handlers and the table.                          *)

\* At most run r changes, and not in its ID.
OnlyRun(r) ==
  /\ DOMAIN runs' = DOMAIN runs
  /\ \A s \in DOMAIN runs : runs'[s].id = runs[s].id /\ (s # r => runs'[s] = runs[s])

\* A handler starts with what the call frame brings.
Starts ==
  /\ Arrives({"call", "callClientStream"})
  /\ Len(runs') = Len(runs) + 1
  /\ \A s \in DOMAIN runs : runs'[s] = runs[s]
  /\ LET run == runs'[Len(runs) + 1]
     IN  /\ run.id = Arrived.id /\ run.result = "running"
         /\ \/ run.requests = <<>>
            \/ /\ Arrived.oneofKind = "call" /\ Arrived.body \notin Malformed
               /\ run.requests = <<Arrived.body>>
  /\ serverCalls' = [serverCalls EXCEPT ![Arrived.id] = Len(runs) + 1]

\* The handler that is addressed gets a message, an end or a signal.
Reaches ==
  /\ Arrives({"streamSend", "streamClose", "abort"})
  /\ Addressed # NoCall /\ OnlyRun(Addressed)
  /\ runs'[Addressed].result = runs[Addressed].result
  /\ \/ runs'[Addressed].requests = runs[Addressed].requests
     \/ /\ Arrived.oneofKind = "streamSend" /\ Arrived.body \notin Malformed
        /\ runs'[Addressed].requests = Append(runs[Addressed].requests, Arrived.body)
  /\ UNCHANGED serverCalls

\* A call that is refused leaves nothing, at most takes an entry away.
Refuses ==
  /\ Deliverable("server")
  /\ UNCHANGED runs
  /\ \/ UNCHANGED serverCalls
     \/ /\ Arrives({"call"})
        /\ serverCalls' = [serverCalls EXCEPT ![Arrived.id] = NoCall]

Sends(r) ==
  /\ OnlyRun(r)
  /\ runs'[r].result = runs[r].result /\ runs'[r].requests = runs[r].requests
  /\ UNCHANGED serverCalls

Finishes(r) ==
  /\ OnlyRun(r)
  /\ runs[r].result = "running" /\ runs'[r].result # "running"
  /\ runs'[r].requests = runs[r].requests
  /\ serverCalls' = [serverCalls EXCEPT ![runs[r].id] = NoCall]

\* The handlers of frames.
LEMMA HandlesEffect ==
  ASSUME ServerTypes, ServerHandles
  PROVE  /\ ServerTypes'
         /\ Deliverable("server") /\ wire'["server"] = Tail(wire["server"])
         /\ UNCHANGED <<fin, ready>>
         /\ Starts \/ Reaches \/ Refuses
<1> DEFINE id == Arrived.id
           popped == Pop(wire, "server")
<1>0. Deliverable("server") /\ UNCHANGED <<fin, ready>>
  BY DEF ServerHandles, ServerCall, ServerCallClientStream, ServerBadId, ServerBadStreamSend,
         ServerStreamSend, ServerStreamClose, ServerAbort, ServerIgnores, Arrives, Accept, Refuse
<1>1. /\ Arrived \in Message /\ id \in CallIds
      /\ popped \in [Ends -> Seq(Message)] /\ popped["server"] = Tail(wire["server"])
  BY <1>0, Arrival
<1>2. ASSUME NEW c \in ErrorCode, Refuse(c)
      PROVE  SocketTypeOK(Message)' /\ wire'["server"] = Tail(wire["server"])
  BY <1>1, <1>2, Answers, Sending DEF Refuse, ServerTypes, SocketTypeOK
<1>3. ASSUME Accept
      PROVE  SocketTypeOK(Message)' /\ wire'["server"] = Tail(wire["server"])
  BY <1>1, <1>3 DEF Accept, ServerTypes, SocketTypeOK
<1>4. ASSUME NEW requests \in Seq(Body), NEW outStream \in {"none", "open"},
             Arrived.method \in Method,
             Arrives({"call", "callClientStream"}), StartRun(requests, outStream), Accept,
             \/ requests = <<>>
             \/ /\ Arrived.oneofKind = "call" /\ Arrived.body \notin Malformed
                /\ requests = <<Arrived.body>>
      PROVE  ServerTypes' /\ Starts
  <2> DEFINE run == [id |-> Arrived.id, method |-> Arrived.method,
                     requests |-> requests, outStream |-> outStream,
                     sent |-> <<>>, closed |-> FALSE, abort |-> FALSE,
                     result |-> "running"]
  <2>1. run \in Run
    BY <1>1, <1>4 DEF Run
  <2>2. runs \in Seq(Run) /\ runs' = Append(runs, run)
    BY <1>4 DEF StartRun, ServerTypes, ServerTypeOK
  <2>3. /\ runs' \in Seq(Run) /\ Len(runs') = Len(runs) + 1
        /\ \A s \in DOMAIN runs : runs'[s] = runs[s]
        /\ runs'[Len(runs) + 1] = run
    BY <2>1, <2>2, AppendProperties
  <2>4. serverCalls' = [serverCalls EXCEPT ![id] = Len(runs) + 1]
    BY <1>4, <2>3 DEF StartRun
  <2>5. ServerTypes'
    <3>1. Len(runs) \in Nat /\ DOMAIN runs = 1..Len(runs) /\ DOMAIN runs' = 1..Len(runs) + 1
      BY <2>2, <2>3
    <3>2. /\ serverCalls' \in [CallIds -> Nat]
          /\ \A i \in CallIds : serverCalls'[i] # NoCall => serverCalls'[i] \in DOMAIN runs'
      BY <1>1, <2>4, <3>1 DEF ServerTypes, ServerTypeOK
    <3> QED
      BY <1>3, <1>4, <2>3, <3>2 DEF ServerTypes, ServerTypeOK
  <2> QED
    BY <1>4, <2>3, <2>4, <2>5 DEF Starts
<1>5. ASSUME UNCHANGED runs, serverCalls' \in [CallIds -> Nat], SocketTypeOK(Message)',
             \A i \in CallIds : serverCalls'[i] \in {serverCalls[i], NoCall}
      PROVE  ServerTypes'
  BY <1>5 DEF ServerTypes, ServerTypeOK
<1>6. CASE ServerCall
  <2>1. CASE /\ Arrived.method \notin Service \/ Arrived.method.clientStreaming
             /\ Refuse("ERR_BAD_METHOD")
             /\ UNCHANGED serverVars
    BY <1>0, <1>2, <1>5, <2>1 DEF serverVars, Refuses, ErrorCode, ServerTypes, ServerTypeOK
  <2>2. CASE /\ Refuse("ERR_BAD_INPUT")
             /\ serverCalls' = [serverCalls EXCEPT ![Arrived.id] = NoCall]
             /\ UNCHANGED runs
    <3>1. /\ serverCalls' \in [CallIds -> Nat]
          /\ \A i \in CallIds : serverCalls'[i] \in {serverCalls[i], NoCall}
      BY <2>2 DEF ServerTypes, ServerTypeOK, NoCall
    <3> QED
      BY <1>0, <1>2, <1>5, <1>6, <2>2, <3>1 DEF Refuses, ErrorCode, ServerCall
  <2>3. CASE /\ Arrived.method \in Service
             /\ Arrived.body \notin Malformed
             /\ StartRun(<<Arrived.body>>, "none")
             /\ Accept
    <3>1. Arrived.oneofKind = "call" /\ Arrives({"call", "callClientStream"})
      BY <1>6 DEF ServerCall, Arrives
    <3>2. <<Arrived.body>> \in Seq(Body) /\ Arrived.method \in Method
      BY <1>1, <3>1, Contents
    <3>3. ServerTypes' /\ Starts
      BY <1>4, <2>3, <3>1, <3>2
    <3> QED
      BY <1>0, <1>3, <2>3, <3>3
  <2> QED
    BY <1>6, <2>1, <2>2, <2>3 DEF ServerCall
<1>7. CASE ServerCallClientStream
  <2>1. CASE Refuse("ERR_BAD_METHOD") /\ UNCHANGED serverVars
    BY <1>0, <1>2, <1>5, <2>1 DEF serverVars, Refuses, ErrorCode, ServerTypes, ServerTypeOK
  <2>2. CASE StartRun(<<>>, "open") /\ Accept
    <3>1. Arrives({"call", "callClientStream"}) /\ Arrived.method \in Method
      BY <1>1, <1>7, Contents DEF ServerCallClientStream, Arrives
    <3>2. <<>> \in Seq(Body)
      BY EmptySeq
    <3>3. PICK requests \in Seq(Body) : requests = <<>>
      BY <3>2, Zenon
    <3>4. StartRun(requests, "open")
      BY <2>2, <3>3
    <3>5. ServerTypes' /\ Starts
      BY <1>4, <2>2, <3>1, <3>3, <3>4
    <3> QED
      BY <1>0, <1>3, <2>2, <3>5
  <2> QED
    BY <1>7, <2>1, <2>2 DEF ServerCallClientStream
<1>8. CASE ServerBadId \/ ServerBadStreamSend
  BY <1>0, <1>2, <1>5, <1>8
  DEF ServerBadId, ServerBadStreamSend, serverVars, Refuses, ErrorCode, ServerTypes,
      ServerTypeOK
<1>9. ASSUME NEW run \in Run, Addressed # NoCall, run.id = runs[Addressed].id,
             run.result = runs[Addressed].result,
             Arrives({"streamSend", "streamClose", "abort"}),
             \/ run.requests = runs[Addressed].requests
             \/ /\ Arrived.oneofKind = "streamSend" /\ Arrived.body \notin Malformed
                /\ run.requests = Append(runs[Addressed].requests, Arrived.body),
             runs' = [runs EXCEPT ![Addressed] = run], Accept, UNCHANGED serverCalls
      PROVE  ServerTypes' /\ Reaches
  <2>1. Addressed \in DOMAIN runs
    BY <1>1, <1>9 DEF ServerTypes, ServerTypeOK, Addressed
  <2>2. /\ runs' \in Seq(Run) /\ DOMAIN runs' = DOMAIN runs
        /\ \A s \in DOMAIN runs : runs'[s] = IF s = Addressed THEN run ELSE runs[s]
    BY <1>9, <2>1, Replace
  <2>3. ServerTypes'
    BY <1>3, <1>9, <2>2 DEF ServerTypes, ServerTypeOK
  <2> QED
    BY <1>9, <2>1, <2>2, <2>3 DEF Reaches, OnlyRun
<1>10. ASSUME Addressed # NoCall PROVE Addressed \in DOMAIN runs /\ runs[Addressed] \in Run
  BY <1>1, <1>10 DEF ServerTypes, ServerTypeOK, Addressed
<1>11. CASE ServerStreamSend
  <2> DEFINE run == [runs[Addressed] EXCEPT !.requests = Append(@, Arrived.body)]
  <2>1. Arrived.body \in Body
    BY <1>1, <1>11, Contents DEF ServerStreamSend, Arrives
  <2>2. /\ run \in Run /\ run.id = runs[Addressed].id /\ run.result = runs[Addressed].result
        /\ run.requests = Append(runs[Addressed].requests, Arrived.body)
    <3>1. runs[Addressed] \in Run
      BY <1>10, <1>11 DEF ServerStreamSend
    <3>2. Append(runs[Addressed].requests, Arrived.body) \in Seq(Body)
      BY <2>1, <3>1, AppendProperties DEF Run
    <3> QED
      BY <3>1, <3>2 DEF Run
  <2>3. /\ runs' = [runs EXCEPT ![Addressed] = run] /\ Addressed # NoCall /\ Accept
        /\ Arrives({"streamSend", "streamClose", "abort"}) /\ UNCHANGED serverCalls
        /\ Arrived.oneofKind = "streamSend" /\ Arrived.body \notin Malformed
    BY <1>11 DEF ServerStreamSend, Arrives
  <2> QED
    BY <1>0, <1>3, <1>9, <2>2, <2>3
<1>12. CASE ServerStreamClose
  <2> DEFINE run == [runs[Addressed] EXCEPT !.outStream = "closed"]
  <2>1. /\ run \in Run /\ run.id = runs[Addressed].id /\ run.result = runs[Addressed].result
        /\ run.requests = runs[Addressed].requests
    BY <1>10, <1>12 DEF ServerStreamClose, Run
  <2>2. /\ runs' = [runs EXCEPT ![Addressed] = run] /\ Addressed # NoCall /\ Accept
        /\ Arrives({"streamSend", "streamClose", "abort"}) /\ UNCHANGED serverCalls
    BY <1>12 DEF ServerStreamClose, Arrives
  <2> QED
    BY <1>0, <1>3, <1>9, <2>1, <2>2
<1>13. CASE ServerAbort
  <2> DEFINE run == [runs[Addressed] EXCEPT !.abort = TRUE]
  <2>1. /\ run \in Run /\ run.id = runs[Addressed].id /\ run.result = runs[Addressed].result
        /\ run.requests = runs[Addressed].requests
    BY <1>10, <1>13 DEF ServerAbort, Run
  <2>2. /\ runs' = [runs EXCEPT ![Addressed] = run] /\ Addressed # NoCall /\ Accept
        /\ Arrives({"streamSend", "streamClose", "abort"}) /\ UNCHANGED serverCalls
    BY <1>13 DEF ServerAbort, Arrives
  <2> QED
    BY <1>0, <1>3, <1>9, <2>1, <2>2
<1>14. CASE ServerIgnores
  BY <1>0, <1>3, <1>5, <1>14 DEF ServerIgnores, serverVars, Refuses, ServerTypes, ServerTypeOK
<1> QED
  BY <1>6, <1>7, <1>8, <1>11, <1>12, <1>13, <1>14 DEF ServerHandles

\* The handlers of calls.
LEMMA HandlerEffect ==
  ASSUME ServerTypes, NEW r \in DOMAIN runs,
         HandlerSends(r) \/ HandlerCompletes(r) \/ HandlerEnds(r)
  PROVE  /\ ServerTypes'
         /\ wire'["server"] = wire["server"] /\ UNCHANGED <<fin, ready>>
         /\ Sends(r) \/ Finishes(r)
<1>1. runs[r] \in Run /\ runs[r].id \in CallIds
  <2>1. runs[r] \in Run
    BY DEF ServerTypes, ServerTypeOK
  <2> QED
    BY <2>1 DEF Run
<1>2. NextBody(r) \in Body /\ \A b \in Malformed : b \in Body
  <2>1. Len(runs[r].sent) + 1 \in Nat
    BY <1>1 DEF Run
  <2> QED
    BY <1>1, <2>1, RpcAssumption DEF NextBody, Body
<1>3. ASSUME NEW f \in Message, wire' = Push(wire, "server", f), UNCHANGED <<fin, ready>>
      PROVE  SocketTypeOK(Message)' /\ wire'["server"] = wire["server"]
  BY <1>3, Sending DEF ServerTypes, SocketTypeOK
<1>4. ASSUME NEW run \in Run, runs' = [runs EXCEPT ![r] = run],
             run.id = runs[r].id, run.result = runs[r].result,
             run.requests = runs[r].requests, UNCHANGED serverCalls, SocketTypeOK(Message)'
      PROVE  ServerTypes' /\ Sends(r)
  <2>1. /\ runs' \in Seq(Run) /\ DOMAIN runs' = DOMAIN runs
        /\ \A s \in DOMAIN runs : runs'[s] = IF s = r THEN run ELSE runs[s]
    BY <1>4, Replace
  <2> QED
    BY <1>4, <2>1 DEF ServerTypes, ServerTypeOK, Sends, OnlyRun
<1>5. ASSUME NEW run \in Run, EndRun(r, run), run.id = runs[r].id,
             runs[r].result = "running", run.result # "running",
             run.requests = runs[r].requests, SocketTypeOK(Message)'
      PROVE  ServerTypes' /\ Finishes(r) /\ UNCHANGED <<fin, ready>>
  <2>1. /\ runs' \in Seq(Run) /\ DOMAIN runs' = DOMAIN runs
        /\ \A s \in DOMAIN runs : runs'[s] = IF s = r THEN run ELSE runs[s]
    BY <1>5, Replace DEF EndRun
  <2>2. serverCalls' = [serverCalls EXCEPT ![runs[r].id] = NoCall]
    BY <1>5 DEF EndRun
  <2>3. /\ serverCalls' \in [CallIds -> Nat]
        /\ \A i \in CallIds : serverCalls'[i] # NoCall => serverCalls'[i] \in DOMAIN runs'
    BY <2>1, <2>2 DEF ServerTypes, ServerTypeOK, NoCall
  <2> QED
    BY <1>5, <2>1, <2>2, <2>3 DEF EndRun, ServerTypes, ServerTypeOK, Finishes, OnlyRun
<1>6. CASE HandlerSends(r)
  <2>1. PICK b \in {NextBody(r)} \cup Malformed :
          /\ runs' = [runs EXCEPT ![r].sent = Append(@, b)]
          /\ wire' = Push(wire, "server", StreamRecv(runs[r].id, b))
    BY <1>6 DEF HandlerSends
  <2>2. Append(runs[r].sent, b) \in Seq(Body) /\ StreamRecv(runs[r].id, b) \in Message
    BY <1>1, <1>2, Answers, AppendProperties DEF Run
  <2> DEFINE run == [runs[r] EXCEPT !.sent = Append(@, b)]
  <2>3. /\ run \in Run /\ run.id = runs[r].id /\ run.result = runs[r].result
        /\ run.requests = runs[r].requests
    BY <1>1, <2>2 DEF Run
  <2>4. runs' = [runs EXCEPT ![r] = run]
    BY <2>1
  <2> QED
    BY <1>3, <1>4, <1>6, <2>1, <2>2, <2>3, <2>4 DEF HandlerSends
<1>7. CASE HandlerCompletes(r)
  <2> DEFINE run == [runs[r] EXCEPT !.closed = TRUE]
  <2>1. /\ run \in Run /\ run.id = runs[r].id /\ run.result = runs[r].result
        /\ run.requests = runs[r].requests
    BY <1>1 DEF Run
  <2>2. runs' = [runs EXCEPT ![r] = run]
    BY <1>7 DEF HandlerCompletes
  <2> QED
    BY <1>1, <1>3, <1>4, <1>7, <2>1, <2>2, Answers DEF HandlerCompletes
<1>8. CASE StreamingReturns(r)
  <2> DEFINE run == [runs[r] EXCEPT !.closed = TRUE, !.result = "returned",
                                    !.outStream = Closed(@)]
             end(w) == Push(w, "server", StreamClosed(runs[r].id))
  <2>1. /\ run \in Run /\ run.id = runs[r].id /\ run.result # "running"
        /\ run.requests = runs[r].requests
    BY <1>1 DEF Run, Closed
  <2>2. \A w \in [Ends -> Seq(Message)] :
          end(w) \in [Ends -> Seq(Message)] /\ end(w)["server"] = w["server"]
    BY <1>1, Answers, Sending
  <2>3. wire \in [Ends -> Seq(Message)] /\ EndRun(r, run) /\ runs[r].result = "running"
    BY <1>8 DEF StreamingReturns, ServerTypes, SocketTypeOK
  <2>4. wire' \in {end(wire), end(end(wire))} /\ UNCHANGED <<fin, ready>>
    BY <1>8 DEF StreamingReturns, EndRun
  <2>5. SocketTypeOK(Message)' /\ wire'["server"] = wire["server"]
    BY <2>2, <2>3, <2>4 DEF ServerTypes, SocketTypeOK
  <2> QED
    BY <1>5, <2>1, <2>3, <2>4, <2>5
<1>9. CASE ResponseReturns(r)
  <2>1. ASSUME NEW b \in {NextBody(r)} \cup Malformed,
               EndRun(r, [runs[r] EXCEPT !.sent = Append(@, b), !.result = "returned",
                                         !.outStream = Closed(@)]),
               wire' = Push(wire, "server", CallResponse(runs[r].id, b))
        PROVE  ServerTypes' /\ Finishes(r) /\ wire'["server"] = wire["server"]
               /\ UNCHANGED <<fin, ready>>
    <3> DEFINE run == [runs[r] EXCEPT !.sent = Append(@, b), !.result = "returned",
                                      !.outStream = Closed(@)]
    <3>1. Append(runs[r].sent, b) \in Seq(Body) /\ CallResponse(runs[r].id, b) \in Message
      BY <1>1, <1>2, Answers, AppendProperties DEF Run
    <3>2. /\ run \in Run /\ run.id = runs[r].id /\ run.result # "running"
          /\ run.requests = runs[r].requests
      BY <1>1, <3>1 DEF Run, Closed
    <3>3. UNCHANGED <<fin, ready>> /\ runs[r].result = "running"
      BY <1>9, <2>1 DEF EndRun, ResponseReturns
    <3> QED
      BY <1>3, <1>5, <2>1, <3>1, <3>2, <3>3
  <2>2. ASSUME EndRun(r, [runs[r] EXCEPT !.result = "threw", !.outStream = Closed(@)]),
               wire' = Push(wire, "server", Error(runs[r].id, "ERR_INTERNAL"))
        PROVE  ServerTypes' /\ Finishes(r) /\ wire'["server"] = wire["server"]
               /\ UNCHANGED <<fin, ready>>
    <3> DEFINE run == [runs[r] EXCEPT !.result = "threw", !.outStream = Closed(@)]
    <3>1. /\ run \in Run /\ run.id = runs[r].id /\ run.result # "running"
          /\ run.requests = runs[r].requests
      BY <1>1 DEF Run, Closed
    <3>2. UNCHANGED <<fin, ready>> /\ runs[r].result = "running"
      BY <1>9, <2>2 DEF EndRun, ResponseReturns
    <3>3. Error(runs[r].id, "ERR_INTERNAL") \in Message
      BY <1>1, Answers DEF ErrorCode
    <3> QED
      BY <1>3, <1>5, <2>2, <3>1, <3>2, <3>3
  <2> QED
    BY <1>9, <2>1, <2>2 DEF ResponseReturns
<1>10. CASE HandlerThrows(r)
  <2> DEFINE run == [runs[r] EXCEPT !.result = "threw"]
  <2>1. /\ run \in Run /\ run.id = runs[r].id /\ run.result # "running"
        /\ run.requests = runs[r].requests
    BY <1>1 DEF Run
  <2>2. /\ UNCHANGED <<fin, ready>> /\ runs[r].result = "running" /\ EndRun(r, run)
        /\ Error(runs[r].id, "ERR_USER") \in Message
    BY <1>1, <1>10, Answers DEF EndRun, HandlerThrows, ErrorCode
  <2> QED
    BY <1>3, <1>5, <1>10, <2>1, <2>2 DEF HandlerThrows
<1> QED
  BY <1>6, <1>7, <1>8, <1>9, <1>10 DEF HandlerEnds
=============================================================================
