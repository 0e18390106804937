---------------------------- MODULE ServerCalls -----------------------------
(***************************************************************************)
(* The server's half of the RPC layer: handleClientMessage of server.ts,   *)
(* the handlers it starts and the streams it hands them.                   *)
(*                                                                         *)
(* A message handler runs to its first await in one go, so that a call is  *)
(* in the table, and its handler started, before the next frame arrives.   *)
(* What happens between the end of a handler and the removal of its call   *)
(* takes only microtasks: no frame arrives in between, and it is one step. *)
(***************************************************************************)
EXTENDS RpcProtocol, WebSocket

CONSTANT Service  \* the methods of options.service

ASSUME ServiceAssumption == Service \subseteq Method

VARIABLES
  runs,        \* the handlers started so far, with the streams each was given
  serverCalls  \* calls: the entry of an ID is the index of its run

serverVars == <<runs, serverCalls>>

NoCall == 0  \* calls has no entry of that ID

Run ==
  [id : CallIds, method : Method,
   requests : Seq(Body),                    \* what reached the handler
   outStream : {"none", "open", "closed"},  \* the request stream
   sent : Seq(Body),                        \* what the handler sent
   closed : BOOLEAN,                        \* SockRpcServerStream.closed
   abort : BOOLEAN,                         \* the abort signal
   result : {"running", "returned", "threw"}]

ServerTypeOK ==
  /\ runs \in Seq(Run)
  /\ serverCalls \in [CallIds -> Nat]
  /\ \A i \in CallIds : serverCalls[i] # NoCall => serverCalls[i] \in DOMAIN runs

ServerInit ==
  /\ runs = <<>>
  /\ serverCalls = [i \in CallIds |-> NoCall]

-----------------------------------------------------------------------------
Arrived == Head(wire["server"])

Arrives(oneof) == Deliverable("server") /\ Arrived.oneofKind \in oneof

\* yield { id, message: { oneofKind: "error", ... } }
Refuse(code) ==
  /\ wire' = Push(Pop(wire, "server"), "server", Error(Arrived.id, code))
  /\ UNCHANGED <<fin, ready>>

Accept ==
  /\ wire' = Pop(wire, "server")
  /\ UNCHANGED <<fin, ready>>

\* Mutants of StartRun: the entry is one off; an entry is not replaced.
StartRunBeyond(requests, outStream) ==
  /\ runs' = Append(runs, [id |-> Arrived.id, method |-> Arrived.method,
                           requests |-> requests, outStream |-> outStream,
                           sent |-> <<>>, closed |-> FALSE, abort |-> FALSE,
                           result |-> "running"])
  /\ serverCalls' = [serverCalls EXCEPT ![Arrived.id] = Len(runs') + 1]

StartRunKeepsFirst(requests, outStream) ==
  /\ runs' = Append(runs, [id |-> Arrived.id, method |-> Arrived.method,
                           requests |-> requests, outStream |-> outStream,
                           sent |-> <<>>, closed |-> FALSE, abort |-> FALSE,
                           result |-> "running"])
  /\ serverCalls' = [serverCalls EXCEPT ![Arrived.id] = IF @ = NoCall THEN Len(runs') ELSE @]

\* A handler starts, with the call in the table.
StartRun(requests, outStream) ==
  /\ runs' = Append(runs, [id |-> Arrived.id, method |-> Arrived.method,
                           requests |-> requests, outStream |-> outStream,
                           sent |-> <<>>, closed |-> FALSE, abort |-> FALSE,
                           result |-> "running"])
  /\ serverCalls' = [serverCalls EXCEPT ![Arrived.id] = Len(runs')]

\* handleCall, up to the handler.  An undecodable request takes the call's ID
\* out of the table on its way through "finally".
ServerCall ==
  /\ Arrives({"call"})
  /\ \/ /\ Arrived.method \notin Service \/ Arrived.method.clientStreaming
        /\ Refuse("ERR_BAD_METHOD")
        /\ UNCHANGED serverVars
     \/ /\ Arrived.method \in Service /\ ~Arrived.method.clientStreaming
        /\ Arrived.body \in Malformed
        /\ Refuse("ERR_BAD_INPUT")
        /\ serverCalls' = [serverCalls EXCEPT ![Arrived.id] = NoCall]
        /\ UNCHANGED runs
     \/ /\ Arrived.method \in Service /\ ~Arrived.method.clientStreaming
        /\ Arrived.body \notin Malformed
        /\ StartRun(<<Arrived.body>>, "none")
        /\ Accept

\* handleCallClientStream, up to the handler.
ServerCallClientStream ==
  /\ Arrives({"callClientStream"})
  /\ IF Arrived.method \in Service /\ Arrived.method.clientStreaming
       THEN StartRun(<<>>, "open") /\ Accept
       ELSE Refuse("ERR_BAD_METHOD") /\ UNCHANGED serverVars

-----------------------------------------------------------------------------
(* case "streamSend", case "streamClose", case "abort"                      *)

\* Mutant of Addressed: the last call instead of the one of that ID.
AddressedLast == Len(runs)

\* The run a frame is for.
Addressed == serverCalls[Arrived.id]

ServerBadId ==
  /\ Arrives({"streamSend", "streamClose", "abort"})
  /\ Addressed = NoCall
  /\ Refuse("ERR_BAD_ID")
  /\ UNCHANGED serverVars

\* Mutant of ServerBadStreamSend: a message that is refused ends the stream.
ServerBadStreamSendCloses ==
  /\ Arrives({"streamSend", "streamClose"})
  /\ Addressed # NoCall
  /\ \/ runs[Addressed].outStream # "open"
     \/ Arrived.oneofKind = "streamSend" /\ Arrived.body \in Malformed
  /\ Refuse("ERR_BAD_STREAM_SEND")
  /\ runs' = [runs EXCEPT ![Addressed].outStream = "closed"]
  /\ UNCHANGED serverCalls

\* The call has no client stream, or it is closed, or the message does not
\* decode.  Whatever the client makes of the error, the call goes on.
ServerBadStreamSend ==
  /\ Arrives({"streamSend", "streamClose"})
  /\ Addressed # NoCall
  /\ \/ runs[Addressed].outStream # "open"
     \/ Arrived.oneofKind = "streamSend" /\ Arrived.body \in Malformed
  /\ Refuse("ERR_BAD_STREAM_SEND")
  /\ UNCHANGED serverVars

ServerStreamSend ==
  /\ Arrives({"streamSend"})
  /\ Addressed # NoCall
  /\ runs[Addressed].outStream = "open" /\ Arrived.body \notin Malformed
  /\ runs' = [runs EXCEPT ![Addressed].requests = Append(@, Arrived.body)]
  /\ Accept
  /\ UNCHANGED serverCalls

\* Mutant of ServerStreamClose: the call leaves the table.
ServerStreamCloseEnds ==
  /\ Arrives({"streamClose"})
  /\ Addressed # NoCall
  /\ runs[Addressed].outStream = "open"
  /\ runs' = [runs EXCEPT ![Addressed].outStream = "closed"]
  /\ Accept
  /\ serverCalls' = [serverCalls EXCEPT ![Arrived.id] = NoCall]

ServerStreamClose ==
  /\ Arrives({"streamClose"})
  /\ Addressed # NoCall
  /\ runs[Addressed].outStream = "open"
  /\ runs' = [runs EXCEPT ![Addressed].outStream = "closed"]
  /\ Accept
  /\ UNCHANGED serverCalls

\* The handler may look at the signal; nothing else happens.
ServerAbort ==
  /\ Arrives({"abort"})
  /\ Addressed # NoCall
  /\ runs' = [runs EXCEPT ![Addressed].abort = TRUE]
  /\ Accept
  /\ UNCHANGED serverCalls

\* A message without a message matches no case.
ServerIgnores ==
  /\ Arrives({"none"})
  /\ Accept
  /\ UNCHANGED serverVars

-----------------------------------------------------------------------------
(* The handlers.                                                            *)

\* The next message of run r.
NextBody(r) == [call |-> runs[r].id, n |-> Len(runs[r].sent) + 1]

\* Mutant of HandlerSends: the message is sent twice.
HandlerSendsTwice(r) ==
  /\ runs[r].method.serverStreaming /\ ~runs[r].closed
  /\ Len(runs[r].sent) < MaxSends
  /\ \E b \in {NextBody(r)} \cup Malformed :
       LET again(w) == Push(w, "server", StreamRecv(runs[r].id, b))
       IN  /\ runs' = [runs EXCEPT ![r].sent = Append(@, b)]
           /\ wire' = again(again(wire))
  /\ UNCHANGED <<serverCalls, fin, ready>>

\* responses.send(): the stream asks only whether it is closed, not whether
\* the handler that was given it is still running.
HandlerSends(r) ==
  /\ runs[r].method.serverStreaming /\ ~runs[r].closed
  /\ Len(runs[r].sent) < MaxSends
  /\ \E b \in {NextBody(r)} \cup Malformed :
       /\ runs' = [runs EXCEPT ![r].sent = Append(@, b)]
       /\ wire' = Push(wire, "server", StreamRecv(runs[r].id, b))
  /\ UNCHANGED <<serverCalls, fin, ready>>

\* Mutant of HandlerCompletes: the stream can be used after it.
HandlerCompletesOpen(r) ==
  /\ runs[r].method.serverStreaming /\ ~runs[r].closed
  /\ wire' = Push(wire, "server", StreamClosed(runs[r].id))
  /\ UNCHANGED <<serverVars, fin, ready>>

\* responses.complete()
HandlerCompletes(r) ==
  /\ runs[r].method.serverStreaming /\ ~runs[r].closed
  /\ runs' = [runs EXCEPT ![r].closed = TRUE]
  /\ wire' = Push(wire, "server", StreamClosed(runs[r].id))
  /\ UNCHANGED <<serverCalls, fin, ready>>

\* Mutants of EndRun: the call stays in the table; every call leaves it.
EndRunKeeps(r, run) ==
  /\ runs' = [runs EXCEPT ![r] = run]
  /\ UNCHANGED <<serverCalls, fin, ready>>

EndRunClears(r, run) ==
  /\ runs' = [runs EXCEPT ![r] = run]
  /\ serverCalls' = [i \in CallIds |-> NoCall]
  /\ UNCHANGED <<fin, ready>>

\* The handler is done, one way or another: the run as it is then, and
\* "finally".
EndRun(r, run) ==
  /\ runs' = [runs EXCEPT ![r] = run]
  /\ serverCalls' = [serverCalls EXCEPT ![run.id] = NoCall]
  /\ UNCHANGED <<fin, ready>>

\* if (!outStream.closed) outStream.notifyComplete()
Closed(outStream) == IF outStream = "open" THEN "closed" ELSE outStream

\* A streaming handler returns: complete() if it did not call it, and then
\* a streamClosed in any case.
StreamingReturns(r) ==
  LET end(w) == Push(w, "server", StreamClosed(runs[r].id))
  IN  /\ runs[r].result = "running" /\ runs[r].method.serverStreaming
      /\ EndRun(r, [runs[r] EXCEPT !.closed = TRUE, !.result = "returned",
                                   !.outStream = Closed(@)])
      /\ wire' = IF runs[r].closed THEN end(wire) ELSE end(end(wire))

\* Any other handler returns its response, which may turn out not to encode.
ResponseReturns(r) ==
  /\ runs[r].result = "running" /\ ~runs[r].method.serverStreaming
  /\ \/ \E b \in {NextBody(r)} \cup Malformed :
          /\ EndRun(r, [runs[r] EXCEPT !.sent = Append(@, b), !.result = "returned",
                                       !.outStream = Closed(@)])
          /\ wire' = Push(wire, "server", CallResponse(runs[r].id, b))
     \/ /\ EndRun(r, [runs[r] EXCEPT !.result = "threw", !.outStream = Closed(@)])
        /\ wire' = Push(wire, "server", Error(runs[r].id, "ERR_INTERNAL"))

HandlerThrows(r) ==
  /\ runs[r].result = "running"
  /\ EndRun(r, [runs[r] EXCEPT !.result = "threw"])
  /\ wire' = Push(wire, "server", Error(runs[r].id, "ERR_USER"))

-----------------------------------------------------------------------------
\* The server registers no handler for the close event: the handlers go on.
ServerOnClose == CloseEvent("server") /\ UNCHANGED serverVars

ServerHandles ==
  \/ ServerCall
  \/ ServerCallClientStream
  \/ ServerBadId
  \/ ServerBadStreamSend
  \/ ServerStreamSend
  \/ ServerStreamClose
  \/ ServerAbort
  \/ ServerIgnores

ServerReceive == ServerHandles \/ ServerOnClose

HandlerEnds(r) == StreamingReturns(r) \/ ResponseReturns(r) \/ HandlerThrows(r)

Handler == \E r \in DOMAIN runs : HandlerSends(r) \/ HandlerCompletes(r) \/ HandlerEnds(r)

ServerNext == ServerReceive \/ Handler
=============================================================================
