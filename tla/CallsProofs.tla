---------------------------- MODULE CallsProofs -----------------------------
(***************************************************************************)
(* What the two RPC layers guarantee together, for all values of the       *)
(* constants: for any number of calls, services and methods, whatever      *)
(* breaks.                                                                 *)
(*                                                                         *)
(* The first part is about one call of the many on a connection: what the  *)
(* two ends and the wire hold of it, the steps it can take while the       *)
(* others take theirs, and the invariant it keeps, Good.  It says of each  *)
(* direction that the frames under way carry what their receiver has not   *)
(* got yet, in order, and how they end.  That is what a caller told that   *)
(* its call ended well, or a handler told that there are no more requests, *)
(* relies on.                                                              *)
(*                                                                         *)
(* The second part is about all calls: every step of the system is one of  *)
(* those steps for each call.  Two things are shown of the connection as a *)
(* whole.  IDs: as the client never uses one twice, and nothing on the     *)
(* wire is doubled, a call frame is the only one of its ID and finds no    *)
(* handler of that ID.  And the server's table holds the running handlers, *)
(* which rests on it.                                                      *)
(***************************************************************************)
EXTENDS Calls, ServerCallsProofs, FiniteSetTheorems

Frame == ClientMessage \cup ServerMessage

\* The frames of call i among those of w.
Of(i, w) == Without(w, {f \in Frame : f.id # i})

\* Call i: its caller's side, its handler's side, and its frames on their way
\* up to the server and down to the client.
View(i) ==
  [call |-> CallOf(i), inTable |-> i \in clientCalls, run |-> RunOf(i),
   up |-> Of(i, wire["server"]), down |-> Of(i, wire["client"])]

\* Frames for e still go out; frames that reach e are still handed over.
Carries(e) == ready[Peer(e)] = "open" /\ ~fin[e]

Listens(e) == ready[e] = "open" \/ (LateDelivery /\ ready[e] = "closing")

\* What the connection still does.  It never does again what it stopped doing.
Line ==
  [up |-> Carries("server"), down |-> Carries("client"),
   server |-> Listens("server"), client |-> Listens("client"),
   ended |-> ready["client"] = "closed"]

\* From line k to line l the connection stops doing things.
Lowered(k, l) ==
  /\ l.up => k.up
  /\ l.down => k.down
  /\ l.server => k.server
  /\ l.client => k.client
  /\ k.ended => l.ended

-----------------------------------------------------------------------------
(* The invariant of a call v on a line l.                                   *)

Started(v) == v.run.result # "none"

Running(v) == v.run.result = "running"

\* The handler has said all it has to say.
Over(v) == IF v.call.method.serverStreaming THEN v.run.closed ELSE v.run.result = "returned"

\* Fault of Calls, seen by the call.
Faulty(v) ==
  \/ v.call.misused
  \/ v.call.method \notin Service
  \/ \E j \in DOMAIN v.call.sent : v.call.sent[j] \in Malformed
  \/ v.run.result = "threw"
  \/ \E j \in DOMAIN v.run.sent : v.run.sent[j] \in Malformed

CallKind == {"call", "callClientStream"}
EndKind == {"callResponse", "streamClosed"}

\* Frame j on its way up: a call is the first frame and has no handler yet.
UpFrame(v, j) ==
  LET f == v.up[j]
      m == v.call.method
  IN  /\ f.oneofKind \in CallKind =>
           j = 1 /\ ~Started(v) /\ f.method = m
      /\ f.oneofKind = "call" => ~m.clientStreaming /\ v.call.sent = <<f.body>>
      /\ f.oneofKind = "callClientStream" => m.clientStreaming
      /\ f.oneofKind \notin CallKind =>
           f.oneofKind \in {"streamSend", "streamClose"} /\ m.clientStreaming
      /\ f.oneofKind = "streamClose" => v.call.completed \/ v.run.closed

\* Frame j on its way down: a response comes from a handler.
DownFrame(v, j) ==
  LET f == v.down[j]
      streaming == v.call.method.serverStreaming
  IN  /\ f.oneofKind \in {"error", "callResponse", "streamRecv", "streamClosed"}
      /\ f.oneofKind # "error" => Started(v)
      /\ f.oneofKind = "callResponse" => ~streaming /\ v.run.result = "returned"
      /\ f.oneofKind = "streamRecv" => streaming
      /\ f.oneofKind = "streamClosed" => streaming /\ v.run.closed

\* What is there before the call is made: nothing.
Blank(v) ==
  /\ ~v.inTable /\ ~Started(v)
  /\ v.call.sent = <<>> /\ v.call.received = <<>>
  /\ v.run.sent = <<>> /\ v.run.requests = <<>> /\ ~v.run.closed
  /\ v.up = <<>> /\ v.down = <<>>

Typed(v) ==
  /\ v.call.status # "none" => v.call \in Made
  /\ Started(v) => v.run \in Run
  /\ v.up \in Seq(Frame) /\ v.down \in Seq(Frame)

\* The two ends agree on what the call is.
Shape(v) ==
  /\ v.call.status = "none" => Blank(v)
  /\ v.inTable => v.call.status = "pending"
  /\ v.up # <<>> \/ Started(v) => v.call.status # "threw"
  /\ ~Started(v) => v.run.sent = <<>> /\ v.run.requests = <<>> /\ ~v.run.closed
  /\ v.call.status # "none" => (v.call.misused => v.call.completed)
  /\ Started(v) =>
       /\ v.run.method = v.call.method
       /\ v.run.outStream = "none" <=> ~v.call.method.clientStreaming
       /\ v.run.closed => v.call.method.serverStreaming
       /\ v.run.result = "returned" /\ v.call.method.serverStreaming => v.run.closed
       /\ ~v.call.method.serverStreaming /\ v.run.result # "returned" => v.run.sent = <<>>
  /\ \A j \in DOMAIN v.up : UpFrame(v, j)
  /\ \A j \in DOMAIN v.down : DownFrame(v, j)

\* All frames before the j-th are of a kind.
AllBefore(frames, j, kind) == \A k \in 1..(j - 1) : frames[k].oneofKind = kind

\* The frames carry what follows the first n elements of s, in order: data,
\* a last element, or an end that follows the last one.  Of frames that come
\* after the end nothing is said.
InOrder(frames, n, s, data, last, ends) ==
  \A j \in DOMAIN frames : AllBefore(frames, j, data) =>
    /\ frames[j].oneofKind \in {data} \cup last => n + j <= Len(s) /\ frames[j].body = s[n + j]
    /\ frames[j].oneofKind \in last => n + j = Len(s)
    /\ frames[j].oneofKind \in ends => n + j = Len(s) + 1

\* As long as there is no end, nothing is missing.
Complete(frames, n, s, data) ==
  AllBefore(frames, Len(frames) + 1, data) => n + Len(frames) = Len(s)

\* The caller has a prefix of what the handler sent; the rest is on its way.
Responses(v, l) ==
  /\ IsPrefix(v.call.received, v.run.sent)
  /\ v.inTable /\ l.client =>
       LET n == Len(v.call.received)
       IN  /\ InOrder(v.down, n, v.run.sent, "streamRecv", {"callResponse"}, {"streamClosed"})
           /\ l.down => Complete(v.down, n, v.run.sent, "streamRecv")
  /\ v.call.status = "ok" => Started(v) /\ Over(v) /\ v.call.received = v.run.sent

\* The frames that follow the first d messages the caller sent.
Stream(v, l, d, frames) ==
  /\ InOrder(frames, d, v.call.sent, "streamSend", {},
             IF v.run.closed THEN {} ELSE {"streamClose"})
  /\ l.up => Complete(frames, d, v.call.sent, "streamSend")
  /\ l.up /\ v.call.completed => ~AllBefore(frames, Len(frames) + 1, "streamSend")

\* The handler has a prefix of what the caller sent; the rest is on its way.
Requests(v, l) ==
  /\ IsPrefix(v.run.requests, Decodable(v.call.sent))
  /\ Running(v) /\ v.run.outStream = "open" /\ l.server =>
       \E d \in 0..Len(v.call.sent) :
         /\ v.run.requests = Decodable(SubSeq(v.call.sent, 1, d))
         /\ Stream(v, l, d, v.up)
  /\ v.up # <<>> /\ l.server =>
       (v.up[1].oneofKind = "callClientStream" => Stream(v, l, 0, Tail(v.up)))
  /\ Running(v) /\ v.run.outStream = "closed" /\ ~v.run.closed =>
       v.call.completed /\ v.run.requests = Decodable(v.call.sent)

\* An error reaches a pending call without a fault only behind the frame that
\* settles it.
Errors(v, l) ==
  /\ v.call.status = "err" => Faulty(v) \/ l.ended
  /\ v.inTable /\ ~Faulty(v) =>
       /\ l.client => \A j \in DOMAIN v.down : v.down[j].oneofKind = "error" =>
                        \E k \in 1..(j - 1) : v.down[k].oneofKind \in EndKind
       /\ l.client /\ l.down /\ Over(v) => \E k \in DOMAIN v.down : v.down[k].oneofKind \in EndKind
       /\ ~v.run.closed =>
            /\ \A j \in DOMAIN v.up : v.up[j].oneofKind = "streamClose" => j = Len(v.up)
            /\ Running(v) /\ v.run.outStream = "closed" => v.up = <<>>
       /\ l.server /\ ~Started(v) =>
            IF v.up = <<>> THEN ~l.up ELSE v.up[1].oneofKind \in CallKind

Good(v, l) == Typed(v) /\ Shape(v) /\ Responses(v, l) /\ Requests(v, l) /\ Errors(v, l)

-----------------------------------------------------------------------------
(* The steps of a call, from v to w on a line that is then l.               *)

\* The frames after f was sent.
Sent(frames, carries, f) == IF carries THEN Append(frames, f) ELSE frames

\* The connection drops the newest frames, or the oldest that nobody hears.
Cut(frames, rest, carries, listens) ==
  \/ rest = frames
  \/ ~carries /\ \E k \in 0..Len(frames) : rest = SubSeq(frames, 1, k)
  \/ ~listens /\ frames # <<>> /\ rest = Tail(frames)

Rests(v, w, l) ==
  /\ w.call = v.call /\ (w.inTable <=> v.inTable) /\ w.run = v.run
  /\ Cut(v.up, w.up, l.up, l.server)
  /\ Cut(v.down, w.down, l.down, l.client)

IsMade(i, v, w, l) ==
  /\ v.call.status = "none"
  /\ \E m \in Method, late \in BOOLEAN, status \in {"pending", "err", "threw"} :
       \E sent \in First(i, m) :
         /\ status = "err" => l.ended
         /\ w.call = NewCall(m, sent, late, status)
         /\ (w.inTable <=> status = "pending")
         /\ w.up = IF status = "pending"
                     THEN Sent(v.up, l.up, IF m.clientStreaming THEN CallClientStream(i, m)
                                             ELSE Call(i, m, sent[1]))
                     ELSE v.up
  /\ w.run = v.run /\ w.down = v.down

SendsRequest(i, v, w, l) ==
  /\ v.call.status \notin {"none", "threw"} /\ v.call.method.clientStreaming
  /\ \E b \in Body :
       /\ w.call = IF v.call.completed THEN [v.call EXCEPT !.misused = TRUE]
                                      ELSE [v.call EXCEPT !.sent = Append(@, b)]
       /\ w.up = Sent(v.up, l.up, StreamSend(i, b))
  /\ (w.inTable <=> v.inTable) /\ w.run = v.run /\ w.down = v.down

CompletesRequests(i, v, w, l) ==
  /\ v.call.status \notin {"none", "threw"} /\ v.call.method.clientStreaming
  /\ ~v.call.misused
  /\ w.call = [v.call EXCEPT !.completed = TRUE, !.misused = v.call.completed]
  /\ w.up = Sent(v.up, l.up, StreamClose(i))
  /\ (w.inTable <=> v.inTable) /\ w.run = v.run /\ w.down = v.down

\* The client takes a frame off the wire, and the call may settle.
Takes(v, w, l) == v.down # <<>> /\ l.client /\ w.down = Tail(v.down) /\ w.run = v.run

Ignores(v, w, l) ==
  /\ Takes(v, w, l)
  /\ ~v.inTable /\ ~w.inTable
  /\ w.call = v.call /\ w.up = v.up

Fails(v, w, l) ==
  /\ Takes(v, w, l)
  /\ v.inTable /\ ~w.inTable
  /\ LET f == v.down[1]
     IN  \/ f.oneofKind = "error"
         \/ f.oneofKind = "callResponse" /\ v.call.method.serverStreaming
         \/ f.oneofKind = "streamRecv" /\ ~v.call.method.serverStreaming
         \/ f.oneofKind \in {"callResponse", "streamRecv"} /\ f.body \in Malformed
  /\ w.call = [v.call EXCEPT !.status = "err"] /\ w.up = v.up

GetsResponse(v, w, l) ==
  /\ Takes(v, w, l)
  /\ v.inTable /\ ~w.inTable
  /\ v.down[1].oneofKind = "callResponse" /\ ~v.call.method.serverStreaming
  /\ w.call = [v.call EXCEPT !.status = "ok", !.received = Append(@, v.down[1].body)]
  /\ w.up = v.up

GetsMessage(v, w, l) ==
  /\ Takes(v, w, l)
  /\ v.inTable /\ w.inTable
  /\ v.down[1].oneofKind = "streamRecv" /\ v.call.method.serverStreaming
  /\ w.call = [v.call EXCEPT !.received = Append(@, v.down[1].body)]
  /\ w.up = v.up

\* The end of the responses ends the requests, too.
GetsEnd(i, v, w, l) ==
  /\ Takes(v, w, l)
  /\ v.inTable
  /\ v.down[1].oneofKind = "streamClosed"
  /\ IF v.call.method.serverStreaming
       THEN ~w.inTable /\ w.call = [v.call EXCEPT !.status = "ok"]
       ELSE w.inTable /\ w.call = v.call
  /\ w.up = IF v.call.method.clientStreaming THEN Sent(v.up, l.up, StreamClose(i)) ELSE v.up

\* The close event: abortAll.
Aborts(v, w, l) ==
  /\ l.ended
  /\ ~w.inTable
  /\ w.call = IF v.inTable THEN [v.call EXCEPT !.status = "err"] ELSE v.call
  /\ w.run = v.run /\ w.up = v.up /\ w.down = v.down

\* The server takes a frame off the wire.
IsRead(v, w, l) ==
  /\ v.up # <<>> /\ l.server
  /\ w.up = Tail(v.up)
  /\ w.call = v.call /\ (w.inTable <=> v.inTable)

\* It refuses it.
IsRefused(i, v, w, l) ==
  /\ IsRead(v, w, l)
  /\ LET f == v.up[1]
     IN  \/ f.oneofKind = "call" /\ (f.method \notin Service \/ f.method.clientStreaming
                                       \/ f.body \in Malformed)
         \/ f.oneofKind = "callClientStream" /\ (f.method \notin Service \/ ~f.method.clientStreaming)
         \/ /\ f.oneofKind \in {"streamSend", "streamClose", "abort"}
            /\ \/ ~Running(v)
               \/ v.run.outStream # "open"
               \/ f.oneofKind = "streamSend" /\ f.body \in Malformed
  /\ \E code \in ErrorCode : w.down = Sent(v.down, l.down, Error(i, code))
  /\ w.run = v.run

\* It starts a handler.
IsStarted(i, v, w, l) ==
  /\ IsRead(v, w, l)
  /\ LET f == v.up[1]
     IN  /\ f.oneofKind \in CallKind /\ f.method \in Service
         /\ f.method.clientStreaming <=> f.oneofKind = "callClientStream"
         /\ f.oneofKind = "call" => f.body \notin Malformed
         /\ w.run = [id |-> i, method |-> f.method,
                     requests |-> IF f.oneofKind = "call" THEN <<f.body>> ELSE <<>>,
                     outStream |-> IF f.oneofKind = "call" THEN "none" ELSE "open",
                     sent |-> <<>>, closed |-> FALSE, abort |-> FALSE, result |-> "running"]
  /\ w.down = v.down

\* It hands it to the handler.
IsHanded(v, w, l) ==
  /\ IsRead(v, w, l)
  /\ Running(v)
  /\ LET f == v.up[1]
     IN  \/ /\ f.oneofKind = "streamSend" /\ f.body \notin Malformed /\ v.run.outStream = "open"
            /\ w.run = [v.run EXCEPT !.requests = Append(@, f.body)]
         \/ /\ f.oneofKind = "streamClose" /\ v.run.outStream = "open"
            /\ w.run = [v.run EXCEPT !.outStream = "closed"]
         \/ /\ f.oneofKind = "abort"
            /\ w.run = [v.run EXCEPT !.abort = TRUE]
  /\ w.down = v.down

\* The handler's side changes, the caller's does not.
Handling(v, w) ==
  /\ Started(v)
  /\ w.call = v.call /\ (w.inTable <=> v.inTable) /\ w.up = v.up

SendsMessage(i, v, w, l) ==
  /\ Handling(v, w)
  /\ v.run.method.serverStreaming /\ ~v.run.closed
  /\ \E b \in Body :
       /\ w.run = [v.run EXCEPT !.sent = Append(@, b)]
       /\ w.down = Sent(v.down, l.down, StreamRecv(i, b))

CompletesResponses(i, v, w, l) ==
  /\ Handling(v, w)
  /\ v.run.method.serverStreaming /\ ~v.run.closed
  /\ w.run = [v.run EXCEPT !.closed = TRUE]
  /\ w.down = Sent(v.down, l.down, StreamClosed(i))

Returns(i, v, w, l) ==
  /\ Handling(v, w)
  /\ Running(v) /\ v.run.method.serverStreaming
  /\ w.run = [v.run EXCEPT !.closed = TRUE, !.result = "returned", !.outStream = Closed(@)]
  /\ LET once == Sent(v.down, l.down, StreamClosed(i))
     IN  w.down = IF v.run.closed THEN once ELSE Sent(once, l.down, StreamClosed(i))

Responds(i, v, w, l) ==
  /\ Handling(v, w)
  /\ Running(v) /\ ~v.run.method.serverStreaming
  /\ \E b \in Body :
       /\ w.run = [v.run EXCEPT !.sent = Append(@, b), !.result = "returned",
                               !.outStream = Closed(@)]
       /\ w.down = Sent(v.down, l.down, CallResponse(i, b))

Throws(i, v, w, l) ==
  /\ Handling(v, w)
  /\ Running(v)
  /\ \/ w.run = [v.run EXCEPT !.result = "threw", !.outStream = Closed(@)]
     \/ w.run = [v.run EXCEPT !.result = "threw"]
  /\ \E code \in ErrorCode : w.down = Sent(v.down, l.down, Error(i, code))

Move(i, v, w, l) ==
  \/ Rests(v, w, l) \/ IsMade(i, v, w, l)
  \/ SendsRequest(i, v, w, l) \/ CompletesRequests(i, v, w, l)
  \/ Ignores(v, w, l) \/ Fails(v, w, l) \/ GetsResponse(v, w, l) \/ GetsMessage(v, w, l)
  \/ GetsEnd(i, v, w, l) \/ Aborts(v, w, l)
  \/ IsRefused(i, v, w, l) \/ IsStarted(i, v, w, l) \/ IsHanded(v, w, l)
  \/ SendsMessage(i, v, w, l) \/ CompletesResponses(i, v, w, l)
  \/ Returns(i, v, w, l) \/ Responds(i, v, w, l) \/ Throws(i, v, w, l)

EachGood == \A i \in CallIds : Good(View(i), Line)

-----------------------------------------------------------------------------
(* Frames in order.                                                         *)

\* What Append, Tail and SubSeq do to a sequence, place by place.
LEMMA SequenceFacts ==
  ASSUME NEW F, NEW frames \in Seq(F)
  PROVE  /\ Len(frames) \in Nat /\ DOMAIN frames = 1..Len(frames)
         /\ frames = <<>> <=> Len(frames) = 0
         /\ \A j \in 1..Len(frames) : frames[j] \in F
         /\ \A f \in F : /\ Append(frames, f) \in Seq(F)
                         /\ Len(Append(frames, f)) = Len(frames) + 1
                         /\ DOMAIN Append(frames, f) = 1..(Len(frames) + 1)
                         /\ Append(frames, f)[Len(frames) + 1] = f
                         /\ \A j \in 1..Len(frames) : Append(frames, f)[j] = frames[j]
         /\ frames # <<>> =>
              /\ Tail(frames) \in Seq(F) /\ Len(Tail(frames)) = Len(frames) - 1
              /\ DOMAIN Tail(frames) = 1..(Len(frames) - 1)
              /\ \A j \in 1..(Len(frames) - 1) : Tail(frames)[j] = frames[j + 1]
         /\ \A k \in 0..Len(frames) :
              /\ SubSeq(frames, 1, k) \in Seq(F) /\ Len(SubSeq(frames, 1, k)) = k
              /\ DOMAIN SubSeq(frames, 1, k) = 1..k
              /\ \A j \in 1..k : SubSeq(frames, 1, k)[j] = frames[j]
<1>1. /\ Len(frames) \in Nat /\ DOMAIN frames = 1..Len(frames)
      /\ \A j \in 1..Len(frames) : frames[j] \in F
  OBVIOUS
<1>2. frames = <<>> <=> Len(frames) = 0
  BY EmptySeq
<1>3. ASSUME NEW f \in F
      PROVE  /\ Append(frames, f) \in Seq(F)
             /\ Len(Append(frames, f)) = Len(frames) + 1
             /\ DOMAIN Append(frames, f) = 1..(Len(frames) + 1)
             /\ Append(frames, f)[Len(frames) + 1] = f
             /\ \A j \in 1..Len(frames) : Append(frames, f)[j] = frames[j]
  BY AppendProperties, LenProperties
<1>4. ASSUME frames # <<>>
      PROVE  /\ Tail(frames) \in Seq(F) /\ Len(Tail(frames)) = Len(frames) - 1
             /\ DOMAIN Tail(frames) = 1..(Len(frames) - 1)
             /\ \A j \in 1..(Len(frames) - 1) : Tail(frames)[j] = frames[j + 1]
  BY <1>4, HeadTailProperties, LenProperties
<1>5. ASSUME NEW k \in 0..Len(frames)
      PROVE  /\ SubSeq(frames, 1, k) \in Seq(F) /\ Len(SubSeq(frames, 1, k)) = k
             /\ DOMAIN SubSeq(frames, 1, k) = 1..k
             /\ \A j \in 1..k : SubSeq(frames, 1, k)[j] = frames[j]
  OBVIOUS
<1> QED
  BY <1>1, <1>2, <1>3, <1>4, <1>5

\* The writer writes one more element, and the frame that carries it is lost.
LEMMA InOrderGrows ==
  ASSUME NEW F, NEW S, NEW frames \in Seq(F), NEW s \in Seq(S), NEW n \in Nat,
         NEW data, NEW last, NEW ends,
         InOrder(frames, n, s, data, last, ends),
         \A j \in DOMAIN frames : frames[j].oneofKind \notin last \cup ends,
         NEW e \in S
  PROVE  InOrder(frames, n, Append(s, e), data, last, ends)
<1>1. ASSUME NEW j \in DOMAIN frames, AllBefore(frames, j, data), frames[j].oneofKind = data
      PROVE  n + j <= Len(Append(s, e)) /\ frames[j].body = Append(s, e)[n + j]
  <2>1. n + j <= Len(s) /\ frames[j].body = s[n + j] /\ n + j \in 1..Len(s)
    BY <1>1, SequenceFacts DEF InOrder
  <2> QED
    BY <2>1, SequenceFacts
<1> QED
  BY <1>1 DEF InOrder

\* It is on its way.
LEMMA InOrderExtends ==
  ASSUME NEW F, NEW S, NEW frames \in Seq(F), NEW s \in Seq(S), NEW n \in Nat,
         NEW data, NEW last, NEW ends,
         InOrder(frames, n, s, data, last, ends), Complete(frames, n, s, data),
         \A j \in DOMAIN frames : frames[j].oneofKind \notin last \cup ends,
         data \notin last \cup ends, last \cap ends = {},
         NEW f \in F, f.oneofKind \in {data} \cup last, NEW e \in S, f.body = e
  PROVE  /\ InOrder(Append(frames, f), n, Append(s, e), data, last, ends)
         /\ Complete(Append(frames, f), n, Append(s, e), data)
<1> DEFINE t == Append(s, e)
           g == Append(frames, f)
<1>1. /\ Len(t) = Len(s) + 1 /\ Len(s) \in Nat /\ t[Len(s) + 1] = e
      /\ \A j \in 1..Len(s) : t[j] = s[j]
  BY SequenceFacts
<1>2. /\ Len(frames) \in Nat /\ DOMAIN frames = 1..Len(frames)
      /\ Len(g) = Len(frames) + 1 /\ DOMAIN g = 1..(Len(frames) + 1) /\ g[Len(frames) + 1] = f
      /\ \A j \in 1..Len(frames) : g[j] = frames[j]
  BY SequenceFacts
<1>3. InOrder(frames, n, t, data, last, ends)
  BY InOrderGrows
<1> HIDE DEF t, g
<1>4. ASSUME NEW j \in 1..(Len(frames) + 1), AllBefore(g, j, data)
      PROVE  AllBefore(frames, j, data)
  <2>1. \A k \in 1..(j - 1) : k \in 1..Len(frames)
    BY <1>2
  <2> QED
    BY <1>2, <1>4, <2>1 DEF AllBefore
<1>5. ASSUME AllBefore(g, Len(frames) + 1, data)
      PROVE  n + (Len(frames) + 1) = Len(t)
  <2>1. Len(frames) + 1 \in 1..(Len(frames) + 1)
    BY <1>2
  <2>2. AllBefore(frames, Len(frames) + 1, data)
    BY <1>4, <1>5, <2>1
  <2>3. n + Len(frames) = Len(s)
    BY <2>2 DEF Complete
  <2> QED
    BY <1>1, <1>2, <2>3
<1>6. ASSUME NEW j \in DOMAIN g, AllBefore(g, j, data)
      PROVE  /\ g[j].oneofKind \in {data} \cup last => n + j <= Len(t) /\ g[j].body = t[n + j]
             /\ g[j].oneofKind \in last => n + j = Len(t)
             /\ g[j].oneofKind \in ends => n + j = Len(t) + 1
  <2>1. CASE j \in 1..Len(frames)
    BY <1>2, <1>3, <1>4, <1>6, <2>1 DEF InOrder
  <2>2. CASE j \notin 1..Len(frames)
    <3>1. j = Len(frames) + 1 /\ g[j] = f
      BY <1>2, <1>6, <2>2
    <3>2. n + j = Len(t)
      BY <1>5, <1>6, <3>1
    <3>3. t[Len(t)] = e /\ Len(t) <= Len(t) /\ f.oneofKind \notin ends
      BY <1>1
    <3> QED
      BY <3>1, <3>2, <3>3
  <2> QED
    BY <2>1, <2>2
<1>7. ASSUME AllBefore(g, Len(g) + 1, data)
      PROVE  n + Len(g) = Len(t)
  <2>1. AllBefore(g, Len(frames) + 1, data)
    <3>1. \A k \in 1..((Len(frames) + 1) - 1) : k \in 1..((Len(g) + 1) - 1)
      BY <1>2
    <3> QED
      BY <1>7, <3>1 DEF AllBefore
  <2> QED
    BY <1>2, <1>5, <2>1
<1> QED
  BY <1>6, <1>7 DEF InOrder, Complete, t, g

\* A frame that carries no element follows.
LEMMA InOrderEnds ==
  ASSUME NEW F, NEW frames \in Seq(F), NEW s, NEW n \in Nat,
         NEW data, NEW last, NEW ends, Len(s) \in Nat,
         InOrder(frames, n, s, data, last, ends),
         NEW f \in F,
         AllBefore(frames, Len(frames) + 1, data) =>
           /\ f.oneofKind \notin {data} \cup last
           /\ f.oneofKind \in ends => n + Len(frames) = Len(s)
  PROVE  InOrder(Append(frames, f), n, s, data, last, ends)
<1> DEFINE g == Append(frames, f)
<1>1. /\ Len(frames) \in Nat /\ DOMAIN frames = 1..Len(frames)
      /\ Len(g) = Len(frames) + 1 /\ DOMAIN g = 1..(Len(frames) + 1) /\ g[Len(frames) + 1] = f
      /\ \A j \in 1..Len(frames) : g[j] = frames[j]
  BY SequenceFacts
<1> HIDE DEF g
<1>2. ASSUME NEW j \in 1..(Len(frames) + 1), AllBefore(g, j, data)
      PROVE  AllBefore(frames, j, data)
  <2>1. \A k \in 1..(j - 1) : k \in 1..Len(frames)
    BY <1>1
  <2> QED
    BY <1>1, <1>2, <2>1 DEF AllBefore
<1>3. ASSUME NEW j \in DOMAIN g, AllBefore(g, j, data)
      PROVE  /\ g[j].oneofKind \in {data} \cup last => n + j <= Len(s) /\ g[j].body = s[n + j]
             /\ g[j].oneofKind \in last => n + j = Len(s)
             /\ g[j].oneofKind \in ends => n + j = Len(s) + 1
  <2>1. CASE j \in 1..Len(frames)
    BY <1>1, <1>2, <1>3, <2>1 DEF InOrder
  <2>2. CASE j \notin 1..Len(frames)
    <3>1. j = Len(frames) + 1 /\ g[j] = f
      BY <1>1, <1>3, <2>2
    <3>2. AllBefore(frames, Len(frames) + 1, data)
      BY <1>1, <1>2, <1>3, <3>1
    <3>3. f.oneofKind \in ends => n + j = Len(s) + 1
      BY <1>1, <3>1, <3>2
    <3> QED
      BY <3>1, <3>2, <3>3
  <2> QED
    BY <2>1, <2>2
<1> QED
  BY <1>3 DEF InOrder, g

\* Frames that are not all data are not after one more.
LEMMA AllBeforeAppend ==
  ASSUME NEW F, NEW frames \in Seq(F), NEW data, NEW f \in F,
         AllBefore(Append(frames, f), Len(Append(frames, f)) + 1, data)
  PROVE  AllBefore(frames, Len(frames) + 1, data) /\ f.oneofKind = data
<1> DEFINE g == Append(frames, f)
<1>1. /\ Len(frames) \in Nat /\ Len(g) = Len(frames) + 1 /\ g[Len(frames) + 1] = f
      /\ \A j \in 1..Len(frames) : g[j] = frames[j]
  BY SequenceFacts
<1> HIDE DEF g
<1>2. \A k \in 1..(Len(frames) + 1) : g[k].oneofKind = data
  <2>1. AllBefore(g, Len(g) + 1, data)
    BY DEF g
  <2>2. (Len(g) + 1) - 1 = Len(frames) + 1
    BY <1>1
  <2> QED
    BY <2>1, <2>2 DEF AllBefore
<1>3. \A k \in 1..((Len(frames) + 1) - 1) : k \in 1..Len(frames) /\ k \in 1..(Len(frames) + 1)
  BY <1>1
<1>4. Len(frames) + 1 \in 1..(Len(frames) + 1)
  BY <1>1
<1> QED
  BY <1>1, <1>2, <1>3, <1>4 DEF AllBefore

\* The oldest frame arrives.
LEMMA AllBeforeTail ==
  ASSUME NEW F, NEW frames \in Seq(F), frames # <<>>, NEW data, frames[1].oneofKind = data,
         NEW j \in 1..Len(frames), AllBefore(Tail(frames), j, data)
  PROVE  AllBefore(frames, j + 1, data)
<1> DEFINE g == Tail(frames)
<1>1. Len(frames) \in Nat /\ \A k \in 1..(Len(frames) - 1) : g[k] = frames[k + 1]
  BY SequenceFacts
<1> HIDE DEF g
<1>2. AllBefore(g, j, data)
  BY DEF g
<1>3. ASSUME NEW k \in 1..j PROVE frames[k].oneofKind = data
  <2>1. CASE k = 1
    BY <2>1
  <2>2. CASE k # 1
    <3>1. k - 1 \in 1..(j - 1) /\ k - 1 \in 1..(Len(frames) - 1) /\ (k - 1) + 1 = k
      BY <1>1, <2>2
    <3> QED
      BY <1>1, <1>2, <3>1 DEF AllBefore
  <2> QED
    BY <2>1, <2>2
<1>4. (j + 1) - 1 = j
  OBVIOUS
<1> QED
  BY <1>3, <1>4 DEF AllBefore

\* If it is data, the others carry what follows it.
LEMMA InOrderTail ==
  ASSUME NEW F, NEW frames \in Seq(F), frames # <<>>, NEW s, NEW n \in Nat,
         NEW data, NEW last, NEW ends, Len(s) \in Nat,
         InOrder(frames, n, s, data, last, ends), frames[1].oneofKind = data
  PROVE  /\ InOrder(Tail(frames), n + 1, s, data, last, ends)
         /\ Complete(frames, n, s, data) => Complete(Tail(frames), n + 1, s, data)
<1> DEFINE g == Tail(frames)
<1>1. /\ Len(frames) \in Nat /\ DOMAIN frames = 1..Len(frames) /\ Len(frames) # 0
      /\ Len(g) = Len(frames) - 1 /\ DOMAIN g = 1..(Len(frames) - 1)
      /\ \A j \in 1..(Len(frames) - 1) : g[j] = frames[j + 1]
  BY SequenceFacts
<1>2. \A j \in 1..Len(frames) : AllBefore(g, j, data) => AllBefore(frames, j + 1, data)
  BY AllBeforeTail
<1> HIDE DEF g
<1>3. ASSUME NEW j \in DOMAIN g, AllBefore(g, j, data)
      PROVE  /\ g[j].oneofKind \in {data} \cup last =>
                  n + 1 + j <= Len(s) /\ g[j].body = s[n + 1 + j]
             /\ g[j].oneofKind \in last => n + 1 + j = Len(s)
             /\ g[j].oneofKind \in ends => n + 1 + j = Len(s) + 1
  <2>1. AllBefore(frames, j + 1, data) /\ g[j] = frames[j + 1] /\ j + 1 \in DOMAIN frames
    BY <1>1, <1>2, <1>3
  <2>2. n + (j + 1) = n + 1 + j
    BY <1>1
  <2> QED
    BY <2>1, <2>2 DEF InOrder
<1>4. ASSUME Complete(frames, n, s, data), AllBefore(g, Len(g) + 1, data)
      PROVE  n + 1 + Len(g) = Len(s)
  <2>1. Len(g) + 1 = Len(frames) /\ Len(frames) \in 1..Len(frames)
    BY <1>1
  <2>2. AllBefore(frames, Len(frames) + 1, data)
    BY <1>2, <1>4, <2>1
  <2> QED
    BY <1>1, <1>4, <2>2 DEF Complete
<1> QED
  BY <1>3, <1>4 DEF InOrder, Complete, g

\* The newest frames are lost.
LEMMA InOrderCut ==
  ASSUME NEW F, NEW frames \in Seq(F), NEW s, NEW n,
         NEW data, NEW last, NEW ends,
         InOrder(frames, n, s, data, last, ends), NEW k \in 0..Len(frames)
  PROVE  InOrder(SubSeq(frames, 1, k), n, s, data, last, ends)
<1> DEFINE g == SubSeq(frames, 1, k)
<1>1. /\ Len(frames) \in Nat /\ DOMAIN frames = 1..Len(frames)
      /\ DOMAIN g = 1..k /\ \A j \in 1..k : g[j] = frames[j]
  BY SequenceFacts
<1> HIDE DEF g
<1>2. ASSUME NEW j \in DOMAIN g, AllBefore(g, j, data)
      PROVE  AllBefore(frames, j, data) /\ g[j] = frames[j] /\ j \in DOMAIN frames
  <2>1. \A i \in 1..(j - 1) : i \in 1..k
    BY <1>1
  <2> QED
    BY <1>1, <1>2, <2>1 DEF AllBefore
<1> QED
  BY <1>2 DEF InOrder, g

-----------------------------------------------------------------------------
(* The frames.                                                              *)

\* The constructors of RpcProtocol make frames with the fields they are given.
LEMMA FrameFacts ==
  ASSUME NEW i \in CallIds
  PROVE  /\ \A m \in Method, b \in Body :
              /\ Call(i, m, b) \in Frame /\ Call(i, m, b).oneofKind = "call"
              /\ Call(i, m, b).method = m /\ Call(i, m, b).body = b
         /\ \A m \in Method :
              /\ CallClientStream(i, m) \in Frame /\ CallClientStream(i, m).method = m
              /\ CallClientStream(i, m).oneofKind = "callClientStream"
         /\ \A b \in Body :
              /\ StreamSend(i, b) \in Frame
              /\ StreamSend(i, b).oneofKind = "streamSend" /\ StreamSend(i, b).body = b
              /\ StreamRecv(i, b) \in Frame
              /\ StreamRecv(i, b).oneofKind = "streamRecv" /\ StreamRecv(i, b).body = b
              /\ CallResponse(i, b) \in Frame
              /\ CallResponse(i, b).oneofKind = "callResponse" /\ CallResponse(i, b).body = b
         /\ StreamClose(i) \in Frame /\ StreamClose(i).oneofKind = "streamClose"
         /\ StreamClosed(i) \in Frame /\ StreamClosed(i).oneofKind = "streamClosed"
         /\ \A c \in ErrorCode : Error(i, c) \in Frame /\ Error(i, c).oneofKind = "error"
<1>1. i \in Nat
  BY RpcAssumption
<1>2. ASSUME NEW m \in Method, NEW b \in Body
      PROVE  /\ Call(i, m, b) \in Frame /\ Call(i, m, b).oneofKind = "call"
             /\ Call(i, m, b).method = m /\ Call(i, m, b).body = b
  BY <1>1 DEF Frame, ClientMessage, Call
<1>3. ASSUME NEW m \in Method
      PROVE  /\ CallClientStream(i, m) \in Frame /\ CallClientStream(i, m).method = m
             /\ CallClientStream(i, m).oneofKind = "callClientStream"
  BY <1>1 DEF Frame, ClientMessage, CallClientStream
<1>4. ASSUME NEW b \in Body
      PROVE  /\ StreamSend(i, b) \in Frame
             /\ StreamSend(i, b).oneofKind = "streamSend" /\ StreamSend(i, b).body = b
             /\ StreamRecv(i, b) \in Frame
             /\ StreamRecv(i, b).oneofKind = "streamRecv" /\ StreamRecv(i, b).body = b
             /\ CallResponse(i, b) \in Frame
             /\ CallResponse(i, b).oneofKind = "callResponse" /\ CallResponse(i, b).body = b
  BY <1>1 DEF Frame, ClientMessage, ServerMessage, StreamSend, StreamRecv, CallResponse
<1>5. /\ StreamClose(i) \in Frame /\ StreamClose(i).oneofKind = "streamClose"
      /\ StreamClosed(i) \in Frame /\ StreamClosed(i).oneofKind = "streamClosed"
  BY <1>1 DEF Frame, ClientMessage, ServerMessage, StreamClose, StreamClosed
<1>6. ASSUME NEW c \in ErrorCode
      PROVE  Error(i, c) \in Frame /\ Error(i, c).oneofKind = "error"
  BY <1>1 DEF Frame, ServerMessage, Error
<1> QED
  BY <1>2, <1>3, <1>4, <1>5, <1>6

\* The method and the body of a frame that has them.
LEMMA FrameContents ==
  ASSUME NEW f \in Frame
  PROVE  /\ f.oneofKind \in CallKind => f.method \in Method
         /\ f.oneofKind \in {"call", "streamSend", "callResponse", "streamRecv"} => f.body \in Body
BY DEF Frame, ClientMessage, ServerMessage, CallKind

\* What is left of frames the connection dropped some of.
LEMMA CutFacts ==
  ASSUME NEW F, NEW frames \in Seq(F), NEW rest, NEW carries, NEW listens,
         Cut(frames, rest, carries, listens)
  PROVE  /\ rest \in Seq(F)
         /\ frames = <<>> => rest = <<>>
         /\ \A j \in DOMAIN rest : \E k \in DOMAIN frames : j <= k /\ rest[j] = frames[k]
<1>1. CASE rest = frames
  BY <1>1, SequenceFacts
<1>2. ASSUME NEW k \in 0..Len(frames), rest = SubSeq(frames, 1, k)
      PROVE  /\ rest \in Seq(F)
             /\ frames = <<>> => rest = <<>>
             /\ \A j \in DOMAIN rest : \E m \in DOMAIN frames : j <= m /\ rest[j] = frames[m]
  <2>1. /\ rest \in Seq(F) /\ Len(rest) = k /\ DOMAIN rest = 1..k
        /\ \A j \in 1..k : rest[j] = frames[j]
    BY <1>2, SequenceFacts
  <2>2. frames = <<>> => k = 0
    BY SequenceFacts
  <2>3. k = 0 => rest = <<>>
    BY <2>1, SequenceFacts
  <2>4. \A j \in 1..k : j \in DOMAIN frames /\ j <= j
    BY SequenceFacts
  <2> QED
    BY <2>1, <2>2, <2>3, <2>4
<1>3. ASSUME frames # <<>>, rest = Tail(frames)
      PROVE  /\ rest \in Seq(F)
             /\ \A j \in DOMAIN rest : \E m \in DOMAIN frames : j <= m /\ rest[j] = frames[m]
  <2>1. /\ rest \in Seq(F) /\ DOMAIN rest = 1..(Len(frames) - 1)
        /\ \A j \in 1..(Len(frames) - 1) : rest[j] = frames[j + 1]
    BY <1>3, SequenceFacts
  <2>2. \A j \in DOMAIN rest : j + 1 \in DOMAIN frames /\ j <= j + 1
    BY <2>1, SequenceFacts
  <2> QED
    BY <2>1, <2>2
<1> QED
  BY <1>1, <1>2, <1>3 DEF Cut

-----------------------------------------------------------------------------
(* Types, of a call.                                                        *)

\* What is sent joins a sequence of its kind.
LEMMA SentType ==
  ASSUME NEW F, NEW frames \in Seq(F), NEW f \in F, NEW carries
  PROVE  Sent(frames, carries, f) \in Seq(F)
<1>1. Append(frames, f) \in Seq(F)
  BY SequenceFacts
<1> QED
  BY <1>1 DEF Sent

\* A step of a call keeps its two sides and its frames well typed.
LEMMA TypedKept ==
  ASSUME NEW i \in CallIds, NEW v, NEW w, NEW l, Good(v, l), Move(i, v, w, l)
  PROVE  Typed(w)
<1> USE DEF Started
<1>0. /\ Typed(v) /\ v.up \in Seq(Frame) /\ v.down \in Seq(Frame)
      /\ v.call.status # "none" => v.call \in Made
      /\ v.run.result # "none" => v.run \in Run
      /\ v.call.status = "none" => v.run.result = "none"
      /\ v.inTable => v.call.status = "pending"
  BY DEF Good, Typed, Shape, Blank
<1>1. CASE Rests(v, w, l)
  BY <1>0, <1>1, CutFacts DEF Typed, Rests
<1>2. CASE IsMade(i, v, w, l)
  <2>1. PICK m \in Method, late \in BOOLEAN, status \in {"pending", "err", "threw"} :
          \E sent \in First(i, m) :
            /\ w.call = NewCall(m, sent, late, status)
            /\ w.up = IF status = "pending"
                     THEN Sent(v.up, l.up, IF m.clientStreaming THEN CallClientStream(i, m)
                                             ELSE Call(i, m, sent[1]))
                     ELSE v.up
    BY <1>2 DEF IsMade
  <2>2. PICK sent \in First(i, m) :
            /\ w.call = NewCall(m, sent, late, status)
            /\ w.up = IF status = "pending"
                     THEN Sent(v.up, l.up, IF m.clientStreaming THEN CallClientStream(i, m)
                                             ELSE Call(i, m, sent[1]))
                     ELSE v.up
    BY <2>1
  <2>3. sent \in Seq(Body) /\ (~m.clientStreaming => sent[1] \in Body)
    <3>1. [call |-> i, n |-> 1] \in Body /\ \A b \in Malformed : b \in Body
      BY RpcAssumption DEF Body
    <3>2. CASE m.clientStreaming
      BY <3>2, EmptySeq DEF First
    <3>3. CASE ~m.clientStreaming
      <4>1. PICK b \in {[call |-> i, n |-> 1]} \cup Malformed : sent = <<b>>
        BY <3>3 DEF First
      <4>2. b \in Body
        BY <3>1, <4>1
      <4> QED
        BY <4>1, <4>2
    <3> QED
      BY <3>2, <3>3
  <2>4. w.call \in Made
    BY <2>2, <2>3, EmptySeq DEF NewCall, Made
  <2>5. w.up \in Seq(Frame)
    BY <1>0, <2>2, <2>3, FrameFacts, SentType
  <2> QED
    BY <1>0, <1>2, <2>4, <2>5 DEF Typed, IsMade
<1>3. CASE SendsRequest(i, v, w, l)
  <2>1. PICK b \in Body :
          /\ w.call = IF v.call.completed THEN [v.call EXCEPT !.misused = TRUE]
                                      ELSE [v.call EXCEPT !.sent = Append(@, b)]
          /\ w.up = Sent(v.up, l.up, StreamSend(i, b))
    BY <1>3 DEF SendsRequest
  <2>2. w.up \in Seq(Frame)
    BY <1>0, <2>1, FrameFacts, SentType
  <2>3. v.call \in Made /\ Append(v.call.sent, b) \in Seq(Body)
    <3>1. v.call \in Made /\ v.call.sent \in Seq(Body)
      BY <1>0, <1>3 DEF SendsRequest, Made
    <3> QED
      BY <3>1, SequenceFacts
  <2>4. w.call \in Made
    BY <2>1, <2>3 DEF Made
  <2> QED
    BY <1>0, <1>3, <2>2, <2>4 DEF Typed, SendsRequest
<1>4. CASE CompletesRequests(i, v, w, l)
  <2>1. w.up \in Seq(Frame)
    BY <1>0, <1>4, FrameFacts, SentType DEF CompletesRequests
  <2>2. w.call \in Made
    BY <1>0, <1>4 DEF CompletesRequests, Made
  <2> QED
    BY <1>0, <1>4, <2>1, <2>2 DEF Typed, CompletesRequests
<1>5. ASSUME Takes(v, w, l) PROVE w.down \in Seq(Frame) /\ v.down[1] \in Frame
  BY <1>0, <1>5, SequenceFacts DEF Takes
<1>6. CASE Ignores(v, w, l)
  BY <1>0, <1>5, <1>6 DEF Typed, Ignores, Takes
<1>7. CASE Fails(v, w, l)
  BY <1>0, <1>5, <1>7 DEF Typed, Fails, Takes, Made
<1>8. ASSUME v.inTable, Takes(v, w, l), v.down[1].oneofKind \in {"callResponse", "streamRecv"}
      PROVE  Append(v.call.received, v.down[1].body) \in Seq(Body)
  <2>1. v.call.received \in Seq(Body)
    BY <1>0, <1>8 DEF Made
  <2>2. v.down[1].body \in Body
    BY <1>5, <1>8, FrameContents
  <2> QED
    BY <2>1, <2>2, SequenceFacts
<1>9. CASE GetsResponse(v, w, l)
  BY <1>0, <1>5, <1>8, <1>9 DEF Typed, GetsResponse, Takes, Made
<1>10. CASE GetsMessage(v, w, l)
  BY <1>0, <1>5, <1>8, <1>10 DEF Typed, GetsMessage, Takes, Made
<1>11. CASE GetsEnd(i, v, w, l)
  <2>1. w.up \in Seq(Frame)
    BY <1>0, <1>11, FrameFacts, SentType DEF GetsEnd
  <2> QED
    BY <1>0, <1>5, <1>11, <2>1 DEF Typed, GetsEnd, Takes, Made
<1>12. CASE Aborts(v, w, l)
  BY <1>0, <1>12 DEF Typed, Aborts, Made
<1>13. ASSUME IsRead(v, w, l) PROVE w.up \in Seq(Frame) /\ v.up[1] \in Frame
  BY <1>0, <1>13, SequenceFacts DEF IsRead
<1>14. CASE IsRefused(i, v, w, l)
  <2>1. w.down \in Seq(Frame)
    BY <1>0, <1>14, FrameFacts, SentType DEF IsRefused
  <2> QED
    BY <1>0, <1>13, <1>14, <2>1 DEF Typed, IsRefused, IsRead
<1>15. CASE IsStarted(i, v, w, l)
  <2>1. /\ v.up[1].method \in Method
        /\ v.up[1].oneofKind = "call" => <<v.up[1].body>> \in Seq(Body)
        /\ <<>> \in Seq(Body)
    BY <1>13, <1>15, FrameContents, EmptySeq DEF IsStarted
  <2>2. w.run \in Run
    BY <1>15, <2>1 DEF IsStarted, Run
  <2> QED
    BY <1>0, <1>13, <1>15, <2>2 DEF Typed, IsStarted, IsRead
<1>16. CASE IsHanded(v, w, l)
  <2>1. v.run \in Run
    BY <1>0, <1>16 DEF IsHanded, Running
  <2>2. v.up[1].oneofKind = "streamSend" => Append(v.run.requests, v.up[1].body) \in Seq(Body)
    BY <1>13, <1>16, <2>1, FrameContents, SequenceFacts DEF IsHanded, Run
  <2>3. w.run \in Run
    BY <1>16, <2>1, <2>2 DEF IsHanded, Run
  <2> QED
    BY <1>0, <1>13, <1>16, <2>3 DEF Typed, IsHanded, IsRead
<1>17. ASSUME v.run.result # "none", NEW b \in Body
       PROVE  v.run \in Run /\ Append(v.run.sent, b) \in Seq(Body)
  <2>1. v.run \in Run /\ v.run.sent \in Seq(Body)
    BY <1>0, <1>17 DEF Run
  <2> QED
    BY <2>1, SequenceFacts
<1>18. CASE SendsMessage(i, v, w, l)
  <2>1. PICK b \in Body :
       /\ w.run = [v.run EXCEPT !.sent = Append(@, b)]
       /\ w.down = Sent(v.down, l.down, StreamRecv(i, b))
    BY <1>18 DEF SendsMessage
  <2>2. w.down \in Seq(Frame)
    BY <1>0, <2>1, FrameFacts, SentType
  <2>3. w.run \in Run
    BY <1>17, <1>18, <2>1 DEF SendsMessage, Handling, Run
  <2> QED
    BY <1>0, <1>18, <2>2, <2>3 DEF Typed, SendsMessage, Handling
<1>19. CASE CompletesResponses(i, v, w, l)
  <2>1. w.down \in Seq(Frame)
    BY <1>0, <1>19, FrameFacts, SentType DEF CompletesResponses
  <2> QED
    BY <1>0, <1>19, <2>1 DEF Typed, CompletesResponses, Handling, Run
<1>20. CASE Returns(i, v, w, l)
  <2>1. w.down \in Seq(Frame)
    BY <1>0, <1>20, FrameFacts, SentType DEF Returns
  <2>2. w.run \in Run
    BY <1>0, <1>20 DEF Returns, Handling, Run, Closed
  <2> QED
    BY <1>0, <1>20, <2>1, <2>2 DEF Typed, Returns, Handling
<1>21. CASE Responds(i, v, w, l)
  <2>1. PICK b \in Body :
       /\ w.run = [v.run EXCEPT !.sent = Append(@, b), !.result = "returned",
                               !.outStream = Closed(@)]
       /\ w.down = Sent(v.down, l.down, CallResponse(i, b))
    BY <1>21 DEF Responds
  <2>2. w.down \in Seq(Frame)
    BY <1>0, <2>1, FrameFacts, SentType
  <2>3. w.run \in Run
    <3>1. v.run \in Run /\ Append(v.run.sent, b) \in Seq(Body)
      BY <1>17, <1>21 DEF Responds, Handling
    <3>2. Closed(v.run.outStream) \in {"none", "open", "closed"}
      BY <3>1 DEF Run, Closed
    <3> QED
      BY <2>1, <3>1, <3>2 DEF Run
  <2> QED
    BY <1>0, <1>21, <2>2, <2>3 DEF Typed, Responds, Handling
<1>22. CASE Throws(i, v, w, l)
  <2>1. w.down \in Seq(Frame)
    BY <1>0, <1>22, FrameFacts, SentType DEF Throws
  <2>2. w.run \in Run
    BY <1>0, <1>22 DEF Throws, Handling, Run, Closed
  <2> QED
    BY <1>0, <1>22, <2>1, <2>2 DEF Typed, Throws, Handling
<1> QED
  BY <1>1, <1>2, <1>3, <1>4, <1>6, <1>7, <1>9, <1>10, <1>11, <1>12, <1>14, <1>15, <1>16,
     <1>18, <1>19, <1>20, <1>21, <1>22
  DEF Move

-----------------------------------------------------------------------------
(* Shape.                                                                   *)

\* The frames of rest are the ones of frames, at the same place or further on,
\* and perhaps f.
From(rest, frames) ==
  \A j \in DOMAIN rest : \E k \in DOMAIN frames : j <= k /\ rest[j] = frames[k]

FromOr(rest, frames, f) ==
  \A j \in DOMAIN rest :
    \/ \E k \in DOMAIN frames : j <= k /\ rest[j] = frames[k]
    \/ rest[j] = f

\* A frame taken or sent leaves the others where they were, or further on.
LEMMA FromFacts ==
  ASSUME NEW F, NEW frames \in Seq(F)
  PROVE  /\ From(frames, frames)
         /\ frames # <<>> => From(Tail(frames), frames)
         /\ \A f \in F : \A carries : FromOr(Sent(frames, carries, f), frames, f)
<1>1. From(frames, frames)
  BY SequenceFacts DEF From
<1>2. ASSUME frames # <<>> PROVE From(Tail(frames), frames)
  <2>1. \A j \in DOMAIN Tail(frames) :
          j + 1 \in DOMAIN frames /\ j <= j + 1 /\ Tail(frames)[j] = frames[j + 1]
    BY <1>2, SequenceFacts
  <2> QED
    BY <2>1 DEF From
<1>3. ASSUME NEW f \in F, NEW carries PROVE FromOr(Sent(frames, carries, f), frames, f)
  <2>1. FromOr(Append(frames, f), frames, f)
    <3>1. ASSUME NEW j \in DOMAIN Append(frames, f)
          PROVE  \/ j \in DOMAIN frames /\ j <= j /\ Append(frames, f)[j] = frames[j]
                 \/ Append(frames, f)[j] = f
      BY SequenceFacts
    <3> QED
      BY <3>1 DEF FromOr
  <2>2. FromOr(frames, frames, f)
    BY <1>1 DEF From, FromOr
  <2> QED
    BY <2>1, <2>2 DEF Sent
<1> QED
  BY <1>1, <1>2, <1>3

\* What makes a frame on its way up fit its call stays true of it.
LEMMA UpKept ==
  ASSUME NEW v, NEW w, NEW F, v.up \in Seq(F), w.up \in Seq(F),
         \A j \in DOMAIN v.up : UpFrame(v, j),
         Started(w) => Started(v), w.call.method = v.call.method,
         ~v.call.method.clientStreaming => w.call.sent = v.call.sent,
         v.call.completed => w.call.completed, v.run.closed => w.run.closed
  PROVE  /\ From(w.up, v.up) => \A j \in DOMAIN w.up : UpFrame(w, j)
         /\ \A f : /\ FromOr(w.up, v.up, f) /\ f.oneofKind \in {"streamSend", "streamClose"}
                   /\ v.call.method.clientStreaming
                   /\ f.oneofKind = "streamClose" => w.call.completed \/ w.run.closed
                   => \A j \in DOMAIN w.up : UpFrame(w, j)
<1>1. ASSUME NEW j \in DOMAIN w.up, NEW k \in DOMAIN v.up, j <= k, w.up[j] = v.up[k]
      PROVE  UpFrame(w, j)
  <2>1. UpFrame(v, k)
    OBVIOUS
  <2>2. k = 1 => j = 1
    BY <1>1, SequenceFacts
  <2> QED
    BY <1>1, <2>1, <2>2 DEF UpFrame, CallKind
<1>2. ASSUME NEW f, f.oneofKind \in {"streamSend", "streamClose"}, v.call.method.clientStreaming,
             f.oneofKind = "streamClose" => w.call.completed \/ w.run.closed,
             NEW j \in DOMAIN w.up, w.up[j] = f
      PROVE  UpFrame(w, j)
  BY <1>2 DEF UpFrame, CallKind
<1> QED
  BY <1>1, <1>2 DEF From, FromOr

\* So does what makes a frame on its way down fit.
LEMMA DownKept ==
  ASSUME NEW v, NEW w, NEW F, v.down \in Seq(F), w.down \in Seq(F),
         \A j \in DOMAIN v.down : DownFrame(v, j),
         w.call.method = v.call.method, Started(v) => Started(w),
         v.run.result = "returned" => w.run.result = "returned", v.run.closed => w.run.closed
  PROVE  /\ From(w.down, v.down) => \A j \in DOMAIN w.down : DownFrame(w, j)
         /\ \A f : /\ FromOr(w.down, v.down, f)
                   /\ f.oneofKind \in {"error", "callResponse", "streamRecv", "streamClosed"}
                   /\ f.oneofKind # "error" => Started(w)
                   /\ f.oneofKind = "callResponse" =>
                        ~w.call.method.serverStreaming /\ w.run.result = "returned"
                   /\ f.oneofKind = "streamRecv" => w.call.method.serverStreaming
                   /\ f.oneofKind = "streamClosed" =>
                        w.call.method.serverStreaming /\ w.run.closed
                   => \A j \in DOMAIN w.down : DownFrame(w, j)
<1>1. ASSUME NEW j \in DOMAIN w.down, NEW k \in DOMAIN v.down, w.down[j] = v.down[k]
      PROVE  DownFrame(w, j)
  <2>1. DownFrame(v, k)
    OBVIOUS
  <2> QED
    BY <1>1, <2>1 DEF DownFrame
<1>2. ASSUME NEW f, NEW j \in DOMAIN w.down, w.down[j] = f,
             f.oneofKind \in {"error", "callResponse", "streamRecv", "streamClosed"},
             f.oneofKind # "error" => Started(w),
             f.oneofKind = "callResponse" =>
               ~w.call.method.serverStreaming /\ w.run.result = "returned",
             f.oneofKind = "streamRecv" => w.call.method.serverStreaming,
             f.oneofKind = "streamClosed" => w.call.method.serverStreaming /\ w.run.closed
      PROVE  DownFrame(w, j)
  BY <1>2 DEF DownFrame
<1> QED
  BY <1>1, <1>2 DEF From, FromOr

\* Shape, but for the frames.
Sides(v) ==
  /\ v.call.status = "none" => Blank(v)
  /\ v.inTable => v.call.status = "pending"
  /\ v.up # <<>> \/ Started(v) => v.call.status # "threw"
  /\ ~Started(v) => v.run.sent = <<>> /\ v.run.requests = <<>> /\ ~v.run.closed
  /\ v.call.status # "none" => (v.call.misused => v.call.completed)
  /\ Started(v) =>
       /\ v.run.method = v.call.method
       /\ v.run.outStream = "none" <=> ~v.call.method.clientStreaming
       /\ v.run.closed => v.call.method.serverStreaming
       /\ v.run.result = "returned" /\ v.call.method.serverStreaming => v.run.closed
       /\ ~v.call.method.serverStreaming /\ v.run.result # "returned" => v.run.sent = <<>>

\* A frame is sent where there were frames, or where it is due.
LEMMA SidesKept ==
  ASSUME NEW i \in CallIds, NEW v, NEW w, NEW l, Good(v, l), Move(i, v, w, l)
  PROVE  Sides(w)
<1> USE DEF Started
<1>0. /\ Typed(v) /\ v.up \in Seq(Frame) /\ v.down \in Seq(Frame)
      /\ v.call.status # "none" => v.call \in Made
      /\ v.run.result # "none" => v.run \in Run
      /\ Sides(v)
      /\ v.call.status = "none" => v.up = <<>> /\ v.down = <<>> /\ v.run.result = "none"
      /\ v.up # <<>> => v.call.status \notin {"none", "threw"}
      /\ v.inTable => v.call.status \notin {"none", "threw"}
      /\ v.run.result # "none" => v.call.status \notin {"none", "threw"}
  BY DEF Good, Typed, Shape, Sides, Blank
<1>1. CASE Rests(v, w, l)
  <2>1. ASSUME v.up = <<>> PROVE w.up = <<>>
    <3>1. Cut(v.up, w.up, l.up, l.server)
      BY <1>1 DEF Rests
    <3>2. v.up = <<>> => w.up = <<>>
      <4>1. v.up = <<>> => v.up \in Seq(Frame) /\ Len(v.up) = 0
        BY <1>0, EmptySeq
      <4>2. \A k \in 0..0 : SubSeq(v.up, 1, k) = <<>>
        BY <2>1
      <4> QED
        BY <2>1, <3>1, <4>1, <4>2 DEF Cut
    <3> QED
      BY <2>1, <3>2
  <2>2. ASSUME v.down = <<>> PROVE w.down = <<>>
    <3>1. Cut(v.down, w.down, l.down, l.client)
      BY <1>1 DEF Rests
    <3>2. v.down = <<>> => w.down = <<>>
      <4>1. v.down = <<>> => v.down \in Seq(Frame) /\ Len(v.down) = 0
        BY <1>0, EmptySeq
      <4>2. \A k \in 0..0 : SubSeq(v.down, 1, k) = <<>>
        BY <2>2
      <4> QED
        BY <2>2, <3>1, <4>1, <4>2 DEF Cut
    <3> QED
      BY <2>2, <3>2
  <2> QED
    BY <1>0, <1>1, <2>1, <2>2 DEF Sides, Blank, Rests
<1>2. CASE IsMade(i, v, w, l)
  <2>1. PICK m \in Method, late \in BOOLEAN, status \in {"pending", "err", "threw"} :
          \E sent \in First(i, m) :
            /\ w.call = NewCall(m, sent, late, status)
            /\ (w.inTable <=> status = "pending")
            /\ status # "pending" => w.up = v.up
    BY <1>2 DEF IsMade
  <2> QED
    BY <1>0, <1>2, <2>1 DEF Sides, Blank, IsMade, NewCall
<1>3. CASE SendsRequest(i, v, w, l)
  BY <1>0, <1>3 DEF Sides, Blank, SendsRequest, Made
<1>4. CASE CompletesRequests(i, v, w, l)
  BY <1>0, <1>4 DEF Sides, Blank, CompletesRequests, Made
<1>6. CASE Ignores(v, w, l)
  BY <1>0, <1>6 DEF Sides, Blank, Ignores, Takes
<1>7. CASE Fails(v, w, l)
  BY <1>0, <1>7 DEF Sides, Blank, Fails, Takes, Made
<1>9. CASE GetsResponse(v, w, l)
  BY <1>0, <1>9 DEF Sides, Blank, GetsResponse, Takes, Made
<1>10. CASE GetsMessage(v, w, l)
  BY <1>0, <1>10 DEF Sides, Blank, GetsMessage, Takes, Made
<1>11. CASE GetsEnd(i, v, w, l)
  BY <1>0, <1>11 DEF Sides, Blank, GetsEnd, Takes, Made
<1>12. CASE Aborts(v, w, l)
  BY <1>0, <1>12 DEF Sides, Blank, Aborts, Made
<1>14. CASE IsRefused(i, v, w, l)
  BY <1>0, <1>14 DEF Sides, Blank, IsRefused, IsRead
<1>15. CASE IsStarted(i, v, w, l)
  <2>1. UpFrame(v, 1)
    BY <1>0, <1>15, SequenceFacts DEF IsStarted, IsRead, Good, Shape
  <2> QED
    BY <1>0, <1>15, <2>1 DEF Sides, Blank, IsStarted, IsRead, UpFrame, CallKind
<1>16. CASE IsHanded(v, w, l)
  BY <1>0, <1>16 DEF Sides, Blank, IsHanded, IsRead, Running, Run
<1>18. CASE SendsMessage(i, v, w, l)
  BY <1>0, <1>18 DEF Sides, Blank, SendsMessage, Handling, Run
<1>19. CASE CompletesResponses(i, v, w, l)
  BY <1>0, <1>19 DEF Sides, Blank, CompletesResponses, Handling, Run
<1>20. CASE Returns(i, v, w, l)
  BY <1>0, <1>20 DEF Sides, Blank, Returns, Handling, Run, Running, Closed
<1>21. CASE Responds(i, v, w, l)
  BY <1>0, <1>21 DEF Sides, Blank, Responds, Handling, Run, Running, Closed
<1>22. CASE Throws(i, v, w, l)
  BY <1>0, <1>22 DEF Sides, Blank, Throws, Handling, Run, Running, Closed
<1> QED
  BY <1>1, <1>2, <1>3, <1>4, <1>6, <1>7, <1>9, <1>10, <1>11, <1>12, <1>14, <1>15, <1>16,
     <1>18, <1>19, <1>20, <1>21, <1>22
  DEF Move

\* A step of a call keeps its two ends agreed on what it is: each frame that is
\* sent fits, and each frame that stays fits the call it finds then.
LEMMA ShapeKept ==
  ASSUME NEW i \in CallIds, NEW v, NEW w, NEW l, Good(v, l), Move(i, v, w, l)
  PROVE  Shape(w)
<1> USE DEF Started
<1> DEFINE Ups == \A j \in DOMAIN w.up : UpFrame(w, j)
           Downs == \A j \in DOMAIN w.down : DownFrame(w, j)
<1>0. /\ v.up \in Seq(Frame) /\ v.down \in Seq(Frame) /\ Sides(v) /\ Typed(v)
      /\ v.call.status # "none" => v.call \in Made
      /\ v.run.result # "none" => v.run \in Run
      /\ \A j \in DOMAIN v.up : UpFrame(v, j)
      /\ \A j \in DOMAIN v.down : DownFrame(v, j)
      /\ v.call.status = "none" => v.up = <<>> /\ v.down = <<>> /\ v.run.result = "none"
  BY DEF Good, Typed, Shape, Sides, Blank
<1>1. w.up \in Seq(Frame) /\ w.down \in Seq(Frame)
  BY TypedKept DEF Typed
<1>2. Sides(w)
  BY SidesKept
<1>3. /\ From(v.up, v.up) /\ From(v.down, v.down)
      /\ v.up # <<>> => From(Tail(v.up), v.up)
      /\ v.down # <<>> => From(Tail(v.down), v.down)
      /\ \A f \in Frame : /\ FromOr(Sent(v.up, l.up, f), v.up, f)
                          /\ FromOr(Sent(v.down, l.down, f), v.down, f)
  BY <1>0, FromFacts
<1>4. CASE Rests(v, w, l)
  <2>1. From(w.up, v.up) /\ From(w.down, v.down)
    BY <1>0, <1>4, CutFacts DEF Rests, From
  <2>2. Ups
    BY <1>0, <1>1, <1>4, <2>1, UpKept DEF Rests
  <2>3. Downs
    BY <1>0, <1>1, <1>4, <2>1, DownKept DEF Rests
  <2> QED
    BY <1>2, <2>2, <2>3 DEF Shape, Sides
<1>5. CASE IsMade(i, v, w, l)
  <2>1. PICK m \in Method, late \in BOOLEAN, status \in {"pending", "err", "threw"} :
          \E sent \in First(i, m) :
            /\ w.call = NewCall(m, sent, late, status)
            /\ w.up = IF status = "pending"
                     THEN Sent(v.up, l.up, IF m.clientStreaming THEN CallClientStream(i, m)
                                             ELSE Call(i, m, sent[1]))
                     ELSE v.up
    BY <1>5 DEF IsMade
  <2>2. PICK sent \in First(i, m) :
            /\ w.call = NewCall(m, sent, late, status)
            /\ w.up = IF status = "pending"
                     THEN Sent(v.up, l.up, IF m.clientStreaming THEN CallClientStream(i, m)
                                             ELSE Call(i, m, sent[1]))
                     ELSE v.up
    BY <2>1
  <2> DEFINE f == IF m.clientStreaming THEN CallClientStream(i, m) ELSE Call(i, m, sent[1])
  <2>3. v.up = <<>> /\ v.down = <<>> /\ v.run.result = "none" /\ w.run = v.run /\ w.down = v.down
    BY <1>0, <1>5 DEF IsMade
  <2>4. /\ f.method = m /\ f.oneofKind \in CallKind
        /\ f.oneofKind = "call" => ~m.clientStreaming /\ sent = <<f.body>>
        /\ f.oneofKind = "callClientStream" => m.clientStreaming
    BY DEF First, Call, CallClientStream, CallKind
  <2> HIDE DEF f
  <2>5. Append(v.up, f) = <<f>>
    BY <2>3
  <2>6. w.up = <<>> \/ w.up = <<f>>
    BY <2>2, <2>3, <2>5 DEF Sent, f
  <2>7. w.call.method = m /\ w.call.sent = sent
    BY <2>2 DEF NewCall
  <2>8. \A j \in DOMAIN w.up : j = 1 /\ w.up[j] = f
    BY <2>6
  <2>9. Ups
    <3>1. ASSUME NEW j \in DOMAIN w.up PROVE UpFrame(w, j)
      <4>1. j = 1 /\ w.up[j] = f
        BY <2>8
      <4>2. w.run.result = "none" /\ w.call.method = m /\ w.call.sent = sent
        BY <2>3, <2>7
      <4> QED
        BY <2>4, <4>1, <4>2 DEF UpFrame, CallKind
    <3> QED
      BY <3>1
  <2> QED
    BY <1>2, <2>3, <2>9 DEF Shape, Sides
<1>6. CASE SendsRequest(i, v, w, l)
  <2>1. PICK b \in Body :
          /\ w.call = IF v.call.completed THEN [v.call EXCEPT !.misused = TRUE]
                                      ELSE [v.call EXCEPT !.sent = Append(@, b)]
          /\ w.up = Sent(v.up, l.up, StreamSend(i, b))
    BY <1>6 DEF SendsRequest
  <2>2. StreamSend(i, b) \in Frame /\ StreamSend(i, b).oneofKind = "streamSend"
    BY FrameFacts
  <2>3. /\ FromOr(w.up, v.up, StreamSend(i, b)) /\ v.call.method.clientStreaming
        /\ w.run = v.run /\ w.down = v.down /\ v.call \in Made
        /\ w.call.method = v.call.method /\ (v.call.completed => w.call.completed)
    BY <1>0, <1>3, <1>6, <2>1, <2>2 DEF SendsRequest, Made
  <2>4. Ups
    BY <1>0, <1>1, <2>2, <2>3, UpKept
  <2>5. Downs
    BY <1>0, <1>1, <1>3, <2>3, DownKept
  <2> QED
    BY <1>2, <2>4, <2>5 DEF Shape, Sides
<1>7. CASE CompletesRequests(i, v, w, l)
  <2>1. StreamClose(i) \in Frame /\ StreamClose(i).oneofKind = "streamClose"
    BY FrameFacts
  <2>2. /\ FromOr(w.up, v.up, StreamClose(i)) /\ v.call.method.clientStreaming
        /\ w.run = v.run /\ w.down = v.down
        /\ w.call.method = v.call.method /\ w.call.completed
    BY <1>0, <1>3, <1>7, <2>1 DEF CompletesRequests, Made
  <2>3. Ups
    BY <1>0, <1>1, <2>1, <2>2, UpKept
  <2>4. Downs
    BY <1>0, <1>1, <1>3, <2>2, DownKept
  <2> QED
    BY <1>2, <2>3, <2>4 DEF Shape, Sides
<1>8. ASSUME Takes(v, w, l), w.up = v.up,
             w.call.method = v.call.method, w.call.sent = v.call.sent,
             v.call.completed => w.call.completed
      PROVE  Shape(w)
  <2>1. From(w.down, v.down) /\ w.run = v.run
    BY <1>3, <1>8 DEF Takes
  <2>2. Ups
    BY <1>0, <1>1, <1>3, <1>8, <2>1, UpKept
  <2>3. Downs
    BY <1>0, <1>1, <1>8, <2>1, DownKept
  <2> QED
    BY <1>2, <2>2, <2>3 DEF Shape, Sides
<1>9. CASE Ignores(v, w, l)
  BY <1>8, <1>9 DEF Ignores
<1>10. ASSUME v.inTable PROVE v.call \in Made
  BY <1>0, <1>10 DEF Sides
<1>11. CASE Fails(v, w, l)
  BY <1>8, <1>10, <1>11 DEF Fails, Made
<1>12. CASE GetsResponse(v, w, l)
  BY <1>8, <1>10, <1>12 DEF GetsResponse, Made
<1>13. CASE GetsMessage(v, w, l)
  BY <1>8, <1>10, <1>13 DEF GetsMessage, Made
<1>14. CASE GetsEnd(i, v, w, l)
  <2>1. StreamClose(i) \in Frame /\ StreamClose(i).oneofKind = "streamClose"
    BY FrameFacts
  <2>2. /\ From(w.down, v.down) /\ w.run = v.run /\ v.down # <<>>
        /\ w.call.method = v.call.method /\ w.call.sent = v.call.sent
        /\ w.call.completed = v.call.completed
    BY <1>3, <1>10, <1>14 DEF GetsEnd, Takes, Made
  <2>3. v.run.closed
    <3>1. DownFrame(v, 1)
      BY <1>0, <2>2, SequenceFacts
    <3> QED
      BY <1>14, <3>1 DEF GetsEnd, DownFrame
  <2>4. Ups
    <3>1. CASE v.call.method.clientStreaming
      <4>1. FromOr(w.up, v.up, StreamClose(i))
        BY <1>3, <1>14, <2>1, <3>1 DEF GetsEnd
      <4> QED
        BY <1>0, <1>1, <2>1, <2>2, <2>3, <3>1, <4>1, UpKept
    <3>2. CASE ~v.call.method.clientStreaming
      <4>1. From(w.up, v.up)
        BY <1>3, <1>14, <3>2 DEF GetsEnd
      <4> QED
        BY <1>0, <1>1, <2>2, <4>1, UpKept
    <3> QED
      BY <3>1, <3>2
  <2>5. Downs
    BY <1>0, <1>1, <2>2, DownKept
  <2> QED
    BY <1>2, <2>4, <2>5 DEF Shape, Sides
<1>15. CASE Aborts(v, w, l)
  <2>1. /\ From(w.down, v.down) /\ From(w.up, v.up) /\ w.run = v.run
        /\ w.call.method = v.call.method /\ w.call.sent = v.call.sent
        /\ w.call.completed = v.call.completed
    BY <1>3, <1>10, <1>15 DEF Aborts, Made
  <2>2. Ups
    BY <1>0, <1>1, <2>1, UpKept
  <2>3. Downs
    BY <1>0, <1>1, <2>1, DownKept
  <2> QED
    BY <1>2, <2>2, <2>3 DEF Shape, Sides
<1>16. CASE IsRefused(i, v, w, l)
  <2>1. PICK code \in ErrorCode : w.down = Sent(v.down, l.down, Error(i, code))
    BY <1>16 DEF IsRefused
  <2>2. Error(i, code) \in Frame /\ Error(i, code).oneofKind = "error"
    BY FrameFacts
  <2>3. /\ From(w.up, v.up) /\ FromOr(w.down, v.down, Error(i, code))
        /\ w.run = v.run /\ w.call = v.call
    BY <1>3, <1>16, <2>1, <2>2 DEF IsRefused, IsRead
  <2>4. Ups
    BY <1>0, <1>1, <2>3, UpKept
  <2>5. Downs
    BY <1>0, <1>1, <2>2, <2>3, DownKept
  <2> QED
    BY <1>2, <2>4, <2>5 DEF Shape, Sides
<1>17. CASE IsStarted(i, v, w, l)
  <2>1. /\ v.up # <<>> /\ w.up = Tail(v.up) /\ w.call = v.call /\ w.down = v.down
        /\ w.run.result = "running" /\ v.up[1].oneofKind \in CallKind
    BY <1>17 DEF IsStarted, IsRead
  <2>2. /\ DOMAIN w.up = 1..(Len(v.up) - 1) /\ 1 \in DOMAIN v.up
        /\ \A j \in DOMAIN w.up : j + 1 \in DOMAIN v.up /\ j + 1 # 1 /\ w.up[j] = v.up[j + 1]
    BY <1>0, <2>1, SequenceFacts
  <2>3. v.run.result = "none" /\ ~v.run.closed
    <3>1. UpFrame(v, 1)
      BY <1>0, <2>2
    <3> QED
      BY <1>0, <2>1, <3>1 DEF UpFrame, Sides
  <2>4. Ups
    <3>1. ASSUME NEW j \in DOMAIN w.up PROVE UpFrame(w, j)
      <4>1. UpFrame(v, j + 1) /\ j + 1 # 1 /\ w.up[j] = v.up[j + 1]
        BY <1>0, <2>2
      <4> QED
        BY <2>1, <2>3, <4>1 DEF UpFrame, CallKind
    <3> QED
      BY <3>1
  <2>5. Downs
    BY <1>0, <1>1, <1>3, <2>1, <2>3, DownKept
  <2> QED
    BY <1>2, <2>4, <2>5 DEF Shape, Sides
<1>18. CASE IsHanded(v, w, l)
  <2>1. /\ From(w.up, v.up) /\ w.call = v.call /\ w.down = v.down
        /\ w.run.result = v.run.result /\ w.run.closed = v.run.closed
    BY <1>0, <1>3, <1>18 DEF IsHanded, IsRead, Running, Run
  <2>2. Ups
    BY <1>0, <1>1, <2>1, UpKept
  <2>3. Downs
    BY <1>0, <1>1, <1>3, <2>1, DownKept
  <2> QED
    BY <1>2, <2>2, <2>3 DEF Shape, Sides
<1>19. ASSUME Handling(v, w), w.run.result # "none",
              v.run.result = "returned" => w.run.result = "returned",
              v.run.closed => w.run.closed,
              NEW f, FromOr(w.down, v.down, f),
              f.oneofKind \in {"error", "callResponse", "streamRecv", "streamClosed"},
              f.oneofKind = "callResponse" =>
                ~v.call.method.serverStreaming /\ w.run.result = "returned",
              f.oneofKind = "streamRecv" => v.call.method.serverStreaming,
              f.oneofKind = "streamClosed" => v.call.method.serverStreaming /\ w.run.closed
       PROVE  Shape(w)
  <2>1. v.run.result # "none" /\ w.call = v.call /\ w.up = v.up
    BY <1>19 DEF Handling
  <2>2. Ups
    BY <1>0, <1>1, <1>3, <1>19, <2>1, UpKept
  <2>3. Downs
    BY <1>0, <1>1, <1>19, <2>1, DownKept
  <2> QED
    BY <1>2, <2>2, <2>3 DEF Shape, Sides
<1>20. ASSUME v.run.result # "none" PROVE v.run \in Run /\ v.run.method = v.call.method
  BY <1>0, <1>20 DEF Sides
<1>21. CASE SendsMessage(i, v, w, l)
  <2>1. PICK b \in Body :
          /\ w.run = [v.run EXCEPT !.sent = Append(@, b)]
          /\ w.down = Sent(v.down, l.down, StreamRecv(i, b))
    BY <1>21 DEF SendsMessage
  <2>2. StreamRecv(i, b) \in Frame /\ StreamRecv(i, b).oneofKind = "streamRecv"
    BY FrameFacts
  <2>3. FromOr(w.down, v.down, StreamRecv(i, b))
    BY <1>3, <2>1, <2>2
  <2> QED
    BY <1>19, <1>20, <1>21, <2>1, <2>2, <2>3 DEF SendsMessage, Handling, Run
<1>22. StreamClosed(i) \in Frame /\ StreamClosed(i).oneofKind = "streamClosed"
  BY FrameFacts
<1>23. CASE CompletesResponses(i, v, w, l)
  <2>1. FromOr(w.down, v.down, StreamClosed(i))
    BY <1>3, <1>22, <1>23 DEF CompletesResponses
  <2> QED
    BY <1>19, <1>20, <1>22, <1>23, <2>1 DEF CompletesResponses, Handling, Run
<1>24. CASE Returns(i, v, w, l)
  <2> DEFINE once == Sent(v.down, l.down, StreamClosed(i))
  <2>1. once \in Seq(Frame) /\ FromOr(once, v.down, StreamClosed(i))
    BY <1>0, <1>3, <1>22, SentType
  <2>2. w.down = once \/ w.down = Sent(once, l.down, StreamClosed(i))
    BY <1>24 DEF Returns
  <2> HIDE DEF once
  <2>3. FromOr(Sent(once, l.down, StreamClosed(i)), once, StreamClosed(i))
    BY <1>22, <2>1, FromFacts
  <2>4. FromOr(Sent(once, l.down, StreamClosed(i)), v.down, StreamClosed(i))
    <3>1. \A j \in DOMAIN once, k \in DOMAIN v.down, n \in Nat : n <= j /\ j <= k => n <= k
      BY <1>0, <2>1, SequenceFacts
    <3>2. \A n \in DOMAIN Sent(once, l.down, StreamClosed(i)) : n \in Nat
      BY <1>22, <2>1, SentType, SequenceFacts
    <3> QED
      BY <2>1, <2>3, <3>1, <3>2 DEF FromOr
  <2>5. FromOr(w.down, v.down, StreamClosed(i))
    BY <2>1, <2>2, <2>4
  <2>6. w.run.closed /\ w.run.result = "returned"
    BY <1>20, <1>24 DEF Returns, Handling, Run
  <2> QED
    BY <1>19, <1>20, <1>22, <1>24, <2>5, <2>6 DEF Returns, Handling, Running
<1>25. CASE Responds(i, v, w, l)
  <2>1. PICK b \in Body :
          /\ w.run = [v.run EXCEPT !.sent = Append(@, b), !.result = "returned",
                                  !.outStream = Closed(@)]
          /\ w.down = Sent(v.down, l.down, CallResponse(i, b))
    BY <1>25 DEF Responds
  <2>2. CallResponse(i, b) \in Frame /\ CallResponse(i, b).oneofKind = "callResponse"
    BY FrameFacts
  <2>3. FromOr(w.down, v.down, CallResponse(i, b))
    BY <1>3, <2>1, <2>2
  <2>4. w.run.closed = v.run.closed /\ w.run.result = "returned"
    BY <1>20, <1>25, <2>1 DEF Responds, Handling, Run
  <2> QED
    BY <1>19, <1>20, <1>25, <2>2, <2>3, <2>4 DEF Responds, Handling
<1>26. CASE Throws(i, v, w, l)
  <2>1. PICK code \in ErrorCode : w.down = Sent(v.down, l.down, Error(i, code))
    BY <1>26 DEF Throws
  <2>2. Error(i, code) \in Frame /\ Error(i, code).oneofKind = "error"
    BY FrameFacts
  <2>3. FromOr(w.down, v.down, Error(i, code))
    BY <1>3, <2>1, <2>2
  <2>4. w.run.closed = v.run.closed /\ w.run.result = "threw" /\ v.run.result = "running"
    BY <1>20, <1>26 DEF Throws, Handling, Running, Run
  <2> QED
    BY <1>19, <1>20, <1>26, <2>2, <2>3, <2>4 DEF Throws, Handling
<1> QED
  BY <1>4, <1>5, <1>6, <1>7, <1>9, <1>11, <1>12, <1>13, <1>14, <1>15, <1>16, <1>17, <1>18,
     <1>21, <1>23, <1>24, <1>25, <1>26
  DEF Move

-----------------------------------------------------------------------------
(* Prefixes.                                                                *)

\* A prefix, place by place.
LEMMA PrefixIs ==
  ASSUME NEW S, NEW s \in Seq(S), NEW t \in Seq(S)
  PROVE  IsPrefix(s, t) <=> Len(s) <= Len(t) /\ \A j \in 1..Len(s) : s[j] = t[j]
<1>1. SubSeq(s, 1, Len(s)) = s
  BY SubSeqFull
<1>2. CASE Len(s) <= Len(t)
  <2>1. Len(s) \in 0..Len(t)
    BY <1>2
  <2>2. /\ SubSeq(t, 1, Len(s)) \in Seq(S) /\ Len(SubSeq(t, 1, Len(s))) = Len(s)
        /\ \A j \in 1..Len(s) : SubSeq(t, 1, Len(s))[j] = t[j]
    BY <2>1, SequenceFacts
  <2>3. s = SubSeq(t, 1, Len(s)) <=> \A j \in 1..Len(s) : s[j] = t[j]
    BY <2>2, SeqEqual
  <2> QED
    BY <1>1, <1>2, <2>3 DEF IsPrefix
<1> QED
  BY <1>2 DEF IsPrefix

\* What is a prefix of a sequence that grows, and what may join a prefix.
LEMMA PrefixFacts ==
  ASSUME NEW S, NEW s \in Seq(S), NEW t \in Seq(S), IsPrefix(s, t)
  PROVE  /\ \A e \in S : IsPrefix(s, Append(t, e))
         /\ Len(s) = Len(t) => s = t
         /\ t = <<>> => s = <<>>
         /\ Len(s) + 1 <= Len(t) =>
              /\ IsPrefix(Append(s, t[Len(s) + 1]), t)
              /\ Len(s) + 1 = Len(t) => Append(s, t[Len(s) + 1]) = t
<1>1. /\ Len(s) \in Nat /\ Len(t) \in Nat /\ Len(s) <= Len(t)
      /\ \A j \in 1..Len(s) : s[j] = t[j]
  BY PrefixIs
<1>2. ASSUME NEW e \in S PROVE IsPrefix(s, Append(t, e))
  <2>1. /\ Append(t, e) \in Seq(S) /\ Len(Append(t, e)) = Len(t) + 1
        /\ \A j \in 1..Len(t) : Append(t, e)[j] = t[j]
    BY SequenceFacts
  <2>2. Len(s) <= Len(Append(t, e)) /\ \A j \in 1..Len(s) : s[j] = Append(t, e)[j]
    BY <1>1, <2>1
  <2> QED
    BY <2>1, <2>2, PrefixIs
<1>3. ASSUME Len(s) = Len(t) PROVE s = t
  BY <1>1, <1>3, SeqEqual
<1>4. ASSUME t = <<>> PROVE s = <<>>
  BY <1>1, <1>4, EmptySeq
<1>5. ASSUME Len(s) + 1 <= Len(t)
      PROVE  /\ IsPrefix(Append(s, t[Len(s) + 1]), t)
             /\ Len(s) + 1 = Len(t) => Append(s, t[Len(s) + 1]) = t
  <2> DEFINE e == t[Len(s) + 1]
             u == Append(s, e)
  <2>1. e \in S
    BY <1>1, <1>5
  <2>2. /\ u \in Seq(S) /\ Len(u) = Len(s) + 1 /\ u[Len(s) + 1] = e
        /\ \A j \in 1..Len(s) : u[j] = s[j]
    BY <2>1, SequenceFacts
  <2>3. \A j \in 1..Len(u) : u[j] = t[j]
    <3>1. ASSUME NEW j \in 1..Len(u) PROVE u[j] = t[j]
      <4>1. j \in 1..Len(s) \/ j = Len(s) + 1
        BY <1>1, <2>2
      <4> QED
        BY <1>1, <2>2, <4>1
    <3> QED
      BY <3>1
  <2>4. IsPrefix(u, t)
    BY <1>5, <2>2, <2>3, PrefixIs
  <2>5. ASSUME Len(s) + 1 = Len(t) PROVE u = t
    BY <2>2, <2>3, <2>5, SeqEqual
  <2> QED
    BY <2>4, <2>5
<1> QED
  BY <1>2, <1>3, <1>4, <1>5

\* A sequence and the empty one are prefixes of the sequence.
LEMMA PrefixSelf ==
  ASSUME NEW S, NEW s \in Seq(S)
  PROVE  IsPrefix(s, s) /\ IsPrefix(<<>>, s)
<1>1. IsPrefix(s, s)
  BY PrefixIs
<1>2. <<>> \in Seq(S) /\ Len(<<>>) = 0
  BY EmptySeq
<1>3. Len(<<>>) <= Len(s) /\ \A j \in 1..Len(<<>>) : <<>>[j] = s[j]
  BY <1>2
<1>4. IsPrefix(<<>>, s)
  BY <1>2, <1>3, PrefixIs
<1> QED
  BY <1>1, <1>4

-----------------------------------------------------------------------------
(* Responses.                                                               *)

\* A frame that carries no element: an end must follow the last one.
LEMMA NoElement ==
  ASSUME NEW F, NEW frames \in Seq(F), NEW s, NEW n \in Nat,
         NEW data, NEW last, NEW ends, Len(s) \in Nat,
         InOrder(frames, n, s, data, last, ends), Complete(frames, n, s, data),
         NEW f \in F, f.oneofKind # data, f.oneofKind \notin last
  PROVE  /\ InOrder(Append(frames, f), n, s, data, last, ends)
         /\ Complete(Append(frames, f), n, s, data)
<1>1. InOrder(Append(frames, f), n, s, data, last, ends)
  BY InOrderEnds DEF Complete
<1>2. Complete(Append(frames, f), n, s, data)
  BY AllBeforeAppend DEF Complete
<1> QED
  BY <1>1, <1>2

\* What is on its way to a caller that waits for n more of what was sent.
Down(frames, n, s, l) ==
  /\ InOrder(frames, n, s, "streamRecv", {"callResponse"}, {"streamClosed"})
  /\ l.down => Complete(frames, n, s, "streamRecv")

\* A frame that carries no response is sent.
LEMMA DownEnds ==
  ASSUME NEW l, NEW frames \in Seq(Frame), NEW s, NEW n \in Nat, Len(s) \in Nat,
         Down(frames, n, s, l),
         NEW f \in Frame, f.oneofKind \notin {"streamRecv", "callResponse"}
  PROVE  Down(Sent(frames, l.down, f), n, s, l)
<1>1. CASE l.down
  <2>1. Sent(frames, l.down, f) = Append(frames, f)
    BY <1>1 DEF Sent
  <2>2. f.oneofKind # "streamRecv" /\ f.oneofKind \notin {"callResponse"}
    OBVIOUS
  <2>3. /\ InOrder(frames, n, s, "streamRecv", {"callResponse"}, {"streamClosed"})
        /\ Complete(frames, n, s, "streamRecv")
    BY <1>1 DEF Down
  <2>4. /\ InOrder(Append(frames, f), n, s, "streamRecv", {"callResponse"}, {"streamClosed"})
        /\ Complete(Append(frames, f), n, s, "streamRecv")
    BY <2>2, <2>3, NoElement
  <2> QED
    BY <2>1, <2>4 DEF Down
<1>2. CASE ~l.down
  BY <1>2 DEF Sent
<1> QED
  BY <1>1, <1>2

\* A response is sent.
LEMMA DownGrows ==
  ASSUME NEW l, NEW frames \in Seq(Frame), NEW s \in Seq(Body), NEW n \in Nat,
         Down(frames, n, s, l),
         \A j \in DOMAIN frames : frames[j].oneofKind \notin {"callResponse", "streamClosed"},
         NEW f \in Frame, f.oneofKind \in {"streamRecv", "callResponse"},
         NEW b \in Body, f.body = b
  PROVE  Down(Sent(frames, l.down, f), n, Append(s, b), l)
<1>1. \A j \in DOMAIN frames : frames[j].oneofKind \notin {"callResponse"} \cup {"streamClosed"}
  OBVIOUS
<1>2. InOrder(frames, n, s, "streamRecv", {"callResponse"}, {"streamClosed"})
  BY DEF Down
<1>3. CASE l.down
  <2>1. Sent(frames, l.down, f) = Append(frames, f)
    BY <1>3 DEF Sent
  <2>2. Complete(frames, n, s, "streamRecv")
    BY <1>3 DEF Down
  <2>3. /\ "streamRecv" \notin {"callResponse"} \cup {"streamClosed"}
        /\ {"callResponse"} \cap {"streamClosed"} = {}
        /\ f.oneofKind \in {"streamRecv"} \cup {"callResponse"}
    OBVIOUS
  <2>4. /\ InOrder(Append(frames, f), n, Append(s, b), "streamRecv", {"callResponse"},
                   {"streamClosed"})
        /\ Complete(Append(frames, f), n, Append(s, b), "streamRecv")
    BY <1>1, <1>2, <2>2, <2>3, InOrderExtends
  <2> QED
    BY <2>1, <2>4 DEF Down
<1>4. CASE ~l.down
  <2>1. InOrder(frames, n, Append(s, b), "streamRecv", {"callResponse"}, {"streamClosed"})
    BY <1>1, <1>2, InOrderGrows
  <2> QED
    BY <1>4, <2>1 DEF Down, Sent
<1> QED
  BY <1>3, <1>4

\* The oldest frame, and what is behind it.
LEMMA DownFirst ==
  ASSUME NEW l, NEW frames \in Seq(Frame), NEW s \in Seq(Body), NEW n \in Nat,
         Down(frames, n, s, l), 1 \in DOMAIN frames
  PROVE  /\ frames[1].oneofKind \in {"streamRecv", "callResponse"} =>
              n + 1 <= Len(s) /\ frames[1].body = s[n + 1]
         /\ frames[1].oneofKind = "callResponse" => n + 1 = Len(s)
         /\ frames[1].oneofKind = "streamClosed" => n = Len(s)
         /\ frames[1].oneofKind = "streamRecv" => Down(Tail(frames), n + 1, s, l)
<1>1. AllBefore(frames, 1, "streamRecv") /\ frames # <<>>
  BY SequenceFacts DEF AllBefore
<1>2. InOrder(frames, n, s, "streamRecv", {"callResponse"}, {"streamClosed"}) /\ Len(s) \in Nat
  BY SequenceFacts DEF Down
<1>3. ASSUME frames[1].oneofKind = "streamRecv" PROVE Down(Tail(frames), n + 1, s, l)
  BY <1>2, <1>3, InOrderTail DEF Down
<1> QED
  BY <1>1, <1>2, <1>3 DEF InOrder

\* Responses, by what is under way to the caller.
LEMMA ResponsesIs ==
  ASSUME NEW v, NEW l
  PROVE  Responses(v, l) <=>
           /\ IsPrefix(v.call.received, v.run.sent)
           /\ v.inTable /\ l.client => Down(v.down, Len(v.call.received), v.run.sent, l)
           /\ v.call.status = "ok" => Started(v) /\ Over(v) /\ v.call.received = v.run.sent
BY DEF Responses, Down

\* A step of a call keeps the caller with a prefix of what the handler sent, and
\* the frames on their way to it with the rest.
LEMMA ResponsesKept ==
  ASSUME NEW i \in CallIds, NEW v, NEW w, NEW l, Good(v, l), Move(i, v, w, l)
  PROVE  Responses(w, l)
<1> USE DEF Started
<1>0. /\ v.up \in Seq(Frame) /\ v.down \in Seq(Frame) /\ Sides(v)
      /\ v.call.status # "none" => v.call \in Made
      /\ v.run.result # "none" => v.run \in Run
      /\ \A j \in DOMAIN v.up : UpFrame(v, j)
      /\ \A j \in DOMAIN v.down : DownFrame(v, j)
      /\ v.call.status = "none" => Blank(v)
      /\ v.run.result = "none" => v.run.sent = <<>>
      /\ v.inTable => v.call.status = "pending" /\ v.call \in Made
  BY DEF Good, Typed, Shape, Sides, Blank
<1>1. /\ v.call.received \in Seq(Body) /\ v.run.sent \in Seq(Body)
      /\ Len(v.call.received) \in Nat /\ Len(v.run.sent) \in Nat
  <2>1. v.call.received \in Seq(Body)
    <3>1. CASE v.call.status = "none"
      BY <1>0, <3>1, EmptySeq DEF Blank
    <3>2. CASE v.call.status # "none"
      BY <1>0, <3>2 DEF Made
    <3> QED
      BY <3>1, <3>2
  <2>2. v.run.sent \in Seq(Body)
    <3>1. CASE v.run.result = "none"
      BY <1>0, <3>1, EmptySeq
    <3>2. CASE v.run.result # "none"
      BY <1>0, <3>2 DEF Run
    <3> QED
      BY <3>1, <3>2
  <2> QED
    BY <2>1, <2>2
<1>2. /\ IsPrefix(v.call.received, v.run.sent)
      /\ v.inTable /\ l.client => Down(v.down, Len(v.call.received), v.run.sent, l)
      /\ v.call.status = "ok" => Started(v) /\ Over(v) /\ v.call.received = v.run.sent
  BY ResponsesIs DEF Good
<1>3. CASE Rests(v, w, l)
  <2>1. w.call = v.call /\ w.run = v.run /\ (w.inTable <=> v.inTable)
    BY <1>3 DEF Rests
  <2>2. ASSUME v.inTable, l.client PROVE Down(w.down, Len(v.call.received), v.run.sent, l)
    <3>1. Down(v.down, Len(v.call.received), v.run.sent, l)
      BY <1>2, <2>2
    <3>2. CASE w.down = v.down
      BY <3>1, <3>2
    <3>3. ASSUME ~l.down, NEW k \in 0..Len(v.down), w.down = SubSeq(v.down, 1, k)
          PROVE  Down(w.down, Len(v.call.received), v.run.sent, l)
      BY <1>0, <3>1, <3>3, InOrderCut DEF Down
    <3> QED
      BY <1>3, <2>2, <3>2, <3>3 DEF Rests, Cut
  <2> QED
    BY <1>2, <2>1, <2>2, ResponsesIs DEF Over
<1>4. CASE IsMade(i, v, w, l)
  <2>1. /\ w.call.received = <<>> /\ w.call.status # "ok" /\ w.run = v.run /\ w.down = v.down
        /\ v.run.sent = <<>> /\ v.down = <<>>
    BY <1>0, <1>4 DEF IsMade, NewCall, Blank
  <2>2. Down(<<>>, 0, <<>>, l)
    BY DEF Down, InOrder, Complete
  <2>3. IsPrefix(<<>>, <<>>)
    BY PrefixSelf, EmptySeq
  <2> QED
    BY <2>1, <2>2, <2>3, ResponsesIs
<1>5. ASSUME w.run = v.run, w.down = v.down, w.inTable <=> v.inTable,
             w.call.received = v.call.received, w.call.status = v.call.status,
             w.call.method = v.call.method
      PROVE  Responses(w, l)
  BY <1>2, <1>5, ResponsesIs DEF Over
<1>6. CASE SendsRequest(i, v, w, l)
  BY <1>0, <1>5, <1>6 DEF SendsRequest, Made
<1>7. CASE CompletesRequests(i, v, w, l)
  BY <1>0, <1>5, <1>7 DEF CompletesRequests, Made
<1>8. CASE Ignores(v, w, l)
  BY <1>2, <1>8, ResponsesIs DEF Ignores, Takes, Over
<1>9. CASE Fails(v, w, l)
  BY <1>0, <1>2, <1>9, ResponsesIs DEF Fails, Takes, Made
<1>10. CASE GetsResponse(v, w, l)
  <2>1. v.inTable /\ l.client /\ v.down # <<>> /\ v.down[1].oneofKind = "callResponse"
    BY <1>10 DEF GetsResponse, Takes
  <2>8. PICK n \in Nat : n = Len(v.call.received)
    BY <1>1
  <2>7. v.down \in Seq(Frame) /\ v.run.sent \in Seq(Body)
    BY <1>0, <1>1
  <2>9. Down(v.down, n, v.run.sent, l) /\ 1 \in DOMAIN v.down
    BY <1>0, <1>2, <2>1, <2>8, SequenceFacts
  <2>2. n + 1 = Len(v.run.sent) /\ v.down[1].body = v.run.sent[n + 1]
    <3>1. n + 1 = Len(v.run.sent)
      BY <2>1, <2>7, <2>9, DownFirst
    <3>2. v.down[1].body = v.run.sent[n + 1]
      BY <2>1, <2>7, <2>9, DownFirst
    <3> QED
      BY <3>1, <3>2
  <2>3. Append(v.call.received, v.down[1].body) = v.run.sent
    BY <1>1, <1>2, <2>2, <2>8, PrefixFacts
  <2>4. IsPrefix(v.run.sent, v.run.sent)
    BY <1>1, PrefixSelf
  <2>5. ~v.call.method.serverStreaming /\ v.run.result = "returned"
    <3>1. DownFrame(v, 1)
      BY <1>0, <2>1, SequenceFacts
    <3> QED
      BY <2>1, <3>1 DEF DownFrame
  <2>6. /\ w.run = v.run /\ ~w.inTable /\ w.call.received = v.run.sent
        /\ w.call.method = v.call.method
    BY <1>0, <1>10, <2>1, <2>3 DEF GetsResponse, Takes, Made
  <2> QED
    BY <2>4, <2>5, <2>6, ResponsesIs DEF Over
<1>11. CASE GetsMessage(v, w, l)
  <2>1. v.inTable /\ l.client /\ v.down # <<>> /\ v.down[1].oneofKind = "streamRecv"
    BY <1>11 DEF GetsMessage, Takes
  <2>8. PICK n \in Nat : n = Len(v.call.received)
    BY <1>1
  <2>7. v.down \in Seq(Frame) /\ v.run.sent \in Seq(Body)
    BY <1>0, <1>1
  <2>9. Down(v.down, n, v.run.sent, l) /\ 1 \in DOMAIN v.down
    BY <1>0, <1>2, <2>1, <2>8, SequenceFacts
  <2>2. /\ n + 1 <= Len(v.run.sent) /\ v.down[1].body = v.run.sent[n + 1]
        /\ Down(Tail(v.down), n + 1, v.run.sent, l)
    <3>1. n + 1 <= Len(v.run.sent)
      BY <2>1, <2>7, <2>9, DownFirst
    <3>2. v.down[1].body = v.run.sent[n + 1]
      BY <2>1, <2>7, <2>9, DownFirst
    <3>3. Down(Tail(v.down), n + 1, v.run.sent, l)
      BY <2>1, <2>7, <2>9, DownFirst
    <3> QED
      BY <3>1, <3>2, <3>3
  <2>3. IsPrefix(Append(v.call.received, v.down[1].body), v.run.sent)
    BY <1>1, <1>2, <2>2, <2>8, PrefixFacts
  <2>4. v.down[1].body \in Body
    BY <1>1, <2>2
  <2>5. Len(Append(v.call.received, v.down[1].body)) = n + 1
    BY <1>1, <2>4, <2>8, SequenceFacts
  <2>6. /\ w.run = v.run /\ w.down = Tail(v.down) /\ w.call.status = "pending"
        /\ w.call.received = Append(v.call.received, v.down[1].body)
    BY <1>0, <1>11, <2>1 DEF GetsMessage, Takes, Made
  <2> QED
    BY <2>2, <2>3, <2>5, <2>6, ResponsesIs
<1>12. CASE GetsEnd(i, v, w, l)
  <2>1. v.inTable /\ l.client /\ v.down # <<>> /\ v.down[1].oneofKind = "streamClosed"
    BY <1>12 DEF GetsEnd, Takes
  <2>8. PICK n \in Nat : n = Len(v.call.received)
    BY <1>1
  <2>7. v.down \in Seq(Frame) /\ v.run.sent \in Seq(Body)
    BY <1>0, <1>1
  <2>9. Down(v.down, n, v.run.sent, l) /\ 1 \in DOMAIN v.down
    BY <1>0, <1>2, <2>1, <2>8, SequenceFacts
  <2>2. n = Len(v.run.sent)
    BY <2>1, <2>7, <2>9, DownFirst
  <2>3. v.call.received = v.run.sent
    <3>1. IsPrefix(v.call.received, v.run.sent) /\ Len(v.call.received) = Len(v.run.sent)
      BY <1>2, <2>2, <2>8
    <3> QED
      BY <1>1, <3>1, PrefixFacts
  <2>4. v.call.method.serverStreaming /\ v.run.closed /\ v.run.result # "none"
    <3>1. DownFrame(v, 1)
      BY <1>0, <2>1, SequenceFacts
    <3> QED
      BY <2>1, <3>1 DEF DownFrame
  <2>5. /\ w.run = v.run /\ ~w.inTable /\ w.call.received = v.call.received
        /\ w.call.method = v.call.method
    BY <1>0, <1>12, <2>1, <2>4 DEF GetsEnd, Takes, Made
  <2> QED
    BY <1>2, <2>3, <2>4, <2>5, ResponsesIs DEF Over
<1>13. CASE Aborts(v, w, l)
  BY <1>0, <1>2, <1>13, ResponsesIs DEF Aborts, Made, Over
<1>14. ASSUME w.call = v.call, w.inTable <=> v.inTable, w.run.sent = v.run.sent,
              w.call.status = "ok" => w.run.result # "none" /\ Over(w),
              w.down = v.down \/ \E f \in Frame :
                /\ f.oneofKind \notin {"streamRecv", "callResponse"}
                /\ \/ w.down = Sent(v.down, l.down, f)
                   \/ w.down = Sent(Sent(v.down, l.down, f), l.down, f)
       PROVE  Responses(w, l)
  <2>1. ASSUME v.inTable, l.client PROVE Down(w.down, Len(v.call.received), v.run.sent, l)
    <3>1. Down(v.down, Len(v.call.received), v.run.sent, l)
      BY <1>2, <2>1
    <3>2. ASSUME NEW f \in Frame, f.oneofKind \notin {"streamRecv", "callResponse"},
                 \/ w.down = Sent(v.down, l.down, f)
                 \/ w.down = Sent(Sent(v.down, l.down, f), l.down, f)
          PROVE  Down(w.down, Len(v.call.received), v.run.sent, l)
      <4>1. Sent(v.down, l.down, f) \in Seq(Frame)
        BY <1>0, SentType
      <4>2. Down(Sent(v.down, l.down, f), Len(v.call.received), v.run.sent, l)
        BY <1>0, <1>1, <3>1, <3>2, DownEnds
      <4>3. Down(Sent(Sent(v.down, l.down, f), l.down, f), Len(v.call.received), v.run.sent, l)
        BY <1>1, <3>2, <4>1, <4>2, DownEnds
      <4> QED
        BY <3>2, <4>2, <4>3
    <3> QED
      BY <1>14, <3>1, <3>2
  <2> QED
    BY <1>2, <1>14, <2>1, ResponsesIs
<1>15. CASE IsRefused(i, v, w, l)
  <2>1. PICK code \in ErrorCode : w.down = Sent(v.down, l.down, Error(i, code))
    BY <1>15 DEF IsRefused
  <2>2. Error(i, code) \in Frame /\ Error(i, code).oneofKind = "error"
    BY FrameFacts
  <2> QED
    BY <1>2, <1>14, <1>15, <2>1, <2>2 DEF IsRefused, IsRead, Over
<1>16. CASE IsStarted(i, v, w, l)
  <2>1. v.up # <<>> /\ v.up[1].oneofKind \in CallKind /\ w.run.sent = <<>>
    BY <1>16 DEF IsStarted, IsRead
  <2>2. v.run.result = "none"
    <3>1. UpFrame(v, 1)
      BY <1>0, <2>1, SequenceFacts
    <3> QED
      BY <2>1, <3>1 DEF UpFrame
  <2> QED
    BY <1>0, <1>2, <1>14, <1>16, <2>1, <2>2 DEF IsStarted, IsRead
<1>17. CASE IsHanded(v, w, l)
  <2>1. /\ w.run.sent = v.run.sent /\ w.run.result = v.run.result
        /\ w.run.closed = v.run.closed /\ w.call = v.call
    BY <1>0, <1>17 DEF IsHanded, IsRead, Running, Run
  <2> QED
    BY <1>2, <1>14, <1>17, <2>1 DEF IsHanded, IsRead, Over
<1>18. ASSUME v.run.result # "none"
       PROVE  v.run \in Run /\ v.run.method = v.call.method
  BY <1>0, <1>18 DEF Sides
<1>19. ASSUME Handling(v, w), NEW b \in Body, NEW f \in Frame, f.body = b,
              f.oneofKind \in {"streamRecv", "callResponse"},
              w.down = Sent(v.down, l.down, f), w.run.sent = Append(v.run.sent, b), ~Over(v),
              \A j \in DOMAIN v.down : v.down[j].oneofKind \notin {"callResponse", "streamClosed"}
       PROVE  Responses(w, l)
  <2>1. w.call = v.call /\ (w.inTable <=> v.inTable)
    BY <1>19 DEF Handling
  <2>2. IsPrefix(v.call.received, Append(v.run.sent, b))
    BY <1>1, <1>2, PrefixFacts
  <2>3. ASSUME v.inTable, l.client
        PROVE  Down(w.down, Len(v.call.received), Append(v.run.sent, b), l)
    <3>1. Down(v.down, Len(v.call.received), v.run.sent, l)
      BY <1>2, <2>3
    <3>2. Down(Sent(v.down, l.down, f), Len(v.call.received), Append(v.run.sent, b), l)
      BY <1>0, <1>1, <1>19, <3>1, DownGrows
    <3> QED
      BY <1>19, <3>2
  <2> QED
    BY <1>2, <1>19, <2>1, <2>2, <2>3, ResponsesIs
<1>20. CASE SendsMessage(i, v, w, l)
  <2>1. PICK b \in Body :
          /\ w.run = [v.run EXCEPT !.sent = Append(@, b)]
          /\ w.down = Sent(v.down, l.down, StreamRecv(i, b))
    BY <1>20 DEF SendsMessage
  <2>2. /\ StreamRecv(i, b) \in Frame /\ StreamRecv(i, b).oneofKind = "streamRecv"
        /\ StreamRecv(i, b).body = b
    BY FrameFacts
  <2>3. /\ Handling(v, w) /\ v.call.method.serverStreaming /\ ~v.run.closed
        /\ w.run.sent = Append(v.run.sent, b)
    BY <1>18, <1>20, <2>1 DEF SendsMessage, Handling, Run
  <2>4. ~Over(v)
    BY <2>3 DEF Over
  <2>5. \A j \in DOMAIN v.down : v.down[j].oneofKind \notin {"callResponse", "streamClosed"}
    BY <1>0, <2>3 DEF DownFrame
  <2> QED
    BY <1>19, <2>1, <2>2, <2>3, <2>4, <2>5
<1>21. StreamClosed(i) \in Frame /\ StreamClosed(i).oneofKind = "streamClosed"
  BY FrameFacts
<1>22. CASE CompletesResponses(i, v, w, l)
  <2>1. /\ w.call = v.call /\ (w.inTable <=> v.inTable) /\ w.run.sent = v.run.sent
        /\ w.run.closed /\ w.run.result = v.run.result /\ v.run.result # "none"
        /\ v.call.method.serverStreaming /\ w.down = Sent(v.down, l.down, StreamClosed(i))
    BY <1>18, <1>22 DEF CompletesResponses, Handling, Run
  <2> QED
    BY <1>14, <1>21, <2>1 DEF Over
<1>23. CASE Returns(i, v, w, l)
  <2>1. /\ w.call = v.call /\ (w.inTable <=> v.inTable) /\ w.run.sent = v.run.sent
        /\ w.run.closed /\ w.run.result = "returned" /\ v.call.method.serverStreaming
        /\ \/ w.down = Sent(v.down, l.down, StreamClosed(i))
           \/ w.down = Sent(Sent(v.down, l.down, StreamClosed(i)), l.down, StreamClosed(i))
    BY <1>18, <1>23 DEF Returns, Handling, Run
  <2> QED
    BY <1>14, <1>21, <2>1 DEF Over
<1>24. CASE Responds(i, v, w, l)
  <2>1. PICK b \in Body :
          /\ w.run = [v.run EXCEPT !.sent = Append(@, b), !.result = "returned",
                                  !.outStream = Closed(@)]
          /\ w.down = Sent(v.down, l.down, CallResponse(i, b))
    BY <1>24 DEF Responds
  <2>2. /\ CallResponse(i, b) \in Frame /\ CallResponse(i, b).oneofKind = "callResponse"
        /\ CallResponse(i, b).body = b
    BY FrameFacts
  <2>3. /\ Handling(v, w) /\ ~v.call.method.serverStreaming /\ v.run.result = "running"
        /\ w.run.sent = Append(v.run.sent, b)
    BY <1>18, <1>24, <2>1 DEF Responds, Handling, Running, Run
  <2>4. ~Over(v)
    BY <2>3 DEF Over
  <2>5. \A j \in DOMAIN v.down : v.down[j].oneofKind \notin {"callResponse", "streamClosed"}
    BY <1>0, <2>3 DEF DownFrame
  <2> QED
    BY <1>19, <2>1, <2>2, <2>3, <2>4, <2>5
<1>25. CASE Throws(i, v, w, l)
  <2>1. PICK code \in ErrorCode : w.down = Sent(v.down, l.down, Error(i, code))
    BY <1>25 DEF Throws
  <2>2. Error(i, code) \in Frame /\ Error(i, code).oneofKind = "error"
    BY FrameFacts
  <2>3. /\ w.call = v.call /\ (w.inTable <=> v.inTable) /\ w.run.sent = v.run.sent
        /\ w.run.closed = v.run.closed /\ w.run.result = "threw" /\ v.run.result = "running"
    BY <1>18, <1>25 DEF Throws, Handling, Running, Run
  <2> QED
    BY <1>2, <1>14, <2>1, <2>2, <2>3 DEF Over
<1> QED
  BY <1>3, <1>4, <1>6, <1>7, <1>8, <1>9, <1>10, <1>11, <1>12, <1>13, <1>15, <1>16, <1>17,
     <1>20, <1>22, <1>23, <1>24, <1>25
  DEF Move

-----------------------------------------------------------------------------
(* Requests.                                                                *)

\* The next message of the stream.
LEMMA StreamSends ==
  ASSUME NEW v, NEW w, NEW l, NEW d \in Nat, NEW frames \in Seq(Frame), Stream(v, l, d, frames),
         v.call \in Made, NEW f \in Frame, f.oneofKind = "streamSend",
         \A j \in DOMAIN frames : frames[j].oneofKind = "streamClose" =>
           v.call.completed \/ v.run.closed,
         NEW b \in Body, f.body = b,
         w.call = IF v.call.completed THEN [v.call EXCEPT !.misused = TRUE]
                                      ELSE [v.call EXCEPT !.sent = Append(@, b)],
         w.run = v.run
  PROVE  Stream(w, l, d, Sent(frames, l.up, f))
<1> DEFINE s == v.call.sent
           ends == IF v.run.closed THEN {} ELSE {"streamClose"}
<1>0. /\ s \in Seq(Body) /\ Len(s) \in Nat
      /\ w.call.completed = v.call.completed
      /\ w.call.sent = IF v.call.completed THEN s ELSE Append(s, b)
  BY DEF Made
<1>1. /\ InOrder(frames, d, s, "streamSend", {}, ends)
      /\ l.up => Complete(frames, d, s, "streamSend")
      /\ l.up /\ v.call.completed => ~AllBefore(frames, Len(frames) + 1, "streamSend")
  BY DEF Stream
<1>2. ends \subseteq {"streamClose"}
  OBVIOUS
<1>3. ASSUME ~v.call.completed
      PROVE  \A j \in DOMAIN frames : frames[j].oneofKind \notin {} \cup ends
  BY <1>3
<1> SUFFICES /\ InOrder(Sent(frames, l.up, f), d, w.call.sent, "streamSend", {}, ends)
             /\ l.up => Complete(Sent(frames, l.up, f), d, w.call.sent, "streamSend")
             /\ l.up /\ w.call.completed =>
                  ~AllBefore(Sent(frames, l.up, f), Len(Sent(frames, l.up, f)) + 1, "streamSend")
  BY DEF Stream
<1> HIDE DEF s, ends
<1>4. CASE ~l.up
  <2>1. Sent(frames, l.up, f) = frames
    BY <1>4 DEF Sent
  <2>2. CASE v.call.completed
    BY <1>0, <1>1, <1>4, <2>1, <2>2
  <2>3. CASE ~v.call.completed
    <3>1. InOrder(frames, d, Append(s, b), "streamSend", {}, ends)
      BY <1>0, <1>1, <1>3, <2>3, InOrderGrows
    <3> QED
      BY <1>0, <1>4, <2>1, <2>3, <3>1
  <2> QED
    BY <2>2, <2>3
<1>5. CASE l.up
  <2>1. Sent(frames, l.up, f) = Append(frames, f)
    BY <1>5 DEF Sent
  <2>2. CASE v.call.completed
    <3>1. ~AllBefore(frames, Len(frames) + 1, "streamSend")
      BY <1>1, <1>5, <2>2
    <3>2. ~AllBefore(Append(frames, f), Len(Append(frames, f)) + 1, "streamSend")
      BY <3>1, AllBeforeAppend
    <3>3. InOrder(Append(frames, f), d, s, "streamSend", {}, ends)
      BY <1>0, <1>1, <3>1, InOrderEnds
    <3>4. Complete(Append(frames, f), d, s, "streamSend")
      BY <3>2 DEF Complete
    <3> QED
      BY <1>0, <2>1, <2>2, <3>2, <3>3, <3>4
  <2>3. CASE ~v.call.completed
    <3>1. /\ "streamSend" \notin {} \cup ends /\ {} \cap ends = {}
          /\ f.oneofKind \in {"streamSend"} \cup {}
      BY <1>2
    <3>2. Complete(frames, d, s, "streamSend")
      BY <1>1, <1>5
    <3>3. /\ InOrder(Append(frames, f), d, Append(s, b), "streamSend", {}, ends)
          /\ Complete(Append(frames, f), d, Append(s, b), "streamSend")
      BY <1>0, <1>1, <1>3, <2>3, <3>1, <3>2, InOrderExtends
    <3> QED
      BY <1>0, <2>1, <2>3, <3>3
  <2> QED
    BY <2>2, <2>3
<1> QED
  BY <1>4, <1>5

\* The end of the stream.
LEMMA StreamCompletes ==
  ASSUME NEW v, NEW w, NEW l, NEW d \in Nat, NEW frames \in Seq(Frame), Stream(v, l, d, frames),
         v.call.sent \in Seq(Body), NEW f \in Frame, f.oneofKind = "streamClose",
         w.call.sent = v.call.sent, w.run = v.run
  PROVE  Stream(w, l, d, Sent(frames, l.up, f))
<1> DEFINE s == v.call.sent
           ends == IF v.run.closed THEN {} ELSE {"streamClose"}
<1>0. s \in Seq(Body) /\ Len(s) \in Nat
  OBVIOUS
<1>1. /\ InOrder(frames, d, s, "streamSend", {}, ends)
      /\ l.up => Complete(frames, d, s, "streamSend")
      /\ l.up /\ v.call.completed => ~AllBefore(frames, Len(frames) + 1, "streamSend")
  BY DEF Stream
<1> SUFFICES /\ InOrder(Sent(frames, l.up, f), d, s, "streamSend", {}, ends)
             /\ l.up => Complete(Sent(frames, l.up, f), d, s, "streamSend")
             /\ l.up /\ w.call.completed =>
                  ~AllBefore(Sent(frames, l.up, f), Len(Sent(frames, l.up, f)) + 1, "streamSend")
  BY DEF Stream
<1> HIDE DEF s, ends
<1>2. CASE ~l.up
  BY <1>1, <1>2 DEF Sent
<1>3. CASE l.up
  <2>1. Sent(frames, l.up, f) = Append(frames, f)
    BY <1>3 DEF Sent
  <2>2. Complete(frames, d, s, "streamSend")
    BY <1>1, <1>3
  <2>3. f.oneofKind # "streamSend" /\ f.oneofKind \notin {}
    OBVIOUS
  <2>4. /\ InOrder(Append(frames, f), d, s, "streamSend", {}, ends)
        /\ Complete(Append(frames, f), d, s, "streamSend")
    BY <1>0, <1>1, <2>2, <2>3, NoElement
  <2>5. ~AllBefore(Append(frames, f), Len(Append(frames, f)) + 1, "streamSend")
    BY <2>3, AllBeforeAppend
  <2> QED
    BY <2>1, <2>4, <2>5
<1> QED
  BY <1>2, <1>3

\* The oldest frame, and what is behind it.
LEMMA StreamFirst ==
  ASSUME NEW v, NEW l, NEW d \in Nat, NEW frames \in Seq(Frame), Stream(v, l, d, frames),
         v.call.sent \in Seq(Body), 1 \in DOMAIN frames
  PROVE  /\ frames[1].oneofKind = "streamSend" =>
              /\ d + 1 <= Len(v.call.sent) /\ frames[1].body = v.call.sent[d + 1]
              /\ Stream(v, l, d + 1, Tail(frames))
         /\ frames[1].oneofKind = "streamClose" /\ ~v.run.closed => d = Len(v.call.sent)
<1> DEFINE s == v.call.sent
           ends == IF v.run.closed THEN {} ELSE {"streamClose"}
<1>0. s \in Seq(Body) /\ Len(s) \in Nat
  OBVIOUS
<1>1. /\ InOrder(frames, d, s, "streamSend", {}, ends)
      /\ l.up => Complete(frames, d, s, "streamSend")
      /\ l.up /\ v.call.completed => ~AllBefore(frames, Len(frames) + 1, "streamSend")
  BY DEF Stream
<1>2. AllBefore(frames, 1, "streamSend") /\ frames # <<>>
  BY SequenceFacts DEF AllBefore
<1>3. ~v.run.closed => ends = {"streamClose"}
  OBVIOUS
<1>4. (Stream(v, l, d + 1, Tail(frames)) <=>
        /\ InOrder(Tail(frames), d + 1, s, "streamSend", {}, ends)
        /\ l.up => Complete(Tail(frames), d + 1, s, "streamSend")
        /\ l.up /\ v.call.completed =>
             ~AllBefore(Tail(frames), Len(Tail(frames)) + 1, "streamSend"))
  BY DEF Stream
<1> HIDE DEF s, ends
<1>5. ASSUME frames[1].oneofKind = "streamSend"
      PROVE  d + 1 <= Len(s) /\ frames[1].body = s[d + 1]
  BY <1>1, <1>2, <1>5 DEF InOrder
<1>6. ASSUME frames[1].oneofKind = "streamClose", ~v.run.closed PROVE d = Len(s)
  BY <1>0, <1>1, <1>2, <1>3, <1>6 DEF InOrder
<1>7. ASSUME frames[1].oneofKind = "streamSend" PROVE Stream(v, l, d + 1, Tail(frames))
  <2>1. /\ InOrder(Tail(frames), d + 1, s, "streamSend", {}, ends)
        /\ Complete(frames, d, s, "streamSend") =>
             Complete(Tail(frames), d + 1, s, "streamSend")
    BY <1>0, <1>1, <1>2, <1>7, InOrderTail
  <2>2. AllBefore(Tail(frames), Len(Tail(frames)) + 1, "streamSend") =>
          AllBefore(frames, Len(frames) + 1, "streamSend")
    <3>1. Len(Tail(frames)) + 1 = Len(frames) /\ Len(frames) \in 1..Len(frames)
      BY <1>2, SequenceFacts
    <3> QED
      BY <1>2, <1>7, <3>1, AllBeforeTail
  <2> QED
    BY <1>1, <1>4, <2>1, <2>2
<1> QED
  BY <1>5, <1>6, <1>7 DEF s

\* The newest frames are lost, and no more will come.
LEMMA StreamCut ==
  ASSUME NEW v, NEW l, NEW d, NEW frames \in Seq(Frame), Stream(v, l, d, frames),
         ~l.up, NEW k \in 0..Len(frames)
  PROVE  Stream(v, l, d, SubSeq(frames, 1, k))
BY InOrderCut DEF Stream

\* Stream reads nothing but what the caller sent and whether streams ended.
LEMMA StreamSame ==
  ASSUME NEW v, NEW w, NEW l, NEW d, NEW frames, Stream(v, l, d, frames),
         w.call.sent = v.call.sent, w.call.completed => v.call.completed,
         v.run.closed => w.run.closed
  PROVE  Stream(w, l, d, frames)
<1>1. ASSUME InOrder(frames, d, v.call.sent, "streamSend", {}, {"streamClose"})
      PROVE  InOrder(frames, d, v.call.sent, "streamSend", {}, {})
  BY <1>1 DEF InOrder
<1> QED
  BY <1>1 DEF Stream

\* What a handler gets of what its caller sent.
LEMMA DecodableFacts ==
  ASSUME NEW s \in Seq(Body)
  PROVE  /\ Decodable(s) \in Seq(Body)
         /\ Decodable(SubSeq(s, 1, 0)) = <<>> /\ Decodable(SubSeq(s, 1, Len(s))) = Decodable(s)
         /\ \A b \in Body :
              /\ Append(s, b) \in Seq(Body) /\ Len(Append(s, b)) = Len(s) + 1
              /\ Decodable(Append(s, b)) =
                   IF b \in Malformed THEN Decodable(s) ELSE Append(Decodable(s), b)
              /\ \A d \in 0..Len(s) : SubSeq(Append(s, b), 1, d) = SubSeq(s, 1, d)
         /\ \A d \in 0..Len(s) : IsPrefix(Decodable(SubSeq(s, 1, d)), Decodable(s))
         /\ \A d \in Nat : d + 1 <= Len(s) =>
              /\ s[d + 1] \in Body
              /\ Decodable(SubSeq(s, 1, d + 1)) =
                   IF s[d + 1] \in Malformed THEN Decodable(SubSeq(s, 1, d))
                     ELSE Append(Decodable(SubSeq(s, 1, d)), s[d + 1])
<1>0. Len(s) \in Nat
  OBVIOUS
<1>1. Decodable(s) \in Seq(Body)
  BY WithoutType DEF Decodable
<1>2. Decodable(SubSeq(s, 1, 0)) = <<>>
  <2>1. SubSeq(s, 1, 0) = <<>>
    OBVIOUS
  <2> QED
    BY <2>1, WithoutEmpty DEF Decodable
<1>3. Decodable(SubSeq(s, 1, Len(s))) = Decodable(s)
  BY SubSeqFull
<1>4. ASSUME NEW b \in Body
      PROVE  /\ Append(s, b) \in Seq(Body) /\ Len(Append(s, b)) = Len(s) + 1
             /\ Decodable(Append(s, b)) =
                  IF b \in Malformed THEN Decodable(s) ELSE Append(Decodable(s), b)
             /\ \A d \in 0..Len(s) : SubSeq(Append(s, b), 1, d) = SubSeq(s, 1, d)
  <2>1. Append(s, b) \in Seq(Body) /\ Len(Append(s, b)) = Len(s) + 1
    BY SequenceFacts
  <2>2. Decodable(Append(s, b)) =
          IF b \in Malformed THEN Decodable(s) ELSE Append(Decodable(s), b)
    BY WithoutAppend DEF Decodable
  <2>3. \A d \in 0..Len(s) : SubSeq(Append(s, b), 1, d) = SubSeq(s, 1, d)
    OBVIOUS
  <2> QED
    BY <2>1, <2>2, <2>3
<1>5. \A d \in 0..Len(s) : IsPrefix(Decodable(SubSeq(s, 1, d)), Decodable(s))
  BY WithoutPrefix DEF Decodable
<1>6. ASSUME NEW d \in Nat, d + 1 <= Len(s)
      PROVE  /\ s[d + 1] \in Body
             /\ Decodable(SubSeq(s, 1, d + 1)) =
                  IF s[d + 1] \in Malformed THEN Decodable(SubSeq(s, 1, d))
                    ELSE Append(Decodable(SubSeq(s, 1, d)), s[d + 1])
  <2>1. d \in 0..Len(s) /\ d + 1 \in 1..Len(s) /\ d + 1 \in 0..Len(s)
    BY <1>0, <1>6
  <2>2. SubSeq(s, 1, d) \in Seq(Body) /\ s[d + 1] \in Body
    BY <2>1, SequenceFacts
  <2>3. SubSeq(s, 1, d + 1) = Append(SubSeq(s, 1, d), s[d + 1])
    <3>1. /\ SubSeq(s, 1, d + 1) \in Seq(Body) /\ Len(SubSeq(s, 1, d + 1)) = d + 1
          /\ \A j \in 1..(d + 1) : SubSeq(s, 1, d + 1)[j] = s[j]
      BY <2>1, SequenceFacts
    <3>2. /\ Len(SubSeq(s, 1, d)) = d /\ \A j \in 1..d : SubSeq(s, 1, d)[j] = s[j]
      BY <2>1, SequenceFacts
    <3> DEFINE t == SubSeq(s, 1, d)
               u == SubSeq(s, 1, d + 1)
               e == s[d + 1]
    <3> HIDE DEF t, u, e
    <3>3. /\ Append(t, e) \in Seq(Body) /\ Len(Append(t, e)) = d + 1
          /\ Append(t, e)[d + 1] = e /\ \A j \in 1..d : Append(t, e)[j] = t[j]
      <4>1. t \in Seq(Body) /\ e \in Body /\ Len(t) = d
        BY <2>2, <3>2 DEF t, e
      <4> QED
        BY <4>1, SequenceFacts
    <3>4. \A j \in 1..(d + 1) : Append(t, e)[j] = u[j]
      <4>1. ASSUME NEW j \in 1..(d + 1) PROVE Append(t, e)[j] = u[j]
        <5>1. u[j] = s[j]
          BY <3>1 DEF u
        <5>2. CASE j = d + 1
          BY <3>3, <5>1, <5>2 DEF e
        <5>3. CASE j # d + 1
          <6>1. j \in 1..d /\ t[j] = s[j]
            BY <3>2, <5>3 DEF t
          <6> QED
            BY <3>3, <5>1, <6>1
        <5> QED
          BY <5>2, <5>3
      <4> QED
        BY <4>1
    <3>5. u = Append(t, e)
      <4>1. u \in Seq(Body) /\ Len(u) = d + 1
        BY <3>1 DEF u
      <4> QED
        BY <3>3, <3>4, <4>1, SeqEqual
    <3> QED
      BY <3>5 DEF t, u, e
  <2>4. Without(Append(SubSeq(s, 1, d), s[d + 1]), Malformed) =
          IF s[d + 1] \in Malformed THEN Without(SubSeq(s, 1, d), Malformed)
            ELSE Append(Without(SubSeq(s, 1, d), Malformed), s[d + 1])
    <3> DEFINE t == SubSeq(s, 1, d)
               e == s[d + 1]
    <3>1. t \in Seq(Body) /\ e \in Body
      BY <2>2
    <3> HIDE DEF t, e
    <3>2. Without(Append(t, e), Malformed) =
            IF e \in Malformed THEN Without(t, Malformed) ELSE Append(Without(t, Malformed), e)
      BY <3>1, WithoutAppend
    <3> QED
      BY <3>2 DEF t, e
  <2> QED
    BY <2>2, <2>3, <2>4 DEF Decodable
<1> QED
  BY <1>1, <1>2, <1>3, <1>4, <1>5, <1>6

\* A step of a call keeps the handler with a prefix of what the caller sent, and
\* the frames on their way to it with the rest.
LEMMA RequestsKept ==
  ASSUME NEW i \in CallIds, NEW v, NEW w, NEW l, Good(v, l), Move(i, v, w, l)
  PROVE  Requests(w, l)
<1> USE DEF Started, Running
<1>0. /\ v.up \in Seq(Frame) /\ v.down \in Seq(Frame) /\ Sides(v)
      /\ v.call.status # "none" => v.call \in Made
      /\ v.run.result # "none" => v.run \in Run
      /\ \A j \in DOMAIN v.up : UpFrame(v, j)
      /\ \A j \in DOMAIN v.down : DownFrame(v, j)
      /\ v.call.status = "none" => Blank(v)
      /\ v.inTable => v.call.status = "pending" /\ v.call \in Made
      /\ v.run.result = "none" => v.run.requests = <<>> /\ ~v.run.closed
      /\ v.run.result # "none" => v.call.status # "none"
  BY DEF Good, Typed, Shape, Sides, Blank
<1>1. v.call.sent \in Seq(Body) /\ Len(v.call.sent) \in Nat
  <2>1. CASE v.call.status = "none"
    BY <1>0, <2>1, EmptySeq DEF Blank
  <2>2. CASE v.call.status # "none"
    BY <1>0, <2>2 DEF Made
  <2> QED
    BY <2>1, <2>2
<1>2. v.run.requests \in Seq(Body)
  <2>1. CASE v.run.result = "none"
    BY <1>0, <2>1, EmptySeq
  <2>2. CASE v.run.result # "none"
    BY <1>0, <2>2 DEF Run
  <2> QED
    BY <2>1, <2>2
<1>3. /\ IsPrefix(v.run.requests, Decodable(v.call.sent))
      /\ v.run.result = "running" /\ v.run.outStream = "open" /\ l.server =>
           \E d \in 0..Len(v.call.sent) :
             /\ v.run.requests = Decodable(SubSeq(v.call.sent, 1, d))
             /\ Stream(v, l, d, v.up)
      /\ v.up # <<>> /\ l.server /\ v.up[1].oneofKind = "callClientStream" =>
           Stream(v, l, 0, Tail(v.up))
      /\ v.run.result = "running" /\ v.run.outStream = "closed" /\ ~v.run.closed =>
           v.call.completed /\ v.run.requests = Decodable(v.call.sent)
  BY DEF Good, Requests
\* Moves that leave what the two sides hold of the requests alone.
<1>4. ASSUME w.up = v.up, w.call.sent = v.call.sent, w.call.completed = v.call.completed,
             w.run.requests = v.run.requests, v.run.closed => w.run.closed,
             w.run.result = "running" =>
               v.run.result = "running" /\ w.run.outStream = v.run.outStream
      PROVE  Requests(w, l)
  <2>1. \A d, frames : Stream(v, l, d, frames) => Stream(w, l, d, frames)
    BY <1>4, StreamSame
  <2> QED
    BY <1>3, <1>4, <2>1 DEF Requests
\* Moves that send a frame.
<1>5. ASSUME w.run = v.run,
             NEW f \in Frame, f.oneofKind \in {"streamSend", "streamClose"},
             w.up = Sent(v.up, l.up, f),
             IsPrefix(v.run.requests, Decodable(w.call.sent)),
             Len(v.call.sent) <= Len(w.call.sent), Len(w.call.sent) \in Nat,
             \A d \in 0..Len(v.call.sent) : SubSeq(w.call.sent, 1, d) = SubSeq(v.call.sent, 1, d),
             v.call.completed => w.call.completed /\ w.call.sent = v.call.sent,
             \A d \in Nat, frames \in Seq(Frame) :
               /\ \A j \in DOMAIN frames : frames[j].oneofKind = "streamClose" =>
                    v.call.completed \/ v.run.closed
               => (Stream(v, l, d, frames) => Stream(w, l, d, Sent(frames, l.up, f)))
      PROVE  Requests(w, l)
  <2>0. \A j \in DOMAIN v.up : v.up[j].oneofKind = "streamClose" =>
                    v.call.completed \/ v.run.closed
    BY <1>0 DEF UpFrame
  <2>1. ASSUME v.run.result = "running", v.run.outStream = "open", l.server
        PROVE  \E d \in 0..Len(w.call.sent) :
                 /\ w.run.requests = Decodable(SubSeq(w.call.sent, 1, d))
                 /\ Stream(w, l, d, w.up)
    <3>1. PICK d \in 0..Len(v.call.sent) :
             /\ v.run.requests = Decodable(SubSeq(v.call.sent, 1, d))
             /\ Stream(v, l, d, v.up)
      BY <1>3, <2>1
    <3>2. d \in Nat /\ d \in 0..Len(w.call.sent)
      BY <1>1, <1>5
    <3>3. Stream(w, l, d, w.up)
      BY <1>0, <1>5, <2>0, <3>1, <3>2
    <3> QED
      BY <1>5, <3>1, <3>2, <3>3
  <2>2. ASSUME w.up # <<>>, l.server, w.up[1].oneofKind = "callClientStream"
        PROVE  Stream(w, l, 0, Tail(w.up))
    <3>1. v.up # <<>> /\ v.up[1] = w.up[1] /\ Tail(w.up) = Sent(Tail(v.up), l.up, f)
      <4>1. CASE l.up
        <5>1. w.up = Append(v.up, f)
          BY <1>5, <4>1 DEF Sent
        <5>2. v.up # <<>>
          <6>1. v.up = <<>> => w.up[1] = f
            BY <5>1
          <6> QED
            BY <1>5, <2>2, <6>1
        <5>3. Tail(w.up) = Append(Tail(v.up), f)
          BY <1>0, <1>5, <5>1, <5>2, HeadTailAppend
        <5>4. 1 \in 1..Len(v.up)
          BY <1>0, <5>2, SequenceFacts
        <5>5. w.up[1] = v.up[1]
          BY <1>0, <1>5, <5>1, <5>4, SequenceFacts
        <5> QED
          BY <4>1, <5>2, <5>3, <5>5 DEF Sent
      <4>2. CASE ~l.up
        BY <1>5, <2>2, <4>2 DEF Sent
      <4> QED
        BY <4>1, <4>2
    <3>2. Stream(v, l, 0, Tail(v.up)) /\ Tail(v.up) \in Seq(Frame)
      BY <1>0, <1>3, <2>2, <3>1, SequenceFacts
    <3>3. \A j \in DOMAIN Tail(v.up) : Tail(v.up)[j].oneofKind = "streamClose" =>
                    v.call.completed \/ v.run.closed
      <4>1. \A j \in DOMAIN Tail(v.up) : j + 1 \in DOMAIN v.up /\ Tail(v.up)[j] = v.up[j + 1]
        BY <1>0, <3>1, SequenceFacts
      <4> QED
        BY <2>0, <4>1
    <3> QED
      BY <1>5, <3>1, <3>2, <3>3
  <2> QED
    BY <1>3, <1>5, <2>1, <2>2 DEF Requests
\* Moves that take a frame off the way up: no call is behind it.
<1>6. ASSUME IsRead(v, w, l), w.up # <<>>
      PROVE  w.up[1].oneofKind # "callClientStream"
  <2>1. w.up[1] = v.up[2] /\ 2 \in DOMAIN v.up
    <3>1. v.up # <<>> /\ w.up = Tail(v.up)
      BY <1>6 DEF IsRead
    <3>2. Len(v.up) \in Nat /\ w.up \in Seq(Frame) /\ Len(w.up) = Len(v.up) - 1
      BY <1>0, <3>1, SequenceFacts
    <3>3. Len(w.up) # 0 /\ Len(w.up) \in Nat
      BY <1>6, <3>2, EmptySeq
    <3>4. 1 \in 1..(Len(v.up) - 1) /\ 1 + 1 = 2 /\ 2 \in 1..Len(v.up)
      <4>1. \A m \in Nat, n \in Nat : m # 0 /\ m = n - 1 =>
              1 \in 1..(n - 1) /\ 1 + 1 = 2 /\ 2 \in 1..n
        OBVIOUS
      <4> QED
        BY <3>2, <3>3, <4>1
    <3> QED
      BY <1>0, <3>1, <3>4, SequenceFacts
  <2>2. UpFrame(v, 2)
    BY <1>0, <2>1
  <2> QED
    BY <2>1, <2>2 DEF UpFrame, CallKind
<1>7. CASE Rests(v, w, l)
  <2>1. /\ w.call = v.call /\ w.run = v.run /\ Cut(v.up, w.up, l.up, l.server)
    BY <1>7 DEF Rests
  <2>2. CASE w.up = v.up
    BY <1>4, <2>1, <2>2
  <2>3. CASE ~l.server
    BY <1>3, <2>1, <2>3 DEF Requests
  <2>4. ASSUME ~l.up, NEW k \in 0..Len(v.up), w.up = SubSeq(v.up, 1, k)
        PROVE  Requests(w, l)
    <3>1. \A d, frames : Stream(v, l, d, frames) => Stream(w, l, d, frames)
      BY <2>1, StreamSame
    <3>2. \A d : Stream(v, l, d, v.up) => Stream(w, l, d, w.up)
      BY <1>0, <2>4, <3>1, StreamCut
    <3>3. ASSUME w.up # <<>>, l.server, w.up[1].oneofKind = "callClientStream"
          PROVE  Stream(w, l, 0, Tail(w.up))
      <4>1. /\ w.up \in Seq(Frame) /\ Len(w.up) = k /\ \A j \in 1..k : w.up[j] = v.up[j]
            /\ Len(v.up) \in Nat
        BY <1>0, <2>4, SequenceFacts
      <4>2. k # 0
        BY <3>3, <4>1, EmptySeq
      <4>3. v.up # <<>> /\ w.up[1] = v.up[1]
        BY <1>0, <4>1, <4>2, EmptySeq
      <4>4. Stream(v, l, 0, Tail(v.up))
        BY <1>3, <3>3, <4>3
      <4>5. /\ Tail(v.up) \in Seq(Frame) /\ Len(Tail(v.up)) = Len(v.up) - 1
            /\ \A j \in 1..(Len(v.up) - 1) : Tail(v.up)[j] = v.up[j + 1]
        BY <1>0, <4>3, SequenceFacts
      <4>6. k - 1 \in 0..Len(Tail(v.up))
        BY <4>1, <4>2, <4>5
      <4>7. Tail(w.up) = SubSeq(Tail(v.up), 1, k - 1)
        <5>1. /\ Tail(w.up) \in Seq(Frame) /\ Len(Tail(w.up)) = k - 1
              /\ \A j \in 1..(k - 1) : Tail(w.up)[j] = w.up[j + 1]
          BY <3>3, <4>1, SequenceFacts
        <5>2. /\ SubSeq(Tail(v.up), 1, k - 1) \in Seq(Frame)
              /\ Len(SubSeq(Tail(v.up), 1, k - 1)) = k - 1
              /\ \A j \in 1..(k - 1) : SubSeq(Tail(v.up), 1, k - 1)[j] = Tail(v.up)[j]
          BY <4>5, <4>6, SequenceFacts
        <5>3. \A j \in 1..(k - 1) : Tail(w.up)[j] = SubSeq(Tail(v.up), 1, k - 1)[j]
          <6>1. ASSUME NEW j \in 1..(k - 1)
                PROVE  Tail(w.up)[j] = SubSeq(Tail(v.up), 1, k - 1)[j]
            <7>1. j + 1 \in 1..k /\ j \in 1..(Len(v.up) - 1)
              BY <4>1
            <7> QED
              BY <4>1, <4>5, <5>1, <5>2, <7>1
          <6> QED
            BY <6>1
        <5> QED
          BY <5>1, <5>2, <5>3, SeqEqual
      <4>8. Stream(v, l, 0, SubSeq(Tail(v.up), 1, k - 1))
        BY <2>4, <4>4, <4>5, <4>6, StreamCut
      <4> QED
        BY <3>1, <4>7, <4>8
    <3> QED
      BY <1>3, <2>1, <3>2, <3>3 DEF Requests
  <2> QED
    BY <2>1, <2>2, <2>3, <2>4 DEF Cut
<1>8. CASE IsMade(i, v, w, l)
  <2>1. PICK m \in Method, late \in BOOLEAN, status \in {"pending", "err", "threw"} :
          \E sent \in First(i, m) :
            /\ w.call = NewCall(m, sent, late, status)
            /\ w.up = IF status = "pending"
                     THEN Sent(v.up, l.up, IF m.clientStreaming THEN CallClientStream(i, m)
                                             ELSE Call(i, m, sent[1]))
                     ELSE v.up
    BY <1>8 DEF IsMade
  <2>2. PICK sent \in First(i, m) :
            /\ w.call = NewCall(m, sent, late, status)
            /\ w.up = IF status = "pending"
                     THEN Sent(v.up, l.up, IF m.clientStreaming THEN CallClientStream(i, m)
                                             ELSE Call(i, m, sent[1]))
                     ELSE v.up
    BY <2>1
  <2>3. /\ v.up = <<>> /\ v.run.result = "none" /\ v.run.requests = <<>> /\ w.run = v.run
        /\ w.call.sent = sent /\ ~w.call.completed
    BY <1>0, <1>8, <2>2 DEF IsMade, Blank, NewCall
  <2>4. w.call \in Made
    <3>1. Typed(w) /\ w.call.status # "none"
      BY <2>2, TypedKept DEF NewCall
    <3> QED
      BY <3>1 DEF Typed
  <2>5. IsPrefix(w.run.requests, Decodable(w.call.sent))
    BY <2>3, <2>4, DecodableFacts, PrefixSelf DEF Made
  <2>6. ASSUME w.up # <<>>, w.up[1].oneofKind = "callClientStream"
        PROVE  Stream(w, l, 0, Tail(w.up))
    <3>1. PICK f : /\ w.up = <<>> \/ w.up = <<f>>
                   /\ m.clientStreaming \/ f.oneofKind = "call"
      <4>1. \A f : Sent(<<>>, l.up, f) = <<>> \/ Sent(<<>>, l.up, f) = <<f>>
        BY DEF Sent
      <4>2. CASE m.clientStreaming
        BY <2>2, <2>3, <4>1, <4>2
      <4>3. CASE ~m.clientStreaming
        <5>1. w.up = <<>> \/ w.up = Sent(<<>>, l.up, Call(i, m, sent[1]))
          BY <2>2, <2>3, <4>3
        <5>2. Call(i, m, sent[1]).oneofKind = "call"
          BY DEF Call
        <5> QED
          BY <4>1, <5>1, <5>2
      <4> QED
        BY <4>2, <4>3
    <3>2. w.up = <<f>> /\ w.up[1] = f
      BY <2>6, <3>1
    <3>3. m.clientStreaming /\ Tail(w.up) = <<>>
      BY <2>6, <3>1, <3>2
    <3>4. w.call.sent = <<>>
      BY <2>3, <3>3 DEF First
    <3>5. InOrder(<<>>, 0, <<>>, "streamSend", {}, IF w.run.closed THEN {} ELSE {"streamClose"})
      BY DEF InOrder
    <3>6. Complete(<<>>, 0, <<>>, "streamSend")
      BY DEF Complete
    <3> QED
      BY <2>3, <3>3, <3>4, <3>5, <3>6 DEF Stream
  <2> QED
    BY <2>3, <2>5, <2>6 DEF Requests
<1>9. CASE SendsRequest(i, v, w, l)
  <2>1. PICK b \in Body :
          /\ w.call = IF v.call.completed THEN [v.call EXCEPT !.misused = TRUE]
                                      ELSE [v.call EXCEPT !.sent = Append(@, b)]
          /\ w.up = Sent(v.up, l.up, StreamSend(i, b))
    BY <1>9 DEF SendsRequest
  <2>2. /\ StreamSend(i, b) \in Frame /\ StreamSend(i, b).oneofKind = "streamSend"
        /\ StreamSend(i, b).body = b
    BY FrameFacts
  <2>3. /\ v.call \in Made /\ w.run = v.run
        /\ w.call.completed = v.call.completed
        /\ w.call.sent = IF v.call.completed THEN v.call.sent ELSE Append(v.call.sent, b)
    BY <1>0, <1>9, <2>1 DEF SendsRequest, Made
  <2>4. \A d \in Nat, frames \in Seq(Frame) :
               /\ \A j \in DOMAIN frames : frames[j].oneofKind = "streamClose" =>
                    v.call.completed \/ v.run.closed
               => (Stream(v, l, d, frames) => Stream(w, l, d, Sent(frames, l.up, StreamSend(i, b))))
    BY <2>1, <2>2, <2>3, StreamSends
  <2>5. /\ Append(v.call.sent, b) \in Seq(Body)
        /\ Len(Append(v.call.sent, b)) = Len(v.call.sent) + 1
        /\ IsPrefix(v.run.requests, Decodable(Append(v.call.sent, b)))
        /\ \A d \in 0..Len(v.call.sent) :
             SubSeq(Append(v.call.sent, b), 1, d) = SubSeq(v.call.sent, 1, d)
    <3> DEFINE t == Decodable(v.call.sent)
    <3>1. /\ Append(v.call.sent, b) \in Seq(Body)
          /\ Len(Append(v.call.sent, b)) = Len(v.call.sent) + 1
          /\ t \in Seq(Body)
          /\ Decodable(Append(v.call.sent, b)) = IF b \in Malformed THEN t ELSE Append(t, b)
          /\ \A d \in 0..Len(v.call.sent) :
               SubSeq(Append(v.call.sent, b), 1, d) = SubSeq(v.call.sent, 1, d)
      BY <1>1, DecodableFacts
    <3>2. IsPrefix(v.run.requests, t)
      BY <1>3
    <3> HIDE DEF t
    <3>3. IsPrefix(v.run.requests, Append(t, b))
      BY <1>2, <3>1, <3>2, PrefixFacts
    <3> QED
      BY <3>1, <3>2, <3>3
  <2>6. /\ IsPrefix(v.run.requests, Decodable(w.call.sent))
        /\ Len(v.call.sent) <= Len(w.call.sent) /\ Len(w.call.sent) \in Nat
        /\ \A d \in 0..Len(v.call.sent) : SubSeq(w.call.sent, 1, d) = SubSeq(v.call.sent, 1, d)
    BY <1>1, <1>3, <2>3, <2>5
  <2> QED
    BY <1>5, <2>1, <2>2, <2>3, <2>4, <2>6
<1>10. StreamClose(i) \in Frame /\ StreamClose(i).oneofKind = "streamClose"
  BY FrameFacts
<1>11. ASSUME w.call.sent = v.call.sent, w.run = v.run,
              v.call.completed => w.call.completed, w.up = Sent(v.up, l.up, StreamClose(i))
       PROVE  Requests(w, l)
  <2>1. \A d \in Nat, frames \in Seq(Frame) :
               /\ \A j \in DOMAIN frames : frames[j].oneofKind = "streamClose" =>
                    v.call.completed \/ v.run.closed
               => (Stream(v, l, d, frames) => Stream(w, l, d, Sent(frames, l.up, StreamClose(i))))
    BY <1>1, <1>10, <1>11, StreamCompletes
  <2>2. /\ IsPrefix(v.run.requests, Decodable(w.call.sent))
        /\ Len(v.call.sent) <= Len(w.call.sent) /\ Len(w.call.sent) \in Nat
        /\ \A d \in 0..Len(v.call.sent) : SubSeq(w.call.sent, 1, d) = SubSeq(v.call.sent, 1, d)
    BY <1>1, <1>3, <1>11
  <2>3. StreamClose(i).oneofKind \in {"streamSend", "streamClose"}
    BY <1>10
  <2> QED
    BY <1>5, <1>10, <1>11, <2>1, <2>2, <2>3
<1>12. CASE CompletesRequests(i, v, w, l)
  BY <1>0, <1>11, <1>12 DEF CompletesRequests, Made
<1>13. CASE Ignores(v, w, l)
  BY <1>4, <1>13 DEF Ignores, Takes
<1>14. CASE Fails(v, w, l)
  BY <1>0, <1>4, <1>14 DEF Fails, Takes, Made
<1>15. CASE GetsResponse(v, w, l)
  BY <1>0, <1>4, <1>15 DEF GetsResponse, Takes, Made
<1>16. CASE GetsMessage(v, w, l)
  BY <1>0, <1>4, <1>16 DEF GetsMessage, Takes, Made
<1>17. CASE GetsEnd(i, v, w, l)
  <2>1. /\ w.call.sent = v.call.sent /\ w.call.completed = v.call.completed /\ w.run = v.run
        /\ w.up = IF v.call.method.clientStreaming THEN Sent(v.up, l.up, StreamClose(i)) ELSE v.up
    BY <1>0, <1>17 DEF GetsEnd, Takes, Made
  <2> QED
    BY <1>4, <1>11, <2>1
<1>18. CASE Aborts(v, w, l)
  BY <1>0, <1>4, <1>18 DEF Aborts, Made
<1>19. ASSUME Handling(v, w), w.run.requests = v.run.requests, v.run.closed => w.run.closed,
              w.run.result = "running" =>
                v.run.result = "running" /\ w.run.outStream = v.run.outStream
       PROVE  Requests(w, l)
  BY <1>4, <1>19 DEF Handling
<1>20. CASE SendsMessage(i, v, w, l)
  <2>1. PICK b \in Body : w.run = [v.run EXCEPT !.sent = Append(@, b)]
    BY <1>20 DEF SendsMessage
  <2> QED
    BY <1>0, <1>19, <1>20, <2>1 DEF SendsMessage, Handling, Run
<1>21. CASE CompletesResponses(i, v, w, l)
  BY <1>0, <1>19, <1>21 DEF CompletesResponses, Handling, Run
<1>22. CASE Returns(i, v, w, l)
  BY <1>0, <1>19, <1>22 DEF Returns, Handling, Run
<1>23. CASE Responds(i, v, w, l)
  <2>1. PICK b \in Body : w.run = [v.run EXCEPT !.sent = Append(@, b), !.result = "returned",
                                               !.outStream = Closed(@)]
    BY <1>23 DEF Responds
  <2> QED
    BY <1>0, <1>19, <1>23, <2>1 DEF Responds, Handling, Run
<1>24. CASE Throws(i, v, w, l)
  BY <1>0, <1>19, <1>24 DEF Throws, Handling, Run
\* The stream behind the frame that arrives.
<1>25. ASSUME IsRead(v, w, l), v.run.result = "running", v.run.outStream = "open"
       PROVE  \E d \in 0..Len(v.call.sent) :
                /\ v.run.requests = Decodable(SubSeq(v.call.sent, 1, d))
                /\ v.up[1].oneofKind = "streamSend" =>
                     /\ d + 1 \in 0..Len(v.call.sent) /\ v.up[1].body = v.call.sent[d + 1]
                     /\ Stream(v, l, d + 1, w.up)
                     /\ IF v.up[1].body \in Malformed
                          THEN v.run.requests = Decodable(SubSeq(v.call.sent, 1, d + 1))
                          ELSE Append(v.run.requests, v.up[1].body) =
                                 Decodable(SubSeq(v.call.sent, 1, d + 1))
                /\ v.up[1].oneofKind = "streamClose" /\ ~v.run.closed =>
                     v.run.requests = Decodable(v.call.sent)
  <2>1. PICK d \in 0..Len(v.call.sent) :
             /\ v.run.requests = Decodable(SubSeq(v.call.sent, 1, d))
             /\ Stream(v, l, d, v.up)
    BY <1>3, <1>25 DEF IsRead
  <2>2. d \in Nat /\ 1 \in DOMAIN v.up /\ w.up = Tail(v.up)
    BY <1>0, <1>1, <1>25, SequenceFacts DEF IsRead
  <2>3. ASSUME v.up[1].oneofKind = "streamSend"
        PROVE  /\ d + 1 <= Len(v.call.sent) /\ v.up[1].body = v.call.sent[d + 1]
               /\ Stream(v, l, d + 1, w.up)
    <3>1. d + 1 <= Len(v.call.sent)
      BY <1>0, <1>1, <2>1, <2>2, <2>3, StreamFirst
    <3>2. v.up[1].body = v.call.sent[d + 1]
      BY <1>0, <1>1, <2>1, <2>2, <2>3, StreamFirst
    <3>3. Stream(v, l, d + 1, Tail(v.up))
      BY <1>0, <1>1, <2>1, <2>2, <2>3, StreamFirst
    <3> QED
      BY <2>2, <3>1, <3>2, <3>3
  <2>4. ASSUME v.up[1].oneofKind = "streamClose", ~v.run.closed PROVE d = Len(v.call.sent)
    BY <1>0, <1>1, <2>1, <2>2, <2>4, StreamFirst
  <2>5. ASSUME v.up[1].oneofKind = "streamSend"
        PROVE  /\ d + 1 \in 0..Len(v.call.sent)
               /\ Decodable(SubSeq(v.call.sent, 1, d + 1)) =
                   IF v.up[1].body \in Malformed THEN v.run.requests
                     ELSE Append(v.run.requests, v.up[1].body)
    <3>1. d + 1 \in 0..Len(v.call.sent)
      BY <1>1, <2>2, <2>3, <2>5
    <3>2. Decodable(SubSeq(v.call.sent, 1, d + 1)) =
            IF v.call.sent[d + 1] \in Malformed THEN Decodable(SubSeq(v.call.sent, 1, d))
              ELSE Append(Decodable(SubSeq(v.call.sent, 1, d)), v.call.sent[d + 1])
      <4>1. d + 1 <= Len(v.call.sent)
        BY <2>3, <2>5
      <4> QED
        BY <1>1, <2>2, <4>1, DecodableFacts
    <3> QED
      BY <2>1, <2>3, <2>5, <3>1, <3>2
  <2>6. ASSUME v.up[1].oneofKind = "streamClose", ~v.run.closed
        PROVE  v.run.requests = Decodable(v.call.sent)
    <3>1. Decodable(SubSeq(v.call.sent, 1, Len(v.call.sent))) = Decodable(v.call.sent)
      BY <1>1, DecodableFacts
    <3> QED
      BY <2>1, <2>4, <2>6, <3>1
  <2> QED
    BY <2>1, <2>3, <2>5, <2>6
<1>26. CASE IsRefused(i, v, w, l)
  <2>1. w.run = v.run /\ w.call = v.call /\ IsRead(v, w, l) /\ v.up # <<>>
    BY <1>26 DEF IsRefused, IsRead
  <2>2. \A d, frames : Stream(v, l, d, frames) => Stream(w, l, d, frames)
    BY <2>1, StreamSame
  <2>3. ASSUME v.run.result = "running", v.run.outStream = "open"
        PROVE  \E d \in 0..Len(w.call.sent) :
                 /\ w.run.requests = Decodable(SubSeq(w.call.sent, 1, d))
                 /\ Stream(w, l, d, w.up)
    <3>1. UpFrame(v, 1)
      BY <1>0, <2>1, SequenceFacts
    <3>2. v.up[1].oneofKind = "streamSend" /\ v.up[1].body \in Malformed
      BY <1>26, <2>3, <3>1 DEF IsRefused, UpFrame, CallKind
    <3> QED
      BY <1>25, <2>1, <2>2, <2>3, <3>2
  <2> QED
    BY <1>3, <1>6, <2>1, <2>3 DEF Requests
<1>27. CASE IsStarted(i, v, w, l)
  <2>1. /\ v.up # <<>> /\ w.up = Tail(v.up) /\ w.call = v.call /\ IsRead(v, w, l) /\ l.server
        /\ v.up[1].oneofKind \in CallKind /\ w.run.result = "running" /\ ~w.run.closed
    BY <1>27 DEF IsStarted, IsRead
  <2>2. UpFrame(v, 1)
    BY <1>0, <2>1, SequenceFacts
  <2>3. v.run.result = "none" /\ ~v.run.closed
    BY <1>0, <2>1, <2>2 DEF UpFrame
  <2>4. CASE v.up[1].oneofKind = "call"
    <3>1. /\ v.call.sent = <<v.up[1].body>> /\ v.up[1].body \notin Malformed
          /\ w.run.requests = v.call.sent /\ w.run.outStream = "none"
      BY <1>27, <2>2, <2>4 DEF UpFrame, IsStarted
    <3>2. Decodable(v.call.sent) = v.call.sent
      <4>1. v.up[1].body \in Body /\ <<>> \in Seq(Body)
        <5>1. 1 \in DOMAIN v.call.sent /\ v.call.sent[1] = v.up[1].body
          BY <3>1
        <5> QED
          BY <1>1, <5>1, EmptySeq
      <4>2. Without(Append(<<>>, v.up[1].body), Malformed) =
              Append(Without(<<>>, Malformed), v.up[1].body)
        <5> DEFINE none == <<>>
        <5>1. none \in Seq(Body)
          BY <4>1
        <5> HIDE DEF none
        <5>2. Without(Append(none, v.up[1].body), Malformed) =
                Append(Without(none, Malformed), v.up[1].body)
          BY <3>1, <4>1, <5>1, WithoutAppend
        <5> QED
          BY <5>2 DEF none
      <4>3. Without(<<>>, Malformed) = <<>>
        BY WithoutEmpty
      <4>4. Append(<<>>, v.up[1].body) = v.call.sent
        BY <3>1
      <4> QED
        BY <4>2, <4>3, <4>4 DEF Decodable
    <3>3. IsPrefix(v.call.sent, v.call.sent)
      BY <1>1, PrefixSelf
    <3> QED
      BY <1>6, <2>1, <3>1, <3>2, <3>3 DEF Requests
  <2>5. CASE v.up[1].oneofKind = "callClientStream"
    <3>1. w.run.requests = <<>> /\ w.run.outStream = "open"
      BY <1>27, <2>5 DEF IsStarted
    <3>2. Stream(v, l, 0, w.up)
      BY <1>3, <2>1, <2>5
    <3>3. Stream(w, l, 0, w.up)
      BY <2>1, <2>3, <3>2, StreamSame
    <3>4. 0 \in 0..Len(w.call.sent) /\ w.run.requests = Decodable(SubSeq(w.call.sent, 1, 0))
      BY <1>1, <2>1, <3>1, DecodableFacts
    <3>5. IsPrefix(<<>>, Decodable(w.call.sent))
      BY <1>1, <2>1, DecodableFacts, PrefixSelf
    <3> QED
      BY <1>6, <2>1, <3>1, <3>3, <3>4, <3>5 DEF Requests
  <2> QED
    BY <2>1, <2>4, <2>5 DEF CallKind
<1>28. CASE IsHanded(v, w, l)
  <2>1. /\ w.call = v.call /\ IsRead(v, w, l) /\ v.up # <<>> /\ v.run.result = "running"
        /\ v.run \in Run
    BY <1>0, <1>28 DEF IsHanded, IsRead
  <2>2. UpFrame(v, 1)
    BY <1>0, <2>1, SequenceFacts
  <2>3. CASE v.up[1].oneofKind = "streamSend"
    <3>1. /\ v.up[1].body \notin Malformed /\ v.run.outStream = "open"
          /\ w.run = [v.run EXCEPT !.requests = Append(@, v.up[1].body)]
      BY <1>28, <2>3 DEF IsHanded
    <3>2. /\ w.run.requests = Append(v.run.requests, v.up[1].body)
          /\ w.run.outStream = "open" /\ w.run.closed = v.run.closed
      BY <2>1, <3>1 DEF Run
    <3>3. PICK d \in 0..Len(v.call.sent) :
             /\ d + 1 \in 0..Len(v.call.sent)
             /\ Stream(v, l, d + 1, w.up)
             /\ w.run.requests = Decodable(SubSeq(v.call.sent, 1, d + 1))
      BY <1>25, <2>1, <2>3, <3>1, <3>2
    <3>4. Stream(w, l, d + 1, w.up)
      BY <2>1, <3>2, <3>3, StreamSame
    <3>5. IsPrefix(w.run.requests, Decodable(w.call.sent))
      BY <1>1, <2>1, <3>3, DecodableFacts
    <3> QED
      BY <1>6, <2>1, <3>2, <3>3, <3>4, <3>5 DEF Requests
  <2>4. CASE v.up[1].oneofKind = "streamClose"
    <3>1. v.run.outStream = "open" /\ w.run = [v.run EXCEPT !.outStream = "closed"]
      BY <1>28, <2>4 DEF IsHanded
    <3>2. /\ w.run.requests = v.run.requests /\ w.run.outStream = "closed"
          /\ w.run.closed = v.run.closed
      BY <2>1, <3>1 DEF Run
    <3>3. ~v.run.closed => v.run.requests = Decodable(v.call.sent)
      BY <1>25, <2>1, <2>4, <3>1
    <3>4. ~v.run.closed => v.call.completed
      BY <2>2, <2>4 DEF UpFrame
    <3> QED
      BY <1>3, <1>6, <2>1, <3>2, <3>3, <3>4 DEF Requests
  <2> QED
    BY <1>28, <2>2, <2>3, <2>4 DEF IsHanded, UpFrame, CallKind
<1> QED
  BY <1>7, <1>8, <1>9, <1>12, <1>13, <1>14, <1>15, <1>16, <1>17, <1>18, <1>20, <1>21, <1>22,
     <1>23, <1>24, <1>26, <1>27, <1>28
  DEF Move

-----------------------------------------------------------------------------
(* Errors.                                                                  *)

\* A fault is there to stay.
LEMMA FaultyKept ==
  ASSUME NEW i \in CallIds, NEW v, NEW w, NEW l, Good(v, l), Move(i, v, w, l),
         v.call.status # "none", Faulty(v)
  PROVE  Faulty(w)
<1> USE DEF Started, Running
<1>0. /\ v.call \in Made /\ Sides(v)
      /\ v.run.result # "none" => v.run \in Run
      /\ v.run.result = "none" => v.run.sent = <<>>
      /\ v.up \in Seq(Frame)
      /\ v.call.sent \in Seq(Body)
  BY DEF Good, Typed, Shape, Sides, Made
<1>1. v.run.result # "none" => v.run.sent \in Seq(Body)
  BY <1>0 DEF Run
<1>2. ASSUME w.call.method = v.call.method, v.call.misused => w.call.misused,
             w.call.sent = v.call.sent \/ \E b \in Body : w.call.sent = Append(v.call.sent, b),
             v.run.result = "threw" => w.run.result = "threw",
             \/ w.run.sent = v.run.sent
             \/ v.run.result # "none" /\ \E b \in Body : w.run.sent = Append(v.run.sent, b)
      PROVE  Faulty(w)
  <2>1. \A j \in DOMAIN v.call.sent : j \in DOMAIN w.call.sent /\ w.call.sent[j] = v.call.sent[j]
    <3>1. \A b \in Body : \A j \in DOMAIN v.call.sent :
            /\ j \in DOMAIN Append(v.call.sent, b)
            /\ Append(v.call.sent, b)[j] = v.call.sent[j]
      BY <1>0, SequenceFacts
    <3> QED
      BY <1>2, <3>1
  <2>2. \A j \in DOMAIN v.run.sent : j \in DOMAIN w.run.sent /\ w.run.sent[j] = v.run.sent[j]
    <3>1. CASE w.run.sent = v.run.sent
      BY <3>1
    <3>2. CASE v.run.result # "none" /\ \E b \in Body : w.run.sent = Append(v.run.sent, b)
      <4>1. \A b \in Body : \A j \in DOMAIN v.run.sent :
              /\ j \in DOMAIN Append(v.run.sent, b)
              /\ Append(v.run.sent, b)[j] = v.run.sent[j]
        BY <1>1, <3>2, SequenceFacts
      <4> QED
        BY <3>2, <4>1
    <3> QED
      BY <1>2, <3>1, <3>2
  <2> QED
    BY <1>2, <2>1, <2>2 DEF Faulty
<1>3. CASE Rests(v, w, l)
  BY <1>2, <1>3 DEF Rests
<1>4. CASE IsMade(i, v, w, l)
  BY <1>4 DEF IsMade
<1>5. CASE SendsRequest(i, v, w, l)
  <2>1. PICK b \in Body :
          /\ w.call = IF v.call.completed THEN [v.call EXCEPT !.misused = TRUE]
                                      ELSE [v.call EXCEPT !.sent = Append(@, b)]
    BY <1>5 DEF SendsRequest
  <2> QED
    BY <1>0, <1>2, <1>5, <2>1 DEF SendsRequest, Made
<1>6. CASE CompletesRequests(i, v, w, l)
  BY <1>0, <1>2, <1>6 DEF CompletesRequests, Made
<1>7. CASE Ignores(v, w, l)
  BY <1>2, <1>7 DEF Ignores, Takes
<1>8. CASE Fails(v, w, l)
  BY <1>0, <1>2, <1>8 DEF Fails, Takes, Made
<1>9. CASE GetsResponse(v, w, l)
  BY <1>0, <1>2, <1>9 DEF GetsResponse, Takes, Made
<1>10. CASE GetsMessage(v, w, l)
  BY <1>0, <1>2, <1>10 DEF GetsMessage, Takes, Made
<1>11. CASE GetsEnd(i, v, w, l)
  BY <1>0, <1>2, <1>11 DEF GetsEnd, Takes, Made
<1>12. CASE Aborts(v, w, l)
  BY <1>0, <1>2, <1>12 DEF Aborts, Made
<1>13. CASE IsRefused(i, v, w, l)
  BY <1>2, <1>13 DEF IsRefused, IsRead
<1>14. CASE IsStarted(i, v, w, l)
  <2>1. v.up # <<>> /\ v.up[1].oneofKind \in CallKind /\ w.run.sent = <<>> /\ w.call = v.call
    BY <1>14 DEF IsStarted, IsRead
  <2>2. v.run.result = "none"
    <3>1. UpFrame(v, 1)
      BY <1>0, <2>1, SequenceFacts DEF Good, Shape
    <3> QED
      BY <2>1, <3>1 DEF UpFrame
  <2> QED
    BY <1>0, <1>2, <2>1, <2>2
<1>15. CASE IsHanded(v, w, l)
  <2>1. w.run.sent = v.run.sent /\ w.run.result = v.run.result /\ w.call = v.call
    BY <1>0, <1>15 DEF IsHanded, IsRead, Run
  <2> QED
    BY <1>2, <2>1
<1>16. CASE SendsMessage(i, v, w, l)
  <2>1. PICK b \in Body : w.run = [v.run EXCEPT !.sent = Append(@, b)]
    BY <1>16 DEF SendsMessage
  <2> QED
    BY <1>0, <1>2, <1>16, <2>1 DEF SendsMessage, Handling, Run
<1>17. CASE CompletesResponses(i, v, w, l)
  BY <1>0, <1>2, <1>17 DEF CompletesResponses, Handling, Run
<1>18. CASE Returns(i, v, w, l)
  BY <1>0, <1>2, <1>18 DEF Returns, Handling, Run
<1>19. CASE Responds(i, v, w, l)
  <2>1. PICK b \in Body : w.run = [v.run EXCEPT !.sent = Append(@, b), !.result = "returned",
                                               !.outStream = Closed(@)]
    BY <1>19 DEF Responds
  <2> QED
    BY <1>0, <1>2, <1>19, <2>1 DEF Responds, Handling, Run
<1>20. CASE Throws(i, v, w, l)
  BY <1>0, <1>2, <1>20 DEF Throws, Handling, Run
<1> QED
  BY <1>3, <1>4, <1>5, <1>6, <1>7, <1>8, <1>9, <1>10, <1>11, <1>12, <1>13, <1>14, <1>15, <1>16,
     <1>17, <1>18, <1>19, <1>20
  DEF Move

\* An error that nobody expects comes behind the frame that settles the call.
Harmless(frames) ==
  \A j \in DOMAIN frames : frames[j].oneofKind = "error" =>
    \E k \in 1..(j - 1) : frames[k].oneofKind \in EndKind

HasEnd(frames) == \E k \in DOMAIN frames : frames[k].oneofKind \in EndKind

\* Nothing follows the end of the request stream.
LastClose(frames) ==
  \A j \in DOMAIN frames : frames[j].oneofKind = "streamClose" => j = Len(frames)

\* Errors, by the three things it asks of the frames under way.
LEMMA ErrorsIs ==
  ASSUME NEW v, NEW l
  PROVE  Errors(v, l) <=>
    /\ v.call.status = "err" => Faulty(v) \/ l.ended
    /\ v.inTable /\ ~Faulty(v) =>
         /\ l.client => Harmless(v.down)
         /\ l.client /\ l.down /\ Over(v) => HasEnd(v.down)
         /\ ~v.run.closed => LastClose(v.up)
         /\ ~v.run.closed /\ Running(v) /\ v.run.outStream = "closed" => v.up = <<>>
         /\ l.server /\ ~Started(v) =>
              IF v.up = <<>> THEN ~l.up ELSE v.up[1].oneofKind \in CallKind
BY DEF Errors, Harmless, HasEnd, LastClose

\* Errors behind the frame that settles a call stay behind it.
LEMMA HarmlessFacts ==
  ASSUME NEW frames \in Seq(Frame)
  PROVE  /\ \A f \in Frame :
              /\ HasEnd(frames) \/ f.oneofKind \in EndKind => HasEnd(Append(frames, f))
              /\ Harmless(frames) /\ (f.oneofKind = "error" => HasEnd(frames)) =>
                   Harmless(Append(frames, f))
         /\ \A k \in 0..Len(frames) : Harmless(frames) => Harmless(SubSeq(frames, 1, k))
         /\ frames # <<>> /\ frames[1].oneofKind \notin EndKind =>
              /\ Harmless(frames) => Harmless(Tail(frames))
              /\ HasEnd(frames) => HasEnd(Tail(frames))
<1>0. DOMAIN frames = 1..Len(frames) /\ Len(frames) \in Nat
  BY SequenceFacts
<1>1. ASSUME NEW f \in Frame
      PROVE  /\ HasEnd(frames) \/ f.oneofKind \in EndKind => HasEnd(Append(frames, f))
             /\ Harmless(frames) /\ (f.oneofKind = "error" => HasEnd(frames)) =>
                  Harmless(Append(frames, f))
  <2> DEFINE g == Append(frames, f)
  <2>1. /\ DOMAIN g = 1..(Len(frames) + 1) /\ g[Len(frames) + 1] = f
        /\ \A j \in 1..Len(frames) : g[j] = frames[j]
    BY SequenceFacts
  <2> HIDE DEF g
  <2>2. Len(frames) + 1 \in DOMAIN g /\ \A j \in 1..Len(frames) : j \in DOMAIN g
    BY <1>0, <2>1
  <2>3. HasEnd(frames) \/ f.oneofKind \in EndKind => HasEnd(g)
    BY <1>0, <2>1, <2>2 DEF HasEnd
  <2>4. ASSUME Harmless(frames), f.oneofKind = "error" => HasEnd(frames),
               NEW j \in DOMAIN g, g[j].oneofKind = "error"
        PROVE  \E k \in 1..(j - 1) : g[k].oneofKind \in EndKind
    <3>1. CASE j \in 1..Len(frames)
      <4>1. \A k \in 1..(j - 1) : k \in 1..Len(frames)
        BY <1>0, <3>1
      <4>2. PICK k \in 1..(j - 1) : frames[k].oneofKind \in EndKind
        BY <1>0, <2>1, <2>4, <3>1 DEF Harmless
      <4> QED
        BY <2>1, <4>1, <4>2
    <3>2. CASE j \notin 1..Len(frames)
      <4>1. j = Len(frames) + 1 /\ j - 1 = Len(frames)
        BY <1>0, <2>1, <3>2
      <4> QED
        BY <1>0, <2>1, <2>4, <4>1 DEF HasEnd
    <3> QED
      BY <3>1, <3>2
  <2> QED
    BY <2>3, <2>4 DEF Harmless, g
<1>2. ASSUME NEW k \in 0..Len(frames), Harmless(frames) PROVE Harmless(SubSeq(frames, 1, k))
  <2> DEFINE g == SubSeq(frames, 1, k)
  <2>1. DOMAIN g = 1..k /\ \A j \in 1..k : g[j] = frames[j] /\ j \in DOMAIN frames
    BY SequenceFacts
  <2> HIDE DEF g
  <2>2. \A j \in 1..k : \A n \in 1..(j - 1) : n \in 1..k
    BY <1>0
  <2>3. Harmless(g)
    BY <1>2, <2>1, <2>2 DEF Harmless
  <2> QED
    BY <2>3 DEF g
<1>3. ASSUME frames # <<>>, frames[1].oneofKind \notin EndKind
      PROVE  /\ Harmless(frames) => Harmless(Tail(frames))
             /\ HasEnd(frames) => HasEnd(Tail(frames))
  <2> DEFINE g == Tail(frames)
  <2>1. DOMAIN g = 1..(Len(frames) - 1) /\ \A j \in 1..(Len(frames) - 1) : g[j] = frames[j + 1]
    BY <1>3, SequenceFacts
  <2> HIDE DEF g
  <2>2. \A n \in 1..Len(frames) : frames[n].oneofKind \in EndKind =>
          n - 1 \in 1..(Len(frames) - 1) /\ g[n - 1] = frames[n]
    <3>1. ASSUME NEW n \in 1..Len(frames), n # 1
          PROVE  n - 1 \in 1..(Len(frames) - 1) /\ g[n - 1] = frames[n]
      <4>1. n - 1 \in 1..(Len(frames) - 1) /\ (n - 1) + 1 = n
        BY <1>0, <3>1
      <4> QED
        BY <2>1, <4>1
    <3> QED
      BY <1>3, <3>1
  <2>3. HasEnd(frames) => HasEnd(g)
    BY <1>0, <2>1, <2>2 DEF HasEnd
  <2>4. ASSUME Harmless(frames), NEW j \in DOMAIN g, g[j].oneofKind = "error"
        PROVE  \E k \in 1..(j - 1) : g[k].oneofKind \in EndKind
    <3>1. j + 1 \in 1..Len(frames) /\ (j + 1) - 1 = j /\ g[j] = frames[j + 1]
      BY <1>0, <2>1
    <3>2. PICK n \in 1..j : frames[n].oneofKind \in EndKind
      BY <1>0, <2>4, <3>1 DEF Harmless
    <3>3. n \in 1..Len(frames)
      BY <1>0, <3>1
    <3>4. g[n - 1].oneofKind \in EndKind /\ n - 1 \in 1..(Len(frames) - 1)
      BY <2>2, <3>2, <3>3
    <3>5. n - 1 \in 1..(j - 1)
      <4>1. j \in Nat
        BY <1>0, <2>1
      <4> QED
        BY <3>4, <4>1
    <3> QED
      BY <3>4, <3>5
  <2> QED
    BY <2>3, <2>4 DEF Harmless, g
<1> QED
  BY <1>1, <1>2, <1>3

\* A streamClose stays the last frame.
LEMMA LastCloseFacts ==
  ASSUME NEW frames \in Seq(Frame)
  PROVE  /\ \A f \in Frame :
              (\A j \in DOMAIN frames : frames[j].oneofKind # "streamClose") =>
                LastClose(Append(frames, f))
         /\ \A k \in 0..Len(frames) : LastClose(frames) => LastClose(SubSeq(frames, 1, k))
         /\ frames # <<>> /\ LastClose(frames) =>
              /\ LastClose(Tail(frames))
              /\ frames[1].oneofKind = "streamClose" => Tail(frames) = <<>>
<1>0. DOMAIN frames = 1..Len(frames) /\ Len(frames) \in Nat
  BY SequenceFacts
<1>1. ASSUME NEW f \in Frame, \A j \in DOMAIN frames : frames[j].oneofKind # "streamClose"
      PROVE  LastClose(Append(frames, f))
  <2>1. /\ DOMAIN Append(frames, f) = 1..(Len(frames) + 1)
        /\ Len(Append(frames, f)) = Len(frames) + 1
        /\ \A j \in 1..Len(frames) : Append(frames, f)[j] = frames[j]
    BY SequenceFacts
  <2>2. \A j \in 1..(Len(frames) + 1) : j \in 1..Len(frames) \/ j = Len(frames) + 1
    BY <1>0
  <2> QED
    BY <1>0, <1>1, <2>1, <2>2 DEF LastClose
<1>2. ASSUME NEW k \in 0..Len(frames), LastClose(frames) PROVE LastClose(SubSeq(frames, 1, k))
  <2>1. /\ DOMAIN SubSeq(frames, 1, k) = 1..k /\ Len(SubSeq(frames, 1, k)) = k
        /\ \A j \in 1..k : SubSeq(frames, 1, k)[j] = frames[j]
    BY SequenceFacts
  <2>2. \A j \in 1..k : j \in 1..Len(frames) /\ (j = Len(frames) => j = k)
    <3>1. \A n \in Nat : \A m \in 0..n : \A j \in 1..m : j \in 1..n /\ (j = n => j = m)
      OBVIOUS
    <3>2. Len(frames) \in Nat
      BY <1>0
    <3> QED
      BY <3>1, <3>2
  <2> QED
    BY <1>0, <1>2, <2>1, <2>2 DEF LastClose
<1>3. ASSUME frames # <<>>, LastClose(frames) PROVE LastClose(Tail(frames))
  <2>1. /\ DOMAIN Tail(frames) = 1..(Len(frames) - 1) /\ Len(Tail(frames)) = Len(frames) - 1
        /\ \A j \in 1..(Len(frames) - 1) : Tail(frames)[j] = frames[j + 1]
    BY <1>3, SequenceFacts
  <2>2. \A j \in 1..(Len(frames) - 1) :
          j + 1 \in 1..Len(frames) /\ (j + 1 = Len(frames) => j = Len(frames) - 1)
    <3>1. \A n \in Nat : \A j \in 1..(n - 1) : j + 1 \in 1..n /\ (j + 1 = n => j = n - 1)
      OBVIOUS
    <3>2. Len(frames) \in Nat
      BY <1>0
    <3> QED
      BY <3>1, <3>2
  <2> QED
    BY <1>0, <1>3, <2>1, <2>2 DEF LastClose
<1>4. ASSUME frames # <<>>, LastClose(frames), frames[1].oneofKind = "streamClose"
      PROVE  Tail(frames) = <<>>
  <2>1. 1 \in DOMAIN frames /\ Tail(frames) \in Seq(Frame) /\ Len(Tail(frames)) = Len(frames) - 1
    BY <1>4, SequenceFacts
  <2>2. Len(Tail(frames)) = 0
    BY <1>4, <2>1 DEF LastClose
  <2> QED
    BY <2>1, <2>2, EmptySeq
<1> QED
  BY <1>1, <1>2, <1>3, <1>4

\* What Errors says of a pending call without a fault, by direction.
DownFine(v, l) ==
  /\ l.client => Harmless(v.down)
  /\ l.client /\ l.down /\ Over(v) => HasEnd(v.down)

UpFine(v, l) ==
  /\ ~v.run.closed => LastClose(v.up)
  /\ ~v.run.closed /\ Running(v) /\ v.run.outStream = "closed" => v.up = <<>>
  /\ l.server /\ ~Started(v) => IF v.up = <<>> THEN ~l.up ELSE v.up[1].oneofKind \in CallKind

\* A step of a call without a fault does not fail it: errors its messages provoke
\* follow the frame that settles it.
LEMMA ErrorsKept ==
  ASSUME NEW i \in CallIds, NEW v, NEW w, NEW l, Good(v, l), Move(i, v, w, l)
  PROVE  Errors(w, l)
<1> USE DEF Started, Running
<1>0. /\ v.up \in Seq(Frame) /\ v.down \in Seq(Frame) /\ Sides(v)
      /\ v.call.status # "none" => v.call \in Made
      /\ v.run.result # "none" => v.run \in Run
      /\ \A j \in DOMAIN v.up : UpFrame(v, j)
      /\ \A j \in DOMAIN v.down : DownFrame(v, j)
      /\ v.call.status = "none" => Blank(v)
      /\ v.inTable => v.call.status = "pending" /\ v.call \in Made
      /\ v.run.result = "none" => v.run.requests = <<>> /\ ~v.run.closed /\ v.run.sent = <<>>
      /\ v.run.result # "none" => v.run.method = v.call.method
  BY DEF Good, Typed, Shape, Sides, Blank
<1>1. /\ v.call.status = "err" => Faulty(v) \/ l.ended
      /\ v.inTable /\ ~Faulty(v) => DownFine(v, l) /\ UpFine(v, l)
  <2>1. Errors(v, l)
    BY DEF Good
  <2> QED
    BY <2>1, ErrorsIs DEF DownFine, UpFine
<1>2. v.call.status # "none" /\ Faulty(v) => Faulty(w)
  BY FaultyKept
<1>3. ASSUME w.call.status = "err" => v.call.status = "err" \/ Faulty(w) \/ l.ended,
             w.inTable => v.inTable,
             v.inTable /\ ~Faulty(v) /\ ~Faulty(w) /\ w.inTable => DownFine(w, l) /\ UpFine(w, l)
      PROVE  Errors(w, l)
  BY <1>0, <1>1, <1>2, <1>3, ErrorsIs DEF DownFine, UpFine
\* A direction in which nothing happened.
<1>4. ASSUME w.down = v.down, Over(w) => Over(v), DownFine(v, l) PROVE DownFine(w, l)
  BY <1>4 DEF DownFine
<1>5. ASSUME w.up = v.up, v.run.closed => w.run.closed,
             w.run.result = "running" =>
               v.run.result = "running" /\ w.run.outStream = v.run.outStream,
             w.run.result = "none" => v.run.result = "none",
             UpFine(v, l)
      PROVE  UpFine(w, l)
  BY <1>5 DEF UpFine
\* A frame was sent.
<1>6. ASSUME NEW f \in Frame, w.down = Sent(v.down, l.down, f), DownFine(v, l),
             Over(w) => Over(v) \/ f.oneofKind \in EndKind,
             f.oneofKind = "error" => Over(v)
      PROVE  DownFine(w, l)
  <2>1. CASE l.down
    <3>1. w.down = Append(v.down, f)
      BY <1>6, <2>1 DEF Sent
    <3> QED
      BY <1>0, <1>6, <2>1, <3>1, HarmlessFacts DEF DownFine
  <2>2. CASE ~l.down
    BY <1>6, <2>2 DEF DownFine, Sent
  <2> QED
    BY <2>1, <2>2
<1>7. ASSUME NEW f \in Frame, w.up = Sent(v.up, l.up, f), w.run = v.run, UpFine(v, l),
             v.run.result = "running" /\ v.run.outStream = "closed" => v.run.closed,
             \A j \in DOMAIN v.up : v.up[j].oneofKind = "streamClose" => v.run.closed
      PROVE  UpFine(w, l)
  <2>1. CASE l.up
    <3>1. w.up = Append(v.up, f)
      BY <1>7, <2>1 DEF Sent
    <3>2. ~v.run.closed => LastClose(w.up)
      BY <1>0, <1>7, <3>1, LastCloseFacts
    <3>3. ASSUME l.server, v.run.result = "none" PROVE w.up # <<>> /\ w.up[1].oneofKind \in CallKind
      <4>1. v.up # <<>> /\ v.up[1].oneofKind \in CallKind
        BY <1>7, <2>1, <3>3 DEF UpFine
      <4>2. 1 \in 1..Len(v.up)
        BY <1>0, <4>1, SequenceFacts
      <4>3. w.up[1] = v.up[1] /\ w.up # <<>>
        BY <1>0, <1>7, <3>1, <4>2, SequenceFacts
      <4> QED
        BY <4>1, <4>3
    <3> QED
      BY <1>7, <3>2, <3>3 DEF UpFine
  <2>2. CASE ~l.up
    <3>1. w.up = v.up
      BY <1>7, <2>2 DEF Sent
    <3> QED
      BY <1>5, <1>7, <3>1
  <2> QED
    BY <2>1, <2>2
\* A frame was taken off the way up.
<1>8. ASSUME IsRead(v, w, l), w.run.result # "none", UpFine(v, l), v.run.closed => w.run.closed,
             w.run.result = "running" /\ w.run.outStream = "closed" /\ ~w.run.closed =>
               \/ v.run.result = "running" /\ v.run.outStream = "closed"
               \/ v.up[1].oneofKind = "streamClose"
      PROVE  UpFine(w, l)
  <2>1. v.up # <<>> /\ w.up = Tail(v.up)
    BY <1>8 DEF IsRead
  <2>2. ~w.run.closed => LastClose(v.up)
    BY <1>8 DEF UpFine
  <2>3. ~w.run.closed => LastClose(w.up)
    BY <1>0, <2>1, <2>2, LastCloseFacts
  <2>4. ASSUME ~w.run.closed, w.run.result = "running", w.run.outStream = "closed"
        PROVE  w.up = <<>>
    <3>1. CASE v.up[1].oneofKind = "streamClose"
      BY <1>0, <2>1, <2>2, <2>4, <3>1, LastCloseFacts
    <3>2. CASE v.run.result = "running" /\ v.run.outStream = "closed"
      BY <1>8, <2>1, <2>4, <3>2 DEF UpFine
    <3> QED
      BY <1>8, <2>4, <3>1, <3>2
  <2> QED
    BY <1>8, <2>3, <2>4 DEF UpFine
<1>9. CASE Rests(v, w, l)
  <2>1. /\ w.call = v.call /\ w.run = v.run /\ (w.inTable <=> v.inTable)
        /\ Cut(v.up, w.up, l.up, l.server) /\ Cut(v.down, w.down, l.down, l.client)
        /\ (Over(w) <=> Over(v))
    BY <1>9 DEF Rests, Over
  <2>2. ASSUME DownFine(v, l) PROVE DownFine(w, l)
    <3>1. CASE ~l.client
      BY <3>1 DEF DownFine
    <3>2. CASE w.down = v.down
      BY <1>4, <2>1, <2>2, <3>2
    <3>3. ASSUME ~l.down, NEW k \in 0..Len(v.down), w.down = SubSeq(v.down, 1, k)
          PROVE  DownFine(w, l)
      BY <1>0, <2>2, <3>3, HarmlessFacts DEF DownFine
    <3> QED
      BY <2>1, <3>1, <3>2, <3>3 DEF Cut
  <2>3. ASSUME UpFine(v, l) PROVE UpFine(w, l)
    <3>1. CASE w.up = v.up
      BY <1>5, <2>1, <2>3, <3>1
    <3>2. ASSUME ~l.up, NEW k \in 0..Len(v.up), w.up = SubSeq(v.up, 1, k)
          PROVE  UpFine(w, l)
      <4>1. ~v.run.closed => LastClose(w.up)
        BY <1>0, <2>3, <3>2, LastCloseFacts DEF UpFine
      <4>2. /\ w.up \in Seq(Frame) /\ Len(w.up) = k /\ (\A j \in 1..k : w.up[j] = v.up[j])
            /\ Len(v.up) \in Nat
        BY <1>0, <3>2, SequenceFacts
      <4>3. ASSUME v.up = <<>> PROVE w.up = <<>>
        <5>1. Len(v.up) = 0
          BY <4>3
        <5>2. k = 0
          BY <3>2, <5>1
        <5> QED
          BY <4>2, <5>2, EmptySeq
      <4>4. ASSUME w.up # <<>> PROVE v.up # <<>> /\ w.up[1] = v.up[1]
        <5>1. k # 0
          BY <4>2, <4>4, EmptySeq
        <5>2. 1 \in 1..k
          BY <3>2, <4>2, <5>1
        <5> QED
          BY <4>2, <4>3, <4>4, <5>2
      <4> QED
        BY <2>1, <2>3, <3>2, <4>1, <4>3, <4>4 DEF UpFine
    <3>3. ASSUME ~l.server, v.up # <<>>, w.up = Tail(v.up) PROVE UpFine(w, l)
      <4>1. ~v.run.closed => LastClose(w.up)
        BY <1>0, <2>3, <3>3, LastCloseFacts DEF UpFine
      <4> QED
        BY <2>1, <2>3, <3>3, <4>1 DEF UpFine
    <3> QED
      BY <2>1, <3>1, <3>2, <3>3 DEF Cut
  <2> QED
    BY <1>1, <1>3, <2>1, <2>2, <2>3
<1>10. CASE IsMade(i, v, w, l)
  <2>1. PICK m \in Method, late \in BOOLEAN, status \in {"pending", "err", "threw"} :
          \E sent \in First(i, m) :
            /\ status = "err" => l.ended
            /\ w.call = NewCall(m, sent, late, status)
            /\ (w.inTable <=> status = "pending")
            /\ w.up = IF status = "pending"
                     THEN Sent(v.up, l.up, IF m.clientStreaming THEN CallClientStream(i, m)
                                             ELSE Call(i, m, sent[1]))
                     ELSE v.up
    BY <1>10 DEF IsMade
  <2>2. PICK sent \in First(i, m) :
            /\ status = "err" => l.ended
            /\ w.call = NewCall(m, sent, late, status)
            /\ (w.inTable <=> status = "pending")
            /\ w.up = IF status = "pending"
                     THEN Sent(v.up, l.up, IF m.clientStreaming THEN CallClientStream(i, m)
                                             ELSE Call(i, m, sent[1]))
                     ELSE v.up
    BY <2>1
  <2>3. /\ v.up = <<>> /\ v.run.result = "none" /\ w.run = v.run /\ ~v.run.closed
        /\ w.down = <<>> /\ w.call.status = status /\ w.call.method = m
    BY <1>0, <1>10, <2>2 DEF IsMade, Blank, NewCall
  <2>4. ~Over(w)
    BY <2>3 DEF Over
  <2>5. DownFine(w, l)
    BY <2>3, <2>4 DEF DownFine, Harmless
  <2>6. ASSUME w.inTable PROVE UpFine(w, l)
    <3>1. PICK f : w.up = Sent(<<>>, l.up, f) /\ f.oneofKind \in CallKind
      <4>1. w.up = Sent(<<>>, l.up, IF m.clientStreaming THEN CallClientStream(i, m)
                                             ELSE Call(i, m, sent[1]))
        BY <2>2, <2>3, <2>6
      <4>2. CallClientStream(i, m).oneofKind \in CallKind
        BY DEF CallClientStream, CallKind
      <4>3. Call(i, m, sent[1]).oneofKind \in CallKind
        BY DEF Call, CallKind
      <4>4. CASE m.clientStreaming
        BY <4>1, <4>2, <4>4
      <4>5. CASE ~m.clientStreaming
        BY <4>1, <4>3, <4>5
      <4> QED
        BY <4>4, <4>5
    <3>2. CASE l.up
      <4>1. w.up = <<f>>
        BY <3>1, <3>2 DEF Sent
      <4>2. LastClose(w.up)
        BY <3>1, <4>1 DEF LastClose, CallKind
      <4>3. w.up # <<>> /\ w.up[1] = f
        BY <4>1
      <4>4. w.run.result = "none"
        BY <2>3
      <4> QED
        BY <3>1, <4>2, <4>3, <4>4 DEF UpFine
    <3>3. CASE ~l.up
      <4>1. w.up = <<>>
        BY <3>1, <3>3 DEF Sent
      <4> QED
        BY <2>3, <3>3, <4>1 DEF UpFine, LastClose
    <3> QED
      BY <3>2, <3>3
  <2> QED
    BY <2>2, <2>3, <2>5, <2>6, ErrorsIs DEF DownFine, UpFine
\* Without a fault the caller had not completed the stream it writes to.
<1>11. ASSUME ~v.call.completed, v.inTable
       PROVE  /\ v.run.result = "running" /\ v.run.outStream = "closed" => v.run.closed
              /\ \A j \in DOMAIN v.up : v.up[j].oneofKind = "streamClose" => v.run.closed
  <2>1. v.run.result = "running" /\ v.run.outStream = "closed" => v.run.closed
    BY <1>11 DEF Good, Requests
  <2> QED
    BY <1>0, <1>11, <2>1 DEF UpFrame
<1>12. CASE SendsRequest(i, v, w, l)
  <2>1. PICK b \in Body :
          /\ w.call = IF v.call.completed THEN [v.call EXCEPT !.misused = TRUE]
                                      ELSE [v.call EXCEPT !.sent = Append(@, b)]
          /\ w.up = Sent(v.up, l.up, StreamSend(i, b))
    BY <1>12 DEF SendsRequest
  <2>2. StreamSend(i, b) \in Frame
    BY FrameFacts
  <2>3. /\ w.call.status = v.call.status /\ w.call.method = v.call.method
        /\ w.run = v.run /\ w.down = v.down /\ (w.inTable <=> v.inTable)
        /\ v.call.completed => w.call.misused
    BY <1>0, <1>12, <2>1 DEF SendsRequest, Made
  <2>4. ~Faulty(w) => ~v.call.completed
    BY <2>3 DEF Faulty
  <2>5. DownFine(v, l) => DownFine(w, l)
    BY <1>4, <2>3 DEF Over
  <2>6. v.inTable /\ ~v.call.completed /\ UpFine(v, l) => UpFine(w, l)
    BY <1>7, <1>11, <2>1, <2>2, <2>3
  <2> QED
    BY <1>1, <1>3, <2>3, <2>4, <2>5, <2>6
<1>13. StreamClose(i) \in Frame /\ StreamClose(i).oneofKind = "streamClose"
  BY FrameFacts
<1>14. CASE CompletesRequests(i, v, w, l)
  <2>1. /\ w.call.status = v.call.status /\ w.call.method = v.call.method
        /\ w.run = v.run /\ w.down = v.down /\ (w.inTable <=> v.inTable)
        /\ w.call.misused = v.call.completed /\ w.up = Sent(v.up, l.up, StreamClose(i))
    BY <1>0, <1>14 DEF CompletesRequests, Made
  <2>2. ~Faulty(w) => ~v.call.completed
    BY <2>1 DEF Faulty
  <2>3. DownFine(v, l) => DownFine(w, l)
    BY <1>4, <2>1 DEF Over
  <2>4. v.inTable /\ ~v.call.completed /\ UpFine(v, l) => UpFine(w, l)
    BY <1>7, <1>11, <1>13, <2>1
  <2> QED
    BY <1>1, <1>3, <2>1, <2>2, <2>3, <2>4
<1>15. CASE Ignores(v, w, l)
  BY <1>3, <1>15 DEF Ignores
<1>16. CASE Fails(v, w, l)
  <2>1. /\ v.inTable /\ ~w.inTable /\ l.client /\ v.down # <<>> /\ w.run = v.run
        /\ v.call.status = "pending"
    BY <1>0, <1>16 DEF Fails, Takes
  <2>2. 1 \in DOMAIN v.down /\ v.down \in Seq(Frame)
    BY <1>0, <2>1, SequenceFacts
  <2>3. DownFrame(v, 1)
    BY <1>0, <2>2
  <2>4. Faulty(v)
    <3>1. CASE v.down[1].oneofKind = "error"
      <4>1. ~Harmless(v.down)
        BY <2>2, <3>1 DEF Harmless
      <4> QED
        BY <1>1, <2>1, <4>1 DEF DownFine
    <3>2. CASE v.down[1].oneofKind \in {"callResponse", "streamRecv"} /\ v.down[1].body \in Malformed
      <4>1. PICK n \in Nat : n = Len(v.call.received)
        BY <1>0, <2>1 DEF Made
      <4>2. v.run.result # "none"
        BY <2>3, <3>2 DEF DownFrame
      <4>3. v.run.sent \in Seq(Body)
        BY <1>0, <4>2 DEF Run
      <4>4. Down(v.down, n, v.run.sent, l)
        BY <2>1, <4>1, ResponsesIs DEF Good
      <4>5. n + 1 <= Len(v.run.sent)
        BY <2>2, <3>2, <4>3, <4>4, DownFirst
      <4>6. v.down[1].body = v.run.sent[n + 1]
        BY <2>2, <3>2, <4>3, <4>4, DownFirst
      <4>7. n + 1 \in DOMAIN v.run.sent
        BY <4>3, <4>5
      <4> QED
        BY <3>2, <4>6, <4>7 DEF Faulty
    <3> QED
      BY <1>16, <2>3, <3>1, <3>2 DEF Fails, DownFrame
  <2> QED
    BY <1>2, <1>3, <2>1, <2>4
<1>17. CASE GetsResponse(v, w, l)
  BY <1>0, <1>3, <1>17 DEF GetsResponse, Made
<1>18. CASE GetsMessage(v, w, l)
  <2>1. /\ v.down # <<>> /\ w.down = Tail(v.down) /\ w.run = v.run /\ w.up = v.up
        /\ v.inTable /\ v.down[1].oneofKind = "streamRecv"
        /\ w.call.status = v.call.status /\ w.call.method = v.call.method
    BY <1>0, <1>18 DEF GetsMessage, Takes, Made
  <2>2. v.down[1].oneofKind \notin EndKind
    BY <2>1 DEF EndKind
  <2>3. DownFine(v, l) => DownFine(w, l)
    <3>1. Over(w) <=> Over(v)
      BY <2>1 DEF Over
    <3> QED
      BY <1>0, <2>1, <2>2, <3>1, HarmlessFacts DEF DownFine
  <2>4. UpFine(v, l) => UpFine(w, l)
    BY <1>5, <2>1
  <2> QED
    BY <1>1, <1>3, <2>1, <2>3, <2>4
<1>19. CASE GetsEnd(i, v, w, l)
  <2>1. v.down # <<>> /\ v.down[1].oneofKind = "streamClosed" /\ v.inTable
    BY <1>19 DEF GetsEnd, Takes
  <2>2. DownFrame(v, 1)
    BY <1>0, <2>1, SequenceFacts
  <2>3. ~w.inTable /\ w.call.status # "err"
    BY <1>0, <1>19, <2>1, <2>2 DEF GetsEnd, DownFrame, Made
  <2> QED
    BY <1>3, <2>3
<1>20. CASE Aborts(v, w, l)
  BY <1>3, <1>20 DEF Aborts
<1>21. CASE IsRefused(i, v, w, l)
  <2>1. PICK code \in ErrorCode : w.down = Sent(v.down, l.down, Error(i, code))
    BY <1>21 DEF IsRefused
  <2>2. Error(i, code) \in Frame /\ Error(i, code).oneofKind = "error"
    BY FrameFacts
  <2>3. /\ w.run = v.run /\ w.call = v.call /\ IsRead(v, w, l) /\ v.up # <<>> /\ l.server
        /\ (w.inTable <=> v.inTable) /\ (Over(w) <=> Over(v))
    BY <1>21 DEF IsRefused, IsRead, Over
  <2>4. 1 \in DOMAIN v.up /\ UpFrame(v, 1)
    BY <1>0, <2>3, SequenceFacts
  <2> DEFINE f == v.up[1]
  <2>5. ASSUME v.inTable, ~Faulty(v) PROVE Over(v)
    <3>1. /\ v.call \in Made /\ v.call.sent \in Seq(Body) /\ UpFine(v, l)
          /\ \A j \in DOMAIN v.call.sent : v.call.sent[j] \notin Malformed
          /\ v.call.method \in Service /\ v.run.result # "threw"
      BY <1>0, <1>1, <2>5 DEF Made, Faulty
    <3>2. f.oneofKind \notin CallKind
      <4>1. f.oneofKind = "call" => 1 \in DOMAIN v.call.sent /\ v.call.sent[1] = f.body
        BY <2>4 DEF UpFrame
      <4>2. f.oneofKind = "call" => f.body \notin Malformed
        BY <3>1, <4>1
      <4> QED
        BY <1>21, <2>4, <3>1, <4>2 DEF IsRefused, UpFrame, CallKind
    <3>3. f.oneofKind \in {"streamSend", "streamClose"} /\ v.call.method.clientStreaming
      BY <2>4, <3>2 DEF UpFrame
    <3>4. v.run.result # "none"
      BY <2>3, <3>1, <3>2 DEF UpFine
    <3>5. CASE v.run.result # "running"
      <4>1. v.run.result = "returned"
        BY <1>0, <3>1, <3>4, <3>5 DEF Run
      <4> QED
        BY <1>0, <4>1 DEF Over, Sides
    <3>6. CASE v.run.result = "running" /\ v.run.outStream # "open"
      <4>1. v.run.outStream = "closed"
        BY <1>0, <3>3, <3>4, <3>6 DEF Run, Sides
      <4>2. v.run.closed
        BY <2>3, <3>1, <3>6, <4>1 DEF UpFine
      <4> QED
        BY <1>0, <3>4, <4>2 DEF Over, Sides
    <3>7. CASE v.run.result = "running" /\ v.run.outStream = "open"
      <4>1. f.oneofKind = "streamSend" /\ f.body \in Malformed
        BY <1>21, <3>3, <3>7 DEF IsRefused
      <4>2. PICK d \in 0..Len(v.call.sent) : Stream(v, l, d, v.up)
        BY <2>3, <3>7 DEF Good, Requests
      <4>3. d \in Nat
        OBVIOUS
      <4>4. d + 1 <= Len(v.call.sent)
        BY <1>0, <2>4, <3>1, <4>1, <4>2, <4>3, StreamFirst
      <4>5. f.body = v.call.sent[d + 1]
        BY <1>0, <2>4, <3>1, <4>1, <4>2, <4>3, StreamFirst
      <4>6. d + 1 \in DOMAIN v.call.sent
        BY <3>1, <4>3, <4>4
      <4> QED
        BY <3>1, <4>1, <4>5, <4>6
    <3> QED
      BY <3>5, <3>6, <3>7
  <2>6. ASSUME v.inTable, ~Faulty(v) PROVE DownFine(w, l) /\ UpFine(w, l)
    <3>1. DownFine(v, l) /\ UpFine(v, l) /\ Over(v)
      BY <1>1, <2>5, <2>6
    <3>2. v.run.result # "none"
      BY <1>0, <3>1 DEF Over
    <3>3. DownFine(w, l)
      BY <1>6, <2>1, <2>2, <2>3, <3>1
    <3>4. UpFine(w, l)
      BY <1>8, <2>3, <3>1, <3>2
    <3> QED
      BY <3>3, <3>4
  <2> QED
    BY <1>3, <2>3, <2>6
<1>22. CASE IsStarted(i, v, w, l)
  <2>1. /\ w.down = v.down /\ w.call = v.call /\ IsRead(v, w, l) /\ (w.inTable <=> v.inTable)
        /\ w.run.result = "running" /\ ~w.run.closed /\ w.run.outStream # "closed"
        /\ v.up # <<>> /\ v.up[1].oneofKind \in CallKind
    BY <1>22 DEF IsStarted, IsRead
  <2>2. ~Over(w)
    BY <2>1 DEF Over
  <2>3. DownFine(v, l) => DownFine(w, l)
    BY <1>4, <2>1, <2>2
  <2>4. ~v.run.closed
    <3>1. UpFrame(v, 1)
      BY <1>0, <2>1, SequenceFacts
    <3> QED
      BY <1>0, <2>1, <3>1 DEF UpFrame
  <2>5. UpFine(v, l) => UpFine(w, l)
    BY <1>8, <2>1, <2>4
  <2> QED
    BY <1>1, <1>3, <2>1, <2>3, <2>5
<1>23. CASE IsHanded(v, w, l)
  <2>1. /\ w.down = v.down /\ w.call = v.call /\ IsRead(v, w, l) /\ (w.inTable <=> v.inTable)
        /\ w.run.result = v.run.result /\ w.run.closed = v.run.closed /\ v.run.result = "running"
        /\ v.up[1].oneofKind = "streamClose" \/ w.run.outStream = v.run.outStream
    BY <1>0, <1>23 DEF IsHanded, IsRead, Run
  <2>2. Over(w) <=> Over(v)
    BY <2>1 DEF Over
  <2>3. DownFine(v, l) => DownFine(w, l)
    BY <1>4, <2>1, <2>2
  <2>4. UpFine(v, l) => UpFine(w, l)
    BY <1>8, <2>1
  <2> QED
    BY <1>1, <1>3, <2>1, <2>3, <2>4
<1>24. ASSUME Handling(v, w), w.run.result # "none", v.run.closed => w.run.closed,
              w.run.result = "running" =>
                v.run.result = "running" /\ w.run.outStream = v.run.outStream,
              w.run.result # "threw" /\ DownFine(v, l) => DownFine(w, l)
       PROVE  Errors(w, l)
  <2>1. w.call = v.call /\ (w.inTable <=> v.inTable) /\ w.up = v.up
    BY <1>24 DEF Handling
  <2>2. UpFine(v, l) => UpFine(w, l)
    BY <1>5, <1>24, <2>1
  <2>3. ~Faulty(w) => w.run.result # "threw"
    BY DEF Faulty
  <2> QED
    BY <1>1, <1>3, <1>24, <2>1, <2>2, <2>3
<1>25. ASSUME v.run.result # "none" PROVE v.run \in Run /\ v.run.method = v.call.method
  BY <1>0, <1>25
<1>26. CASE SendsMessage(i, v, w, l)
  <2>1. PICK b \in Body :
          /\ w.run = [v.run EXCEPT !.sent = Append(@, b)]
          /\ w.down = Sent(v.down, l.down, StreamRecv(i, b))
    BY <1>26 DEF SendsMessage
  <2>2. StreamRecv(i, b) \in Frame /\ StreamRecv(i, b).oneofKind = "streamRecv"
    BY FrameFacts
  <2>3. /\ Handling(v, w) /\ v.call.method.serverStreaming /\ ~v.run.closed
        /\ w.run.closed = v.run.closed /\ w.run.result = v.run.result
        /\ w.run.outStream = v.run.outStream /\ v.run.result # "none" /\ w.call = v.call
    BY <1>25, <1>26, <2>1 DEF SendsMessage, Handling, Run
  <2>4. ~Over(w)
    BY <2>3 DEF Over
  <2>5. DownFine(v, l) => DownFine(w, l)
    BY <1>6, <2>1, <2>2, <2>4
  <2> QED
    BY <1>24, <2>3, <2>5
<1>27. StreamClosed(i) \in Frame /\ StreamClosed(i).oneofKind = "streamClosed"
  BY FrameFacts
<1>28. CASE CompletesResponses(i, v, w, l)
  <2>1. /\ Handling(v, w) /\ w.run.closed /\ w.run.result = v.run.result
        /\ w.run.outStream = v.run.outStream /\ v.run.result # "none"
        /\ w.down = Sent(v.down, l.down, StreamClosed(i))
    BY <1>25, <1>28 DEF CompletesResponses, Handling, Run
  <2>2. DownFine(v, l) => DownFine(w, l)
    BY <1>6, <1>27, <2>1 DEF EndKind
  <2> QED
    BY <1>24, <2>1, <2>2
<1>29. CASE Returns(i, v, w, l)
  <2>1. /\ Handling(v, w) /\ w.run.closed /\ w.run.result = "returned"
        /\ \/ w.down = Sent(v.down, l.down, StreamClosed(i))
           \/ w.down = Sent(Sent(v.down, l.down, StreamClosed(i)), l.down, StreamClosed(i))
    BY <1>25, <1>29 DEF Returns, Handling, Run
  <2>2. ASSUME DownFine(v, l) PROVE DownFine(w, l)
    <3> DEFINE once == Sent(v.down, l.down, StreamClosed(i))
    <3>1. once \in Seq(Frame)
      BY <1>0, <1>27, SentType
    <3>2. CASE ~l.down
      BY <2>1, <2>2, <3>2 DEF DownFine, Sent
    <3>3. CASE l.down
      <4>1. once = Append(v.down, StreamClosed(i))
        BY <3>3 DEF Sent
      <4>2. HasEnd(once) /\ (l.client => Harmless(once))
        BY <1>0, <1>27, <2>2, <4>1, HarmlessFacts DEF DownFine, EndKind
      <4> HIDE DEF once
      <4>3. CASE w.down = once
        BY <4>2, <4>3 DEF DownFine
      <4>4. CASE w.down = Sent(once, l.down, StreamClosed(i))
        <5>1. w.down = Append(once, StreamClosed(i))
          BY <3>3, <4>4 DEF Sent
        <5>2. HasEnd(w.down) /\ (l.client => Harmless(w.down))
          BY <1>27, <3>1, <4>2, <5>1, HarmlessFacts
        <5> QED
          BY <5>2 DEF DownFine
      <4> QED
        BY <2>1, <4>3, <4>4 DEF once
    <3> QED
      BY <3>2, <3>3
  <2> QED
    BY <1>24, <2>1, <2>2
<1>30. CASE Responds(i, v, w, l)
  <2>1. PICK b \in Body :
          /\ w.run = [v.run EXCEPT !.sent = Append(@, b), !.result = "returned",
                                  !.outStream = Closed(@)]
          /\ w.down = Sent(v.down, l.down, CallResponse(i, b))
    BY <1>30 DEF Responds
  <2>2. CallResponse(i, b) \in Frame /\ CallResponse(i, b).oneofKind = "callResponse"
    BY FrameFacts
  <2>3. Handling(v, w) /\ w.run.closed = v.run.closed /\ w.run.result = "returned"
    BY <1>25, <1>30, <2>1 DEF Responds, Handling, Run
  <2>4. DownFine(v, l) => DownFine(w, l)
    BY <1>6, <2>1, <2>2 DEF EndKind
  <2> QED
    BY <1>24, <2>3, <2>4
<1>31. CASE Throws(i, v, w, l)
  <2>1. Handling(v, w) /\ w.run.closed = v.run.closed /\ w.run.result = "threw"
    BY <1>25, <1>31 DEF Throws, Handling, Run
  <2> QED
    BY <1>24, <2>1
<1> QED
  BY <1>9, <1>10, <1>12, <1>14, <1>15, <1>16, <1>17, <1>18, <1>19, <1>20, <1>21, <1>22, <1>23,
     <1>26, <1>28, <1>29, <1>30, <1>31
  DEF Move

\* The line only ever gets worse, and what is true of a call on a line is true
\* of it on a worse one.
LEMMA GoodWeakens ==
  ASSUME NEW v, NEW k, NEW l, Good(v, k), Lowered(k, l)
  PROVE  Good(v, l)
<1>1. Responses(v, l)
  BY DEF Good, Lowered, Responses
<1>2. \A d, frames : Stream(v, k, d, frames) => Stream(v, l, d, frames)
  BY DEF Lowered, Stream
<1>3. Requests(v, l)
  BY <1>2 DEF Good, Lowered, Requests
<1>4. Errors(v, l)
  BY DEF Good, Lowered, Errors
<1> QED
  BY <1>1, <1>3, <1>4 DEF Good

\* A step of a call on a connection that does no more than before keeps the call
\* in order.
LEMMA GoodKept ==
  ASSUME NEW i \in CallIds, NEW v, NEW w, NEW k, NEW l,
         Good(v, k), Lowered(k, l), Move(i, v, w, l)
  PROVE  Good(v, l) /\ Good(w, l)
<1>1. Good(v, l)
  BY GoodWeakens
<1> QED
  BY <1>1, TypedKept, ShapeKept, ResponsesKept, RequestsKept, ErrorsKept DEF Good

-----------------------------------------------------------------------------
(* The contract.                                                            *)

\* A prefix is one to CallContract.
LEMMA PrefixOf ==
  ASSUME NEW i, NEW S, NEW s \in Seq(S), NEW t \in Seq(S), IsPrefix(s, t)
  PROVE  Contract(i)!Prefix(s, t)
<1>1. SubSeq(s, 1, Len(s)) = s
  BY SubSeqFull
<1> QED
  BY <1>1 DEF IsPrefix, Contract!Prefix

\* Malformed bodies are the same to CallContract.
LEMMA DecodableOf ==
  ASSUME NEW i, NEW s
  PROVE  Contract(i)!Decodable(s) = Decodable(s)
BY DEF Contract!Decodable, Contract!Without, Decodable, Without

\* A step of a call in order is a step of CallContract, or leaves its variables
\* alone.
LEMMA ContractKept ==
  ASSUME NEW i \in CallIds, NEW v, NEW w, NEW l, v = View(i), w = View(i)',
         Good(v, l), Good(w, l), Move(i, v, w, l),
         v.run.closed \in BOOLEAN, w.run.closed \in BOOLEAN
  PROVE  [Contract(i)!Next]_(Contract(i)!callVars)
<1> USE DEF Started, Running
<1>0. /\ v.call = CallOf(i) /\ w.call = CallOf(i)' /\ v.run = RunOf(i) /\ w.run = RunOf(i)'
  BY DEF View
<1>1. ASSUME w.call.status = v.call.status, w.call.sent = v.call.sent,
             w.call.received = v.call.received, w.run.result = v.run.result,
             w.run.requests = v.run.requests, w.run.sent = v.run.sent,
             w.run.closed = v.run.closed
      PROVE  UNCHANGED Contract(i)!callVars
  BY <1>0, <1>1 DEF Contract!callVars
<1>2. /\ v.up \in Seq(Frame) /\ v.down \in Seq(Frame)
      /\ v.call.status # "none" => v.call \in Made
      /\ w.call.status # "none" => w.call \in Made
      /\ v.run.result # "none" => v.run \in Run
      /\ w.run.result # "none" => w.run \in Run
      /\ v.call.status = "none" => v.call.sent = <<>> /\ v.call.received = <<>> /\ v.run.result = "none"
      /\ v.run.result = "none" => v.run.sent = <<>> /\ v.run.requests = <<>> /\ ~v.run.closed
      /\ v.inTable => v.call.status = "pending"
      /\ v.run.result # "none" => v.call.status \notin {"none", "threw"}
      /\ v.up # <<>> => v.call.status \notin {"none", "threw"}
      /\ \A j \in DOMAIN v.up : UpFrame(v, j)
  BY DEF Good, Typed, Shape, Blank
<1>3. /\ v.call.sent \in Seq(Body) /\ v.call.received \in Seq(Body)
      /\ v.run.sent \in Seq(Body) /\ v.run.requests \in Seq(Body)
  <2>1. <<>> \in Seq(Body)
    BY EmptySeq
  <2>2. v.call.sent \in Seq(Body) /\ v.call.received \in Seq(Body)
    BY <1>2, <2>1 DEF Made
  <2>3. v.run.sent \in Seq(Body) /\ v.run.requests \in Seq(Body)
    BY <1>2, <2>1 DEF Run
  <2> QED
    BY <2>2, <2>3
<1>4. ASSUME NEW s \in Seq(Body), NEW e \in Body
      PROVE  Len(Append(s, e)) = Len(s) + 1 /\ Contract(i)!Prefix(s, Append(s, e))
  <2>1. Append(s, e) \in Seq(Body) /\ Len(Append(s, e)) = Len(s) + 1
    BY AppendProperties
  <2>2. IsPrefix(s, Append(s, e))
    BY PrefixSelf, PrefixFacts
  <2> QED
    BY <2>1, <2>2, PrefixOf
<1>5. ASSUME NEW s \in Seq(Body) PROVE Len(s) <= Len(s) + 1 /\ Contract(i)!Prefix(s, s)
  <2>1. IsPrefix(s, s) /\ Len(s) \in Nat
    BY PrefixSelf
  <2> QED
    BY <2>1, PrefixOf
<1>6. CASE \/ Rests(v, w, l) \/ CompletesRequests(i, v, w, l) \/ Ignores(v, w, l)
           \/ IsRefused(i, v, w, l)
  <2>1. /\ w.call.status = v.call.status /\ w.call.sent = v.call.sent
        /\ w.call.received = v.call.received /\ w.run = v.run
    <3>1. CASE Rests(v, w, l) \/ Ignores(v, w, l) \/ IsRefused(i, v, w, l)
      BY <3>1 DEF Rests, Ignores, Takes, IsRefused, IsRead
    <3>2. CASE CompletesRequests(i, v, w, l)
      BY <1>2, <3>2 DEF CompletesRequests, Made
    <3> QED
      BY <1>6, <3>1, <3>2
  <2> QED
    BY <1>1, <2>1
<1>7. CASE IsMade(i, v, w, l)
  <2>1. PICK m \in Method, late \in BOOLEAN, status \in {"pending", "err", "threw"} :
          \E sent \in First(i, m) : w.call = NewCall(m, sent, late, status)
    BY <1>7 DEF IsMade
  <2>2. PICK sent \in First(i, m) : w.call = NewCall(m, sent, late, status)
    BY <2>1
  <2>3. Len(sent) <= 1
    <3>1. CASE m.clientStreaming
      BY <3>1, EmptySeq DEF First
    <3>2. CASE ~m.clientStreaming
      <4>1. PICK b \in {[call |-> i, n |-> 1]} \cup Malformed : sent = <<b>>
        BY <3>2 DEF First
      <4> QED
        BY <4>1
    <3> QED
      BY <3>1, <3>2
  <2>4. /\ v.call.status = "none" /\ w.call.status \in {"pending", "err", "threw"}
        /\ Len(w.call.sent) <= 1 /\ w.call.received = v.call.received /\ w.run = v.run
    BY <1>2, <1>7, <2>2, <2>3 DEF IsMade, NewCall
  <2>5. Contract(i)!MakeCall
    BY <1>0, <2>4 DEF Contract!MakeCall
  <2> QED
    BY <2>5 DEF Contract!Next
<1>8. CASE SendsRequest(i, v, w, l)
  <2>1. PICK b \in Body : w.call = IF v.call.completed THEN [v.call EXCEPT !.misused = TRUE]
                                   ELSE [v.call EXCEPT !.sent = Append(@, b)]
    BY <1>8 DEF SendsRequest
  <2>2. v.call.status \notin {"none", "threw"} /\ v.call \in Made /\ w.run = v.run
    BY <1>2, <1>8 DEF SendsRequest
  <2>3. CASE v.call.completed
    BY <1>1, <2>1, <2>2, <2>3 DEF Made
  <2>4. CASE ~v.call.completed
    <3>1. /\ w.call.status = v.call.status /\ w.call.received = v.call.received
          /\ w.call.sent = Append(v.call.sent, b) /\ v.call.status \in {"pending", "ok", "err"}
      BY <2>1, <2>2, <2>4 DEF Made
    <3>2. Len(w.call.sent) = Len(v.call.sent) + 1 /\ Contract(i)!Prefix(v.call.sent, w.call.sent)
      BY <1>3, <1>4, <3>1
    <3>3. Contract(i)!Write
      BY <1>0, <2>2, <3>1, <3>2 DEF Contract!Write
    <3> QED
      BY <3>3 DEF Contract!Next
  <2> QED
    BY <2>3, <2>4
<1>9. CASE Fails(v, w, l) \/ Aborts(v, w, l)
  <2>1. CASE w.call = v.call
    <3>1. w.run = v.run
      BY <1>9 DEF Fails, Takes, Aborts
    <3> QED
      BY <1>1, <2>1, <3>1
  <2>2. CASE w.call # v.call
    <3>1. v.inTable /\ w.call = [v.call EXCEPT !.status = "err"] /\ w.run = v.run
      BY <1>9, <2>2 DEF Fails, Takes, Aborts
    <3>2. v.call.status = "pending" /\ v.call \in Made
      BY <1>2, <3>1
    <3>3. /\ w.call.status = "err" /\ w.call.sent = v.call.sent
          /\ w.call.received = v.call.received
      BY <3>1, <3>2 DEF Made
    <3>4. Contract(i)!Fail
      BY <1>0, <3>1, <3>2, <3>3 DEF Contract!Fail
    <3> QED
      BY <3>4 DEF Contract!Next
  <2> QED
    BY <2>1, <2>2
<1>10. ASSUME v.call.status = "pending", w.call.status \in {"pending", "ok"},
              w.call.sent = v.call.sent, w.run = v.run,
              \/ w.call.received = v.call.received
              \/ \E b \in Body : w.call.received = Append(v.call.received, b)
       PROVE  Contract(i)!Next
  <2>1. w.call.received \in Seq(Body)
    <3>1. w.call \in Made
      BY <1>2, <1>10
    <3> QED
      BY <3>1 DEF Made
  <2>2. /\ IsPrefix(w.call.received, w.run.sent)
        /\ w.call.status = "ok" => Over(w) /\ w.call.received = w.run.sent
    BY DEF Good, Responses
  <2>3. Contract(i)!Prefix(w.call.received, v.run.sent)
    BY <1>3, <1>10, <2>1, <2>2, PrefixOf
  <2>4. /\ Len(w.call.received) <= Len(v.call.received) + 1
        /\ Contract(i)!Prefix(v.call.received, w.call.received)
    <3>1. CASE w.call.received = v.call.received
      BY <1>3, <1>5, <3>1
    <3>2. CASE \E b \in Body : w.call.received = Append(v.call.received, b)
      <4>1. PICK b \in Body : w.call.received = Append(v.call.received, b)
        BY <3>2
      <4>2. /\ Len(w.call.received) = Len(v.call.received) + 1
            /\ Contract(i)!Prefix(v.call.received, w.call.received)
        BY <1>3, <1>4, <4>1
      <4>3. Len(v.call.received) \in Nat
        BY <1>3
      <4> QED
        BY <4>2, <4>3
    <3> QED
      BY <1>10, <3>1, <3>2
  <2>5. w.call.status = "ok" => v.run.closed \/ v.run.result = "returned"
    BY <1>10, <2>2 DEF Over
  <2>6. Contract(i)!GetResponse
    BY <1>0, <1>10, <2>2, <2>3, <2>4, <2>5 DEF Contract!GetResponse
  <2> QED
    BY <2>6 DEF Contract!Next
<1>11. CASE GetsResponse(v, w, l) \/ GetsMessage(v, w, l)
  <2>1. /\ v.inTable /\ w.run = v.run /\ v.down # <<>>
        /\ v.down[1].oneofKind \in {"callResponse", "streamRecv"}
        /\ \/ w.call = [v.call EXCEPT !.status = "ok", !.received = Append(@, v.down[1].body)]
           \/ w.call = [v.call EXCEPT !.received = Append(@, v.down[1].body)]
    BY <1>11 DEF GetsResponse, GetsMessage, Takes
  <2>2. v.call.status = "pending" /\ v.call \in Made
    BY <1>2, <2>1
  <2>3. v.down[1].body \in Body
    <3>1. v.down[1] \in Frame
      BY <1>2, <2>1, SequenceFacts
    <3> QED
      BY <2>1, <3>1, FrameContents
  <2>4. /\ w.call.status \in {"pending", "ok"} /\ w.call.sent = v.call.sent
        /\ w.call.received = Append(v.call.received, v.down[1].body)
    BY <2>1, <2>2 DEF Made
  <2> QED
    BY <1>10, <2>1, <2>2, <2>3, <2>4
<1>12. CASE GetsEnd(i, v, w, l)
  <2>1. /\ v.inTable /\ w.run = v.run
        /\ w.call = v.call \/ w.call = [v.call EXCEPT !.status = "ok"]
    BY <1>12 DEF GetsEnd, Takes
  <2>2. v.call.status = "pending" /\ v.call \in Made
    BY <1>2, <2>1
  <2>3. /\ w.call.status \in {"pending", "ok"} /\ w.call.sent = v.call.sent
        /\ w.call.received = v.call.received
    BY <2>1, <2>2 DEF Made
  <2> QED
    BY <1>10, <2>1, <2>2, <2>3
<1>13. ASSUME w.call = v.call, w.run.result # "none"
       PROVE  Contract(i)!Prefix(w.run.requests, Contract(i)!Decodable(v.call.sent))
  <2>1. IsPrefix(w.run.requests, Decodable(v.call.sent))
    BY <1>13 DEF Good, Requests
  <2>2. Decodable(v.call.sent) \in Seq(Body) /\ w.run.requests \in Seq(Body)
    BY <1>2, <1>3, <1>13, WithoutType DEF Decodable, Run
  <2> QED
    BY <2>1, <2>2, PrefixOf, DecodableOf
<1>14. CASE IsStarted(i, v, w, l)
  <2>1. /\ v.up # <<>> /\ w.call = v.call
        /\ v.up[1].oneofKind \in CallKind
        /\ w.run.sent = <<>> /\ ~w.run.closed /\ w.run.result = "running"
    BY <1>14 DEF IsStarted, IsRead
  <2>2. UpFrame(v, 1)
    <3>1. 1 \in DOMAIN v.up
      BY <1>2, <2>1, SequenceFacts
    <3> QED
      BY <1>2, <3>1
  <2>3. v.run.result = "none"
    BY <2>1, <2>2 DEF UpFrame
  <2>4. /\ v.run.sent = <<>> /\ ~v.run.closed
        /\ v.call.status \notin {"none", "threw"}
    BY <1>2, <2>1, <2>3
  <2>5. w.run.closed = v.run.closed
    BY <2>1, <2>4
  <2>6. Contract(i)!Prefix(w.run.requests, Contract(i)!Decodable(v.call.sent))
    BY <1>13, <2>1
  <2>7. Contract(i)!Start
    BY <1>0, <2>1, <2>3, <2>4, <2>5, <2>6 DEF Contract!Start
  <2> QED
    BY <2>7 DEF Contract!Next
<1>15. CASE IsHanded(v, w, l)
  <2>1. v.run \in Run /\ v.run.result # "none" /\ v.up # <<>> /\ w.call = v.call
    BY <1>2, <1>15 DEF IsHanded, IsRead
  <2>2. CASE /\ v.up[1].oneofKind = "streamSend"
             /\ w.run = [v.run EXCEPT !.requests = Append(@, v.up[1].body)]
    <3>1. v.up[1].body \in Body
      <4>1. v.up[1] \in Frame
        BY <1>2, <2>1, SequenceFacts
      <4> QED
        BY <2>2, <4>1, FrameContents
    <3>2. /\ w.run.requests = Append(v.run.requests, v.up[1].body)
          /\ w.run.result = v.run.result /\ w.run.sent = v.run.sent
          /\ w.run.closed = v.run.closed
      BY <2>1, <2>2 DEF Run
    <3>3. /\ Len(w.run.requests) = Len(v.run.requests) + 1
          /\ Contract(i)!Prefix(v.run.requests, w.run.requests)
      BY <1>3, <1>4, <3>1, <3>2
    <3>4. Contract(i)!Prefix(w.run.requests, Contract(i)!Decodable(v.call.sent))
      BY <1>13, <2>1, <3>2
    <3>5. Contract(i)!GetRequest
      BY <1>0, <2>1, <3>2, <3>3, <3>4 DEF Contract!GetRequest
    <3> QED
      BY <3>5 DEF Contract!Next
  <2>3. CASE \/ w.run = [v.run EXCEPT !.outStream = "closed"]
             \/ w.run = [v.run EXCEPT !.abort = TRUE]
    <3>1. /\ w.run.requests = v.run.requests /\ w.run.result = v.run.result
          /\ w.run.sent = v.run.sent /\ w.run.closed = v.run.closed
      BY <2>1, <2>3 DEF Run
    <3> QED
      BY <1>1, <2>1, <3>1
  <2> QED
    BY <1>15, <2>2, <2>3 DEF IsHanded
<1>16. ASSUME w.call = v.call, v.run.result # "none", w.run.result # "none",
              v.run.result # "running" => w.run.result = v.run.result,
              w.run.requests = v.run.requests,
              \/ w.run.sent = v.run.sent
              \/ ~v.run.closed /\ \E b \in Body : w.run.sent = Append(v.run.sent, b),
              v.run.closed => w.run.closed
       PROVE  Contract(i)!Next
  <2>1. /\ Len(w.run.sent) <= Len(v.run.sent) + 1
        /\ Contract(i)!Prefix(v.run.sent, w.run.sent)
    <3>1. CASE w.run.sent = v.run.sent
      BY <1>3, <1>5, <3>1
    <3>2. CASE \E b \in Body : w.run.sent = Append(v.run.sent, b)
      <4>1. PICK b \in Body : w.run.sent = Append(v.run.sent, b)
        BY <3>2
      <4>2. /\ Len(w.run.sent) = Len(v.run.sent) + 1
            /\ Contract(i)!Prefix(v.run.sent, w.run.sent)
        BY <1>3, <1>4, <4>1
      <4>3. Len(v.run.sent) \in Nat
        BY <1>3
      <4> QED
        BY <4>2, <4>3
    <3> QED
      BY <1>16, <3>1, <3>2
  <2>2. v.run.closed => w.run.closed /\ w.run.sent = v.run.sent
    BY <1>16
  <2>3. Contract(i)!Respond
    BY <1>0, <1>16, <2>1, <2>2 DEF Contract!Respond
  <2> QED
    BY <2>3 DEF Contract!Next
<1>17. CASE SendsMessage(i, v, w, l)
  <2>1. PICK b \in Body : w.run = [v.run EXCEPT !.sent = Append(@, b)]
    BY <1>17 DEF SendsMessage
  <2>2. v.run \in Run /\ v.run.result # "none" /\ w.call = v.call /\ ~v.run.closed
    BY <1>2, <1>17 DEF SendsMessage, Handling
  <2>3. /\ w.run.sent = Append(v.run.sent, b) /\ w.run.result = v.run.result
        /\ w.run.requests = v.run.requests
    BY <2>1, <2>2 DEF Run
  <2> QED
    BY <1>16, <2>2, <2>3
<1>18. CASE CompletesResponses(i, v, w, l) \/ Returns(i, v, w, l)
  <2>1. v.run \in Run /\ v.run.result # "none" /\ w.call = v.call
    BY <1>2, <1>18 DEF CompletesResponses, Returns, Handling
  <2>2. \/ w.run = [v.run EXCEPT !.closed = TRUE]
        \/ /\ v.run.result = "running"
           /\ w.run = [v.run EXCEPT !.closed = TRUE, !.result = "returned", !.outStream = Closed(@)]
    BY <1>18 DEF CompletesResponses, Returns
  <2>3. /\ w.run.closed /\ w.run.sent = v.run.sent /\ w.run.requests = v.run.requests
        /\ w.run.result # "none" /\ (v.run.result # "running" => w.run.result = v.run.result)
    BY <2>1, <2>2 DEF Run
  <2> QED
    BY <1>16, <2>1, <2>3
<1>19. CASE Responds(i, v, w, l)
  <2>1. PICK b \in Body : w.run = [v.run EXCEPT !.sent = Append(@, b), !.result = "returned",
                                               !.outStream = Closed(@)]
    BY <1>19 DEF Responds
  <2>2. /\ v.run \in Run /\ v.run.result = "running" /\ w.call = v.call
        /\ ~v.run.method.serverStreaming
    BY <1>2, <1>19 DEF Responds, Handling
  <2>3. ~v.run.closed
    BY <2>2 DEF Good, Shape
  <2>4. /\ w.run.sent = Append(v.run.sent, b) /\ w.run.requests = v.run.requests
        /\ w.run.result = "returned"
    BY <2>1, <2>2 DEF Run
  <2> QED
    BY <1>16, <2>2, <2>3, <2>4
<1>20. CASE Throws(i, v, w, l)
  <2>1. v.run \in Run /\ v.run.result = "running" /\ w.call = v.call
    BY <1>2, <1>20 DEF Throws, Handling
  <2>2. \/ w.run = [v.run EXCEPT !.result = "threw", !.outStream = Closed(@)]
        \/ w.run = [v.run EXCEPT !.result = "threw"]
    BY <1>20 DEF Throws
  <2>3. /\ w.run.closed = v.run.closed /\ w.run.sent = v.run.sent
        /\ w.run.requests = v.run.requests /\ w.run.result = "threw"
    BY <2>1, <2>2 DEF Run
  <2> QED
    BY <1>16, <2>1, <2>3
<1> QED
  BY <1>6, <1>7, <1>8, <1>9, <1>11, <1>12, <1>14, <1>15, <1>17, <1>18, <1>19, <1>20 DEF Move

-----------------------------------------------------------------------------
(* All calls.                                                               *)

IsCall(f) == f.oneofKind \in {"call", "callClientStream"}

\* The calls on their way to the server.
OnWire(i, j) ==
  j \in DOMAIN wire["server"] /\ IsCall(wire["server"][j]) /\ wire["server"][j].id = i

\* A call frame is alone, has no handler yet, and the client made the call.
CallsOnce ==
  \A i \in CallIds :
    /\ \A j, k \in DOMAIN wire["server"] : OnWire(i, j) /\ OnWire(i, k) => j = k
    /\ \A j \in DOMAIN wire["server"] : OnWire(i, j) => RunsOf(i) = {} /\ i < next
    /\ RunsOf(i) # {} => i < next

\* Hence an ID has one handler.
OneRun == \A i \in CallIds : \A r, s \in RunsOf(i) : r = s

ClientTypes == ClientTypeOK /\ DOMAIN made \subseteq CallIds

Types == ClientTypes /\ ServerTypes

IInv == Types /\ PendingIsReachable /\ CallsOnce /\ OneRun /\ TableHoldsRunning

-----------------------------------------------------------------------------
(* The client.                                                              *)

\* What a step of the client adds to the wire: nothing, or a frame that is
\* no call, or one that calls the next ID.
Adds ==
  \/ wire'["server"] = wire["server"]
  \/ \E f \in Message :
       /\ wire'["server"] = Append(wire["server"], f)
       /\ IsCall(f) => f.id = next /\ next' = next + 1

LEMMA ClientPush ==
  ASSUME NEW w \in [Ends -> Seq(Message)], NEW f \in Message
  PROVE  /\ Push(w, "client", f) \in [Ends -> Seq(Message)]
         /\ \/ Push(w, "client", f)["server"] = w["server"]
            \/ Push(w, "client", f)["server"] = Append(w["server"], f)
<1>1. Append(w["server"], f) \in Seq(Message)
  BY DEF Ends
<1> QED
  BY <1>1 DEF Push, Ends, Peer

\* The frames of the client are messages.
LEMMA RequestFrames ==
  ASSUME NEW i \in CallIds
  PROVE  /\ \A m \in Method, b \in Body : Call(i, m, b) \in Message
         /\ \A m \in Method : CallClientStream(i, m) \in Message
         /\ \A b \in Body : StreamSend(i, b) \in Message /\ ~IsCall(StreamSend(i, b))
         /\ StreamClose(i) \in Message /\ ~IsCall(StreamClose(i))
         /\ \A m, b : Call(i, m, b).id = i /\ CallClientStream(i, m).id = i
<1>1. i \in Nat
  BY RpcAssumption
<1>2. ASSUME NEW m \in Method, NEW b \in Body PROVE Call(i, m, b) \in Message
  BY <1>1 DEF Message, ClientMessage, Call
<1>3. ASSUME NEW m \in Method PROVE CallClientStream(i, m) \in Message
  BY <1>1 DEF Message, ClientMessage, CallClientStream
<1>4. ASSUME NEW b \in Body PROVE StreamSend(i, b) \in Message /\ ~IsCall(StreamSend(i, b))
  BY <1>1 DEF Message, ClientMessage, StreamSend, IsCall
<1>5. StreamClose(i) \in Message /\ ~IsCall(StreamClose(i))
  BY <1>1 DEF Message, ClientMessage, StreamClose, IsCall
<1>6. \A m, b : Call(i, m, b).id = i /\ CallClientStream(i, m).id = i
  BY DEF Call, CallClientStream
<1> QED
  BY <1>2, <1>3, <1>4, <1>5, <1>6

\* What the caller sends with a new call.
LEMMA FirstTypes ==
  ASSUME NEW i \in CallIds, NEW m \in Method, NEW sent \in First(i, m)
  PROVE  /\ sent \in Seq(Body)
         /\ ~m.clientStreaming => sent[1] \in Body
<1>1. [call |-> i, n |-> 1] \in Body /\ \A b \in Malformed : b \in Body
  BY RpcAssumption DEF Body
<1>2. CASE m.clientStreaming
  BY <1>2, EmptySeq DEF First
<1>3. CASE ~m.clientStreaming
  <2>1. PICK b \in {[call |-> i, n |-> 1]} \cup Malformed : sent = <<b>>
    BY <1>3 DEF First
  <2>2. b \in Body
    BY <1>1, <2>1
  <2> QED
    BY <2>1, <2>2
<1> QED
  BY <1>2, <1>3

\* A call in the table is replaced.
LEMMA ReplaceMade ==
  ASSUME ClientTypes, NEW i \in DOMAIN made, NEW m \in Made
  PROVE  /\ [made EXCEPT ![i] = m] \in [0..(next - 1) -> Made]
         /\ DOMAIN [made EXCEPT ![i] = m] = DOMAIN made
         /\ \A k \in DOMAIN made : [made EXCEPT ![i] = m][k] = IF k = i THEN m ELSE made[k]
  BY DEF ClientTypes, ClientTypeOK

\* A caller makes a call.
LEMMA MakesStep ==
  ASSUME ClientTypes, SocketTypeOK(Message), PendingIsReachable, ClientMakes
  PROVE  /\ ClientTypes' /\ SocketTypeOK(Message)' /\ PendingIsReachable'
         /\ Adds /\ next <= next'
<1>1. /\ next \in CallIds /\ next \in Nat /\ next' = next + 1 /\ UNCHANGED <<fin, ready>>
      /\ made \in [0..(next - 1) -> Made] /\ clientCalls \subseteq 0..(next - 1)
      /\ wire \in [Ends -> Seq(Message)]
  BY DEF ClientMakes, ClientTypes, ClientTypeOK, SocketTypeOK
<1>2. PICK m \in Called[next] : Make(m)
  BY DEF ClientMakes
<1>3. m \in Method
  BY <1>1, CallerAssumption
<1>4. PICK sent \in First(next, m), status \in {"pending", "threw"} :
        /\ made' = [i \in 0..next |->
                      IF i < next THEN made[i]
                      ELSE NewCall(m, sent, ready["client"] = "closed", status)]
        /\ IF status = "pending"
             THEN /\ clientCalls' = clientCalls \cup {next}
                  /\ wire' = Push(wire, "client", IF m.clientStreaming
                                                    THEN CallClientStream(next, m)
                                                    ELSE Call(next, m, sent[1]))
             ELSE UNCHANGED <<clientCalls, wire>>
  BY <1>2 DEF Make
<1>5. NewCall(m, sent, ready["client"] = "closed", status) \in Made
  BY <1>1, <1>3, <1>4, FirstTypes, EmptySeq DEF NewCall, Made
<1>6. /\ made' \in [0..next -> Made] /\ DOMAIN made' = 0..next
      /\ \A i \in 0..next : i < next => made'[i] = made[i]
      /\ made'[next].status = status /\ made'[next].late = (ready["client"] = "closed")
  BY <1>1, <1>4, <1>5 DEF NewCall
<1>7. /\ SocketTypeOK(Message)' /\ Adds
      /\ clientCalls' \subseteq 0..next /\ clientCalls \subseteq clientCalls'
      /\ status = "pending" => next \in clientCalls'
  <2>1. CASE status = "pending"
    <3>1. /\ m.clientStreaming => CallClientStream(next, m) \in Message
          /\ ~m.clientStreaming => Call(next, m, sent[1]) \in Message
      BY <1>1, <1>3, <1>4, FirstTypes, RequestFrames
    <3>2. PICK f \in Message : f.id = next /\ wire' = Push(wire, "client", f)
      <4>1. CASE m.clientStreaming
        BY <1>1, <1>3, <1>4, <2>1, <3>1, <4>1 DEF CallClientStream
      <4>2. CASE ~m.clientStreaming
        BY <1>1, <1>3, <1>4, <2>1, <3>1, <4>2 DEF Call
      <4> QED
        BY <4>1, <4>2
    <3>3. SocketTypeOK(Message)' /\ Adds
      BY <1>1, <3>2, ClientPush DEF SocketTypeOK, Adds
    <3>4. clientCalls' = clientCalls \cup {next}
      BY <1>4, <2>1
    <3>5. clientCalls' \subseteq 0..next
      <4>1. 0..(next - 1) \subseteq 0..next /\ next \in 0..next
        BY <1>1
      <4> QED
        BY <1>1, <3>4, <4>1
    <3> QED
      BY <3>3, <3>4, <3>5
  <2>2. CASE status = "threw"
    BY <1>1, <1>4, <2>2 DEF SocketTypeOK, Adds
  <2> QED
    BY <1>4, <2>1, <2>2
<1>8. ClientTypes'
  <2>1. 0..(next' - 1) = 0..next /\ 0..(next - 1) \subseteq CallIds
    BY <1>1 DEF ClientTypes
  <2> QED
    BY <1>1, <1>6, <1>7, <2>1 DEF ClientTypes, ClientTypeOK
<1>9. PendingIsReachable'
  <2> SUFFICES ASSUME NEW i \in 0..next, made'[i].status = "pending"
               PROVE  i \in clientCalls' /\ (ready["client"] = "closed" => made'[i].late)
    BY <1>1, <1>6 DEF PendingIsReachable
  <2>1. CASE i = next
    BY <1>6, <1>7, <2>1
  <2>2. CASE i # next
    <3>1. i \in DOMAIN made /\ i < next
      BY <1>1, <2>2
    <3> QED
      BY <1>6, <1>7, <3>1 DEF PendingIsReachable
  <2> QED
    BY <2>1, <2>2
<1> QED
  BY <1>1, <1>7, <1>8, <1>9

\* A caller uses its request stream.
LEMMA StreamStep ==
  ASSUME ClientTypes, SocketTypeOK(Message), PendingIsReachable, NEW i \in DOMAIN made,
         ClientStreamSends(i) \/ ClientStreamCompletes(i)
  PROVE  /\ ClientTypes' /\ SocketTypeOK(Message)' /\ PendingIsReachable'
         /\ Adds /\ next' = next
<1>1. /\ i \in CallIds /\ i \in Nat /\ made[i] \in Made /\ wire \in [Ends -> Seq(Message)]
      /\ UNCHANGED <<next, clientCalls, fin, ready>>
  BY RpcAssumption
  DEF ClientTypes, ClientTypeOK, SocketTypeOK, ClientStreamSends, ClientStreamCompletes
<1>2. ASSUME NEW m \in Made, m.status = made[i].status, m.late = made[i].late,
             made' = [made EXCEPT ![i] = m]
      PROVE  ClientTypes' /\ PendingIsReachable'
  <2>1. /\ made' \in [0..(next - 1) -> Made] /\ DOMAIN made' = DOMAIN made
        /\ \A k \in DOMAIN made : made'[k] = IF k = i THEN m ELSE made[k]
    BY <1>2, ReplaceMade
  <2> QED
    BY <1>1, <1>2, <2>1 DEF ClientTypes, ClientTypeOK, PendingIsReachable
<1>3. ASSUME NEW f \in Message, ~IsCall(f), wire' = Push(wire, "client", f)
      PROVE  SocketTypeOK(Message)' /\ Adds
  BY <1>1, <1>3, ClientPush DEF SocketTypeOK, Adds
<1>4. CASE ClientStreamSends(i)
  <2>1. PICK b \in {[call |-> i, n |-> Len(made[i].sent) + 1]} \cup Malformed :
          /\ made' = IF made[i].completed
                       THEN [made EXCEPT ![i].misused = TRUE]
                       ELSE [made EXCEPT ![i].sent = Append(@, b)]
          /\ wire' = Push(wire, "client", StreamSend(i, b))
    BY <1>4 DEF ClientStreamSends
  <2>2. b \in Body
    <3>1. Len(made[i].sent) + 1 \in Nat
      BY <1>1 DEF Made
    <3> QED
      BY <1>1, <2>1, <3>1 DEF Body
  <2>3. ClientTypes' /\ PendingIsReachable'
    <3>1. CASE made[i].completed
      <4> DEFINE m == [made[i] EXCEPT !.misused = TRUE]
      <4>1. m \in Made /\ m.status = made[i].status /\ m.late = made[i].late
        BY <1>1 DEF Made
      <4>2. made' = [made EXCEPT ![i] = m]
        BY <2>1, <3>1
      <4> QED
        BY <1>2, <4>1, <4>2
    <3>2. CASE ~made[i].completed
      <4> DEFINE m == [made[i] EXCEPT !.sent = Append(@, b)]
      <4>1. Append(made[i].sent, b) \in Seq(Body)
        BY <1>1, <2>2, AppendProperties DEF Made
      <4>2. m \in Made /\ m.status = made[i].status /\ m.late = made[i].late
        BY <1>1, <4>1 DEF Made
      <4>3. made' = [made EXCEPT ![i] = m]
        BY <2>1, <3>2
      <4> QED
        BY <1>2, <4>2, <4>3
    <3> QED
      BY <3>1, <3>2
  <2> QED
    BY <1>1, <1>3, <2>1, <2>2, <2>3, RequestFrames
<1>5. CASE ClientStreamCompletes(i)
  <2> DEFINE m == [made[i] EXCEPT !.completed = TRUE, !.misused = made[i].completed]
  <2>1. m \in Made /\ m.status = made[i].status /\ m.late = made[i].late
    BY <1>1 DEF Made
  <2>2. made' = [made EXCEPT ![i] = m] /\ wire' = Push(wire, "client", StreamClose(i))
    BY <1>5 DEF ClientStreamCompletes
  <2> QED
    BY <1>1, <1>2, <1>3, <2>1, <2>2, RequestFrames
<1> QED
  BY <1>4, <1>5

\* What is on the client's side of the wire when a message arrives.
LEMMA Receipt ==
  ASSUME SocketTypeOK(Message), Deliverable("client")
  PROVE  /\ Received \in Message /\ Received.id \in CallIds
         /\ Pop(wire, "client") \in [Ends -> Seq(Message)]
         /\ Pop(wire, "client")["server"] = wire["server"]
<1>1. "client" \in Ends /\ wire \in [Ends -> Seq(Message)] /\ wire["client"] # <<>>
  BY DEF Ends, Deliverable, SocketTypeOK
<1>2. Received \in Message /\ Pop(wire, "client") \in [Ends -> Seq(Message)]
  BY <1>1, PopFacts DEF Received
<1>3. Pop(wire, "client")["server"] = wire["server"]
  BY <1>1 DEF Pop, Ends
<1> QED
  BY <1>2, <1>3, Contents

\* The client takes a frame.
LEMMA HandlesStep ==
  ASSUME ClientTypes, SocketTypeOK(Message), PendingIsReachable, ClientHandles
  PROVE  /\ ClientTypes' /\ SocketTypeOK(Message)' /\ PendingIsReachable'
         /\ Adds /\ next' = next
<1>0. Deliverable("client") /\ UNCHANGED <<next, fin, ready>>
  BY DEF ClientHandles, ClientIgnores, ClientError, ClientResponse, ClientStreamRecv,
         ClientStreamClosed, Receives, Take
<1>1. /\ Received \in Message /\ Pop(wire, "client") \in [Ends -> Seq(Message)]
      /\ Pop(wire, "client")["server"] = wire["server"]
  BY <1>0, Receipt
<1>2. PICK i \in CallIds : i = Received.id
  BY <1>0, Receipt
<1>3. Take => SocketTypeOK(Message)' /\ Adds
  BY <1>0, <1>1 DEF Take, SocketTypeOK, Adds
<1>4. i \in clientCalls => i \in DOMAIN made /\ made[i] \in Made
  BY DEF ClientTypes, ClientTypeOK
<1>5. ASSUME i \in clientCalls, NEW m \in Made, made' = [made EXCEPT ![i] = m],
             \/ m.status = made[i].status /\ m.late = made[i].late /\ clientCalls' = clientCalls
             \/ m.status # "pending" /\ clientCalls' = clientCalls \ {i}
      PROVE  ClientTypes' /\ PendingIsReachable'
  <2>1. /\ made' \in [0..(next - 1) -> Made] /\ DOMAIN made' = DOMAIN made
        /\ \A k \in DOMAIN made : made'[k] = IF k = i THEN m ELSE made[k]
    BY <1>4, <1>5, ReplaceMade
  <2> QED
    BY <1>0, <1>5, <2>1 DEF ClientTypes, ClientTypeOK, PendingIsReachable
<1>6. ASSUME i \in clientCalls, NEW status \in {"ok", "err"}, NEW received \in Seq(Body),
             Settle(i, status, received)
      PROVE  ClientTypes' /\ PendingIsReachable'
  <2> DEFINE m == [made[i] EXCEPT !.status = status, !.received = received]
  <2>1. m \in Made /\ m.status # "pending"
    BY <1>4, <1>6 DEF Made
  <2>2. CASE Pending(i)
    <3>1. made' = [made EXCEPT ![i] = m] /\ clientCalls' = clientCalls \ {i}
      BY <1>6, <2>2 DEF Settle
    <3> QED
      BY <1>5, <1>6, <2>1, <3>1
  <2>3. CASE ~Pending(i)
    <3>1. made' = made /\ clientCalls' = clientCalls \ {i}
      BY <1>6, <2>3 DEF Settle
    <3> QED
      BY <1>0, <2>3, <3>1 DEF ClientTypes, ClientTypeOK, PendingIsReachable, Pending
  <2> QED
    BY <2>2, <2>3
<1>7. i \in clientCalls => made[i].received \in Seq(Body)
  BY <1>4 DEF Made
<1>8. i \in clientCalls /\ Received.oneofKind \in {"callResponse", "streamRecv"} => Got \in Seq(Body)
  <2> SUFFICES ASSUME i \in clientCalls, Received.oneofKind \in {"callResponse", "streamRecv"}
               PROVE  Got \in Seq(Body)
    OBVIOUS
  <2>1. Received.body \in Body
    BY <1>1 DEF Message, ClientMessage, ServerMessage
  <2> QED
    BY <1>2, <1>7, <2>1, AppendProperties DEF Got
<1>9. UNCHANGED <<made, clientCalls>> => ClientTypes' /\ PendingIsReachable'
  BY <1>0 DEF ClientTypes, ClientTypeOK, PendingIsReachable
<1>10. CASE ClientIgnores
  BY <1>0, <1>3, <1>9, <1>10 DEF ClientIgnores
<1>11. CASE ClientError
  BY <1>0, <1>2, <1>3, <1>6, <1>7, <1>11 DEF ClientError, Receives
<1>12. CASE ClientResponse
  BY <1>0, <1>2, <1>3, <1>6, <1>8, <1>12 DEF ClientResponse, Receives
<1>13. CASE ClientStreamRecv
  <2> DEFINE m == [made[i] EXCEPT !.received = Got]
  <2>1. i \in clientCalls /\ Got \in Seq(Body)
    BY <1>2, <1>8, <1>13 DEF ClientStreamRecv, Receives
  <2>2. m \in Made /\ m.status = made[i].status /\ m.late = made[i].late
    BY <1>4, <2>1 DEF Made
  <2>3. /\ made' = IF Pending(i) THEN [made EXCEPT ![i] = m] ELSE made
        /\ clientCalls' = clientCalls /\ Take
    BY <1>2, <1>13 DEF ClientStreamRecv
  <2> QED
    BY <1>0, <1>3, <1>5, <1>9, <2>1, <2>2, <2>3
<1>14. CASE ClientStreamClosed
  <2>1. /\ i \in clientCalls
        /\ wire' = IF made[i].method.clientStreaming
                     THEN Push(Pop(wire, "client"), "client", StreamClose(i))
                     ELSE Pop(wire, "client")
        /\ IF made[i].method.serverStreaming
             THEN Settle(i, "ok", made[i].received)
             ELSE UNCHANGED <<made, clientCalls>>
    BY <1>2, <1>14 DEF ClientStreamClosed, Receives
  <2>2. ClientTypes' /\ PendingIsReachable'
    BY <1>6, <1>7, <1>9, <2>1
  <2>3. SocketTypeOK(Message)' /\ Adds
    <3>1. CASE made[i].method.clientStreaming
      <4>1. StreamClose(i) \in Message /\ ~IsCall(StreamClose(i))
        BY RequestFrames
      <4>2. /\ wire' \in [Ends -> Seq(Message)]
            /\ \/ wire'["server"] = wire["server"]
               \/ wire'["server"] = Append(wire["server"], StreamClose(i))
        BY <1>1, <2>1, <3>1, <4>1, ClientPush
      <4> QED
        BY <1>0, <4>1, <4>2 DEF SocketTypeOK, Adds
    <3>2. CASE ~made[i].method.clientStreaming
      BY <1>0, <1>1, <2>1, <3>2 DEF SocketTypeOK, Adds
    <3> QED
      BY <3>1, <3>2
  <2> QED
    BY <1>0, <2>2, <2>3
<1> QED
  BY <1>10, <1>11, <1>12, <1>13, <1>14 DEF ClientHandles

\* The close event: no call is left pending, those the callbacks make either.
LEMMA CloseStep ==
  ASSUME ClientTypes, SocketTypeOK(Message), PendingIsReachable, ClientOnClose
  PROVE  /\ ClientTypes' /\ SocketTypeOK(Message)' /\ PendingIsReachable'
         /\ Adds /\ next <= next'
<1> DEFINE outcomes == {"err", "threw"}
<1>1. /\ next \in Nat /\ made \in [0..(next - 1) -> Made] /\ 0..(next - 1) \subseteq CallIds
      /\ CallIds \subseteq Nat
  BY RpcAssumption DEF ClientTypes, ClientTypeOK
<1>2. AbortAll(outcomes) /\ CloseEvent("client")
  BY DEF ClientOnClose
<1>3. PICK n \in {next} \cup {i + 1 : i \in CallIds} :
        /\ next <= n /\ next..(n - 1) \subseteq CallIds
        /\ next' = n
        /\ \E new \in [next..(n - 1) -> UNION {Retries(i, outcomes) : i \in CallIds}] :
             /\ \A i \in DOMAIN new : new[i] \in Retries(i, outcomes)
             /\ made' = [i \in 0..(n - 1) |->
                           IF i >= next THEN new[i]
                           ELSE IF i \in clientCalls /\ Pending(i)
                             THEN [made[i] EXCEPT !.status = "err"]
                           ELSE made[i]]
  BY <1>2 DEF AbortAll
<1>4. PICK new \in [next..(n - 1) -> UNION {Retries(i, outcomes) : i \in CallIds}] :
        /\ \A i \in next..(n - 1) : new[i] \in Retries(i, outcomes)
        /\ made' = [i \in 0..(n - 1) |->
                      IF i >= next THEN new[i]
                      ELSE IF i \in clientCalls /\ Pending(i)
                        THEN [made[i] EXCEPT !.status = "err"]
                      ELSE made[i]]
  BY <1>3
<1>5. n \in Nat
  BY <1>1, <1>3
<1>6. ASSUME NEW i \in CallIds, NEW c \in Retries(i, outcomes)
      PROVE  c \in Made /\ c.status # "pending"
  <2>1. PICK m \in Called[i] :
          c \in {NewCall(m, sent, FALSE, status) : sent \in First(i, m), status \in outcomes}
    BY <1>6 DEF Retries, NewCall
  <2>2. PICK sent \in First(i, m), status \in outcomes : c = NewCall(m, sent, FALSE, status)
    BY <2>1 DEF NewCall
  <2>3. m \in Method /\ sent \in Seq(Body) /\ <<>> \in Seq(Body)
    BY <2>1, <2>2, CallerAssumption, FirstTypes, EmptySeq
  <2> QED
    BY <2>2, <2>3 DEF NewCall, Made
<1>7. ASSUME NEW i \in 0..(n - 1)
      PROVE  made'[i] \in Made /\ made'[i].status # "pending"
  <2>1. CASE i >= next
    <3>1. i \in next..(n - 1) /\ i \in CallIds /\ made'[i] = new[i]
      BY <1>1, <1>3, <1>4, <1>5, <2>1
    <3> QED
      BY <1>4, <1>6, <3>1
  <2>2. CASE ~(i >= next)
    <3>1. i \in DOMAIN made /\ made[i] \in Made
      BY <1>1, <1>5, <2>2
    <3>2. CASE i \in clientCalls /\ Pending(i)
      <4>1. made'[i] = [made[i] EXCEPT !.status = "err"]
        BY <1>4, <2>2, <3>2
      <4> QED
        BY <3>1, <4>1 DEF Made
    <3>3. CASE ~(i \in clientCalls /\ Pending(i))
      BY <1>4, <2>2, <3>1, <3>3 DEF PendingIsReachable, Pending
    <3> QED
      BY <3>2, <3>3
  <2> QED
    BY <2>1, <2>2
<1>8. made' \in [0..(n - 1) -> Made] /\ DOMAIN made' = 0..(n - 1)
  BY <1>4, <1>7
<1>9. clientCalls' = {} /\ 0..(n - 1) \subseteq CallIds
  <2>1. \A i \in 0..(n - 1) : i \in 0..(next - 1) \/ i \in next..(n - 1)
    BY <1>1, <1>5
  <2> QED
    BY <1>1, <1>2, <1>3, <2>1 DEF AbortAll
<1>10. ClientTypes' /\ PendingIsReachable'
  BY <1>3, <1>5, <1>7, <1>8, <1>9 DEF ClientTypes, ClientTypeOK, PendingIsReachable
<1>11. SocketTypeOK(Message)' /\ Adds
  BY <1>2, SocketTypes DEF CloseEvent, Adds, Ends
<1> QED
  BY <1>3, <1>10, <1>11

LEMMA ClientStep ==
  ASSUME ClientTypes, SocketTypeOK(Message), PendingIsReachable, ClientNext
  PROVE  /\ ClientTypes' /\ SocketTypeOK(Message)' /\ PendingIsReachable'
         /\ Adds /\ next <= next'
<1>1. next \in Nat
  BY DEF ClientTypes, ClientTypeOK
<1>2. next <= next
  BY <1>1
<1>3. CASE ClientMakes
  BY <1>3, MakesStep
<1>4. CASE \E i \in DOMAIN made : ClientStreamSends(i) \/ ClientStreamCompletes(i)
  BY <1>2, <1>4, StreamStep
<1>5. CASE ClientHandles
  BY <1>2, <1>5, HandlesStep
<1>6. CASE ClientOnClose
  BY <1>6, CloseStep
<1> QED
  BY <1>3, <1>4, <1>5, <1>6 DEF ClientNext, ClientReceive, Caller

-----------------------------------------------------------------------------
(* Calls on the wire.                                                       *)

\* The wire to the server loses d frames in front, or some at the end.
Shrinks(d) ==
  \A j \in DOMAIN wire'["server"] :
    j + d \in DOMAIN wire["server"] /\ wire'["server"][j] = wire["server"][j + d]

LEMMA ShrinksStep ==
  ASSUME CallsOnce, NEW d \in {0, 1}, Shrinks(d), next \in Nat, next' \in Nat, next <= next',
         wire'["server"] \in Seq(Message), \A i \in CallIds : RunsOf(i)' = RunsOf(i)
  PROVE  CallsOnce'
<1>1. ASSUME NEW i, NEW j, OnWire(i, j)'
      PROVE  j \in Nat /\ OnWire(i, j + d)
  BY <1>1 DEF OnWire, Shrinks
<1> SUFFICES ASSUME NEW i \in CallIds
             PROVE  /\ \A j, k \in DOMAIN wire'["server"] : OnWire(i, j)' /\ OnWire(i, k)' => j = k
                    /\ \A j \in DOMAIN wire'["server"] : OnWire(i, j)' => RunsOf(i)' = {} /\ i < next'
                    /\ RunsOf(i)' # {} => i < next'
  BY DEF CallsOnce
<1>3. i \in Nat
  BY RpcAssumption
<1>4. ASSUME NEW j \in DOMAIN wire'["server"], NEW k \in DOMAIN wire'["server"],
             OnWire(i, j)', OnWire(i, k)'
      PROVE  j = k
  <2>1. OnWire(i, j + d) /\ OnWire(i, k + d) /\ j \in Nat /\ k \in Nat
    BY <1>1, <1>4 DEF OnWire
  <2>2. j + d = k + d
    BY <2>1 DEF CallsOnce, OnWire
  <2> QED
    BY <2>1, <2>2
<1>5. ASSUME NEW j \in DOMAIN wire'["server"], OnWire(i, j)'
      PROVE  RunsOf(i)' = {} /\ i < next'
  <2>1. OnWire(i, j + d)
    BY <1>1, <1>5 DEF OnWire
  <2>2. RunsOf(i) = {} /\ i < next
    BY <2>1 DEF CallsOnce, OnWire
  <2> QED
    BY <1>3, <2>2 DEF RunsOf
<1>6. RunsOf(i)' # {} => i < next'
  BY <1>3 DEF CallsOnce, RunsOf
<1> QED
  BY <1>4, <1>5, <1>6

LEMMA AddsStep ==
  ASSUME CallsOnce, Adds, next \in Nat, next' \in Nat, next <= next',
         wire["server"] \in Seq(Message), wire'["server"] \in Seq(Message), UNCHANGED runs
  PROVE  CallsOnce'
<1>1. CASE wire'["server"] = wire["server"]
  <2>1. Shrinks(0)
    BY <1>1 DEF Shrinks
  <2>2. \A i \in CallIds : RunsOf(i)' = RunsOf(i)
    BY DEF RunsOf
  <2> QED
    BY <2>1, <2>2, ShrinksStep
<1>2. ASSUME NEW f \in Message, wire'["server"] = Append(wire["server"], f),
             IsCall(f) => f.id = next /\ next' = next + 1
      PROVE  CallsOnce'
  <2> DEFINE n == Len(wire["server"])
  <2>1. /\ n \in Nat /\ DOMAIN wire["server"] = 1..n /\ DOMAIN wire'["server"] = 1..(n + 1)
        /\ \A j \in 1..n : wire'["server"][j] = wire["server"][j]
        /\ wire'["server"][n + 1] = f
    BY <1>2
  <2>2. ASSUME NEW i, NEW j, OnWire(i, j)'
        PROVE  /\ j \in 1..n => OnWire(i, j)
               /\ j \notin 1..n => j = n + 1 /\ i = next /\ next' = next + 1
    BY <1>2, <2>1, <2>2 DEF OnWire
  <2>3. \A i \in CallIds : i \in Nat
    BY RpcAssumption
  <2>4. ASSUME NEW i \in CallIds, NEW j, OnWire(i, j) PROVE i < next /\ RunsOf(i) = {}
    BY <2>4 DEF CallsOnce, OnWire
  <2>5. ASSUME NEW i \in CallIds, NEW j, NEW k, OnWire(i, j)', OnWire(i, k)' PROVE j = k
    <3>1. CASE j \in 1..n /\ k \in 1..n
      BY <2>1, <2>2, <2>5, <3>1 DEF CallsOnce, OnWire
    <3>2. CASE j \notin 1..n \/ k \notin 1..n
      <4>1. i = next
        BY <2>2, <2>5, <3>2 DEF OnWire
      <4>2. ~(i < next)
        BY <4>1
      <4>3. \A l : ~OnWire(i, l)
        BY <2>4, <4>2
      <4>4. j \notin 1..n /\ k \notin 1..n
        BY <2>2, <2>5, <4>3 DEF OnWire
      <4> QED
        BY <2>2, <2>5, <4>4 DEF OnWire
    <3> QED
      BY <3>1, <3>2
  <2>6. ASSUME NEW i \in CallIds, NEW j, OnWire(i, j)' PROVE RunsOf(i)' = {} /\ i < next'
    <3>1. CASE j \in 1..n
      <4>1. i < next /\ RunsOf(i) = {}
        BY <2>2, <2>4, <2>6, <3>1 DEF OnWire
      <4> QED
        BY <2>3, <4>1 DEF RunsOf
    <3>2. CASE j \notin 1..n
      <4>1. i = next /\ next' = next + 1
        BY <2>2, <2>6, <3>2 DEF OnWire
      <4>2. RunsOf(i) = {}
        BY <4>1 DEF CallsOnce
      <4> QED
        BY <4>1, <4>2 DEF RunsOf
    <3> QED
      BY <3>1, <3>2
  <2>7. ASSUME NEW i \in CallIds, RunsOf(i)' # {} PROVE i < next'
    BY <2>3, <2>7 DEF CallsOnce, RunsOf
  <2> QED
    BY <2>5, <2>6, <2>7 DEF CallsOnce, OnWire
<1> QED
  BY <1>1, <1>2 DEF Adds

-----------------------------------------------------------------------------
(* The server.                                                              *)

\* The frame that arrives is gone from the wire.
LEMMA Taken ==
  ASSUME IInv, Deliverable("server"), wire'["server"] = Tail(wire["server"])
  PROVE  /\ wire["server"] \in Seq(Message) /\ Arrived = wire["server"][1]
         /\ 1 \in DOMAIN wire["server"] /\ Shrinks(1)
         /\ wire'["server"] \in Seq(Message)
<1>1. /\ wire["server"] \in Seq(Message) /\ wire["server"] # <<>>
  BY DEF Deliverable, IInv, Types, ServerTypes, SocketTypeOK, Ends
<1>2. Arrived = wire["server"][1] /\ 1 \in DOMAIN wire["server"]
  BY Arrival DEF IInv, Types
<1>3. /\ wire'["server"] \in Seq(Message) /\ Len(wire'["server"]) = Len(wire["server"]) - 1
      /\ \A j \in 1..Len(wire'["server"]) : wire'["server"][j] = wire["server"][j + 1]
  BY <1>1, HeadTailProperties
<1>4. Shrinks(1)
  <2>1. Len(wire["server"]) \in Nat /\ DOMAIN wire["server"] = 1..Len(wire["server"])
        /\ DOMAIN wire'["server"] = 1..Len(wire'["server"])
    BY <1>1, <1>3
  <2> QED
    BY <1>3, <2>1 DEF Shrinks
<1> QED
  BY <1>1, <1>2, <1>3, <1>4

\* A handler starts: it is the first of its ID.
LEMMA StartsStep ==
  ASSUME IInv, ServerHandles, Starts, UNCHANGED clientVars
  PROVE  CallsOnce' /\ OneRun' /\ TableHoldsRunning'
<1> DEFINE new == Len(runs) + 1
<1>0. PICK i0 \in CallIds : i0 = Arrived.id
  BY Arrival DEF IInv, Types, Starts, Arrives
<1>1. /\ Arrived = wire["server"][1] /\ 1 \in DOMAIN wire["server"] /\ Shrinks(1)
      /\ wire["server"] \in Seq(Message) /\ wire'["server"] \in Seq(Message)
  BY Taken, HandlesEffect DEF IInv, Types
<1>2. OnWire(i0, 1)
  BY <1>0, <1>1 DEF OnWire, Starts, Arrives, IsCall
<1>3. RunsOf(i0) = {} /\ i0 < next
  BY <1>1, <1>2 DEF IInv, CallsOnce
<1>4. /\ DOMAIN runs' = DOMAIN runs \cup {new} /\ new \notin DOMAIN runs /\ new # NoCall
      /\ \A r \in DOMAIN runs : runs'[r] = runs[r]
      /\ runs'[new].id = i0 /\ runs'[new].result = "running"
      /\ serverCalls' = [serverCalls EXCEPT ![i0] = new]
      /\ serverCalls \in [CallIds -> Nat] /\ next' = next
  <2>1. runs \in Seq(Run) /\ runs' \in Seq(Run)
    BY HandlesEffect DEF IInv, Types, ServerTypes, ServerTypeOK
  <2> QED
    BY <1>0, <2>1 DEF Starts, IInv, Types, ServerTypes, ServerTypeOK, NoCall, clientVars
<1> HIDE DEF new
<1>5. ASSUME NEW i, NEW r
      PROVE  r \in RunsOf(i)' <=> r \in RunsOf(i) \/ (r = new /\ i = i0)
  BY <1>4 DEF RunsOf
<1>6. \A i \in CallIds \ {i0} : RunsOf(i)' = RunsOf(i)
  BY <1>4 DEF RunsOf
<1>7. RunsOf(i0)' = {new}
  BY <1>3, <1>4 DEF RunsOf
<1>8. OneRun'
  <2> SUFFICES ASSUME NEW i \in CallIds, NEW r \in RunsOf(i)', NEW s \in RunsOf(i)' PROVE r = s
    BY DEF OneRun
  <2>1. CASE i = i0
    BY <1>7, <2>1 DEF RunsOf
  <2>2. CASE i # i0
    BY <1>6, <2>2 DEF IInv, OneRun, RunsOf
  <2> QED
    BY <2>1, <2>2
<1>9. TableHoldsRunning'
  <2> SUFFICES ASSUME NEW i \in CallIds
               PROVE  {r \in RunsOf(i)' : runs'[r].result = "running"} = {serverCalls'[i]} \ {NoCall}
    BY DEF TableHoldsRunning
  <2>1. CASE i = i0
    <3>1. RunsOf(i)' = {new}
      BY <1>7, <2>1 DEF RunsOf
    <3>2. {r \in RunsOf(i)' : runs'[r].result = "running"} = {new}
      BY <1>4, <3>1
    <3>3. {serverCalls'[i]} \ {NoCall} = {new}
      BY <1>4, <2>1
    <3> QED
      BY <3>2, <3>3
  <2>2. CASE i # i0
    <3>1. RunsOf(i)' = RunsOf(i) /\ serverCalls'[i] = serverCalls[i]
      BY <1>4, <1>6, <2>2 DEF RunsOf
    <3>2. \A r \in RunsOf(i) : runs'[r] = runs[r]
      BY <1>4 DEF RunsOf
    <3> QED
      BY <3>1, <3>2 DEF IInv, TableHoldsRunning
  <2> QED
    BY <2>1, <2>2
<1>10. CallsOnce'
  <2>1. ASSUME NEW i, NEW j, OnWire(i, j)'
        PROVE  j \in Nat /\ OnWire(i, j + 1)
    BY <1>1, <2>1 DEF OnWire, Shrinks
  <2>2. ASSUME NEW j, OnWire(i0, j)' PROVE FALSE
    <3>1. OnWire(i0, j + 1) /\ j \in DOMAIN wire'["server"] /\ j \in Nat
      BY <2>1, <2>2 DEF OnWire
    <3>2. j + 1 = 1
      BY <1>1, <1>2, <3>1 DEF IInv, CallsOnce, OnWire
    <3>3. j # 0
      BY <1>1, <3>1
    <3> QED
      BY <3>1, <3>2, <3>3
  <2> SUFFICES ASSUME NEW i \in CallIds
               PROVE  /\ \A j, k \in DOMAIN wire'["server"] :
                            OnWire(i, j)' /\ OnWire(i, k)' => j = k
                      /\ \A j \in DOMAIN wire'["server"] :
                            OnWire(i, j)' => RunsOf(i)' = {} /\ i < next
                      /\ RunsOf(i)' # {} => i < next
    BY <1>4 DEF CallsOnce
  <2>3. CASE i = i0
    BY <1>3, <2>2, <2>3 DEF OnWire
  <2>4. CASE i # i0
    <3>1. ASSUME NEW j \in DOMAIN wire'["server"], NEW k \in DOMAIN wire'["server"],
                 OnWire(i, j)', OnWire(i, k)'
          PROVE  j = k
      <4>1. OnWire(i, j + 1) /\ OnWire(i, k + 1) /\ j \in Nat /\ k \in Nat
        BY <2>1, <3>1 DEF OnWire
      <4>2. j + 1 = k + 1
        BY <4>1 DEF IInv, CallsOnce, OnWire
      <4> QED
        BY <4>1, <4>2
    <3>2. ASSUME NEW j \in DOMAIN wire'["server"], OnWire(i, j)'
          PROVE  RunsOf(i)' = {} /\ i < next
      <4>1. OnWire(i, j + 1)
        BY <2>1, <3>2 DEF OnWire
      <4>2. RunsOf(i) = {} /\ i < next
        BY <4>1 DEF IInv, CallsOnce, OnWire
      <4> QED
        BY <1>6, <2>4, <4>2 DEF RunsOf
    <3>3. RunsOf(i)' # {} => i < next
      BY <1>6, <2>4 DEF IInv, CallsOnce, RunsOf
    <3> QED
      BY <3>1, <3>2, <3>3
  <2> QED
    BY <2>3, <2>4
<1> QED
  BY <1>8, <1>9, <1>10

\* Steps after which every ID has the handlers it had, up to one that changes.
LEMMA Kept ==
  ASSUME NEW a, OnlyRun(a)
  PROVE  \A i : RunsOf(i)' = RunsOf(i)
<1>1. ASSUME NEW i, NEW r PROVE r \in RunsOf(i)' <=> r \in RunsOf(i)
  BY DEF RunsOf, OnlyRun
<1> QED
  BY <1>1 DEF RunsOf

LEMMA OtherStep ==
  ASSUME IInv, NEW a,
         \/ Reaches /\ a = Addressed
         \/ Sends(a)
         \/ a \in DOMAIN runs /\ Finishes(a)
  PROVE  /\ \A i : RunsOf(i)' = RunsOf(i)
         /\ OneRun' /\ TableHoldsRunning'
<1>1. OnlyRun(a)
  BY DEF Reaches, Sends, Finishes
<1>2. \A i : RunsOf(i)' = RunsOf(i)
  BY <1>1, Kept
<1>3. OneRun'
  BY <1>2 DEF IInv, OneRun
<1>4. ASSUME runs'[a].result = runs[a].result, UNCHANGED serverCalls
      PROVE  TableHoldsRunning'
  <2> SUFFICES ASSUME NEW i \in CallIds
               PROVE  {r \in RunsOf(i)' : runs'[r].result = "running"} = {serverCalls'[i]} \ {NoCall}
    BY DEF TableHoldsRunning, RunsOf
  <2>1. {r \in RunsOf(i)' : runs'[r].result = "running"}
          = {r \in RunsOf(i) : runs[r].result = "running"}
    <3>1. \A r \in RunsOf(i) : runs'[r].result = runs[r].result
      BY <1>1, <1>4 DEF OnlyRun, RunsOf
    <3>2. RunsOf(i)' = RunsOf(i)
      BY <1>2 DEF RunsOf
    <3> QED
      BY <3>1, <3>2
  <2>2. {r \in RunsOf(i) : runs[r].result = "running"} = {serverCalls[i]} \ {NoCall}
    BY DEF IInv, TableHoldsRunning, RunsOf
  <2> QED
    BY <1>4, <2>1, <2>2
<1>5. ASSUME a \in DOMAIN runs, Finishes(a)
      PROVE  TableHoldsRunning'
  <2>1. PICK i0 \in CallIds : i0 = runs[a].id
    <3>1. runs[a] \in Run
      BY <1>5 DEF IInv, Types, ServerTypes, ServerTypeOK
    <3> QED
      BY <3>1 DEF Run
  <2>2. serverCalls \in [CallIds -> Nat]
    BY DEF IInv, Types, ServerTypes, ServerTypeOK
  <2>3. /\ serverCalls'[i0] = NoCall
        /\ \A i \in CallIds \ {i0} : serverCalls'[i] = serverCalls[i]
    BY <1>5, <2>1, <2>2 DEF Finishes
  <2> SUFFICES ASSUME NEW i \in CallIds
               PROVE  {r \in RunsOf(i)' : runs'[r].result = "running"} = {serverCalls'[i]} \ {NoCall}
    BY DEF TableHoldsRunning, RunsOf
  <2>4. RunsOf(i)' = RunsOf(i)
    BY <1>2 DEF RunsOf
  <2>5. CASE i = i0
    <3>1. a \in RunsOf(i)
      BY <1>5, <2>1, <2>5 DEF RunsOf
    <3>2. \A r \in RunsOf(i) : r = a
      BY <3>1 DEF IInv, OneRun
    <3>3. {r \in RunsOf(i)' : runs'[r].result = "running"} = {}
      BY <1>5, <2>4, <3>2 DEF Finishes
    <3> QED
      BY <2>3, <2>5, <3>3
  <2>6. CASE i # i0
    <3>1. \A r \in RunsOf(i) : runs'[r] = runs[r]
      BY <1>1, <2>1, <2>6 DEF OnlyRun, RunsOf
    <3>2. {r \in RunsOf(i)' : runs'[r].result = "running"}
            = {r \in RunsOf(i) : runs[r].result = "running"}
      BY <2>4, <3>1
    <3>3. serverCalls'[i] = serverCalls[i]
      BY <2>3, <2>6
    <3> QED
      BY <3>2, <3>3 DEF IInv, TableHoldsRunning
  <2> QED
    BY <2>5, <2>6
<1> QED
  BY <1>2, <1>3, <1>4, <1>5 DEF Reaches, Sends

\* A refused call may take an entry away, but there is none.
LEMMA RefusesStep ==
  ASSUME IInv, ServerHandles, Refuses
  PROVE  OneRun' /\ TableHoldsRunning'
<1>1. OneRun'
  BY DEF IInv, OneRun, RunsOf, Refuses
<1>2. ASSUME UNCHANGED serverCalls
      PROVE  TableHoldsRunning'
  BY <1>2 DEF IInv, TableHoldsRunning, RunsOf, Refuses
<1>3. ASSUME Arrives({"call"}), serverCalls' = [serverCalls EXCEPT ![Arrived.id] = NoCall]
      PROVE  TableHoldsRunning'
  <2>1. PICK i0 \in CallIds : i0 = Arrived.id
    BY <1>3, Arrival DEF IInv, Types, Arrives
  <2>2. Arrived = wire["server"][1] /\ 1 \in DOMAIN wire["server"]
    BY Taken, HandlesEffect DEF IInv, Types
  <2>3. OnWire(i0, 1)
    BY <1>3, <2>1, <2>2 DEF OnWire, Arrives, IsCall
  <2>4. RunsOf(i0) = {}
    BY <2>2, <2>3 DEF IInv, CallsOnce
  <2>5. /\ serverCalls'[i0] = NoCall
        /\ \A i \in CallIds \ {i0} : serverCalls'[i] = serverCalls[i]
    BY <1>3, <2>1 DEF IInv, Types, ServerTypes, ServerTypeOK
  <2> SUFFICES ASSUME NEW i \in CallIds
               PROVE  {r \in RunsOf(i) : runs[r].result = "running"} = {serverCalls'[i]} \ {NoCall}
    BY DEF TableHoldsRunning, RunsOf, Refuses
  <2>6. CASE i = i0
    BY <2>4, <2>5, <2>6
  <2>7. CASE i # i0
    BY <2>5, <2>7 DEF IInv, TableHoldsRunning
  <2> QED
    BY <2>6, <2>7
<1> QED
  BY <1>1, <1>2, <1>3 DEF Refuses

LEMMA ServerStep ==
  ASSUME IInv, ServerNext, UNCHANGED clientVars
  PROVE  IInv'
<1>1. /\ next \in Nat /\ next' = next /\ made' = made /\ clientCalls' = clientCalls
      /\ ClientTypes' /\ next <= next' /\ next' \in Nat
  <2>1. next \in Nat /\ next' = next /\ made' = made /\ clientCalls' = clientCalls /\ ClientTypes
    BY DEF clientVars, IInv, Types, ClientTypes, ClientTypeOK
  <2>2. ClientTypes'
    BY <2>1 DEF ClientTypes, ClientTypeOK
  <2> QED
    BY <2>1, <2>2
<1>2. ready'["client"] = ready["client"] => PendingIsReachable'
  BY <1>1 DEF IInv, PendingIsReachable
<1>3. CASE ServerHandles
  <2>1. /\ ServerTypes' /\ Deliverable("server") /\ wire'["server"] = Tail(wire["server"])
        /\ ready' = ready /\ (Starts \/ Reaches \/ Refuses)
    BY <1>3, HandlesEffect DEF IInv, Types
  <2>2. Shrinks(1) /\ wire'["server"] \in Seq(Message)
    BY <2>1, Taken
  <2>3. CASE Starts
    BY <1>1, <1>2, <1>3, <2>1, <2>3, StartsStep DEF IInv, Types
  <2>4. CASE Reaches
    <3>1. /\ \A i : RunsOf(i)' = RunsOf(i)
          /\ OneRun' /\ TableHoldsRunning'
      BY <2>4, OtherStep
    <3>2. CallsOnce'
      BY <1>1, <2>2, <3>1, ShrinksStep DEF IInv
    <3> QED
      BY <1>1, <1>2, <2>1, <3>1, <3>2 DEF IInv, Types
  <2>5. CASE Refuses
    <3>1. \A i \in CallIds : RunsOf(i)' = RunsOf(i)
      BY <2>5 DEF Refuses, RunsOf
    <3>2. CallsOnce'
      BY <1>1, <2>2, <3>1, ShrinksStep DEF IInv
    <3> QED
      BY <1>1, <1>2, <1>3, <2>1, <2>5, <3>2, RefusesStep DEF IInv, Types
  <2> QED
    BY <2>1, <2>3, <2>4, <2>5
<1>4. CASE Handler
  <2>1. PICK r \in DOMAIN runs : HandlerSends(r) \/ HandlerCompletes(r) \/ HandlerEnds(r)
    BY <1>4 DEF Handler
  <2>2. /\ ServerTypes' /\ wire'["server"] = wire["server"] /\ ready' = ready
        /\ Sends(r) \/ Finishes(r)
    BY <2>1, HandlerEffect DEF IInv, Types
  <2>3. /\ \A i : RunsOf(i)' = RunsOf(i)
        /\ OneRun' /\ TableHoldsRunning'
    BY <2>2, OtherStep
  <2>4. Shrinks(0) /\ wire'["server"] \in Seq(Message)
    <3>1. wire["server"] \in Seq(Message)
      BY DEF IInv, Types, ServerTypes, SocketTypeOK, Ends
    <3> QED
      BY <2>2, <3>1 DEF Shrinks
  <2>5. CallsOnce'
    BY <1>1, <2>3, <2>4, ShrinksStep DEF IInv
  <2> QED
    BY <1>1, <1>2, <2>2, <2>3, <2>5 DEF IInv, Types
<1>5. CASE ServerOnClose
  <2>1. /\ SocketTypeOK(Message)' /\ UNCHANGED <<runs, serverCalls, wire>>
        /\ ready'["client"] = ready["client"]
    BY <1>5, SocketTypes
    DEF ServerOnClose, CloseEvent, serverVars, IInv, Types, ServerTypes, SocketTypeOK, Ends
  <2>2. CallsOnce' /\ OneRun' /\ TableHoldsRunning'
    BY <1>1, <2>1 DEF IInv, CallsOnce, OneRun, TableHoldsRunning, OnWire, RunsOf
  <2> QED
    BY <1>1, <1>2, <2>1, <2>2 DEF IInv, Types, ServerTypes, ServerTypeOK
<1> QED
  BY <1>3, <1>4, <1>5 DEF ServerNext, ServerReceive

-----------------------------------------------------------------------------
(* The connection.                                                          *)

LEMMA BreakStep ==
  ASSUME IInv, SocketStep, UNCHANGED <<clientVars, serverVars>>
  PROVE  IInv'
<1>1. /\ UNCHANGED <<next, made, clientCalls, runs, serverCalls>>
      /\ next \in Nat /\ next <= next' /\ next' \in Nat
  <2>1. next \in Nat /\ UNCHANGED <<next, made, clientCalls, runs, serverCalls>>
    BY DEF clientVars, serverVars, IInv, Types, ClientTypes, ClientTypeOK
  <2> QED
    BY <2>1
<1>2. SocketTypeOK(Message)'
  BY SocketTypes DEF IInv, Types, ServerTypes, Ends
<1>3. wire["server"] \in Seq(Message) /\ wire'["server"] \in Seq(Message)
  BY <1>2 DEF IInv, Types, ServerTypes, SocketTypeOK, Ends
<1>4. ready'["client"] = "closed" => ready["client"] = "closed"
  BY DEF SocketStep, Discard, UserClose, Lose, CloseSocket, IInv, Types, ServerTypes,
         SocketTypeOK, Ends
<1>5. \E d \in {0, 1} : Shrinks(d)
  <2>1. ASSUME NEW e \in Ends, Discard(e) PROVE Shrinks(0) \/ Shrinks(1)
    <3>1. CASE e = "server"
      <4>1. wire'["server"] = Tail(wire["server"]) /\ wire["server"] # <<>>
        BY <2>1, <3>1 DEF Discard, Pop, IInv, Types, ServerTypes, SocketTypeOK, Ends
      <4>2. /\ Len(wire'["server"]) = Len(wire["server"]) - 1 /\ Len(wire["server"]) \in Nat
            /\ \A j \in 1..Len(wire'["server"]) : wire'["server"][j] = wire["server"][j + 1]
        BY <1>3, <4>1, HeadTailProperties
      <4>3. /\ DOMAIN wire["server"] = 1..Len(wire["server"])
            /\ DOMAIN wire'["server"] = 1..Len(wire'["server"])
        BY <1>3
      <4> QED
        BY <4>2, <4>3 DEF Shrinks
    <3>2. CASE e = "client"
      <4>1. wire'["server"] = wire["server"]
        BY <2>1, <3>2 DEF Discard, Pop, IInv, Types, ServerTypes, SocketTypeOK, Ends
      <4> QED
        BY <1>3, <4>1 DEF Shrinks
    <3> QED
      BY <3>1, <3>2 DEF Ends
  <2>2. ASSUME NEW e \in Ends, UserClose(e) PROVE Shrinks(0)
    BY <1>3, <2>2 DEF UserClose, Shrinks
  <2>3. CASE Lose
    <3>1. PICK k \in 0..Len(wire["server"]) : wire'["server"] = SubSeq(wire["server"], 1, k)
      BY <2>3 DEF Lose, Ends
    <3>2. /\ Len(wire["server"]) \in Nat /\ DOMAIN wire["server"] = 1..Len(wire["server"])
          /\ DOMAIN wire'["server"] = 1..k
          /\ \A j \in 1..k : wire'["server"][j] = wire["server"][j]
      BY <1>3, <3>1
    <3> QED
      BY <3>2 DEF Shrinks
  <2> QED
    BY <2>1, <2>2, <2>3 DEF SocketStep
<1>6. CallsOnce'
  <2>1. \A i \in CallIds : RunsOf(i)' = RunsOf(i)
    BY <1>1 DEF RunsOf
  <2> QED
    BY <1>1, <1>3, <1>5, <2>1, ShrinksStep DEF IInv
<1>7. OneRun' /\ TableHoldsRunning' /\ PendingIsReachable'
  BY <1>1, <1>4 DEF IInv, OneRun, TableHoldsRunning, RunsOf, PendingIsReachable
<1> QED
  BY <1>1, <1>2, <1>6, <1>7
  DEF IInv, Types, ClientTypes, ClientTypeOK, ServerTypes, ServerTypeOK

-----------------------------------------------------------------------------
LEMMA Step ==
  ASSUME IInv, [Next]_vars
  PROVE  IInv'
<1>1. CASE ClientNext /\ UNCHANGED serverVars
  <2>1. /\ ClientTypes' /\ SocketTypeOK(Message)' /\ PendingIsReachable'
        /\ Adds /\ next <= next'
    BY <1>1, ClientStep DEF IInv, Types, ServerTypes
  <2>2. UNCHANGED <<runs, serverCalls>>
    BY <1>1 DEF serverVars
  <2>3. /\ next \in Nat /\ next' \in Nat
        /\ wire["server"] \in Seq(Message) /\ wire'["server"] \in Seq(Message)
    BY <2>1 DEF IInv, Types, ClientTypes, ClientTypeOK, ServerTypes, SocketTypeOK, Ends
  <2>4. CallsOnce'
    BY <2>1, <2>2, <2>3, AddsStep DEF IInv
  <2>5. OneRun' /\ TableHoldsRunning'
    BY <2>2 DEF IInv, OneRun, TableHoldsRunning, RunsOf
  <2> QED
    BY <2>1, <2>2, <2>4, <2>5 DEF IInv, Types, ServerTypes, ServerTypeOK
<1>2. CASE ServerNext /\ UNCHANGED clientVars
  BY <1>2, ServerStep
<1>3. CASE SocketStep /\ UNCHANGED <<clientVars, serverVars>>
  BY <1>3, BreakStep
<1>4. CASE UNCHANGED vars
  <2>1. UNCHANGED <<next, made, clientCalls, runs, serverCalls, wire, fin, ready>>
    BY <1>4 DEF vars, clientVars, serverVars, sockVars
  <2>2. Types'
    BY <2>1 DEF IInv, Types, ClientTypes, ClientTypeOK, ServerTypes, ServerTypeOK, SocketTypeOK
  <2>3. CallsOnce' /\ OneRun' /\ TableHoldsRunning' /\ PendingIsReachable'
    BY <2>1
    DEF IInv, CallsOnce, OneRun, TableHoldsRunning, PendingIsReachable, OnWire, RunsOf
  <2> QED
    BY <2>2, <2>3 DEF IInv
<1> QED
  BY <1>1, <1>2, <1>3, <1>4 DEF Next

LEMMA Begins ==
  ASSUME Init
  PROVE  IInv
<1>1. /\ runs = <<>> /\ DOMAIN runs = {} /\ wire["server"] = <<>> /\ DOMAIN wire["server"] = {}
      /\ serverCalls = [i \in CallIds |-> NoCall] /\ next = 0 /\ clientCalls = {}
      /\ \A i : RunsOf(i) = {}
  BY DEF Init, ClientInit, ServerInit, SocketInit, RunsOf, Ends
<1>2. made \in [0..(next - 1) -> Made] /\ DOMAIN made = {}
  BY <1>1 DEF Init, ClientInit
<1>3. ClientTypes /\ PendingIsReachable
  BY <1>1, <1>2 DEF ClientTypes, ClientTypeOK, PendingIsReachable
<1>4. ServerTypes
  BY <1>1, EmptySeq DEF Init, SocketInit, ServerTypes, ServerTypeOK, SocketTypeOK, NoCall
<1>5. CallsOnce /\ OneRun /\ TableHoldsRunning
  BY <1>1 DEF CallsOnce, OneRun, TableHoldsRunning, OnWire
<1> QED
  BY <1>3, <1>4, <1>5 DEF IInv, Types

(***************************************************************************)
(* Types, tables and IDs agree: every call frame is the only one of its ID *)
(* and comes before its handler, however the connection breaks             *)
(* (client.ts:181-191, 230, server.ts:235-380).                            *)
(***************************************************************************)
THEOREM Invariant == Spec => []IInv
  BY Begins, Step, PTL DEF Spec

\* The frames of the calls are frames of either end.
LEMMA TypesFollow ==
  ASSUME IInv
  PROVE  TypeOK
<1>1. SocketTypeOK(ClientMessage \cup ServerMessage)
  <2> SUFFICES ASSUME NEW e \in Ends
               PROVE  wire[e] \in Seq(ClientMessage \cup ServerMessage)
    BY DEF IInv, Types, ServerTypes, SocketTypeOK
  <2>1. wire[e] \in Seq(Message)
    BY DEF IInv, Types, ServerTypes, SocketTypeOK
  <2>2. \A f \in Message : f \in ClientMessage \cup ServerMessage
    BY DEF Message
  <2>3. wire[e] \in [1..Len(wire[e]) -> ClientMessage \cup ServerMessage]
    BY <2>1, <2>2
  <2> QED
    BY <2>1, <2>3
<1> QED
  BY <1>1 DEF IInv, Types, ClientTypes, ServerTypes, TypeOK

(***************************************************************************)
(* The variables of both ends keep their types: no handler reads a field   *)
(* of a call that is not in its table (client.ts:126-191,                  *)
(* server.ts:387-485).                                                     *)
(***************************************************************************)
THEOREM TypesHold == Spec => []TypeOK
  BY TypesFollow, Invariant, PTL

(***************************************************************************)
(* A pending call is in the table, and is told of the close event, also if *)
(* a callback of abortAll made it (client.ts:181-191).                     *)
(***************************************************************************)
THEOREM PendingIsReachableHolds == Spec => []PendingIsReachable
<1>1. IInv => PendingIsReachable
  BY DEF IInv
<1> QED
  BY <1>1, Invariant, PTL

(***************************************************************************)
(* The server's table holds the running handlers and nothing else          *)
(* (server.ts:258, 304, 331, 378).                                         *)
(***************************************************************************)
THEOREM TableHoldsRunningHolds == Spec => []TableHoldsRunning
<1>1. IInv => TableHoldsRunning
  BY DEF IInv
<1> QED
  BY <1>1, Invariant, PTL

-----------------------------------------------------------------------------
(* The frames of a call.                                                    *)

\* A sequence of messages is one of frames.
LEMMA MessagesAreFrames ==
  ASSUME NEW s \in Seq(Message)
  PROVE  s \in Seq(Frame)
<1>1. \A f \in Message : f \in Frame
  BY DEF Message, Frame
<1>2. s \in [1..Len(s) -> Frame] /\ Len(s) \in Nat
  BY <1>1
<1> QED
  BY <1>2

\* The frames of one call when a frame is sent or taken.
LEMMA OfFacts ==
  ASSUME NEW s \in Seq(Frame), NEW i
  PROVE  /\ Of(i, s) \in Seq(Frame)
         /\ \A f \in Frame : Of(i, Append(s, f)) = IF f.id = i THEN Append(Of(i, s), f) ELSE Of(i, s)
         /\ s # <<>> /\ s[1].id # i => Of(i, Tail(s)) = Of(i, s)
         /\ s # <<>> /\ s[1].id = i => /\ Of(i, s) # <<>> /\ Of(i, s)[1] = s[1]
                                       /\ Of(i, Tail(s)) = Tail(Of(i, s))
<1> DEFINE T == {f \in Frame : f.id # i}
<1>1. \A t : Of(i, t) = Without(t, T)
  BY DEF Of
<1>2. \A f \in Frame : f \in T <=> f.id # i
  OBVIOUS
<1>3. s # <<>> => s[1] \in Frame
  BY SequenceFacts
<1> HIDE DEF T
<1>4. Without(s, T) \in Seq(Frame)
  BY WithoutType
<1>5. ASSUME NEW f \in Frame
      PROVE  Without(Append(s, f), T) = IF f.id = i THEN Append(Without(s, T), f) ELSE Without(s, T)
  BY <1>2, WithoutAppend
<1>6. ASSUME s # <<>>
      PROVE  /\ s[1].id # i => Without(Tail(s), T) = Without(s, T)
             /\ s[1].id = i => /\ Without(s, T) # <<>> /\ Without(s, T)[1] = s[1]
                               /\ Without(Tail(s), T) = Tail(Without(s, T))
  BY <1>2, <1>3, <1>6, WithoutTail
<1> QED
  BY <1>1, <1>4, <1>5, <1>6

\* The newest frames are lost, and with them the newest ones of a call.
LEMMA OfCut ==
  ASSUME NEW s \in Seq(Frame), NEW i, NEW k \in 0..Len(s)
  PROVE  \E m \in 0..Len(Of(i, s)) : Of(i, SubSeq(s, 1, k)) = SubSeq(Of(i, s), 1, m)
BY WithoutSubSeq DEF Of

\* The wire to either end as a sequence of frames.
LEMMA Wires ==
  ASSUME NEW w \in [Ends -> Seq(Message)]
  PROVE  w["server"] \in Seq(Frame) /\ w["client"] \in Seq(Frame)
BY MessagesAreFrames DEF Ends

\* What is sent joins the frames of its call.
LEMMA PushFrames ==
  ASSUME NEW w \in [Ends -> Seq(Message)], NEW f \in Message, NEW i
  PROVE  /\ Push(w, "client", f)["client"] = w["client"]
         /\ Of(i, Push(w, "client", f)["server"]) =
              IF f.id = i THEN Sent(Of(i, w["server"]), Carries("server"), f) ELSE Of(i, w["server"])
         /\ Push(w, "server", f)["server"] = w["server"]
         /\ Of(i, Push(w, "server", f)["client"]) =
              IF f.id = i THEN Sent(Of(i, w["client"]), Carries("client"), f) ELSE Of(i, w["client"])
<1>1. w["server"] \in Seq(Frame) /\ w["client"] \in Seq(Frame) /\ f \in Frame
  BY Wires DEF Message, Frame
<1>2. /\ Push(w, "client", f)["client"] = w["client"]
      /\ Push(w, "client", f)["server"] = Sent(w["server"], Carries("server"), f)
      /\ Push(w, "server", f)["server"] = w["server"]
      /\ Push(w, "server", f)["client"] = Sent(w["client"], Carries("client"), f)
  BY DEF Push, Sent, Carries, Peer, Ends
<1>3. ASSUME NEW s \in Seq(Frame), NEW c
      PROVE  Of(i, Sent(s, c, f)) = IF f.id = i THEN Sent(Of(i, s), c, f) ELSE Of(i, s)
  <2>1. Of(i, Append(s, f)) = IF f.id = i THEN Append(Of(i, s), f) ELSE Of(i, s)
    BY <1>1, OfFacts
  <2> QED
    BY <2>1 DEF Sent
<1> QED
  BY <1>1, <1>2, <1>3

-----------------------------------------------------------------------------
(* The handler of a call.                                                   *)

\* The least element of a set that has only one.
LEMMA OnlyOne ==
  ASSUME NEW T, T \subseteq Nat, NEW r \in T, \A s \in T : s = r
  PROVE  (CHOOSE x \in T : \A s \in T : x <= s) = r
<1>1. r <= r
  OBVIOUS
<1>2. \E x \in T : \A s \in T : x <= s
  BY <1>1
<1>3. (CHOOSE x \in T : \A s \in T : x <= s) \in T
  BY <1>2
<1> QED
  BY <1>3

\* The run of a call is its only handler.
LEMMA RunIs ==
  ASSUME ServerTypes, OneRun, NEW i \in CallIds
  PROVE  /\ RunsOf(i) = {} => RunOf(i) = [result |-> "none", requests |-> <<>>, sent |-> <<>>, closed |-> FALSE]
         /\ \A r \in DOMAIN runs : runs[r].id = i => RunOf(i) = runs[r] /\ RunsOf(i) = {r}
<1>1. ASSUME NEW r \in DOMAIN runs, runs[r].id = i
      PROVE  RunOf(i) = runs[r] /\ RunsOf(i) = {r}
  <2>1. RunsOf(i) = {r}
    BY <1>1 DEF OneRun, RunsOf
  <2>2. r \in Nat
    BY DEF ServerTypes, ServerTypeOK
  <2>3. (CHOOSE x \in RunsOf(i) : \A s \in RunsOf(i) : x <= s) = r
    BY <2>1, <2>2, OnlyOne
  <2> QED
    BY <2>1, <2>3 DEF RunOf
<1> QED
  BY <1>1 DEF RunOf

\* So it is after a step.
LEMMA RunIsThen ==
  ASSUME ServerTypes', OneRun', NEW i \in CallIds
  PROVE  /\ RunsOf(i)' = {} => RunOf(i)' = [result |-> "none", requests |-> <<>>, sent |-> <<>>, closed |-> FALSE]
         /\ \A r \in DOMAIN runs' : runs'[r].id = i => RunOf(i)' = runs'[r] /\ RunsOf(i)' = {r}
<1>1. ASSUME NEW r \in DOMAIN runs', runs'[r].id = i
      PROVE  RunOf(i)' = runs'[r] /\ RunsOf(i)' = {r}
  <2>1. RunsOf(i)' = {r}
    BY <1>1 DEF OneRun, RunsOf
  <2>2. r \in Nat
    BY DEF ServerTypes, ServerTypeOK
  <2>3. (CHOOSE x \in RunsOf(i)' : \A s \in RunsOf(i)' : x <= s) = r
    BY <2>1, <2>2, OnlyOne
  <2> QED
    BY <2>1, <2>3 DEF RunOf
<1> QED
  BY <1>1 DEF RunOf

-----------------------------------------------------------------------------
(* A step of the system, call by call.                                      *)

\* What a call is after a step.
LEMMA ViewThen ==
  ASSUME NEW i
  PROVE  /\ View(i)'.call = CallOf(i)' /\ View(i)'.run = RunOf(i)'
         /\ View(i)'.inTable = (i \in clientCalls')
         /\ View(i)'.up = Of(i, wire'["server"]) /\ View(i)'.down = Of(i, wire'["client"])
BY DEF View

\* A call none of whose sides changes.
LEMMA RestsIf ==
  ASSUME NEW i, CallOf(i)' = CallOf(i), i \in clientCalls' <=> i \in clientCalls,
         RunOf(i)' = RunOf(i),
         Cut(Of(i, wire["server"]), Of(i, wire'["server"]), Line'.up, Line'.server),
         Cut(Of(i, wire["client"]), Of(i, wire'["client"]), Line'.down, Line'.client)
  PROVE  Move(i, View(i), View(i)', Line')
<1>1. Rests(View(i), View(i)', Line')
  BY DEF Rests, View
<1> QED
  BY <1>1 DEF Move

\* A socket that stays as it is.
LEMMA LineSame ==
  ASSUME UNCHANGED <<fin, ready>>
  PROVE  Line' = Line /\ Lowered(Line, Line')
BY DEF Line, Lowered, Carries, Listens

\* Every call makes a step of its own.
Moves == Lowered(Line, Line') /\ \A i \in CallIds : Move(i, View(i), View(i)', Line')

\* Nothing happens to the calls other than i.
Elsewhere(i) ==
  \A j \in CallIds \ {i} :
    /\ CallOf(j)' = CallOf(j) /\ RunOf(j)' = RunOf(j)
    /\ j \in clientCalls' <=> j \in clientCalls
    /\ Of(j, wire'["server"]) = Of(j, wire["server"])
    /\ Of(j, wire'["client"]) = Of(j, wire["client"])

\* A step of one call, when nothing happens to the others.
LEMMA MovesIf ==
  ASSUME NEW i \in CallIds, Elsewhere(i), UNCHANGED <<fin, ready>>,
         Move(i, View(i), View(i)', Line')
  PROVE  Moves
<1>1. ASSUME NEW j \in CallIds \ {i} PROVE Move(j, View(j), View(j)', Line')
  <2>1. /\ Cut(Of(j, wire["server"]), Of(j, wire'["server"]), Line'.up, Line'.server)
        /\ Cut(Of(j, wire["client"]), Of(j, wire'["client"]), Line'.down, Line'.client)
    BY DEF Elsewhere, Cut
  <2> QED
    BY <2>1, RestsIf DEF Elsewhere
<1> QED
  BY <1>1, LineSame DEF Moves

-----------------------------------------------------------------------------
(* The client.                                                              *)

\* The calls of the others when one is replaced.
LEMMA CallsKept ==
  ASSUME ClientTypes, NEW i \in DOMAIN made, NEW m, made' = [made EXCEPT ![i] = m]
  PROVE  /\ CallOf(i) = made[i] /\ CallOf(i)' = m
         /\ \A j \in CallIds \ {i} : CallOf(j)' = CallOf(j)
BY DEF ClientTypes, ClientTypeOK, CallOf

\* The server did nothing.
LEMMA RunsSame ==
  ASSUME UNCHANGED runs
  PROVE  \A j : RunOf(j)' = RunOf(j)
BY DEF RunOf, RunsOf

\* The caller makes a call.
LEMMA MakesMove ==
  ASSUME IInv, IInv', ClientMakes, UNCHANGED serverVars
  PROVE  Moves
<1>1. /\ next \in CallIds /\ next \in Nat /\ next' = next + 1 /\ UNCHANGED <<fin, ready>>
      /\ made \in [0..(next - 1) -> Made] /\ clientCalls \subseteq 0..(next - 1)
      /\ wire \in [Ends -> Seq(Message)]
  BY DEF ClientMakes, IInv, Types, ClientTypes, ClientTypeOK, ServerTypes, SocketTypeOK
<1>0. PICK i \in CallIds : i = next
  BY <1>1
<1>2. PICK m \in Called[next] : Make(m)
  BY DEF ClientMakes
<1>3. m \in Method
  BY <1>1, CallerAssumption
<1>4. PICK sent \in First(next, m), status \in {"pending", "threw"} :
        /\ made' = [k \in 0..next |->
                      IF k < next THEN made[k]
                      ELSE NewCall(m, sent, ready["client"] = "closed", status)]
        /\ IF status = "pending"
             THEN /\ clientCalls' = clientCalls \cup {next}
                  /\ wire' = Push(wire, "client", IF m.clientStreaming
                                                    THEN CallClientStream(next, m)
                                                    ELSE Call(next, m, sent[1]))
             ELSE UNCHANGED <<clientCalls, wire>>
  BY <1>2 DEF Make
<1>5. PICK late \in BOOLEAN : late <=> ready["client"] = "closed"
  OBVIOUS
<1>6. /\ CallOf(i) = [status |-> "none", sent |-> <<>>, received |-> <<>>]
      /\ CallOf(i)' = NewCall(m, sent, late, status)
      /\ \A j \in CallIds \ {i} : CallOf(j)' = CallOf(j)
  <2>1. DOMAIN made = 0..(next - 1) /\ DOMAIN made' = 0..next /\ i \notin DOMAIN made
    BY <1>0, <1>1, <1>4
  <2>2. made'[i] = NewCall(m, sent, late, status)
    BY <1>0, <1>1, <1>4, <1>5
  <2>3. ASSUME NEW j \in CallIds \ {i}
        PROVE  /\ j \in DOMAIN made' <=> j \in DOMAIN made
               /\ j \in DOMAIN made => made'[j] = made[j]
    <3>1. j \in Nat
      BY RpcAssumption
    <3> QED
      BY <1>0, <1>1, <1>4, <2>1, <3>1
  <2> QED
    BY <1>0, <1>1, <2>1, <2>2, <2>3 DEF CallOf
<1>7. \A j : RunOf(j)' = RunOf(j)
  BY RunsSame DEF serverVars
<1>8. /\ m.clientStreaming => CallClientStream(i, m) \in Message
      /\ ~m.clientStreaming => Call(i, m, sent[1]) \in Message
  BY <1>0, <1>1, <1>3, FirstTypes, RequestFrames
<1>9. PICK f : f = IF m.clientStreaming THEN CallClientStream(i, m) ELSE Call(i, m, sent[1])
  OBVIOUS
<1>10. f.id = i /\ f \in Message
  <2>1. f.id = i
    BY <1>9 DEF CallClientStream, Call
  <2> QED
    BY <1>8, <1>9, <2>1
<1>11. CASE status = "pending"
  <2>1. /\ clientCalls' = clientCalls \cup {i} /\ wire' = Push(wire, "client", f)
    BY <1>0, <1>4, <1>9, <1>11
  <2>2. /\ wire'["client"] = wire["client"]
        /\ \A j : Of(j, wire'["server"]) =
             IF j = i THEN Sent(Of(j, wire["server"]), Carries("server"), f)
                         ELSE Of(j, wire["server"])
    <3>1. PICK g \in Message : g = f
      BY <1>10
    <3>2. wire' = Push(wire, "client", g) /\ g.id = i
      BY <1>10, <2>1, <3>1
    <3>3. ASSUME NEW j
          PROVE  /\ wire'["client"] = wire["client"]
                 /\ Of(j, wire'["server"]) =
                      IF g.id = j THEN Sent(Of(j, wire["server"]), Carries("server"), g)
                                  ELSE Of(j, wire["server"])
      BY <1>1, <3>2, PushFrames
    <3> QED
      BY <3>1, <3>2, <3>3
  <2>3. Elsewhere(i)
    BY <1>6, <1>7, <2>1, <2>2 DEF Elsewhere
  <2>4. Line'.up = Carries("server")
    BY <1>0, <1>1, LineSame DEF Line
  <2>5. IsMade(i, View(i), View(i)', Line')
    <3>1. View(i).up = Of(i, wire["server"]) /\ View(i).call.status = "none"
      BY <1>0, <1>6 DEF View
    <3>2. View(i)'.up = Sent(View(i).up, Line'.up, f)
      BY <2>2, <2>4, <3>1, ViewThen
    <3>3. View(i)'.run = View(i).run /\ View(i)'.down = View(i).down
      BY <1>7, <2>2, ViewThen DEF View
    <3>4. View(i)'.call = NewCall(m, sent, late, status) /\ View(i)'.inTable
      BY <1>6, <2>1, ViewThen
    <3> QED
      BY <1>0, <1>3, <1>4, <1>9, <1>11, <3>1, <3>2, <3>3, <3>4 DEF IsMade
  <2> QED
    BY <1>0, <1>1, <2>3, <2>5, MovesIf DEF Move
<1>12. CASE status = "threw"
  <2>1. UNCHANGED <<clientCalls, wire>> /\ i \notin clientCalls'
    BY <1>0, <1>1, <1>4, <1>12
  <2>2. Elsewhere(i)
    BY <1>6, <1>7, <2>1 DEF Elsewhere
  <2>3. IsMade(i, View(i), View(i)', Line')
    <3>1. View(i).call.status = "none"
      BY <1>0, <1>6 DEF View
    <3>2. /\ View(i)'.run = View(i).run /\ View(i)'.down = View(i).down
          /\ View(i)'.up = View(i).up
      BY <1>7, <2>1, ViewThen DEF View
    <3>3. View(i)'.call = NewCall(m, sent, late, status) /\ ~View(i)'.inTable
      BY <1>6, <2>1, ViewThen
    <3> QED
      BY <1>0, <1>3, <1>4, <1>12, <3>1, <3>2, <3>3 DEF IsMade
  <2> QED
    BY <1>0, <1>1, <2>2, <2>3, MovesIf DEF Move
<1> QED
  BY <1>4, <1>11, <1>12

\* What the client sends joins the frames of its call.
LEMMA SendsUp ==
  ASSUME NEW w \in [Ends -> Seq(Message)], NEW f \in Message, NEW i, f.id = i,
         wire' = Push(w, "client", f), UNCHANGED <<fin, ready>>
  PROVE  /\ wire'["client"] = w["client"]
         /\ Of(i, wire'["server"]) = Sent(Of(i, w["server"]), Line'.up, f)
         /\ \A j : j # i => Of(j, wire'["server"]) = Of(j, w["server"])
<1>1. ASSUME NEW j
      PROVE  /\ Push(w, "client", f)["client"] = w["client"]
             /\ Of(j, Push(w, "client", f)["server"]) =
                  IF f.id = j THEN Sent(Of(j, w["server"]), Carries("server"), f)
                              ELSE Of(j, w["server"])
  BY PushFrames
<1>2. Line'.up = Carries("server")
  BY LineSame DEF Line
<1> QED
  BY <1>1, <1>2

\* One of the calls changes for its caller.
LEMMA CallChanges ==
  ASSUME ClientTypes, NEW i \in DOMAIN made, NEW m, made' = [made EXCEPT ![i] = m],
         UNCHANGED runs
  PROVE  /\ View(i).call = made[i] /\ View(i)'.call = m /\ View(i)'.run = View(i).run
         /\ \A j \in CallIds \ {i} : CallOf(j)' = CallOf(j) /\ RunOf(j)' = RunOf(j)
<1>1. View(i).call = CallOf(i) /\ View(i).run = RunOf(i)
  BY DEF View
<1> QED
  BY <1>1, CallsKept, RunsSame, ViewThen

\* The caller writes to the request stream of a call, or completes it.
LEMMA StreamMove ==
  ASSUME IInv, EachGood, NEW i \in DOMAIN made,
         ClientStreamSends(i) \/ ClientStreamCompletes(i), UNCHANGED serverVars
  PROVE  Moves
<1>1. /\ i \in CallIds /\ i \in Nat /\ made[i] \in Made /\ wire \in [Ends -> Seq(Message)]
      /\ UNCHANGED <<next, clientCalls, fin, ready, runs>> /\ ClientTypes
      /\ made[i].method.clientStreaming /\ made[i].status # "threw"
      /\ made[i].completed => ~made[i].misused
  BY RpcAssumption
  DEF IInv, Types, ServerTypes, ClientTypes, ClientTypeOK, SocketTypeOK, ClientStreamSends,
      ClientStreamCompletes, HasStream, serverVars
<1>2. ASSUME NEW m, made' = [made EXCEPT ![i] = m], NEW f \in Message, f.id = i,
             wire' = Push(wire, "client", f)
      PROVE  /\ Elsewhere(i)
             /\ View(i).call = made[i] /\ View(i)'.call = m /\ View(i)'.run = View(i).run
             /\ View(i)'.inTable = View(i).inTable /\ View(i)'.down = View(i).down
             /\ View(i)'.up = Sent(View(i).up, Line'.up, f)
  <2>1. /\ View(i).call = made[i] /\ View(i)'.call = m /\ View(i)'.run = View(i).run
        /\ \A j \in CallIds \ {i} : CallOf(j)' = CallOf(j) /\ RunOf(j)' = RunOf(j)
    BY <1>1, <1>2, CallChanges
  <2>2. /\ wire'["client"] = wire["client"]
        /\ Of(i, wire'["server"]) = Sent(Of(i, wire["server"]), Line'.up, f)
        /\ \A j : j # i => Of(j, wire'["server"]) = Of(j, wire["server"])
    BY <1>1, <1>2, SendsUp
  <2>3. Elsewhere(i)
    BY <1>1, <2>1, <2>2 DEF Elsewhere
  <2>4. /\ View(i)'.inTable = View(i).inTable /\ View(i)'.down = View(i).down
        /\ View(i)'.up = Sent(View(i).up, Line'.up, f)
    BY <1>1, <2>2, ViewThen DEF View
  <2> QED
    BY <2>1, <2>3, <2>4
<1>3. CASE ClientStreamSends(i)
  <2>1. PICK b \in {[call |-> i, n |-> Len(made[i].sent) + 1]} \cup Malformed :
          /\ made' = IF made[i].completed
                       THEN [made EXCEPT ![i].misused = TRUE]
                       ELSE [made EXCEPT ![i].sent = Append(@, b)]
          /\ wire' = Push(wire, "client", StreamSend(i, b))
    BY <1>3 DEF ClientStreamSends
  <2>2. b \in Body
    <3>1. Len(made[i].sent) + 1 \in Nat
      BY <1>1 DEF Made
    <3> QED
      BY <1>1, <2>1, <3>1 DEF Body
  <2> DEFINE m == IF made[i].completed THEN [made[i] EXCEPT !.misused = TRUE]
                                       ELSE [made[i] EXCEPT !.sent = Append(@, b)]
  <2>3. made' = [made EXCEPT ![i] = m]
    BY <2>1
  <2>4. PICK f \in Message : f = StreamSend(i, b)
    BY <1>1, <2>2, RequestFrames
  <2>5. f.id = i
    BY <2>4 DEF StreamSend
  <2> HIDE DEF m
  <2>6. /\ Elsewhere(i)
        /\ View(i).call = made[i] /\ View(i)'.call = m /\ View(i)'.run = View(i).run
        /\ View(i)'.inTable = View(i).inTable /\ View(i)'.down = View(i).down
        /\ View(i)'.up = Sent(View(i).up, Line'.up, f)
    BY <1>2, <2>1, <2>3, <2>4, <2>5
  <2>7. View(i).call.status \notin {"none", "threw"}
    BY <1>1, <2>6 DEF Made
  <2>8. SendsRequest(i, View(i), View(i)', Line')
    BY <1>1, <2>2, <2>4, <2>6, <2>7 DEF SendsRequest, m
  <2> QED
    BY <1>1, <2>6, <2>8, MovesIf DEF Move
<1>4. CASE ClientStreamCompletes(i)
  <2> DEFINE m == [made[i] EXCEPT !.completed = TRUE, !.misused = made[i].completed]
  <2>1. made' = [made EXCEPT ![i] = m] /\ wire' = Push(wire, "client", StreamClose(i))
    BY <1>4 DEF ClientStreamCompletes
  <2>2. PICK f \in Message : f = StreamClose(i)
    BY <1>1, RequestFrames
  <2>3. f.id = i
    BY <2>2 DEF StreamClose
  <2> HIDE DEF m
  <2>4. /\ Elsewhere(i)
        /\ View(i).call = made[i] /\ View(i)'.call = m /\ View(i)'.run = View(i).run
        /\ View(i)'.inTable = View(i).inTable /\ View(i)'.down = View(i).down
        /\ View(i)'.up = Sent(View(i).up, Line'.up, f)
    BY <1>2, <2>1, <2>2, <2>3
  <2>5. View(i).call.status \notin {"none", "threw"}
    BY <1>1, <2>4 DEF Made
  <2>6. ~View(i).call.misused
    <3>1. Good(View(i), Line)
      BY <1>1 DEF EachGood
    <3>2. View(i).call.misused => View(i).call.completed
      BY <2>5, <3>1 DEF Good, Shape
    <3> QED
      BY <1>1, <2>4, <3>2
  <2>7. CompletesRequests(i, View(i), View(i)', Line')
    BY <1>1, <2>2, <2>4, <2>5, <2>6 DEF CompletesRequests, m
  <2> QED
    BY <1>1, <2>4, <2>7, MovesIf DEF Move
<1> QED
  BY <1>3, <1>4

\* What the client takes off the wire is the oldest frame of its call.
LEMMA TakesDown ==
  ASSUME SocketTypeOK(Message), Deliverable("client"), NEW i, Received.id = i
  PROVE  /\ Of(i, wire["client"]) # <<>> /\ Of(i, wire["client"])[1] = Received
         /\ Of(i, Pop(wire, "client")["client"]) = Tail(Of(i, wire["client"]))
         /\ \A j : j # i => Of(j, Pop(wire, "client")["client"]) = Of(j, wire["client"])
         /\ Line.client
<1>1. wire \in [Ends -> Seq(Message)] /\ wire["client"] # <<>>
  BY DEF Deliverable, SocketTypeOK
<1>2. wire["client"] \in Seq(Frame)
  BY <1>1, Wires
<1>3. wire["client"][1] = Received /\ Pop(wire, "client")["client"] = Tail(wire["client"])
  BY <1>1, <1>2 DEF Received, Pop, Ends
<1>4. Line.client
  BY DEF Line, Listens, Deliverable
<1>5. ASSUME NEW j
      PROVE  /\ wire["client"][1].id # j => Of(j, Tail(wire["client"])) = Of(j, wire["client"])
             /\ wire["client"][1].id = j => /\ Of(j, wire["client"]) # <<>>
                                            /\ Of(j, wire["client"])[1] = wire["client"][1]
                                            /\ Of(j, Tail(wire["client"])) = Tail(Of(j, wire["client"]))
  BY <1>1, <1>2, OfFacts
<1> QED
  BY <1>3, <1>4, <1>5

\* A call in the table is pending.
LEMMA TablePending ==
  ASSUME EachGood, NEW i \in CallIds, i \in clientCalls, CallOf(i) = made[i]
  PROVE  Pending(i)
BY DEF EachGood, Good, Shape, View, Pending

\* The client handles a frame.
LEMMA HandlesMove ==
  ASSUME IInv, IInv', EachGood, ClientHandles, UNCHANGED serverVars
  PROVE  Moves
<1>0. /\ Deliverable("client") /\ UNCHANGED <<next, fin, ready, runs>>
      /\ SocketTypeOK(Message) /\ ClientTypes /\ wire \in [Ends -> Seq(Message)]
  BY DEF ClientHandles, ClientIgnores, ClientError, ClientResponse, ClientStreamRecv,
         ClientStreamClosed, Receives, Take, serverVars, IInv, Types, ServerTypes, SocketTypeOK
<1>1. Pop(wire, "client") \in [Ends -> Seq(Message)] /\ Pop(wire, "client")["server"] = wire["server"]
  BY <1>0, Receipt
<1>2. PICK i \in CallIds : i = Received.id
  BY <1>0, Receipt
<1>3. i \in clientCalls => i \in DOMAIN made /\ made[i] \in Made /\ CallOf(i) = made[i]
  BY <1>0 DEF ClientTypes, ClientTypeOK, CallOf
<1>4. Line' = Line
  BY <1>0, LineSame
<1> DEFINE f == Received
<1>5. /\ View(i).down # <<>> /\ View(i).down[1] = f /\ Line'.client
      /\ Of(i, Pop(wire, "client")["client"]) = Tail(View(i).down)
      /\ \A j : j # i => Of(j, Pop(wire, "client")["client"]) = Of(j, wire["client"])
      /\ View(i).up = Of(i, wire["server"])
      /\ View(i).inTable = (i \in clientCalls) /\ View(i).call = CallOf(i)
  BY <1>0, <1>2, <1>4, TakesDown DEF View
<1> HIDE DEF f
\* The frame is taken, and call i becomes c.
<1>6. ASSUME NEW c, wire' = Pop(wire, "client"),
             \/ UNCHANGED made /\ c = CallOf(i)
             \/ i \in clientCalls /\ made' = [made EXCEPT ![i] = c],
             \/ UNCHANGED clientCalls
             \/ clientCalls' = clientCalls \ {i}
      PROVE  /\ Elsewhere(i) /\ Takes(View(i), View(i)', Line')
             /\ View(i)'.call = c /\ View(i)'.up = View(i).up
             /\ View(i)'.inTable = (i \in clientCalls')
  <2>1. CallOf(i)' = c /\ \A j \in CallIds \ {i} : CallOf(j)' = CallOf(j)
    <3>1. CASE UNCHANGED made /\ c = CallOf(i)
      BY <3>1 DEF CallOf
    <3>2. CASE i \in clientCalls /\ made' = [made EXCEPT ![i] = c]
      BY <1>0, <1>3, <3>2, CallsKept
    <3> QED
      BY <1>6, <3>1, <3>2
  <2>2. \A j : RunOf(j)' = RunOf(j)
    BY <1>0, RunsSame
  <2>3. Elsewhere(i)
    BY <1>1, <1>5, <1>6, <2>1, <2>2 DEF Elsewhere
  <2>4. View(i)'.run = View(i).run /\ View(i)'.down = Tail(View(i).down)
    BY <1>5, <1>6, <2>2, ViewThen DEF View
  <2> QED
    BY <1>1, <1>5, <1>6, <2>1, <2>3, <2>4, ViewThen DEF Takes
<1>13. i \in clientCalls => Pending(i)
  BY <1>3, TablePending
<1>14. f.oneofKind # "none"
  <2>1. Good(View(i), Line)
    BY DEF EachGood
  <2>2. View(i).down \in Seq(Frame) /\ DownFrame(View(i), 1)
    BY <1>5, <2>1, EmptySeq DEF Good, Typed, Shape
  <2> QED
    BY <1>5, <2>2 DEF DownFrame
<1>7. CASE ClientIgnores
  <2>1. /\ i \notin clientCalls /\ UNCHANGED <<made, clientCalls>> /\ wire' = Pop(wire, "client")
    BY <1>2, <1>7, <1>14 DEF ClientIgnores, Take, f
  <2>2. /\ Elsewhere(i) /\ Takes(View(i), View(i)', Line')
        /\ View(i)'.call = CallOf(i) /\ View(i)'.up = View(i).up
        /\ View(i)'.inTable = (i \in clientCalls')
    BY <1>6, <2>1
  <2>3. Ignores(View(i), View(i)', Line')
    BY <1>5, <2>1, <2>2 DEF Ignores
  <2> QED
    BY <1>0, <2>2, <2>3, MovesIf DEF Move
<1>8. ASSUME NEW status, NEW received, i \in clientCalls, Settle(i, status, received),
             wire' = Pop(wire, "client")
      PROVE  /\ Elsewhere(i) /\ Takes(View(i), View(i)', Line')
             /\ View(i).inTable /\ ~View(i)'.inTable
             /\ View(i)'.call = [View(i).call EXCEPT !.status = status, !.received = received]
             /\ View(i)'.up = View(i).up
  <2> DEFINE c == [made[i] EXCEPT !.status = status, !.received = received]
  <2>1. made' = [made EXCEPT ![i] = c] /\ clientCalls' = clientCalls \ {i}
    BY <1>8, <1>13 DEF Settle
  <2> HIDE DEF c
  <2>2. /\ Elsewhere(i) /\ Takes(View(i), View(i)', Line')
        /\ View(i)'.call = c /\ View(i)'.up = View(i).up
        /\ View(i)'.inTable = (i \in clientCalls')
    BY <1>6, <1>8, <2>1
  <2> QED
    BY <1>3, <1>5, <1>8, <2>1, <2>2 DEF c
<1>9. CASE ClientError
  <2>1. /\ i \in clientCalls /\ Settle(i, "err", made[i].received) /\ wire' = Pop(wire, "client")
        /\ \/ f.oneofKind = "error"
           \/ f.oneofKind = "callResponse" /\ made[i].method.serverStreaming
           \/ f.oneofKind = "streamRecv" /\ ~made[i].method.serverStreaming
           \/ f.oneofKind \in {"callResponse", "streamRecv"} /\ f.body \in Malformed
    BY <1>2, <1>9 DEF ClientError, Receives, Take, f
  <2>2. /\ Elsewhere(i) /\ Takes(View(i), View(i)', Line')
        /\ View(i).inTable /\ ~View(i)'.inTable
        /\ View(i)'.call = [View(i).call EXCEPT !.status = "err", !.received = made[i].received]
        /\ View(i)'.up = View(i).up
    BY <1>8, <2>1
  <2>3. View(i)'.call = [View(i).call EXCEPT !.status = "err"]
    BY <1>3, <1>5, <2>1, <2>2 DEF Made
  <2>4. Fails(View(i), View(i)', Line')
    BY <1>3, <1>5, <2>1, <2>2, <2>3 DEF Fails
  <2> QED
    BY <1>0, <2>2, <2>4, MovesIf DEF Move
<1>10. CASE ClientResponse
  <2>1. /\ i \in clientCalls /\ Settle(i, "ok", Append(made[i].received, f.body))
        /\ wire' = Pop(wire, "client")
        /\ f.oneofKind = "callResponse" /\ ~made[i].method.serverStreaming
    BY <1>2, <1>10 DEF ClientResponse, Receives, Take, Got, f
  <2>2. /\ Elsewhere(i) /\ Takes(View(i), View(i)', Line')
        /\ View(i).inTable /\ ~View(i)'.inTable
        /\ View(i)'.call =
             [View(i).call EXCEPT !.status = "ok", !.received = Append(made[i].received, f.body)]
        /\ View(i)'.up = View(i).up
    BY <1>8, <2>1
  <2>3. View(i).call = made[i]
    BY <1>3, <1>5, <2>1
  <2>4. GetsResponse(View(i), View(i)', Line')
    BY <1>5, <2>1, <2>2, <2>3 DEF GetsResponse
  <2> QED
    BY <1>0, <2>2, <2>4, MovesIf DEF Move
<1>11. CASE ClientStreamRecv
  <2> DEFINE c == [made[i] EXCEPT !.received = Append(@, f.body)]
  <2>1. /\ i \in clientCalls /\ made' = [made EXCEPT ![i] = c] /\ UNCHANGED clientCalls
        /\ wire' = Pop(wire, "client")
        /\ f.oneofKind = "streamRecv" /\ made[i].method.serverStreaming
    BY <1>2, <1>11, <1>13 DEF ClientStreamRecv, Receives, Take, Got, f
  <2> HIDE DEF c
  <2>2. /\ Elsewhere(i) /\ Takes(View(i), View(i)', Line')
        /\ View(i)'.call = c /\ View(i)'.up = View(i).up
        /\ View(i)'.inTable = (i \in clientCalls')
    BY <1>6, <2>1
  <2>3. GetsMessage(View(i), View(i)', Line')
    BY <1>3, <1>5, <2>1, <2>2 DEF GetsMessage, c
  <2> QED
    BY <1>0, <2>2, <2>3, MovesIf DEF Move
<1>12. CASE ClientStreamClosed
  <2>1. /\ i \in clientCalls /\ f.oneofKind = "streamClosed"
        /\ wire' = IF made[i].method.clientStreaming
                     THEN Push(Pop(wire, "client"), "client", StreamClose(i))
                     ELSE Pop(wire, "client")
        /\ IF made[i].method.serverStreaming
             THEN Settle(i, "ok", made[i].received)
             ELSE UNCHANGED <<made, clientCalls>>
    BY <1>2, <1>12 DEF ClientStreamClosed, Receives, f
  <2>2. PICK g \in Message : g = StreamClose(i)
    BY RequestFrames
  <2>3. g.id = i
    BY <2>2 DEF StreamClose
  <2>4. /\ wire'["client"] = Pop(wire, "client")["client"]
        /\ Of(i, wire'["server"]) = IF made[i].method.clientStreaming
                                      THEN Sent(View(i).up, Line'.up, StreamClose(i)) ELSE View(i).up
        /\ \A j : j # i => Of(j, wire'["server"]) = Of(j, wire["server"])
    <3>1. CASE made[i].method.clientStreaming
      <4>1. PICK p \in [Ends -> Seq(Message)] : p = Pop(wire, "client")
        BY <1>1
      <4>2. wire' = Push(p, "client", g)
        BY <2>1, <2>2, <3>1, <4>1
      <4>3. /\ wire'["client"] = p["client"]
            /\ Of(i, wire'["server"]) = Sent(Of(i, p["server"]), Line'.up, g)
            /\ \A j : j # i => Of(j, wire'["server"]) = Of(j, p["server"])
        BY <1>0, <2>3, <4>2, SendsUp
      <4> QED
        BY <1>1, <1>5, <2>2, <3>1, <4>1, <4>3
    <3>2. CASE ~made[i].method.clientStreaming
      BY <1>1, <1>5, <2>1, <3>2
    <3> QED
      BY <3>1, <3>2
  <2>5. \A j : RunOf(j)' = RunOf(j)
    BY <1>0, RunsSame
  <2>6. \A j \in CallIds \ {i} : CallOf(j)' = CallOf(j) /\ (j \in clientCalls' <=> j \in clientCalls)
    <3>1. CASE made[i].method.serverStreaming
      <4> DEFINE c == [made[i] EXCEPT !.status = "ok"]
      <4>1. made' = [made EXCEPT ![i] = [made[i] EXCEPT !.status = "ok", !.received = made[i].received]]
            /\ clientCalls' = clientCalls \ {i}
        BY <1>13, <2>1, <3>1 DEF Settle
      <4> QED
        BY <1>0, <1>3, <2>1, <4>1, CallsKept
    <3>2. CASE ~made[i].method.serverStreaming
      BY <2>1, <3>2 DEF CallOf
    <3> QED
      BY <3>1, <3>2
  <2>7. IF made[i].method.serverStreaming
          THEN i \notin clientCalls' /\ CallOf(i)' = [made[i] EXCEPT !.status = "ok"]
          ELSE i \in clientCalls' /\ CallOf(i)' = made[i]
    <3>1. CASE made[i].method.serverStreaming
      <4>1. made' = [made EXCEPT ![i] = [made[i] EXCEPT !.status = "ok", !.received = made[i].received]]
            /\ clientCalls' = clientCalls \ {i}
        BY <1>13, <2>1, <3>1 DEF Settle
      <4>2. CallOf(i)' = [made[i] EXCEPT !.status = "ok", !.received = made[i].received]
        BY <1>0, <1>3, <2>1, <4>1, CallsKept
      <4>3. [made[i] EXCEPT !.status = "ok", !.received = made[i].received] = [made[i] EXCEPT !.status = "ok"]
        BY <1>3, <2>1 DEF Made
      <4> QED
        BY <3>1, <4>1, <4>2, <4>3
    <3>2. CASE ~made[i].method.serverStreaming
      BY <1>3, <2>1, <3>2 DEF CallOf
    <3> QED
      BY <3>1, <3>2
  <2>8. Elsewhere(i)
    BY <1>5, <2>4, <2>5, <2>6 DEF Elsewhere
  <2>9. /\ Takes(View(i), View(i)', Line')
        /\ View(i)'.call = CallOf(i)' /\ View(i)'.inTable = (i \in clientCalls')
        /\ View(i)'.up = Of(i, wire'["server"])
    <3>1. View(i)'.run = View(i).run /\ View(i)'.down = Tail(View(i).down)
      BY <1>5, <2>4, <2>5, ViewThen DEF View
    <3> QED
      BY <1>5, <3>1, ViewThen DEF Takes
  <2>10. GetsEnd(i, View(i), View(i)', Line')
    <3>1. View(i).call = made[i] /\ View(i).inTable
      BY <1>3, <1>5, <2>1
    <3> QED
      BY <1>5, <2>1, <2>4, <2>7, <2>9, <3>1 DEF GetsEnd
  <2> QED
    BY <1>0, <2>8, <2>10, MovesIf DEF Move
<1> QED
  BY <1>7, <1>9, <1>10, <1>11, <1>12 DEF ClientHandles

\* A socket that closes carries and hands over less.
LEMMA Lowers ==
  ASSUME fin \in [Ends -> BOOLEAN],
         \A e \in Ends : fin[e] => fin'[e],
         \A e \in Ends : \/ ready'[e] = ready[e]
                         \/ ready'[e] = "closing" /\ ready[e] = "open"
                         \/ ready'[e] = "closed"
  PROVE  Lowered(Line, Line')
BY DEF Lowered, Line, Carries, Listens, Peer, Ends

\* Steps in which no call changes for its caller or its handler.
LEMMA WireMoves ==
  ASSUME UNCHANGED <<made, clientCalls, runs>>, Lowered(Line, Line'),
         \A i \in CallIds :
           /\ Cut(Of(i, wire["server"]), Of(i, wire'["server"]), Line'.up, Line'.server)
           /\ Cut(Of(i, wire["client"]), Of(i, wire'["client"]), Line'.down, Line'.client)
  PROVE  Moves
<1>1. ASSUME NEW i \in CallIds PROVE Move(i, View(i), View(i)', Line')
  <2>1. CallOf(i)' = CallOf(i) /\ RunOf(i)' = RunOf(i)
    BY RunsSame DEF CallOf
  <2> QED
    BY <2>1, RestsIf
<1> QED
  BY <1>1 DEF Moves

\* The connection drops frames, closes, or is lost.
LEMMA SocketMove ==
  ASSUME IInv, SocketStep, UNCHANGED <<clientVars, serverVars>>
  PROVE  Moves
<1>1. /\ UNCHANGED <<made, clientCalls, runs>>
      /\ wire \in [Ends -> Seq(Message)] /\ fin \in [Ends -> BOOLEAN]
      /\ ready \in [Ends -> {"open", "closing", "closed"}]
  BY DEF clientVars, serverVars, IInv, Types, ServerTypes, SocketTypeOK
<1>2. wire["server"] \in Seq(Frame) /\ wire["client"] \in Seq(Frame)
  BY <1>1, Wires
<1>3. ASSUME NEW e \in Ends, Discard(e) PROVE Moves
  <2>1. /\ wire' = Pop(wire, e) /\ wire[e] # <<>> /\ UNCHANGED <<fin, ready>>
        /\ ~LateDelivery /\ ready[e] = "closing"
    BY <1>3 DEF Discard
  <2>2. Line' = Line /\ Lowered(Line, Line') /\ ~Listens(e)
    BY <2>1, LineSame DEF Listens
  <2>3. ASSUME NEW s \in Seq(Frame), s # <<>>, NEW i
        PROVE  \/ Of(i, Tail(s)) = Of(i, s)
               \/ Of(i, s) # <<>> /\ Of(i, Tail(s)) = Tail(Of(i, s))
    BY <2>3, OfFacts
  <2>4. CASE e = "server"
    <3>1. wire'["server"] = Tail(wire["server"]) /\ wire'["client"] = wire["client"]
      BY <1>1, <2>1, <2>4 DEF Pop, Ends
    <3>2. ~Line'.server
      BY <2>2, <2>4 DEF Line
    <3> QED
      BY <1>1, <1>2, <2>1, <2>2, <2>3, <2>4, <3>1, <3>2, WireMoves DEF Cut
  <2>5. CASE e = "client"
    <3>1. wire'["client"] = Tail(wire["client"]) /\ wire'["server"] = wire["server"]
      BY <1>1, <2>1, <2>5 DEF Pop, Ends
    <3>2. ~Line'.client
      BY <2>2, <2>5 DEF Line
    <3> QED
      BY <1>1, <1>2, <2>1, <2>2, <2>3, <2>5, <3>1, <3>2, WireMoves DEF Cut
  <2> QED
    BY <2>4, <2>5 DEF Ends
<1>4. ASSUME NEW e \in Ends, UserClose(e) PROVE Moves
  <2>1. UNCHANGED wire /\ CloseSocket(e)
    BY <1>4 DEF UserClose
  <2>2. Lowered(Line, Line')
    BY <1>1, <2>1, Lowers DEF CloseSocket, Ends, Peer
  <2> QED
    BY <1>1, <2>1, <2>2, WireMoves DEF Cut
<1>5. CASE Lose
  <2>1. PICK m \in 0..Len(wire["client"]), n \in 0..Len(wire["server"]) :
          wire' = [e \in Ends |-> SubSeq(wire[e], 1, IF e = "client" THEN m ELSE n)]
    BY <1>5 DEF Lose
  <2>2. fin' = [e \in Ends |-> TRUE] /\ ready' = ready
    BY <1>5 DEF Lose
  <2>3. Lowered(Line, Line')
    BY <1>1, <2>2, Lowers
  <2>4. ~Line'.up /\ ~Line'.down
    BY <2>2 DEF Line, Carries, Ends
  <2>5. /\ wire'["client"] = SubSeq(wire["client"], 1, m)
        /\ wire'["server"] = SubSeq(wire["server"], 1, n)
    BY <2>1 DEF Ends
  <2>6. ASSUME NEW i
        PROVE  /\ \E k \in 0..Len(Of(i, wire["client"])) :
                    Of(i, wire'["client"]) = SubSeq(Of(i, wire["client"]), 1, k)
               /\ \E k \in 0..Len(Of(i, wire["server"])) :
                    Of(i, wire'["server"]) = SubSeq(Of(i, wire["server"]), 1, k)
    <3>1. ASSUME NEW s \in Seq(Frame), NEW j \in 0..Len(s)
          PROVE  \E k \in 0..Len(Of(i, s)) : Of(i, SubSeq(s, 1, j)) = SubSeq(Of(i, s), 1, k)
      BY OfCut
    <3> QED
      BY <1>2, <2>1, <2>5, <3>1
  <2> QED
    BY <1>1, <2>3, <2>4, <2>6, WireMoves DEF Cut
<1> QED
  BY <1>3, <1>4, <1>5 DEF SocketStep

\* A call that a callback of abortAll makes.
LEMMA RetryIs ==
  ASSUME NEW i, NEW outcomes, NEW c, c \in Retries(i, outcomes)
  PROVE  \E m, sent, late, status :
           /\ m \in Called[i] /\ sent \in First(i, m) /\ late \in BOOLEAN /\ status \in outcomes
           /\ c = NewCall(m, sent, late, status)
<1>1. PICK m \in Called[i] :
        c \in {NewCall(m, sent, FALSE, status) : sent \in First(i, m), status \in outcomes}
  BY DEF Retries, NewCall
<1>2. PICK sent \in First(i, m), status \in outcomes : c = NewCall(m, sent, FALSE, status)
  BY <1>1 DEF NewCall
<1>3. PICK late \in BOOLEAN : late = FALSE
  OBVIOUS
<1>4. c = NewCall(m, sent, late, status)
  BY <1>2, <1>3 DEF NewCall
<1> QED
  BY <1>4

\* The close event at the client.
LEMMA CloseMove ==
  ASSUME IInv, IInv', EachGood, ClientOnClose, UNCHANGED serverVars
  PROVE  Moves
<1>0. PICK outcomes : outcomes = {"err", "threw"}
  OBVIOUS
<1>1. /\ next \in Nat /\ made \in [0..(next - 1) -> Made] /\ clientCalls \subseteq 0..(next - 1)
      /\ CallIds \subseteq Nat /\ fin \in [Ends -> BOOLEAN]
      /\ ready \in [Ends -> {"open", "closing", "closed"}]
  BY RpcAssumption DEF IInv, Types, ClientTypes, ClientTypeOK, ServerTypes, SocketTypeOK
<1>2. AbortAll(outcomes) /\ CloseEvent("client")
  BY <1>0 DEF ClientOnClose
<1>3. PICK n \in {next} \cup {i + 1 : i \in CallIds} :
        /\ next <= n /\ next..(n - 1) \subseteq CallIds
        /\ next' = n
        /\ \E new \in [next..(n - 1) -> UNION {Retries(i, outcomes) : i \in CallIds}] :
             /\ \A i \in DOMAIN new : new[i] \in Retries(i, outcomes)
             /\ made' = [i \in 0..(n - 1) |->
                           IF i >= next THEN new[i]
                           ELSE IF i \in clientCalls /\ Pending(i)
                             THEN [made[i] EXCEPT !.status = "err"]
                           ELSE made[i]]
  BY <1>2 DEF AbortAll
<1>4. PICK new \in [next..(n - 1) -> UNION {Retries(i, outcomes) : i \in CallIds}] :
        /\ \A i \in next..(n - 1) : new[i] \in Retries(i, outcomes)
        /\ made' = [i \in 0..(n - 1) |->
                      IF i >= next THEN new[i]
                      ELSE IF i \in clientCalls /\ Pending(i)
                        THEN [made[i] EXCEPT !.status = "err"]
                      ELSE made[i]]
  BY <1>3
<1>5. n \in Nat /\ clientCalls' = {} /\ UNCHANGED wire
  BY <1>1, <1>2, <1>3 DEF AbortAll, CloseEvent
<1>6. Lowered(Line, Line') /\ Line'.ended
  <2>1. ready' = [ready EXCEPT !["client"] = "closed"] /\ fin' = [fin EXCEPT !["server"] = TRUE]
    BY <1>2 DEF CloseEvent, Peer
  <2>2. Line'.ended
    BY <1>1, <2>1 DEF Line, Ends
  <2>3. Lowered(Line, Line')
    BY <1>1, <2>1, Lowers DEF Ends
  <2> QED
    BY <2>2, <2>3
<1>7. \A i : RunOf(i)' = RunOf(i)
  BY RunsSame DEF serverVars
<1>8. ASSUME NEW i \in CallIds PROVE Move(i, View(i), View(i)', Line')
  <2>1. /\ View(i).call = CallOf(i) /\ View(i).inTable = (i \in clientCalls)
        /\ View(i)'.call = CallOf(i)' /\ ~View(i)'.inTable
        /\ View(i)'.run = View(i).run /\ View(i)'.up = View(i).up /\ View(i)'.down = View(i).down
    BY <1>5, <1>7, ViewThen DEF View
  <2>2. i \in Nat /\ DOMAIN made = 0..(next - 1) /\ DOMAIN made' = 0..(n - 1)
    BY <1>1, <1>4
  <2>3. CASE i < next
    <3>1. i \in DOMAIN made /\ i \in DOMAIN made'
      BY <1>1, <1>3, <1>5, <2>2, <2>3
    <3>2. CallOf(i) = made[i] /\ CallOf(i)' = made'[i]
      BY <3>1 DEF CallOf
    <3>0. i \in clientCalls => Pending(i)
      BY <3>2, TablePending
    <3>3. made'[i] = IF i \in clientCalls THEN [made[i] EXCEPT !.status = "err"] ELSE made[i]
      BY <1>1, <1>4, <2>2, <2>3, <3>0, <3>1
    <3>4. Aborts(View(i), View(i)', Line')
      BY <1>6, <2>1, <3>2, <3>3 DEF Aborts
    <3> QED
      BY <3>4 DEF Move
  <2>4. CASE next <= i /\ i < n
    <3>1. i \in next..(n - 1) /\ i \in DOMAIN made' /\ i \notin DOMAIN made
      BY <1>1, <1>5, <2>2, <2>4
    <3>2. made'[i] = new[i] /\ new[i] \in Retries(i, outcomes)
      BY <1>1, <1>4, <2>2, <2>4, <3>1
    <3>0. PICK c : c = new[i] /\ c \in Retries(i, outcomes)
      BY <3>2
    <3>3. PICK m, sent, late, status :
            /\ m \in Called[i] /\ sent \in First(i, m) /\ late \in BOOLEAN /\ status \in outcomes
            /\ c = NewCall(m, sent, late, status)
      BY <3>0, RetryIs
    <3>4. new[i] = NewCall(m, sent, late, status)
      BY <3>0, <3>3
    <3>5. m \in Method
      BY <3>3, CallerAssumption
    <3>6. View(i).call.status = "none" /\ View(i)'.call = NewCall(m, sent, late, status)
      BY <2>1, <3>1, <3>2, <3>4 DEF CallOf
    <3>7. IsMade(i, View(i), View(i)', Line')
      BY <1>0, <1>6, <2>1, <3>3, <3>4, <3>5, <3>6 DEF IsMade
    <3> QED
      BY <3>7 DEF Move
  <2>5. CASE n <= i
    <3>1. i \notin DOMAIN made /\ i \notin DOMAIN made' /\ i \notin clientCalls
      BY <1>1, <1>3, <1>5, <2>2, <2>5
    <3>2. CallOf(i)' = CallOf(i)
      BY <3>1 DEF CallOf
    <3>3. Aborts(View(i), View(i)', Line')
      BY <1>6, <2>1, <3>1, <3>2 DEF Aborts
    <3> QED
      BY <3>3 DEF Move
  <2> QED
    BY <1>1, <1>3, <1>5, <2>2, <2>3, <2>4, <2>5
<1> QED
  BY <1>6, <1>8 DEF Moves

\* Every step of the client is a step of each call.
LEMMA ClientMoves ==
  ASSUME IInv, IInv', EachGood, ClientNext, UNCHANGED serverVars
  PROVE  Moves
BY MakesMove, StreamMove, HandlesMove, CloseMove DEF ClientNext, ClientReceive, Caller

-----------------------------------------------------------------------------
(* The server.                                                              *)

\* What the server sends joins the frames of its call.
LEMMA SendsDown ==
  ASSUME NEW w \in [Ends -> Seq(Message)], NEW f \in Message, NEW i, f.id = i,
         UNCHANGED <<fin, ready>>
  PROVE  /\ Push(w, "server", f) \in [Ends -> Seq(Message)]
         /\ Push(w, "server", f)["server"] = w["server"]
         /\ Of(i, Push(w, "server", f)["client"]) = Sent(Of(i, w["client"]), Line'.down, f)
<1>1. /\ Push(w, "server", f)["server"] = w["server"]
      /\ Of(i, Push(w, "server", f)["client"]) = Sent(Of(i, w["client"]), Carries("client"), f)
  BY PushFrames
<1>2. Line'.down = Carries("client")
  BY LineSame DEF Line
<1>3. Push(w, "server", f) \in [Ends -> Seq(Message)]
  BY Sending
<1> QED
  BY <1>1, <1>2, <1>3

\* And no other call sees it.
LEMMA SendsAside ==
  ASSUME NEW w \in [Ends -> Seq(Message)], NEW f \in Message, NEW j, f.id # j
  PROVE  Of(j, Push(w, "server", f)["client"]) = Of(j, w["client"])
BY PushFrames

\* What the server takes off the wire is the oldest frame of its call.
LEMMA TakesUp ==
  ASSUME ServerTypes, Deliverable("server"), NEW i, Arrived.id = i
  PROVE  /\ Of(i, wire["server"]) # <<>> /\ Of(i, wire["server"])[1] = Arrived
         /\ Of(i, Tail(wire["server"])) = Tail(Of(i, wire["server"]))
         /\ \A j : j # i => Of(j, Tail(wire["server"])) = Of(j, wire["server"])
         /\ Line.server
<1>1. wire \in [Ends -> Seq(Message)] /\ wire["server"] # <<>>
  BY DEF Deliverable, ServerTypes, SocketTypeOK
<1>2. wire["server"] \in Seq(Frame)
  BY <1>1, Wires
<1>3. wire["server"][1] = Arrived
  BY <1>1, <1>2 DEF Arrived, Ends
<1>4. Line.server
  BY DEF Line, Listens, Deliverable
<1>5. ASSUME NEW j
      PROVE  /\ wire["server"][1].id # j => Of(j, Tail(wire["server"])) = Of(j, wire["server"])
             /\ wire["server"][1].id = j => /\ Of(j, wire["server"]) # <<>>
                                            /\ Of(j, wire["server"])[1] = wire["server"][1]
                                            /\ Of(j, Tail(wire["server"])) = Tail(Of(j, wire["server"]))
  BY <1>1, <1>2, OfFacts
<1> QED
  BY <1>3, <1>4, <1>5

\* The handler of a call changes, and no other.
LEMMA RunChanges ==
  ASSUME IInv, IInv', NEW a \in DOMAIN runs, OnlyRun(a), NEW i \in CallIds, runs[a].id = i
  PROVE  /\ RunOf(i) = runs[a] /\ RunOf(i)' = runs'[a]
         /\ \A j \in CallIds \ {i} : RunOf(j)' = RunOf(j)
<1>1. ServerTypes /\ OneRun /\ ServerTypes' /\ OneRun'
  BY DEF IInv, Types
<1>2. /\ DOMAIN runs' = DOMAIN runs
      /\ \A s \in DOMAIN runs : runs'[s].id = runs[s].id /\ (s # a => runs'[s] = runs[s])
  BY DEF OnlyRun
<1>3. RunOf(i) = runs[a] /\ RunOf(i)' = runs'[a]
  BY <1>1, <1>2, RunIs, RunIsThen
<1>4. ASSUME NEW j \in CallIds \ {i} PROVE RunOf(j)' = RunOf(j)
  <2>1. CASE \E r \in DOMAIN runs : runs[r].id = j
    <3>1. PICK r \in DOMAIN runs : runs[r].id = j
      BY <2>1
    <3>2. runs'[r] = runs[r] /\ r \in DOMAIN runs'
      BY <1>2, <3>1
    <3>3. RunOf(j) = runs[r]
      BY <1>1, <3>1, RunIs
    <3>4. RunOf(j)' = runs'[r]
      BY <1>1, <3>1, <3>2, RunIsThen
    <3> QED
      BY <3>2, <3>3, <3>4
  <2>2. CASE ~\E r \in DOMAIN runs : runs[r].id = j
    <3>1. RunsOf(j) = {} /\ RunsOf(j)' = {}
      BY <1>2, <2>2 DEF RunsOf
    <3> QED
      BY <3>1 DEF RunOf
  <2> QED
    BY <2>1, <2>2
<1> QED
  BY <1>3, <1>4

\* A handler starts, and the others stay.
LEMMA RunStarts ==
  ASSUME IInv, IInv', NEW run, runs' = Append(runs, run), NEW i \in CallIds, run.id = i
  PROVE  /\ RunOf(i)' = run
         /\ \A j \in CallIds \ {i} : RunOf(j)' = RunOf(j)
<1>1. /\ ServerTypes /\ OneRun /\ ServerTypes' /\ OneRun'
      /\ runs \in Seq(Run)
  BY DEF IInv, Types, ServerTypes, ServerTypeOK
<1>2. PICK n \in Nat : n = Len(runs)
  BY <1>1
<1>3. /\ DOMAIN runs = 1..n /\ DOMAIN runs' = 1..(n + 1)
      /\ runs'[n + 1] = run /\ \A r \in 1..n : runs'[r] = runs[r]
  <2>1. runs \in [1..n -> Run]
    BY <1>1, <1>2
  <2> QED
    BY <1>2, <2>1
<1>4. n + 1 \in DOMAIN runs'
  BY <1>3
<1>5. RunOf(i)' = run
  BY <1>1, <1>3, <1>4, RunIsThen
<1>6. ASSUME NEW j \in CallIds \ {i} PROVE RunOf(j)' = RunOf(j)
  <2>1. CASE \E r \in DOMAIN runs : runs[r].id = j
    <3>1. PICK r \in DOMAIN runs : runs[r].id = j
      BY <2>1
    <3>2. runs'[r] = runs[r] /\ r \in DOMAIN runs'
      BY <1>3, <3>1
    <3>3. RunOf(j) = runs[r]
      BY <1>1, <3>1, RunIs
    <3>4. RunOf(j)' = runs'[r]
      BY <1>1, <3>1, <3>2, RunIsThen
    <3> QED
      BY <3>2, <3>3, <3>4
  <2>2. CASE ~\E r \in DOMAIN runs : runs[r].id = j
    <3>1. \A r \in DOMAIN runs' : r \in DOMAIN runs \/ r = n + 1
      BY <1>3
    <3>2. RunsOf(j) = {} /\ RunsOf(j)' = {}
      BY <1>3, <2>2, <3>1 DEF RunsOf
    <3> QED
      BY <3>2 DEF RunOf
  <2> QED
    BY <2>1, <2>2
<1> QED
  BY <1>5, <1>6

\* The handler a frame is for is the running one of its call.
LEMMA AddressedIs ==
  ASSUME IInv, NEW i \in CallIds, Arrived.id = i
  PROVE  /\ Addressed = NoCall => RunOf(i).result # "running"
         /\ Addressed # NoCall => /\ Addressed \in DOMAIN runs /\ runs[Addressed].id = i
                                  /\ RunOf(i) = runs[Addressed] /\ runs[Addressed].result = "running"
<1>1. /\ ServerTypes /\ OneRun
      /\ {r \in RunsOf(i) : runs[r].result = "running"} = {serverCalls[i]} \ {NoCall}
  BY DEF IInv, Types, TableHoldsRunning
<1>2. Addressed = serverCalls[i]
  BY DEF Addressed
<1>3. ASSUME Addressed = NoCall PROVE RunOf(i).result # "running"
  <2>1. CASE RunsOf(i) = {}
    BY <2>1 DEF RunOf
  <2>2. CASE RunsOf(i) # {}
    <3>1. PICK r \in RunsOf(i) : TRUE
      BY <2>2
    <3>2. r \in DOMAIN runs /\ runs[r].id = i
      BY DEF RunsOf
    <3>3. RunOf(i) = runs[r]
      BY <1>1, <3>2, RunIs
    <3> QED
      BY <1>1, <1>2, <1>3, <3>1, <3>3
  <2> QED
    BY <2>1, <2>2
<1>4. ASSUME Addressed # NoCall
      PROVE  /\ Addressed \in DOMAIN runs /\ runs[Addressed].id = i
             /\ RunOf(i) = runs[Addressed] /\ runs[Addressed].result = "running"
  <2>1. Addressed \in RunsOf(i) /\ runs[Addressed].result = "running"
    BY <1>1, <1>2, <1>4
  <2>2. Addressed \in DOMAIN runs /\ runs[Addressed].id = i
    BY <2>1 DEF RunsOf
  <2> QED
    BY <1>1, <2>1, <2>2, RunIs
<1> QED
  BY <1>3, <1>4

\* The server takes a frame, and call i becomes the run c, with down what is
\* on its way to its caller.
LEMMA Reaching ==
  ASSUME IInv, ServerHandles, UNCHANGED <<clientVars>>, NEW i \in CallIds, Arrived.id = i,
         \A j \in CallIds \ {i} : /\ RunOf(j)' = RunOf(j)
                                  /\ Of(j, wire'["client"]) = Of(j, wire["client"])
  PROVE  /\ Elsewhere(i) /\ UNCHANGED <<fin, ready>> /\ Line' = Line
         /\ IsRead(View(i), View(i)', Line')
         /\ View(i).up # <<>> /\ View(i).up[1] = Arrived /\ Deliverable("server")
         /\ View(i).run = RunOf(i) /\ View(i)'.run = RunOf(i)'
         /\ View(i).down = Of(i, wire["client"]) /\ View(i)'.down = Of(i, wire'["client"])
<1>1. /\ Deliverable("server") /\ wire'["server"] = Tail(wire["server"])
      /\ UNCHANGED <<fin, ready>> /\ ServerTypes
  BY HandlesEffect DEF IInv, Types
<1>2. /\ Of(i, wire["server"]) # <<>> /\ Of(i, wire["server"])[1] = Arrived
      /\ Of(i, wire'["server"]) = Tail(Of(i, wire["server"]))
      /\ \A j : j # i => Of(j, wire'["server"]) = Of(j, wire["server"])
      /\ Line.server
  BY <1>1, TakesUp
<1>3. Line' = Line
  BY <1>1, LineSame
<1>4. UNCHANGED <<made, clientCalls>> /\ \A j : CallOf(j)' = CallOf(j)
  BY DEF clientVars, CallOf
<1>5. Elsewhere(i)
  BY <1>2, <1>4 DEF Elsewhere
<1>6. /\ View(i).up = Of(i, wire["server"]) /\ View(i)'.up = Of(i, wire'["server"])
      /\ View(i)'.call = View(i).call /\ View(i)'.inTable = View(i).inTable
      /\ View(i).run = RunOf(i) /\ View(i)'.run = RunOf(i)'
      /\ View(i).down = Of(i, wire["client"]) /\ View(i)'.down = Of(i, wire'["client"])
  BY <1>4, ViewThen DEF View
<1>7. IsRead(View(i), View(i)', Line')
  BY <1>2, <1>3, <1>6 DEF IsRead
<1> QED
  BY <1>1, <1>2, <1>3, <1>5, <1>6, <1>7

\* A frame is refused.
LEMMA RefuseMove ==
  ASSUME IInv, ServerHandles, UNCHANGED clientVars, UNCHANGED runs,
         NEW code \in ErrorCode, Refuse(code), NEW i \in CallIds, Arrived.id = i,
         \/ Arrived.oneofKind = "call" /\ (Arrived.method \notin Service \/ Arrived.method.clientStreaming
                                             \/ Arrived.body \in Malformed)
         \/ Arrived.oneofKind = "callClientStream" /\ (Arrived.method \notin Service \/ ~Arrived.method.clientStreaming)
         \/ /\ Arrived.oneofKind \in {"streamSend", "streamClose", "abort"}
            /\ \/ RunOf(i).result # "running"
               \/ RunOf(i).outStream # "open"
               \/ Arrived.oneofKind = "streamSend" /\ Arrived.body \in Malformed
  PROVE  Moves
<1>1. /\ Deliverable("server") /\ UNCHANGED <<fin, ready>> /\ ServerTypes
  BY HandlesEffect DEF IInv, Types
<1>2. PICK w \in [Ends -> Seq(Message)] : w = Pop(wire, "server") /\ w["client"] = wire["client"]
  BY <1>1, Arrival
<1>3. PICK f \in Message : f = Error(i, code)
  BY Answers
<1>4. f.id = i /\ wire' = Push(w, "server", f)
  BY <1>2, <1>3 DEF Refuse, Error
<1>5. /\ Of(i, wire'["client"]) = Sent(Of(i, wire["client"]), Line'.down, f)
      /\ \A j : j # i => Of(j, wire'["client"]) = Of(j, wire["client"])
  <2>1. /\ Of(i, Push(w, "server", f)["client"]) = Sent(Of(i, w["client"]), Line'.down, f)
        /\ \A j : j # i => Of(j, Push(w, "server", f)["client"]) = Of(j, w["client"])
    <3>1. Of(i, Push(w, "server", f)["client"]) = Sent(Of(i, w["client"]), Line'.down, f)
      BY <1>1, <1>4, SendsDown
    <3>2. ASSUME NEW j, j # i
          PROVE  Of(j, Push(w, "server", f)["client"]) = Of(j, w["client"])
      BY <1>4, <3>2, SendsAside
    <3> QED
      BY <3>1, <3>2
  <2> QED
    BY <1>2, <1>4, <2>1
<1>6. \A j : RunOf(j)' = RunOf(j)
  BY RunsSame
<1>7. /\ Elsewhere(i) /\ UNCHANGED <<fin, ready>>
      /\ IsRead(View(i), View(i)', Line')
      /\ View(i).up[1] = Arrived
      /\ View(i).run = RunOf(i) /\ View(i)'.run = RunOf(i)'
      /\ View(i).down = Of(i, wire["client"]) /\ View(i)'.down = Of(i, wire'["client"])
  BY <1>5, <1>6, Reaching
<1>8. View(i)'.down = Sent(View(i).down, Line'.down, Error(i, code))
  BY <1>3, <1>5, <1>7
<1>9. View(i)'.run = View(i).run
  BY <1>6, <1>7
<1>10. \/ Arrived.oneofKind = "call" /\ (Arrived.method \notin Service \/ Arrived.method.clientStreaming
                                             \/ Arrived.body \in Malformed)
       \/ Arrived.oneofKind = "callClientStream" /\ (Arrived.method \notin Service \/ ~Arrived.method.clientStreaming)
       \/ /\ Arrived.oneofKind \in {"streamSend", "streamClose", "abort"}
          /\ \/ ~Running(View(i))
             \/ View(i).run.outStream # "open"
             \/ Arrived.oneofKind = "streamSend" /\ Arrived.body \in Malformed
  BY <1>7 DEF Running
<1>11. IsRefused(i, View(i), View(i)', Line')
  BY <1>7, <1>8, <1>9, <1>10 DEF IsRefused
<1> QED
  BY <1>7, <1>11, MovesIf DEF Move

\* A call frame starts a handler.
LEMMA StartMove ==
  ASSUME IInv, IInv', ServerHandles, UNCHANGED clientVars, Accept, NEW i \in CallIds, Arrived.id = i,
         Arrived.oneofKind \in CallKind, Arrived.method \in Service,
         Arrived.method.clientStreaming <=> Arrived.oneofKind = "callClientStream",
         Arrived.oneofKind = "call" => Arrived.body \notin Malformed,
         StartRun(IF Arrived.oneofKind = "call" THEN <<Arrived.body>> ELSE <<>>,
                  IF Arrived.oneofKind = "call" THEN "none" ELSE "open")
  PROVE  Moves
<1> DEFINE requests == IF Arrived.oneofKind = "call" THEN <<Arrived.body>> ELSE <<>>
           outStream == IF Arrived.oneofKind = "call" THEN "none" ELSE "open"
           run == [id |-> i, method |-> Arrived.method,
                   requests |-> requests, outStream |-> outStream,
                   sent |-> <<>>, closed |-> FALSE, abort |-> FALSE, result |-> "running"]
<1> HIDE DEF requests, outStream
<1>1. StartRun(requests, outStream)
  BY Zenon DEF requests, outStream
<1>2. runs' = Append(runs, run) /\ run.id = i
  BY <1>1 DEF StartRun
<1> HIDE DEF run
<1>3. /\ RunOf(i)' = run
      /\ \A j \in CallIds \ {i} : RunOf(j)' = RunOf(j)
  BY <1>2, RunStarts
<1>4. wire'["client"] = wire["client"]
  <2>1. ServerTypes /\ Deliverable("server")
    BY HandlesEffect DEF IInv, Types
  <2>2. Pop(wire, "server")["client"] = wire["client"]
    BY <2>1, Arrival
  <2> QED
    BY <2>2 DEF Accept
<1>5. /\ Elsewhere(i) /\ UNCHANGED <<fin, ready>>
      /\ IsRead(View(i), View(i)', Line')
      /\ View(i).up[1] = Arrived
      /\ View(i)'.run = run /\ View(i)'.down = View(i).down
  <2>1. \A j : Of(j, wire'["client"]) = Of(j, wire["client"])
    BY <1>4
  <2>2. /\ Elsewhere(i) /\ UNCHANGED <<fin, ready>>
        /\ IsRead(View(i), View(i)', Line')
        /\ View(i).up[1] = Arrived
        /\ View(i)'.run = RunOf(i)'
        /\ View(i).down = Of(i, wire["client"]) /\ View(i)'.down = Of(i, wire'["client"])
    BY <1>3, <2>1, Reaching
  <2> QED
    BY <1>3, <2>1, <2>2
<1>6. IsStarted(i, View(i), View(i)', Line')
  BY <1>5 DEF IsStarted, run, requests, outStream
<1> QED
  BY <1>5, <1>6, MovesIf DEF Move

\* A frame reaches the handler of its call.
LEMMA HandMove ==
  ASSUME IInv, IInv', ServerHandles, UNCHANGED clientVars, Accept, NEW i \in CallIds, Arrived.id = i,
         Addressed # NoCall, NEW run, runs' = [runs EXCEPT ![Addressed] = run],
         run.id = runs[Addressed].id,
         \/ /\ Arrived.oneofKind = "streamSend" /\ Arrived.body \notin Malformed
            /\ runs[Addressed].outStream = "open"
            /\ run = [runs[Addressed] EXCEPT !.requests = Append(@, Arrived.body)]
         \/ /\ Arrived.oneofKind = "streamClose" /\ runs[Addressed].outStream = "open"
            /\ run = [runs[Addressed] EXCEPT !.outStream = "closed"]
         \/ /\ Arrived.oneofKind = "abort"
            /\ run = [runs[Addressed] EXCEPT !.abort = TRUE]
  PROVE  Moves
<1>1. PICK a : a = Addressed
  OBVIOUS
<1>2. /\ a \in DOMAIN runs /\ runs[a].id = i
      /\ RunOf(i) = runs[a] /\ runs[a].result = "running"
  BY <1>1, AddressedIs
<1>3. OnlyRun(a) /\ runs'[a] = run
  <2>1. runs' = [runs EXCEPT ![a] = run] /\ run.id = runs[a].id
    BY <1>1
  <2> QED
    BY <1>2, <2>1 DEF OnlyRun
<1>4. /\ RunOf(i)' = run
      /\ \A j \in CallIds \ {i} : RunOf(j)' = RunOf(j)
  BY <1>2, <1>3, RunChanges
<1>5. wire'["client"] = wire["client"]
  <2>1. ServerTypes /\ Deliverable("server")
    BY HandlesEffect DEF IInv, Types
  <2>2. Pop(wire, "server")["client"] = wire["client"]
    BY <2>1, Arrival
  <2> QED
    BY <2>2 DEF Accept
<1>6. /\ Elsewhere(i) /\ UNCHANGED <<fin, ready>>
      /\ IsRead(View(i), View(i)', Line')
      /\ View(i).up[1] = Arrived /\ View(i).run = runs[a]
      /\ View(i)'.run = run /\ View(i)'.down = View(i).down
  <2>1. \A j : Of(j, wire'["client"]) = Of(j, wire["client"])
    BY <1>5
  <2>2. /\ Elsewhere(i) /\ UNCHANGED <<fin, ready>>
        /\ IsRead(View(i), View(i)', Line')
        /\ View(i).up[1] = Arrived
        /\ View(i).run = RunOf(i) /\ View(i)'.run = RunOf(i)'
        /\ View(i).down = Of(i, wire["client"]) /\ View(i)'.down = Of(i, wire'["client"])
    BY <1>4, <2>1, Reaching
  <2> QED
    BY <1>2, <1>4, <2>1, <2>2
<1>7. IsHanded(View(i), View(i)', Line')
  BY <1>1, <1>2, <1>6 DEF IsHanded, Running
<1> QED
  BY <1>6, <1>7, MovesIf DEF Move

\* The server handles a frame.
LEMMA ServerHandlesMove ==
  ASSUME IInv, IInv', EachGood, ServerHandles, UNCHANGED clientVars
  PROVE  Moves
<1>0. ServerTypes /\ Deliverable("server")
  BY HandlesEffect DEF IInv, Types
<1>1. PICK i \in CallIds : Arrived.id = i
  BY <1>0, Arrival
<1>2. CASE ServerCall
  <2>1. Arrived.oneofKind = "call"
    BY <1>2 DEF ServerCall, Arrives
  <2>2. CASE /\ Arrived.method \notin Service \/ Arrived.method.clientStreaming
             /\ Refuse("ERR_BAD_METHOD")
             /\ UNCHANGED serverVars
    <3>1. UNCHANGED runs /\ "ERR_BAD_METHOD" \in ErrorCode
      BY <2>2 DEF serverVars, ErrorCode
    <3> QED
      BY <1>1, <2>1, <2>2, <3>1, RefuseMove
  <2>3. CASE /\ Arrived.body \in Malformed
             /\ Refuse("ERR_BAD_INPUT")
             /\ UNCHANGED runs
    <3>1. "ERR_BAD_INPUT" \in ErrorCode
      BY DEF ErrorCode
    <3> QED
      BY <1>1, <2>1, <2>3, <3>1, RefuseMove
  <2>4. CASE /\ Arrived.method \in Service /\ ~Arrived.method.clientStreaming
             /\ Arrived.body \notin Malformed
             /\ StartRun(<<Arrived.body>>, "none")
             /\ Accept
    <3>1. StartRun(IF Arrived.oneofKind = "call" THEN <<Arrived.body>> ELSE <<>>,
                   IF Arrived.oneofKind = "call" THEN "none" ELSE "open")
      BY <2>1, <2>4, Zenon
    <3>2. /\ Arrived.oneofKind \in CallKind
          /\ Arrived.method.clientStreaming <=> Arrived.oneofKind = "callClientStream"
      BY <2>1, <2>4 DEF CallKind
    <3> QED
      BY <1>1, <2>4, <3>1, <3>2, StartMove
  <2> QED
    BY <1>2, <2>2, <2>3, <2>4 DEF ServerCall
<1>3. CASE ServerCallClientStream
  <2>1. Arrived.oneofKind = "callClientStream"
    BY <1>3 DEF ServerCallClientStream, Arrives
  <2>2. CASE Arrived.method \in Service /\ Arrived.method.clientStreaming
    <3>1. StartRun(<<>>, "open") /\ Accept
      BY <1>3, <2>2 DEF ServerCallClientStream
    <3>2. Arrived.oneofKind # "call"
      BY <2>1
    <3>3. StartRun(IF Arrived.oneofKind = "call" THEN <<Arrived.body>> ELSE <<>>,
                   IF Arrived.oneofKind = "call" THEN "none" ELSE "open")
      BY <3>1, <3>2, Zenon
    <3>4. /\ Arrived.oneofKind \in CallKind
          /\ Arrived.method.clientStreaming <=> Arrived.oneofKind = "callClientStream"
      BY <2>1, <2>2 DEF CallKind
    <3> QED
      BY <1>1, <2>2, <3>1, <3>2, <3>3, <3>4, StartMove
  <2>3. CASE ~(Arrived.method \in Service /\ Arrived.method.clientStreaming)
    <3>1. Refuse("ERR_BAD_METHOD") /\ UNCHANGED runs /\ "ERR_BAD_METHOD" \in ErrorCode
      BY <1>3, <2>3 DEF ServerCallClientStream, serverVars, ErrorCode
    <3> QED
      BY <1>1, <2>1, <2>3, <3>1, RefuseMove
  <2> QED
    BY <2>2, <2>3
<1>4. CASE ServerBadId
  <2>1. /\ Arrived.oneofKind \in {"streamSend", "streamClose", "abort"} /\ Addressed = NoCall
        /\ Refuse("ERR_BAD_ID") /\ UNCHANGED runs /\ "ERR_BAD_ID" \in ErrorCode
    BY <1>4 DEF ServerBadId, Arrives, serverVars, ErrorCode
  <2>2. RunOf(i).result # "running"
    BY <1>1, <2>1, AddressedIs
  <2> QED
    BY <1>1, <2>1, <2>2, RefuseMove
<1>5. CASE ServerBadStreamSend
  <2>1. /\ Arrived.oneofKind \in {"streamSend", "streamClose"} /\ Addressed # NoCall
        /\ \/ runs[Addressed].outStream # "open"
           \/ Arrived.oneofKind = "streamSend" /\ Arrived.body \in Malformed
        /\ Refuse("ERR_BAD_STREAM_SEND") /\ UNCHANGED runs /\ "ERR_BAD_STREAM_SEND" \in ErrorCode
    BY <1>5 DEF ServerBadStreamSend, Arrives, serverVars, ErrorCode
  <2>2. RunOf(i) = runs[Addressed]
    BY <1>1, <2>1, AddressedIs
  <2> QED
    BY <1>1, <2>1, <2>2, RefuseMove
<1>7. CASE ServerStreamSend
  <2> DEFINE run == [runs[Addressed] EXCEPT !.requests = Append(@, Arrived.body)]
  <2>1. /\ Arrived.oneofKind = "streamSend" /\ Addressed # NoCall /\ Accept
        /\ runs[Addressed].outStream = "open" /\ Arrived.body \notin Malformed
        /\ runs' = [runs EXCEPT ![Addressed] = run]
    BY <1>7 DEF ServerStreamSend, Arrives
  <2>2. run.id = runs[Addressed].id
    OBVIOUS
  <2> QED
    BY <1>1, <2>1, <2>2, HandMove
<1>8. CASE ServerStreamClose
  <2> DEFINE run == [runs[Addressed] EXCEPT !.outStream = "closed"]
  <2>1. /\ Arrived.oneofKind \in {"streamSend", "streamClose"} /\ Addressed # NoCall /\ Accept
        /\ Arrived.oneofKind = "streamClose"
        /\ runs[Addressed].outStream = "open"
        /\ runs' = [runs EXCEPT ![Addressed] = run]
    BY <1>8 DEF ServerStreamClose, Arrives
  <2>2. run.id = runs[Addressed].id
    OBVIOUS
  <2> QED
    BY <1>1, <2>1, <2>2, HandMove
<1>9. CASE ServerAbort
  <2> DEFINE run == [runs[Addressed] EXCEPT !.abort = TRUE]
  <2>1. /\ Arrived.oneofKind = "abort" /\ Addressed # NoCall /\ Accept
        /\ runs' = [runs EXCEPT ![Addressed] = run]
    BY <1>9 DEF ServerAbort, Arrives
  <2>2. run.id = runs[Addressed].id
    OBVIOUS
  <2> QED
    BY <1>1, <2>1, <2>2, HandMove
<1>10. CASE ServerIgnores
  <2>1. Arrived.oneofKind = "none"
    BY <1>10 DEF ServerIgnores, Arrives
  <2>2. View(i).up # <<>> /\ View(i).up[1] = Arrived
    BY <1>0, <1>1, TakesUp DEF View
  <2>3. Good(View(i), Line)
    BY DEF EachGood
  <2>4. View(i).up \in Seq(Frame) /\ UpFrame(View(i), 1)
    BY <2>2, <2>3, EmptySeq DEF Good, Typed, Shape
  <2> QED
    BY <2>1, <2>2, <2>4 DEF UpFrame, CallKind
<1> QED
  BY <1>2, <1>3, <1>4, <1>5, <1>7, <1>8, <1>9, <1>10 DEF ServerHandles

-----------------------------------------------------------------------------
(* The handlers.                                                            *)

\* Run r of call i becomes another, and the caller of i is sent something.
LEMMA HandlerMove ==
  ASSUME IInv, IInv', UNCHANGED clientVars, NEW r \in DOMAIN runs, NEW i \in CallIds, runs[r].id = i,
         NEW run, runs' = [runs EXCEPT ![r] = run], run.id = i,
         wire'["server"] = wire["server"], UNCHANGED <<fin, ready>>,
         \A j \in CallIds \ {i} : Of(j, wire'["client"]) = Of(j, wire["client"])
  PROVE  /\ Elsewhere(i) /\ Handling(View(i), View(i)')
         /\ View(i).run = runs[r] /\ View(i)'.run = run
         /\ View(i).down = Of(i, wire["client"]) /\ View(i)'.down = Of(i, wire'["client"])
<1>1. OnlyRun(r) /\ runs'[r] = run
  BY DEF OnlyRun
<1>2. /\ RunOf(i) = runs[r] /\ RunOf(i)' = run
      /\ \A j \in CallIds \ {i} : RunOf(j)' = RunOf(j)
  BY <1>1, RunChanges
<1>3. UNCHANGED <<made, clientCalls>> /\ \A j : CallOf(j)' = CallOf(j)
  BY DEF clientVars, CallOf
<1>4. Elsewhere(i)
  BY <1>2, <1>3 DEF Elsewhere
<1>5. /\ View(i).run = runs[r] /\ View(i)'.run = run
      /\ View(i).down = Of(i, wire["client"]) /\ View(i)'.down = Of(i, wire'["client"])
      /\ View(i)'.call = View(i).call /\ View(i)'.inTable = View(i).inTable
      /\ View(i)'.up = View(i).up
  BY <1>2, <1>3, ViewThen DEF View
<1>6. Started(View(i))
  <2>1. runs[r] \in Run
    BY DEF IInv, Types, ServerTypes, ServerTypeOK
  <2> QED
    BY <1>5, <2>1 DEF Started, Run
<1> QED
  BY <1>4, <1>5, <1>6 DEF Handling

\* A handler sends, completes its stream, returns or throws.
LEMMA HandlersMove ==
  ASSUME IInv, IInv', UNCHANGED clientVars, Handler
  PROVE  Moves
<1>1. PICK r \in DOMAIN runs : HandlerSends(r) \/ HandlerCompletes(r) \/ HandlerEnds(r)
  BY DEF Handler
<1>2. /\ runs[r] \in Run /\ ServerTypes /\ wire \in [Ends -> Seq(Message)]
      /\ UNCHANGED <<fin, ready>>
  BY <1>1, HandlerEffect DEF IInv, Types, ServerTypes, ServerTypeOK, SocketTypeOK
<1>3. PICK i \in CallIds : runs[r].id = i
  BY <1>2 DEF Run
<1>4. NextBody(r) \in Body /\ \A b \in Malformed : b \in Body
  <2>1. Len(runs[r].sent) + 1 \in Nat /\ i \in Nat
    BY <1>2, RpcAssumption DEF Run
  <2> QED
    BY <1>3, <2>1 DEF NextBody, Body
\* The handler becomes run and sends f.
<1>5. ASSUME NEW run, runs' = [runs EXCEPT ![r] = run], run.id = i,
             NEW f \in Message, f.id = i, wire' = Push(wire, "server", f)
      PROVE  /\ Elsewhere(i) /\ Handling(View(i), View(i)')
             /\ View(i).run = runs[r] /\ View(i)'.run = run
             /\ View(i)'.down = Sent(View(i).down, Line'.down, f)
  <2>1. /\ wire'["server"] = wire["server"]
        /\ Of(i, wire'["client"]) = Sent(Of(i, wire["client"]), Line'.down, f)
    BY <1>2, <1>5, SendsDown
  <2>2. ASSUME NEW j \in CallIds \ {i} PROVE Of(j, wire'["client"]) = Of(j, wire["client"])
    BY <1>2, <1>5, <2>2, SendsAside
  <2>3. /\ Elsewhere(i) /\ Handling(View(i), View(i)')
        /\ View(i).run = runs[r] /\ View(i)'.run = run
        /\ View(i).down = Of(i, wire["client"]) /\ View(i)'.down = Of(i, wire'["client"])
    BY <1>2, <1>3, <1>5, <2>1, <2>2, HandlerMove
  <2> QED
    BY <2>1, <2>3
<1>6. CASE HandlerSends(r)
  <2>1. PICK b \in {NextBody(r)} \cup Malformed :
          /\ runs' = [runs EXCEPT ![r].sent = Append(@, b)]
          /\ wire' = Push(wire, "server", StreamRecv(i, b))
    BY <1>3, <1>6 DEF HandlerSends
  <2> DEFINE run == [runs[r] EXCEPT !.sent = Append(@, b)]
  <2>2. b \in Body /\ runs' = [runs EXCEPT ![r] = run] /\ run.id = i
    BY <1>2, <1>3, <1>4, <2>1 DEF Run
  <2>3. PICK f \in Message : f = StreamRecv(i, b)
    BY <2>2, Answers
  <2>4. f.id = i /\ wire' = Push(wire, "server", f)
    BY <2>1, <2>3 DEF StreamRecv
  <2> HIDE DEF run
  <2>5. /\ Elsewhere(i) /\ Handling(View(i), View(i)')
        /\ View(i).run = runs[r] /\ View(i)'.run = run
        /\ View(i)'.down = Sent(View(i).down, Line'.down, f)
    BY <1>5, <2>2, <2>4
  <2>6. runs[r].method.serverStreaming /\ ~runs[r].closed
    BY <1>6 DEF HandlerSends
  <2>7. SendsMessage(i, View(i), View(i)', Line')
    BY <2>2, <2>3, <2>5, <2>6 DEF SendsMessage, run
  <2> QED
    BY <1>2, <2>5, <2>7, MovesIf DEF Move
<1>7. CASE HandlerCompletes(r)
  <2> DEFINE run == [runs[r] EXCEPT !.closed = TRUE]
  <2>1. /\ runs' = [runs EXCEPT ![r] = run] /\ run.id = i
        /\ wire' = Push(wire, "server", StreamClosed(i))
        /\ runs[r].method.serverStreaming /\ ~runs[r].closed
    BY <1>2, <1>3, <1>7 DEF HandlerCompletes, Run
  <2>2. PICK f \in Message : f = StreamClosed(i)
    BY Answers
  <2>3. f.id = i
    BY <2>2 DEF StreamClosed
  <2> HIDE DEF run
  <2>4. /\ Elsewhere(i) /\ Handling(View(i), View(i)')
        /\ View(i).run = runs[r] /\ View(i)'.run = run
        /\ View(i)'.down = Sent(View(i).down, Line'.down, f)
    BY <1>5, <2>1, <2>2, <2>3
  <2>5. CompletesResponses(i, View(i), View(i)', Line')
    BY <2>1, <2>2, <2>4 DEF CompletesResponses, run
  <2> QED
    BY <1>2, <2>4, <2>5, MovesIf DEF Move
<1>8. CASE StreamingReturns(r)
  <2> DEFINE run == [runs[r] EXCEPT !.closed = TRUE, !.result = "returned", !.outStream = Closed(@)]
  <2>1. /\ runs' = [runs EXCEPT ![r] = run] /\ run.id = i
        /\ runs[r].result = "running" /\ runs[r].method.serverStreaming
        /\ wire' = IF runs[r].closed THEN Push(wire, "server", StreamClosed(i))
                     ELSE Push(Push(wire, "server", StreamClosed(i)), "server", StreamClosed(i))
    BY <1>2, <1>3, <1>8 DEF StreamingReturns, EndRun, Run
  <2> HIDE DEF run
  <2>2. PICK f \in Message : f = StreamClosed(i)
    BY Answers
  <2>3. f.id = i
    BY <2>2 DEF StreamClosed
  <2>4. /\ Push(wire, "server", f) \in [Ends -> Seq(Message)]
        /\ Push(wire, "server", f)["server"] = wire["server"]
        /\ Of(i, Push(wire, "server", f)["client"]) = Sent(Of(i, wire["client"]), Line'.down, f)
    BY <1>2, <2>3, SendsDown
  <2>5. PICK once \in [Ends -> Seq(Message)] : once = Push(wire, "server", f)
    BY <2>4
  <2>11. /\ Push(once, "server", f)["server"] = once["server"]
         /\ Of(i, Push(once, "server", f)["client"]) = Sent(Of(i, once["client"]), Line'.down, f)
    BY <1>2, <2>3, SendsDown
  <2>12. ASSUME NEW j, j # i
         PROVE  /\ Of(j, once["client"]) = Of(j, wire["client"])
                /\ Of(j, Push(once, "server", f)["client"]) = Of(j, wire["client"])
    <3>1. Of(j, once["client"]) = Of(j, wire["client"])
      BY <1>2, <2>3, <2>5, <2>12, SendsAside
    <3>2. Of(j, Push(once, "server", f)["client"]) = Of(j, once["client"])
      BY <2>3, <2>12, SendsAside
    <3> QED
      BY <3>1, <3>2
  <2>6. wire' = IF runs[r].closed THEN once ELSE Push(once, "server", f)
    BY <2>1, <2>2, <2>5
  <2>7. wire'["server"] = wire["server"]
    BY <2>4, <2>5, <2>6, <2>11
  <2>13. ASSUME NEW j \in CallIds \ {i} PROVE Of(j, wire'["client"]) = Of(j, wire["client"])
    BY <2>6, <2>12
  <2>8. Of(i, wire'["client"]) =
          IF runs[r].closed THEN Sent(Of(i, wire["client"]), Line'.down, f)
                            ELSE Sent(Sent(Of(i, wire["client"]), Line'.down, f), Line'.down, f)
    BY <2>4, <2>5, <2>6, <2>11
  <2>9. /\ Elsewhere(i) /\ Handling(View(i), View(i)')
        /\ View(i).run = runs[r] /\ View(i)'.run = run
        /\ View(i).down = Of(i, wire["client"]) /\ View(i)'.down = Of(i, wire'["client"])
    <3>1. runs' = [runs EXCEPT ![r] = run] /\ run.id = i
      BY <2>1
    <3>2. UNCHANGED <<fin, ready>>
      BY <1>2
    <3> QED
      BY <1>3, <2>7, <2>13, <3>1, <3>2, HandlerMove
  <2>10. Returns(i, View(i), View(i)', Line')
    BY <2>1, <2>2, <2>8, <2>9 DEF Returns, Running, run
  <2> QED
    BY <1>2, <2>9, <2>10, MovesIf DEF Move
\* The handler fails, with an error to its caller.
<1>9. ASSUME NEW run, runs' = [runs EXCEPT ![r] = run], runs[r].result = "running",
             NEW code \in ErrorCode, wire' = Push(wire, "server", Error(i, code)),
             \/ run = [runs[r] EXCEPT !.result = "threw", !.outStream = Closed(@)]
             \/ run = [runs[r] EXCEPT !.result = "threw"]
      PROVE  Moves
  <2>1. run.id = i
    BY <1>2, <1>3, <1>9 DEF Run
  <2>2. PICK f \in Message : f = Error(i, code)
    BY Answers
  <2>3. f.id = i
    BY <2>2 DEF Error
  <2>4. /\ Elsewhere(i) /\ Handling(View(i), View(i)')
        /\ View(i).run = runs[r] /\ View(i)'.run = run
        /\ View(i)'.down = Sent(View(i).down, Line'.down, f)
    BY <1>5, <1>9, <2>1, <2>2, <2>3
  <2>5. Throws(i, View(i), View(i)', Line')
    BY <1>9, <2>2, <2>4 DEF Throws, Running
  <2> QED
    BY <1>2, <2>4, <2>5, MovesIf DEF Move
<1>10. CASE HandlerThrows(r)
  BY <1>3, <1>9, <1>10 DEF HandlerThrows, EndRun, ErrorCode
<1>11. CASE ResponseReturns(r)
  <2>1. runs[r].result = "running" /\ ~runs[r].method.serverStreaming
    BY <1>11 DEF ResponseReturns
  <2>2. ASSUME NEW b \in {NextBody(r)} \cup Malformed,
               EndRun(r, [runs[r] EXCEPT !.sent = Append(@, b), !.result = "returned",
                                         !.outStream = Closed(@)]),
               wire' = Push(wire, "server", CallResponse(runs[r].id, b))
        PROVE  Moves
    <3> DEFINE run == [runs[r] EXCEPT !.sent = Append(@, b), !.result = "returned",
                                      !.outStream = Closed(@)]
    <3>1. b \in Body /\ runs' = [runs EXCEPT ![r] = run] /\ run.id = i
      BY <1>2, <1>3, <1>4, <2>2 DEF EndRun, Run
    <3>2. PICK f \in Message : f = CallResponse(i, b)
      BY <3>1, Answers
    <3>3. f.id = i /\ wire' = Push(wire, "server", f)
      BY <1>3, <2>2, <3>2 DEF CallResponse
    <3> HIDE DEF run
    <3>4. /\ Elsewhere(i) /\ Handling(View(i), View(i)')
          /\ View(i).run = runs[r] /\ View(i)'.run = run
          /\ View(i)'.down = Sent(View(i).down, Line'.down, f)
      BY <1>5, <3>1, <3>3
    <3>5. Responds(i, View(i), View(i)', Line')
      BY <2>1, <3>1, <3>2, <3>4 DEF Responds, Running, run
    <3> QED
      BY <1>2, <3>4, <3>5, MovesIf DEF Move
  <2>3. ASSUME EndRun(r, [runs[r] EXCEPT !.result = "threw", !.outStream = Closed(@)]),
               wire' = Push(wire, "server", Error(runs[r].id, "ERR_INTERNAL"))
        PROVE  Moves
    BY <1>3, <1>9, <2>1, <2>3 DEF EndRun, ErrorCode
  <2> QED
    BY <1>11, <2>2, <2>3 DEF ResponseReturns
<1> QED
  BY <1>1, <1>6, <1>7, <1>8, <1>10, <1>11 DEF HandlerEnds

\* Every step of the server is a step of each call.
LEMMA ServerMoves ==
  ASSUME IInv, IInv', EachGood, ServerNext, UNCHANGED clientVars
  PROVE  Moves
<1>1. CASE ServerOnClose
  <2>1. /\ UNCHANGED <<made, clientCalls, runs, wire>>
        /\ ready' = [ready EXCEPT !["server"] = "closed"] /\ fin' = [fin EXCEPT !["client"] = TRUE]
        /\ fin \in [Ends -> BOOLEAN] /\ ready \in [Ends -> {"open", "closing", "closed"}]
    BY <1>1 DEF ServerOnClose, CloseEvent, Peer, serverVars, clientVars, IInv, Types, ServerTypes,
                SocketTypeOK
  <2>2. Lowered(Line, Line')
    BY <2>1, Lowers DEF Ends
  <2> QED
    BY <2>1, <2>2, WireMoves DEF Cut
<1> QED
  BY <1>1, ServerHandlesMove, HandlersMove DEF ServerNext, ServerReceive

-----------------------------------------------------------------------------
(* The system.                                                              *)

\* Each step of the system is a step of every call, on a connection that does
\* no more than before.
LEMMA NextMoves ==
  ASSUME IInv, IInv', EachGood, [Next]_vars
  PROVE  Moves
<1>1. CASE ClientNext /\ UNCHANGED serverVars
  BY <1>1, ClientMoves
<1>2. CASE ServerNext /\ UNCHANGED clientVars
  BY <1>2, ServerMoves
<1>3. CASE SocketStep /\ UNCHANGED <<clientVars, serverVars>>
  BY <1>3, SocketMove
<1>4. CASE UNCHANGED vars
  <2>1. UNCHANGED <<made, clientCalls, runs, wire, fin, ready>>
    BY <1>4 DEF vars, clientVars, serverVars, sockVars
  <2> QED
    BY <2>1, LineSame, WireMoves DEF Cut
<1> QED
  BY <1>1, <1>2, <1>3, <1>4 DEF Next

\* Before anything happens a call is nothing at all.
LEMMA AllGoodInit == Init => EachGood
<1> SUFFICES ASSUME Init, NEW i \in CallIds PROVE Good(View(i), Line)
  BY DEF EachGood
<1>1. PICK v : v = View(i)
  OBVIOUS
<1>2. /\ wire["server"] = <<>> /\ wire["client"] = <<>> /\ runs = <<>> /\ DOMAIN runs = {}
      /\ clientCalls = {} /\ DOMAIN made = {}
  BY DEF Init, ClientInit, ServerInit, SocketInit, Ends
<1>3. Of(i, <<>>) = <<>>
  BY WithoutEmpty DEF Of
<1>4. RunsOf(i) = {}
  BY <1>2 DEF RunsOf
<1>5. /\ v.up = <<>> /\ v.down = <<>> /\ ~v.inTable
      /\ v.run.result = "none" /\ v.run.requests = <<>> /\ v.run.sent = <<>> /\ ~v.run.closed
      /\ v.call.status = "none" /\ v.call.sent = <<>> /\ v.call.received = <<>>
  BY <1>1, <1>2, <1>3, <1>4 DEF View, RunOf, CallOf
<1>6. <<>> \in Seq(Frame) /\ <<>> \in Seq(Body)
  BY EmptySeq
<1>7. Typed(v) /\ Shape(v)
  BY <1>5, <1>6 DEF Typed, Shape, Blank, Started
<1>8. Decodable(<<>>) = <<>> /\ IsPrefix(<<>>, <<>>)
  BY <1>6, WithoutEmpty, PrefixSelf DEF Decodable
<1>9. Responses(v, Line) /\ Requests(v, Line) /\ Errors(v, Line)
  BY <1>5, <1>8 DEF Responses, Requests, Errors, Running
<1> QED
  BY <1>1, <1>7, <1>9 DEF Good

\* Calls that are in order stay so.
LEMMA AllGoodStep ==
  ASSUME IInv, IInv', EachGood, [Next]_vars
  PROVE  EachGood'
<1>1. Moves
  BY NextMoves
<1>2. ASSUME NEW i \in CallIds PROVE Good(View(i), Line)'
  <2>1. PICK v, w, k, l : v = View(i) /\ w = View(i)' /\ k = Line /\ l = Line'
    OBVIOUS
  <2>2. Good(v, k) /\ Lowered(k, l) /\ Move(i, v, w, l)
    BY <1>1, <2>1 DEF Moves, EachGood
  <2>3. Good(w, l)
    BY <2>2, GoodKept
  <2>4. Good(View(i), Line)' = Good(View(i)', Line')
    BY DEF Good
  <2> QED
    BY <2>1, <2>3
<1> QED
  BY <1>2 DEF EachGood

(***************************************************************************)
(* Every call, by itself, is always in order: its frames on the wire are   *)
(* what one end sent and the other has not got yet, whatever the others do *)
(* and whatever breaks (client.ts:126-191, server.ts:235-485).             *)
(***************************************************************************)
THEOREM EveryCallIsGood == Spec => [](IInv /\ EachGood)
<1>1. Init => EachGood
  BY AllGoodInit
<1>2. IInv /\ IInv' /\ EachGood /\ [Next]_vars => EachGood'
  BY AllGoodStep
<1> QED
  BY <1>1, <1>2, Invariant, PTL DEF Spec

\* A run and its call, as the call's view shows them.
LEMMA RunOfCall ==
  ASSUME IInv, EachGood, NEW r \in DOMAIN runs
  PROVE  \E i \in CallIds :
           /\ runs[r].id = i /\ View(i).run = runs[r] /\ View(i).call = made[i]
           /\ RunsOf(i) = {r} /\ Started(View(i)) /\ Good(View(i), Line)
<1>1. runs[r] \in Run
  BY DEF IInv, Types, ServerTypes, ServerTypeOK
<1>2. PICK i \in CallIds : runs[r].id = i
  BY <1>1 DEF Run
<1>3. RunOf(i) = runs[r] /\ RunsOf(i) = {r}
  BY <1>2, RunIs DEF IInv, Types
<1>4. i \in DOMAIN made
  <2>1. i < next /\ i \in Nat /\ next \in Nat
    BY <1>3, RpcAssumption DEF IInv, CallsOnce, Types, ClientTypes, ClientTypeOK
  <2> QED
    BY <2>1 DEF IInv, Types, ClientTypes, ClientTypeOK
<1>5. View(i).run = runs[r] /\ View(i).call = made[i]
  BY <1>3, <1>4 DEF View, CallOf
<1>6. Started(View(i))
  BY <1>1, <1>5 DEF Started, Run
<1> QED
  BY <1>2, <1>3, <1>5, <1>6 DEF EachGood

(***************************************************************************)
(* Calls that share the socket never see each other's messages: a caller   *)
(* has a prefix of what its handler sent and a handler a prefix of what    *)
(* its caller sent (client.ts:127, server.ts:395).                         *)
(***************************************************************************)
THEOREM NoCrossTalkHolds == Spec => []NoCrossTalk
<1>1. IInv /\ EachGood => NoCrossTalk
  <2> SUFFICES ASSUME IInv, EachGood, NEW r \in DOMAIN runs
               PROVE  /\ IsPrefix(made[runs[r].id].received, runs[r].sent)
                      /\ IsPrefix(runs[r].requests, Decodable(made[runs[r].id].sent))
    BY DEF NoCrossTalk
  <2>1. PICK i \in CallIds :
          /\ runs[r].id = i /\ View(i).run = runs[r] /\ View(i).call = made[i]
          /\ Good(View(i), Line)
    BY RunOfCall
  <2>2. Responses(View(i), Line) /\ Requests(View(i), Line)
    BY <2>1 DEF Good
  <2> QED
    BY <2>1, <2>2 DEF Responses, Requests
<1> QED
  BY <1>1, EveryCallIsGood, PTL

(***************************************************************************)
(* A call that succeeds has had one handler, and its caller got all that   *)
(* this handler sent (client.ts:126-179, server.ts:265-294, 339-368).      *)
(***************************************************************************)
THEOREM OkMeansAnsweredHolds == Spec => []OkMeansAnswered
<1>1. IInv /\ EachGood => OkMeansAnswered
  <2> SUFFICES ASSUME IInv, EachGood, NEW i \in DOMAIN made, made[i].status = "ok"
               PROVE  \E r \in RunsOf(i) :
                        /\ RunsOf(i) = {r}
                        /\ runs[r].method = made[i].method
                        /\ made[i].received = runs[r].sent
                        /\ IF made[i].method.serverStreaming THEN runs[r].closed
                                                             ELSE runs[r].result = "returned"
    BY DEF OkMeansAnswered
  <2>1. i \in CallIds
    BY DEF IInv, Types, ClientTypes
  <2>2. View(i).call = made[i] /\ View(i).run = RunOf(i)
    BY DEF View, CallOf
  <2>3. Responses(View(i), Line) /\ Shape(View(i))
    BY <2>1 DEF EachGood, Good
  <2>4. Started(View(i)) /\ Over(View(i)) /\ made[i].received = View(i).run.sent
    BY <2>2, <2>3 DEF Responses
  <2>5. PICK r \in DOMAIN runs : runs[r].id = i
    <3>1. RunsOf(i) # {}
      BY <2>1, <2>2, <2>4, RunIs DEF IInv, Types, Started
    <3> QED
      BY <3>1 DEF RunsOf
  <2>6. RunOf(i) = runs[r] /\ RunsOf(i) = {r}
    BY <2>1, <2>5, RunIs DEF IInv, Types
  <2>7. runs[r].method = made[i].method
    BY <2>2, <2>3, <2>4, <2>6 DEF Shape
  <2> QED
    BY <2>2, <2>4, <2>6, <2>7 DEF Over
<1> QED
  BY <1>1, EveryCallIsGood, PTL

(***************************************************************************)
(* A handler that sees its request stream end, and has not ended its own,  *)
(* has every request (client.ts:166, server.ts:361, 451).                  *)
(***************************************************************************)
THEOREM EndOfRequestsHolds == Spec => []EndOfRequests
<1>1. IInv /\ EachGood => EndOfRequests
  <2> SUFFICES ASSUME IInv, EachGood, NEW r \in DOMAIN runs, runs[r].outStream = "closed",
                      runs[r].result = "running", ~runs[r].closed
               PROVE  /\ made[runs[r].id].completed
                      /\ runs[r].requests = Decodable(made[runs[r].id].sent)
    BY DEF EndOfRequests
  <2>1. PICK i \in CallIds :
          /\ runs[r].id = i /\ View(i).run = runs[r] /\ View(i).call = made[i]
          /\ Good(View(i), Line)
    BY RunOfCall
  <2>2. Requests(View(i), Line)
    BY <2>1 DEF Good
  <2> QED
    BY <2>1, <2>2 DEF Requests, Running
<1> QED
  BY <1>1, EveryCallIsGood, PTL

(***************************************************************************)
(* A call fails for a reason: its handler, a message that does not decode, *)
(* its caller's misuse, or the end of the connection (client.ts:126-191,   *)
(* server.ts:280, 354, 387-485).                                           *)
(***************************************************************************)
THEOREM ErrorsHaveACauseHolds == Spec => []ErrorsHaveACause
<1>1. IInv /\ EachGood => ErrorsHaveACause
  <2> SUFFICES ASSUME IInv, EachGood, NEW i \in DOMAIN made, made[i].status = "err",
                      ready["client"] # "closed"
               PROVE  Fault(i)
    BY DEF ErrorsHaveACause
  <2>1. i \in CallIds
    BY DEF IInv, Types, ClientTypes
  <2>2. View(i).call = made[i] /\ View(i).run = RunOf(i)
    BY DEF View, CallOf
  <2>3. Faulty(View(i))
    <3>1. Errors(View(i), Line) /\ ~Line.ended
      BY <2>1 DEF EachGood, Good, Line
    <3> QED
      BY <2>2, <3>1 DEF Errors
  <2>4. CASE RunsOf(i) = {}
    <3>1. View(i).run.result = "none" /\ View(i).run.sent = <<>>
      BY <2>1, <2>2, <2>4, RunIs DEF IInv, Types
    <3> QED
      BY <2>2, <2>3, <3>1 DEF Faulty, Fault
  <2>5. CASE RunsOf(i) # {}
    <3>1. PICK r \in DOMAIN runs : runs[r].id = i
      BY <2>5 DEF RunsOf
    <3>2. RunOf(i) = runs[r] /\ r \in RunsOf(i)
      BY <2>1, <3>1, RunIs DEF IInv, Types
    <3> QED
      BY <2>2, <2>3, <3>2 DEF Faulty, Fault
  <2> QED
    BY <2>4, <2>5
<1> QED
  BY <1>1, EveryCallIsGood, PTL

\* One step of the system is one step of CallContract for every call, or none.
LEMMA ContractStep ==
  ASSUME IInv, IInv', EachGood, EachGood', [Next]_vars, NEW i \in CallIds
  PROVE  [Contract(i)!Next]_(Contract(i)!callVars)
<1>1. Moves
  BY NextMoves
<1>2. PICK v, w, k, l : v = View(i) /\ w = View(i)' /\ k = Line /\ l = Line'
  OBVIOUS
<1>3. Good(v, k) /\ Lowered(k, l) /\ Move(i, v, w, l)
  BY <1>1, <1>2 DEF Moves, EachGood
<1>4. Good(v, l) /\ Good(w, l)
  BY <1>3, GoodKept
<1>5. v.run.closed \in BOOLEAN
  <2>1. CASE RunsOf(i) = {}
    <3>1. RunOf(i).closed = FALSE
      BY <2>1 DEF RunOf
    <3> QED
      BY <1>2, <3>1 DEF View
  <2>2. CASE RunsOf(i) # {}
    <3>1. PICK r \in DOMAIN runs : runs[r].id = i
      BY <2>2 DEF RunsOf
    <3>2. RunOf(i) = runs[r] /\ runs[r] \in Run
      BY <3>1, RunIs DEF IInv, Types, ServerTypes, ServerTypeOK
    <3> QED
      BY <1>2, <3>2 DEF View, Run
  <2> QED
    BY <2>1, <2>2
<1>6. w.run.closed \in BOOLEAN
  <2>1. w.run = RunOf(i)'
    BY <1>2, ViewThen
  <2>2. CASE RunsOf(i)' = {}
    <3>1. RunOf(i)'.closed = FALSE
      BY <2>2 DEF RunOf
    <3> QED
      BY <2>1, <3>1
  <2>3. CASE RunsOf(i)' # {}
    <3>1. PICK r \in DOMAIN runs' : runs'[r].id = i
      BY <2>3 DEF RunsOf
    <3>2. RunOf(i)' = runs'[r] /\ runs'[r] \in Run
      BY <3>1, RunIsThen DEF IInv, Types, ServerTypes, ServerTypeOK
    <3> QED
      BY <2>1, <3>2 DEF Run
  <2> QED
    BY <2>2, <2>3
<1> QED
  BY <1>2, <1>3, <1>4, <1>5, <1>6, ContractKept

(***************************************************************************)
(* The two RPC layers implement CallContract, once for every ID: a call is *)
(* served once at most, each side gets what the other sent in order and    *)
(* without gaps, and once the caller knows how it ended nothing changes    *)
(* that (client.ts:126-191, 230, server.ts:235-380).                       *)
(***************************************************************************)
THEOREM KeepsContractHolds == Spec => KeepsContract
<1>1. Init => \A i \in CallIds : Contract(i)!Init
  <2> SUFFICES ASSUME Init, NEW i \in CallIds PROVE Contract(i)!Init
    OBVIOUS
  <2>1. DOMAIN made = {} /\ RunsOf(i) = {}
    BY DEF Init, ClientInit, ServerInit, RunsOf
  <2> QED
    BY <2>1 DEF Contract!Init, CallOf, RunOf
<1>2. ASSUME IInv, IInv', EachGood, EachGood', [Next]_vars
      PROVE  \A i \in CallIds :
               /\ [Contract(i)!Next]_(Contract(i)!callVars)
               /\ Cardinality(RunsOf(i)') <= 1
  <2>1. ASSUME NEW i \in CallIds PROVE Cardinality(RunsOf(i)') <= 1
    <3>1. CASE RunsOf(i)' = {}
      BY <3>1, FS_EmptySet
    <3>2. CASE RunsOf(i)' # {}
      <4>1. PICK r : r \in RunsOf(i)'
        BY <3>2
      <4>2. RunsOf(i)' = {r}
        BY <1>2, <4>1 DEF IInv, OneRun, RunsOf
      <4> QED
        BY <4>2, FS_Singleton
    <3> QED
      BY <3>1, <3>2
  <2> QED
    BY <1>2, <2>1, ContractStep
<1> QED
  BY <1>1, <1>2, EveryCallIsGood, PTL DEF Spec, KeepsContract
=============================================================================
