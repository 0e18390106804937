---------------------------- MODULE CallContract ----------------------------
(***************************************************************************)
(* What a call is to its caller and its handler, whatever the other calls  *)
(* on the connection do.  It is served once at most, each side gets what   *)
(* the other wrote, in order and without gaps, and the caller is told once *)
(* how it ended: well only after everything the handler wrote.             *)
(***************************************************************************)
EXTENDS Subsequences

CONSTANT Malformed  \* bodies that do not decode, which the handler never sees

VARIABLES
  status,     \* of the caller: "none" before the call
  sent,       \* what the caller wrote
  handler,    \* "none" before it is started
  requests,   \* what the handler got
  responses,  \* what the handler wrote
  closed,     \* the handler writes nothing more
  received    \* what the caller got

callVars == <<status, sent, handler, requests, responses, closed, received>>

Init ==
  /\ status = "none" /\ sent = <<>> /\ received = <<>>
  /\ handler = "none" /\ requests = <<>> /\ responses = <<>> /\ ~closed

\* s is the first n elements of t.
Prefix(s, t) == Len(s) <= Len(t) /\ s = SubSeq(t, 1, Len(s))

Decodable(bodies) == Without(bodies, Malformed)

\* A call is refused at once, or pending; or, on a connection that is ending,
\* it has failed before its maker hears of it.
MakeCall ==
  /\ status = "none" /\ status' \in {"pending", "err", "threw"}
  /\ Len(sent') <= 1
  /\ UNCHANGED <<handler, requests, responses, closed, received>>

Write ==
  /\ status \in {"pending", "ok", "err"}
  /\ Len(sent') = Len(sent) + 1 /\ Prefix(sent, sent')
  /\ UNCHANGED <<status, handler, requests, responses, closed, received>>

Start ==
  /\ status \notin {"none", "threw"}
  /\ handler = "none" /\ handler' = "running"
  /\ Prefix(requests', Decodable(sent))
  /\ UNCHANGED <<status, sent, responses, closed, received>>

GetRequest ==
  /\ handler # "none"
  /\ Len(requests') = Len(requests) + 1 /\ Prefix(requests, requests')
  /\ Prefix(requests', Decodable(sent))
  /\ UNCHANGED <<status, sent, handler, responses, closed, received>>

\* The handler writes, closes its stream, ends, or several of these at once.
Respond ==
  /\ handler # "none" /\ handler' # "none"
  /\ handler # "running" => handler' = handler
  /\ Len(responses') <= Len(responses) + 1 /\ Prefix(responses, responses')
  /\ closed => closed' /\ responses' = responses
  /\ UNCHANGED <<status, sent, requests, received>>

GetResponse ==
  /\ status = "pending"
  /\ status' \in {"pending", "ok"}
  /\ Len(received') <= Len(received) + 1 /\ Prefix(received, received')
  /\ Prefix(received', responses)
  /\ status' = "ok" => received' = responses /\ (closed \/ handler = "returned")
  /\ UNCHANGED <<sent, handler, requests, responses, closed>>

Fail ==
  /\ status = "pending" /\ status' = "err"
  /\ UNCHANGED <<sent, handler, requests, responses, closed, received>>

Next == MakeCall \/ Write \/ Start \/ GetRequest \/ Respond \/ GetResponse \/ Fail

Spec == Init /\ [][Next]_callVars
=============================================================================
