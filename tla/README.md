# SockRPC, specified in TLA+

Models, model-checking runs and proofs for the TypeScript implementation of
SockRPC in `src/sockrpc-ts-common` (`client.ts`, `server.ts`, `common.ts`) and
the protocol it speaks (`src/sockrpc.proto`). File and line references in the
modules are to these files. `PROJECT.json` relates every definition to its lines.

## 1. The system

SockRPC runs protobuf RPC over one WebSocket. A client authenticates once when
the socket opens, then makes calls of four kinds: unary, server streaming,
client streaming, duplex.

| part | state it keeps | operations |
|---|---|---|
| **WebSocket adapter** (`common.ts`) | the platform's socket | `send`, `close`, `onMessage`, `onClose` (close and error events) |
| **Client handshake** (`connectSockRpc`) | `state`, `auth`, `authTypes`, `lastAuth`, `authFailures`, the promise it returned | message handler (one case per state), `authenticate`, the continuation of `sign()`, catch block, close handler |
| **Client RPC layer** (`SockRpcTransport`, `SockRpcClientStream`) | `next`, `calls` | `unary`, `serverStreaming`, `clientStreaming`, `duplex`, `handleServerMessage`, `abortAll`, `send`/`complete` of the request stream |
| **Server handshake** (`SockRpcServer`) | `state`, `user`, `pubkeyChallenge` | constructor, `sendWelcome`, `handleAuthRequest`, `handleSocketMessage` |
| **Server RPC layer** (`SockRpcServer`, `SockRpcServerStream`) | `calls`, `closed` of each stream | `handleCall`, `handleCallClientStream`, `handleClientMessage`, `send`/`complete` of the response stream |
| **Application** (external) | – | auth callbacks, `sign()`, handlers, callers |
| **Message codec** (`pb/`, generated) | the message being read | `create`, `internalBinaryRead`, `internalBinaryWrite` of twelve classes, `Timestamp.toDate` and `fromDate` |
| Ed25519 helpers | – | `ed25519Signer`, `ed25519Validator` |
| Node build (`node/`, compiled), scripts, tests | – | not modelled, see section 8 |

The two ends interact only through frames. Within an end, socket events, the
continuations of awaited callbacks and the calls of the application interleave,
one JavaScript event at a time. Nothing is persisted, there are no timers and
no retries besides the fallback from one auth method to the next.

**What is hard here.**

* Frames carry no type: each end decodes by its own state, so the two state
  machines must be in step at every frame, through callbacks that take time,
  failed challenges and fallbacks.
* The server awaits application callbacks with the message handler released:
  further frames arrive in between.
* The continuation of `sign()` does not look at the state it finds.
* Many calls share a socket; a call ends at the two ends at different moments,
  with frames for it still under way, some of which provoke errors.
* The connection may close or fail anywhere. The client learns through the
  close event, the server does not listen for it. What the client does about it,
  `abortAll`, runs callbacks of the application, which may call again from inside.
* Foreign clients and servers: IDs used twice, aborts (which this client never
  sends), frames out of order.
* Protobuf distinguishes a field that is absent from one with its default value,
  and lets fields come in any order and more than once.

`PROJECT.json` lists these as hazards, each at its line, with the properties that
cover it. A hazard without one says why.

## 2. The modules

```
Protocol   RpcProtocol   WebSocket        messages; the socket and its adapters
   |            |            |
ClientConnect   |            |            connectSockRpc
ServerAuth      |            |            SockRpcServer up to an active connection
   |            |            |
Handshake  (ClientConnect + ServerAuth + WebSocket)     implements Login
OpenClient (ClientConnect + any server)
OpenServer (ServerAuth + any client)
                |
ClientCalls     |                         SockRpcTransport, SockRpcClientStream
ServerCalls     |                         handleClientMessage, handlers, streams
                |
Calls      (ClientCalls + ServerCalls + WebSocket)      implements CallContract
OpenCalls  (ServerCalls + any client)

Session    (Handshake + Calls on one socket)            implements Calls
Codec      (Dates)                                      the generated classes
MC*        values of the constants for TLC

Subsequences                              Without: a sequence without some elements

CommonProofs         lemmas: the socket, Without; theorems about Dates
EndpointProofs       lemmas: the two ends of the handshake
ServerCallsProofs    lemmas: the server's RPC layer
HandshakeProofs   OpenEndProofs                          (on EndpointProofs)
CallsProofs       OpenCallsProofs                        (on ServerCallsProofs)
SessionProofs                         (on HandshakeProofs and CallsProofs)
```

**WebSocket** holds `wire[e]` (the frames on their way to end `e`), `fin[e]`
(nothing follows them) and `ready[e]` (`readyState`). `send` on a socket that is
not open goes nowhere, as in a browser; platforms whose `send` throws are an
alternative outcome in the callers (`Catch("SendFailed")`, status `"threw"`, which is
also the outcome of a call whose request does not encode). The
connection may be lost at any moment, each end then getting a prefix of what was
under way. `LateDelivery` says whether frames that arrive between `close()` and the
close event are still handed over: a browser drops them, the adapter interface
promises neither, so runs use both values.

**ClientConnect / ServerAuth** have one action per case of the message handlers and one
per continuation: `signing` is the set of `sign()` promises not yet continued, `pending`
the set of callback calls awaited (`handleAuthRequest`, `validate`). A `sign()` that
throws at once is caught (`Catch("SignThrew")`); one that rejects later is not
(`ClientSignFails`). `signing` and `pending` are sets, not flags, so that a second call started during the
first is a state the model can reach. Tokens and keys are identities (`tag`), the n-th
random challenge is `n`, a signature says who signed which challenge. The `kind` of a
frame is the type the writer encoded; it is used only to decide whether the reader's
decoder is the right one, and a decoder given another type throws (protobuf may also
accept such bytes; `InStep` shows that between our two ends the case does not arise).

**ClientCalls / ServerCalls** record in `made` what callers see and in `runs` what
handlers saw and did; `clientCalls` and `serverCalls` are the two tables `calls`. A
method is what `MethodInfo` says of it (two Booleans), a body tells the call and the
position at which it was written, or is in `Malformed`. Handlers send, complete, return,
throw, in any order the API lets them, also through a response stream they kept after
throwing. A status settles once, as promises and the controllers of protobuf-ts do. A
message whose oneof is not set is passed over by either end (`ServerIgnores`,
`ClientIgnores`); of our two ends neither sends one, the client of `OpenCalls` does.
JavaScript guarantees that microtasks run before the next frame: the removal of a call
from its table and the end of its handler (or the settling of its status) are one step.

`abortAll` is one step: the callbacks it runs may make calls, which JavaScript's
iteration over the table then reaches as well (`AbortAll`). They are made on a
closed socket, so they have failed, or thrown, before the step ends.

**Calls / Handshake** put the two halves on the two ends; **OpenClient**,
**OpenServer**, **OpenCalls** let one half face a peer that sends anything. `OpenCalls` has
two history variables: how often the client used an ID (`uses`), and which use of its ID
started a handler (`startedBy`).

**Session** is one connection from the welcome to the last call. It takes the
actions of `Handshake` and of `Calls` as they are and adds what ties them: the
dispatch on the state of either end, one close event for both layers, a transport
for the caller once the promise resolved, the connection's user for each handler
(`served`). What an RPC frame is, is a parameter of `Protocol` (`RpcMessage`): one opaque
frame in `Handshake` alone, a message of a call here. `callWire` is what `Calls` sees of
the wire: all of it but a frame of the handshake at the head, of which at most one
is under way.

**Codec** is the binary form. Every generated class is the same two loops unrolled
over its list of fields, so the lists are data here (`Fields`) and the loops are
written once (`ReadField`, `Write`). Reading goes one field at a time, over every
sequence of fields a peer may write, nested messages included. The other modules
take messages as records and do not depend on it; what they assume, that a reader
gets what was written, is `RoundTrip`. **Dates** holds the two conversions of `Timestamp`,
by themselves so that theorems can be stated about them.

**Login** and **CallContract** are the abstract specifications. `Login` has three
steps: the server grants the connection to a user ID, the client is told, the
caller gets an answer. `CallContract` is one call as its two users see it: made,
written to, served at most once, answered, ended once. Neither knows of frames,
tables or states. The mappings are `L` in `Handshake` and `Contract(i)` in `Calls`.

## 3. The runs

| run | question | bounds |
|---|---|---|
| `Handshake` | are the two ends in step, do they agree on the user and implement `Login`, and does the promise settle, whatever callbacks return and wherever the connection breaks? | 8 auth lists of at most 3 entries (each mode alone, retries in a mode, every order of fallback), all sets of offered modes and fixed users, RPC frames until 2 are under way |
| `OpenServer` | what does the server guarantee against any client? | 2 client frames under way, no pubkey request once 2 challenges were issued |
| `OpenClient` | what does the client guarantee against any server? | 2 lists (4 and 2 entries), the server's frames from a set with every kind, late delivery |
| `Calls` | is one call answered as its handler answers it, through undecodable messages, misused streams, failures and a broken connection? | one call of each kind, 2 messages per direction, late delivery |
| `CallsTwo` | do two calls at once get each other's messages, or disturb each other? | two calls of any kinds but both duplex, 1 message per direction, undecodable messages, a connection that holds |
| `OpenCalls` | what does the server's table guarantee if IDs are used again, calls are aborted, frames come in any order? | 2 IDs, 2 call frames, 1 stream message per call |
| `Session` | do calls find what the handshake left, and does every call settle? | a pubkey login or a server with a fixed user, a streaming call and a unary one, which may be made from inside `abortAll`, 1 message per direction |
| `Codec` | do the generated classes read what protobuf says the bytes mean? | every class, up to 3 fields from those of the class, a later version's, or one of another type, 1 field in a nested message, 2 or 3 values of each scalar type |
| `HandshakeStuck`, `HandshakeUser`, `CallsStreamClosed`, `CallsError` | statements of the repository's `README.md` that the code does not meet (section 6) | as above |

Why the bounds are enough. The handshake is a token passed back and forth
(section 5): a list of three entries has a first, a middle and a last attempt,
two challenges are needed for one to be stale, two users to tell a wrong identity
apart. In the RPC layer calls interact only through the tables and the order of
the wire, so that two are enough for one to take what belongs to the other, and
two messages for an order to be wrong. `CallsTwo` leaves out the pair of two duplex
calls, five million states that add no kind of interaction to those of a duplex
call with each of the others. `Session` needs one login that uses every state and one that
uses none, and two calls for the one that is made while the other is aborted; retries
and fallbacks are those of `Handshake`. In `Codec` three fields are enough for a
member of a oneof to be written, replaced and written again, and for a nested message
to come in parts with something in between. `OpenCalls` keeps one frame under way and
has the client read at once: as this client sends what it likes whatever it has
read, the moment it reads or sends changes nothing for the server.

No run checks for deadlock: a closed connection, or one on which nobody calls, is
a state in which the system rightly stops.

### Properties

*Handshake.* `Agreement`: an active client has an active server with the same user.
`InStep`: a deliverable frame is of the type its reader decodes.
`SignatureMatches`: what is validated answers the challenge it is validated
against. `AllTried`: "Authentication failed" means every usable entry was refused
once, from the last to the first, and the report says so. `ActiveByOfferedMode`:
a server that asks for authentication is active only after an entry of a mode it
offers. `ImplementsLogin`: every step of the two ends is a step of `Login` or leaves
its variables alone, so the client is told once, after the grant, and what was
granted. `ConnectSettles`: the promise settles, unless `sign()` rejects on a connection
that then stays open for good. A client whose `sign()` rejected is told when the
connection ends, and not before.

*One end alone.* `OneCheckAtATime`, `IdentityFixed`, `LatestChallengeOnly`,
`ChallengeOutstanding` for the server; `OfferedModesOnly`, `PromiseFollowsState`,
`OneSignature` for the client. `PromiseFollowsState` has three parts: a client whose
promise is pending is connecting; one whose promise resolved never goes back to the
handshake; and once the promise is rejected the socket is not open. The last is what the
late continuation of `sign()` (`client.ts:483-488`) depends on: it sets a closed client back
to `Auth`, and on an adapter that delivers frames after `close()` such a client goes on
with the handshake, up to `Active`. Nothing it does leaves it, as its socket is closing.

*Calls.* `OkMeansAnswered`: success means exactly one handler ran and the caller
has everything it sent, in order. `NoCrossTalk`, checked with two calls at once: at any
time each side has a prefix of what the other wrote for this call, and so nothing of
another call. `EndOfRequests`: a handler that sees the end
of its request stream has all of it. `ErrorsHaveACause`: frames that cross the end
of a call on the wire never fail a call. `TableHoldsRunning`: the server's table is
the set of running handlers. `PendingIsReachable`: a pending call is one an answer
or `abortAll` will find, unless it was made after the close event. `KeepsContract`:
each call by itself is a behaviour of `CallContract`. That says more than the
invariants: once the caller knows how its call ended, nothing that arrives later
changes it, and requests and responses only ever grow.

*Session.* `HandlersKnowTheUser`: a handler sees the user the client was told, and
none runs before the client was told. `InStep` again, with real messages.
`ImplementsCalls`: with the frames of the handshake taken off the wire, a session is
a behaviour of `Calls`, so that what holds there of two ends that start active holds
here. `CallsSettle`: every call made before the close event, or inside it, settles.

*Codec.* `ReadsTheMeaning` compares the reader, which works through the fields one by
one, with a definition of what a sequence of fields means (`Meaning`: the last value
of a scalar, all values of a repeated field, the last member of a oneof, one message
out of all parts of a nested one), and says when it fails. `RoundTrip` and
`DateRoundTrip` compare the two directions.

*Server against any client.* `EntriesRun`: no entry leads to a handler that is over.
`OnlyReuseHides`: a handler becomes unreachable only by a second use of its ID.
`ReplacedGetsNothing`: the call that uses the ID again is a border: the old handler gets
nothing of what is sent after it, whether the new one gets that or not, and the new one
nothing of what was sent before. `OnlyTheAddressed`: a frame changes one handler at
most, the last of its ID, while it runs; in particular an abort signals no other.

Every property of a passing run has a mutant (an operator next to the definition
it changes) under which it fails.

## 4. Fairness

`ConnectSettles` is checked under the fairness of `Handshake`, `CallsSettle` under that
of `Session`: weak fairness of the two event loops (a frame or close event that can
be handled is), of the network (`Discard`), of the application's auth callbacks and
`sign()` (they settle, either way), and of each handler (it ends). The code justifies
the first: JavaScript runs the handler of every event that was queued. No fairness
for callers, for messages on streams, for `close()`, or for the loss of the
connection. That callbacks return and handlers end is an assumption about the
application: a handler that waits for a request stream which never ends does not,
and its caller waits.

## 5. What is proved

All theorems hold for all values of the constants: any users, credentials, lists and
server options, any number of calls, services and methods, either `LateDelivery`, any
bounds. They rest on the assumptions on the constants (`UsersAssumption`,
`ChallengeAssumption`, `RpcAssumption` and so on), which TLC evaluates on every run. In
each module the argument is an inductive invariant, checked with TLC before it was
proved, with one lemma per action or group of actions. Every invariant the passing runs
check is a theorem, but for those named at the end.

Three modules hold the lemmas of the others. **`CommonProofs`**: what `Push`, `Pop`, `CloseSocket` and the
loss of the connection do to the wire, and what `Without` does to a sequence that grows
at its end, loses its head, or is cut. **`EndpointProofs`**: the types of each end of the
handshake, whatever is at the other end, and what `authenticate()` does with the list of
entries. **`ServerCallsProofs`**: what each handler of a frame does to the server's table
and handlers.

**`HandshakeProofs`**: `TypeCorrect`, `Invariant`, `AgreementHolds`, `InStepHolds`,
`SignatureMatchesHolds`. None of the three properties is inductive: whether the next
frame fits its reader depends on what both ends did before. The strengthening says
that until the server is active the handshake is *one token*: a frame to the client,
a frame to the server, a pending callback or a pending `sign()`, at most one of them
at a time (`OneToken`). `ToClientInv`, `ToServerInv`, `PendingInv`, `SigningInv` say
for each place what the token carries and which states the two ends are then in (a
challenge response, for instance, is over the stored challenge by the entry tried
last). A broken connection may swallow the token; nothing duplicates it, which is
where the server's state `ProcessingAuth` and the client's state `PubkeyChallenge` are
needed. `ServerInv` covers the moment the server becomes active: the `userId` response
is ahead of every RPC frame.

Three more theorems rest on it. `AllTriedHolds`: an entry of an offered mode is either
left in the list, or presented and not answered yet, or in the report, which holds them
from the last of the list on (`Tried`), so that when none is left it holds all.
`ActiveByOfferedModeHolds`: a token that may still make the server active was started by
an entry of a mode the server has a callback for (`ByOfferedMode`). `LoginImplemented`:
`Handshake` implements `Login`, each action one step of it or none. That a telling is
right follows from the invariant; that there is only one from `Told`: a client that was
told is `Active` or `Closed` and never authenticates again.

**`OpenEndProofs`**: the five properties of `OpenServer`, against a client that sends
anything, and the four of `OpenClient`, against such a server.

*The server.* The invariant (`OneCall`, `LastChallenge`) says that a callback runs only in
`ProcessingAuth`, alone, and that what is stored or validated is the challenge issued
last. All of it rests on the state being set before the `await`: no frame starts a
callback in `ProcessingAuth`, none changes the state until the callback returned.

*The client.*

* `OfferedModesOnlyHolds`: what arrived at the server, followed by what is under way to
  it, is what is gone from the list, from its end (`Requested`, `Due`); if the connection
  breaks, some of the last may be missing. Before the welcome, whatever it may offer,
  nothing is gone (`Fresh`).
* `OneSignatureHolds`: while the promise is pending the client is connecting, and asks
  for a second signature only after the first (`Awaiting`).
* `PromiseFollowsStateHolds`: a promise is rejected only together with closing the
  socket, or because it is closed, and no socket opens again (`Ended`). That holds whether
  or not frames are delivered after `close()`: what a late continuation of `sign()` makes
  of the state does not touch the socket.

**`CallsProofs`**: `TypesHold`, `PendingIsReachableHolds`, `TableHoldsRunningHolds`. That the
table is the set of running handlers depends on IDs: a second handler under an ID
would take its entry, and so would a call that is refused (`server.ts:255, 304`). The
invariant (`CallsOnce`, `OneRun`) follows an ID from the client's counter over the wire
to its handler: a call frame is the only one of its ID, its ID is below `next`, and it
finds no handler.

On top of it an invariant for each call by itself (`Good`, theorem `EveryCallIsGood`): the
frames of the ID on the wire, in each direction, are what the reader lacks of what the
writer wrote, in order, with the frames that start and end the call where they belong
(`Shape`, `Responses`, `Requests`), and an error has a cause other than a frame that crossed
the end of the call (`Errors`). It is inductive relative to the first. From it follow `NoCrossTalkHolds`, `OkMeansAnsweredHolds`, `EndOfRequestsHolds`,
`ErrorsHaveACauseHolds`, and `KeepsContractHolds`: `Calls` implements `CallContract` for every
ID, each step of the system being one step of the contract of the call it is about, or
none.

**`OpenCallsProofs`**: `TypeCorrect`, `EntriesRunHolds`, `OnlyReuseHidesHolds`,
`ReplacedGetsNothingHolds`, `OnlyTheAddressedHolds`, against a client that uses IDs as it
likes. There the invariant counts (`Counted`, `Current`, `Dated`): the first call under an
ID finds no handler, and a message is numbered by the call it was sent after, so that
those of a replaced handler are all older than the call that started its successor
(`Bordered`), whether the successor has received any or not.

`Without` is a recursive function, about which the provers know nothing: that it exists and
obeys its equation is proved from initial segments of it (`LeavesExists`, `LeavesUnique`),
by an induction over the naturals stated about sets (`Induction`), since the library's
induction rules take an operator as parameter.

**`SessionProofs`** puts the two layers together: `SessionInvariant`,
`HandlersKnowTheUserHolds`, `InStepHolds`, `ImplementsCallsHolds`, `CallsKeepTheirPromises`,
`ContractKept`.
It takes the theorems of `HandshakeProofs` (as `HP`, its RPC frames being the messages of
calls) and of `CallsProofs` (as `CP`, on `callWire`), and proves none of it again.
The invariant `SInv` is the inductive invariant of each, and which of the two layers has the
socket:

* Until the promise of `connectSockRpc` resolves (`BeforeCalls`) no call was made and no
  handler runs. Each step is one of `Handshake`, and to `Calls`, which sees an empty wire,
  it is nothing, a close or loss of the connection, or a frame nobody reads any more.
* From then on (`HP!Connected`) the client is active or closed, the server active, its user
  fixed, and of the handshake nothing is left but late continuations of `sign()`.
  Each step is one of `Calls`, and keeps the handshake's
  invariant since it adds and removes RPC frames only.
* The step in between, in which the client takes the `userId` response or a welcome with a
  fixed user, leaves the wire empty: what `Calls` sees of it is all of it from there on
  (`NothingBefore`, `EverythingAfter`).
* `Given` says that the user in `served` is the connection's.

`ImplementsCallsHolds` follows step by step, and with it `CallsKeepTheirPromises`: all of
`NoCrossTalk`, `OkMeansAnswered`, `EndOfRequests`, `ErrorsHaveACause`, `PendingIsReachable`
and `TableHoldsRunning`, on a connection from its first frame, for any number of calls, and
`ContractKept`: each call of it is a behaviour of `CallContract`. What
makes this work is the token (above): when the client becomes active it has just taken
the only frame of the handshake, so that none can meet a call on the wire.

**Dates** (in `CommonProofs`): `DatesKept`, a Date before or after 1970 survives `fromDate` and
`toDate`; `TimesKept`, a Timestamp of whole milliseconds survives the other way. They are
about whole numbers without bounds, where JavaScript's are exact.

*Only model-checked.* Liveness (`ConnectSettles`, `CallsSettle`) is beyond the prover.
`ReadsTheMeaning` and `RoundTrip` are about recursive operators, computed over fields of
fields, which the prover does not take and could not do an induction over; `DateRoundTrip`
is stated of the messages of that module, its arithmetic is `TimesKept`.

## 6. Where documentation and code differ

* `HandshakeStuck`: a validator that throws leaves the server in `ProcessingAuth`
  (`server.ts:534-543`), though it tells the client that it may try again; the next
  request closes the socket. `README.md:25`: "PubkeyChallenge --> Auth: Failure".
* `HandshakeUser`: `server.ts:524` does not store an empty user ID on a connection
  it makes active. `README.md:29`: the user ID is "an arbitrary string".
* `CallsStreamClosed`: `complete()` and then `server.ts:280`/`354` each send a
  `streamClosed`. `README.md:88` has one, which ends the call. The client ignores
  the second (`ErrorsHaveACause` shows that it does no harm).
* `CallsError`: an error for a refused stream message ends the call for the client
  and not for the server, whose handler goes on. `README.md:101`.

Seen, not checked as findings: an abort sets a signal and does not end the call
(`server.ts:482`; the diagram may mean the client's side only). A rejection of
`sign()` is not caught, so that the promise waits for the socket to close (`ConnectSettles`
says that it does not wait longer). A call made after the close event never settles in a
browser, where `send` drops it without throwing: no document says what becomes of such a
call, so there is no claim to check, and `PendingIsReachable` and `CallsSettle` exempt just
these (`late`). An `onError` callback that
always calls again keeps `abortAll` from ending, where `send` does not throw on a
closed socket (`client.ts:181-191`). The server does not notice
a closed connection, so that its handlers run on.

## 7. Plan

Done, in this order: `WebSocket`, `Protocol`, `ClientConnect`, `ServerAuth`,
`Handshake` (with its proofs), `OpenServer`, `OpenClient`, `RpcProtocol`,
`ServerCalls`, `ClientCalls`, `Calls`, `OpenCalls`; then `Login` with its proof,
`CallContract`, calls made from inside `abortAll`, `Session`, `Codec`, and the proofs of
`OpenServer`, `Calls` and `OpenCalls`.

Then what both RPC layers do with one call (`NoCrossTalk`, `OkMeansAnswered`, `EndOfRequests`,
`ErrorsHaveACause`, `KeepsContract`), the remaining properties of `Handshake`, and
`OpenClient`.

Last `Session`: `HandlersKnowTheUser`, `InStep` and `ImplementsCalls`, from the invariants of
`Handshake` and `Calls`, and the dates of `Codec`.

Next: the client's RPC layer against any server, `PendingIsReachable` and what of
`CallContract` the client keeps by itself.

## 8. Not modelled

* Of the generated codec: the bytes of a scalar and the wire types, which belong to
  `@protobuf-ts/runtime`; the JSON form of `Timestamp` and `Timestamp.now`, which nothing
  calls; options other than the default, which keeps unknown fields. What a field of
  the wrong type is read as depends on its bytes: the model says only that the result
  is no message the writer meant (`Garbage`).
* Contents: tokens, keys, method names, error texts, deadlines (handed to handlers,
  enforced by nobody), `version`, metadata.
* `node/` is compiled from the same sources, statement for statement, so a model of it
  would be these modules again; scripts run at build time; tests and
  demo were read for how applications use the library.
* The buffering inside protobuf-ts's `RpcOutputStreamController`: a message counts as
  received when the stream was notified of it. Listeners that throw are left out.
* `onAuthFailure` throwing, unhandled rejections, and memory.
