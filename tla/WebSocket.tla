----------------------------- MODULE WebSocket ------------------------------
(***************************************************************************)
(* One WebSocket connection and the adapters both ends put around it       *)
(* (common.ts).  The socket itself belongs to the platform: its behaviour  *)
(* is the one BrowserWebSocketAdapter relies on, that is, reliable and     *)
(* ordered frames in each direction until one end closes or the connection *)
(* is lost.                                                                *)
(***************************************************************************)
EXTENDS Naturals, Sequences

CONSTANT
  LateDelivery  \* TRUE: the adapter still hands over frames that arrive
                \* between close() and the close event.  The browser drops
                \* them, the WebSocketAdapter interface promises neither.

ASSUME LateDeliveryAssumption == LateDelivery \in BOOLEAN

VARIABLES
  wire,   \* wire[e]: frames on their way to end e, oldest first
  fin,    \* fin[e]: nothing follows wire[e]; then e sees the close event
  ready   \* ready[e]: readyState of e's socket object

sockVars == <<wire, fin, ready>>

Ends == {"client", "server"}

Peer(e) == IF e = "client" THEN "server" ELSE "client"

SocketTypeOK(Frame) ==
  /\ wire \in [Ends -> Seq(Frame)]
  /\ fin \in [Ends -> BOOLEAN]
  /\ ready \in [Ends -> {"open", "closing", "closed"}]

\* The connection is open on both ends and w is under way.
SocketInit(w) ==
  /\ wire = w
  /\ fin = [e \in Ends |-> FALSE]
  /\ ready = [e \in Ends |-> "open"]

-----------------------------------------------------------------------------
(* Operations of an adapter, as functions of the wire: a handler that       *)
(* takes a frame and answers it composes them.                              *)

\* socket.send: on a socket that is not open, or whose connection is gone,
\* the frame goes nowhere.
Push(w, e, frame) ==
  IF ready[e] = "open" /\ ~fin[Peer(e)]
    THEN [w EXCEPT ![Peer(e)] = Append(@, frame)]
    ELSE w

\* The "message" event takes the oldest frame off the wire.
Pop(w, e) == [w EXCEPT ![e] = Tail(@)]

\* socket.close: the peer sees what was sent before, then the end.
CloseSocket(e) ==
  IF ready[e] = "open"
    THEN /\ ready' = [ready EXCEPT ![e] = "closing"]
         /\ fin' = [fin EXCEPT ![Peer(e)] = TRUE]
    ELSE UNCHANGED <<ready, fin>>

\* A "message" event fires at e.
Deliverable(e) ==
  /\ wire[e] # <<>>
  /\ \/ ready[e] = "open"
     \/ LateDelivery /\ ready[e] = "closing"

\* The "close" event fires at e, alone or right after "error"; the handler
\* given to onClose runs for both, the second time in a state where it does
\* nothing more.
CloseEvent(e) ==
  /\ wire[e] = <<>>
  /\ fin[e]
  /\ ready[e] # "closed"
  /\ ready' = [ready EXCEPT ![e] = "closed"]
  /\ fin' = [fin EXCEPT ![Peer(e)] = TRUE]
  /\ UNCHANGED wire

-----------------------------------------------------------------------------
(* What happens to the connection on its own.                               *)

\* A frame reaches an end that has closed: without LateDelivery it is dropped.
Discard(e) ==
  /\ ~LateDelivery
  /\ ready[e] = "closing"
  /\ wire[e] # <<>>
  /\ wire' = Pop(wire, e)
  /\ UNCHANGED <<fin, ready>>

\* The application closes the socket it handed to the adapter.
UserClose(e) ==
  /\ ready[e] = "open"
  /\ CloseSocket(e)
  /\ UNCHANGED wire

\* The connection is lost: of the frames under way each end gets a prefix,
\* and an end that is still open learns of the loss after it.
Lose ==
  /\ \E e \in Ends : ~fin[e]
  /\ fin' = [e \in Ends |-> TRUE]
  /\ \E i \in 0..Len(wire["client"]), j \in 0..Len(wire["server"]) :
       wire' = [e \in Ends |-> SubSeq(wire[e], 1, IF e = "client" THEN i ELSE j)]
  /\ UNCHANGED ready

SocketStep ==
  \/ \E e \in Ends : Discard(e) \/ UserClose(e)
  \/ Lose
=============================================================================
