-------------------------- MODULE OpenCallsProofs ---------------------------
(***************************************************************************)
(* What the server's RPC layer guarantees against any client, for all      *)
(* values of the constants.                                                *)
(*                                                                         *)
(* The invariants the runs check are not inductive by themselves: they     *)
(* need to know what the frame on the wire may do next.  A call frame with *)
(* an ID used once finds no handler of that ID, and a message carries a    *)
(* number that no message sent before the call frame on the wire, or       *)
(* before the last handler's, has reached.                                 *)
(***************************************************************************)
EXTENDS OpenCalls, ServerCallsProofs, FiniteSetTheorems

\* A call with ID i is on its way.
Called(i) ==
  wire["server"] # <<>> /\ Arrived.oneofKind \in {"call", "callClientStream"} /\ Arrived.id = i

OneFrame == Len(wire["server"]) \in {0, 1}

\* Handlers, and the call that is to start one, are counted.
Counted ==
  \A i \in CallIds :
    /\ RunsOf(i) # {} \/ Called(i) => uses[i] >= 1
    /\ Called(i) /\ uses[i] <= 1 => RunsOf(i) = {}

\* The message on its way is of the last call under its ID.
Current ==
  wire["server"] # <<>> /\ Arrived.oneofKind \in {"call", "streamSend"}
    /\ Arrived.body \notin Malformed => Arrived.body = [call |-> Arrived.id, n |-> uses[Arrived.id]]

\* A handler has messages of calls up to the last under its ID, and before
\* that one if it is not, or will not be, the handler of the last.
Dated ==
  \A i \in CallIds : \A r \in RunsOf(i) : \A j \in DOMAIN runs[r].requests :
    /\ runs[r].requests[j].n \in 0..uses[i]
    /\ Called(i) \/ (\E s \in RunsOf(i) : r < s) => runs[r].requests[j].n < uses[i]

\* A handler was started by a call that was sent.
Bordered ==
  /\ startedBy \in [DOMAIN runs -> Nat]
  /\ \A i \in CallIds : \A r \in RunsOf(i) : startedBy[r] <= uses[i]

Types == ServerTypes /\ uses \in [CallIds -> Nat]

IInv ==
  /\ Types /\ OneFrame
  /\ EntriesRun
  /\ Counted /\ OnlyReuseHides
  /\ Current /\ Dated /\ Bordered /\ ReplacedGetsNothing

Rest ==
  /\ EntriesRun
  /\ Counted /\ OnlyReuseHides
  /\ Dated /\ Bordered /\ ReplacedGetsNothing

-----------------------------------------------------------------------------
(* What handling a frame does: the wire is empty afterwards.                *)

LEMMA Emptied ==
  ASSUME IInv, ServerHandles
  PROVE  /\ wire["server"] # <<>> /\ wire'["server"] = <<>>
         /\ OneFrame' /\ Current' /\ \A i : ~Called(i)'
<1>1. wire["server"] \in Seq(Message) /\ wire["server"] # <<>>
  BY HandlesEffect DEF Deliverable, IInv, Types, ServerTypes, SocketTypeOK, Ends
<1>2. wire'["server"] = Tail(wire["server"])
  BY HandlesEffect DEF IInv, Types
<1>3. wire'["server"] = <<>>
  <2>1. Len(wire["server"]) = 1
    BY <1>1 DEF IInv, OneFrame
  <2>2. Tail(wire["server"]) \in Seq(Message) /\ Len(Tail(wire["server"])) = 0
    BY <1>1, <2>1, HeadTailProperties
  <2> QED
    BY <1>2, <2>2, EmptySeq
<1> QED
  BY <1>1, <1>3 DEF OneFrame, Current, Called

\* Only a handler that starts is recorded.
LEMMA NothingRecorded ==
  ASSUME Bordered, RecordStart, DOMAIN runs' = DOMAIN runs
  PROVE  startedBy' = startedBy
BY DEF Bordered, RecordStart

\* Who is whose handler, and runs, after a handler started ...
LEMMA Started ==
  ASSUME NEW i0, DOMAIN runs' = DOMAIN runs \cup {Len(runs) + 1}, Len(runs) + 1 \notin DOMAIN runs,
         \A r \in DOMAIN runs : runs'[r] = runs[r],
         runs'[Len(runs) + 1].id = i0, runs'[Len(runs) + 1].result = "running"
  PROVE  /\ \A i : i # i0 => RunsOf(i)' = RunsOf(i) /\ Running(i)' = Running(i)
         /\ RunsOf(i0)' = RunsOf(i0) \cup {Len(runs) + 1}
         /\ Running(i0)' = Running(i0) \cup {Len(runs) + 1}
<1> DEFINE new == Len(runs) + 1
<1>1. ASSUME NEW i, NEW r
      PROVE  r \in RunsOf(i)' <=> r \in RunsOf(i) \/ (r = new /\ i = i0)
  BY DEF RunsOf
<1>2. ASSUME NEW i, NEW r
      PROVE  r \in Running(i)' <=> r \in Running(i) \/ (r = new /\ i = i0)
  BY <1>1 DEF Running, RunsOf
<1> HIDE DEF new
<1>3. ASSUME NEW i, i # i0 PROVE RunsOf(i)' = RunsOf(i) /\ Running(i)' = Running(i)
  BY <1>3 DEF RunsOf, Running
<1>4. RunsOf(i0)' = RunsOf(i0) \cup {new}
  BY <1>1
<1>5. Running(i0)' = Running(i0) \cup {new}
  BY <1>2
<1> QED
  BY <1>3, <1>4, <1>5 DEF new

\* ... and after another step of one.
LEMMA Kept ==
  ASSUME NEW a, OnlyRun(a)
  PROVE  /\ \A i : RunsOf(i)' = RunsOf(i)
         /\ \A i, r : r # a => (r \in Running(i)' <=> r \in Running(i))
         /\ runs'[a].result = runs[a].result => \A i : Running(i)' = Running(i)
<1>1. ASSUME NEW i, NEW r PROVE r \in RunsOf(i)' <=> r \in RunsOf(i)
  BY DEF RunsOf, OnlyRun
<1>2. \A i : RunsOf(i)' = RunsOf(i)
  BY <1>1
<1>3. ASSUME NEW i, NEW r, r # a \/ runs'[r].result = runs[r].result
      PROVE  r \in Running(i)' <=> r \in Running(i)
  <2>1. r \in RunsOf(i) => runs'[r].result = runs[r].result
    BY <1>3 DEF RunsOf, OnlyRun
  <2> QED
    BY <1>2, <2>1 DEF Running
<1>4. ASSUME runs'[a].result = runs[a].result, NEW i PROVE Running(i)' = Running(i)
  <2>1. ASSUME NEW r PROVE r \in Running(i)' <=> r \in Running(i)
    BY <1>3, <1>4
  <2> QED
    BY <2>1
<1> QED
  BY <1>2, <1>3, <1>4

\* A handler starts: there is none of its ID, if the ID was used once.
LEMMA StartsStep ==
  ASSUME IInv, ServerHandles, Starts, RecordStart, UNCHANGED uses
  PROVE  Rest'
<1> DEFINE new == Len(runs) + 1
<1>0. PICK i0 \in CallIds : i0 = Arrived.id
  BY Arrival DEF IInv, Types, Starts, Arrives
<1>1. /\ i0 \in CallIds /\ Called(i0) /\ \A i : ~Called(i)'
      /\ Arrived.oneofKind = "call" /\ Arrived.body \notin Malformed =>
           Arrived.body.n = uses[i0]
  BY <1>0, Emptied DEF IInv, Called, Current, Starts, Arrives
<1>2. /\ Len(runs) \in Nat /\ DOMAIN runs = 1..Len(runs) /\ DOMAIN runs' = 1..new
      /\ new \notin DOMAIN runs /\ \A r \in DOMAIN runs : r < new
      /\ \A r \in DOMAIN runs : runs'[r] = runs[r]
      /\ runs'[new].id = i0 /\ runs'[new].result = "running"
      /\ serverCalls' = [serverCalls EXCEPT ![i0] = new]
      /\ serverCalls \in [CallIds -> Nat] /\ uses \in [CallIds -> Nat]
  <2>1. runs \in Seq(Run) /\ runs' \in Seq(Run)
    BY HandlesEffect DEF IInv, Types, ServerTypes, ServerTypeOK
  <2> QED
    BY <1>0, <2>1 DEF Starts, IInv, Types, ServerTypes, ServerTypeOK
<1>3. /\ \A i \in CallIds \ {i0} : RunsOf(i)' = RunsOf(i) /\ Running(i)' = Running(i)
      /\ RunsOf(i0)' = RunsOf(i0) \cup {new} /\ Running(i0)' = Running(i0) \cup {new}
      /\ \A i \in CallIds : RunsOf(i) \subseteq DOMAIN runs
  <2>1. DOMAIN runs' = DOMAIN runs \cup {new}
    BY <1>2
  <2>2. \A i \in CallIds : RunsOf(i) \subseteq DOMAIN runs
    BY DEF RunsOf
  <2>3. /\ new \notin DOMAIN runs /\ \A r \in DOMAIN runs : runs'[r] = runs[r]
        /\ runs'[new].id = i0 /\ runs'[new].result = "running"
    BY <1>2
  <2>4. /\ \A i : i # i0 => RunsOf(i)' = RunsOf(i) /\ Running(i)' = Running(i)
        /\ RunsOf(i0)' = RunsOf(i0) \cup {new} /\ Running(i0)' = Running(i0) \cup {new}
    BY <2>1, <2>3, Started DEF RunsOf, Running
  <2> QED
    BY <2>2, <2>4
<1>4. EntriesRun'
  BY <1>2, <1>3 DEF IInv, EntriesRun, NoCall, RunsOf
<1>5. Counted'
  BY <1>1, <1>2, <1>3 DEF IInv, Counted
<1>6. OnlyReuseHides'
  <2>1. uses[i0] <= 1 => Running(i0) = {}
    BY <1>1 DEF IInv, Counted, Running
  <2>2. uses[i0] <= 1 => Running(i0)' = {new} /\ serverCalls'[i0] = new /\ new # NoCall
    BY <1>1, <1>2, <1>3, <2>1 DEF NoCall
  <2>3. \A i \in CallIds \ {i0} : serverCalls'[i] = serverCalls[i]
    BY <1>2
  <2> SUFFICES ASSUME NEW i \in CallIds, uses[i] <= 1
               PROVE  Running(i)' = {serverCalls'[i]} \ {NoCall}
    BY DEF OnlyReuseHides
  <2>4. CASE i = i0
    <3>1. Running(i0)' = {new} /\ serverCalls'[i0] = new /\ new # NoCall
      BY <1>2, <2>2, <2>4
    <3>2. {new} \ {NoCall} = {new}
      BY <3>1
    <3> QED
      BY <2>4, <3>1, <3>2 DEF RunsOf, Running
  <2>5. CASE i # i0
    BY <1>3, <2>3, <2>5 DEF IInv, OnlyReuseHides
  <2> QED
    BY <2>4, <2>5
<1>7. \A k \in DOMAIN runs'[new].requests : runs'[new].requests[k].n = uses[i0]
  BY <1>0, <1>1 DEF Starts
<1>8. \A r \in RunsOf(i0) : \A j \in DOMAIN runs[r].requests :
        runs[r].requests[j].n \in 0..uses[i0] /\ runs[r].requests[j].n < uses[i0]
  BY <1>1 DEF IInv, Dated
<1>9. Dated'
  <2> SUFFICES ASSUME NEW i \in CallIds, NEW r \in RunsOf(i)', NEW j \in DOMAIN runs'[r].requests
               PROVE  /\ runs'[r].requests[j].n \in 0..uses[i]
                      /\ (\E s \in RunsOf(i)' : r < s) => runs'[r].requests[j].n < uses[i]
    BY <1>1 DEF Dated
  <2>1. CASE r = new
    <3>1. i = i0 /\ \A s \in RunsOf(i)' : ~(new < s)
      BY <1>2, <2>1 DEF RunsOf
    <3> QED
      BY <1>1, <1>2, <1>7, <2>1, <3>1
  <2>2. CASE i = i0 /\ r # new
    <3>1. r \in RunsOf(i0) /\ runs'[r] = runs[r]
      <4>1. r \in RunsOf(i0)
        <5>1. RunsOf(i0)' = RunsOf(i0) \cup {new}
          BY <1>3
        <5> HIDE DEF new
        <5> QED
          BY <2>2, <5>1 DEF RunsOf
      <4> QED
        BY <1>2, <4>1 DEF RunsOf
    <3> QED
      BY <1>8, <2>2, <3>1
  <2>3. CASE i # i0
    <3>1. r \in RunsOf(i) /\ RunsOf(i)' = RunsOf(i) /\ runs'[r] = runs[r]
      BY <1>2, <1>3, <2>3 DEF RunsOf
    <3> QED
      BY <3>1 DEF IInv, Dated
  <2> QED
    BY <1>2, <1>3, <2>1, <2>2, <2>3
<1>10. /\ startedBy' \in [DOMAIN runs' -> Nat] /\ startedBy'[new] = uses[i0]
       /\ \A r \in DOMAIN runs : startedBy'[r] = startedBy[r]
  <2>1. startedBy' = [r \in DOMAIN runs' |->
                        IF r \in DOMAIN runs THEN startedBy[r] ELSE uses[i0]]
    BY <1>0 DEF RecordStart
  <2>2. uses[i0] \in Nat /\ startedBy \in [DOMAIN runs -> Nat]
    BY <1>2 DEF IInv, Bordered
  <2> QED
    BY <1>2, <2>1, <2>2
<1>11. Bordered'
  <2> SUFFICES ASSUME NEW i \in CallIds, NEW r \in RunsOf(i)'
               PROVE  startedBy'[r] <= uses[i]
    BY <1>10 DEF Bordered
  <2>1. CASE r = new
    <3>1. i = i0 /\ uses[i0] \in Nat
      BY <1>2, <2>1 DEF RunsOf
    <3> QED
      BY <1>10, <2>1, <3>1
  <2>2. CASE r # new
    <3>1. r \in RunsOf(i) /\ r \in DOMAIN runs
      BY <1>2, <1>3, <2>2 DEF RunsOf
    <3> QED
      BY <1>10, <3>1 DEF IInv, Bordered
  <2> QED
    BY <2>1, <2>2
<1>12. ReplacedGetsNothing'
  <2> SUFFICES ASSUME NEW i \in CallIds, NEW old \in RunsOf(i)', NEW s \in RunsOf(i)', old < s
               PROVE  /\ \A j \in DOMAIN runs'[old].requests :
                           runs'[old].requests[j].n < startedBy'[s]
                      /\ \A k \in DOMAIN runs'[s].requests :
                           runs'[s].requests[k].n >= startedBy'[s]
    BY DEF ReplacedGetsNothing
  <2>1. old # new /\ old \in RunsOf(i) /\ runs'[old] = runs[old]
    BY <1>2, <1>3 DEF RunsOf
  <2>2. CASE s = new
    <3>1. i = i0 /\ uses[i0] \in Nat
      BY <1>2, <2>2 DEF RunsOf
    <3> QED
      BY <1>7, <1>8, <1>10, <2>1, <2>2, <3>1
  <2>3. CASE s # new
    <3>1. s \in RunsOf(i) /\ runs'[s] = runs[s] /\ startedBy'[s] = startedBy[s]
      BY <1>2, <1>3, <1>10, <2>3 DEF RunsOf
    <3> QED
      BY <2>1, <3>1 DEF IInv, ReplacedGetsNothing
  <2> QED
    BY <2>2, <2>3
<1> QED
  BY <1>4, <1>5, <1>6, <1>9, <1>11, <1>12 DEF Rest

\* A frame reaches the handler it is for, the last of its ID.
LEMMA ReachesStep ==
  ASSUME IInv, ServerHandles, Reaches, RecordStart, UNCHANGED uses
  PROVE  Rest'
<1> DEFINE i0 == Arrived.id
           a == Addressed
<1>1. /\ i0 \in CallIds /\ \A i : ~Called(i)'
      /\ Arrived.oneofKind = "streamSend" /\ Arrived.body \notin Malformed =>
           Arrived.body.n = uses[i0]
  BY Emptied, Arrival DEF IInv, Types, Current, Reaches, Arrives
<1>2. a \in Running(i0) /\ a \in RunsOf(i0) /\ \A r \in RunsOf(i0) : r <= a
  BY <1>1 DEF IInv, EntriesRun, Reaches, Addressed, Running
<1>3. /\ DOMAIN runs' = DOMAIN runs
      /\ \A r \in DOMAIN runs : r # a => runs'[r] = runs[r]
      /\ serverCalls' = serverCalls /\ uses' = uses /\ uses \in [CallIds -> Nat]
  BY DEF Reaches, OnlyRun, IInv, Types
<1>4. \A i \in CallIds : RunsOf(i)' = RunsOf(i) /\ Running(i)' = Running(i)
  BY Kept DEF Reaches
<1>5. EntriesRun' /\ OnlyReuseHides' /\ Counted'
  BY <1>1, <1>3, <1>4 DEF IInv, EntriesRun, OnlyReuseHides, Counted
<1>6. \A j \in DOMAIN runs'[a].requests :
        \/ j \in DOMAIN runs[a].requests /\ runs'[a].requests[j] = runs[a].requests[j]
        \/ runs'[a].requests[j].n = uses[i0]
  <2>1. runs[a].requests \in Seq(Body)
    <3>1. runs[a] \in Run
      BY <1>2 DEF IInv, Types, ServerTypes, ServerTypeOK, RunsOf
    <3> QED
      BY <3>1 DEF Run
  <2>2. CASE runs'[a].requests = runs[a].requests
    BY <2>2
  <2>3. CASE /\ Arrived.oneofKind = "streamSend" /\ Arrived.body \notin Malformed
             /\ runs'[a].requests = Append(runs[a].requests, Arrived.body)
    BY <1>1, <2>1, <2>3
  <2> QED
    BY <2>2, <2>3 DEF Reaches
<1>7. Dated'
  <2> SUFFICES ASSUME NEW i \in CallIds, NEW r \in RunsOf(i), NEW j \in DOMAIN runs'[r].requests
               PROVE  /\ runs'[r].requests[j].n \in 0..uses[i]
                      /\ (\E s \in RunsOf(i) : r < s) => runs'[r].requests[j].n < uses[i]
    BY <1>1, <1>3, <1>4 DEF Dated
  <2>1. CASE r = a
    <3>1. i = i0 /\ \A s \in RunsOf(i) : ~(a < s)
      <4>1. \A s \in RunsOf(i0) : s \in Nat /\ a \in Nat
        BY <1>2 DEF RunsOf, IInv, Types, ServerTypes, ServerTypeOK
      <4> QED
        BY <1>2, <2>1, <4>1 DEF RunsOf
    <3>2. \A k \in DOMAIN runs[a].requests : runs[a].requests[k].n \in 0..uses[i0]
      BY <1>1, <1>2 DEF IInv, Dated
    <3> QED
      BY <1>1, <1>3, <1>6, <2>1, <3>1, <3>2
  <2>2. CASE r # a
    <3>1. runs'[r] = runs[r]
      BY <1>3, <2>2 DEF RunsOf
    <3> QED
      BY <3>1 DEF IInv, Dated
  <2> QED
    BY <2>1, <2>2
<1>8. startedBy' = startedBy /\ startedBy \in [DOMAIN runs -> Nat]
  BY <1>3, NothingRecorded DEF IInv, Bordered
<1>9. Bordered'
  BY <1>3, <1>4, <1>8 DEF IInv, Bordered
<1>10. ReplacedGetsNothing'
  <2> SUFFICES ASSUME NEW i \in CallIds, NEW old \in RunsOf(i), NEW s \in RunsOf(i), old < s
               PROVE  /\ \A j \in DOMAIN runs'[old].requests :
                           runs'[old].requests[j].n < startedBy[s]
                      /\ \A k \in DOMAIN runs'[s].requests :
                           runs'[s].requests[k].n >= startedBy[s]
    BY <1>4, <1>8 DEF ReplacedGetsNothing
  <2>1. old # a
    <3>1. old \in Nat /\ s \in Nat /\ a \in Nat
      BY <1>2 DEF RunsOf, IInv, Types, ServerTypes, ServerTypeOK
    <3> QED
      BY <1>2, <3>1 DEF RunsOf
  <2>2. runs'[old] = runs[old]
    BY <1>3, <2>1 DEF RunsOf
  <2>3. /\ \A j \in DOMAIN runs[old].requests : runs[old].requests[j].n < startedBy[s]
        /\ \A k \in DOMAIN runs[s].requests : runs[s].requests[k].n >= startedBy[s]
    BY DEF IInv, ReplacedGetsNothing
  <2>4. CASE s = a
    <3>1. i = i0
      BY <1>2, <2>4 DEF RunsOf
    <3>2. startedBy[a] <= uses[i0] /\ startedBy[a] \in Nat /\ uses[i0] \in Nat
      BY <1>1, <1>2, <1>3, <1>8 DEF IInv, Bordered, RunsOf
    <3> QED
      BY <1>6, <2>2, <2>3, <2>4, <3>1, <3>2
  <2>5. CASE s # a
    <3>1. runs'[s] = runs[s]
      BY <1>3, <2>5 DEF RunsOf
    <3> QED
      BY <2>2, <2>3, <3>1
  <2> QED
    BY <2>4, <2>5
<1> QED
  BY <1>5, <1>7, <1>9, <1>10 DEF Rest

\* Frames that start and reach nothing.
LEMMA RefusesStep ==
  ASSUME IInv, ServerHandles, Refuses, RecordStart, UNCHANGED uses
  PROVE  Rest'
<1>1. /\ UNCHANGED <<runs, uses, startedBy>> /\ \A i : ~Called(i)'
      /\ serverCalls \in [CallIds -> Nat]
  BY Emptied, NothingRecorded DEF Refuses, IInv, Types, ServerTypes, ServerTypeOK
<1>2. Dated' /\ Bordered' /\ ReplacedGetsNothing' /\ Counted'
  BY <1>1 DEF IInv, Dated, Bordered, ReplacedGetsNothing, Counted, RunsOf
<1>3. CASE UNCHANGED serverCalls
  BY <1>1, <1>2, <1>3 DEF IInv, Rest, EntriesRun, OnlyReuseHides, RunsOf, Running
<1>4. CASE Arrives({"call"}) /\ serverCalls' = [serverCalls EXCEPT ![Arrived.id] = NoCall]
  <2>1. PICK i0 \in CallIds : i0 = Arrived.id
    BY Arrival DEF IInv, Types, Refuses
  <2>2. Called(i0)
    BY <1>4, <2>1, Emptied DEF Arrives, Called
  <2>3. /\ serverCalls'[i0] = NoCall
        /\ \A i \in CallIds \ {i0} : serverCalls'[i] = serverCalls[i]
    BY <1>1, <1>4, <2>1
  <2>4. EntriesRun'
    BY <1>1, <2>3 DEF IInv, EntriesRun, RunsOf, Running
  <2>5. uses[i0] <= 1 => RunsOf(i0) = {}
    BY <2>2 DEF IInv, Counted
  <2>6. uses[i0] <= 1 => Running(i0) = {serverCalls'[i0]} \ {NoCall}
    BY <2>3, <2>5 DEF Running
  <2>7. OnlyReuseHides'
    BY <1>1, <2>3, <2>6 DEF IInv, OnlyReuseHides, RunsOf, Running
  <2> QED
    BY <1>2, <2>4, <2>7 DEF Rest
<1> QED
  BY <1>3, <1>4 DEF Refuses

\* A handler sends, or ends.
LEMMA HandlerStep ==
  ASSUME IInv, NEW a \in DOMAIN runs, Sends(a) \/ Finishes(a),
         RecordStart, UNCHANGED uses, wire'["server"] = wire["server"]
  PROVE  Rest'
<1>1. /\ DOMAIN runs' = DOMAIN runs /\ uses' = uses
      /\ \A r \in DOMAIN runs : runs'[r].requests = runs[r].requests
      /\ \A i : Called(i)' <=> Called(i)
      /\ serverCalls \in [CallIds -> Nat]
  BY DEF Sends, Finishes, OnlyRun, Called, Arrived, IInv, Types, ServerTypes, ServerTypeOK
<1>2. OnlyRun(a)
  BY DEF Sends, Finishes
<1>3. Dated' /\ Bordered' /\ ReplacedGetsNothing' /\ Counted'
  <2>1. ASSUME NEW i PROVE RunsOf(i)' = RunsOf(i)
    BY <1>2, Kept DEF RunsOf
  <2>2. Counted'
    BY <1>1, <2>1 DEF IInv, Counted, RunsOf
  <2>3. Dated'
    BY <1>1, <1>2 DEF IInv, Dated, RunsOf, OnlyRun
  <2>4. startedBy' = startedBy
    BY <1>1, NothingRecorded DEF IInv
  <2>5. Bordered' /\ ReplacedGetsNothing'
    BY <1>1, <1>2, <2>4 DEF IInv, Bordered, ReplacedGetsNothing, RunsOf, OnlyRun
  <2> QED
    BY <2>2, <2>3, <2>5
<1>4. CASE Sends(a)
  <2>1. \A i : RunsOf(i)' = RunsOf(i) /\ Running(i)' = Running(i)
    BY <1>2, <1>4, Kept DEF Sends
  <2> QED
    BY <1>1, <1>3, <1>4, <2>1 DEF IInv, Rest, Sends, EntriesRun, OnlyReuseHides
<1>5. CASE Finishes(a)
  <2>1. PICK i0 \in CallIds : i0 = runs[a].id
    <3>1. runs[a] \in Run
      BY DEF IInv, Types, ServerTypes, ServerTypeOK
    <3> QED
      BY <3>1 DEF Run
  <2>2. /\ serverCalls'[i0] = NoCall
        /\ \A i \in CallIds \ {i0} : serverCalls'[i] = serverCalls[i]
    BY <1>1, <1>5, <2>1 DEF Finishes
  <2>3. \A i \in CallIds \ {i0} : RunsOf(i)' = RunsOf(i) /\ Running(i)' = Running(i)
    BY <1>2, <2>1 DEF RunsOf, Running, OnlyRun
  <2>4. EntriesRun'
    BY <2>2, <2>3 DEF IInv, EntriesRun, RunsOf, Running
  <2>5. a \in Running(i0) /\ a \notin Running(i0)' /\ Running(i0)' \subseteq Running(i0)
    BY <1>2, <1>5, <2>1 DEF Finishes, RunsOf, Running, OnlyRun
  <2>6. uses[i0] <= 1 => Running(i0)' = {}
    BY <2>5 DEF IInv, OnlyReuseHides
  <2>7. OnlyReuseHides'
    <3> SUFFICES ASSUME NEW i \in CallIds, uses[i] <= 1
                 PROVE  Running(i)' = {serverCalls'[i]} \ {NoCall}
      BY <1>1 DEF OnlyReuseHides
    <3>1. CASE i = i0
      BY <2>2, <2>6, <3>1 DEF Running, RunsOf
    <3>2. CASE i # i0
      BY <2>2, <2>3, <3>2 DEF IInv, OnlyReuseHides, Running, RunsOf
    <3> QED
      BY <3>1, <3>2
  <2> QED
    BY <1>3, <2>4, <2>7 DEF Rest
<1> QED
  BY <1>4, <1>5

\* A frame the client sends is a message, alone on the wire if it gets there.
LEMMA Sent ==
  ASSUME IInv, wire["server"] = <<>>, NEW f \in Message, wire' = Push(wire, "client", f),
         UNCHANGED <<fin, ready>>
  PROVE  /\ SocketTypeOK(Message)' /\ OneFrame'
         /\ wire'["server"] # <<>> => Arrived' = f
<1>1. wire \in [Ends -> Seq(Message)] /\ "client" \in Ends /\ Peer("client") = "server"
  BY DEF IInv, Types, ServerTypes, SocketTypeOK, Ends, Peer
<1>2. /\ wire' \in [Ends -> Seq(Message)]
      /\ wire'["server"] = Append(wire["server"], f) \/ wire'["server"] = wire["server"]
  <2>1. Append(wire["server"], f) \in Seq(Message)
    BY <1>1
  <2> QED
    BY <1>1, <2>1 DEF Push, Ends
<1>3. wire'["server"] = <<f>> \/ wire'["server"] = <<>>
  BY <1>2
<1>4. SocketTypeOK(Message)'
  BY <1>2 DEF IInv, Types, ServerTypes, SocketTypeOK
<1>5. OneFrame' /\ (wire'["server"] # <<>> => Arrived' = f)
  <2>1. CASE wire'["server"] = <<f>>
    <3>1. Len(wire'["server"]) = 1
      BY <2>1
    <3>2. Arrived' = f
      BY <2>1 DEF Arrived
    <3>3. OneFrame'
      BY <3>1 DEF OneFrame
    <3> QED
      BY <3>2, <3>3
  <2>2. CASE wire'["server"] = <<>>
    BY <2>2 DEF OneFrame
  <2> QED
    BY <1>3, <2>1, <2>2
<1> QED
  BY <1>4, <1>5

LEMMA ClientSendsStep ==
  ASSUME IInv, ClientSends, UNCHANGED serverVars
  PROVE  IInv'
<1>1. PICK i \in CallIds :
        \/ /\ uses' = [uses EXCEPT ![i] = @ + 1]
           /\ \E f \in CallFrames(i) : wire' = Push(wire, "client", f)
        \/ /\ \E f \in OtherFrames(i) : wire' = Push(wire, "client", f)
           /\ UNCHANGED uses
  BY DEF ClientSends
<1>2. /\ uses \in [CallIds -> Nat] /\ i \in Nat /\ wire["server"] = <<>>
      /\ runs' = runs /\ serverCalls' = serverCalls /\ UNCHANGED <<startedBy, fin, ready>>
      /\ \A k : ~Called(k)
      /\ \A n \in Nat : Bodies(i, n) \subseteq Body
  BY RpcAssumption DEF ClientSends, serverVars, IInv, Types, Bodies, Body, Called
<1>3. CASE /\ uses' = [uses EXCEPT ![i] = @ + 1]
           /\ \E f \in CallFrames(i) : wire' = Push(wire, "client", f)
  <2>1. PICK f \in CallFrames(i) : wire' = Push(wire, "client", f)
    BY <1>3
  <2>2. /\ f.id = i /\ f.oneofKind \in {"call", "callClientStream"} /\ f \in Message
        /\ f.oneofKind = "call" /\ f.body \notin Malformed =>
             f.body = [call |-> i, n |-> uses[i] + 1]
    <3>1. CASE \E m \in Method, b \in Bodies(i, uses[i] + 1) : f = Call(i, m, b)
      <4>1. PICK m \in Method, b \in Bodies(i, uses[i] + 1) : f = Call(i, m, b)
        BY <3>1
      <4>2. b \in Body /\ uses[i] + 1 \in Nat
        BY <1>2
      <4>3. f \in ClientMessage /\ f.id = i /\ f.oneofKind = "call" /\ f.body = b
        BY <1>2, <4>1, <4>2 DEF Call, ClientMessage
      <4> QED
        BY <4>1, <4>3 DEF Message, Bodies
    <3>2. CASE \E m \in Method : f = CallClientStream(i, m)
      BY <1>2, <3>2 DEF CallClientStream, Message, ClientMessage
    <3> QED
      BY <3>1, <3>2 DEF CallFrames
  <2>3. /\ SocketTypeOK(Message)' /\ OneFrame'
        /\ wire'["server"] # <<>> => Arrived' = f
    BY <1>2, <2>1, <2>2, Sent
  <2>4. /\ uses' \in [CallIds -> Nat] /\ uses'[i] = uses[i] + 1
        /\ \A k \in CallIds \ {i} : uses'[k] = uses[k]
        /\ \A k \in CallIds \ {i} : ~Called(k)'
    BY <1>2, <1>3, <2>2, <2>3 DEF Called
  <2>5. Types' /\ EntriesRun'
    BY <1>2, <2>3, <2>4
    DEF IInv, Types, ServerTypes, ServerTypeOK, EntriesRun, RunsOf, Running
  <2>6. Current'
    BY <2>2, <2>3, <2>4 DEF Current
  <2>7. OnlyReuseHides'
    BY <1>2, <2>4 DEF IInv, OnlyReuseHides, RunsOf, Running
  <2>8. Counted'
    <3> SUFFICES ASSUME NEW k \in CallIds
                 PROVE  /\ RunsOf(k)' # {} \/ Called(k)' => uses'[k] >= 1
                        /\ Called(k)' /\ uses'[k] <= 1 => RunsOf(k)' = {}
      BY DEF Counted
    <3>1. RunsOf(k)' = RunsOf(k)
      BY <1>2 DEF RunsOf
    <3>2. RunsOf(k) # {} => uses[k] >= 1
      BY DEF IInv, Counted
    <3>3. uses[k] \in Nat /\ uses[i] \in Nat
      BY <1>2
    <3> QED
      BY <2>4, <3>1, <3>2, <3>3
  <2>9. Dated'
    <3> SUFFICES ASSUME NEW k \in CallIds, NEW r \in RunsOf(k), NEW j \in DOMAIN runs[r].requests
                 PROVE  /\ runs[r].requests[j].n \in 0..uses'[k]
                        /\ Called(k)' \/ (\E s \in RunsOf(k) : r < s) =>
                             runs[r].requests[j].n < uses'[k]
      BY <1>2 DEF Dated, RunsOf
    <3>1. /\ runs[r].requests[j].n \in 0..uses[k]
          /\ (\E s \in RunsOf(k) : r < s) => runs[r].requests[j].n < uses[k]
      BY DEF IInv, Dated
    <3> QED
      BY <1>2, <2>4, <3>1
  <2>10. Bordered' /\ ReplacedGetsNothing'
    <3>1. ASSUME NEW k \in CallIds
          PROVE  uses'[k] >= uses[k] /\ uses[k] \in Nat /\ uses'[k] \in Nat
      <4>1. uses[k] \in Nat /\ uses'[k] \in Nat /\ uses'[k] \in {uses[k], uses[k] + 1}
        BY <1>2, <2>4
      <4> QED
        BY <4>1
    <3>2. ASSUME NEW k \in CallIds, NEW r \in RunsOf(k)
          PROVE  startedBy[r] <= uses'[k]
      <4>1. startedBy[r] <= uses[k] /\ startedBy[r] \in Nat
        BY DEF IInv, Bordered, RunsOf
      <4> QED
        BY <3>1, <4>1
    <3>3. Bordered'
      BY <1>2, <3>2 DEF IInv, Bordered, RunsOf
    <3> QED
      BY <1>2, <3>3 DEF IInv, ReplacedGetsNothing, RunsOf
  <2> QED
    BY <2>3, <2>5, <2>6, <2>7, <2>8, <2>9, <2>10 DEF IInv
<1>4. CASE /\ \E f \in OtherFrames(i) : wire' = Push(wire, "client", f)
           /\ UNCHANGED uses
  <2>1. PICK f \in OtherFrames(i) : wire' = Push(wire, "client", f)
    BY <1>4
  <2>2. /\ f.id = i /\ f.oneofKind \in {"streamSend", "streamClose", "abort", "none"} /\ f \in Message
        /\ f.oneofKind = "streamSend" /\ f.body \notin Malformed =>
             f.body = [call |-> i, n |-> uses[i]]
    <3>1. CASE \E b \in Bodies(i, uses[i]) : f = StreamSend(i, b)
      <4>1. PICK b \in Bodies(i, uses[i]) : f = StreamSend(i, b)
        BY <3>1
      <4>2. b \in Body
        BY <1>2
      <4>3. f \in ClientMessage /\ f.id = i /\ f.oneofKind = "streamSend" /\ f.body = b
        BY <1>2, <4>1, <4>2 DEF StreamSend, ClientMessage
      <4> QED
        BY <4>1, <4>3 DEF Message, Bodies
    <3>2. CASE f \in {StreamClose(i), Abort(i), NoMessage(i)}
      BY <1>2, <3>2 DEF StreamClose, Abort, NoMessage, Message, ClientMessage
    <3> QED
      BY <3>1, <3>2 DEF OtherFrames
  <2>3. /\ SocketTypeOK(Message)' /\ OneFrame'
        /\ wire'["server"] # <<>> => Arrived' = f
    BY <1>2, <2>1, <2>2, Sent
  <2>4. \A k : ~Called(k)'
    BY <2>2, <2>3 DEF Called
  <2>5. Current'
    BY <1>4, <2>2, <2>3 DEF Current
  <2>6. Types' /\ EntriesRun' /\ OnlyReuseHides' /\ Bordered' /\ ReplacedGetsNothing'
    <3>1. Types'
      BY <1>2, <1>4, <2>3 DEF IInv, Types, ServerTypes, ServerTypeOK
    <3>2. EntriesRun' /\ OnlyReuseHides'
      BY <1>2, <1>4 DEF IInv, EntriesRun, OnlyReuseHides, RunsOf, Running
    <3>3. Bordered' /\ ReplacedGetsNothing'
      BY <1>2, <1>4 DEF IInv, Bordered, ReplacedGetsNothing, RunsOf
    <3> QED
      BY <3>1, <3>2, <3>3
  <2>7. Counted' /\ Dated'
    BY <1>2, <1>4, <2>4 DEF IInv, Counted, Dated, RunsOf
  <2> QED
    BY <2>3, <2>5, <2>6, <2>7 DEF IInv
<1> QED
  BY <1>1, <1>3, <1>4

\* Steps that leave the server and what it is sent alone.
LEMMA QuietStep ==
  ASSUME IInv, UNCHANGED <<runs, serverCalls, historyVars>>, wire'["server"] = wire["server"],
         SocketTypeOK(Message)'
  PROVE  IInv'
  BY DEF IInv, Types, ServerTypes, ServerTypeOK, OneFrame, EntriesRun, OnlyReuseHides, Counted,
         Called, Arrived, Current, Dated, Bordered, ReplacedGetsNothing, RunsOf, Running,
         historyVars

LEMMA Step ==
  ASSUME IInv, [Next]_vars
  PROVE  IInv'
<1>1. CASE ClientSends /\ UNCHANGED serverVars
  BY <1>1, ClientSendsStep
<1>2. CASE wire["client"] # <<>> /\ ClientReads /\ UNCHANGED serverVars
  <2>1. /\ SocketTypeOK(Message)' /\ UNCHANGED <<runs, serverCalls, historyVars>>
        /\ wire'["server"] = wire["server"]
    <3>1. wire \in [Ends -> Seq(Message)] /\ "client" \in Ends /\ Peer("client") = "server"
      BY DEF IInv, Types, ServerTypes, SocketTypeOK, Ends, Peer
    <3>2. Pop(wire, "client") \in [Ends -> Seq(Message)]
      BY <1>2, <3>1, PopFacts
    <3>3. Pop(wire, "client")["server"] = wire["server"]
      BY <3>1 DEF Pop, Ends
    <3> QED
      BY <1>2, <3>2, <3>3
      DEF ClientReads, serverVars, IInv, Types, ServerTypes, SocketTypeOK
  <2> QED
    BY <2>1, QuietStep
<1>3. CASE ServerHandles /\ RecordStart /\ UNCHANGED uses
  <2>1. OneFrame' /\ Current'
    BY <1>3, Emptied
  <2>2. ServerTypes' /\ (Starts \/ Reaches \/ Refuses)
    BY <1>3, HandlesEffect DEF IInv, Types
  <2>3. Rest'
    BY <1>3, <2>2, StartsStep, ReachesStep, RefusesStep
  <2> QED
    BY <1>3, <2>1, <2>2, <2>3 DEF IInv, Types, Rest
<1>4. CASE ServerOnClose /\ RecordStart /\ UNCHANGED uses
  <2>1. SocketTypeOK(Message)' /\ wire'["server"] = wire["server"]
    BY <1>4, SocketTypes DEF ServerOnClose, CloseEvent, IInv, Types, ServerTypes, Ends
  <2>2. UNCHANGED <<runs, serverCalls>>
    BY <1>4 DEF ServerOnClose, serverVars
  <2>3. startedBy' = startedBy
    BY <1>4, <2>2, NothingRecorded DEF IInv
  <2> QED
    BY <1>4, <2>1, <2>2, <2>3, QuietStep DEF historyVars
<1>5. CASE Handler /\ RecordStart /\ UNCHANGED uses
  <2>1. PICK r \in DOMAIN runs : HandlerSends(r) \/ HandlerCompletes(r) \/ HandlerEnds(r)
    BY <1>5 DEF Handler
  <2>2. ServerTypes' /\ (Sends(r) \/ Finishes(r)) /\ wire'["server"] = wire["server"]
    BY <2>1, HandlerEffect DEF IInv, Types
  <2>3. Rest'
    BY <1>5, <2>2, HandlerStep
  <2>4. OneFrame' /\ Current'
    BY <1>5, <2>2 DEF IInv, OneFrame, Current, Arrived
  <2> QED
    BY <1>5, <2>2, <2>3, <2>4 DEF IInv, Types, Rest
<1>6. CASE UNCHANGED vars
  <2>1. SocketTypeOK(Message)'
    BY <1>6 DEF vars, sockVars, IInv, Types, ServerTypes, SocketTypeOK
  <2> QED
    BY <1>6, <2>1, QuietStep DEF vars, serverVars, sockVars
<1> QED
  BY <1>1, <1>2, <1>3, <1>4, <1>5, <1>6 DEF Next, ServerNext, ServerReceive

(***************************************************************************)
(* The table, the handlers and what they have received agree with the      *)
(* frames the client has sent, whatever these are (server.ts:235-485).     *)
(***************************************************************************)
THEOREM Invariant == Spec => []IInv
<1>1. Init => IInv
  <2> SUFFICES ASSUME Init PROVE IInv
    OBVIOUS
  <2>1. /\ runs = <<>> /\ DOMAIN runs = {} /\ wire = [e \in Ends |-> <<>>] /\ wire["server"] = <<>>
        /\ serverCalls = [i \in CallIds |-> NoCall] /\ uses = [i \in CallIds |-> 0]
        /\ startedBy = <<>>
        /\ \A i : RunsOf(i) = {} /\ Running(i) = {} /\ ~Called(i)
    BY DEF Init, ServerInit, SocketInit, RunsOf, Running, Ends, Called
  <2>2. Types
    BY <2>1, EmptySeq
    DEF Init, SocketInit, Types, ServerTypes, ServerTypeOK, SocketTypeOK, NoCall
  <2>3. OneFrame /\ Current
    BY <2>1 DEF OneFrame, Current
  <2>4. EntriesRun /\ Counted /\ OnlyReuseHides /\ Dated /\ Bordered /\ ReplacedGetsNothing
    <3>1. startedBy \in [DOMAIN runs -> Nat]
      BY <2>1
    <3> QED
      BY <2>1, <3>1
      DEF EntriesRun, Counted, OnlyReuseHides, Dated, Bordered, ReplacedGetsNothing, NoCall
  <2> QED
    BY <2>2, <2>3, <2>4 DEF IInv
<1>2. IInv /\ [Next]_vars => IInv'
  BY Step
<1> QED
  BY <1>1, <1>2, PTL DEF Spec

(***************************************************************************)
(* An entry of the table leads to the last handler started under its ID,   *)
(* and that one is running (server.ts:258, 304, 331, 378).                 *)
(***************************************************************************)
THEOREM EntriesRunHolds == Spec => []EntriesRun
  BY Invariant, PTL DEF IInv

(***************************************************************************)
(* Only a second use of its ID takes a running handler away from a client  *)
(* (server.ts:255-258, 304).                                               *)
(***************************************************************************)
THEOREM OnlyReuseHidesHolds == Spec => []OnlyReuseHides
  BY Invariant, PTL DEF IInv

(***************************************************************************)
(* Once a call has replaced a running handler under its ID, that handler   *)
(* gets no message sent from that call on, whether or not the new handler  *)
(* gets one, and the new one gets none sent before (server.ts:258, 331,    *)
(* 395).                                                                   *)
(***************************************************************************)
THEOREM ReplacedGetsNothingHolds == Spec => []ReplacedGetsNothing
  BY Invariant, PTL DEF IInv

(***************************************************************************)
(* A frame changes at most the running handler that was started last under *)
(* its ID (server.ts:395, 423-483).                                        *)
(***************************************************************************)
THEOREM OnlyTheAddressedHolds == Spec => OnlyTheAddressed
<1> DEFINE Addresses ==
             ServerReceive =>
               \A r \in DOMAIN runs : runs'[r] # runs[r] =>
                 /\ runs[r].id = Arrived.id /\ runs[r].result = "running"
                 /\ \A s \in RunsOf(Arrived.id) : s <= r
<1>1. IInv /\ [Next]_vars => [Addresses]_vars
  <2> SUFFICES ASSUME IInv, ServerReceive, NEW r \in DOMAIN runs, runs'[r] # runs[r]
               PROVE  /\ runs[r].id = Arrived.id /\ runs[r].result = "running"
                      /\ \A s \in RunsOf(Arrived.id) : s <= r
    OBVIOUS
  <2>1. ServerHandles
    BY DEF ServerReceive, ServerOnClose, serverVars
  <2>2. Starts \/ Reaches \/ Refuses
    BY <2>1, HandlesEffect DEF IInv, Types
  <2>3. Reaches /\ r = Addressed
    BY <2>2 DEF Starts, Reaches, OnlyRun, Refuses
  <2>4. Arrived.id \in CallIds
    BY <2>3, Arrival DEF Reaches, Arrives, IInv, Types
  <2> QED
    BY <2>3, <2>4 DEF Reaches, Addressed, IInv, EntriesRun, Running, RunsOf
<1> QED
  BY <1>1, Invariant, PTL DEF Spec, OnlyTheAddressed

-----------------------------------------------------------------------------
(* Type correctness.                                                        *)

Bounded == uses \in [CallIds -> 0..MaxCalls]

\* As long as a call frame may be sent, no ID has used up all of them.
LEMMA UsesBelow ==
  ASSUME Bounded, NEW i \in CallIds, Cardinality(CallsSent) < MaxCalls
  PROVE  uses[i] < MaxCalls
<1> DEFINE B == {i} \X (1..MaxCalls)
<1>0. MaxCalls \in Nat /\ IsFiniteSet(CallIds) /\ uses[i] \in 0..MaxCalls
  BY OpenCallsAssumption DEF Bounded
<1>1. IsFiniteSet(1..MaxCalls) /\ Cardinality(1..MaxCalls) = MaxCalls
  BY <1>0, FS_Interval
<1>2. IsFiniteSet(CallsSent)
  <2>1. IsFiniteSet(CallIds \X (1..MaxCalls))
    BY <1>0, <1>1, FS_Product
  <2> QED
    BY <2>1, FS_Subset DEF CallsSent
<1>3. Cardinality(B) = MaxCalls
  <2>1. IsFiniteSet({i}) /\ Cardinality({i}) = 1
    BY FS_Singleton
  <2>2. Cardinality(B) = Cardinality({i}) * Cardinality(1..MaxCalls)
    BY <1>1, <2>1, FS_Product
  <2> QED
    BY <1>0, <1>1, <2>1, <2>2
<1>4. SUFFICES ASSUME uses[i] = MaxCalls PROVE FALSE
  BY <1>0
<1>5. B \subseteq CallsSent
  BY <1>0, <1>4 DEF CallsSent
<1>6. Cardinality(B) <= Cardinality(CallsSent)
  BY <1>2, <1>5, FS_Subset
<1>7. Cardinality(CallsSent) \in Nat
  BY <1>2, FS_CardinalityType
<1> QED
  BY <1>0, <1>3, <1>6, <1>7

(***************************************************************************)
(* The type invariant of the server's RPC layer against any client: the    *)
(* table holds handlers that exist, and no handler of server.ts:231-483    *)
(* reads a field of what a frame does not have.                            *)
(***************************************************************************)
THEOREM TypeCorrect == Spec => []TypeOK
<1>1. Init => Bounded
  BY OpenCallsAssumption DEF Init, Bounded
<1>2. Bounded /\ [Next]_vars => Bounded'
  <2> SUFFICES ASSUME Bounded, [Next]_vars PROVE Bounded'
    OBVIOUS
  <2>1. CASE UNCHANGED uses
    BY <2>1 DEF Bounded
  <2>2. ASSUME NEW i \in CallIds, Cardinality(CallsSent) < MaxCalls,
               uses' = [uses EXCEPT ![i] = @ + 1]
        PROVE  Bounded'
    <3>1. uses[i] < MaxCalls /\ uses[i] \in 0..MaxCalls /\ MaxCalls \in Nat
      BY <2>2, UsesBelow, OpenCallsAssumption DEF Bounded
    <3>2. uses[i] + 1 \in 0..MaxCalls
      BY <3>1
    <3> QED
      BY <2>2, <3>2 DEF Bounded
  <2>3. CASE ClientSends
    BY <2>1, <2>2, <2>3 DEF ClientSends
  <2>4. CASE ClientReads \/ UNCHANGED vars
    BY <2>1, <2>4 DEF ClientReads, vars, historyVars
  <2> QED
    BY <2>1, <2>3, <2>4 DEF Next
<1>3. Bounded /\ IInv => startedBy \in [DOMAIN runs -> 0..MaxCalls]
  <2> SUFFICES ASSUME Bounded, IInv, NEW r \in DOMAIN runs
               PROVE  startedBy[r] \in 0..MaxCalls
    BY DEF IInv, Bordered
  <2>1. runs[r] \in Run
    BY DEF IInv, Types, ServerTypes, ServerTypeOK
  <2>2. PICK i \in CallIds : i = runs[r].id
    BY <2>1 DEF Run
  <2>3. startedBy[r] <= uses[i] /\ startedBy[r] \in Nat /\ uses[i] \in 0..MaxCalls
    BY <2>2 DEF IInv, Bordered, RunsOf, Bounded
  <2> QED
    BY <2>3, OpenCallsAssumption
<1>4. Bounded /\ IInv => TypeOK
  <2>1. Message \subseteq ClientMessage \cup ServerMessage
    BY DEF Message
  <2> DEFINE All == ClientMessage \cup ServerMessage
  <2> HIDE DEF All
  <2>2. SocketTypeOK(Message) => SocketTypeOK(All)
    BY <2>1 DEF SocketTypeOK, All
  <2> QED
    BY <1>3, <2>2 DEF Bounded, IInv, Types, ServerTypes, TypeOK, All
<1> QED
  BY <1>1, <1>2, <1>4, Invariant, PTL DEF Spec
=============================================================================
