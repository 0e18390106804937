---------------------------- MODULE CommonProofs -----------------------------
(***************************************************************************)
(* Lemmas the proofs about either layer cite: what is left of a sequence   *)
(* when some of its elements are dropped, and what the operations of the   *)
(* socket adapter do, for frames of any kind.  The last section is about   *)
(* the dates of Codec, which has recursive operators and no theorem.       *)
(***************************************************************************)
EXTENDS WebSocket, Dates, Subsequences, SequencesExt, SequenceTheorems, WellFoundedInduction, TLAPS

-----------------------------------------------------------------------------
(* Sequences: Without, by what it does to each element.                     *)


\* A set of numbers that is not empty has a least one.
LEMMA Least ==
  ASSUME NEW T, T \subseteq Nat, T # {}
  PROVE  \E m \in T : \A k \in T : m <= k
<1> DEFINE R == OpToRel(<, Nat)
<1>1. IsWellFoundedOn(R, Nat)
  BY NatLessThanWellFounded
<1>2. \A ss \in Nat \X Nat : ss[1] < ss[2] => ss \in R
  BY DEF OpToRel
<1> HIDE DEF R
<1>3. PICK m \in T : \A k \in T : <<k, m>> \notin R
  BY <1>1, WFMin
<1>4. ASSUME NEW k \in T PROVE m <= k
  <2>1. <<k, m>> \in Nat \X Nat /\ <<k, m>>[1] = k /\ <<k, m>>[2] = m
    OBVIOUS
  <2> QED
    BY <1>2, <1>3, <2>1
<1> QED
  BY <1>4

\* Induction, over a set of numbers.
LEMMA Induction ==
  ASSUME NEW T, 0 \in T, \A n \in Nat : n \in T => n + 1 \in T
  PROVE  Nat \subseteq T
<1> SUFFICES ASSUME Nat \ T # {} PROVE FALSE
  OBVIOUS
<1>1. PICK m \in Nat \ T : \A k \in Nat \ T : m <= k
  BY Least
<1>2. m # 0 /\ m - 1 \in Nat
  OBVIOUS
<1>3. m - 1 \in T
  BY <1>1, <1>2
<1> QED
  BY <1>2, <1>3

\* g[n] is what is left of the first n elements of s.
Leaves(g, s, T) ==
  /\ g[0] = <<>>
  /\ \A n \in 1..Len(s) :
       g[n] = IF s[n] \in T THEN g[n - 1] ELSE Append(g[n - 1], s[n])

\* There is one such function.
LEMMA LeavesExists ==
  ASSUME NEW S, NEW s \in Seq(S), NEW T
  PROVE  \E g \in [0..Len(s) -> Seq(S)] : Leaves(g, s, T)
<1> DEFINE Fine(g, k) ==
      /\ g[0] = <<>>
      /\ \A n \in 1..k : g[n] = IF s[n] \in T THEN g[n - 1] ELSE Append(g[n - 1], s[n])
<1> DEFINE K == {k \in Nat : k <= Len(s) => \E g \in [0..k -> Seq(S)] : Fine(g, k)}
<1>0. Len(s) \in Nat /\ \A n \in 1..Len(s) : s[n] \in S
  OBVIOUS
<1>1. 0 \in K
  <2>1. [n \in 0..0 |-> <<>>] \in [0..0 -> Seq(S)]
    BY EmptySeq
  <2>2. Fine([n \in 0..0 |-> <<>>], 0)
    OBVIOUS
  <2> QED
    BY <2>1, <2>2
<1>2. ASSUME NEW k \in Nat, k \in K PROVE k + 1 \in K
  <2> HIDE DEF Fine
  <2> SUFFICES ASSUME k + 1 <= Len(s) PROVE \E g \in [0..(k + 1) -> Seq(S)] : Fine(g, k + 1)
    OBVIOUS
  <2>1. PICK g \in [0..k -> Seq(S)] : Fine(g, k)
    BY <1>0, <1>2
  <2> USE DEF Fine
  <2> DEFINE new == IF s[k + 1] \in T THEN g[k] ELSE Append(g[k], s[k + 1])
  <2>2. new \in Seq(S)
    <3>1. g[k] \in Seq(S) /\ s[k + 1] \in S
      BY <1>0
    <3> QED
      BY <3>1, AppendProperties
  <2> DEFINE h == [n \in 0..(k + 1) |-> IF n <= k THEN g[n] ELSE new]
  <2> HIDE DEF new
  <2>3. h \in [0..(k + 1) -> Seq(S)]
    <3>1. ASSUME NEW n \in 0..(k + 1) PROVE h[n] \in Seq(S)
      BY <2>2
    <3> QED
      BY <3>1
  <2>4. Fine(h, k + 1)
    <3>1. h[0] = <<>>
      BY <2>1
    <3>2. ASSUME NEW n \in 1..(k + 1)
          PROVE  h[n] = IF s[n] \in T THEN h[n - 1] ELSE Append(h[n - 1], s[n])
      <4>1. n - 1 \in 0..k /\ h[n - 1] = g[n - 1]
        OBVIOUS
      <4>2. CASE n <= k
        <5>1. n \in 1..k /\ h[n] = g[n]
          BY <4>2
        <5> QED
          BY <2>1, <4>1, <5>1
      <4>3. CASE n = k + 1
        BY <4>1, <4>3 DEF new
      <4> QED
        BY <4>2, <4>3
    <3> QED
      BY <3>1, <3>2
  <2> QED
    BY <2>3, <2>4
<1> HIDE DEF K
<1>3. Len(s) \in K
  BY <1>0, <1>1, <1>2, Induction
<1> QED
  BY <1>3 DEF K, Leaves

\* There is only one.
LEMMA LeavesUnique ==
  ASSUME NEW S, NEW s \in Seq(S), NEW T, NEW g, NEW h, Leaves(g, s, T), Leaves(h, s, T)
  PROVE  \A n \in 0..Len(s) : g[n] = h[n]
<1> DEFINE K == {k \in Nat : k <= Len(s) => g[k] = h[k]}
<1>1. 0 \in K
  BY DEF Leaves
<1>2. ASSUME NEW k \in Nat, k \in K PROVE k + 1 \in K
  <2> SUFFICES ASSUME k + 1 <= Len(s) PROVE g[k + 1] = h[k + 1]
    OBVIOUS
  <2>1. k + 1 \in 1..Len(s) /\ (k + 1) - 1 = k /\ k <= Len(s)
    OBVIOUS
  <2> QED
    BY <1>2, <2>1 DEF Leaves
<1> HIDE DEF K
<1>3. \A n \in 0..Len(s) : n \in K
  BY <1>1, <1>2, Induction
<1> QED
  BY <1>3 DEF K

\* Without ends with its last value.
LEMMA WithoutIs ==
  ASSUME NEW S, NEW s \in Seq(S), NEW T, NEW g, Leaves(g, s, T)
  PROVE  Without(s, T) = g[Len(s)]
<1> DEFINE Eq(f) == f = [n \in 0..Len(s) |->
                           IF n = 0 THEN <<>>
                           ELSE IF s[n] \in T THEN f[n - 1] ELSE Append(f[n - 1], s[n])]
<1>1. PICK h \in [0..Len(s) -> Seq(S)] : Leaves(h, s, T)
  BY LeavesExists
<1>2. Eq(h)
  <2>1. ASSUME NEW n \in 0..Len(s)
        PROVE  h[n] = IF n = 0 THEN <<>>
                      ELSE IF s[n] \in T THEN h[n - 1] ELSE Append(h[n - 1], s[n])
    <3>1. Len(s) \in Nat /\ (n # 0 => n \in 1..Len(s))
      OBVIOUS
    <3> QED
      BY <1>1, <3>1 DEF Leaves
  <2> QED
    BY <2>1
<1> DEFINE c == CHOOSE f : Eq(f)
<1>3. Eq(c)
  BY <1>2
<1>4. Without(s, T) = c[Len(s)]
  BY DEF Without
<1> HIDE DEF c
<1>5. Leaves(c, s, T)
  <2>0. Len(s) \in Nat
    OBVIOUS
  <2>1. \A n \in 0..Len(s) : c[n] = IF n = 0 THEN <<>>
                      ELSE IF s[n] \in T THEN c[n - 1] ELSE Append(c[n - 1], s[n])
    BY <1>3
  <2> QED
    BY <2>0, <2>1 DEF Leaves
<1>6. c[Len(s)] = g[Len(s)]
  BY <1>5, LeavesUnique
<1> QED
  BY <1>4, <1>6

\* What is left is of the same kind; of nothing, nothing.
LEMMA WithoutType ==
  ASSUME NEW S, NEW s \in Seq(S), NEW T
  PROVE  Without(s, T) \in Seq(S)
<1>1. PICK h \in [0..Len(s) -> Seq(S)] : Leaves(h, s, T)
  BY LeavesExists
<1> QED
  BY <1>1, WithoutIs

\* Nothing is left of nothing.
LEMMA WithoutEmpty ==
  ASSUME NEW T
  PROVE  Without(<<>>, T) = <<>>
<1>1. PICK h \in [0..Len(<<>>) -> Seq({})] : Leaves(h, <<>>, T)
  BY LeavesExists, EmptySeq
<1> QED
  BY <1>1, WithoutIs, EmptySeq DEF Leaves

\* An element that joins the sequence joins what is left, unless it is dropped.
LEMMA WithoutAppend ==
  ASSUME NEW S, NEW s \in Seq(S), NEW e \in S, NEW T
  PROVE  Without(Append(s, e), T) = IF e \in T THEN Without(s, T) ELSE Append(Without(s, T), e)
<1> DEFINE t == Append(s, e)
<1>1. /\ t \in Seq(S) /\ Len(t) = Len(s) + 1 /\ Len(s) \in Nat /\ t[Len(s) + 1] = e
      /\ \A n \in 1..Len(s) : t[n] = s[n]
  BY AppendProperties
<1> HIDE DEF t
<1>2. PICK g \in [0..Len(t) -> Seq(S)] : Leaves(g, t, T)
  BY <1>1, LeavesExists
<1>3. Without(t, T) = g[Len(t)]
  BY <1>1, <1>2, WithoutIs
<1>4. Leaves(g, s, T)
  <2>1. g[0] = <<>> /\ \A n \in 1..Len(t) :
          g[n] = IF t[n] \in T THEN g[n - 1] ELSE Append(g[n - 1], t[n])
    BY <1>2 DEF Leaves
  <2>2. ASSUME NEW n \in 1..Len(s)
        PROVE  g[n] = IF s[n] \in T THEN g[n - 1] ELSE Append(g[n - 1], s[n])
    <3>1. n \in 1..Len(t) /\ t[n] = s[n]
      BY <1>1
    <3> QED
      BY <2>1, <3>1
  <2> QED
    BY <2>1, <2>2 DEF Leaves
<1>5. Without(s, T) = g[Len(s)]
  BY <1>4, WithoutIs
<1>6. g[Len(s) + 1] = IF e \in T THEN g[Len(s)] ELSE Append(g[Len(s)], e)
  BY <1>1, <1>2 DEF Leaves
<1> QED
  BY <1>1, <1>3, <1>5, <1>6 DEF t

\* The first element leaves the sequence: what is left loses it, if it had it.
LEMMA WithoutTail ==
  ASSUME NEW S, NEW s \in Seq(S), s # <<>>, NEW T
  PROVE  /\ s[1] \in T => Without(Tail(s), T) = Without(s, T)
         /\ s[1] \notin T => /\ Without(s, T) # <<>> /\ Without(s, T)[1] = s[1]
                             /\ Without(Tail(s), T) = Tail(Without(s, T))
<1> DEFINE t == Tail(s)
<1>1. /\ t \in Seq(S) /\ Len(t) = Len(s) - 1 /\ Len(t) \in Nat /\ Len(s) \in Nat
      /\ \A n \in 1..Len(t) : t[n] = s[n + 1] /\ t[n] \in S
      /\ s[1] \in S
  BY HeadTailProperties, EmptySeq
<1> HIDE DEF t
<1>2. PICK g \in [0..Len(s) -> Seq(S)] : Leaves(g, s, T)
  BY LeavesExists
<1>3. PICK h \in [0..Len(t) -> Seq(S)] : Leaves(h, t, T)
  BY <1>1, LeavesExists
<1>4. Without(s, T) = g[Len(s)] /\ Without(t, T) = h[Len(t)]
  BY <1>1, <1>2, <1>3, WithoutIs
<1> DEFINE K == {k \in Nat : k <= Len(t) =>
                   IF s[1] \in T THEN g[k + 1] = h[k]
                     ELSE g[k + 1] # <<>> /\ g[k + 1][1] = s[1] /\ Tail(g[k + 1]) = h[k]}
<1>5. 0 \in K
  <2>1. g[1] = IF s[1] \in T THEN <<>> ELSE <<s[1]>>
    <3>1. 1 \in 1..Len(s) /\ 1 - 1 = 0 /\ Append(<<>>, s[1]) = <<s[1]>>
      BY <1>1
    <3> QED
      BY <1>2, <3>1 DEF Leaves
  <2>2. h[0] = <<>>
    BY <1>3 DEF Leaves
  <2>3. Tail(<<s[1]>>) = <<>> /\ <<s[1]>> # <<>> /\ <<s[1]>>[1] = s[1]
    BY <1>1
  <2>4. IF s[1] \in T THEN g[0 + 1] = h[0]
          ELSE g[0 + 1] # <<>> /\ g[0 + 1][1] = s[1] /\ Tail(g[0 + 1]) = h[0]
    <3>1. 0 + 1 = 1
      OBVIOUS
    <3> QED
      BY <2>1, <2>2, <2>3, <3>1
  <2> QED
    BY <2>4
<1>6. ASSUME NEW k \in Nat, k \in K PROVE k + 1 \in K
  <2> SUFFICES ASSUME k + 1 <= Len(t)
               PROVE  IF s[1] \in T THEN g[k + 2] = h[k + 1]
                      ELSE g[k + 2] # <<>> /\ g[k + 2][1] = s[1] /\ Tail(g[k + 2]) = h[k + 1]
    BY <1>1
  <2>1. /\ h[k + 1] = IF t[k + 1] \in T THEN h[k] ELSE Append(h[k], t[k + 1])
        /\ g[k + 2] = IF t[k + 1] \in T THEN g[k + 1] ELSE Append(g[k + 1], t[k + 1])
    <3>1. k + 1 \in 1..Len(t) /\ k + 2 \in 1..Len(s) /\ (k + 2) - 1 = k + 1 /\ (k + 1) - 1 = k
      BY <1>1
    <3>2. t[k + 1] = s[k + 2]
      BY <1>1, <3>1
    <3> QED
      BY <1>2, <1>3, <3>1, <3>2 DEF Leaves
  <2>2. t[k + 1] \in S /\ g[k + 1] \in Seq(S)
    <3>1. k + 1 \in 1..Len(t) /\ k + 1 \in 0..Len(s)
      BY <1>1
    <3> QED
      BY <1>1, <3>1
  <2>3. IF s[1] \in T THEN g[k + 1] = h[k]
                     ELSE g[k + 1] # <<>> /\ g[k + 1][1] = s[1] /\ Tail(g[k + 1]) = h[k]
    BY <1>1, <1>6
  <2>4. ASSUME g[k + 1] # <<>>
        PROVE  /\ Append(g[k + 1], t[k + 1]) # <<>>
               /\ Append(g[k + 1], t[k + 1])[1] = g[k + 1][1]
               /\ Tail(Append(g[k + 1], t[k + 1])) = Append(Tail(g[k + 1]), t[k + 1])
    <3>1. Len(g[k + 1]) \in Nat \ {0}
      BY <2>2, <2>4, EmptySeq
    <3>2. 1 \in 1..Len(g[k + 1])
      BY <3>1
    <3>3. /\ Append(g[k + 1], t[k + 1]) # <<>>
          /\ Append(g[k + 1], t[k + 1])[1] = g[k + 1][1]
      BY <2>2, <3>2, AppendProperties
    <3>4. Tail(Append(g[k + 1], t[k + 1])) = Append(Tail(g[k + 1]), t[k + 1])
      BY <2>2, <2>4, HeadTailAppend
    <3> QED
      BY <3>3, <3>4
  <2> QED
    BY <2>1, <2>3, <2>4
<1> HIDE DEF K
<1>7. Len(t) \in K
  BY <1>1, <1>5, <1>6, Induction
<1>8. Len(t) + 1 = Len(s)
  BY <1>1
<1> QED
  BY <1>4, <1>7, <1>8 DEF K, t

\* What is left of a first part is a first part of what is left.
LEMMA WithoutSubSeq ==
  ASSUME NEW S, NEW s \in Seq(S), NEW T, NEW k \in 0..Len(s)
  PROVE  \E m \in 0..Len(Without(s, T)) :
           Without(SubSeq(s, 1, k), T) = SubSeq(Without(s, T), 1, m)
<1> DEFINE t == SubSeq(s, 1, k)
<1>1. /\ t \in Seq(S) /\ Len(t) = k /\ k \in Nat /\ Len(s) \in Nat /\ k <= Len(s)
      /\ \A n \in 1..k : t[n] = s[n]
  <2>1. k \in Int /\ 1 \in Int /\ \A n \in 1..k : s[n] \in S
    OBVIOUS
  <2> QED
    BY <2>1, SubSeqProperties
<1> HIDE DEF t
<1>2. PICK g \in [0..Len(s) -> Seq(S)] : Leaves(g, s, T)
  BY LeavesExists
<1>3. Without(s, T) = g[Len(s)]
  BY <1>2, WithoutIs
<1>4. Leaves(g, t, T)
  BY <1>1, <1>2 DEF Leaves
<1>5. Without(t, T) = g[k]
  BY <1>1, <1>4, WithoutIs
<1> DEFINE K == {d \in Nat : k + d <= Len(s) =>
                   \E m \in 0..Len(g[k + d]) : g[k] = SubSeq(g[k + d], 1, m)}
<1>6. 0 \in K
  <2>1. k + 0 = k /\ g[k] \in Seq(S)
    BY <1>1
  <2>2. Len(g[k]) \in 0..Len(g[k]) /\ g[k] = SubSeq(g[k], 1, Len(g[k]))
    BY <2>1, SubSeqFull
  <2> QED
    BY <2>1, <2>2
<1>7. ASSUME NEW d \in Nat, d \in K PROVE d + 1 \in K
  <2> SUFFICES ASSUME k + d + 1 <= Len(s)
               PROVE  \E m \in 0..Len(g[k + d + 1]) : g[k] = SubSeq(g[k + d + 1], 1, m)
    BY <1>1
  <2>1. PICK m \in 0..Len(g[k + d]) : g[k] = SubSeq(g[k + d], 1, m)
    BY <1>1, <1>7
  <2>2. /\ g[k + d] \in Seq(S) /\ s[k + d + 1] \in S
        /\ g[k + d + 1] = IF s[k + d + 1] \in T THEN g[k + d] ELSE Append(g[k + d], s[k + d + 1])
    <3>1. k + d + 1 \in 1..Len(s) /\ (k + d + 1) - 1 = k + d /\ k + d \in 0..Len(s)
      BY <1>1
    <3> QED
      BY <1>2, <3>1 DEF Leaves
  <2>3. CASE s[k + d + 1] \in T
    BY <2>1, <2>2, <2>3
  <2>4. CASE s[k + d + 1] \notin T
    <3>1. m \in 0..Len(g[k + d + 1])
      BY <2>2, <2>4, AppendProperties
    <3>2. SubSeq(g[k + d + 1], 1, m) = SubSeq(g[k + d], 1, m)
      BY <2>2, <2>4
    <3> QED
      BY <2>1, <3>1, <3>2
  <2> QED
    BY <2>3, <2>4
<1> HIDE DEF K
<1>8. PICK d \in Nat : k + d = Len(s)
  <2>1. Len(s) - k \in Nat /\ k + (Len(s) - k) = Len(s)
    BY <1>1
  <2> QED
    BY <2>1
<1>9. d \in K
  BY <1>6, <1>7, Induction
<1>10. \E m \in 0..Len(g[k + d]) : g[k] = SubSeq(g[k + d], 1, m)
  BY <1>1, <1>8, <1>9 DEF K
<1> QED
  BY <1>3, <1>5, <1>8, <1>10 DEF t

\* What is left of a first part is a prefix of what is left.
LEMMA WithoutPrefix ==
  ASSUME NEW S, NEW s \in Seq(S), NEW T, NEW k \in 0..Len(s)
  PROVE  IsPrefix(Without(SubSeq(s, 1, k), T), Without(s, T))
<1>1. PICK m \in 0..Len(Without(s, T)) :
        Without(SubSeq(s, 1, k), T) = SubSeq(Without(s, T), 1, m)
  BY WithoutSubSeq
<1> DEFINE t == Without(s, T)
<1>2. t \in Seq(S) /\ m \in 0..Len(t)
  BY WithoutType
<1> HIDE DEF t
<1> QED
  BY <1>1, <1>2 DEF IsPrefix, t

-----------------------------------------------------------------------------
(* The socket.                                                              *)

(***************************************************************************)
(* What a frame taken off the wire leaves (common.ts:22): the other frames *)
(* of that direction in their order, and the other direction untouched.    *)
(***************************************************************************)
LEMMA PopFacts ==
  ASSUME NEW S, NEW w \in [Ends -> Seq(S)], NEW e \in Ends, w[e] # <<>>
  PROVE  /\ Pop(w, e) \in [Ends -> Seq(S)]
         /\ Pop(w, e)[e] = Tail(w[e])
         /\ Pop(w, e)[Peer(e)] = w[Peer(e)]
         /\ Head(w[e]) \in S
         /\ Head(w[e]) = w[e][1]
         /\ 1 \in DOMAIN w[e]
         /\ Len(Tail(w[e])) = Len(w[e]) - 1
         /\ \A i \in DOMAIN Tail(w[e]) : i + 1 \in DOMAIN w[e] /\ Tail(w[e])[i] = w[e][i + 1]
  BY DEF Pop, Ends, Peer

(***************************************************************************)
(* What send() does to the wire (common.ts:13): at most one frame is added *)
(* behind those under way to the peer.                                     *)
(***************************************************************************)
LEMMA PushFacts ==
  ASSUME NEW S, NEW w \in [Ends -> Seq(S)], NEW e \in Ends, NEW f \in S
  PROVE  /\ Push(w, e, f) \in [Ends -> Seq(S)]
         /\ Push(w, e, f)[e] = w[e]
         /\ \/ /\ Push(w, e, f)[Peer(e)] = Append(w[Peer(e)], f)
               /\ ready[e] = "open" /\ ~fin[Peer(e)]
            \/ /\ Push(w, e, f)[Peer(e)] = w[Peer(e)]
               /\ ready[e] # "open" \/ fin[Peer(e)]
  BY DEF Push, Ends, Peer

\* The adapter's operations keep the socket well typed.
LEMMA SocketTypes ==
  ASSUME NEW S, SocketTypeOK(S), NEW e \in Ends
  PROVE  /\ CloseSocket(e) => ready' \in [Ends -> {"open", "closing", "closed"}]
                                /\ fin' \in [Ends -> BOOLEAN]
         /\ CloseEvent(e) => SocketTypeOK(S)'
         /\ SocketStep => SocketTypeOK(S)'
<1> USE DEF SocketTypeOK
<1>1. CloseSocket(e) => ready' \in [Ends -> {"open", "closing", "closed"}]
                          /\ fin' \in [Ends -> BOOLEAN]
  BY DEF CloseSocket, Ends, Peer
<1>2. CloseEvent(e) => SocketTypeOK(S)'
  BY DEF CloseEvent, Ends, Peer
<1>3. ASSUME SocketStep PROVE SocketTypeOK(S)'
  <2>1. ASSUME NEW d \in Ends, Discard(d) PROVE SocketTypeOK(S)'
    BY <2>1, PopFacts DEF Discard
  <2>2. ASSUME NEW d \in Ends, UserClose(d) PROVE SocketTypeOK(S)'
    BY <2>2 DEF UserClose, CloseSocket, Ends, Peer
  <2>3. ASSUME Lose PROVE SocketTypeOK(S)'
    <3>1. \A d \in Ends : \A k \in 0..Len(wire[d]) : SubSeq(wire[d], 1, k) \in Seq(S)
      BY SubSeqProperties
    <3>2. wire' \in [Ends -> Seq(S)]
      BY <2>3, <3>1 DEF Lose, Ends
    <3> QED
      BY <2>3, <3>2 DEF Lose
  <2> QED
    BY <1>3, <2>1, <2>2, <2>3 DEF SocketStep
<1> QED
  BY <1>1, <1>2, <1>3

-----------------------------------------------------------------------------
(* Dates.  Only SMT is asked: Zenon counts up to a million.                 *)

\* Math.ceil takes whole milliseconds for what they are (timestamp.ts:187).
LEMMA Milliseconds ==
  ASSUME NEW k \in 0..999
  PROVE  /\ (k * 1000000 + 999999) \div 1000000 = k
         /\ k * 1000000 \in Nat /\ k * 1000000 < 1000000000
  BY SMT

(***************************************************************************)
(* Every Date, before 1970 too, is the same Date after a Timestamp was     *)
(* made of it and a Date of that, and the nanoseconds of the Timestamp are *)
(* in the range the message type allows (timestamp.ts:186-198).            *)
(***************************************************************************)
THEOREM DatesKept ==
  ASSUME NEW ms \in Int
  PROVE  /\ FromDate(ms)[1] \in Int
         /\ FromDate(ms)[2] \in Nat /\ FromDate(ms)[2] < 1000000000
         /\ ToDate(FromDate(ms)) = ms
<1> DEFINE q == ms \div 1000
           k == Remainder(ms) + IF ms < 0 /\ Remainder(ms) # 0 THEN 1000 ELSE 0
<1>1. q \in Int /\ k \in 0..999 /\ ms = q * 1000 + k
  BY SMT DEF Remainder
<1>2. FromDate(ms) = <<q, k * 1000000>>
  BY SMT DEF FromDate
<1> HIDE DEF q, k
<1>3. FromDate(ms)[1] = q /\ FromDate(ms)[2] = k * 1000000
  BY <1>2, SMT
<1>4. /\ (k * 1000000 + 999999) \div 1000000 = k
      /\ k * 1000000 \in Nat /\ k * 1000000 < 1000000000
  BY <1>1, Milliseconds, SMT
<1>5. ToDate(FromDate(ms)) = q * 1000 + k
  <2>1. ToDate(FromDate(ms)) = q * 1000 + (k * 1000000 + 999999) \div 1000000
    BY <1>3, SMT DEF ToDate
  <2> QED
    BY <1>4, <2>1, SMT
<1> QED
  BY <1>1, <1>3, <1>4, <1>5, SMT

(***************************************************************************)
(* Every Timestamp of whole milliseconds survives the way to a Date and    *)
(* back, whatever its seconds: what DateRoundTrip says of the few that its *)
(* run reads (timestamp.ts:186-198).                                       *)
(***************************************************************************)
THEOREM TimesKept ==
  ASSUME NEW s \in Int, NEW k \in 0..999
  PROVE  FromDate(ToDate(<<s, k * 1000000>>)) = <<s, k * 1000000>>
<1> DEFINE ms == s * 1000 + k
<1>1. ToDate(<<s, k * 1000000>>) = ms
  BY Milliseconds, SMT DEF ToDate
<1>2. ms \div 1000 = s
  BY SMT
<1>3. (Remainder(ms) + IF ms < 0 /\ Remainder(ms) # 0 THEN 1000 ELSE 0) = k
  BY SMT DEF Remainder
<1> QED
  BY <1>1, <1>2, <1>3, SMT DEF FromDate
=============================================================================
