------------------------------- MODULE Login --------------------------------
(***************************************************************************)
(* What the handshake promises the two applications.  The server grants    *)
(* the connection to a user ID, once and for good.  Only then, and once,   *)
(* the client is told a user ID, and it is the granted one, or the empty   *)
(* one.  The caller of connectSockRpc gets one answer, and it is a         *)
(* connection only if the client is told a user ID in that moment.         *)
(***************************************************************************)
CONSTANTS NULL, Users

VARIABLES
  granted,  \* the server serves calls
  user,     \* the user ID its handlers see
  told,     \* the user ID the client was told
  answer    \* what connectSockRpc answered

loginVars == <<granted, user, told, answer>>

Init ==
  /\ granted \in BOOLEAN
  /\ user \in IF granted THEN Users ELSE {NULL}
  /\ told = NULL
  /\ answer = "pending"

Grant ==
  /\ ~granted /\ granted'
  /\ user' \in Users \cup {NULL}
  /\ UNCHANGED <<told, answer>>

Tell ==
  /\ granted
  /\ told = NULL /\ told' \in {user, ""} \ {NULL}
  /\ answer' = IF answer = "pending" THEN "resolved" ELSE answer
  /\ UNCHANGED <<granted, user>>

Reject ==
  /\ answer = "pending" /\ answer' = "rejected"
  /\ UNCHANGED <<granted, user, told>>

Next == Grant \/ Tell \/ Reject

Spec == Init /\ [][Next]_loginVars
=============================================================================
