---------------------------- MODULE Subsequences ----------------------------
(***************************************************************************)
(* What is left of a sequence when some of its elements are dropped.  A    *)
(* recursive function rather than SelectSeq, which the proof system cannot *)
(* look into.                                                              *)
(***************************************************************************)
EXTENDS Naturals, Sequences

\* s without its elements in T.
Without(s, T) ==
  LET f[n \in 0..Len(s)] ==
        IF n = 0 THEN <<>>
        ELSE IF s[n] \in T THEN f[n - 1] ELSE Append(f[n - 1], s[n])
  IN  f[Len(s)]
=============================================================================
