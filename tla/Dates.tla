-------------------------------- MODULE Dates --------------------------------
(***************************************************************************)
(* Timestamp.toDate and Timestamp.fromDate.  A Timestamp is its seconds    *)
(* and nanoseconds, a Date its milliseconds, and all of them are whole     *)
(* numbers that JavaScript represents exactly.                             *)
(***************************************************************************)
EXTENDS Integers

ToDate(t) == t[1] * 1000 + (t[2] + 999999) \div 1000000

\* JavaScript's %, whose sign is that of the dividend.
Remainder(ms) == IF ms < 0 THEN -((-ms) % 1000) ELSE ms % 1000

\* Mutant of FromDate: like now(), for dates from 1970 on.
FromDateSince1970(ms) == <<ms \div 1000, Remainder(ms) * 1000000>>

FromDate(ms) ==
  <<ms \div 1000,
    (Remainder(ms) + IF ms < 0 /\ Remainder(ms) # 0 THEN 1000 ELSE 0) * 1000000>>
=============================================================================
