------------------------------ MODULE MCCodec -------------------------------
(* A small instance of Codec: two values or so of each scalar type.         *)
EXTENDS Codec

\* 4 stands for a number beyond Number.MAX_SAFE_INTEGER; the values of int32
\* are also the nanoseconds of a Timestamp.
MCScalars ==
  [uint32 |-> {0, 2},
   int32  |-> {0, 1000000, 999000000},
   uint64 |-> {0, 3, 4},
   int64  |-> {-1, 0, 1, -4},
   string |-> {"", "s"},
   bytes  |-> {"", "b"}]
=============================================================================
