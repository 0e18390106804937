SPECIFICATION Spec
CONSTANTS
  Undefined = Undefined
  Throws = Throws
  Garbage = Garbage
  MaxSafe = 3
  MaxFields = 3
  Scalars <- MCScalars
INVARIANTS
  ReadsTheMeaning
  RoundTrip
  DateRoundTrip
CHECK_DEADLOCK FALSE
