SPECIFICATION TestSpec
CONSTANTS
  THRQUESIZE = 4
  DEFAULT_COUNTER = 3
  INT_MIN <- MCIntMin
  INT_MAX = 3
  Changers <- MCChangers
INVARIANTS
  TestTypeOK
  OneInside
  PrintsTheChange
\* The machine stops: cli and hlt, a lost machine, or one that spins for ever.
CHECK_DEADLOCK FALSE
