SPECIFICATION Spec
CONSTANTS
  THRQUESIZE = 3
  DEFAULT_COUNTER = 3
  INT_MIN <- MCIntMin
  INT_MAX = 3
  Rounds = 2
INVARIANTS
  NoHang
\* The machine stops: cli and hlt, a lost machine, or one that spins for ever.
CHECK_DEADLOCK FALSE
