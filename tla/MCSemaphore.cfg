SPECIFICATION Spec
CONSTANTS
  THRQUESIZE = 2
  DEFAULT_COUNTER = 3
  INT_MIN <- MCIntMin
  INT_MAX = 3
  Places = 2
  Rounds = 3
INVARIANTS
  TypeOK
  CountsNotNegative
  SleeperHasCpu
\* The machine stops: cli and hlt, a lost machine, or one that spins for ever.
CHECK_DEADLOCK FALSE
