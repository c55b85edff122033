SPECIFICATION FairSpec
CONSTANTS
  THRQUESIZE = 3
  DEFAULT_COUNTER = 2
  INT_MIN <- MCIntMin
  INT_MAX = 3
  Spawners <- MCBootOnly
INVARIANTS
  TypeOK
  OneRunning
  ConsoleLockSafe
  
PROPERTIES
  DeadStaysDead
  
  
\* The machine stops: cli and hlt, a lost machine, or one that spins for ever.
CHECK_DEADLOCK FALSE
