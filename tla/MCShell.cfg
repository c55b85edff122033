SPECIFICATION ShellSpec
CONSTANTS
  CSL_WIDTH = 5
  CSL_HEIGHT = 2
  Letters <- MCLetters
  LINE = 5
  MaxLine = 3
  MaxKeys = 9
  NEST = 2
  Habits <- MCSlow
INVARIANTS
  ShellTypeOK
  
  NothingBehindCursor
  RunsWhatWasTyped
\* The user stops after MaxKeys keys.
CHECK_DEADLOCK FALSE
