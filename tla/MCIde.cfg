SPECIFICATION Spec
CONSTANTS
  BYTE = 2
  NIBBLE = 2
  Data <- MCData
  MaxCalls = 3
  Traits <- MCPrompt
INVARIANTS
  TypeOK
  WritesLand
PROPERTIES
  ReadsBack
\* The callers stop after MaxCalls calls.
CHECK_DEADLOCK FALSE
