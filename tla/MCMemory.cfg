SPECIFICATION Spec
CONSTANTS
  ENTRIES = 2
  KERNELBASE = 2
  KERNSIZE = 2
  HEAP = 1
  PAGES = 10
  Nodes = {n1}
  Targets = {4}
  Rights <- MCUser
  MaxCalls = 5
  MaxSize = 3
  Habits <- MCPageTest
INVARIANTS
  TypeOK
  PagesHaveOneUse
  HeapIsPaid

  
\* The callers stop after MaxCalls calls, or when memory runs out.
CHECK_DEADLOCK FALSE
