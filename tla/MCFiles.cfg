SPECIFICATION Spec
CONSTANTS
  nInodeBlock = 3
  nDataBlock = 5
  dataStart = 7
  NDATA = 3
  BSIZE = 3
  Names = {a, b}
  Empty = Empty
  Junk = Junk
  Strays <- MCBootBlock
  NOPENFILE = 3
  WORDS = 1
  MaxSize = 5
  Habits <- MCCareful
SYMMETRY MCNames
INVARIANTS
  TypeOK
  
  
  

  
  
