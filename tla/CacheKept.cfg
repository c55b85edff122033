SPECIFICATION Spec
CONSTANTS
  BCACHE_SIZE = 3
  BLK_HASH_SIZE = 2
  NBLOCK = 4
  Data <- MCData
  Zero = 0
  Hold = 2
  Retries = FALSE
PROPERTIES
  ReadsTheBlock
\* After the cache has run out of buffers nothing is modelled.
CHECK_DEADLOCK FALSE
