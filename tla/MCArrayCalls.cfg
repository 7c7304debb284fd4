SPECIFICATION MCSpec
CONSTANTS
  Items <- MCItems
  Null = Null
  Calls <- MCCalls
  Lists <- MCLists
  Orders <- MCOrders
  Bits32 <- MCBits32
  Starts <- MCStarts
  Failures = {"exception", "aborted"}
  Threads = {t1, t2, t3}
  NoThread = NoThread
  Count = 3
  Methods <- MCMethods
  MemoryFails = TRUE
  A = A  B = B  C = C
  Types = {A, B, C}
  NoType = NoType
INVARIANTS
  SortRight
  ReturnsRight
  CacheRight
  NoLeakedCycle
PROPERTIES
  EverythingEnds
\* The calls have returned, the arrays are made and all types are used.
CHECK_DEADLOCK FALSE
