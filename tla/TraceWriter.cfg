SPECIFICATION FairSpec
CONSTANTS
  a = a
  b = b
  Producers = {a, b}
  MaxIndex = 4
  MaxDepth = 2
  MinMessages = 2
  Garbage = {0, 9}
INVARIANTS
  OnceInOrder
  EndedMeansWritten
PROPERTIES
  EveryMessageComesOut
  DestructorReturns
CHECK_DEADLOCK FALSE
