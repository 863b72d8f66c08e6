SPECIFICATION Spec
CONSTANTS
  NULL = NULL
  N = 8
  StackSize = 1
  RootWords = 2
  Heaps <- MCHeaps
INVARIANTS TypeOK MarkedIsReachable
PROPERTIES CollectsExactly CollectionEnds
