SPECIFICATION Spec
CONSTANTS
  NULL = NULL
  Ebss = 0
  Estack = 12
  IntMax = 127
  AllocCount = 3
  DefaultStack = 8
  ExceptionStack = 4
  StackDepths = {0, 4}
  StackLimits = {4, 10, 36, 100, 126}
  CacheSize = 12
  DelayMs = 2
  MaxSaves = 2
  SafeMode = TRUE
  Faults = {}
INVARIANT OnlyAllocatedFreed
