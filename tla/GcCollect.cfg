CONSTANTS
  a = a
  b = b
  c = c
  NoThread = NoThread
  Thread <- AllThreads
  Dumper <- JustB
  Tracer <- Nobody
  LockUser <- JustA
  Allocator <- AandB
  Explicit <- JustB
  Daemon <- JustC
SPECIFICATION GcSpec
INVARIANTS OnlyCollectorsReturn CountsRequests NoLostWakeUp OneCollection GcWaitersAreWoken
PROPERTIES PausesStopTheWorld
CHECK_DEADLOCK FALSE
