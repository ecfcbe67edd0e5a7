CONSTANTS
  a = a
  b = b
  c = c
  NoThread = NoThread
  Thread <- AllThreads
  Dumper <- JustA
  Tracer <- Nobody
  LockUser <- Nobody
  Allocator <- Nobody
  Explicit <- JustB
  Daemon <- Nobody
SPECIFICATION GcSpec
INVARIANTS NothingRunsWhileStopped
CHECK_DEADLOCK FALSE
