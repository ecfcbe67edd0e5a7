CONSTANTS
  main = main
  child = child
  native = native
  internal = internal
  NoThread = NoThread
  Collector = Collector
  Main = main
  Child <- OneChild
  Attacher <- OneNative
  Internal <- OneInternal
  Daemon <- OneInternal
  MayFail <- OneNative
  BadVersion <- OneNative
  Throwing <- Nobody
  MaxStops = 1
  worker = worker
  dumper = dumper
  jdwp = jdwp
  DbgThread <- ThreeThreads
  Jdwp = jdwp
  Dumper <- OneDumper
  LockUser <- Nobody
  Poster <- Workers
  Breaker <- OneWorker
  MaxSuspends = 1
SPECIFICATION ThreadsSpec
INVARIANTS CountIsExact UncountedStall JoinersAreWoken SleepersAreOwed
  AnswersFindSuspended SharesAreKept
CHECK_DEADLOCK FALSE
