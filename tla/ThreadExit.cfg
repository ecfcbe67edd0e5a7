CONSTANTS
  main = main
  child = child
  native = native
  internal = internal
  NoThread = NoThread
  Collector = Collector
  Main = main
  Child <- Nobody
  Attacher <- OneNative
  Internal <- Nobody
  Daemon <- OneNative
  MayFail <- OneNative
  BadVersion <- OneNative
  Throwing <- Nobody
  MaxStops = 1
SPECIFICATION Spec
INVARIANT ExitIsSignalled
CHECK_DEADLOCK FALSE
