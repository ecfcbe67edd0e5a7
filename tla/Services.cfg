CONSTANTS
  t1 = t1
  t2 = t2
  p1 = p1
  p2 = p2
  Trace <- P1P2
  Path <- P1P2
  Loads <- P1LoadsBoth
  Faulty <- P1P2
  Obj <- O1O2
  Thread <- TwoThreads
  QueueSize = 1
  CacheSize = 1
  MaxGen = 2
  Blocking = TRUE
  Key1 <- A1A2
  Key2 <- B1B2
  Subclass <- OnlyA1B2
  None = None
  a1 = a1
  a2 = a2
  b1 = b1
  b2 = b2
  NoKey = NoKey
  MaxVersion = 2
  o1 = o1
  o2 = o2
  MaxEntries = 4
  Serials = 2
  MaxFrames = 3
  Null = Null
  Cleared = Cleared
  Loader = {1, 2}
  MaxLoads = 1
  Nobody = Nobody
SPECIFICATION ServiceSpec
INVARIANTS CodeIsLive AnswersAreRight WeakRefsResolve LoadedIsReady
PROPERTIES DrainReturns IsRefStack LoadsReturn
CHECK_DEADLOCK FALSE
