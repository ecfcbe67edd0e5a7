CONSTANTS
  a = a
  b = b
  c = c
  NoThread = NoThread
  Thread <- AllThreads
  CountMask = 2
  MaxHolds = 1
  Timed <- JustA
  Throwing <- AllThreads
  Interrupter <- Nobody
  Querier <- Nobody
SPECIFICATION FairSpec
INVARIANT MutualExclusion
PROPERTY SignalledReturns
CHECK_DEADLOCK FALSE
