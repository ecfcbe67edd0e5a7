CONSTANTS
  s = s
  t = t
  u = u
  A = A
  B = B
  C = C
  NoThread = NoThread
  NoClass = NoClass
  Thread <- ThreeThreads
  Class <- AandB
  Super <- BextendsA
  Uses <- AusesB
  Faulty <- AandB
SPECIFICATION Spec
INVARIANTS InitializingIsOurs ConsistentView ClinitOnce SuperFirst FailureIsThrown
CHECK_DEADLOCK FALSE
