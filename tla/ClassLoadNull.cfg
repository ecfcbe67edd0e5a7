CONSTANTS
  s = s
  t = t
  u = u
  A = A
  B = B
  C = C
  NoThread = NoThread
  NoObj = NoObj
  Thread <- TwoThreads
  Name <- ABC
  Parents <- Diamond
  MayFail <- AandB
  MaxObj = 5
  Calls <- OnceOrTwice
SPECIFICATION Spec
INVARIANT WinnerIsThere

CHECK_DEADLOCK FALSE
