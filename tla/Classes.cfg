CONSTANTS
  s = s
  t = t
  A = A
  B = B
  C = C
  NoThread = NoThread
  NoObj = NoObj
  NoClass = NoClass
  Thread <- TwoThreads
  Name <- ABC
  Parents <- Diamond
  MayFail <- AandB
  MaxObj = 5
  Calls <- OnceOrTwice
SPECIFICATION ClassesSpec
INVARIANTS OneClassPerName ReturnedIsLinked
PROPERTIES LookupsReturn CallsReturn
CHECK_DEADLOCK FALSE
