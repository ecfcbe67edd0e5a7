CONSTANTS
  a = a
  b = b
  c = c
  NoThread = NoThread
  Thread <- AandB
  CountMask = 2
  MaxHolds = 4
  Timed <- AandB
  Throwing <- AandB
  Interrupter <- AandB
  Querier <- JustA
SPECIFICATION Spec
INVARIANTS CountsEnters InterruptWakes InterruptStaysRaised
PROPERTY IsJavaMonitor
CHECK_DEADLOCK FALSE
