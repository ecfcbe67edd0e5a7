SPECIFICATION Spec
CONSTANTS
  N = 4
  WordSize = 2
  CardSize = 2
  Immune <- JustOne
  Layouts <- SomeLayouts
  Interned <- JustThree
  MaxRoots = 2
INVARIANTS GrayOnDirtyCard GarbageFreed
PROPERTY HeapSpec
