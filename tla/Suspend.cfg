CONSTANTS
  a = a
  b = b
  c = c
  NoThread = NoThread
SPECIFICATION MixedSpec
PROPERTIES StopCompletes CollectionEnds PostersReturn
