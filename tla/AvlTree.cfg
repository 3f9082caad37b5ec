SPECIFICATION Spec
CONSTANTS
  INT_MAX = 8
  Keys = {1, 2, 3, 4, 5, 6, 7, 8}
  Values = {"a", "b"}
  Bindings <- OneTwice
  Again = TRUE
  Blocks = {b1, b2, b3, b4, b5, b6, b7, b8}
  NULL = NULL
INVARIANTS
  HeightsBound
PROPERTIES
  ImplementsMap
VIEW View
