SPECIFICATION Spec
CONSTANTS
  INT_MAX = 9
  Keys = {1, 2, 3, 4, 5, 6, 7, 8, 9}
  Values = {"a", "b"}
  Bindings <- EachOnce
  Again = FALSE
  Blocks = {b1, b2, b3, b4, b5, b6, b7, b8, b9}
  NULL = NULL
INVARIANTS
  RotationsSafe
VIEW View
