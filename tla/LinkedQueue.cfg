SPECIFICATION Spec
CONSTANTS
  Nodes = {n1, n2, n3}
  Ptrs = {a, b}
  NULL = NULL
INVARIANTS
  WellLinked
PROPERTIES
  ImplementsFifo
