SPECIFICATION Spec
CONSTANTS
  N = 3
  Capacity = 4
PROPERTIES
  EveryReadyRuns
