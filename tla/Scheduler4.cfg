SPECIFICATION Spec
CONSTANTS
  N = 4
  Capacity = 4
PROPERTIES
  EveryReadyRuns
