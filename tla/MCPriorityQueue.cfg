SPECIFICATION Spec
CONSTANTS
  Values = {v1, v2, v3, v4, v5, v6, v7}
  Prio = {1, 2, 3}
  Capacity = 6
  None = None
PROPERTIES
  ImplementsReadyQueue
VIEW View
