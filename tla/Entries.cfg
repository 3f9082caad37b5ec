SPECIFICATION Spec
CONSTANTS
  Pids = {1, 2}
  SyscallIds = {0}
  LastId = 1
  SpareIds = 1
  Capacity = 9
  LowByteSet = TRUE
  line_width = 3
  line_count = 3
  tab_width = 2
  Word = 16
  External = {64, 255}
INVARIANTS
  KernelNotReentered
  ValidSegments
  CallerSpaceRestored
  OwnFlag
  CallsLiveEntry
  WritesNearScreen
