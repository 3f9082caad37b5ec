SPECIFICATION Spec
CONSTANTS
  Word = 32
  Units = 16
  page_size = 2
  kernel_pstart = 4
  kernel_pend = 8
  Loaders <- AllLoaders
  module_limit = 2
  MaxNeeded = 4
INVARIANTS
  BitmapBacked
  FreeFramesSafe
  FailsOnlyIfShort
PROPERTY BootEnds
