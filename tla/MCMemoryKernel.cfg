SPECIFICATION Spec
CONSTANTS
  FrameCount = 19
  Frames <- MCFrames
  FreeAtBoot <- MCFreeAtBoot
  Pick <- Lowest
  UserSlots <- MCUserSlots
  KernelSlots <- MCKernelSlots
  Indices = {0, 1}
  Addresses <- MCAddresses
  page_size = 2
  PageOf <- PageAt
  Programs <- MCPrograms
  BitmapPages <- MCBitmapPages
  HeapPages <- MCHeapPages
  ImagePages <- MCImagePages
  StackPage <- MCStackPage
  MmapRanges <- MCMmapRanges
  MaxSpaces = 2
  FirstSlot = "first"
  ImageSlot = "kernel"
  boot_directory = boot_directory
  identity_table = identity_table
  kernel_table = kernel_table
  Image = Image
  NULL = NULL
INVARIANTS
  KernelMapped
