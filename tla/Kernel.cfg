SPECIFICATION Spec
CONSTANTS
  MaxPid = 3
  Ports = {p1}
  Capacity = 3
  HeapBlocks = 14
  MaxSends = 3
  Callable <- Operations
INVARIANTS
  TypeOK
  ReadyExact
  ActiveIsLive
  NoLostWakeup
  MailboxFIFO
  NeverReordered
  OwnAddressSpace
  IdleMeansDeadlock
  HeapAccounted
PROPERTIES
  OrphanedPortsStay
  ImplementsMailboxes
