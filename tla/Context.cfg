SPECIFICATION CSpec
CONSTANTS
  MaxPid = 2
  Ports = {}
  Capacity = 2
  HeapBlocks = 8
  MaxSends = 1
  Callable = {"send", "receive", "isr_preempt",
              "terminate_self", "kernel_terminate_process"}
  Interrupts = {1}
INVARIANTS
  OwnRegisters
  ResumesWhereItLeft
  PreemptTransparent
  BlockedReceiveStale
  BlockedReceiveReturns
  ReadyExact
  ActionsAccounted
