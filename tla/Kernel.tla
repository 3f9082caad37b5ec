------------------------------- MODULE Kernel -------------------------------
(***************************************************************************)
(* Processes, scheduling, message passing and ports of the kernel:         *)
(* src/kernel.c with the syscalls of src/syscalls.c that reach it and the  *)
(* interrupt entries of src/x86/preempt.S.                                 *)
(*                                                                         *)
(* There is one CPU and every kernel entry runs with interrupts disabled   *)
(* (interrupt gates, cli), so an entry is one atomic step.  Processes      *)
(* interleave at these entries: which one is made next, and with which     *)
(* arguments, is the choice of the process that has the CPU.               *)
(*                                                                         *)
(* A process is known by its pid, its struct process_t and its address     *)
(* space (page_table) by the same number.  The AVL trees are the maps they *)
(* implement (AvlTree), the message queues the sequences they implement    *)
(* (LinkedQueue), and the ready queue is the multiset it holds: every      *)
(* process is spawned with priority 1, and the order in which the array    *)
(* heap returns equal priorities is the subject of Scheduler.              *)
(***************************************************************************)
EXTENDS Integers, Sequences, FiniteSets

CONSTANTS
  MaxPid,      \* Bound: the number of boot modules, hence of processes
  Ports,       \* the port identifiers that processes use
  Capacity,    \* kernel.priority_queue.capacity
  HeapBlocks,  \* 64-byte blocks that the system heap can hand out
  MaxSends,    \* Bound: the number of messages the kernel accepts
  Callable     \* the operations that processes can reach

Operations == {"send", "receive", "open_port", "close_port", "isr_preempt",
               "terminate_self", "kernel_terminate_process"}

ASSUME KernelAssumption ==
  /\ MaxPid \in Nat
  /\ IsFiniteSet(Ports)
  /\ Capacity \in Nat /\ MaxPid <= Capacity
  /\ HeapBlocks \in Nat
  /\ MaxSends \in Nat
  /\ Callable \subseteq Operations

NULL == 0
Pids == 1..MaxPid

VARIABLES
  mode,            \* what the CPU is doing: booting, running processes, halted
  next_pid,        \* kernel.next_pid
  process_table,   \* keys of kernel.process_table
  state,           \* process_t.state
  message_buffer,  \* process_t.message_buffer: "NULL" or "user" pointer
  message_queue,   \* process_t.message_queue
  priority_queue,  \* kernel.priority_queue: how often it holds each process, size
  active_process,  \* kernel.active_process, NULL if none
  cr3,             \* the address space that is loaded
  port_table,      \* kernel.port_table: owner of each port, NULL if not open
  heap_free,       \* blocks left in system_heap
  sends,           \* history: messages accepted so far, numbers the messages
  accepted,        \* history: messages for which send returned ENONE, by recipient
  received,        \* history: messages copied into each address space's buffer
  dropped          \* history: accepted messages whose queue_insert failed

histories == <<sends, accepted, received, dropped>>
sched == <<mode, active_process, cr3, priority_queue>>
vars == <<mode, next_pid, process_table, state, message_buffer, message_queue,
          priority_queue, active_process, cr3, port_table, heap_free, histories>>

Halted == {"panic_load", "panic_idle", "fault"}

Init ==
  /\ mode = "boot"
  /\ next_pid = 1
  /\ process_table = {}
  /\ state = [p \in Pids |-> "PROCESS_ACTIVE"]
  /\ message_buffer = [p \in Pids |-> "NULL"]
  /\ message_queue = [p \in Pids |-> <<>>]
  /\ priority_queue = [held |-> [p \in Pids |-> 0], size |-> 0]
  /\ active_process = NULL
  /\ cr3 = NULL
  /\ port_table = [id \in Ports |-> NULL]
  /\ heap_free = HeapBlocks
  /\ sends = 0
  /\ accepted = [p \in Pids |-> <<>>]
  /\ received = [p \in Pids |-> <<>>]
  /\ dropped = [p \in Pids |-> 0]
-----------------------------------------------------------------------------
(* The ready queue as a multiset.  An insertion into a full queue returns  *)
(* ENOMEM, which no caller in kernel.c looks at.                           *)

\* Mutant: the queue counts as full one entry early.
InsertFullEarly(queue, p) ==
  IF queue.size + 1 >= Capacity
  THEN queue
  ELSE [held |-> [queue.held EXCEPT ![p] = @ + 1], size |-> queue.size + 1]

priorityqueue_insert(queue, p) ==
  IF queue.size = Capacity
  THEN queue
  ELSE [held |-> [queue.held EXCEPT ![p] = @ + 1], size |-> queue.size + 1]

\* Mutant: the removal does not look whether the process is queued.
RemoveUnchecked(queue, p) ==
  [held |-> [queue.held EXCEPT ![p] = @ - 1], size |-> queue.size - 1]

priorityqueue_remove(queue, p) ==
  IF queue.held[p] = 0
  THEN queue
  ELSE [held |-> [queue.held EXCEPT ![p] = @ - 1], size |-> queue.size - 1]

\* panic("no processes available to enter!")
NoProcessPanic == mode' = "panic_idle" /\ UNCHANGED cr3

\* The current process goes back to the queue and a queued one is entered,
\* its address space loaded; the kernel panics when none is queued.
kernel_advance_scheduler(current, queue) ==
  LET ready == IF current = NULL THEN queue
                                 ELSE priorityqueue_insert(queue, current)
  IN \/ /\ ready.size = 0
        /\ active_process' = NULL
        /\ priority_queue' = ready
        /\ NoProcessPanic
     \/ /\ ready.size > 0
        /\ \E p \in Pids :
             /\ ready.held[p] > 0
             /\ active_process' = p
             /\ priority_queue' = priorityqueue_remove(ready, p)
             /\ cr3' = p
        /\ mode' = "running"

\* The machine stops in panic() or in hlt of the page fault handler; what
\* it leaves in memory is read by no later step.
Halt(how) ==
  /\ mode' = how
  /\ UNCHANGED <<next_pid, process_table, state, message_buffer, message_queue,
                 priority_queue, active_process, cr3, port_table, heap_free,
                 histories>>
-----------------------------------------------------------------------------
(* Boot                                                                    *)

\* kmalloc of process_t, of its context and of its process_table node
SpawnBlocks == 3

\* All allocations succeed: the process enters the table and the ready queue.
SpawnReady ==
  /\ heap_free >= SpawnBlocks
  /\ heap_free' = heap_free - SpawnBlocks
  /\ state' = [state EXCEPT ![next_pid] = "PROCESS_ACTIVE"]
  /\ message_buffer' = [message_buffer EXCEPT ![next_pid] = "NULL"]
  /\ message_queue' = [message_queue EXCEPT ![next_pid] = <<>>]
  /\ process_table' = process_table \cup {next_pid}
  /\ priority_queue' = priorityqueue_insert(priority_queue, next_pid)
  /\ next_pid' = next_pid + 1
  /\ cr3' = next_pid
  /\ UNCHANGED <<mode, active_process, port_table, histories>>

\* The block for the process_table node is not checked: avl_new writes
\* through NULL.
kernel_spawn_process ==
  \/ SpawnReady
  \/ heap_free = SpawnBlocks - 1 /\ Halt("fault")

\* The module's own address space is created and loaded, its image mapped
\* and copied, and a process spawned in it.  Running out of page frames on
\* the way, or of blocks for process_t and its context, is a panic.
kernel_load_module ==
  /\ mode = "boot"
  /\ next_pid <= MaxPid
  /\ kernel_spawn_process \/ Halt("panic_load")

\* The end of kernel_initialize: all modules are loaded, enter the first.
EnterFirstProcess ==
  /\ mode = "boot"
  /\ kernel_advance_scheduler(active_process, priority_queue)
  /\ UNCHANGED <<next_pid, process_table, state, message_buffer, message_queue,
                 port_table, heap_free, histories>>
-----------------------------------------------------------------------------
(* Kernel entries of the running process                                   *)

Running(op) == mode = "running" /\ op \in Callable

\* do_syscall stores pc, stack and flags through kernel.active_process, so a
\* call made by a process that has been terminated is a page fault.
do_syscall(op) == Running(op) /\ active_process # NULL

SyscallOfTerminated ==
  /\ \E op \in Callable \ {"isr_preempt"} : Running(op)
  /\ active_process = NULL
  /\ Halt("fault")

\* Interrupt ISR_PREEMPT, which processes raise to give up the CPU.
isr_preempt ==
  /\ Running("isr_preempt")
  /\ kernel_advance_scheduler(active_process, priority_queue)
  /\ UNCHANGED <<next_pid, process_table, state, message_buffer, message_queue,
                 port_table, heap_free, histories>>

Waiting(p) == message_buffer[p] # "NULL" /\ state[p] = "PROCESS_REQUESTING"

Accept(to) ==
  /\ sends < MaxSends
  /\ sends' = sends + 1
  /\ accepted' = [accepted EXCEPT ![to] = Append(@, sends + 1)]

\* Mutant: the recipient's address space stays loaded.
DeliverNoReturn(to) ==
  /\ received' = [received EXCEPT ![to] = Append(@, sends + 1)]
  /\ cr3' = to

\* The copy into the recipient's buffer, in its address space, from which
\* the kernel then returns to the sender's.
Deliver(to) ==
  /\ received' = [received EXCEPT ![to] = Append(@, sends + 1)]
  /\ cr3' = active_process

\* Mutant: the recipient is woken but not put in the ready queue.
UnblockUnqueued(to) ==
  /\ message_buffer' = [message_buffer EXCEPT ![to] = "NULL"]
  /\ state' = [state EXCEPT ![to] = "PROCESS_ACTIVE"]
  /\ UNCHANGED priority_queue

Unblock(to) ==
  /\ message_buffer' = [message_buffer EXCEPT ![to] = "NULL"]
  /\ state' = [state EXCEPT ![to] = "PROCESS_ACTIVE"]
  /\ priority_queue' = priorityqueue_insert(priority_queue, to)

\* The recipient is blocked in receive: give it the message and make it ready.
kernel_send_message(to) ==
  /\ Waiting(to)
  /\ Accept(to)
  /\ Deliver(to)
  /\ Unblock(to)
  /\ UNCHANGED <<mode, next_pid, process_table, message_queue, active_process,
                 port_table, heap_free, dropped>>

\* kmalloc of the message copy and of its queue node
MessageBlocks == 2

\* Mutant: the queue of include/queue.h, "last-in-first-out".
PushFront(queue, m) == <<m>> \o queue

queue_insert(queue, m) == Append(queue, m)

\* EBUSY: copy the message and queue it.  Without a block for the copy the
\* result is ENOMEM; without one for the queue node the error of
\* queue_insert is ignored and send returns ENONE.
kernel_queue_message(to) ==
  /\ ~Waiting(to)
  /\ \/ /\ heap_free = 0
        /\ UNCHANGED <<heap_free, message_queue, histories>>
     \/ /\ heap_free = 1
        /\ Accept(to)
        /\ heap_free' = 0
        /\ dropped' = [dropped EXCEPT ![to] = @ + 1]
        /\ UNCHANGED <<message_queue, received>>
     \/ /\ heap_free >= MessageBlocks
        /\ Accept(to)
        /\ heap_free' = heap_free - MessageBlocks
        /\ message_queue' = [message_queue EXCEPT ![to] = queue_insert(@, sends + 1)]
        /\ UNCHANGED <<received, dropped>>
  /\ UNCHANGED <<mode, next_pid, process_table, state, message_buffer,
                 priority_queue, active_process, cr3, port_table>>

\* Mutant: nobody looks whether the recipient exists.
SendToAny(to) == kernel_send_message(to) \/ kernel_queue_message(to)

\* Either copy reads the message through the caller's pointer.  If that is
\* NULL, which nobody checks, it is a page fault.
MessageFault(to) == (Waiting(to) \/ heap_free > 0) /\ Halt("fault")

\* send() once the recipient is a pid; IO_SYNC and IO_ASYNC are treated alike.
SendTo(to) ==
  \/ to \notin process_table /\ UNCHANGED vars
  \/ to \in process_table /\ kernel_send_message(to)
  \/ to \in process_table /\ kernel_queue_message(to)
  \/ to \in process_table /\ MessageFault(to)

\* Undefined flag bits and IO_MAILBOX are refused with EINVALIDARG; for
\* IO_PORT kernel_get_port_owner translates the recipient first.
send ==
  /\ do_syscall("send")
  /\ \/ UNCHANGED vars
     \/ \E to \in Pids : SendTo(to)
     \/ \E id \in Ports :
          \/ port_table[id] = NULL /\ UNCHANGED vars
          \/ port_table[id] # NULL /\ SendTo(port_table[id])

\* Mutant: receive does not look at the queue.
QueueIgnored == TRUE

NothingQueued == message_queue[active_process] = <<>>

\* Mutant: the message is read and left in the queue.
PeekOnly(queue) == queue

queue_get_next(queue) == Tail(queue)

\* A queued message is copied to the caller's buffer at once; a NULL buffer
\* is then a page fault.
ReceiveQueued(buffer) ==
  /\ ~NothingQueued
  /\ \/ buffer = "NULL" /\ Halt("fault")
     \/ /\ buffer # "NULL"
        /\ received' = [received EXCEPT ![cr3] =
                          Append(@, Head(message_queue[active_process]))]
        /\ message_queue' = [message_queue EXCEPT ![active_process] = queue_get_next(@)]
        /\ heap_free' = heap_free + MessageBlocks
        /\ UNCHANGED <<sched, next_pid, process_table, state, message_buffer,
                       port_table, sends, accepted, dropped>>

\* Nothing queued and IO_SYNC: block and run another process.
ReceiveBlock(buffer) ==
  /\ NothingQueued
  /\ message_buffer' = [message_buffer EXCEPT ![active_process] = buffer]
  /\ state' = [state EXCEPT ![active_process] = "PROCESS_REQUESTING"]
  /\ kernel_advance_scheduler(NULL, priority_queue)
  /\ UNCHANGED <<next_pid, process_table, message_queue, port_table, heap_free,
                 histories>>

receive_message ==
  /\ do_syscall("receive")
  /\ \E buffer \in {"NULL", "user"}, op \in {"IO_SYNC", "IO_ASYNC"} :
       \/ ReceiveQueued(buffer)
       \/ NothingQueued /\ op = "IO_ASYNC" /\ UNCHANGED vars
       \/ op = "IO_SYNC" /\ ReceiveBlock(buffer)

\* kmalloc of port_t and of its port_table node, neither of them checked
PortBlocks == 2

kernel_create_port ==
  /\ do_syscall("open_port")
  /\ \E id \in Ports :
       \/ port_table[id] # NULL /\ UNCHANGED vars
       \/ port_table[id] = NULL /\ heap_free < PortBlocks /\ Halt("fault")
       \/ /\ port_table[id] = NULL
          /\ heap_free >= PortBlocks
          /\ heap_free' = heap_free - PortBlocks
          /\ port_table' = [port_table EXCEPT ![id] = active_process]
          /\ UNCHANGED <<sched, next_pid, process_table, state, message_buffer,
                         message_queue, histories>>

\* Mutant: EPERM is never returned.
AnyoneMayClose(id) == port_table[id] # NULL

MayClose(id) == port_table[id] = active_process

kernel_remove_port ==
  /\ do_syscall("close_port")
  /\ \E id \in Ports :
       \/ ~MayClose(id) /\ UNCHANGED vars
       \/ /\ MayClose(id)
          /\ heap_free' = heap_free + PortBlocks
          /\ port_table' = [port_table EXCEPT ![id] = NULL]
          /\ UNCHANGED <<sched, next_pid, process_table, state, message_buffer,
                         message_queue, histories>>

\* Mutant: the active process stays active after it was freed.
ActiveKept(pid) == active_process

ActiveWithout(pid) == IF active_process = pid THEN NULL ELSE active_process

\* Mutant: the queued messages are not freed.
ProcessBlocksOnly(pid) == SpawnBlocks

\* The blocks of the process, and of each queued message and its node;
\* sending_queue is empty, nothing in the kernel inserts into it.
BlocksOf(pid) == SpawnBlocks + MessageBlocks * Len(message_queue[pid])

\* Frees the process with its queued messages; its ports and page frames
\* stay.
kernel_terminate_process(pid) ==
  /\ active_process' = ActiveWithout(pid)
  /\ process_table' = process_table \ {pid}
  /\ priority_queue' = priorityqueue_remove(priority_queue, pid)
  /\ message_queue' = [message_queue EXCEPT ![pid] = <<>>]
  /\ heap_free' = heap_free + BlocksOf(pid)
  /\ UNCHANGED <<mode, next_pid, state, message_buffer, cr3, port_table,
                 histories>>

\* The caller goes on running in user mode, with active_process NULL.
terminate_self ==
  /\ do_syscall("terminate_self")
  /\ kernel_terminate_process(active_process)

TerminateOther ==
  /\ do_syscall("kernel_terminate_process")
  /\ \E pid \in process_table \ {active_process} : kernel_terminate_process(pid)

\* panic() and the fault handlers halt for good.
Stopped == mode \in Halted /\ UNCHANGED vars
-----------------------------------------------------------------------------
Next ==
  \/ kernel_load_module
  \/ EnterFirstProcess
  \/ isr_preempt
  \/ SyscallOfTerminated
  \/ send
  \/ receive_message
  \/ kernel_create_port
  \/ kernel_remove_port
  \/ terminate_self
  \/ TerminateOther
  \/ Stopped

Spec == Init /\ [][Next]_vars
-----------------------------------------------------------------------------
(* Correctness                                                             *)

States == {"PROCESS_ACTIVE", "PROCESS_REQUESTING"}

\* Every variable keeps its type; a pid in the process table or in a port is
\* one that kernel_spawn_process has handed out.
TypeOK ==
  /\ mode \in Halted \cup {"boot", "running"}
  /\ next_pid \in 1..MaxPid + 1
  /\ process_table \in SUBSET (1..next_pid - 1)
  /\ state \in [Pids -> States]
  /\ message_buffer \in [Pids -> {"NULL", "user"}]
  /\ message_queue \in [Pids -> Seq(Nat)]
  /\ priority_queue \in [held : [Pids -> Nat], size : Nat]
  /\ active_process \in Pids \cup {NULL}
  /\ cr3 \in Pids \cup {NULL}
  /\ port_table \in [Ports -> 0..next_pid - 1]
  /\ heap_free \in Nat
  /\ sends \in Nat
  /\ accepted \in [Pids -> Seq(Nat)]
  /\ received \in [Pids -> Seq(Nat)]
  /\ dropped \in [Pids -> Nat]

\* The processes kernel.priority_queue has to hold.
Runnable == {p \in process_table \ {active_process} : state[p] = "PROCESS_ACTIVE"}

\* kernel.priority_queue holds exactly the runnable processes, each of them
\* once: insertions in spawn, preempt and send and removals in the scheduler
\* and in terminate match.  No process is lost to a full queue, entered
\* twice, or entered after it was freed.
ReadyExact ==
  /\ \A p \in Pids : priority_queue.held[p] = IF p \in Runnable THEN 1 ELSE 0
  /\ priority_queue.size = Cardinality(Runnable)

\* The process the kernel takes for the current one is allocated and not
\* blocked in receive.
ActiveIsLive ==
  active_process # NULL => /\ active_process \in process_table
                           /\ state[active_process] = "PROCESS_ACTIVE"

\* A process blocked in receive with a buffer has no message queued: there
\* is no order of send, receive and schedule in which a message waits in the
\* queue while its recipient sleeps.
NoLostWakeup ==
  \A p \in process_table : Waiting(p) => message_queue[p] = <<>>

\* Messages reach a live process in the order in which send accepted them,
\* each once, over both the direct and the queued path; the only messages
\* missing are those whose queue node could not be allocated.
MailboxFIFO ==
  \A p \in process_table :
    /\ dropped[p] = 0 => accepted[p] = received[p] \o message_queue[p]
    /\ Len(accepted[p]) = Len(received[p]) + Len(message_queue[p]) + dropped[p]

\* Even with dropped messages none is delivered twice or out of order.
NeverReordered ==
  \A p \in Pids :
    LET all == received[p] \o message_queue[p] IN
    \A i, j \in DOMAIN all : i < j => all[i] < all[j]

\* Whenever a process runs in user mode its own address space is loaded, also
\* after send has copied into another one.
OwnAddressSpace ==
  mode = "running" /\ active_process # NULL => cr3 = active_process

\* panic("no processes available to enter!") is a real deadlock: every live
\* process is blocked in receive and has no message it could be given.
IdleMeansDeadlock ==
  mode = "panic_idle" =>
    \A p \in process_table :
      /\ state[p] = "PROCESS_REQUESTING"
      /\ message_buffer[p] = "NULL" \/ message_queue[p] = <<>>

OpenPorts == {id \in Ports : port_table[id] # NULL}

\* The sum of count[p] over all processes.
Total(count) == Cardinality(UNION {{p} \X (1..count[p]) : p \in Pids})

QueueLengths == [p \in Pids |-> Len(message_queue[p])]

\* Blocks of the system heap that some table or queue still refers to.
BlocksInUse ==
  SpawnBlocks * Cardinality(process_table)
    + PortBlocks * Cardinality(OpenPorts)
    + MessageBlocks * Total(QueueLengths)

\* kmalloc and kfree balance over processes, messages and ports, including
\* termination with messages queued: a block is in use or free, except for
\* the message copy that is lost when queue_insert fails.
HeapAccounted == heap_free + BlocksInUse + Total(dropped) = HeapBlocks

\* A port of a terminated process is lost: kernel_create_port refuses its
\* identifier, kernel_remove_port every caller, and as pids are not reused no
\* later process becomes its owner.
OrphanedPortsStay ==
  [][\A id \in Ports :
       port_table[id] \notin process_table \cup {NULL}
         => /\ port_table'[id] = port_table[id]
            /\ port_table'[id] \notin process_table']_vars

(* What the processes see of send and receive                              *)
Boxes == INSTANCE Mailboxes WITH
  Addresses <- Pids, live <- process_table, box <- message_queue,
  got <- received, sent <- sends

\* Sending, scheduling and receiving implement mailboxes that lose no message
\* once it is queued: direct delivery never overtakes a queued message, what
\* receive copies goes into the space of the process it was queued for, and
\* nothing is kept for a process that does not exist.
ImplementsMailboxes == Boxes!Spec
=============================================================================
