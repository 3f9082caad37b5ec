# Quark kernel: TLA+ models and proofs

Quark is a small 32-bit x86 microkernel in C: processes loaded from boot
modules, a scheduler, synchronous and queued message passing, named ports, and
paging.  This directory models the parts of it that keep state, checks them
with TLC and proves the central results with TLAPS.

Run a check with `tlc -config <file>.cfg <module>`, a proof with
`tlapm <module>.tla`.  `PROJECT.json` lists every run, the source lines behind
every definition, the hazards the properties are aimed at, a mutation of the
model that each property detects, and the theorems.

## The system

There is one CPU.  System calls (`isr_syscall`) and the yield interrupt
(`isr_preempt`) enter the kernel through interrupt gates, so a kernel entry is
not interrupted; the timer interrupt prints and returns.  Concurrency is
therefore the interleaving of processes at kernel entries: between two entries
of one process any others may have made any calls.  What makes the kernel hard
is state that outlives an entry (who is queued, blocked, active, loaded in cr3),
two delivery paths for messages, a fixed heap whose exhaustion is mostly not
checked, and data structures written by hand.

| Component | State | Operations | Hard behaviour | What makes it correct |
|---|---|---|---|---|
| Processes, IPC, ports (`kernel.c`, `syscalls.c`) | process table, ready queue, active process, message queues, ports | spawn, advance, terminate, send, receive, open and close port | interleaving of send, receive and schedule; termination of a queued or blocked process; heap exhaustion | exact ready queue, no lost wakeup, FIFO mailboxes, own address space loaded, panic only in a deadlock |
| Interrupt entries (`x86/preempt.S`, `isr.c`, `idt.c`) | activations in progress, interrupt flag, data segments | syscall, preempt, faults, timer | handlers nested in kernel code and in each other, segments not reloaded | system calls not interrupted, the segments, flags and address space of whoever runs |
| Syscall table (`kernel.c`) | the table, the call in progress | set_syscall, do_syscall | entries of terminated processes, address space switch around a call, index one past the end | called in the owner's space, returned to the caller's, never through a dead entry or past the table |
| Contexts (`x86/context.c`, `load_context.S`, `preempt.S`) | twelve words per process | store, load, set_context_* | two layouts written down separately, partial saves, writes into another process's context | a process resumes where it left, with its own registers |
| Signals (`kernel.c`) | interrupt handlers | register, remove, execute | a target that is blocked, ready, active or gone | ready queue stays exact, heap accounted |
| Console (`x86/putc.c`) | cursor | putchar | printing from an interrupt in the middle of putchar | writes stay near the screen |
| Boot (`x86/entry.S`, `multiboot2.c`, `quark_x86.c`, `mmgr.c`) | memory map, modules, pages behind the kernel | read tags, unmap, initialize_page_map | regions that split while they are iterated over, unaligned and overlapping memory | the bitmap and the free frames overlap nothing in use |
| Ready queue (`priorityqueue.c`) | array heap | insert, extract_min, remove, heapify | reads past `size`, removal from the middle, full array | a bounded collection with extraction of a minimum |
| Scheduler order | heap, active process | preempt, block, wake | starvation | every ready process runs |
| Message queue (`queue.c`) | linked list in heap blocks | insert, get_next | freed and reused nodes, becoming empty | FIFO |
| AVL tree (`avltree.c`) | nodes with stored heights | insert, remove, get | rotations driven by wrong heights, a removed inner node replaced by its successor | a map, a search tree |
| Memory (`mmgr.c`, `x86/paging.c`, `heap.c`, `elf.c`, `syscalls.c`) | free frames, directories, tables, cr3 | create_address_space, map_page, unmap_page, kmalloc, load_program, mmap, munmap | frames running out in the middle, stale frame contents, kernel half shared by copying | each frame used once, spaces isolated and complete |
| Devices other than the console, library | - | - | register pokes, pure functions | not modelled |

The components interact by calls and shared state: the kernel keeps processes in
AVL trees, the ready queue and message queues; all three take their nodes from
the system heap; the heap takes pages from the page map and maps them in
whatever address space is loaded; the scheduler and `send` load address spaces.

## Modules

- `Kernel` is the core: the state of `kernel_t` and `process_t` and one action
  per kernel entry.  The process table and ports are maps, justified by
  `AvlTree` as long as no insertion faults (see Findings); a message queue is a
  sequence, justified by `LinkedQueue`; the ready queue is the multiset of the
  processes it holds, justified by `PriorityQueue`.  A process, its `process_t`
  and its page table are one pid (pids are not reused).  The heap is a number of
  64-byte blocks: every object here (`process_t`, context, tree node, message,
  queue node, port) takes one.  Messages are numbered by the history variable
  `sends`; `accepted`, `received` and `dropped` record what happened to them.
  `mode` is what the CPU does: `boot`, `running`, or one of the ways in which
  `panic` and the fault handlers stop it.  `Callable` says which operations
  processes reach: `terminate_self` and `kernel_terminate_process` exist in the
  source but are not in the syscall table.  Pointers passed by processes are
  NULL or valid; a message at NULL, which `send` does not check, is a page fault
  in the copy (`MessageFault`).
- `Mailboxes` is the abstract specification of send and receive: an ordered
  mailbox per open address, direct hand-over only when nothing waits.  `Kernel`
  implements it with `message_queue` as the boxes (`ImplementsMailboxes`).
- `Context` composes `Kernel` with the registers: each kernel entry of `Kernel`
  together with what it stores, loads and leaves in the context of each
  process, and the three functions on interrupt handlers.  A register value
  names the register, the process and one of two generations, so that mixing,
  losing or resurrecting values can be seen.  `own`, `saved` and `left`
  remember what a process had.  The functions on handlers read
  `kernel.active_process` without a check: after a termination, with no process
  active, they fault (`HandlerFaults`).
- `Entries` looks inside a kernel entry: handlers are sequences of steps, an
  interrupt may come before each of them while the interrupt flag is set, and
  the stack of activations is what iret unwinds.  It composes `SyscallTable`
  (`set_syscall` and the two halves of `do_syscall`) and `Console` (`putchar`,
  load by load and store by store; the build is `-O0`).  Which process is ready
  is left to `Kernel`; that `Kernel` may treat a system call as atomic is shown
  here (`KernelNotReentered`).  Termination and entries owned by processes are
  included although the table as built reaches neither.  So is the index one past
  the table: behind it lies the ready queue, the low byte of whose `heap` is read
  as `defined` (`LowByteSet` says whether libmalloc's address has one) and whose
  `capacity` as `process_id`.  Once `do_syscall` has cleared that byte the
  scheduler may find a process, nothing or a page fault where it looks.  Of the
  exceptions those with a handler of their own are modelled, and one that goes to
  `isr_generic`.
- `Boot` goes from the loader's tags to the bitmap of free frames; `MCBoot`
  gives it memory maps and modules.  Addresses are counted in fractions of a
  page and are taken modulo `Word` where the loader's 64 bits become 32
  (`physaddr_t`).  The memory map of libmalloc is external: sorted, the less available
  type wins, and merging of equal neighbours may or may not happen.  How many
  pages the bitmap takes is left open, as is libmalloc's choice.
- `PriorityQueueOps` has the array of `priorityqueue.c`, its indices and what
  one round of its loops does; `PriorityQueue` makes the calls in any order, a
  step for each round of `priorityqueue_insert` and of the recursion of
  `heapify`; `ReadyQueue` is the abstract specification.  The node that replaces a
  removed one is moved down and never up; the history variable `ordered` becomes
  false when that leaves it below a parent it should be above, and true again
  when the queue has been empty.  `ReadyQueue` promises a lowest value only while
  `ordered` holds, and everything else always.  `MCPriorityQueue` has the view
  under which TLC explores it.
- `Scheduler` puts `kernel_advance_scheduler` on the same array heap, each call
  of the queue in one step.
- `LinkedQueue` is `queue.c` with its pointers and blocks, `Fifo` what it
  implements; `chain`, the list of nodes, is a history variable.
- `AvlTree` is `avltree.c` with its nodes in blocks and updated in place.  Each
  activation of a recursive call takes a step on the way down (`Descend`,
  `Inner`) and one on the way back (`Back`), each loop a step per round; `path`
  is the stack of activations that wait.  A rotation that would read a node at
  NULL is `Fault`.  `KeyedMap` is what it implements: a map, with the request
  that is made and has not taken effect.  `MCAvlTree` tells states apart by the
  tree that the blocks form.
- `Memory` is `mmgr.c` and `paging.c` with their callers; `MCMemory` gives it a
  small address space.  A page is a pair of directory slot and table index.
  Loops over pages take a step per page, in a fixed order kept by `doing` and
  `todo`, and nothing else is enabled meanwhile.  `Pick` stands for the
  external `reserve_region` of libmalloc: it returns some free frame.  There are
  two kernel slots, as in the linker script (0xFF400000 and 0xFF800000), the
  first of them present at boot.  A program is a sequence of segments with an
  address and a size; `load_program` maps the page of the address, copies up to
  `page_size` bytes there and goes on by `page_size`, so that a segment which
  begins within a page can reach one that is not mapped yet, a page fault.  All
  modules take the same pages while they are loaded (`ImagePages`), and one frame
  `Image` stands for all of theirs.
- `KernelProofs`, `ContextProofs`, `EntriesProofs`, `MemoryProofs`,
  `BootProofs`, `PriorityQueueProofs`, `LinkedQueueProofs` and `AvlTreeProofs`
  hold the theorems about the module they are named for.

Definitions keep the names of the C functions.  A definition introduced with
"Mutant:" is not part of the model: it is a plausible mistake that the property
named in `PROJECT.json` rules out.

## Runs

| Run | Bounds | Shows |
|---|---|---|
| `kernel` | 3 processes, 1 port, 3 messages, 14 blocks, every operation | `ReadyExact`, `ActiveIsLive`, `NoLostWakeup`, `MailboxFIFO`, `NeverReordered`, `OwnAddressSpace`, `IdleMeansDeadlock`, `HeapAccounted`, `OrphanedPortsStay`, refinement of `Mailboxes` |
| `context` | 2 processes, 1 message, 8 blocks, 1 interrupt | `OwnRegisters`, `ResumesWhereItLeft`, `PreemptTransparent`, `BlockedReceiveReturns`, `BlockedReceiveStale`, `ReadyExact` with signals, `ActionsAccounted` |
| `entries` | 2 processes, a table of 3 with the word behind it, a screen of 3 lines of 3 | `KernelNotReentered`, `ValidSegments`, `CallerSpaceRestored`, `OwnFlag`, `CallsLiveEntry`, `WritesNearScreen` |
| `pqueue` | 7 values, 3 priorities, capacity 6 | refinement of `ReadyQueue`: nothing lost or twice there, and a minimum extracted as long as no removal has broken the order |
| `scheduler3` | 3 processes | `EveryReadyRuns` |
| `scheduler4` | 4 processes | violation of `EveryReadyRuns` |
| `queue` | 3 nodes, 2 values | `WellLinked`, refinement of `Fifo` |
| `avltree` | 8 keys, one of them with 2 values, keys inserted that are there | `HeightsBound`, refinement of `KeyedMap` |
| `avltree_fault` | 9 keys, each inserted only while it is not there | violation of `RotationsSafe` |
| `memory` | 2 modules of 5 programs, pages of 2 bytes, images of 2 pages, every number of frames from 0 to 19 | `OneUse`, `SpaceComplete`, `HeapShared`, `WindowMissing`, `OthersUntouched`, `FramesKept` |
| `memory_kernel` | the same | violation of `KernelMapped` |
| `boot` | 8 pages of 2 units, 7 memory maps, 4 lists of modules, 3 ends of the loader's information, a bitmap of 1 to 4 pages | `BitmapBacked`, `FreeFramesSafe`, `FailsOnlyIfShort`, `BootEnds` |

Why the bounds are enough.  Three processes give a sender, a receiver and a
third party that is scheduled or terminated between them; three messages give
direct delivery, queueing, and both in turn; 14 blocks let three processes start
(9), a port and messages use up the rest, so each allocation fails in some
behaviour, also the second of two.  A queue of capacity equal to the number of
processes makes "full" reachable.  In `PriorityQueue` six nodes of three
priorities are the least with which a removal breaks the order of the heap: the
last node must be in another subtree than the removed one and lower than its
parent.  A seventh value meets the full array.  The code compares values for
equality only and the queue holds distinct ones, so that states with the same
priorities in the same places have the same steps up to a renaming of values;
`View` keeps the priorities and leaves out the values.  Three blocks let the list fill, drain and reuse a node while others are
linked.  Eight keys are enough for both double rotations, for trees whose stored
heights are wrong and, with keys inserted again, for the fault.  Every number of
frames up to 19 makes each reservation of a frame the first to fail; two modules
are the least for which address spaces can interfere.  The programs have a last
page that is not full, an empty segment, segments that share a page, and
segments that begin within a page with and without the next page mapped.  In `Memory` frames are
handed out in ascending order: they are interchangeable and none is returned for
reuse.  In `Context` two processes and two generations of register values are
enough to confuse processes and to tell a stale value from a current one; one
spare pair of blocks is either a message or a handler.  In `Entries` the depth
of nesting is not bounded: handlers run with interrupts off, so only a page
fault handler, which has a trap gate, and the end of `kernel_initialize` can be
interrupted, and the state space is finite; a screen of three short lines
reaches the end, the scrolling, a scrolling in a scrolling and every residue of
the cursor.  In `Boot` the maps have holes, overlaps, unaligned and adjacent
regions below and above the kernel, and there are more modules than fit.

Fairness is assumed in two modules.  `Boot` has `WF(Next)`: the CPU executes
straight-line code with interrupts disabled and waits for nobody, so each
enabled step is taken; that the loop ends is then a statement about its bounds.
`Scheduler` has `WF(isr_preempt \/ Block)`, the running
process sooner or later yields or blocks.  The code does not preempt, so without
this nothing else would ever run.  It is an assumption about programs, the
weakest under which scheduling order means anything; `scheduler4` is violated in
spite of it.

Deadlock checking is on in all runs; a halted machine stutters in `Stopped`.

## Findings

- `scheduler4`: equal priorities do not leave the heap in order of insertion, as
  `priorityqueue.h` says they do, and with the four processes of `grub.cfg` a
  ready process can be passed over for ever.
- `avltree_fault`: `avl_right_rotate` updates the height of the new root before
  that of the node which has become its child, so that the root's is too high.
  `avl_insert` then rotates where the tree is not deep, and the first half of
  its double rotation may have no child to raise: inserting 1, 5, 8, 4, 7, 6, 0,
  3, 2 reads a node at NULL.  Nine distinct keys are the least; if a key that is
  there is inserted again, as `kernel.c` never does, eight are.  The process table
  has at most eight pids; the table of ports, whose keys processes choose, can
  get there.  Until then the trees remain search trees, and `HeightsBound` shows
  that the heights are wrong in one direction only.
- `memory_kernel`: kernel page tables made after an address space are missing
  from it.  `HeapShared` shows that the heap's first 4 MiB are not affected.
- `priorityqueue_remove` moves the replacing node down but not up: from six nodes
  on, if the last one is lower than the parent of the removed one, the heap loses
  its order and `extract_min` need not return a value of lowest priority, as
  `priorityqueue.h` says it does.  The kernel gives all its processes one priority
  and never gets there.  `pqueue` passes: `ImplementsReadyQueue` states when the
  order is kept.

Modelled behaviour that contradicts no statement of the repository, and is
therefore not a run: a message is lost, though `send` reports success, if the
queue node cannot be allocated (`dropped`); ports of a terminated process stay
taken (`OrphanedPortsStay` states it); `munmap` of a page, and a failing `mmap`,
never return; a process can be spawned without a stack when frames run out
(`SpaceComplete` states when); `create_address_space` faults if the loaded
address space has nothing in its first 4 MiB; the comment in `queue.h` calls
the FIFO "last-in-first-out".
A process that blocked in `receive` gets back the general registers of its last
yield (`BlockedReceiveStale`).  A page fault handler that an interrupt resumes
from its `hlt` returns to the process without data segments (the exception in
`ValidSegments`).  Output nested in a newline can write up to a line past the
visible screen (`WritesNearScreen` says where from); the array has 48 cells behind
the visible 2000, so that such a write may be up to 32 cells past it.  The index
256 is accepted by `set_syscall` and `do_syscall`; what lies there is never called,
because the queue's capacity, taken for a pid, belongs to no process
(`CallsLiveEntry`), but `do_syscall` clears the low byte of the queue's address if
there is one.  Executing an interrupt handler
of the active process has no effect, and the action of a terminated process is
lost (`ActionsAccounted`).  If libmalloc joins regions of one type the loop of
`initialize_page_map` may pass over memory, hence the condition in
`FailsOnlyIfShort`; a bitmap for which no memory was found is written all the
same, a page fault.

## Proofs

`KernelProofs` proves, for every number of processes, ports, blocks and
messages, `TypeOK`, `ReadyExact`, `ActiveIsLive`, `OwnAddressSpace`,
`NoLostWakeup`, `IdleMeansDeadlock`, `MailboxFIFO`, `NeverReordered` and
`OrphanedPortsStay`.  The only assumption used is `KernelAssumption`, whose
essential part is `MaxPid <= Capacity`: no more processes than queue entries
(8 modules at most, 512 entries).

The inductive invariant is `IInv`, the conjunction of

- `CoreInv == TypeOK /\ ReadyExact /\ ActiveIsLive`.  `ReadyExact` needs the
  other two: an insertion finds room because the queue holds distinct processes
  none of which is the inserted one (`ProcessesFit`, `HoldsInsert`), which for
  the active process follows from `ActiveIsLive` and for a woken one from its
  state.  `ActiveIsLive` needs `ReadyExact`, as the scheduler makes active what
  the queue holds;
- `OwnAddressSpace`, `NoLostWakeup`, `IdleMeansDeadlock`, each relative to
  `CoreInv`;
- `MailInv == Unborn /\ MailboxFIFO`, where `Unborn` says that a pid not yet
  handed out has no messages.

`NextIsStep` first reduces `Next` to a few kinds of step (reschedule, spawn,
deliver, queue, receive, block, terminate, port, halt, stutter) so that each
part of the invariant has one lemma per kind.  `NeverReordered` has a
strengthening of its own, `OrderInv`: the numbers in `received` followed by
`message_queue` rise and stay below `sends`.

It also proves the refinement of `Mailboxes` and `HeapAccounted`.  A step of the
kernel maps to a step of one mailbox or to none: a message is handed over only
to a process that waits, whose box is empty by `NoLostWakeup`; what is received
goes to the process whose space is loaded (`OwnAddressSpace`); a pid that is not
in the table has an empty box, its own small invariant (`NoMailForTheDead`).
For the heap, `Total`, the sum over all processes, is the size of a set of
pairs, so that adding, removing and clearing a summand are lemmas about
cardinalities (`TotalMore`, `TotalLess` and the like) and no induction is
needed.  That ports are finite is the part of `KernelAssumption` used here.

`LinkedQueueProofs` proves `WellLinked` (with `TypeOK` inductive as it stands)
and that the list implements `Fifo`, mapping `items` to the pointers along
`chain`; the bound `Room` is the number of blocks, as an injective chain cannot
be longer (`ChainFits`).

`PriorityQueueProofs` proves that the array heap implements `ReadyQueue` for
every capacity and all sets of values and priorities.  A call has its effect in
its first step; the rounds that follow stutter, the hole of
`priorityqueue_insert` counting as filled (`Filled`).  The inductive invariant
`PInv` has a heap that, while `ordered` holds, is ordered except around the node
being moved (`EdgeInv`); past that node the order holds (`BridgeInv`), which is what makes
the next round work.  `heapify` compares with the node at index `size`, which is
no longer in use: it is the one that was moved to the root, so that the node
being moved is compared with itself (`StageInv`).  That the root has a lowest
priority is not shown by an induction over the tree but by looking at the least
index at which it fails (`RootIsLowest`).

`AvlTreeProofs` proves `HeightsBound` and the refinement of `KeyedMap`, for every
set of keys and any number of nodes.  In the inductive invariant `IInv`

- each node n has a place, the keys between `lo[n]` and `hi[n]` that lead a
  search to it; the children of a node divide its place (`Edge`), and the places
  of two nodes are nested or disjoint (`Apart`).  `Edge` alone is a fact about
  neighbours and does not say that there is one path to a node; `Apart` takes
  the place of an induction over the tree;
- while a successor replaces a removed inner node the tree has a key twice; its
  order is then that of the tree in which the node has its old key (`Pending`);
- on the way back the subtree that an activation returns belongs under the last
  node of `path`, where the code has not stored it yet (`Now`, `Top`);
- heights grow from child to parent, except at the node whose subtree has just
  changed (`HeightInv`).  They do not say how high a subtree is, because of the
  order of updates in `avl_right_rotate`; that they grow is what every rotation
  preserves and is enough for `HeightsBound`.

Each rotation preserves the places (one lemma per rotation, composed for the
double ones); on the way back the single rotations of `RebalanceInserted` and
`RebalanceRemoved` need their child, which the balance implies, and the double
ones of `avl_insert` the absence of `Fault`.  In the refinement each call has its
effect once: an insertion where it places its node, a removal where it frees the
node or, for an inner one, copies its successor, a lookup at its end.

`ContextProofs` proves all seven invariants of `Context`, for any number of
processes, messages and interrupts (`ContextAssumption`: finitely many).  The
inductive invariant `CIInv` adds to the kernel's own

- `UserInv`, who is in user mode: the active process, or one that was just
  terminated;
- `RegisterInv`: the context of a process holds values of that process only; of
  a process without the CPU it is such that `load_context` will be faithful to
  how it left (`Parked`: blocked in receive with its frame stored, or able to go
  on); the words a system call does not store stay as at the last yield
  (`StaleInv`); and the registers of the running process are faithful already.

`EntriesProofs` proves the six invariants of `Entries`, for any number of
processes, any depth of nesting and any table.  The inductive invariant lists
the places in the code at which an activation can be (`StackInv`), says that
interrupts are off above a system call or yield (`ClosedInv`), and where the
data segments, the address space and the interrupt flag of the process are kept
at each of those places (`SegmentInv`, `SpaceInv`, `FlagInv`).
`WritesNearScreen` has a second one on top of it, `ConsoleInv`: where output can
be interrupted by output, and which values the cursor can have at each place in
`putchar`, for any widths of lines and tabs.  It needs a screen of more than two
lines (the code has 25): with two, an output that scrolls inside an output that
scrolls moves the cursor up twice, and `\r` takes it below zero.
`CallsLiveEntry` rests on `SyscallAssumption`: the capacity of the ready queue, 512,
is not the pid of a process (pids are the numbers of the modules, at most 8).
That a call stays live once dispatched, although its owner may be terminated in
it, is why the property is about the moment of the call.  Up to the first system
call the queue's words are as `construct_priority_queue` left them (`BootQueue`).

`MemoryProofs` proves all six properties of `Memory`, two of them action
properties, for any number of frames, modules, directory and table entries and
any choice of frames by libmalloc.  The inductive invariant says that the tables
in use form a tree: each frame is a directory, a table, a page or free, in one
place only (`UniqueInv`), except the kernel tables that directories share
(`SharingInv`).  `OneUse` alone is not inductive, because the new directory that
`create_address_space` fills and the half-loaded program belong to no process
yet; `StageInv` and `LoopInv` say what each stage of the loader and each loop has
mapped so far: of a program, the page of every byte before those still to be
copied.  That no byte is passed over needs `AddressAssumption`, by which what is no
longer than a page lies in the pages of its first and its last byte: the first was
mapped, and the last was mapped or the copy faulted.  `RangeAssumption` is needed
too: a range has each page once, and programs are linked elsewhere than at the
pages that the loader maps itself.  `load_program` does not check the latter; a
program linked at its stack would share it.

`BootProofs` proves the three safety properties of `Boot` for every memory map,
list of modules, page size and number of pages of the bitmap.  `BootAssumption`
says that what the loader passes lies in memory, which ends below 4 GiB (`Word`),
and that modules begin at pages, which the multiboot header asks for.  `BInv` relates the map to what was
put in: a unit is available exactly if the loader says so and no module, kernel
or bitmap frame covers it (`AvailableInv`), and regions of different types have
a bound between them (`CutInv`), so that what is left of the region being
searched is available although the array shifts under the loop (`RegionInv`).
For `FailsOnlyIfShort`, `ScanInv` says that usable frames not yet taken lie
ahead: in the region searched, from `location` on, or in one whose number in the
array (`Rank`) has not been passed; splitting a region adds numbers and lowers
none (`RankGrows`).  The attempt to prove it showed that a frame shared by two
adjacent available regions is never found when the map does not join them;
`Usable` leaves out such frames.

The inductive invariants were checked by TLC as invariants of the run's
instance, with finite sets in place of `Nat` where they enumerate it; that of
`AvlTree` was not, as TLC cannot choose the places.

Only model-checked:

- liveness (`EveryReadyRuns`, `BootEnds`), which is out of TLAPS's reach;
- that the three violations exist: they are counterexamples, and TLC shows them;
- that fewer than nine distinct keys meet no `Fault` (the constants of
  `AvlTreeFault.cfg` with eight keys and blocks); the proofs about `AvlTree` hold
  up to the fault, whose absence is false in general.

## Not modelled

- `kernel_signal_return`: `context_cleanup_func` moves the stack pointer away
  from what was pushed, so that it restores words nobody stored, and neither it
  nor the trampoline it would be reached by is used.
- The double fault and its task gate: no handler of the model faults twice.
- The contents of user memory, hence of user stacks, and the sender field and
  payload of messages.
- Flag bits of page table entries other than present, and the TLB.  Requests of
  processes to map pages of the kernel's half are outside `Memory`.
- libmalloc (bitmap allocators and the memory map) is not in the repository; it
  is known from its use and marked external.  What it does when the 24 regions
  of the map are used up is therefore open.
- A memory map that describes memory above 4 GiB, whose addresses would wrap.
- In `initialize_page_map`, the branch for a bitmap that begins in a missing page
  table.
- The values `avl_insert` and `avl_remove` return, other than the root that the
  next call starts from.
- Strings passed by the boot loader, `memory_size`, and tables of `start_paging`
  for more than 4 MiB.
- APIC, MSR and serial port registers: written, never read back, no state.
- `string.c`, `stdio.c`, `math.c`: pure functions on bytes and numbers.

## Plan

1. Core (done): `Kernel`, the three data structures under it, their abstract
   specifications, `Memory`.
2. Extension (done): `Mailboxes`, `Context` with signals, `Entries` with
   `SyscallTable` and `Console`, `Boot`, frame accounting in `Memory`.
3. Prove (done): `ImplementsMailboxes`, `HeapAccounted`, the invariants of
   `Context`, `Entries` with `WritesNearScreen`, `Memory` and `Boot`, and the
   refinements of `Fifo`, `ReadyQueue` and `KeyedMap`.
4. Next: `AvlTree` with the two updates of `avl_right_rotate` exchanged, to prove
   that no rotation then meets a missing child; libmalloc, once its source is at
   hand.
