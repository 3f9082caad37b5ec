------------------------------ MODULE Scheduler -----------------------------
(***************************************************************************)
(* kernel_advance_scheduler of src/kernel.c over the array heap of         *)
(* src/priorityqueue.c: which process is entered next, and whether every   *)
(* ready process is entered at all.                                        *)
(*                                                                         *)
(* All processes have the priority 1 that kernel_load_module gives them.   *)
(* They give up the CPU on their own, by ISR_PREEMPT or by blocking in     *)
(* receive (the timer interrupt prints and returns), so progress is stated *)
(* under the assumption that the running process goes on doing that.       *)
(***************************************************************************)
EXTENDS Integers, PriorityQueueOps

CONSTANTS
  N,        \* Bound: number of processes
  Capacity  \* kernel.priority_queue.capacity

ASSUME SchedulerAssumption == N \in Nat \ {0} /\ Capacity \in Nat /\ N <= Capacity

Processes == 1..N
NULL == 0
Priority == 1

VARIABLES
  priority_queue,  \* kernel.priority_queue
  active_process,  \* kernel.active_process
  blocked          \* processes in state PROCESS_REQUESTING

vars == <<priority_queue, active_process, blocked>>

\* The recursion of heapify.
RECURSIVE heapify(_, _)
heapify(queue, i) ==
  LET c == Exchanged(queue, i)
  IN IF c = i THEN queue ELSE heapify(Swap(queue, i, c), c)

\* The loop of priorityqueue_insert and the stores behind it.
RECURSIVE SiftUp(_, _, _)
SiftUp(queue, i, node) ==
  IF Rises(queue, i, node.priority)
  THEN SiftUp(ParentDown(queue, i), ParentOf(i), node)
  ELSE Store(queue, i, node)

\* A full queue is left alone (ENOMEM).
priorityqueue_insert(queue, value, priority) ==
  IF queue.size = queue.capacity
  THEN queue
  ELSE SiftUp([queue EXCEPT !.size = @ + 1], queue.size, Node(value, priority))

\* Mutant: the node moved to the root stays there.
ExtractWithoutSift(queue) ==
  IF queue.size = 0 THEN queue ELSE Shrunk(queue, 0)

\* The queue left by priorityqueue_extract_min, which returns Root(queue).
priorityqueue_extract_min(queue) ==
  IF queue.size = 0 THEN queue ELSE heapify(Shrunk(queue, 0), 0)

Queued == {priority_queue.heap[i].value : i \in Indices(priority_queue)}

\* The insertions of kernel_spawn_process, one for each boot module.
Spawned ==
  LET spawn[n \in 0..N] ==
        IF n = 0 THEN construct_priority_queue(Capacity, Node(NULL, Priority))
                 ELSE priorityqueue_insert(spawn[n - 1], n, Priority)
  IN spawn[N]

kernel_advance_scheduler(current, queue) ==
  LET ready == IF current = NULL
               THEN queue
               ELSE priorityqueue_insert(queue, current, Priority)
  IN /\ active_process' = IF ready.size = 0 THEN NULL ELSE Root(ready)
     /\ priority_queue' = priorityqueue_extract_min(ready)

\* kernel_initialize has loaded the modules and entered the first process.
Init ==
  /\ active_process = Root(Spawned)
  /\ priority_queue = priorityqueue_extract_min(Spawned)
  /\ blocked = {}

isr_preempt ==
  /\ active_process # NULL
  /\ kernel_advance_scheduler(active_process, priority_queue)
  /\ UNCHANGED blocked

\* receive_message with nothing queued; the kernel panics if no process is
\* left to enter.
Block ==
  /\ active_process # NULL
  /\ blocked' = blocked \cup {active_process}
  /\ kernel_advance_scheduler(NULL, priority_queue)

\* kernel_send_message to a process blocked in receive
Wake ==
  /\ active_process # NULL
  /\ \E p \in blocked :
       /\ blocked' = blocked \ {p}
       /\ priority_queue' = priorityqueue_insert(priority_queue, p, Priority)
  /\ UNCHANGED active_process

Stopped == active_process = NULL /\ UNCHANGED vars

Next == isr_preempt \/ Block \/ Wake \/ Stopped

\* The running process sooner or later yields or blocks.
Fairness == WF_vars(isr_preempt \/ Block)

Spec == Init /\ [][Next]_vars /\ Fairness
-----------------------------------------------------------------------------
\* A ready process is sooner or later entered: with extract_min taking "the
\* object lest-recently inserted" the scheduler would be a round robin.
EveryReadyRuns == \A p \in Processes : p \in Queued ~> active_process = p
=============================================================================
