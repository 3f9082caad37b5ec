---------------------------- MODULE KernelProofs ----------------------------
(***************************************************************************)
(* Proofs about Kernel, for every number of processes, ports, heap blocks  *)
(* and messages.                                                           *)
(***************************************************************************)
EXTENDS Kernel, TLAPS, FiniteSetTheorems, SequenceTheorems

(***************************************************************************)
(* The ready queue                                                         *)
(***************************************************************************)

\* The queue holds the processes of R, each once.
Holds(queue, R) ==
  /\ queue \in [held : [Pids -> Nat], size : Nat]
  /\ \A p \in Pids : queue.held[p] = IF p \in R THEN 1 ELSE 0
  /\ queue.size = Cardinality(R)

\* A set of processes is finite and fits into the queue.
LEMMA ProcessesFit ==
  ASSUME NEW R \in SUBSET Pids
  PROVE  /\ IsFiniteSet(R)
         /\ Cardinality(R) \in Nat
         /\ Cardinality(R) <= Capacity
<1>1. IsFiniteSet(Pids) /\ Cardinality(Pids) = MaxPid
  <2>1. /\ IsFiniteSet(1..MaxPid)
        /\ Cardinality(1..MaxPid) = IF 1 > MaxPid THEN 0 ELSE MaxPid - 1 + 1
    BY FS_Interval, KernelAssumption
  <2> QED
    BY <2>1, KernelAssumption DEF Pids
<1>2. IsFiniteSet(R) /\ Cardinality(R) <= Cardinality(Pids)
  BY <1>1, FS_Subset
<1>3. Cardinality(R) \in Nat
  BY <1>2, FS_CardinalityType
<1> QED
  BY <1>1, <1>2, <1>3, KernelAssumption

\* Inserting a process that is not in the queue always succeeds: the queue
\* has room for all processes, so the ignored ENOMEM cannot occur.
LEMMA HoldsInsert ==
  ASSUME NEW R \in SUBSET Pids, NEW p \in Pids \ R, NEW queue, Holds(queue, R)
  PROVE  Holds(priorityqueue_insert(queue, p), R \cup {p})
<1>1. Cardinality(R \cup {p}) = Cardinality(R) + 1
  BY ProcessesFit, FS_AddElement
<1>2. queue.size # Capacity
  <2>1. R \cup {p} \in SUBSET Pids
    OBVIOUS
  <2>2. Cardinality(R) + 1 <= Capacity
    BY <2>1, <1>1, ProcessesFit
  <2>3. Cardinality(R) \in Nat
    BY ProcessesFit
  <2> QED
    BY <2>2, <2>3, KernelAssumption DEF Holds
<1> QED
  BY <1>1, <1>2 DEF Holds, priorityqueue_insert

\* Removing a process removes it if it is there.
LEMMA HoldsRemove ==
  ASSUME NEW R \in SUBSET Pids, NEW p \in Pids, NEW queue, Holds(queue, R)
  PROVE  Holds(priorityqueue_remove(queue, p), R \ {p})
<1>1. CASE p \in R
  <2>1. Cardinality(R \ {p}) = Cardinality(R) - 1 /\ Cardinality(R \ {p}) \in Nat
    BY <1>1, ProcessesFit, FS_RemoveElement
  <2> QED
    BY <2>1, <1>1 DEF Holds, priorityqueue_remove
<1>2. CASE p \notin R
  <2>1. R \ {p} = R
    BY <1>2
  <2> QED
    BY <2>1, <1>2 DEF Holds, priorityqueue_remove
<1> QED
  BY <1>1, <1>2

\* A queue of size 0 holds nothing.
LEMMA HoldsNone ==
  ASSUME NEW R \in SUBSET Pids, NEW queue, Holds(queue, R), queue.size = 0
  PROVE  R = {}
BY ProcessesFit, FS_EmptySet DEF Holds

LEMMA InitialQueue ==
  Holds([held |-> [p \in Pids |-> 0], size |-> 0], {})
BY FS_EmptySet DEF Holds

\* The scheduler takes one of the processes that are ready or current, and
\* leaves the others in the queue; it stops only if there is none.
LEMMA AdvanceTakesOne ==
  ASSUME NEW R \in SUBSET Pids, NEW current \in {NULL} \cup (Pids \ R), NEW queue,
         Holds(queue, R), kernel_advance_scheduler(current, queue)
  PROVE  LET all == R \cup ({current} \ {NULL})
         IN \/ /\ all = {}
               /\ active_process' = NULL
               /\ Holds(priority_queue', {})
               /\ mode' = "panic_idle"
               /\ cr3' = cr3
            \/ /\ active_process' \in all
               /\ Holds(priority_queue', all \ {active_process'})
               /\ mode' = "running"
               /\ cr3' = active_process'
<1> DEFINE all == R \cup ({current} \ {NULL})
           ready == IF current = NULL THEN queue
                                      ELSE priorityqueue_insert(queue, current)
<1>0. NULL \notin Pids
  BY KernelAssumption DEF NULL, Pids
<1>1. all \in SUBSET Pids /\ Holds(ready, all)
  <2>1. CASE current = NULL
    BY <2>1, <1>0
  <2>2. CASE current # NULL
    <3>1. Holds(priorityqueue_insert(queue, current), R \cup {current})
      BY <2>2, HoldsInsert
    <3> QED
      BY <3>1, <2>2, <1>0
  <2> QED
    BY <2>1, <2>2
<1> HIDE DEF all
<1>2. CASE /\ ready.size = 0
           /\ active_process' = NULL
           /\ priority_queue' = ready
           /\ mode' = "panic_idle"
           /\ cr3' = cr3
  <2>1. all = {}
    BY <1>1, <1>2, HoldsNone
  <2> QED
    BY <1>1, <1>2, <2>1 DEF all
<1>3. CASE /\ ready.size > 0
           /\ \E p \in Pids : /\ ready.held[p] > 0
                              /\ active_process' = p
                              /\ priority_queue' = priorityqueue_remove(ready, p)
                              /\ cr3' = p
           /\ mode' = "running"
  <2>1. PICK p \in Pids : /\ ready.held[p] > 0
                          /\ active_process' = p
                          /\ priority_queue' = priorityqueue_remove(ready, p)
                          /\ cr3' = p
    BY <1>3
  <2>2. p \in all
    BY <1>1, <2>1 DEF Holds
  <2>3. Holds(priority_queue', all \ {p})
    BY <1>1, <2>1, HoldsRemove
  <2> QED
    BY <1>3, <2>1, <2>2, <2>3 DEF all
<1> QED
  BY <1>2, <1>3 DEF kernel_advance_scheduler, NoProcessPanic

(***************************************************************************)
(* The core invariant: types, the ready queue and the active process.      *)
(* None of the three is inductive alone: the type of the queue's size      *)
(* needs ReadyExact (a removal must not go below 0), ReadyExact needs      *)
(* ActiveIsLive (the process that is put back must be a runnable one that  *)
(* is not queued yet), and ActiveIsLive needs ReadyExact (the process      *)
(* taken from the queue must be live).                                     *)
(***************************************************************************)

CoreInv == TypeOK /\ ReadyExact /\ ActiveIsLive

LEMMA QueueOfCore ==
  ASSUME CoreInv
  PROVE  /\ Runnable \in SUBSET Pids
         /\ Holds(priority_queue, Runnable)
         /\ process_table \in SUBSET Pids
<1>1. process_table \in SUBSET Pids
  BY KernelAssumption DEF CoreInv, TypeOK, Pids
<1> QED
  BY <1>1 DEF CoreInv, TypeOK, ReadyExact, Runnable, Holds

\* The same of the next state.
LEMMA TableOfCorePrimed ==
  ASSUME CoreInv'
  PROVE  process_table' \in SUBSET Pids /\ Runnable' \in SUBSET Pids
<1>1. next_pid' \in 1..MaxPid + 1 /\ process_table' \in SUBSET (1..next_pid' - 1)
  BY DEF CoreInv, TypeOK
<1>2. \A n \in 1..MaxPid + 1 : 1..n - 1 \subseteq Pids
  BY KernelAssumption DEF Pids
<1>3. process_table' \in SUBSET Pids
  BY <1>1, <1>2
<1> QED
  BY <1>3 DEF Runnable

LEMMA NullIsNoProcess == NULL \notin Pids
BY KernelAssumption DEF NULL, Pids

\* Types of what Halt and the operations other than the scheduler's keep.
LEMMA CoreStutter == CoreInv /\ UNCHANGED vars => CoreInv'
BY DEF CoreInv, TypeOK, ReadyExact, ActiveIsLive, Runnable, vars, histories

LEMMA CoreHalt ==
  ASSUME CoreInv, NEW how \in Halted, Halt(how)
  PROVE  CoreInv'
BY DEF CoreInv, TypeOK, ReadyExact, ActiveIsLive, Runnable, Halt, histories

\* The scheduler, entered with the active process (preemption, end of boot).
LEMMA CoreAdvance ==
  ASSUME CoreInv, kernel_advance_scheduler(active_process, priority_queue),
         UNCHANGED <<next_pid, process_table, state, message_buffer,
                     message_queue, port_table, heap_free, histories>>
  PROVE  CoreInv'
<1> DEFINE all == Runnable \cup ({active_process} \ {NULL})
<1>1. /\ Runnable \in SUBSET Pids
      /\ Holds(priority_queue, Runnable)
      /\ process_table \in SUBSET Pids
  BY QueueOfCore
<1>2. active_process \in {NULL} \cup (Pids \ Runnable)
  BY DEF CoreInv, TypeOK, Runnable
<1>3. \/ /\ all = {}
         /\ active_process' = NULL
         /\ Holds(priority_queue', {})
         /\ mode' = "panic_idle"
         /\ cr3' = cr3
      \/ /\ active_process' \in all
         /\ Holds(priority_queue', all \ {active_process'})
         /\ mode' = "running"
         /\ cr3' = active_process'
  BY <1>1, <1>2, AdvanceTakesOne
<1>4. all = {p \in process_table : state[p] = "PROCESS_ACTIVE"}
  BY <1>1, NullIsNoProcess DEF CoreInv, ActiveIsLive, Runnable
<1>5. Runnable' = all \ {active_process'}
  BY <1>4 DEF Runnable
<1>6. Holds(priority_queue', Runnable')
  BY <1>3, <1>5
<1>7. ActiveIsLive'
  BY <1>3, <1>4 DEF ActiveIsLive
<1>8. all \in SUBSET Pids
  BY <1>1, <1>4
<1> HIDE DEF all
<1>9. TypeOK'
  <2>1. priority_queue' \in [held : [Pids -> Nat], size : Nat]
    BY <1>6 DEF Holds
  <2>2. /\ mode' \in Halted \cup {"boot", "running"}
        /\ active_process' \in Pids \cup {NULL}
        /\ cr3' \in Pids \cup {NULL}
    BY <1>3, <1>8 DEF CoreInv, TypeOK, Halted
  <2> QED
    BY <2>1, <2>2 DEF CoreInv, TypeOK, histories
<1> QED
  BY <1>6, <1>7, <1>9 DEF CoreInv, ReadyExact, Holds

\* A new process enters the table and the queue.
LEMMA CoreSpawn ==
  ASSUME CoreInv, next_pid <= MaxPid, SpawnReady
  PROVE  CoreInv'
<1>1. /\ Runnable \in SUBSET Pids
      /\ Holds(priority_queue, Runnable)
      /\ process_table \in SUBSET Pids
  BY QueueOfCore
<1>2. next_pid \in Pids \ process_table
  BY KernelAssumption DEF CoreInv, TypeOK, Pids
<1>3. next_pid # active_process
  BY <1>2, NullIsNoProcess DEF CoreInv, ActiveIsLive
<1>4. /\ state' \in [Pids -> States]
      /\ state'[next_pid] = "PROCESS_ACTIVE"
      /\ \A p \in Pids \ {next_pid} : state'[p] = state[p]
  BY <1>2 DEF SpawnReady, CoreInv, TypeOK, States
<1>5. Runnable' = Runnable \cup {next_pid} /\ next_pid \notin Runnable
  BY <1>1, <1>2, <1>3, <1>4 DEF SpawnReady, Runnable
<1>6. Holds(priority_queue', Runnable')
  BY <1>1, <1>2, <1>5, HoldsInsert DEF SpawnReady
<1>7. TypeOK'
  <2>1. priority_queue' \in [held : [Pids -> Nat], size : Nat]
    BY <1>6 DEF Holds
  <2>2. next_pid' \in 1..MaxPid + 1
    BY KernelAssumption DEF SpawnReady, CoreInv, TypeOK
  <2>3. process_table' \in SUBSET (1..next_pid' - 1)
    <3>1. next_pid \in Nat /\ next_pid >= 1 /\ next_pid' = next_pid + 1
      BY KernelAssumption DEF SpawnReady, CoreInv, TypeOK
    <3>2. process_table \in SUBSET (1..next_pid - 1)
      BY DEF CoreInv, TypeOK
    <3> QED
      BY <3>1, <3>2 DEF SpawnReady
  <2>4. heap_free' \in Nat
    BY DEF SpawnReady, CoreInv, TypeOK, SpawnBlocks
  <2>5. message_buffer' \in [Pids -> {"NULL", "user"}]
    BY DEF SpawnReady, CoreInv, TypeOK
  <2>6. message_queue' \in [Pids -> Seq(Nat)]
    <3>1. <<>> \in Seq(Nat)
      OBVIOUS
    <3> QED
      BY <3>1 DEF SpawnReady, CoreInv, TypeOK
  <2>7. port_table' \in [Ports -> 0..next_pid' - 1]
    <3>1. next_pid \in Nat /\ next_pid' = next_pid + 1
      BY KernelAssumption DEF SpawnReady, CoreInv, TypeOK
    <3>2. 0..next_pid - 1 \subseteq 0..next_pid' - 1
      BY <3>1
    <3>3. port_table \in [Ports -> 0..next_pid - 1] /\ port_table' = port_table
      BY DEF SpawnReady, CoreInv, TypeOK
    <3> QED
      BY <3>2, <3>3
  <2> QED
    BY <2>1, <2>2, <2>3, <2>4, <2>5, <2>6, <2>7, <1>2, <1>4
    DEF SpawnReady, CoreInv, TypeOK, histories
<1>8. ActiveIsLive'
  BY <1>1, <1>3, <1>4 DEF SpawnReady, CoreInv, ActiveIsLive
<1> QED
  BY <1>6, <1>7, <1>8 DEF CoreInv, ReadyExact, Holds

\* Actions that leave the scheduler, the table and the states alone.
LEMMA CoreKept ==
  ASSUME CoreInv, TypeOK', UNCHANGED <<sched, process_table, state>>
  PROVE  CoreInv'
BY DEF CoreInv, ReadyExact, ActiveIsLive, Runnable, sched

\* The bookkeeping of an accepted message keeps its type.
LEMMA AcceptType ==
  ASSUME TypeOK, NEW to \in Pids, Accept(to)
  PROVE  /\ sends' \in Nat
         /\ accepted' \in [Pids -> Seq(Nat)]
<1>1. sends + 1 \in Nat /\ accepted[to] \in Seq(Nat)
  BY DEF TypeOK
<1>2. Append(accepted[to], sends + 1) \in Seq(Nat)
  BY <1>1
<1> QED
  BY <1>1, <1>2 DEF Accept, TypeOK

\* A direct delivery makes the recipient, which was blocked, ready.
LEMMA CoreSendMessage ==
  ASSUME CoreInv, NEW to \in process_table, active_process # NULL,
         kernel_send_message(to)
  PROVE  CoreInv'
<1>1. /\ Runnable \in SUBSET Pids
      /\ Holds(priority_queue, Runnable)
      /\ process_table \in SUBSET Pids
  BY QueueOfCore
<1>2. state[to] = "PROCESS_REQUESTING"
  BY DEF kernel_send_message, Deliver, Unblock, Waiting
<1>3. to \in Pids /\ to \notin Runnable /\ to # active_process
  BY <1>1, <1>2 DEF Runnable, CoreInv, ActiveIsLive
<1>4. /\ state' \in [Pids -> States]
      /\ state'[to] = "PROCESS_ACTIVE"
      /\ \A p \in Pids \ {to} : state'[p] = state[p]
  BY <1>3 DEF kernel_send_message, Deliver, Unblock, CoreInv, TypeOK, States
<1>5. Runnable' = Runnable \cup {to}
  BY <1>1, <1>3, <1>4 DEF kernel_send_message, Deliver, Unblock, Runnable
<1>6. Holds(priority_queue', Runnable')
  BY <1>1, <1>3, <1>5, HoldsInsert DEF kernel_send_message, Deliver, Unblock
<1>7. TypeOK'
  <2>1. priority_queue' \in [held : [Pids -> Nat], size : Nat]
    BY <1>6 DEF Holds
  <2>2. sends' \in Nat /\ accepted' \in [Pids -> Seq(Nat)]
    BY <1>3, AcceptType DEF kernel_send_message, Deliver, Unblock, CoreInv
  <2>3. received' \in [Pids -> Seq(Nat)]
    <3>1. sends + 1 \in Nat /\ received[to] \in Seq(Nat)
      BY <1>3 DEF CoreInv, TypeOK
    <3>2. Append(received[to], sends + 1) \in Seq(Nat)
      BY <3>1
    <3> QED
      BY <1>3, <3>2 DEF kernel_send_message, Deliver, Unblock, CoreInv, TypeOK
  <2>4. message_buffer' \in [Pids -> {"NULL", "user"}]
    BY DEF kernel_send_message, Deliver, Unblock, CoreInv, TypeOK
  <2> QED
    BY <2>1, <2>2, <2>3, <2>4, <1>4 DEF kernel_send_message, Deliver, Unblock, CoreInv, TypeOK
<1>8. ActiveIsLive'
  BY <1>1, <1>3, <1>4 DEF kernel_send_message, Deliver, Unblock, CoreInv, ActiveIsLive
<1> QED
  BY <1>6, <1>7, <1>8 DEF CoreInv, ReadyExact, Holds

LEMMA CoreQueueMessage ==
  ASSUME CoreInv, NEW to \in process_table, kernel_queue_message(to)
  PROVE  CoreInv'
<1>1. to \in Pids
  BY QueueOfCore
<1>2. TypeOK'
  <2>1. CASE /\ heap_free = 0
             /\ UNCHANGED <<heap_free, message_queue, histories>>
    BY <2>1 DEF kernel_queue_message, queue_insert, CoreInv, TypeOK, histories
  <2>2. CASE /\ heap_free = 1
             /\ Accept(to)
             /\ heap_free' = 0
             /\ dropped' = [dropped EXCEPT ![to] = @ + 1]
             /\ UNCHANGED <<message_queue, received>>
    <3>1. sends' \in Nat /\ accepted' \in [Pids -> Seq(Nat)]
      BY <1>1, <2>2, AcceptType DEF CoreInv
    <3>2. dropped' \in [Pids -> Nat]
      <4>1. dropped \in [Pids -> Nat]
        BY DEF CoreInv, TypeOK
      <4>2. dropped[to] + 1 \in Nat
        BY <1>1, <4>1
      <4> QED
        BY <2>2, <4>1, <4>2
    <3> QED
      BY <3>1, <3>2, <2>2 DEF kernel_queue_message, queue_insert, CoreInv, TypeOK
  <2>3. CASE /\ heap_free >= MessageBlocks
             /\ Accept(to)
             /\ heap_free' = heap_free - MessageBlocks
             /\ message_queue' = [message_queue EXCEPT ![to] = Append(@, sends + 1)]
             /\ UNCHANGED <<received, dropped>>
    <3>1. sends' \in Nat /\ accepted' \in [Pids -> Seq(Nat)]
      BY <1>1, <2>3, AcceptType DEF CoreInv
    <3>2. message_queue' \in [Pids -> Seq(Nat)]
      <4>1. sends + 1 \in Nat /\ message_queue[to] \in Seq(Nat)
        BY <1>1 DEF CoreInv, TypeOK
      <4>2. Append(message_queue[to], sends + 1) \in Seq(Nat)
        BY <4>1
      <4> QED
        BY <1>1, <2>3, <4>2 DEF CoreInv, TypeOK
    <3>3. heap_free' \in Nat
      BY <2>3 DEF CoreInv, TypeOK, MessageBlocks
    <3> QED
      BY <3>1, <3>2, <3>3, <2>3 DEF kernel_queue_message, queue_insert, CoreInv, TypeOK
  <2> QED
    BY <2>1, <2>2, <2>3 DEF kernel_queue_message, queue_insert
<1> QED
  BY <1>2, CoreKept DEF kernel_queue_message, queue_insert, sched

LEMMA CoreReceiveQueued ==
  ASSUME CoreInv, OwnAddressSpace, mode = "running", active_process # NULL,
         NEW buffer, ReceiveQueued(buffer)
  PROVE  CoreInv'
<1>1. CASE buffer = "NULL" /\ Halt("fault")
  BY <1>1, CoreHalt DEF Halted
<1>2. CASE buffer # "NULL"
  <2>1. active_process \in Pids /\ cr3 = active_process
    BY DEF CoreInv, TypeOK, OwnAddressSpace
  <2>2. message_queue[active_process] \in Seq(Nat) /\ message_queue[active_process] # <<>>
    BY <2>1 DEF ReceiveQueued, NothingQueued, queue_get_next, CoreInv, TypeOK
  <2>3. /\ Head(message_queue[active_process]) \in Nat
        /\ Tail(message_queue[active_process]) \in Seq(Nat)
    BY <2>2
  <2>4. received' \in [Pids -> Seq(Nat)]
    <3>1. received[cr3] \in Seq(Nat)
      BY <2>1 DEF CoreInv, TypeOK
    <3>2. Append(received[cr3], Head(message_queue[active_process])) \in Seq(Nat)
      BY <3>1, <2>3
    <3> QED
      BY <1>2, <2>1, <3>2 DEF ReceiveQueued, NothingQueued, queue_get_next, CoreInv, TypeOK
  <2>5. message_queue' \in [Pids -> Seq(Nat)]
    BY <1>2, <2>1, <2>3 DEF ReceiveQueued, NothingQueued, queue_get_next, CoreInv, TypeOK
  <2>6. heap_free' \in Nat
    BY <1>2 DEF ReceiveQueued, NothingQueued, queue_get_next, CoreInv, TypeOK, MessageBlocks
  <2>7. TypeOK'
    BY <1>2, <2>4, <2>5, <2>6 DEF ReceiveQueued, NothingQueued, queue_get_next, CoreInv, TypeOK, sched
  <2> QED
    BY <1>2, <2>7, CoreKept DEF ReceiveQueued, NothingQueued, queue_get_next
<1> QED
  BY <1>1, <1>2 DEF ReceiveQueued, NothingQueued, queue_get_next

\* The caller leaves the runnable processes and another one is entered.
LEMMA CoreReceiveBlock ==
  ASSUME CoreInv, active_process # NULL, NEW buffer \in {"NULL", "user"},
         ReceiveBlock(buffer)
  PROVE  CoreInv'
<1>1. /\ Runnable \in SUBSET Pids
      /\ Holds(priority_queue, Runnable)
      /\ process_table \in SUBSET Pids
  BY QueueOfCore
<1>2. active_process \in Pids
  BY DEF CoreInv, TypeOK
<1>3. /\ state' \in [Pids -> States]
      /\ state'[active_process] = "PROCESS_REQUESTING"
      /\ \A p \in Pids \ {active_process} : state'[p] = state[p]
  BY <1>2 DEF ReceiveBlock, NothingQueued, CoreInv, TypeOK, States
<1>4. Runnable \cup ({NULL} \ {NULL}) = Runnable
  OBVIOUS
<1>5. \/ /\ Runnable = {}
         /\ active_process' = NULL
         /\ Holds(priority_queue', {})
         /\ mode' = "panic_idle"
         /\ cr3' = cr3
      \/ /\ active_process' \in Runnable
         /\ Holds(priority_queue', Runnable \ {active_process'})
         /\ mode' = "running"
         /\ cr3' = active_process'
  <2>1. kernel_advance_scheduler(NULL, priority_queue)
    BY DEF ReceiveBlock, NothingQueued
  <2> QED
    BY <1>1, <1>4, <2>1, AdvanceTakesOne
<1>6. Runnable' = Runnable \ {active_process'}
  <2>1. process_table' = process_table
    BY DEF ReceiveBlock, NothingQueued
  <2> QED
    BY <2>1, <1>1, <1>3 DEF Runnable
<1>7. Holds(priority_queue', Runnable')
  BY <1>5, <1>6
<1>8. ActiveIsLive'
  BY <1>1, <1>3, <1>5 DEF ReceiveBlock, NothingQueued, ActiveIsLive, Runnable
<1>9. TypeOK'
  <2>1. priority_queue' \in [held : [Pids -> Nat], size : Nat]
    BY <1>7 DEF Holds
  <2>2. /\ mode' \in Halted \cup {"boot", "running"}
        /\ active_process' \in Pids \cup {NULL}
        /\ cr3' \in Pids \cup {NULL}
    BY <1>1, <1>5 DEF CoreInv, TypeOK, Halted
  <2>3. message_buffer' \in [Pids -> {"NULL", "user"}]
    BY DEF ReceiveBlock, NothingQueued, CoreInv, TypeOK
  <2> QED
    BY <1>3, <2>1, <2>2, <2>3 DEF ReceiveBlock, NothingQueued, CoreInv, TypeOK, histories
<1> QED
  BY <1>7, <1>8, <1>9 DEF CoreInv, ReadyExact, Holds

\* Termination takes the process out of the table and the queue.
LEMMA CoreTerminate ==
  ASSUME CoreInv, NEW pid \in process_table, kernel_terminate_process(pid)
  PROVE  CoreInv'
<1>1. /\ Runnable \in SUBSET Pids
      /\ Holds(priority_queue, Runnable)
      /\ process_table \in SUBSET Pids
  BY QueueOfCore
<1>2. pid \in Pids /\ pid # NULL
  BY <1>1, NullIsNoProcess
<1>3. Runnable' = Runnable \ {pid}
  BY <1>1, <1>2, NullIsNoProcess DEF kernel_terminate_process, ActiveWithout, BlocksOf, Runnable
<1>4. Holds(priority_queue', Runnable')
  BY <1>1, <1>2, <1>3, HoldsRemove DEF kernel_terminate_process, ActiveWithout, BlocksOf
<1>5. TypeOK'
  <2>1. priority_queue' \in [held : [Pids -> Nat], size : Nat]
    BY <1>4 DEF Holds
  <2>2. message_queue' \in [Pids -> Seq(Nat)]
    <3>1. <<>> \in Seq(Nat)
      OBVIOUS
    <3> QED
      BY <3>1 DEF kernel_terminate_process, ActiveWithout, BlocksOf, CoreInv, TypeOK
  <2>3. heap_free' \in Nat
    <3>1. message_queue[pid] \in Seq(Nat)
      BY <1>2 DEF CoreInv, TypeOK
    <3>2. Len(message_queue[pid]) \in Nat
      BY <3>1
    <3>3. heap_free \in Nat
      BY DEF CoreInv, TypeOK
    <3>4. heap_free' = heap_free + (3 + 2 * Len(message_queue[pid]))
      BY DEF kernel_terminate_process, ActiveWithout, BlocksOf, SpawnBlocks, MessageBlocks
    <3>5. \A h, n \in Nat : h + (3 + 2 * n) \in Nat
      OBVIOUS
    <3> QED
      BY <3>2, <3>3, <3>4, <3>5
  <2>4. process_table' \in SUBSET (1..next_pid - 1)
    BY DEF kernel_terminate_process, ActiveWithout, BlocksOf, CoreInv, TypeOK
  <2>5. active_process' \in Pids \cup {NULL}
    BY DEF kernel_terminate_process, ActiveWithout, BlocksOf, CoreInv, TypeOK
  <2> QED
    BY <2>1, <2>2, <2>3, <2>4, <2>5
    DEF kernel_terminate_process, ActiveWithout, BlocksOf, CoreInv, TypeOK, histories
<1>6. ActiveIsLive'
  BY DEF kernel_terminate_process, ActiveWithout, BlocksOf, CoreInv, ActiveIsLive
<1> QED
  BY <1>4, <1>5, <1>6 DEF CoreInv, ReadyExact, Holds

\* What is common to opening and closing a port.
PortOpened(id) ==
  /\ port_table[id] = NULL
  /\ heap_free >= PortBlocks
  /\ heap_free' = heap_free - PortBlocks
  /\ port_table' = [port_table EXCEPT ![id] = active_process]

PortClosed(id) ==
  /\ port_table[id] # NULL
  /\ heap_free' = heap_free + PortBlocks
  /\ port_table' = [port_table EXCEPT ![id] = NULL]

PortStep ==
  /\ \E id \in Ports : PortOpened(id) \/ PortClosed(id)
  /\ port_table' \in [Ports -> 0..next_pid - 1]
  /\ heap_free' \in Nat
  /\ UNCHANGED <<sched, next_pid, process_table, state, message_buffer,
                 message_queue, histories>>

LEMMA CorePort ==
  ASSUME CoreInv, PortStep
  PROVE  CoreInv'
<1>1. TypeOK'
  BY DEF PortStep, CoreInv, TypeOK, sched, histories
<1> QED
  BY <1>1, CoreKept DEF PortStep

(***************************************************************************)
(* The steps of Next, with the early returns, which change nothing, and    *)
(* the ways to halt collected.                                             *)
(***************************************************************************)

Calling == mode = "running" /\ active_process # NULL

Reschedule ==
  /\ mode \in {"boot", "running"}
  /\ kernel_advance_scheduler(active_process, priority_queue)
  /\ UNCHANGED <<next_pid, process_table, state, message_buffer, message_queue,
                 port_table, heap_free, histories>>

Step ==
  \/ UNCHANGED vars
  \/ Halt("fault")
  \/ Halt("panic_load")
  \/ mode = "boot" /\ next_pid <= MaxPid /\ SpawnReady
  \/ Reschedule
  \/ Calling /\ \E to \in process_table : kernel_send_message(to)
  \/ Calling /\ \E to \in process_table : kernel_queue_message(to)
  \/ Calling /\ \E buffer \in {"NULL", "user"} : ReceiveQueued(buffer)
  \/ Calling /\ \E buffer \in {"NULL", "user"} : ReceiveBlock(buffer)
  \/ Calling /\ PortStep
  \/ Calling /\ \E pid \in process_table : kernel_terminate_process(pid)

\* What a system call does.
SyscallStep ==
  \/ UNCHANGED vars
  \/ Halt("fault")
  \/ Calling /\ \E to \in process_table : kernel_send_message(to)
  \/ Calling /\ \E to \in process_table : kernel_queue_message(to)
  \/ Calling /\ \E buffer \in {"NULL", "user"} : ReceiveQueued(buffer)
  \/ Calling /\ \E buffer \in {"NULL", "user"} : ReceiveBlock(buffer)
  \/ Calling /\ PortStep
  \/ Calling /\ \E pid \in process_table : kernel_terminate_process(pid)

LEMMA SendToStep ==
  ASSUME Calling, NEW to, SendTo(to)
  PROVE  SyscallStep
BY DEF SendTo, MessageFault, SyscallStep

LEMMA SyscallIsStep ==
  ASSUME CoreInv,
         \/ SyscallOfTerminated \/ send \/ receive_message
         \/ kernel_create_port \/ kernel_remove_port
         \/ terminate_self \/ TerminateOther
  PROVE  SyscallStep
<1>1. CASE SyscallOfTerminated
  BY <1>1 DEF SyscallOfTerminated, SyscallStep
<1>2. CASE send
  <2>1. Calling
    BY <1>2 DEF send, do_syscall, Running, Calling
  <2>2. UNCHANGED vars => SyscallStep
    BY DEF SyscallStep
  <2> QED
    BY <1>2, <2>1, <2>2, SendToStep DEF send
<1>3. CASE receive_message
  <2>1. Calling
    BY <1>3 DEF receive_message, do_syscall, Running, Calling
  <2> QED
    BY <1>3, <2>1 DEF receive_message, SyscallStep
<1>4. CASE kernel_create_port
  <2>1. Calling
    BY <1>4 DEF kernel_create_port, do_syscall, Running, Calling
  <2>2. active_process \in 0..next_pid - 1
    <3>1. active_process \in 1..next_pid - 1 /\ next_pid \in 1..MaxPid + 1
      BY <2>1 DEF CoreInv, TypeOK, ActiveIsLive, Calling
    <3> QED
      BY <3>1, KernelAssumption
  <2>3. PICK id \in Ports :
          \/ UNCHANGED vars
          \/ Halt("fault")
          \/ /\ PortOpened(id)
             /\ UNCHANGED <<sched, next_pid, process_table, state,
                            message_buffer, message_queue, histories>>
    BY <1>4 DEF kernel_create_port, PortOpened
  <2>4. UNCHANGED vars \/ Halt("fault") \/ PortStep
    <3>1. heap_free \in Nat /\ port_table \in [Ports -> 0..next_pid - 1]
      BY DEF CoreInv, TypeOK
    <3> QED
      BY <2>2, <2>3, <3>1 DEF PortStep, PortOpened, PortBlocks
  <2> QED
    BY <2>1, <2>4 DEF SyscallStep
<1>5. CASE kernel_remove_port
  <2>1. Calling
    BY <1>5 DEF kernel_remove_port, MayClose, do_syscall, Running, Calling
  <2>2. PICK id \in Ports :
          \/ UNCHANGED vars
          \/ /\ PortClosed(id)
             /\ UNCHANGED <<sched, next_pid, process_table, state,
                            message_buffer, message_queue, histories>>
    BY <1>5, <2>1 DEF kernel_remove_port, MayClose, PortClosed, Calling
  <2>3. UNCHANGED vars \/ PortStep
    <3>0. NULL \in 0..next_pid - 1
      BY KernelAssumption DEF NULL, CoreInv, TypeOK
    <3>1. heap_free \in Nat /\ port_table \in [Ports -> 0..next_pid - 1]
      BY DEF CoreInv, TypeOK
    <3> QED
      BY <2>2, <3>0, <3>1 DEF PortStep, PortClosed, PortBlocks
  <2> QED
    BY <2>1, <2>3 DEF SyscallStep
<1>6. CASE terminate_self
  <2>1. Calling
    BY <1>6 DEF terminate_self, do_syscall, Running, Calling
  <2>2. active_process \in process_table
    BY <2>1 DEF CoreInv, ActiveIsLive, Calling
  <2> QED
    BY <1>6, <2>1, <2>2 DEF terminate_self, SyscallStep
<1>7. CASE TerminateOther
  <2>1. Calling
    BY <1>7 DEF TerminateOther, do_syscall, Running, Calling
  <2> QED
    BY <1>7, <2>1 DEF TerminateOther, SyscallStep
<1> QED
  BY <1>1, <1>2, <1>3, <1>4, <1>5, <1>6, <1>7

LEMMA NextIsStep ==
  ASSUME CoreInv, [Next]_vars
  PROVE  Step
<1>1. CASE kernel_load_module
  BY <1>1 DEF kernel_load_module, kernel_spawn_process, Step
<1>2. CASE EnterFirstProcess
  BY <1>2 DEF EnterFirstProcess, Reschedule, Step
<1>3. CASE isr_preempt
  BY <1>3 DEF isr_preempt, Running, Reschedule, Step
<1>4. CASE \/ SyscallOfTerminated \/ send \/ receive_message
           \/ kernel_create_port \/ kernel_remove_port
           \/ terminate_self \/ TerminateOther
  BY <1>4, SyscallIsStep DEF SyscallStep, Step
<1>5. CASE Stopped \/ UNCHANGED vars
  BY <1>5 DEF Stopped, Step
<1> QED
  BY <1>1, <1>2, <1>3, <1>4, <1>5 DEF Next

(***************************************************************************)
(* The invariants, one lemma for each                                      *)
(***************************************************************************)

LEMMA CoreStep ==
  ASSUME CoreInv, OwnAddressSpace, Step
  PROVE  CoreInv'
<1>1. CASE UNCHANGED vars
  BY <1>1, CoreStutter
<1>2. CASE Halt("fault") \/ Halt("panic_load")
  BY <1>2, CoreHalt DEF Halted
<1>3. CASE mode = "boot" /\ next_pid <= MaxPid /\ SpawnReady
  BY <1>3, CoreSpawn
<1>4. CASE Reschedule
  BY <1>4, CoreAdvance DEF Reschedule
<1>5. CASE Calling /\ \E to \in process_table : kernel_send_message(to)
  BY <1>5, CoreSendMessage DEF Calling
<1>6. CASE Calling /\ \E to \in process_table : kernel_queue_message(to)
  BY <1>6, CoreQueueMessage
<1>7. CASE Calling /\ \E buffer \in {"NULL", "user"} : ReceiveQueued(buffer)
  BY <1>7, CoreReceiveQueued DEF Calling
<1>8. CASE Calling /\ \E buffer \in {"NULL", "user"} : ReceiveBlock(buffer)
  BY <1>8, CoreReceiveBlock DEF Calling
<1>9. CASE Calling /\ PortStep
  BY <1>9, CorePort
<1>10. CASE Calling /\ \E pid \in process_table : kernel_terminate_process(pid)
  BY <1>10, CoreTerminate
<1> QED
  BY <1>1, <1>2, <1>3, <1>4, <1>5, <1>6, <1>7, <1>8, <1>9, <1>10 DEF Step

LEMMA SpaceStep ==
  ASSUME CoreInv, OwnAddressSpace, Step
  PROVE  OwnAddressSpace'
<1>1. CASE UNCHANGED vars
  BY <1>1 DEF OwnAddressSpace, vars
<1>2. CASE Halt("fault") \/ Halt("panic_load")
  BY <1>2 DEF OwnAddressSpace, Halt
<1>3. CASE mode = "boot" /\ next_pid <= MaxPid /\ SpawnReady
  BY <1>3 DEF OwnAddressSpace, SpawnReady
<1>4. CASE Reschedule
  BY <1>4 DEF OwnAddressSpace, Reschedule, kernel_advance_scheduler, NoProcessPanic
<1>5. CASE Calling /\ \E to \in process_table : kernel_send_message(to)
  BY <1>5 DEF OwnAddressSpace, kernel_send_message, Deliver, Unblock
<1>6. CASE Calling /\ \E to \in process_table : kernel_queue_message(to)
  BY <1>6 DEF OwnAddressSpace, kernel_queue_message, queue_insert
<1>7. CASE Calling /\ \E buffer \in {"NULL", "user"} : ReceiveQueued(buffer)
  BY <1>7 DEF OwnAddressSpace, ReceiveQueued, NothingQueued, queue_get_next, Halt, sched
<1>8. CASE Calling /\ \E buffer \in {"NULL", "user"} : ReceiveBlock(buffer)
  BY <1>8 DEF OwnAddressSpace, ReceiveBlock, NothingQueued, kernel_advance_scheduler, NoProcessPanic
<1>9. CASE Calling /\ PortStep
  BY <1>9 DEF OwnAddressSpace, PortStep, sched
<1>10. CASE Calling /\ \E pid \in process_table : kernel_terminate_process(pid)
  BY <1>10 DEF OwnAddressSpace, kernel_terminate_process, ActiveWithout, BlocksOf
<1> QED
  BY <1>1, <1>2, <1>3, <1>4, <1>5, <1>6, <1>7, <1>8, <1>9, <1>10 DEF Step

LEMMA WakeupStep ==
  ASSUME CoreInv, OwnAddressSpace, NoLostWakeup, Step
  PROVE  NoLostWakeup'
<1> USE DEF NoLostWakeup, Waiting
<1>0. /\ process_table \in SUBSET Pids
      /\ message_queue \in [Pids -> Seq(Nat)]
      /\ state \in [Pids -> States]
      /\ message_buffer \in [Pids -> {"NULL", "user"}]
  BY QueueOfCore DEF CoreInv, TypeOK
<1>1. CASE UNCHANGED vars
  BY <1>1 DEF vars
<1>2. CASE Halt("fault") \/ Halt("panic_load")
  BY <1>2 DEF Halt
<1>3. CASE mode = "boot" /\ next_pid <= MaxPid /\ SpawnReady
  <2>1. next_pid \in Pids
    BY <1>3, KernelAssumption DEF CoreInv, TypeOK, Pids
  <2> QED
    BY <1>0, <1>3, <2>1 DEF SpawnReady
<1>4. CASE Reschedule
  BY <1>4 DEF Reschedule
<1>5. CASE Calling /\ \E to \in process_table : kernel_send_message(to)
  BY <1>0, <1>5 DEF kernel_send_message, Deliver, Unblock
<1>6. CASE Calling /\ \E to \in process_table : kernel_queue_message(to)
  <2>1. PICK to \in process_table : kernel_queue_message(to)
    BY <1>6
  <2>2. /\ ~(message_buffer[to] # "NULL" /\ state[to] = "PROCESS_REQUESTING")
        /\ UNCHANGED <<process_table, state, message_buffer>>
        /\ \A p \in Pids \ {to} : message_queue'[p] = message_queue[p]
    BY <1>0, <2>1 DEF kernel_queue_message, queue_insert
  <2> QED
    BY <1>0, <2>2
<1>7. CASE Calling /\ \E buffer \in {"NULL", "user"} : ReceiveQueued(buffer)
  <2>1. state[active_process] = "PROCESS_ACTIVE"
    BY <1>7 DEF Calling, CoreInv, ActiveIsLive
  <2> QED
    BY <1>0, <1>7, <2>1 DEF ReceiveQueued, NothingQueued, queue_get_next, Halt
<1>8. CASE Calling /\ \E buffer \in {"NULL", "user"} : ReceiveBlock(buffer)
  BY <1>0, <1>8 DEF ReceiveBlock, NothingQueued
<1>9. CASE Calling /\ PortStep
  BY <1>9 DEF PortStep
<1>10. CASE Calling /\ \E pid \in process_table : kernel_terminate_process(pid)
  BY <1>0, <1>10 DEF kernel_terminate_process, ActiveWithout, BlocksOf
<1> QED
  BY <1>1, <1>2, <1>3, <1>4, <1>5, <1>6, <1>7, <1>8, <1>9, <1>10 DEF Step

\* A step that ends in panic_idle left no process runnable.
LEMMA IdleStep ==
  ASSUME CoreInv, NoLostWakeup, NoLostWakeup', CoreInv', IdleMeansDeadlock, Step
  PROVE  IdleMeansDeadlock'
<1>0. SUFFICES ASSUME mode' = "panic_idle", mode # "panic_idle"
               PROVE  Runnable' = {} /\ active_process' = NULL
  <2>1. CASE mode' # "panic_idle"
    BY <2>1 DEF IdleMeansDeadlock
  <2>2. CASE mode' = "panic_idle" /\ mode = "panic_idle"
    BY <2>2 DEF Step, Halt, SpawnReady, Reschedule, Calling, IdleMeansDeadlock, vars
  <2>3. CASE mode' = "panic_idle" /\ mode # "panic_idle"
    <3>1. Runnable' = {} /\ active_process' = NULL
      BY <2>3, <1>0
    <3>2. process_table' \in SUBSET Pids /\ state' \in [Pids -> States]
      BY TableOfCorePrimed DEF CoreInv, TypeOK
    <3>3. \A p \in process_table' : state'[p] = "PROCESS_REQUESTING"
      BY <3>1, <3>2, NullIsNoProcess DEF Runnable, States
    <3>4. message_buffer' \in [Pids -> {"NULL", "user"}]
      BY DEF CoreInv, TypeOK
    <3> QED
      BY <3>2, <3>3, <3>4 DEF NoLostWakeup, Waiting, IdleMeansDeadlock
  <2> QED
    BY <2>1, <2>2, <2>3
<1>1. priority_queue'.size = 0 /\ active_process' = NULL
  <2>1. CASE UNCHANGED vars
    BY <2>1, <1>0 DEF vars
  <2>2. CASE Reschedule
    BY <2>2, <1>0 DEF Reschedule, kernel_advance_scheduler, NoProcessPanic
  <2>3. CASE \E buffer \in {"NULL", "user"} : ReceiveBlock(buffer)
    BY <2>3, <1>0 DEF ReceiveBlock, NothingQueued, kernel_advance_scheduler, NoProcessPanic
  <2>4. CASE \/ Halt("fault")
             \/ Halt("panic_load")
             \/ SpawnReady
             \/ \E to \in process_table : kernel_send_message(to) \/ kernel_queue_message(to)
             \/ \E buffer \in {"NULL", "user"} : ReceiveQueued(buffer)
             \/ PortStep
             \/ \E pid \in process_table : kernel_terminate_process(pid)
    BY <2>4, <1>0
    DEF Halt, SpawnReady, kernel_send_message, Deliver, Unblock, kernel_queue_message, queue_insert,
        ReceiveQueued, NothingQueued, queue_get_next, PortStep, kernel_terminate_process, ActiveWithout, BlocksOf, sched
  <2> QED
    BY <2>1, <2>2, <2>3, <2>4 DEF Step
<1>2. Runnable' \in SUBSET Pids
  BY TableOfCorePrimed
<1>3. Cardinality(Runnable') = 0
  BY <1>1 DEF CoreInv, ReadyExact
<1> QED
  BY <1>1, <1>2, <1>3, ProcessesFit, FS_EmptySet

(***************************************************************************)
(* Mailboxes: the accepted, received, queued and dropped messages of one   *)
(* process                                                                 *)
(***************************************************************************)

Mail(a, r, q, d) ==
  /\ d = 0 => a = r \o q
  /\ Len(a) = Len(r) + Len(q) + d

LEMMA AppendToConcat ==
  ASSUME NEW r \in Seq(Nat), NEW q \in Seq(Nat), NEW m \in Nat
  PROVE  r \o Append(q, m) = Append(r \o q, m)
<1>1. <<m>> \in Seq(Nat) /\ r \o q \in Seq(Nat)
  BY ConcatProperties
<1>2. Append(q, m) = q \o <<m>> /\ Append(r \o q, m) = (r \o q) \o <<m>>
  BY <1>1, AppendIsConcat
<1> QED
  BY <1>1, <1>2, ConcatAssociative

LEMMA HeadMoves ==
  ASSUME NEW r \in Seq(Nat), NEW q \in Seq(Nat), q # <<>>
  PROVE  Append(r, Head(q)) \o Tail(q) = r \o q
<1>1. /\ Head(q) \in Nat
      /\ Tail(q) \in Seq(Nat)
      /\ <<Head(q)>> \in Seq(Nat)
  BY HeadTailProperties
<1>2. Append(r, Head(q)) = r \o <<Head(q)>>
  BY <1>1, AppendIsConcat
<1>3. <<Head(q)>> \o Tail(q) = q
  <2>1. Len(q) \in Nat \ {0} /\ q \in [1..Len(q) -> Nat]
    BY EmptySeq, LenProperties
  <2>2. /\ <<Head(q)>> \o Tail(q) \in Seq(Nat)
        /\ Len(<<Head(q)>>) = 1
        /\ Len(Tail(q)) = Len(q) - 1
        /\ \A i \in 1..Len(Tail(q)) : Tail(q)[i] = q[i + 1]
    BY <1>1, ConcatProperties, HeadTailProperties
  <2>3. /\ Len(<<Head(q)>> \o Tail(q)) = 1 + Len(Tail(q))
        /\ \A i \in 1..1 + Len(Tail(q)) :
             (<<Head(q)>> \o Tail(q))[i] =
                IF i <= 1 THEN <<Head(q)>>[i] ELSE Tail(q)[i - 1]
    BY <1>1, <2>2, ConcatProperties
  <2>4. \A i \in 1..Len(q) : (<<Head(q)>> \o Tail(q))[i] = q[i]
    <3> SUFFICES ASSUME NEW i \in 1..Len(q)
                 PROVE  (<<Head(q)>> \o Tail(q))[i] = q[i]
      OBVIOUS
    <3>1. CASE i = 1
      BY <3>1, <2>1, <2>2, <2>3
    <3>2. CASE i # 1
      BY <3>2, <2>1, <2>2, <2>3
    <3> QED
      BY <3>1, <3>2
  <2> QED
    BY <2>1, <2>2, <2>3, <2>4, SeqEqual
<1>4. (r \o <<Head(q)>>) \o Tail(q) = r \o (<<Head(q)>> \o Tail(q))
  BY <1>1, ConcatAssociative
<1> QED
  BY <1>2, <1>3, <1>4, Zenon

LEMMA MailEmpty == Mail(<<>>, <<>>, <<>>, 0)
BY DEF Mail

\* The four things that can happen to a message.
LEMMA MailSteps ==
  ASSUME NEW a \in Seq(Nat), NEW r \in Seq(Nat), NEW q \in Seq(Nat), NEW d \in Nat,
         NEW m \in Nat, Mail(a, r, q, d)
  PROVE  /\ q = <<>> => Mail(Append(a, m), Append(r, m), q, d)
         /\ Mail(Append(a, m), r, Append(q, m), d)
         /\ Mail(Append(a, m), r, q, d + 1)
         /\ q # <<>> => Mail(a, Append(r, Head(q)), Tail(q), d)
<1>1. /\ Len(a) \in Nat /\ Len(Append(a, m)) = Len(a) + 1
      /\ Len(r) \in Nat /\ Len(Append(r, m)) = Len(r) + 1
      /\ Len(q) \in Nat /\ Len(Append(q, m)) = Len(q) + 1
  BY AppendProperties, LenProperties
<1>2. q = <<>> => Mail(Append(a, m), Append(r, m), q, d)
  <2>1. r \o <<>> = r /\ Append(r, m) \o <<>> = Append(r, m)
    BY ConcatEmptySeq, AppendProperties
  <2> QED
    BY <1>1, <2>1 DEF Mail
<1>3. Mail(Append(a, m), r, Append(q, m), d)
  <2>1. d = 0 => Append(a, m) = r \o Append(q, m)
    <3>1. r \o Append(q, m) = Append(r \o q, m)
      BY AppendToConcat
    <3> QED
      BY <3>1, Zenon DEF Mail
  <2>2. Len(Append(a, m)) = Len(r) + Len(Append(q, m)) + d
    BY <1>1 DEF Mail
  <2> QED
    BY <2>1, <2>2, Zenon DEF Mail
<1>4. Mail(Append(a, m), r, q, d + 1)
  BY <1>1 DEF Mail
<1>5. q # <<>> => Mail(a, Append(r, Head(q)), Tail(q), d)
  <2> SUFFICES ASSUME q # <<>>
               PROVE  Mail(a, Append(r, Head(q)), Tail(q), d)
    OBVIOUS
  <2>1. Head(q) \in Nat /\ Len(Tail(q)) = Len(q) - 1
    BY HeadTailProperties
  <2>2. Len(Append(r, Head(q))) = Len(r) + 1
    BY <2>1, AppendProperties
  <2>3. d = 0 => a = Append(r, Head(q)) \o Tail(q)
    <3>1. Append(r, Head(q)) \o Tail(q) = r \o q
      BY HeadMoves
    <3> QED
      BY <3>1, Zenon DEF Mail
  <2>4. Len(a) = Len(Append(r, Head(q))) + Len(Tail(q)) + d
    BY <1>1, <2>1, <2>2 DEF Mail
  <2> QED
    BY <2>3, <2>4, Zenon DEF Mail
<1> QED
  BY <1>2, <1>3, <1>4, <1>5

\* Pids that are not handed out yet have no messages.
Unborn ==
  \A p \in Pids : p >= next_pid =>
    accepted[p] = <<>> /\ received[p] = <<>> /\ dropped[p] = 0

MailInv == Unborn /\ MailboxFIFO

LEMMA MailTypes ==
  ASSUME CoreInv
  PROVE  /\ process_table \in SUBSET Pids
         /\ sends + 1 \in Nat
         /\ accepted \in [Pids -> Seq(Nat)]
         /\ received \in [Pids -> Seq(Nat)]
         /\ message_queue \in [Pids -> Seq(Nat)]
         /\ dropped \in [Pids -> Nat]
         /\ next_pid \in Nat
         /\ \A p \in process_table : p < next_pid
<1>1. next_pid \in 1..MaxPid + 1 /\ process_table \in SUBSET (1..next_pid - 1)
  BY DEF CoreInv, TypeOK
<1>2. next_pid \in Nat
  BY <1>1, KernelAssumption
<1>3. \A p \in process_table : p < next_pid
  BY <1>1, <1>2
<1>4. sends \in Nat
  BY DEF CoreInv, TypeOK
<1>5. sends + 1 \in Nat
  BY <1>4
<1> QED
  BY <1>2, <1>3, <1>5, QueueOfCore DEF CoreInv, TypeOK

LEMMA MailOf ==
  MailboxFIFO <=> \A p \in process_table :
                    Mail(accepted[p], received[p], message_queue[p], dropped[p])
BY DEF MailboxFIFO, Mail

\* Steps that touch no live process's messages.
LEMMA MailFrame ==
  ASSUME MailInv, process_table' \subseteq process_table,
         UNCHANGED <<next_pid, accepted, received, dropped>>,
         \A p \in process_table' : message_queue'[p] = message_queue[p]
  PROVE  MailInv'
BY DEF MailInv, Unborn, MailboxFIFO

\* Steps that touch the messages of one process p.
LEMMA MailAt ==
  ASSUME CoreInv, MailInv, NEW p \in process_table,
         UNCHANGED <<next_pid, process_table>>,
         \A o \in Pids \ {p} : /\ accepted'[o] = accepted[o]
                               /\ received'[o] = received[o]
                               /\ message_queue'[o] = message_queue[o]
                               /\ dropped'[o] = dropped[o],
         Mail(accepted'[p], received'[p], message_queue'[p], dropped'[p])
  PROVE  MailInv'
<1>1. /\ process_table \in SUBSET Pids
      /\ next_pid \in Nat
      /\ p \in Pids
      /\ p < next_pid
  BY MailTypes
<1>2. p \in Nat
  BY <1>1, KernelAssumption DEF Pids
<1>3. Unborn'
  BY <1>1, <1>2 DEF MailInv, Unborn
<1>4. MailboxFIFO'
  BY <1>1 DEF MailInv, MailboxFIFO, Mail
<1> QED
  BY <1>3, <1>4 DEF MailInv

LEMMA MailSend ==
  ASSUME CoreInv, MailInv, NoLostWakeup, NEW to \in process_table,
         kernel_send_message(to)
  PROVE  MailInv'
<1> DEFINE m == sends + 1
<1>1. /\ to \in Pids
      /\ m \in Nat
      /\ accepted \in [Pids -> Seq(Nat)]
      /\ received \in [Pids -> Seq(Nat)]
      /\ message_queue \in [Pids -> Seq(Nat)]
      /\ dropped \in [Pids -> Nat]
  BY MailTypes
<1>2. /\ accepted' = [accepted EXCEPT ![to] = Append(@, m)]
      /\ received' = [received EXCEPT ![to] = Append(@, m)]
      /\ UNCHANGED <<next_pid, process_table, message_queue, dropped>>
  BY DEF kernel_send_message, Deliver, Unblock, Accept
<1> HIDE DEF m
<1>3. message_queue[to] = <<>>
  BY DEF kernel_send_message, Deliver, Unblock, NoLostWakeup
<1>4. Mail(accepted[to], received[to], message_queue[to], dropped[to])
  BY MailOf DEF MailInv
<1>5. Mail(Append(accepted[to], m), Append(received[to], m), message_queue[to], dropped[to])
  BY <1>1, <1>3, <1>4, MailSteps
<1>6. Mail(accepted'[to], received'[to], message_queue'[to], dropped'[to])
  <2>1. /\ accepted'[to] = Append(accepted[to], m)
        /\ received'[to] = Append(received[to], m)
        /\ message_queue'[to] = message_queue[to]
        /\ dropped'[to] = dropped[to]
    BY <1>1, <1>2
  <2> QED
    BY <1>5, <2>1
<1> QED
  BY <1>1, <1>2, <1>6, MailAt

LEMMA MailQueue ==
  ASSUME CoreInv, MailInv, NEW to \in process_table, kernel_queue_message(to)
  PROVE  MailInv'
<1> DEFINE m == sends + 1
<1>1. /\ to \in Pids
      /\ m \in Nat
      /\ accepted \in [Pids -> Seq(Nat)]
      /\ received \in [Pids -> Seq(Nat)]
      /\ message_queue \in [Pids -> Seq(Nat)]
      /\ dropped \in [Pids -> Nat]
  BY MailTypes
<1>2. Mail(accepted[to], received[to], message_queue[to], dropped[to])
  BY MailOf DEF MailInv
<1>3. UNCHANGED <<next_pid, process_table>>
  BY DEF kernel_queue_message, queue_insert
<1>4. CASE UNCHANGED <<heap_free, message_queue, histories>>
  BY <1>3, <1>4, MailFrame DEF histories
<1>5. CASE /\ accepted' = [accepted EXCEPT ![to] = Append(@, m)]
           /\ dropped' = [dropped EXCEPT ![to] = @ + 1]
           /\ UNCHANGED <<message_queue, received>>
  <2> HIDE DEF m
  <2>1. Mail(Append(accepted[to], m), received[to], message_queue[to], dropped[to] + 1)
    BY <1>1, <1>2, MailSteps
  <2>2. /\ accepted'[to] = Append(accepted[to], m)
        /\ received'[to] = received[to]
        /\ message_queue'[to] = message_queue[to]
        /\ dropped'[to] = dropped[to] + 1
    BY <1>1, <1>5
  <2>3. Mail(accepted'[to], received'[to], message_queue'[to], dropped'[to])
    BY <2>1, <2>2
  <2> QED
    BY <1>1, <1>3, <1>5, <2>3, MailAt
<1>6. CASE /\ accepted' = [accepted EXCEPT ![to] = Append(@, m)]
           /\ message_queue' = [message_queue EXCEPT ![to] = Append(@, m)]
           /\ UNCHANGED <<received, dropped>>
  <2> HIDE DEF m
  <2>1. Mail(Append(accepted[to], m), received[to], Append(message_queue[to], m), dropped[to])
    BY <1>1, <1>2, MailSteps
  <2>2. /\ accepted'[to] = Append(accepted[to], m)
        /\ received'[to] = received[to]
        /\ message_queue'[to] = Append(message_queue[to], m)
        /\ dropped'[to] = dropped[to]
    BY <1>1, <1>6
  <2>3. Mail(accepted'[to], received'[to], message_queue'[to], dropped'[to])
    BY <2>1, <2>2
  <2> QED
    BY <1>1, <1>3, <1>6, <2>3, MailAt
<1> QED
  BY <1>4, <1>5, <1>6 DEF kernel_queue_message, queue_insert, Accept

LEMMA MailReceive ==
  ASSUME CoreInv, MailInv, OwnAddressSpace, Calling, NEW buffer, ReceiveQueued(buffer)
  PROVE  MailInv'
<1> DEFINE p == active_process
           q == message_queue[p]
<1>1. p \in process_table /\ cr3 = p
  BY DEF Calling, CoreInv, ActiveIsLive, OwnAddressSpace
<1>2. /\ p \in Pids
      /\ sends + 1 \in Nat
      /\ accepted \in [Pids -> Seq(Nat)]
      /\ received \in [Pids -> Seq(Nat)]
      /\ message_queue \in [Pids -> Seq(Nat)]
      /\ dropped \in [Pids -> Nat]
  BY <1>1, MailTypes
<1>3. CASE buffer = "NULL" /\ Halt("fault")
  BY <1>3, MailFrame DEF Halt, histories
<1>4. CASE buffer # "NULL"
  <2>1. /\ q # <<>>
        /\ received' = [received EXCEPT ![p] = Append(@, Head(q))]
        /\ message_queue' = [message_queue EXCEPT ![p] = Tail(@)]
        /\ UNCHANGED <<next_pid, process_table, accepted, dropped>>
    BY <1>1, <1>4 DEF ReceiveQueued, NothingQueued, queue_get_next
  <2>2. Mail(accepted[p], received[p], q, dropped[p])
    BY <1>1, MailOf DEF MailInv
  <2> HIDE DEF p
  <2>3. Mail(accepted[p], Append(received[p], Head(q)), Tail(q), dropped[p])
    BY <1>2, <2>1, <2>2, MailSteps
  <2>4. /\ accepted'[p] = accepted[p]
        /\ received'[p] = Append(received[p], Head(q))
        /\ message_queue'[p] = Tail(q)
        /\ dropped'[p] = dropped[p]
    BY <1>2, <2>1
  <2>5. Mail(accepted'[p], received'[p], message_queue'[p], dropped'[p])
    BY <2>3, <2>4
  <2> QED
    BY <1>1, <1>2, <2>1, <2>5, MailAt
<1> QED
  BY <1>3, <1>4 DEF ReceiveQueued, NothingQueued, queue_get_next

LEMMA MailSpawn ==
  ASSUME CoreInv, MailInv, next_pid <= MaxPid, SpawnReady
  PROVE  MailInv'
<1>1. /\ process_table \in SUBSET Pids
      /\ next_pid \in Nat
      /\ message_queue \in [Pids -> Seq(Nat)]
      /\ \A p \in process_table : p < next_pid
  BY MailTypes
<1>2. next_pid \in Pids
  BY KernelAssumption DEF CoreInv, TypeOK, Pids
<1>3. /\ next_pid' = next_pid + 1
      /\ process_table' = process_table \cup {next_pid}
      /\ message_queue' = [message_queue EXCEPT ![next_pid] = <<>>]
      /\ UNCHANGED <<accepted, received, dropped>>
  BY DEF SpawnReady, histories
<1>4. Unborn'
  <2>1. \A p \in Pids : p \in Int
    BY KernelAssumption DEF Pids
  <2> QED
    BY <1>1, <1>3, <2>1 DEF MailInv, Unborn
<1>5. Mail(accepted'[next_pid], received'[next_pid], message_queue'[next_pid], dropped'[next_pid])
  <2>1. /\ accepted[next_pid] = <<>>
        /\ received[next_pid] = <<>>
        /\ dropped[next_pid] = 0
    BY <1>1, <1>2 DEF MailInv, Unborn
  <2> QED
    BY <1>1, <1>2, <1>3, <2>1, MailEmpty
<1>6. \A p \in process_table : message_queue'[p] = message_queue[p]
  BY <1>1, <1>3
<1>7. MailboxFIFO'
  BY <1>3, <1>5, <1>6 DEF MailInv, MailboxFIFO, Mail
<1> QED
  BY <1>4, <1>7 DEF MailInv

LEMMA MailStep ==
  ASSUME CoreInv, OwnAddressSpace, NoLostWakeup, MailInv, Step
  PROVE  MailInv'
<1>1. CASE UNCHANGED vars
  BY <1>1, MailFrame DEF vars, histories
<1>2. CASE Halt("fault") \/ Halt("panic_load")
  BY <1>2, MailFrame DEF Halt, histories
<1>3. CASE mode = "boot" /\ next_pid <= MaxPid /\ SpawnReady
  BY <1>3, MailSpawn
<1>4. CASE Reschedule
  BY <1>4, MailFrame DEF Reschedule, histories
<1>5. CASE Calling /\ \E to \in process_table : kernel_send_message(to)
  BY <1>5, MailSend
<1>6. CASE Calling /\ \E to \in process_table : kernel_queue_message(to)
  BY <1>6, MailQueue
<1>7. CASE Calling /\ \E buffer \in {"NULL", "user"} : ReceiveQueued(buffer)
  BY <1>7, MailReceive
<1>8. CASE Calling /\ \E buffer \in {"NULL", "user"} : ReceiveBlock(buffer)
  BY <1>8, MailFrame DEF ReceiveBlock, NothingQueued, histories
<1>9. CASE Calling /\ PortStep
  BY <1>9, MailFrame DEF PortStep, histories
<1>10. CASE Calling /\ \E pid \in process_table : kernel_terminate_process(pid)
  <2>1. PICK pid \in process_table : kernel_terminate_process(pid)
    BY <1>10
  <2>2. \A p \in process_table' : message_queue'[p] = message_queue[p]
    BY <2>1, MailTypes DEF kernel_terminate_process, ActiveWithout, BlocksOf
  <2> QED
    BY <2>1, <2>2, MailFrame DEF kernel_terminate_process, ActiveWithout, BlocksOf, histories
<1> QED
  BY <1>1, <1>2, <1>3, <1>4, <1>5, <1>6, <1>7, <1>8, <1>9, <1>10 DEF Step

(***************************************************************************)
(* The theorems                                                            *)
(***************************************************************************)

\* The inductive invariant.  OwnAddressSpace is what makes receive copy into
\* the caller's own buffer, NoLostWakeup what keeps a direct delivery from
\* overtaking queued messages.
IInv ==
  /\ CoreInv
  /\ OwnAddressSpace
  /\ NoLostWakeup
  /\ IdleMeansDeadlock
  /\ MailInv

LEMMA InitIInv == Init => IInv
<1> SUFFICES ASSUME Init
             PROVE  IInv
  OBVIOUS
<1>1. TypeOK
  <2>1. <<>> \in Seq(Nat)
    OBVIOUS
  <2>2. /\ next_pid \in 1..MaxPid + 1
        /\ process_table \in SUBSET (1..next_pid - 1)
        /\ port_table \in [Ports -> 0..next_pid - 1]
    BY KernelAssumption DEF Init, NULL
  <2>3. heap_free \in Nat
    BY KernelAssumption DEF Init
  <2> QED
    BY <2>1, <2>2, <2>3 DEF Init, TypeOK, States, Halted
<1>2. Runnable = {}
  BY DEF Init, Runnable
<1>3. ReadyExact
  BY <1>2, InitialQueue DEF Init, ReadyExact, Holds
<1>4. MailInv
  BY DEF Init, MailInv, Unborn, MailboxFIFO
<1> QED
  BY <1>1, <1>3, <1>4
  DEF Init, IInv, CoreInv, ActiveIsLive, OwnAddressSpace, NoLostWakeup, IdleMeansDeadlock

LEMMA NextIInv == IInv /\ [Next]_vars => IInv'
<1> SUFFICES ASSUME IInv, [Next]_vars
             PROVE  IInv'
  OBVIOUS
<1>1. Step
  BY NextIsStep DEF IInv
<1>2. CoreInv' /\ OwnAddressSpace'
  BY <1>1, CoreStep, SpaceStep DEF IInv
<1>3. NoLostWakeup'
  BY <1>1, WakeupStep DEF IInv
<1>4. IdleMeansDeadlock'
  BY <1>1, <1>2, <1>3, IdleStep DEF IInv
<1>5. MailInv'
  BY <1>1, MailStep DEF IInv
<1> QED
  BY <1>2, <1>3, <1>4, <1>5 DEF IInv

\* The inductive invariant holds in every reachable state of the kernel.
THEOREM Invariance == Spec => []IInv
BY InitIInv, NextIInv, PTL DEF Spec

\* Every variable keeps its type, and only pids that kernel_spawn_process has
\* handed out are in the process table and the ports.
THEOREM TypeCorrect == Spec => []TypeOK
<1>1. IInv => TypeOK
  BY DEF IInv, CoreInv
<1> QED
  BY <1>1, Invariance, PTL

\* kernel.priority_queue holds exactly the runnable processes, each once,
\* however spawn, preempt, send, receive and terminate are interleaved.
THEOREM ReadyQueueExact == Spec => []ReadyExact
<1>1. IInv => ReadyExact
  BY DEF IInv, CoreInv
<1> QED
  BY <1>1, Invariance, PTL

\* kernel.active_process is NULL or a live process that is not blocked.
THEOREM ActiveProcessLive == Spec => []ActiveIsLive
<1>1. IInv => ActiveIsLive
  BY DEF IInv, CoreInv
<1> QED
  BY <1>1, Invariance, PTL

\* A process runs in its own address space.
THEOREM RunsInOwnSpace == Spec => []OwnAddressSpace
<1>1. IInv => OwnAddressSpace
  BY DEF IInv
<1> QED
  BY <1>1, Invariance, PTL

\* No process sleeps in receive while a message is queued for it.
THEOREM WakeupsNotLost == Spec => []NoLostWakeup
<1>1. IInv => NoLostWakeup
  BY DEF IInv
<1> QED
  BY <1>1, Invariance, PTL

\* The kernel panics for want of a process only when all are blocked for good.
THEOREM IdlePanicIsDeadlock == Spec => []IdleMeansDeadlock
<1>1. IInv => IdleMeansDeadlock
  BY DEF IInv
<1> QED
  BY <1>1, Invariance, PTL

\* Messages reach a live process in the order in which send accepted them,
\* none lost or duplicated except where a queue node could not be allocated.
THEOREM MailboxesAreFIFO == Spec => []MailboxFIFO
<1>1. IInv => MailboxFIFO
  BY DEF IInv, MailInv
<1> QED
  BY <1>1, Invariance, PTL

LEMMA OrphanStep ==
  ASSUME IInv, [Next]_vars, NEW id \in Ports,
         port_table[id] \notin process_table \cup {NULL}
  PROVE  port_table'[id] = port_table[id] /\ port_table'[id] \notin process_table'
<1>1. Step
  BY NextIsStep DEF IInv
<1>2. port_table \in [Ports -> 0..next_pid - 1] /\ next_pid \in Nat
  BY KernelAssumption DEF IInv, CoreInv, TypeOK
<1>3. port_table'[id] = port_table[id]
  <2>1. CASE kernel_create_port
    <3>1. port_table' = port_table
            \/ \E o \in Ports : /\ port_table[o] = NULL
                                /\ port_table' = [port_table EXCEPT ![o] = active_process]
      BY <2>1 DEF kernel_create_port, Halt, vars
    <3> QED
      BY <1>2, <3>1
  <2>2. CASE kernel_remove_port
    <3>1. active_process \in process_table
      BY <2>2 DEF kernel_remove_port, MayClose, do_syscall, IInv, CoreInv, ActiveIsLive
    <3>2. port_table' = port_table
            \/ \E o \in Ports : /\ port_table[o] = active_process
                                /\ port_table' = [port_table EXCEPT ![o] = NULL]
      BY <2>2 DEF kernel_remove_port, MayClose, vars
    <3> QED
      BY <1>2, <3>1, <3>2
  <2>3. CASE send
    BY <2>3 DEF send, SendTo, kernel_send_message, Deliver, Unblock, kernel_queue_message,
      queue_insert, MessageFault, Halt, vars
  <2>4. CASE receive_message
    BY <2>4 DEF receive_message, ReceiveQueued, NothingQueued, queue_get_next, ReceiveBlock, Halt, vars
  <2>5. CASE kernel_load_module \/ EnterFirstProcess \/ isr_preempt
    BY <2>5 DEF kernel_load_module, kernel_spawn_process, SpawnReady, Halt,
                EnterFirstProcess, isr_preempt
  <2>6. CASE terminate_self \/ TerminateOther
    BY <2>6 DEF terminate_self, TerminateOther, kernel_terminate_process, ActiveWithout, BlocksOf
  <2>7. CASE SyscallOfTerminated \/ Stopped \/ UNCHANGED vars
    BY <2>7 DEF SyscallOfTerminated, Stopped, Halt, vars
  <2> QED
    BY <2>1, <2>2, <2>3, <2>4, <2>5, <2>6, <2>7 DEF Next
<1>4. process_table' \subseteq process_table \cup {next_pid}
  BY <1>1 DEF Step, Halt, SpawnReady, Reschedule, kernel_send_message, Deliver, Unblock,
              kernel_queue_message, queue_insert, ReceiveQueued, NothingQueued, queue_get_next, ReceiveBlock, PortStep,
              kernel_terminate_process, ActiveWithout, BlocksOf, vars
<1>5. port_table[id] # next_pid
  <2>1. port_table[id] \in 0..next_pid - 1
    BY <1>2
  <2> QED
    BY <1>2, <2>1
<1> QED
  BY <1>3, <1>4, <1>5

\* A port whose owner was terminated keeps its dead owner for ever: nobody
\* can close it, open it again or inherit it.
THEOREM OrphanedPortsLost == Spec => OrphanedPortsStay
<1>1. IInv /\ [Next]_vars =>
        [\A id \in Ports :
           port_table[id] \notin process_table \cup {NULL}
             => /\ port_table'[id] = port_table[id]
                /\ port_table'[id] \notin process_table']_vars
  BY OrphanStep
<1> QED
  BY <1>1, Invariance, PTL DEF Spec, OrphanedPortsStay

(***************************************************************************)
(* Order of delivery, also when messages are dropped                       *)
(***************************************************************************)

Rising(seq, n) ==
  /\ \A i, j \in DOMAIN seq : i < j => seq[i] < seq[j]
  /\ \A i \in DOMAIN seq : seq[i] <= n

\* NeverReordered with what makes it inductive: no number exceeds sends.
OrderInv == \A p \in Pids : Rising(received[p] \o message_queue[p], sends)

LEMMA RisingMore ==
  ASSUME NEW seq \in Seq(Nat), NEW n \in Nat, Rising(seq, n)
  PROVE  Rising(seq, n + 1)
<1>1. \A i \in DOMAIN seq : seq[i] \in Nat
  BY LenProperties, ElementOfSeq
<1> QED
  BY <1>1 DEF Rising

LEMMA RisingAppend ==
  ASSUME NEW seq \in Seq(Nat), NEW n \in Nat, Rising(seq, n)
  PROVE  Rising(Append(seq, n + 1), n + 1)
<1> DEFINE long == Append(seq, n + 1)
<1>1. /\ long \in Seq(Nat)
      /\ Len(long) = Len(seq) + 1
      /\ \A i \in 1..Len(seq) : long[i] = seq[i]
      /\ long[Len(seq) + 1] = n + 1
  BY AppendProperties
<1>2. /\ Len(seq) \in Nat
      /\ DOMAIN seq = 1..Len(seq)
      /\ DOMAIN long = 1..Len(seq) + 1
  BY <1>1, LenProperties
<1>3. \A i \in 1..Len(seq) : seq[i] \in Nat /\ seq[i] <= n
  BY <1>2, ElementOfSeq DEF Rising
<1>4. \A i \in 1..Len(seq) + 1 : i \in 1..Len(seq) \/ i = Len(seq) + 1
  BY <1>2
<1> HIDE DEF long
<1>5. \A i \in DOMAIN long : long[i] <= n + 1
  <2> SUFFICES ASSUME NEW i \in DOMAIN long
               PROVE  long[i] <= n + 1
    OBVIOUS
  <2>1. CASE i \in 1..Len(seq)
    BY <1>1, <1>3, <2>1
  <2>2. CASE i = Len(seq) + 1
    BY <1>1, <2>2
  <2> QED
    BY <1>2, <1>4, <2>1, <2>2
<1>6. \A i, j \in DOMAIN long : i < j => long[i] < long[j]
  <2> SUFFICES ASSUME NEW i \in DOMAIN long, NEW j \in DOMAIN long, i < j
               PROVE  long[i] < long[j]
    OBVIOUS
  <2>1. i \in 1..Len(seq)
    BY <1>2
  <2>2. CASE j \in 1..Len(seq)
    BY <2>1, <2>2, <1>1, <1>2 DEF Rising
  <2>3. CASE j = Len(seq) + 1
    BY <2>1, <2>3, <1>1, <1>3
  <2> QED
    BY <1>2, <1>4, <2>2, <2>3
<1> QED
  BY <1>5, <1>6 DEF Rising, long

LEMMA RisingPrefix ==
  ASSUME NEW r \in Seq(Nat), NEW q \in Seq(Nat), NEW n \in Nat, Rising(r \o q, n)
  PROVE  Rising(r \o <<>>, n)
<1>1. r \o <<>> = r
  BY ConcatEmptySeq
<1>2. /\ r \o q \in Seq(Nat)
      /\ Len(r \o q) = Len(r) + Len(q)
      /\ \A i \in 1..Len(r) + Len(q) :
           (r \o q)[i] = IF i <= Len(r) THEN r[i] ELSE q[i - Len(r)]
  BY ConcatProperties
<1>3. /\ Len(r) \in Nat
      /\ Len(q) \in Nat
      /\ DOMAIN r = 1..Len(r)
      /\ DOMAIN (r \o q) = 1..Len(r) + Len(q)
  BY <1>2, LenProperties
<1>4. \A i \in DOMAIN r : i \in DOMAIN (r \o q) /\ (r \o q)[i] = r[i]
  BY <1>2, <1>3
<1>5. Rising(r, n)
  BY <1>4 DEF Rising
<1> QED
  BY <1>1, <1>5

\* One step of one process's messages.
LEMMA OrderSteps ==
  ASSUME NEW r \in Seq(Nat), NEW q \in Seq(Nat), NEW n \in Nat, Rising(r \o q, n)
  PROVE  /\ Rising(r \o q, n + 1)
         /\ q = <<>> => Rising(Append(r, n + 1) \o q, n + 1)
         /\ Rising(r \o Append(q, n + 1), n + 1)
         /\ q # <<>> => Rising(Append(r, Head(q)) \o Tail(q), n)
         /\ Rising(r \o <<>>, n)
<1>1. r \o q \in Seq(Nat) /\ n + 1 \in Nat
  BY ConcatProperties
<1>2. Rising(r \o q, n + 1)
  BY <1>1, RisingMore
<1>3. Rising(Append(r \o q, n + 1), n + 1)
  BY <1>1, RisingAppend
<1>4. Rising(r \o Append(q, n + 1), n + 1)
  <2>1. r \o Append(q, n + 1) = Append(r \o q, n + 1)
    BY <1>1, AppendToConcat
  <2> QED
    BY <1>3, <2>1
<1>5. q = <<>> => Rising(Append(r, n + 1) \o q, n + 1)
  <2>1. r \o <<>> = r /\ Append(r, n + 1) \o <<>> = Append(r, n + 1)
    BY <1>1, ConcatEmptySeq, AppendProperties
  <2> QED
    BY <1>3, <2>1
<1>6. q # <<>> => Rising(Append(r, Head(q)) \o Tail(q), n)
  BY HeadMoves
<1> QED
  BY <1>2, <1>4, <1>5, <1>6, RisingPrefix

\* Steps that touch no messages, or throw away queued ones.
LEMMA OrderFrame ==
  ASSUME CoreInv, OrderInv, UNCHANGED <<sends, received>>,
         \A p \in Pids : message_queue'[p] \in {message_queue[p], <<>>}
  PROVE  OrderInv'
<1>1. /\ sends \in Nat
      /\ received \in [Pids -> Seq(Nat)]
      /\ message_queue \in [Pids -> Seq(Nat)]
  BY DEF CoreInv, TypeOK
<1>2. \A p \in Pids : Rising(received[p] \o <<>>, sends)
  BY <1>1, OrderSteps DEF OrderInv
<1> QED
  BY <1>2 DEF OrderInv

LEMMA OrderStep ==
  ASSUME IInv, OrderInv, Step
  PROVE  OrderInv'
<1>0. /\ sends \in Nat
      /\ received \in [Pids -> Seq(Nat)]
      /\ message_queue \in [Pids -> Seq(Nat)]
      /\ process_table \in SUBSET Pids
  BY QueueOfCore DEF IInv, CoreInv, TypeOK
<1>1. CASE UNCHANGED vars
  BY <1>1, OrderFrame DEF vars, histories, IInv
<1>2. CASE Halt("fault") \/ Halt("panic_load")
  BY <1>2, OrderFrame DEF Halt, histories, IInv
<1>3. CASE mode = "boot" /\ next_pid <= MaxPid /\ SpawnReady
  BY <1>0, <1>3, OrderFrame DEF SpawnReady, histories, IInv
<1>4. CASE Reschedule
  BY <1>4, OrderFrame DEF Reschedule, histories, IInv
<1>5. CASE Calling /\ \E to \in process_table : kernel_send_message(to)
  <2>1. PICK to \in process_table : kernel_send_message(to)
    BY <1>5
  <2>2. /\ to \in Pids
        /\ message_queue[to] = <<>>
        /\ message_queue' = message_queue
        /\ received' = [received EXCEPT ![to] = Append(@, sends + 1)]
        /\ sends' = sends + 1
    BY <1>0, <2>1 DEF kernel_send_message, Deliver, Unblock, Accept, IInv, NoLostWakeup
  <2>3. ASSUME NEW p \in Pids
        PROVE  Rising(received'[p] \o message_queue'[p], sends')
    <3>1. CASE p = to
      <4>1. received'[p] = Append(received[p], sends + 1)
        BY <1>0, <2>2, <3>1
      <4> QED
        BY <1>0, <2>2, <3>1, <4>1, OrderSteps DEF OrderInv
    <3>2. CASE p # to
      <4>1. received'[p] = received[p]
        BY <1>0, <2>2, <3>2
      <4> QED
        BY <1>0, <2>2, <4>1, OrderSteps DEF OrderInv
    <3> QED
      BY <3>1, <3>2
  <2> QED
    BY <2>3 DEF OrderInv
<1>6. CASE Calling /\ \E to \in process_table : kernel_queue_message(to)
  <2>1. PICK to \in process_table : kernel_queue_message(to)
    BY <1>6
  <2>2. to \in Pids /\ received' = received
    BY <1>0, <2>1 DEF kernel_queue_message, queue_insert, histories
  <2>3. CASE UNCHANGED <<message_queue, histories>>
    BY <2>3, OrderFrame DEF histories, IInv
  <2>4. CASE message_queue' = message_queue /\ sends' = sends + 1
    BY <1>0, <2>2, <2>4, OrderSteps DEF OrderInv
  <2>5. CASE /\ message_queue' = [message_queue EXCEPT ![to] = Append(@, sends + 1)]
             /\ sends' = sends + 1
    <3>1. ASSUME NEW p \in Pids
          PROVE  Rising(received'[p] \o message_queue'[p], sends')
      <4>1. CASE p = to
        <5>1. message_queue'[p] = Append(message_queue[p], sends + 1)
          BY <1>0, <2>2, <2>5, <4>1
        <5> QED
          BY <1>0, <2>2, <2>5, <5>1, OrderSteps DEF OrderInv
      <4>2. CASE p # to
        <5>1. message_queue'[p] = message_queue[p]
          BY <1>0, <2>2, <2>5, <4>2
        <5> QED
          BY <1>0, <2>2, <2>5, <5>1, OrderSteps DEF OrderInv
      <4> QED
        BY <4>1, <4>2
    <3> QED
      BY <3>1 DEF OrderInv
  <2> QED
    BY <2>1, <2>3, <2>4, <2>5 DEF kernel_queue_message, queue_insert, Accept
<1>7. CASE Calling /\ \E buffer \in {"NULL", "user"} : ReceiveQueued(buffer)
  <2>1. PICK buffer \in {"NULL", "user"} : ReceiveQueued(buffer)
    BY <1>7
  <2>2. CASE buffer = "NULL" /\ Halt("fault")
    BY <2>2, OrderFrame DEF Halt, histories, IInv
  <2>3. CASE buffer # "NULL"
    <3>1. active_process \in Pids /\ cr3 = active_process
      BY <1>7 DEF Calling, IInv, CoreInv, TypeOK, OwnAddressSpace
    <3>2. /\ message_queue[active_process] # <<>>
          /\ received' = [received EXCEPT ![active_process] =
                            Append(@, Head(message_queue[active_process]))]
          /\ message_queue' = [message_queue EXCEPT ![active_process] = Tail(@)]
          /\ sends' = sends
      BY <2>1, <2>3, <3>1 DEF ReceiveQueued, NothingQueued, queue_get_next
    <3>3. ASSUME NEW p \in Pids
          PROVE  Rising(received'[p] \o message_queue'[p], sends')
      <4>1. CASE p = active_process
        <5>1. /\ received'[p] = Append(received[p], Head(message_queue[p]))
              /\ message_queue'[p] = Tail(message_queue[p])
          BY <1>0, <3>1, <3>2, <4>1
        <5> QED
          BY <1>0, <3>2, <4>1, <5>1, OrderSteps DEF OrderInv
      <4>2. CASE p # active_process
        <5>1. received'[p] = received[p] /\ message_queue'[p] = message_queue[p]
          BY <1>0, <3>1, <3>2, <4>2
        <5> QED
          BY <3>2, <5>1 DEF OrderInv
      <4> QED
        BY <4>1, <4>2
    <3> QED
      BY <3>3 DEF OrderInv
  <2> QED
    BY <2>1, <2>2, <2>3 DEF ReceiveQueued, NothingQueued, queue_get_next
<1>8. CASE Calling /\ \E buffer \in {"NULL", "user"} : ReceiveBlock(buffer)
  BY <1>8, OrderFrame DEF ReceiveBlock, NothingQueued, histories, IInv
<1>9. CASE Calling /\ PortStep
  BY <1>9, OrderFrame DEF PortStep, histories, IInv
<1>10. CASE Calling /\ \E pid \in process_table : kernel_terminate_process(pid)
  BY <1>0, <1>10, OrderFrame DEF kernel_terminate_process, ActiveWithout, BlocksOf, histories, IInv
<1> QED
  BY <1>1, <1>2, <1>3, <1>4, <1>5, <1>6, <1>7, <1>8, <1>9, <1>10 DEF Step

\* No message is delivered twice or overtakes an earlier one, whatever is
\* dropped for want of a queue node and whoever is terminated.
THEOREM DeliveryInOrder == Spec => []NeverReordered
<1>1. Init => OrderInv
  <2>1. <<>> \o <<>> = <<>>
    BY ConcatEmptySeq, EmptySeq
  <2> QED
    BY <2>1 DEF Init, OrderInv, Rising
<1>2. IInv /\ OrderInv /\ [Next]_vars => OrderInv'
  BY NextIsStep, OrderStep DEF IInv
<1>3. OrderInv => NeverReordered
  BY DEF OrderInv, Rising, NeverReordered
<1> QED
  BY <1>1, <1>2, <1>3, Invariance, PTL DEF Spec
-----------------------------------------------------------------------------
(***************************************************************************)
(* The kernel implements the mailboxes of Mailboxes: every step of Kernel  *)
(* opens, closes, fills or empties one mailbox, loses the message being    *)
(* sent, or changes no mailbox.                                            *)
(***************************************************************************)

\* No message is kept for a pid that is not in the process table.
DeadQueuesEmpty == \A p \in Pids \ process_table : message_queue[p] = <<>>

LEMMA DeadQueuesStep ==
  ASSUME CoreInv, DeadQueuesEmpty, Step
  PROVE  DeadQueuesEmpty'
<1>0. /\ message_queue \in [Pids -> Seq(Nat)]
      /\ process_table \in SUBSET Pids
  BY QueueOfCore DEF CoreInv, TypeOK
<1>1. CASE UNCHANGED <<process_table, message_queue>>
  BY <1>1 DEF DeadQueuesEmpty
<1>2. CASE SpawnReady
  BY <1>0, <1>2 DEF DeadQueuesEmpty, SpawnReady
<1>3. CASE \E to \in process_table : kernel_queue_message(to)
  BY <1>0, <1>3 DEF DeadQueuesEmpty, kernel_queue_message
<1>4. CASE Calling /\ \E buffer \in {"NULL", "user"} : ReceiveQueued(buffer)
  <2>1. active_process \in process_table
    BY <1>4 DEF Calling, CoreInv, ActiveIsLive
  <2> QED
    BY <1>0, <1>4, <2>1 DEF DeadQueuesEmpty, ReceiveQueued, Halt
<1>5. CASE \E pid \in process_table : kernel_terminate_process(pid)
  BY <1>0, <1>5 DEF DeadQueuesEmpty, kernel_terminate_process
<1> QED
  BY <1>1, <1>2, <1>3, <1>4, <1>5
  DEF Step, vars, Halt, Reschedule, kernel_send_message, ReceiveBlock, PortStep

(***************************************************************************)
(* The steps                                                               *)
(***************************************************************************)

\* A step that is none of the mailboxes' business.
LEMMA BoxesStutter ==
  ASSUME UNCHANGED <<process_table, message_queue, received, sends>>
  PROVE  [Boxes!Next]_Boxes!vars
BY DEF Boxes!vars

\* kernel_spawn_process opens the mailbox of a pid that was never used.
LEMMA BoxesSpawn ==
  ASSUME IInv, DeadQueuesEmpty, next_pid <= MaxPid, SpawnReady
  PROVE  Boxes!Next
<1>1. /\ next_pid \in Pids
      /\ next_pid \notin process_table
      /\ message_queue \in [Pids -> Seq(Nat)]
  BY KernelAssumption DEF IInv, CoreInv, TypeOK, Pids
<1>2. received[next_pid] = <<>> /\ message_queue[next_pid] = <<>>
  BY <1>1 DEF IInv, MailInv, Unborn, Pids, DeadQueuesEmpty
<1>3. message_queue' = message_queue
  BY <1>1, <1>2 DEF SpawnReady
<1>4. Boxes!Open(next_pid)
  BY <1>1, <1>2, <1>3 DEF SpawnReady, Boxes!Open, histories
<1> QED
  BY <1>1, <1>4 DEF Boxes!Next

\* A direct delivery finds the recipient's mailbox empty.
LEMMA BoxesDirect ==
  ASSUME IInv, NEW to \in process_table, kernel_send_message(to)
  PROVE  Boxes!Next
<1>1. to \in Pids
  BY QueueOfCore DEF IInv
<1>2. message_queue[to] = <<>>
  BY DEF IInv, NoLostWakeup, kernel_send_message
<1>3. Boxes!HandOver(to)
  BY <1>2 DEF kernel_send_message, Accept, Deliver, Boxes!HandOver
<1> QED
  BY <1>1, <1>3 DEF Boxes!Next

\* A message is queued, refused, or accepted and lost.
LEMMA BoxesQueue ==
  ASSUME IInv, NEW to \in process_table, kernel_queue_message(to)
  PROVE  [Boxes!Next]_Boxes!vars
<1>1. to \in Pids
  BY QueueOfCore DEF IInv
<1>2. CASE UNCHANGED <<message_queue, histories>>
  BY <1>2, BoxesStutter DEF kernel_queue_message, histories
<1>3. CASE Accept(to) /\ UNCHANGED <<message_queue, received>>
  <2>1. Boxes!Lose
    BY <1>3 DEF kernel_queue_message, Accept, Boxes!Lose
  <2> QED
    BY <2>1 DEF Boxes!Next
<1>4. CASE /\ Accept(to)
           /\ message_queue' = [message_queue EXCEPT ![to] = queue_insert(@, sends + 1)]
           /\ UNCHANGED received
  <2>1. Boxes!Post(to)
    BY <1>4 DEF kernel_queue_message, Accept, queue_insert, Boxes!Post
  <2> QED
    BY <1>1, <2>1 DEF Boxes!Next
<1> QED
  BY <1>2, <1>3, <1>4 DEF kernel_queue_message

\* receive takes the first message of the caller's own mailbox.
LEMMA BoxesReceive ==
  ASSUME IInv, Calling, NEW buffer, ReceiveQueued(buffer)
  PROVE  [Boxes!Next]_Boxes!vars
<1>1. /\ active_process \in process_table
      /\ active_process \in Pids
      /\ cr3 = active_process
  BY QueueOfCore DEF Calling, IInv, CoreInv, ActiveIsLive, OwnAddressSpace
<1>2. CASE Halt("fault")
  BY <1>2, BoxesStutter DEF Halt, histories
<1>3. CASE ~Halt("fault")
  <2>1. Boxes!Take(active_process)
    BY <1>1, <1>3 DEF ReceiveQueued, NothingQueued, queue_get_next, Boxes!Take
  <2> QED
    BY <1>1, <2>1 DEF Boxes!Next
<1> QED
  BY <1>2, <1>3

LEMMA BoxesTerminate ==
  ASSUME IInv, NEW pid \in process_table, kernel_terminate_process(pid)
  PROVE  Boxes!Next
<1>1. pid \in Pids
  BY QueueOfCore DEF IInv
<1>2. Boxes!Close(pid)
  BY DEF kernel_terminate_process, histories, Boxes!Close
<1> QED
  BY <1>1, <1>2 DEF Boxes!Next

LEMMA BoxesStep ==
  ASSUME IInv, DeadQueuesEmpty, Step
  PROVE  [Boxes!Next]_Boxes!vars
<1>1. CASE UNCHANGED <<process_table, message_queue, received, sends>>
  BY <1>1, BoxesStutter
<1>2. CASE mode = "boot" /\ next_pid <= MaxPid /\ SpawnReady
  BY <1>2, BoxesSpawn
<1>3. CASE \E to \in process_table : kernel_send_message(to)
  BY <1>3, BoxesDirect
<1>4. CASE \E to \in process_table : kernel_queue_message(to)
  BY <1>4, BoxesQueue
<1>5. CASE Calling /\ \E buffer \in {"NULL", "user"} : ReceiveQueued(buffer)
  BY <1>5, BoxesReceive
<1>6. CASE \E pid \in process_table : kernel_terminate_process(pid)
  BY <1>6, BoxesTerminate
<1> QED
  BY <1>1, <1>2, <1>3, <1>4, <1>5, <1>6
  DEF Step, vars, histories, Halt, Reschedule, ReceiveBlock, PortStep

\* No queue of messages survives its process: what send keeps is always for a
\* process that exists.
THEOREM NoMailForTheDead == Spec => []DeadQueuesEmpty
<1>1. Init => DeadQueuesEmpty
  BY DEF Init, DeadQueuesEmpty
<1>2. IInv /\ DeadQueuesEmpty /\ [Next]_vars => DeadQueuesEmpty'
  BY NextIsStep, DeadQueuesStep DEF IInv
<1> QED
  BY <1>1, <1>2, Invariance, PTL DEF Spec

\* send, receive, the scheduler, spawn and terminate implement mailboxes that
\* lose no queued message and hand over none past a queued one.
THEOREM KernelImplementsMailboxes == Spec => ImplementsMailboxes
<1>1. Init => Boxes!Init
  BY DEF Init, Boxes!Init
<1>2. IInv /\ DeadQueuesEmpty /\ [Next]_vars => [Boxes!Next]_Boxes!vars
  BY NextIsStep, BoxesStep DEF IInv
<1> QED
  BY <1>1, <1>2, Invariance, NoMailForTheDead, PTL
  DEF Spec, ImplementsMailboxes, Boxes!Spec
-----------------------------------------------------------------------------
(***************************************************************************)
(* The accounts of the system heap: every block that kmalloc has handed    *)
(* out is one that a table or a queue refers to, or the copy of a message  *)
(* that was accepted and lost.                                             *)
(***************************************************************************)
Places(count) == UNION {{p} \X (1..count[p]) : p \in Pids}

LEMMA PlacesFinite ==
  ASSUME NEW count \in [Pids -> Nat]
  PROVE  IsFiniteSet(Places(count))
<1> DEFINE row == [p \in Pids |-> {p} \X (1..count[p])]
           rows == {{p} \X (1..count[p]) : p \in Pids}
<1>1. IsFiniteSet(Pids)
  BY ProcessesFit
<1>2. row \in Surjection(Pids, rows)
  BY DEF Surjection
<1>3. IsFiniteSet(rows)
  BY <1>1, <1>2, FS_Surjection
<1>4. ASSUME NEW p \in Pids
      PROVE  IsFiniteSet({p} \X (1..count[p]))
  <2>1. IsFiniteSet(1..count[p])
    BY FS_Interval
  <2> QED
    BY <2>1, FS_Singleton, FS_Product
<1>5. IsFiniteSet(UNION rows)
  BY <1>3, <1>4, FS_UNION
<1> QED
  BY <1>5 DEF Places

LEMMA TotalType ==
  ASSUME NEW count \in [Pids -> Nat]
  PROVE  Total(count) \in Nat
BY PlacesFinite, FS_CardinalityType DEF Total, Places

LEMMA TotalZero ==
  ASSUME NEW count, \A p \in Pids : count[p] = 0
  PROVE  Total(count) = 0
<1>1. Places(count) = {}
  BY DEF Places
<1> QED
  BY <1>1, FS_EmptySet DEF Total, Places

LEMMA TotalMore ==
  ASSUME NEW count \in [Pids -> Nat], NEW p \in Pids
  PROVE  Total([count EXCEPT ![p] = @ + 1]) = Total(count) + 1
<1> DEFINE more == [count EXCEPT ![p] = @ + 1]
           new == <<p, count[p] + 1>>
<1>1. Places(more) = Places(count) \cup {new}
  <2>1. ASSUME NEW o \in Pids, NEW n \in Nat
        PROVE  n \in 1..more[o] <=> n \in 1..count[o] \/ (o = p /\ n = count[p] + 1)
    OBVIOUS
  <2>2. \A x \in Places(more) : x \in Places(count) \cup {new}
    BY <2>1 DEF Places
  <2>3. \A x \in Places(count) \cup {new} : x \in Places(more)
    BY <2>1 DEF Places
  <2> QED
    BY <2>2, <2>3
<1>2. new \notin Places(count)
  BY DEF Places
<1>3. Cardinality(Places(count) \cup {new}) = Cardinality(Places(count)) + 1
  BY <1>2, PlacesFinite, FS_AddElement
<1> QED
  BY <1>1, <1>3 DEF Total, Places

\* One process less counted, or its count set to zero.
LEMMA TotalLess ==
  ASSUME NEW count \in [Pids -> Nat], NEW p \in Pids, NEW n \in 0..count[p]
  PROVE  Total([count EXCEPT ![p] = n]) = Total(count) - (count[p] - n)
<1> DEFINE less == [count EXCEPT ![p] = n]
           gone == {p} \X (n + 1..count[p])
<1>1. Places(less) = Places(count) \ gone
  <2>1. ASSUME NEW o \in Pids, NEW k \in Nat
        PROVE  k \in 1..less[o] <=> k \in 1..count[o] /\ ~(o = p /\ k \in n + 1..count[p])
    OBVIOUS
  <2>2. \A x \in Places(less) : x \in Places(count) \ gone
    BY <2>1 DEF Places
  <2>3. \A x \in Places(count) \ gone : x \in Places(less)
    BY <2>1 DEF Places
  <2> QED
    BY <2>2, <2>3
<1>2. Places(count) \cap gone = gone
  <2>1. \A x \in gone : x \in {p} \X (1..count[p])
    OBVIOUS
  <2> QED
    BY <2>1 DEF Places
<1>3. Cardinality(gone) = count[p] - n
  <2>1. /\ IsFiniteSet(n + 1..count[p])
        /\ Cardinality(n + 1..count[p]) = count[p] - n
    BY FS_Interval
  <2>2. Cardinality(gone) = Cardinality({p}) * Cardinality(n + 1..count[p])
    BY <2>1, FS_Singleton, FS_Product
  <2>3. Cardinality({p}) = 1
    BY FS_Singleton
  <2> QED
    BY <2>1, <2>2, <2>3
<1>4. Cardinality(Places(count) \ gone) = Cardinality(Places(count)) - Cardinality(Places(count) \cap gone)
  BY PlacesFinite, FS_Difference
<1> QED
  BY <1>1, <1>2, <1>3, <1>4 DEF Total, Places

(***************************************************************************)
(* The steps.  The queue of one process changes its length, or no queue.   *)
(***************************************************************************)

\* Blocks that are free, in use or lost.
Blocks == heap_free + BlocksInUse + Total(dropped)

LEMMA HeapTypes ==
  ASSUME CoreInv
  PROVE  /\ heap_free \in Nat
         /\ QueueLengths \in [Pids -> Nat]
         /\ dropped \in [Pids -> Nat]
         /\ Total(QueueLengths) \in Nat
         /\ Total(dropped) \in Nat
         /\ IsFiniteSet(process_table)
         /\ Cardinality(process_table) \in Nat
         /\ IsFiniteSet(OpenPorts)
         /\ Cardinality(OpenPorts) \in Nat
<1>1. /\ heap_free \in Nat
      /\ message_queue \in [Pids -> Seq(Nat)]
      /\ dropped \in [Pids -> Nat]
  BY DEF CoreInv, TypeOK
<1>2. QueueLengths \in [Pids -> Nat]
  BY <1>1 DEF QueueLengths
<1>3. process_table \in SUBSET Pids
  BY QueueOfCore
<1>4. IsFiniteSet(process_table) /\ Cardinality(process_table) \in Nat
  BY <1>3, ProcessesFit
<1>5. OpenPorts \in SUBSET Ports
  BY DEF OpenPorts
<1>6. IsFiniteSet(OpenPorts)
  BY <1>5, KernelAssumption, FS_Subset
<1> QED
  BY <1>1, <1>2, <1>4, <1>6, TotalType, FS_CardinalityType

LEMMA LengthsFrame ==
  UNCHANGED message_queue => QueueLengths' = QueueLengths
BY DEF QueueLengths

LEMMA HeapFrame ==
  ASSUME UNCHANGED <<process_table, message_queue, port_table, heap_free, dropped>>
  PROVE  Blocks' = Blocks
<1>1. QueueLengths' = QueueLengths /\ OpenPorts' = OpenPorts
  BY LengthsFrame DEF OpenPorts
<1> QED
  BY <1>1 DEF Blocks, BlocksInUse, Total

LEMMA HeapSpawn ==
  ASSUME CoreInv, DeadQueuesEmpty, next_pid <= MaxPid, SpawnReady
  PROVE  Blocks' = Blocks
<1>1. /\ next_pid \in Pids
      /\ next_pid \notin process_table
      /\ message_queue \in [Pids -> Seq(Nat)]
  BY KernelAssumption DEF CoreInv, TypeOK, Pids
<1>2. message_queue' = message_queue
  BY <1>1 DEF SpawnReady, DeadQueuesEmpty
<1>3. Cardinality(process_table') = Cardinality(process_table) + 1
  BY <1>1, HeapTypes, FS_AddElement DEF SpawnReady
<1>4. /\ QueueLengths' = QueueLengths
      /\ OpenPorts' = OpenPorts
      /\ dropped' = dropped
      /\ heap_free' = heap_free - SpawnBlocks
  BY <1>2, LengthsFrame DEF OpenPorts, SpawnReady, histories
<1>5. Total(QueueLengths)' = Total(QueueLengths) /\ Total(dropped)' = Total(dropped)
  BY <1>4 DEF Total
<1> QED
  BY <1>3, <1>4, <1>5, HeapTypes DEF Blocks, BlocksInUse, SpawnBlocks, PortBlocks, MessageBlocks

LEMMA HeapQueue ==
  ASSUME CoreInv, NEW to \in process_table, kernel_queue_message(to)
  PROVE  Blocks' = Blocks
<1>0. /\ to \in Pids
      /\ message_queue \in [Pids -> Seq(Nat)]
      /\ sends + 1 \in Nat
      /\ dropped \in [Pids -> Nat]
      /\ heap_free \in Nat
  BY QueueOfCore DEF CoreInv, TypeOK
<1>1. UNCHANGED <<process_table, port_table>> /\ OpenPorts' = OpenPorts
  BY DEF kernel_queue_message, OpenPorts
<1>2. CASE UNCHANGED <<heap_free, message_queue, histories>>
  BY <1>1, <1>2, HeapFrame DEF histories
<1>3. CASE /\ heap_free = 1 /\ heap_free' = 0
           /\ dropped' = [dropped EXCEPT ![to] = @ + 1]
           /\ UNCHANGED message_queue
  <2>1. Total(dropped') = Total(dropped) + 1
    BY <1>0, <1>3, TotalMore
  <2>2. Total(dropped)' = Total(dropped')
    BY DEF Total
  <2>3. Total(QueueLengths)' = Total(QueueLengths)
    BY <1>3, LengthsFrame DEF Total
  <2> QED
    BY <1>1, <1>3, <2>1, <2>2, <2>3, HeapTypes
    DEF Blocks, BlocksInUse, SpawnBlocks, PortBlocks, MessageBlocks
<1>4. CASE /\ heap_free' = heap_free - MessageBlocks
           /\ message_queue' = [message_queue EXCEPT ![to] = queue_insert(@, sends + 1)]
           /\ UNCHANGED dropped
  <2>1. Len(Append(message_queue[to], sends + 1)) = Len(message_queue[to]) + 1
    BY <1>0, AppendProperties
  <2>2. QueueLengths' = [QueueLengths EXCEPT ![to] = @ + 1]
    BY <1>0, <1>4, <2>1 DEF QueueLengths, queue_insert
  <2>3. Total(QueueLengths') = Total(QueueLengths) + 1
    BY <1>0, <2>2, HeapTypes, TotalMore
  <2>4. Total(QueueLengths)' = Total(QueueLengths') /\ Total(dropped)' = Total(dropped)
    BY <1>4 DEF Total
  <2> QED
    BY <1>1, <1>4, <2>3, <2>4, HeapTypes
    DEF Blocks, BlocksInUse, SpawnBlocks, PortBlocks, MessageBlocks
<1> QED
  BY <1>2, <1>3, <1>4 DEF kernel_queue_message

LEMMA HeapReceive ==
  ASSUME CoreInv, Calling, NEW buffer, ReceiveQueued(buffer)
  PROVE  Blocks' = Blocks
<1>0. /\ active_process \in Pids
      /\ message_queue \in [Pids -> Seq(Nat)]
  BY QueueOfCore DEF Calling, CoreInv, TypeOK
<1>1. CASE Halt("fault")
  BY <1>1, HeapFrame DEF Halt, histories
<1>2. CASE ~Halt("fault")
  <2> DEFINE q == message_queue[active_process]
  <2>1. /\ message_queue' = [message_queue EXCEPT ![active_process] = Tail(@)]
        /\ q # <<>>
        /\ heap_free' = heap_free + MessageBlocks
        /\ UNCHANGED <<process_table, port_table, dropped>>
    BY <1>2 DEF ReceiveQueued, NothingQueued, queue_get_next
  <2>2. Len(Tail(q)) = Len(q) - 1 /\ Len(q) - 1 \in 0..Len(q)
    BY <1>0, <2>1, HeadTailProperties
  <2>3. QueueLengths' = [QueueLengths EXCEPT ![active_process] = Len(q) - 1]
    BY <1>0, <2>1, <2>2 DEF QueueLengths
  <2>4. QueueLengths[active_process] = Len(q)
    BY <1>0 DEF QueueLengths
  <2>5. Total(QueueLengths') = Total(QueueLengths) - (Len(q) - (Len(q) - 1))
    <3>1. Len(q) - 1 \in 0..QueueLengths[active_process]
      BY <2>2, <2>4
    <3>2. QueueLengths \in [Pids -> Nat]
      BY HeapTypes
    <3>3. Total([QueueLengths EXCEPT ![active_process] = Len(q) - 1]) =
            Total(QueueLengths) - (QueueLengths[active_process] - (Len(q) - 1))
      BY <1>0, <3>1, <3>2, TotalLess, Zenon
    <3> QED
      BY <2>3, <2>4, <3>3
  <2>6. /\ Total(QueueLengths)' = Total(QueueLengths')
        /\ Total(dropped)' = Total(dropped)
        /\ OpenPorts' = OpenPorts
    BY <2>1 DEF Total, OpenPorts
  <2>7. Len(q) \in Nat
    BY <1>0
  <2> HIDE DEF q
  <2> QED
    BY <2>1, <2>5, <2>6, <2>7, HeapTypes
    DEF Blocks, BlocksInUse, SpawnBlocks, PortBlocks, MessageBlocks
<1> QED
  BY <1>1, <1>2

LEMMA HeapPorts ==
  ASSUME CoreInv, Calling, PortStep
  PROVE  Blocks' = Blocks
<1>0. /\ port_table \in [Ports -> 0..next_pid - 1]
      /\ UNCHANGED <<process_table, message_queue, dropped>>
      /\ QueueLengths' = QueueLengths
  BY LengthsFrame DEF CoreInv, TypeOK, PortStep, histories
<1>1. Total(QueueLengths)' = Total(QueueLengths) /\ Total(dropped)' = Total(dropped)
  BY <1>0 DEF Total
<1>2. PICK id \in Ports : PortOpened(id) \/ PortClosed(id)
  BY DEF PortStep
<1>3. CASE PortOpened(id)
  <2>1. OpenPorts' = OpenPorts \cup {id} /\ id \notin OpenPorts
    BY <1>0, <1>3 DEF PortOpened, OpenPorts, Calling
  <2>2. Cardinality(OpenPorts') = Cardinality(OpenPorts) + 1
    BY <2>1, HeapTypes, FS_AddElement
  <2> QED
    BY <1>0, <1>1, <1>3, <2>2, HeapTypes
    DEF PortOpened, Blocks, BlocksInUse, SpawnBlocks, PortBlocks, MessageBlocks
<1>4. CASE PortClosed(id)
  <2>1. OpenPorts' = OpenPorts \ {id} /\ id \in OpenPorts
    BY <1>0, <1>4 DEF PortClosed, OpenPorts
  <2>2. Cardinality(OpenPorts') = Cardinality(OpenPorts) - 1
    BY <2>1, HeapTypes, FS_RemoveElement
  <2> QED
    BY <1>0, <1>1, <1>4, <2>2, HeapTypes
    DEF PortClosed, Blocks, BlocksInUse, SpawnBlocks, PortBlocks, MessageBlocks
<1> QED
  BY <1>2, <1>3, <1>4

LEMMA HeapTerminate ==
  ASSUME CoreInv, NEW pid \in process_table, kernel_terminate_process(pid)
  PROVE  Blocks' = Blocks
<1> DEFINE n == Len(message_queue[pid])
<1>0. /\ pid \in Pids
      /\ message_queue \in [Pids -> Seq(Nat)]
  BY QueueOfCore DEF CoreInv, TypeOK
<1>n. n \in Nat
  BY <1>0, LenProperties
<1>1. /\ process_table' = process_table \ {pid}
      /\ message_queue' = [message_queue EXCEPT ![pid] = <<>>]
      /\ heap_free' = heap_free + BlocksOf(pid)
      /\ UNCHANGED <<port_table, dropped>>
  BY DEF kernel_terminate_process, histories
<1>2. Cardinality(process_table') = Cardinality(process_table) - 1
  BY <1>1, HeapTypes, FS_RemoveElement
<1>3. QueueLengths' = [QueueLengths EXCEPT ![pid] = 0] /\ QueueLengths[pid] = n
  BY <1>0, <1>1 DEF QueueLengths
<1>4. Total(QueueLengths') = Total(QueueLengths) - (n - 0)
  <2>1. 0 \in 0..QueueLengths[pid]
    BY <1>n, <1>3
  <2>2. QueueLengths \in [Pids -> Nat]
    BY HeapTypes
  <2>3. Total([QueueLengths EXCEPT ![pid] = 0]) = Total(QueueLengths) - (QueueLengths[pid] - 0)
    BY <1>0, <2>1, <2>2, TotalLess, Zenon
  <2> QED
    BY <1>3, <2>3
<1>5. /\ Total(QueueLengths)' = Total(QueueLengths')
      /\ Total(dropped)' = Total(dropped)
      /\ OpenPorts' = OpenPorts
  BY <1>1 DEF Total, OpenPorts
<1>6. BlocksOf(pid) = SpawnBlocks + MessageBlocks * n
  BY DEF BlocksOf
<1> HIDE DEF n
<1> QED
  BY <1>n, <1>1, <1>2, <1>4, <1>5, <1>6, HeapTypes
  DEF Blocks, BlocksInUse, SpawnBlocks, PortBlocks, MessageBlocks

LEMMA HeapStep ==
  ASSUME CoreInv, DeadQueuesEmpty, Step
  PROVE  Blocks' = Blocks
<1>1. CASE UNCHANGED <<process_table, message_queue, port_table, heap_free, dropped>>
  BY <1>1, HeapFrame
<1>2. CASE mode = "boot" /\ next_pid <= MaxPid /\ SpawnReady
  BY <1>2, HeapSpawn
<1>3. CASE \E to \in process_table : kernel_queue_message(to)
  BY <1>3, HeapQueue
<1>4. CASE Calling /\ \E buffer \in {"NULL", "user"} : ReceiveQueued(buffer)
  BY <1>4, HeapReceive
<1>5. CASE Calling /\ PortStep
  BY <1>5, HeapPorts
<1>6. CASE \E pid \in process_table : kernel_terminate_process(pid)
  BY <1>6, HeapTerminate
<1> QED
  BY <1>1, <1>2, <1>3, <1>4, <1>5, <1>6
  DEF Step, vars, histories, Halt, Reschedule, kernel_send_message, ReceiveBlock

LEMMA InitHeap == Init => HeapAccounted
<1> SUFFICES ASSUME Init
             PROVE  HeapAccounted
  OBVIOUS
<1>1. process_table = {} /\ OpenPorts = {} /\ heap_free = HeapBlocks
  BY DEF Init, OpenPorts
<1>2. Total(QueueLengths) = 0 /\ Total(dropped) = 0
  <2>1. \A p \in Pids : QueueLengths[p] = 0 /\ dropped[p] = 0
    BY DEF Init, QueueLengths
  <2> QED
    BY <2>1, TotalZero
<1> QED
  BY <1>1, <1>2, KernelAssumption, FS_EmptySet
  DEF HeapAccounted, BlocksInUse, SpawnBlocks, PortBlocks, MessageBlocks

\* kmalloc and kfree balance: whatever processes do, each block of the system
\* heap is free, in use, or the copy of a message whose queue node could not
\* be allocated.
THEOREM HeapBalanced == Spec => []HeapAccounted
<1>1. IInv /\ DeadQueuesEmpty /\ HeapAccounted /\ [Next]_vars => HeapAccounted'
  BY NextIsStep, HeapStep DEF IInv, HeapAccounted, Blocks
<1> QED
  BY <1>1, InitHeap, Invariance, NoMailForTheDead, PTL DEF Spec
=============================================================================
