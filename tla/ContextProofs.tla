--------------------------- MODULE ContextProofs ---------------------------
(***************************************************************************)
(* Proofs about Context, for every number of processes, messages, ports    *)
(* and interrupts.                                                         *)
(***************************************************************************)
EXTENDS Context, KernelProofs

CInv == CoreInv /\ OwnAddressSpace /\ DeadQueuesEmpty

\* Who is in user mode: the active process, or one that has been terminated.
UserInv ==
  /\ mode = "boot" => active_process = NULL
  /\ mode = "running" =>
       /\ cr3 \in Pids /\ cr3 < next_pid
       /\ active_process = NULL => cr3 \notin process_table

\* What registers can hold: something of a process, or of the kernel.
Names == {<<"0x1B">>, <<"0x23">>, <<"zero">>, <<"entry">>, <<"DEFAULT_FLAGS">>,
          <<"_kernel_start">>, <<"ENONE">>, <<"result">>, <<"clobbered">>,
          <<"pushed">>, <<"handler">>}
ValuesOf(p) == Names \cup {<<r, p, generation>> : r \in Registers, generation \in BOOLEAN}
Values == Names \cup UNION {ValuesOf(p) : p \in Pids}

Hows == {"spawn", "isr_preempt", "receive", "return", "handler"}

RegisterTypes ==
  /\ ctx \in [Pids -> [Words -> Values]]
  /\ own \in [Pids -> [Registers -> Values]]
  /\ saved \in [Pids -> [Registers -> Values]]
  /\ regs \in [Registers -> Values]
  /\ left \in [Pids -> [how : Hows, received : Nat]]
  /\ interrupt_handlers \in [Interrupts -> Pids \cup {NULL}]
  /\ leaked \in Nat

\* The context of a process holds nothing of another.
ContextInv == \A p \in Pids, w \in Words : ctx[p][w] \in ValuesOf(p)

Others == Registers \ (Frame \cup {"eax"})

\* A process can go on with these registers, given those of its last entry
\* and of its last yield, how it left and the number of messages it has got.
Faithful(file, entry, yielded, leave, count) ==
  /\ \A r \in Frame : file[r] = entry[r]
  /\ leave.how = "isr_preempt" => \A r \in Registers : file[r] = entry[r]
  /\ leave.how = "receive" =>
       /\ file["eax"] = <<"ENONE">>
       /\ count = leave.received + 1
       /\ \A r \in Others : file[r] = yielded[r]

\* A process blocked in receive has its frame stored and no message yet.
Pending(file, entry, leave, count) ==
  /\ \A r \in Frame : file[r] = entry[r]
  /\ leave.how = "receive"
  /\ count = leave.received

\* What is stored for a process that does not have the CPU.
Parked(p) ==
  IF state[p] = "PROCESS_ACTIVE"
  THEN Faithful(load_context(ctx[p]), own[p], saved[p], left[p], Len(received[p]))
  ELSE Pending(load_context(ctx[p]), own[p], left[p], Len(received[p]))

\* The process has not been terminated.
Present(p) == p \in process_table \/ p >= next_pid

ParkedInv == \A p \in Pids : Present(p) /\ p # active_process => Parked(p)

\* The registers that a system call does not store stay as they were saved.
StaleInv ==
  \A p \in Pids : Present(p) =>
    /\ \A r \in Others : load_context(ctx[p])[r] = saved[p][r]
    /\ p >= next_pid => left[p].how = "spawn"

RunInv ==
  Calling =>
    /\ Faithful(regs, own[active_process], saved[active_process],
                left[active_process], Len(received[active_process]))
    /\ \A r \in Registers : regs[r] \in ValuesOf(active_process)

RegisterInv == RegisterTypes /\ ContextInv /\ ParkedInv /\ StaleInv /\ RunInv

(***************************************************************************)
(* Storing and loading contexts                                            *)
(***************************************************************************)

LEMMA Offsets ==
  /\ Offset["eax"] = 0 /\ Offset["ebx"] = 1 /\ Offset["ecx"] = 2 /\ Offset["edx"] = 3
  /\ Offset["edi"] = 4 /\ Offset["esi"] = 5 /\ Offset["ebp"] = 6
  /\ Offset["esp"] = 7 /\ Offset["ss"] = 8 /\ Offset["cs"] = 9 /\ Offset["eip"] = 10
  /\ Offset["eflags"] = 11
BY DEF Offset

LEMMA OffsetRange ==
  /\ \A r \in Registers : Offset[r] \in Words
  /\ \A r \in Frame : r \in Registers /\ Offset[r] \in 7..11
  /\ \A r \in Others : r \in Registers /\ Offset[r] \in 1..6
  /\ "eax" \in Registers
BY Offsets DEF Registers, Frame, Others, Words

\* isr_preempt pushes the registers in the reverse of the order in which
\* load_context looks for them.
LEMMA PushedInOrder ==
  ASSUME NEW r \in Registers
  PROVE  Reverse(Pushed)[Offset[r] + 1] = r
<1>1. /\ Pushed[1] = "eflags" /\ Pushed[2] = "eip" /\ Pushed[3] = "cs" /\ Pushed[4] = "ss"
      /\ Pushed[5] = "esp" /\ Pushed[6] = "ebp" /\ Pushed[7] = "esi" /\ Pushed[8] = "edi"
      /\ Pushed[9] = "edx" /\ Pushed[10] = "ecx" /\ Pushed[11] = "ebx" /\ Pushed[12] = "eax"
      /\ Len(Pushed) = 12
  BY DEF Pushed
<1>2. \A i \in 1..12 : Reverse(Pushed)[i] = Pushed[12 - i + 1]
  BY <1>1 DEF Reverse
<1>3. Offset[r] \in 0..11 /\ Pushed[12 - Offset[r]] = r
  BY <1>1, Offsets DEF Registers
<1>4. Offset[r] + 1 \in 1..12 /\ 12 - (Offset[r] + 1) + 1 = 12 - Offset[r]
  BY <1>3
<1> QED
  BY <1>2, <1>3, <1>4

LEMMA LoadRegister ==
  ASSUME NEW words, NEW r \in Registers
  PROVE  load_context(words)[r] = words[Offset[r]]
BY DEF load_context

\* A yield is transparent: what was stored is what is loaded.
LEMMA LoadStored ==
  ASSUME NEW file, NEW r \in Registers
  PROVE  load_context(StoredContext(file))[r] = file[r]
<1>1. Offset[r] \in Words
  BY OffsetRange
<1>2. StoredContext(file)[Offset[r]] = file[Reverse(Pushed)[Offset[r] + 1]]
  BY <1>1 DEF StoredContext
<1> QED
  BY <1>2, LoadRegister, PushedInOrder

LEMMA FrameStored ==
  ASSUME NEW V, NEW words \in [Words -> V], NEW file
  PROVE  LET stored == StoredFrame(words, file) IN
         /\ stored[7] = file.esp /\ stored[8] = <<"0x23">> /\ stored[9] = <<"0x1B">>
         /\ stored[10] = file.eip /\ stored[11] = file.eflags
         /\ \A w \in 0..6 : stored[w] = words[w]
         /\ DOMAIN stored = Words
BY DEF StoredFrame, set_context_flags, set_context_stack, set_context_pc, Words

\* What a process has set, as far as a system call stores it.
LEMMA FileValues ==
  ASSUME NEW p, NEW generation \in BOOLEAN
  PROVE  LET file == File(p, generation) IN
         /\ file \in [Registers -> ValuesOf(p)]
         /\ file.cs = <<"0x1B">> /\ file.ss = <<"0x23">>
BY DEF File, ValuesOf, Names, Registers

LEMMA LoadFrameStored ==
  ASSUME NEW V, NEW words \in [Words -> V], NEW p, NEW generation \in BOOLEAN
  PROVE  LET file == File(p, generation)
             loaded == load_context(StoredFrame(words, file)) IN
         /\ \A r \in Frame : loaded[r] = file[r]
         /\ \A r \in Others : loaded[r] = load_context(words)[r]
<1> DEFINE file == File(p, generation)
           stored == StoredFrame(words, file)
<1>1. /\ stored[7] = file.esp /\ stored[8] = file.ss /\ stored[9] = file.cs
      /\ stored[10] = file.eip /\ stored[11] = file.eflags
      /\ \A w \in 0..6 : stored[w] = words[w]
  <2>1. file.cs = <<"0x1B">> /\ file.ss = <<"0x23">>
    BY FileValues
  <2> HIDE DEF file
  <2> QED
    BY <2>1, FrameStored
<1> HIDE DEF file, stored
<1>2. \A r \in Frame : stored[Offset[r]] = file[r]
  BY <1>1, Offsets DEF Frame
<1>3. \A r \in Others : stored[Offset[r]] = words[Offset[r]]
  BY <1>1, OffsetRange
<1>4. /\ \A r \in Frame : load_context(stored)[r] = file[r]
      /\ \A r \in Others : load_context(stored)[r] = load_context(words)[r]
  BY <1>2, <1>3, OffsetRange, LoadRegister
<1> QED
  BY <1>4 DEF file, stored

\* The words that a system call stores are the caller's own.
LEMMA FrameStoredValues ==
  ASSUME NEW p \in Pids, NEW words, words \in [Words -> ValuesOf(p)],
         NEW generation \in BOOLEAN
  PROVE  StoredFrame(words, File(p, generation)) \in [Words -> ValuesOf(p)]
<1>1. PICK file \in [Registers -> ValuesOf(p)] : file = File(p, generation)
  BY FileValues
<1>2. /\ <<"0x1B">> \in ValuesOf(p) /\ <<"0x23">> \in ValuesOf(p)
      /\ {file.esp, file.eip, file.eflags} \subseteq ValuesOf(p)
  BY <1>1 DEF ValuesOf, Names, Registers
<1>3. StoredFrame(words, file) \in [Words -> ValuesOf(p)]
  BY <1>2 DEF StoredFrame, set_context_flags, set_context_stack, set_context_pc
<1> QED
  BY <1>1, <1>3

LEMMA StoredValues ==
  ASSUME NEW p \in Pids, NEW generation \in BOOLEAN
  PROVE  StoredContext(File(p, generation)) \in [Words -> ValuesOf(p)]
<1>1. PICK file \in [Registers -> ValuesOf(p)] : file = File(p, generation)
  BY FileValues
<1>2. \A w \in Words : Reverse(Pushed)[w + 1] \in Registers
  <2> SUFFICES ASSUME NEW w \in Words PROVE Reverse(Pushed)[w + 1] \in Registers
    OBVIOUS
  <2>1. PICK r \in Registers : Offset[r] = w
    BY Offsets DEF Registers, Words
  <2> QED
    BY <2>1, PushedInOrder
<1>3. StoredContext(file) \in [Words -> ValuesOf(p)]
  BY <1>1, <1>2 DEF StoredContext
<1> QED
  BY <1>1, <1>3

LEMMA LoadedValues ==
  ASSUME NEW V, NEW words \in [Words -> V]
  PROVE  load_context(words) \in [Registers -> V]
BY OffsetRange DEF load_context

LEMMA ReturnedValues ==
  ASSUME NEW p, NEW generation \in BOOLEAN
  PROVE  LET file == File(p, generation) IN
         /\ Returned(file) \in [Registers -> ValuesOf(p)]
         /\ \A r \in Frame : Returned(file)[r] = file[r]
<1>1. PICK file \in [Registers -> ValuesOf(p)] : file = File(p, generation)
  BY FileValues
<1>2. <<"result">> \in ValuesOf(p) /\ <<"clobbered">> \in ValuesOf(p)
  BY DEF ValuesOf, Names
<1>3. Returned(file) \in [Registers -> ValuesOf(p)]
  BY <1>2 DEF Returned
<1>4. \A r \in Frame : Returned(file)[r] = file[r]
  BY DEF Returned, Frame, Registers
<1> QED
  BY <1>1, <1>3, <1>4

LEMMA ValuesOfProcess ==
  ASSUME NEW p \in Pids
  PROVE  ValuesOf(p) \subseteq Values
BY DEF Values

\* A value with an owner has only one.
LEMMA OneOwner ==
  ASSUME NEW p, NEW v \in ValuesOf(p), Len(v) > 1
  PROVE  v[2] = p
BY DEF ValuesOf, Names

(***************************************************************************)
(* What the steps of Kernel do to the processes                            *)
(***************************************************************************)

LEMMA CTypes ==
  ASSUME CInv
  PROVE  /\ process_table \in SUBSET Pids
         /\ state \in [Pids -> States]
         /\ received \in [Pids -> Seq(Nat)]
         /\ next_pid \in 1..MaxPid + 1
         /\ \A p \in process_table : p < next_pid
         /\ active_process # NULL =>
              /\ active_process \in process_table
              /\ state[active_process] = "PROCESS_ACTIVE"
         /\ NULL \notin Pids
<1>1. /\ process_table \in SUBSET (1..next_pid - 1)
      /\ next_pid \in 1..MaxPid + 1
      /\ state \in [Pids -> States] /\ received \in [Pids -> Seq(Nat)]
  BY DEF CInv, CoreInv, TypeOK
<1>2. \A p \in process_table : p < next_pid
  BY <1>1, KernelAssumption
<1>3. active_process # NULL =>
        /\ active_process \in process_table
        /\ state[active_process] = "PROCESS_ACTIVE"
  BY DEF CInv, CoreInv, ActiveIsLive
<1> QED
  BY <1>1, <1>2, <1>3, QueueOfCore, NullIsNoProcess DEF CInv

LEMMA CInvStep ==
  ASSUME CInv, Step
  PROVE  CInv'
BY CoreStep, SpaceStep, DeadQueuesStep DEF CInv

\* The process that is entered was runnable.
LEMMA EnterRunnable ==
  ASSUME CInv, NEW current \in {NULL, active_process},
         kernel_advance_scheduler(current, priority_queue)
  PROVE  \/ mode' = "panic_idle" /\ active_process' = NULL
         \/ /\ mode' = "running"
            /\ active_process' \in Runnable \cup ({current} \ {NULL})
            /\ active_process' \in process_table
            /\ state[active_process'] = "PROCESS_ACTIVE"
            /\ cr3' = active_process'
<1>1. /\ Runnable \in SUBSET Pids /\ Holds(priority_queue, Runnable)
  BY QueueOfCore DEF CInv
<1>2. active_process \notin Runnable
  BY DEF Runnable
<1>3. current \in {NULL} \cup (Pids \ Runnable)
  BY <1>2, CTypes
<1>4. \A p \in Runnable : p \in process_table /\ state[p] = "PROCESS_ACTIVE"
  BY DEF Runnable
<1> QED
  BY <1>1, <1>3, <1>4, AdvanceTakesOne, CTypes

\* A system call leaves the processes other than its caller alone, except
\* that it may wake one with a message; it ends with the caller running or
\* terminated, or blocks it.
Wakes(p) ==
  /\ state[p] = "PROCESS_REQUESTING" /\ state'[p] = "PROCESS_ACTIVE"
  /\ Len(received'[p]) = Len(received[p]) + 1

Returns ==
  /\ \/ active_process' = active_process
     \/ active_process' = NULL /\ active_process \notin process_table'
  /\ active_process # NULL => state'[active_process] = "PROCESS_ACTIVE"
  /\ cr3' = cr3
  /\ mode' \in {mode, "fault"}

Sleeps ==
  /\ Calling
  /\ state' = [state EXCEPT ![active_process] = "PROCESS_REQUESTING"]
  /\ received' = received
  /\ process_table' = process_table
  /\ \/ mode' = "panic_idle" /\ active_process' = NULL
     \/ /\ mode' = "running" /\ active_process' \in Runnable
        /\ cr3' = active_process'

CallEffect ==
  /\ next_pid' = next_pid
  /\ process_table' \subseteq process_table
  /\ \A p \in Pids \ {active_process} :
       (state'[p] = state[p] /\ received'[p] = received[p]) \/ Wakes(p)
  /\ Returns \/ Sleeps

LEMMA CallHasEffect ==
  ASSUME CInv, SyscallStep
  PROVE  CallEffect
<1>1. CASE UNCHANGED vars
  BY <1>1, CTypes DEF CallEffect, Returns, vars, histories
<1>2. CASE Halt("fault")
  BY <1>2, CTypes DEF CallEffect, Returns, Halt, histories
<1>3. CASE Calling /\ \E to \in process_table : kernel_send_message(to)
  <2>1. PICK to \in process_table : kernel_send_message(to)
    BY <1>3
  <2>2. /\ UNCHANGED <<mode, next_pid, process_table, active_process>>
        /\ received' = [received EXCEPT ![to] = Append(@, sends + 1)]
        /\ state' = [state EXCEPT ![to] = "PROCESS_ACTIVE"]
        /\ state[to] = "PROCESS_REQUESTING"
        /\ cr3' = active_process
    BY <2>1 DEF kernel_send_message, Deliver, Unblock, Waiting
  <2>3. cr3' = cr3
    BY <1>3, <2>2 DEF CInv, OwnAddressSpace, Calling
  <2>4. to \in Pids /\ received[to] \in Seq(Nat) /\ sends + 1 \in Nat
    BY CTypes DEF CInv, CoreInv, TypeOK
  <2>5. Len(received'[to]) = Len(received[to]) + 1
    BY <2>2, <2>4, CTypes
  <2>6. Wakes(to)
    BY <2>2, <2>4, <2>5, CTypes DEF Wakes
  <2>7. \A p \in Pids \ {to} : state'[p] = state[p] /\ received'[p] = received[p]
    BY <2>2, CTypes
  <2>8. Returns
    BY <2>2, <2>3, <2>7, CTypes DEF Returns
  <2> QED
    BY <2>2, <2>6, <2>7, <2>8 DEF CallEffect
<1>4. CASE Calling /\ \E to \in process_table : kernel_queue_message(to)
  <2>1. UNCHANGED <<mode, next_pid, process_table, active_process, state, received, cr3>>
    BY <1>4 DEF kernel_queue_message, histories
  <2> QED
    BY <2>1, CTypes DEF CallEffect, Returns
<1>5. CASE Calling /\ \E buffer \in {"NULL", "user"} : ReceiveQueued(buffer)
  <2>1. CASE Halt("fault")
    BY <1>2, <2>1
  <2>2. CASE ~Halt("fault")
    <3>1. /\ UNCHANGED <<mode, next_pid, process_table, active_process, state, cr3>>
          /\ received' = [received EXCEPT ![cr3] =
                            Append(@, Head(message_queue[active_process]))]
      BY <1>5, <2>2 DEF ReceiveQueued, sched
    <3>2. cr3 = active_process
      BY <1>5 DEF CInv, OwnAddressSpace, Calling
    <3> QED
      BY <3>1, <3>2, CTypes DEF CallEffect, Returns
  <2> QED
    BY <2>1, <2>2
<1>6. CASE Calling /\ \E buffer \in {"NULL", "user"} : ReceiveBlock(buffer)
  <2>1. /\ state' = [state EXCEPT ![active_process] = "PROCESS_REQUESTING"]
        /\ kernel_advance_scheduler(NULL, priority_queue)
        /\ UNCHANGED <<next_pid, process_table, received>>
    BY <1>6 DEF ReceiveBlock, histories
  <2>2. Sleeps
    BY <1>6, <2>1, EnterRunnable DEF Sleeps
  <2> QED
    BY <2>1, <2>2, CTypes DEF CallEffect
<1>7. CASE Calling /\ PortStep
  <2>1. UNCHANGED <<mode, next_pid, process_table, active_process, state, received, cr3>>
    BY <1>7 DEF PortStep, histories, sched
  <2> QED
    BY <2>1, CTypes DEF CallEffect, Returns
<1>8. CASE Calling /\ \E pid \in process_table : kernel_terminate_process(pid)
  <2>1. PICK pid \in process_table : kernel_terminate_process(pid)
    BY <1>8
  <2>2. /\ UNCHANGED <<mode, next_pid, state, received, cr3>>
        /\ process_table' = process_table \ {pid}
        /\ active_process' = IF active_process = pid THEN NULL ELSE active_process
    BY <2>1 DEF kernel_terminate_process, ActiveWithout, histories
  <2> QED
    BY <2>2, CTypes DEF CallEffect, Returns
<1> QED
  BY <1>1, <1>2, <1>3, <1>4, <1>5, <1>6, <1>7, <1>8 DEF SyscallStep

\* The process that made an entry is the active one, or is no longer present.
LEMMA UserIsGone ==
  ASSUME CInv, UserInv, mode = "running"
  PROVE  /\ User \in Pids /\ User < next_pid
         /\ active_process # NULL => User = active_process
         /\ \A p \in Pids : Present(p) /\ p # active_process => p # User
<1>1. User \in Pids /\ User < next_pid /\ (active_process # NULL => User = active_process)
  BY DEF UserInv, User, CInv, OwnAddressSpace
<1>2. active_process = NULL => User \notin process_table
  BY DEF UserInv, User
<1> QED
  BY <1>1, <1>2, CTypes, KernelAssumption DEF Present, Pids

(***************************************************************************)
(* The handlers for interrupts, as far as Kernel is concerned              *)
(***************************************************************************)

\* Only the heap, or only the state of one process changes.
HeapSignal ==
  /\ heap_free' \in Nat
  /\ UNCHANGED <<sched, next_pid, process_table, state, message_buffer,
                 message_queue, port_table, histories>>

ReadySignal(p) ==
  /\ MakeReady(p)
  /\ UNCHANGED <<mode, active_process, cr3, next_pid, process_table,
                 message_buffer, message_queue, port_table, heap_free, histories>>

LEMMA HeapSignalInv ==
  ASSUME CInv, UserInv, HeapSignal
  PROVE  CInv' /\ UserInv'
<1>1. TypeOK'
  BY DEF HeapSignal, CInv, CoreInv, TypeOK, sched, histories
<1>2. CoreInv'
  BY <1>1 DEF HeapSignal, CInv, CoreInv, ReadyExact, ActiveIsLive, Runnable, sched
<1> QED
  BY <1>2 DEF HeapSignal, CInv, OwnAddressSpace, DeadQueuesEmpty, UserInv, sched

LEMMA ReadySignalInv ==
  ASSUME CInv, UserInv, NEW p \in process_table, ReadySignal(p)
  PROVE  CInv' /\ UserInv'
<1>0. /\ p \in Pids /\ state \in [Pids -> States] /\ process_table \in SUBSET Pids
      /\ state' = [state EXCEPT ![p] = "PROCESS_ACTIVE"]
  BY CTypes DEF ReadySignal, MakeReady
<1>1. Runnable \in SUBSET Pids /\ Holds(priority_queue, Runnable)
  BY QueueOfCore DEF CInv
<1>2. Holds(priority_queue', Runnable')
  <2>1. CASE state[p] = "PROCESS_ACTIVE"
    <3>1. priority_queue' = priority_queue /\ state' = state
      BY <1>0, <2>1 DEF ReadySignal, MakeReady
    <3>2. Runnable' = Runnable
      BY <3>1 DEF Runnable, ReadySignal
    <3> QED
      BY <1>1, <3>1, <3>2
  <2>2. CASE state[p] # "PROCESS_ACTIVE"
    <3>1. p # active_process /\ p \notin Runnable
      BY <2>2, CTypes DEF Runnable
    <3>2. priority_queue' = priorityqueue_insert(priority_queue, p)
      BY <2>2 DEF ReadySignal, MakeReady
    <3>3. Runnable' = Runnable \cup {p}
      BY <1>0, <3>1 DEF Runnable, ReadySignal
    <3>4. Holds(priorityqueue_insert(priority_queue, p), Runnable \cup {p})
      BY <1>0, <1>1, <3>1, HoldsInsert
    <3> QED
      BY <3>2, <3>3, <3>4
  <2> QED
    BY <2>1, <2>2
<1>3. TypeOK'
  <2>1. priority_queue' \in [held : [Pids -> Nat], size : Nat]
    BY <1>2 DEF Holds
  <2>2. state' \in [Pids -> States]
    BY <1>0 DEF States
  <2> QED
    BY <2>1, <2>2 DEF ReadySignal, CInv, CoreInv, TypeOK, histories
<1>4. ReadyExact'
  BY <1>2 DEF Holds, ReadyExact
<1>5. ActiveIsLive'
  BY <1>0 DEF ReadySignal, CInv, CoreInv, ActiveIsLive
<1>6. CoreInv'
  BY <1>3, <1>4, <1>5 DEF CoreInv
<1> QED
  BY <1>6 DEF ReadySignal, CInv, OwnAddressSpace, DeadQueuesEmpty, UserInv

\* The ways in which a step of CNext changes the variables of Kernel.
LEMMA CNextIsStep ==
  ASSUME CInv, RegisterTypes, [CNext]_<<vars, registers, signals>>
  PROVE  \/ Step
         \/ HeapSignal
         \/ \E p \in process_table : ReadySignal(p)
<1>1. CASE Boot \/ Preempt \/ Syscall \/ Stopped \/ UNCHANGED <<vars, registers, signals>>
  <2>1. [Next]_vars
    BY <1>1 DEF Boot, Preempt, Syscall, KernelCall, Next
  <2> QED
    BY <2>1, NextIsStep DEF CInv
<1>2. CASE Signals
  <2>0. heap_free \in Nat
    BY DEF CInv, CoreInv, TypeOK
  <2>1. PICK i \in Interrupts :
          \/ kernel_register_interrupt_handler(i)
          \/ kernel_remove_interrupt_handler(i)
          \/ kernel_execute_interrupt_handler(i)
          \/ HandlerFaults(i)
    BY <1>2 DEF Signals
  <2>2. CASE kernel_register_interrupt_handler(i)
    BY <2>0, <2>2
    DEF kernel_register_interrupt_handler, HeapSignal, Step, ActionBlocks
  <2>3. CASE kernel_remove_interrupt_handler(i)
    BY <2>0, <2>3 DEF kernel_remove_interrupt_handler, HeapSignal, ActionBlocks
  <2>4. CASE kernel_execute_interrupt_handler(i)
    <3>1. CASE interrupt_handlers[i] \notin process_table
      BY <2>0, <2>4, <3>1
      DEF kernel_execute_interrupt_handler, HeapSignal, ActionBlocks, sched
    <3>2. CASE interrupt_handlers[i] \in process_table
      <4>1. ReadySignal(interrupt_handlers[i])
        BY <2>4, <3>2 DEF kernel_execute_interrupt_handler, ReadySignal
      <4> QED
        BY <3>2, <4>1
    <3> QED
      BY <3>1, <3>2
  <2>5. CASE HandlerFaults(i)
    BY <2>5 DEF HandlerFaults, Step
  <2> QED
    BY <2>1, <2>2, <2>3, <2>4, <2>5
<1> QED
  BY <1>1, <1>2 DEF CNext

LEMMA UserStep ==
  ASSUME CInv, UserInv, Step
  PROVE  UserInv'
<1>0. CInv'
  BY CInvStep
<1>1. CASE SyscallStep
  <2>1. CallEffect
    BY <1>1, CallHasEffect
  <2>2. /\ next_pid' = next_pid
        /\ active_process # NULL => active_process \in process_table
    BY <2>1, CTypes DEF CallEffect
  <2>3. CASE Returns
    <3>1. mode' = "running" /\ active_process = NULL => cr3 \notin process_table'
      BY <2>1, <2>3 DEF Returns, UserInv, CallEffect
    <3>2. mode' = "running" /\ active_process' = NULL /\ active_process # NULL =>
            cr3' \notin process_table'
      BY <2>3 DEF Returns, CInv, OwnAddressSpace
    <3> QED
      BY <2>1, <2>2, <2>3, <3>1, <3>2 DEF Returns, UserInv, CallEffect
  <2>4. CASE Sleeps
    <3>1. \A p \in Runnable : p \in Pids /\ p < next_pid /\ p # NULL
      BY CTypes DEF Runnable
    <3> QED
      BY <2>2, <2>4, <3>1 DEF Sleeps, UserInv
  <2> QED
    BY <2>1, <2>3, <2>4 DEF CallEffect
<1>2. CASE Halt("panic_load")
  BY <1>2 DEF Halt, UserInv
<1>3. CASE mode = "boot" /\ SpawnReady
  BY <1>3 DEF SpawnReady, UserInv
<1>4. CASE Reschedule
  <2>1. /\ kernel_advance_scheduler(active_process, priority_queue)
        /\ UNCHANGED <<next_pid, process_table>>
    BY <1>4 DEF Reschedule
  <2> QED
    BY <2>1, EnterRunnable, CTypes DEF UserInv
<1> QED
  BY <1>1, <1>2, <1>3, <1>4 DEF Step, SyscallStep

LEMMA KernelInv ==
  ASSUME CInv, UserInv, RegisterTypes, [CNext]_<<vars, registers, signals>>
  PROVE  CInv' /\ UserInv'
BY CNextIsStep, CInvStep, UserStep, HeapSignalInv, ReadySignalInv

(***************************************************************************)
(* The registers of a process across the steps                             *)
(***************************************************************************)

LEMMA ContextAt ==
  ASSUME RegisterTypes, ContextInv, NEW p \in Pids
  PROVE  ctx[p] \in [Words -> ValuesOf(p)]
<1>1. ctx[p] \in [Words -> Values]
  BY DEF RegisterTypes
<1>2. \A w \in Words : ctx[p][w] \in ValuesOf(p)
  BY DEF ContextInv
<1> QED
  BY <1>1, <1>2

LEMMA ParkedKept ==
  ASSUME NEW p, Parked(p),
         /\ ctx'[p] = ctx[p] /\ own'[p] = own[p] /\ saved'[p] = saved[p]
         /\ left'[p] = left[p] /\ state'[p] = state[p] /\ received'[p] = received[p]
  PROVE  Parked(p)'
BY DEF Parked

\* A process that is entered goes on with what was stored for it.
LEMMA Entering ==
  ASSUME NEW p \in Pids, active_process' = p, state'[p] = "PROCESS_ACTIVE",
         Parked(p)', regs' = load_context(ctx'[p]), ContextInv'
  PROVE  RunInv'
<1>1. Faithful(load_context(ctx'[p]), own'[p], saved'[p], left'[p], Len(received'[p]))
  BY DEF Parked
<1>2. \A r \in Registers : regs'[r] \in ValuesOf(p)
  <2>1. \A w \in Words : ctx'[p][w] \in ValuesOf(p)
    BY DEF ContextInv
  <2>2. \A r \in Registers : regs'[r] = ctx'[p][Offset[r]]
    BY LoadRegister
  <2> QED
    BY <2>1, <2>2, OffsetRange
<1> QED
  BY <1>1, <1>2 DEF RunInv

LEMMA BootRegisters ==
  ASSUME CInv, UserInv, RegisterInv, Boot
  PROVE  RegisterInv'
<1>0. /\ UNCHANGED <<ctx, own, saved, left, interrupt_handlers, leaked>>
      /\ regs' = IF mode' = "running" THEN load_context(ctx[active_process']) ELSE regs
      /\ mode = "boot" /\ active_process = NULL
  BY DEF Boot, signals, kernel_load_module, EnterFirstProcess, UserInv
<1>1. RegisterTypes /\ ContextInv /\ ParkedInv /\ StaleInv /\ ContextInv'
  BY <1>0 DEF RegisterInv, ContextInv
<1>2. \A p \in Pids : Present(p) => Parked(p)
  BY <1>0, <1>1, NullIsNoProcess DEF ParkedInv
<1>3. CASE kernel_load_module
  <2>1. mode' # "running" /\ UNCHANGED <<active_process, received>>
    BY <1>0, <1>3 DEF kernel_load_module, kernel_spawn_process, SpawnReady, Halt, histories
  <2>2. ASSUME NEW p \in Pids, Present(p)'
        PROVE  Present(p) /\ state'[p] = state[p] /\ (p >= next_pid' => p >= next_pid)
    <3>1. CASE SpawnReady
      <4>1. /\ process_table' = process_table \cup {next_pid} /\ next_pid' = next_pid + 1
            /\ state' = [state EXCEPT ![next_pid] = "PROCESS_ACTIVE"]
            /\ next_pid \in Int /\ p \in Int /\ state \in [Pids -> States]
        BY <3>1, CTypes, KernelAssumption DEF SpawnReady, Pids
      <4>2. Present(p) /\ (p >= next_pid' => p >= next_pid)
        BY <2>2, <4>1 DEF Present
      <4>3. p = next_pid => state[p] = "PROCESS_ACTIVE"
        BY <1>1, <1>2, <4>1, <4>2 DEF StaleInv, Parked, Pending
      <4> QED
        BY <4>1, <4>2, <4>3
    <3>2. CASE UNCHANGED <<next_pid, process_table, state>>
      BY <2>2, <3>2 DEF Present
    <3> QED
      BY <1>3, <3>1, <3>2 DEF kernel_load_module, kernel_spawn_process, Halt
  <2>3. RegisterTypes'
    BY <1>0, <1>1, <2>1 DEF RegisterTypes
  <2>4. ParkedInv'
    BY <1>0, <1>2, <2>1, <2>2, ParkedKept DEF ParkedInv
  <2>5. StaleInv'
    BY <1>0, <1>1, <2>2 DEF StaleInv
  <2>6. RunInv'
    BY <2>1 DEF RunInv, Calling
  <2> QED
    BY <1>1, <2>3, <2>4, <2>5, <2>6 DEF RegisterInv
<1>4. CASE EnterFirstProcess
  <2>1. /\ kernel_advance_scheduler(active_process, priority_queue)
        /\ UNCHANGED <<next_pid, process_table, state, received>>
    BY <1>4 DEF EnterFirstProcess, histories
  <2>2. \A p \in Pids : Present(p)' => Present(p) /\ Parked(p)'
    BY <1>0, <1>2, <2>1, ParkedKept DEF Present
  <2>3. ParkedInv' /\ StaleInv'
    BY <1>0, <1>1, <2>1, <2>2 DEF ParkedInv, StaleInv
  <2>4. CASE mode' = "running"
    <3>1. PICK p \in Pids : /\ p = active_process' /\ p \in process_table
                            /\ state[p] = "PROCESS_ACTIVE"
      BY <2>1, <2>4, EnterRunnable, CTypes
    <3>2. Present(p)' /\ regs' = load_context(ctx'[p]) /\ state'[p] = "PROCESS_ACTIVE"
      BY <1>0, <2>1, <2>4, <3>1 DEF Present
    <3>3. RunInv'
      BY <1>1, <2>2, <3>1, <3>2, Entering
    <3>4. regs' \in [Registers -> Values]
      <4>1. ctx'[p] \in [Words -> Values]
        BY <1>0, <1>1 DEF RegisterTypes
      <4> QED
        BY <3>2, <4>1, LoadedValues
    <3> QED
      BY <1>0, <1>1, <2>3, <3>3, <3>4 DEF RegisterInv, RegisterTypes
  <2>5. CASE mode' # "running"
    BY <1>0, <1>1, <2>3, <2>5 DEF RegisterInv, RegisterTypes, RunInv, Calling
  <2> QED
    BY <2>4, <2>5
<1> QED
  BY <1>3, <1>4 DEF Boot

\* What an entry records of the process that made it.
LEMMA LeaveRecords ==
  ASSUME CInv, UserInv, RegisterTypes, mode = "running",
         NEW generation \in BOOLEAN, NEW how \in Hows,
         Leave(File(User, generation), how)
  PROVE  /\ own' \in [Pids -> [Registers -> Values]]
         /\ left' \in [Pids -> [how : Hows, received : Nat]]
         /\ File(User, generation) \in [Registers -> Values]
         /\ own'[User] = File(User, generation)
         /\ left'[User] = [how |-> how, received |-> Len(received[User])]
         /\ \A p \in Pids : p # User => own'[p] = own[p] /\ left'[p] = left[p]
<1>1. User \in Pids
  BY UserIsGone
<1>2. PICK file \in [Registers -> ValuesOf(User)] : file = File(User, generation)
  BY FileValues
<1>3. file \in [Registers -> Values]
  BY <1>1, <1>2, ValuesOfProcess
<1>4. Len(received[User]) \in Nat
  BY <1>1, CTypes
<1>5. /\ own' = [own EXCEPT ![User] = file]
      /\ left' = [left EXCEPT ![User] = [how |-> how, received |-> Len(received[User])]]
      /\ own \in [Pids -> [Registers -> Values]]
      /\ left \in [Pids -> [how : Hows, received : Nat]]
  BY <1>2 DEF Leave, RegisterTypes
<1> QED
  BY <1>1, <1>2, <1>3, <1>4, <1>5

LEMMA PreemptRegisters ==
  ASSUME CInv, UserInv, RegisterInv, Preempt
  PROVE  RegisterInv'
<1>1. PICK generation \in BOOLEAN :
        /\ ctx' = IF active_process = NULL THEN ctx
                  ELSE [ctx EXCEPT ![active_process] = StoredContext(File(User, generation))]
        /\ regs' = IF mode' = "running" THEN load_context(ctx'[active_process']) ELSE regs
        /\ saved' = [saved EXCEPT ![User] = File(User, generation)]
        /\ Leave(File(User, generation), "isr_preempt")
  BY DEF Preempt, Storing
<1>2. /\ mode = "running"
      /\ kernel_advance_scheduler(active_process, priority_queue)
      /\ UNCHANGED <<next_pid, process_table, state, received, interrupt_handlers, leaked>>
  BY DEF Preempt, isr_preempt, Running, histories, signals
<1>3. RegisterTypes /\ ContextInv /\ ParkedInv /\ StaleInv
  BY DEF RegisterInv
<1>4. PICK file : file = File(User, generation)
  OBVIOUS
<1>5. /\ own' \in [Pids -> [Registers -> Values]]
      /\ left' \in [Pids -> [how : Hows, received : Nat]]
      /\ file \in [Registers -> Values]
      /\ own'[User] = file
      /\ left'[User] = [how |-> "isr_preempt", received |-> Len(received[User])]
      /\ \A p \in Pids : p # User => own'[p] = own[p] /\ left'[p] = left[p]
  BY <1>1, <1>2, <1>3, <1>4, LeaveRecords DEF Hows
<1>6. /\ saved' \in [Pids -> [Registers -> Values]]
      /\ saved'[User] = file
      /\ \A p \in Pids : p # User => saved'[p] = saved[p]
  BY <1>1, <1>2, <1>3, <1>4, <1>5, UserIsGone DEF RegisterTypes
<1>7. /\ ctx' \in [Pids -> [Words -> Values]]
      /\ ContextInv'
      /\ \A p \in Pids : p # active_process => ctx'[p] = ctx[p]
      /\ active_process # NULL => ctx'[active_process] = StoredContext(file)
  <2>1. CASE active_process = NULL
    BY <1>1, <1>3, <2>1 DEF RegisterTypes, ContextInv
  <2>2. CASE active_process # NULL
    <3>1. active_process = User /\ User \in Pids
      BY <1>2, <2>2, UserIsGone
    <3>2. PICK words \in [Words -> ValuesOf(User)] : words = StoredContext(file)
      BY <1>4, <3>1, StoredValues
    <3>3. words \in [Words -> Values]
      BY <3>1, <3>2, ValuesOfProcess
    <3>4. ctx \in [Pids -> [Words -> Values]] /\ ctx' = [ctx EXCEPT ![User] = words]
      BY <1>1, <1>3, <1>4, <2>2, <3>1, <3>2 DEF RegisterTypes
    <3>5. ContextInv'
      BY <1>3, <3>1, <3>2, <3>4 DEF ContextInv
    <3> QED
      BY <3>1, <3>2, <3>3, <3>4, <3>5
  <2> QED
    BY <2>1, <2>2
<1>8. ASSUME NEW p \in Pids, Present(p)
      PROVE  /\ Parked(p)'
             /\ \A r \in Others : load_context(ctx'[p])[r] = saved'[p][r]
             /\ p >= next_pid => left'[p].how = "spawn"
  <2>1. CASE p = active_process
    <3>1. p = User /\ active_process # NULL /\ p < next_pid
      BY <1>2, <2>1, UserIsGone, NullIsNoProcess
    <3>2. state'[p] = "PROCESS_ACTIVE"
      BY <1>2, <2>1, <3>1, CTypes
    <3>3. \A r \in Registers : load_context(ctx'[p])[r] = file[r]
      BY <1>7, <2>1, <3>1, LoadStored
    <3>4. Faithful(load_context(ctx'[p]), own'[p], saved'[p], left'[p], Len(received'[p]))
      BY <1>5, <3>1, <3>3, OffsetRange DEF Faithful
    <3>5. \A r \in Others : load_context(ctx'[p])[r] = saved'[p][r]
      BY <1>6, <3>1, <3>3, OffsetRange
    <3>6. ~(p >= next_pid)
      BY <3>1, CTypes, KernelAssumption DEF Pids
    <3> QED
      BY <3>2, <3>4, <3>5, <3>6 DEF Parked
  <2>2. CASE p # active_process
    <3>1. p # User
      BY <1>2, <1>8, <2>2, UserIsGone
    <3>2. Parked(p)
      BY <1>3, <1>8, <2>2 DEF ParkedInv
    <3>3. Parked(p)'
      BY <1>2, <1>5, <1>6, <1>7, <2>2, <3>1, <3>2, ParkedKept
    <3> QED
      BY <1>3, <1>5, <1>6, <1>7, <1>8, <2>2, <3>1, <3>3 DEF StaleInv
  <2> QED
    BY <2>1, <2>2
<1>9. \A p \in Pids : Present(p)' = Present(p)
  BY <1>2 DEF Present
<1>10. ParkedInv' /\ StaleInv'
  BY <1>2, <1>8, <1>9 DEF ParkedInv, StaleInv
<1>11. RunInv' /\ regs' \in [Registers -> Values]
  <2>1. CASE mode' = "running"
    <3>1. PICK p \in Pids : /\ p = active_process' /\ p \in process_table
                            /\ state[p] = "PROCESS_ACTIVE"
      BY <1>2, <2>1, EnterRunnable, CTypes
    <3>2. Present(p) /\ regs' = load_context(ctx'[p]) /\ state'[p] = "PROCESS_ACTIVE"
      BY <1>1, <1>2, <2>1, <3>1 DEF Present
    <3>3. RunInv'
      BY <1>7, <1>8, <3>1, <3>2, Entering
    <3>4. ctx'[p] \in [Words -> Values]
      BY <1>7
    <3> QED
      BY <3>2, <3>3, <3>4, LoadedValues
  <2>2. CASE mode' # "running"
    BY <1>1, <1>3, <2>2 DEF RunInv, Calling, RegisterTypes
  <2> QED
    BY <2>1, <2>2
<1> QED
  BY <1>2, <1>3, <1>5, <1>6, <1>7, <1>10, <1>11 DEF RegisterInv, RegisterTypes

LEMMA WokenLoads ==
  ASSUME NEW V, NEW words \in [Words -> V]
  PROVE  /\ Woken(words) \in [Words -> V \cup {<<"ENONE">>}]
         /\ load_context(Woken(words))["eax"] = <<"ENONE">>
         /\ \A r \in Frame \cup Others :
              load_context(Woken(words))[r] = load_context(words)[r]
<1>1. /\ Woken(words) = [words EXCEPT ![0] = <<"ENONE">>]
      /\ 0 \in Words /\ DOMAIN words = Words
  BY DEF Woken, set_context_return, Words
<1>2. /\ Woken(words)[0] = <<"ENONE">>
      /\ \A w \in Words \ {0} : Woken(words)[w] = words[w]
  BY <1>1
<1>3. load_context(Woken(words))["eax"] = <<"ENONE">>
  BY <1>2, LoadRegister, Offsets, OffsetRange
<1>4. \A r \in Frame \cup Others : r \in Registers /\ Offset[r] \in Words \ {0}
  BY OffsetRange DEF Words
<1>5. Woken(words) \in [Words -> V \cup {<<"ENONE">>}]
  BY <1>1
<1> QED
  BY <1>2, <1>3, <1>4, <1>5, LoadRegister

\* A system call stores the frame of its caller and the result of the process
\* that it wakes.
LEMMA CallContexts ==
  ASSUME CInv, UserInv, RegisterTypes, ContextInv, mode = "running",
         NEW generation \in BOOLEAN,
         ctx' = ContextsAfter(File(User, generation)),
         NEW p \in Pids
  PROVE  /\ ctx'[p] \in [Words -> ValuesOf(p)]
         /\ \A r \in Others : load_context(ctx'[p])[r] = load_context(ctx[p])[r]
         /\ p = active_process =>
              \A r \in Frame : load_context(ctx'[p])[r] = File(User, generation)[r]
         /\ p # active_process /\ state'[p] = state[p] => ctx'[p] = ctx[p]
         /\ p # active_process /\ Wakes(p) =>
              /\ load_context(ctx'[p])["eax"] = <<"ENONE">>
              /\ \A r \in Frame : load_context(ctx'[p])[r] = load_context(ctx[p])[r]
<1>1. ctx[p] \in [Words -> ValuesOf(p)]
  BY ContextAt
<1>2. CASE p = active_process
  <2>1. p = User
    BY <1>2, UserIsGone, NullIsNoProcess
  <2>2. ctx'[p] = StoredFrame(ctx[p], File(p, generation))
    BY <1>2, <2>1 DEF ContextsAfter
  <2>3. ctx'[p] \in [Words -> ValuesOf(p)]
    BY <1>1, <2>2, FrameStoredValues
  <2>4. /\ \A r \in Frame : load_context(ctx'[p])[r] = File(p, generation)[r]
        /\ \A r \in Others : load_context(ctx'[p])[r] = load_context(ctx[p])[r]
    BY <1>1, <2>2, LoadFrameStored
  <2> QED
    BY <1>2, <2>1, <2>3, <2>4
<1>3. CASE p # active_process /\ state[p] = "PROCESS_REQUESTING" /\ state'[p] = "PROCESS_ACTIVE"
  <2>1. ctx'[p] = Woken(ctx[p])
    BY <1>3 DEF ContextsAfter
  <2>2. /\ Woken(ctx[p]) \in [Words -> ValuesOf(p) \cup {<<"ENONE">>}]
        /\ load_context(Woken(ctx[p]))["eax"] = <<"ENONE">>
        /\ \A r \in Frame \cup Others :
             load_context(Woken(ctx[p]))[r] = load_context(ctx[p])[r]
    BY <1>1, WokenLoads
  <2>3. ValuesOf(p) \cup {<<"ENONE">>} = ValuesOf(p)
    BY DEF ValuesOf, Names
  <2> QED
    BY <1>3, <2>1, <2>2, <2>3
<1>4. CASE p # active_process /\ ~(state[p] = "PROCESS_REQUESTING" /\ state'[p] = "PROCESS_ACTIVE")
  <2>1. ctx'[p] = ctx[p]
    BY <1>4 DEF ContextsAfter
  <2> QED
    BY <1>1, <1>4, <2>1 DEF Wakes
<1> QED
  BY <1>2, <1>3, <1>4

\* A process that waited for a message, and has got one, can go on.
LEMMA WokenParked ==
  ASSUME RegisterTypes, StaleInv, NEW p \in Pids, Present(p), Parked(p), Wakes(p),
         \A r \in Others : load_context(ctx'[p])[r] = load_context(ctx[p])[r],
         load_context(ctx'[p])["eax"] = <<"ENONE">>,
         \A r \in Frame : load_context(ctx'[p])[r] = load_context(ctx[p])[r],
         own'[p] = own[p] /\ saved'[p] = saved[p] /\ left'[p] = left[p]
  PROVE  Parked(p)'
<1>1. Pending(load_context(ctx[p]), own[p], left[p], Len(received[p]))
  BY DEF Parked, Wakes
<1>2. \A r \in Others : load_context(ctx[p])[r] = saved[p][r]
  BY DEF StaleInv
<1>3. left[p].how = "receive" /\ Len(received'[p]) = left[p].received + 1
  BY <1>1 DEF Pending, Wakes
<1>4. Faithful(load_context(ctx'[p]), own'[p], saved'[p], left'[p], Len(received'[p]))
  BY <1>1, <1>2, <1>3 DEF Faithful, Pending
<1> QED
  BY <1>4 DEF Parked, Wakes

LEMMA SyscallRegisters ==
  ASSUME CInv, UserInv, RegisterInv, Syscall
  PROVE  RegisterInv'
<1>1. PICK generation \in BOOLEAN :
        /\ ctx' = ContextsAfter(File(User, generation))
        /\ regs' = CASE mode' # "running" -> regs
                     [] mode' = "running" /\ Blocked -> load_context(ctx'[active_process'])
                     [] OTHER -> Returned(File(User, generation))
        /\ Leave(File(User, generation), IF Blocked THEN "receive" ELSE "return")
  BY DEF Syscall
<1>2. /\ mode = "running"
      /\ UNCHANGED <<saved, interrupt_handlers, leaked>>
  BY DEF Syscall, KernelCall, signals, send, receive_message, kernel_create_port,
         kernel_remove_port, terminate_self, TerminateOther, SyscallOfTerminated,
         do_syscall, Running
<1>3. RegisterTypes /\ ContextInv /\ ParkedInv /\ StaleInv
  BY DEF RegisterInv
<1>4. CallEffect
  <2>1. SyscallStep
    BY SyscallIsStep DEF Syscall, KernelCall, CInv
  <2> QED
    BY <2>1, CallHasEffect
<1>5. PICK file : file = File(User, generation)
  OBVIOUS
<1>6. PICK how \in Hows : how = IF Blocked THEN "receive" ELSE "return"
  BY DEF Hows
<1>7. /\ own' \in [Pids -> [Registers -> Values]]
      /\ left' \in [Pids -> [how : Hows, received : Nat]]
      /\ file \in [Registers -> Values]
      /\ own'[User] = file
      /\ left'[User] = [how |-> how, received |-> Len(received[User])]
      /\ \A p \in Pids : p # User => own'[p] = own[p] /\ left'[p] = left[p]
  BY <1>1, <1>2, <1>3, <1>5, <1>6, LeaveRecords
<1>8. \A p \in Pids :
        /\ ctx'[p] \in [Words -> ValuesOf(p)]
        /\ \A r \in Others : load_context(ctx'[p])[r] = load_context(ctx[p])[r]
        /\ p = active_process => \A r \in Frame : load_context(ctx'[p])[r] = file[r]
        /\ p # active_process /\ state'[p] = state[p] => ctx'[p] = ctx[p]
        /\ p # active_process /\ Wakes(p) =>
             /\ load_context(ctx'[p])["eax"] = <<"ENONE">>
             /\ \A r \in Frame : load_context(ctx'[p])[r] = load_context(ctx[p])[r]
  BY <1>1, <1>2, <1>3, <1>5, CallContexts
<1>9. ctx' \in [Pids -> [Words -> Values]] /\ ContextInv'
  <2>1. \A p \in Pids : ctx'[p] \in [Words -> Values]
    BY <1>8, ValuesOfProcess
  <2>2. ctx' = [p \in Pids |-> ctx'[p]]
    BY <1>1 DEF ContextsAfter
  <2> QED
    BY <1>8, <2>1, <2>2 DEF ContextInv
<1>10. \A p \in Pids : Present(p)' => Present(p)
  BY <1>4 DEF CallEffect, Present
<1>11. StaleInv'
  <2>1. \A p \in Pids : p >= next_pid => p # User
    BY <1>2, UserIsGone, CTypes, KernelAssumption DEF Pids
  <2> QED
    BY <1>2, <1>3, <1>4, <1>7, <1>8, <1>10, <2>1 DEF StaleInv, CallEffect
<1>12. ASSUME NEW p \in Pids, Present(p), p # active_process
       PROVE  Parked(p)'
  <2>1. Parked(p) /\ p # User
    BY <1>2, <1>3, <1>12, UserIsGone DEF ParkedInv
  <2>2. CASE Wakes(p)
    BY <1>2, <1>3, <1>7, <1>8, <1>12, <2>1, <2>2, WokenParked
  <2>3. CASE state'[p] = state[p] /\ received'[p] = received[p]
    BY <1>2, <1>7, <1>8, <1>12, <2>1, <2>3, ParkedKept
  <2> QED
    BY <1>4, <1>12, <2>2, <2>3 DEF CallEffect
<1>13. CASE Returns
  <2>1. ~Blocked
    BY <1>13 DEF Blocked, Returns
  <2>2. ParkedInv'
    <3>1. PICK caller : caller = active_process
      OBVIOUS
    <3>2. caller # NULL /\ caller # active_process' => ~Present(caller)'
      <4>1. active_process # NULL => active_process < next_pid'
        BY <1>4, CTypes DEF CallEffect
      <4>2. active_process # NULL => ~(active_process >= next_pid')
        BY <1>4, <4>1, CTypes, KernelAssumption DEF CallEffect, Pids
      <4> QED
        BY <1>13, <3>1, <4>2 DEF Returns, Present
    <3> QED
      BY <1>10, <1>12, <3>1, <3>2, NullIsNoProcess DEF ParkedInv
  <2>3. CASE mode' = "running"
    <3>1. PICK loaded \in [Registers -> ValuesOf(User)] :
            /\ loaded = Returned(file)
            /\ \A r \in Frame : loaded[r] = file[r]
      BY <1>5, ReturnedValues
    <3>2. regs' = loaded /\ how = "return"
      BY <1>1, <1>5, <1>6, <2>1, <2>3, <3>1
    <3>3. loaded \in [Registers -> Values]
      BY <1>2, <3>1, UserIsGone, ValuesOfProcess
    <3>4. active_process' # NULL => active_process' = User
      BY <1>2, <1>13, UserIsGone DEF Returns
    <3>5. Faithful(regs', own'[User], saved'[User], left'[User], Len(received'[User]))
      BY <1>7, <3>1, <3>2 DEF Faithful
    <3>6. RunInv'
      BY <3>1, <3>2, <3>4, <3>5 DEF RunInv, Calling
    <3> QED
      BY <1>2, <1>3, <1>7, <1>9, <1>11, <2>2, <3>2, <3>3, <3>6 DEF RegisterInv, RegisterTypes
  <2>4. CASE mode' # "running"
    BY <1>1, <1>2, <1>3, <1>7, <1>9, <1>11, <2>2, <2>4
    DEF RegisterInv, RegisterTypes, RunInv, Calling
  <2> QED
    BY <2>3, <2>4
<1>14. CASE Sleeps
  <2>1. /\ active_process \in Pids /\ active_process = User /\ active_process # NULL
        /\ state'[active_process] = "PROCESS_REQUESTING"
        /\ received' = received
    BY <1>2, <1>14, UserIsGone, CTypes DEF Sleeps, Calling
  <2>2. Blocked /\ how = "receive"
    BY <1>6, <1>14, <2>1 DEF Blocked, Sleeps
  <2>3. \A p \in Pids : p = active_process => Parked(p)'
    <3>1. Pending(load_context(ctx'[User]), own'[User], left'[User], Len(received'[User]))
      BY <1>7, <1>8, <2>1, <2>2 DEF Pending
    <3> QED
      BY <2>1, <3>1 DEF Parked
  <2>4. ParkedInv'
    BY <1>10, <1>12, <2>3 DEF ParkedInv
  <2>5. CASE mode' = "running"
    <3>1. PICK p \in Pids : /\ p = active_process' /\ p \in process_table
                            /\ state[p] = "PROCESS_ACTIVE" /\ p # active_process
      BY <1>14, <2>5, CTypes DEF Sleeps, Runnable
    <3>2. /\ Present(p) /\ regs' = load_context(ctx'[p])
          /\ state'[p] = "PROCESS_ACTIVE"
      BY <1>1, <1>14, <2>2, <2>5, <3>1, CTypes DEF Present, Sleeps
    <3>3. RunInv'
      BY <1>9, <1>12, <3>1, <3>2, Entering
    <3>4. ctx'[p] \in [Words -> Values]
      BY <1>9
    <3>5. regs' \in [Registers -> Values]
      BY <3>2, <3>4, LoadedValues
    <3> QED
      BY <1>2, <1>3, <1>7, <1>9, <1>11, <2>4, <3>3, <3>5 DEF RegisterInv, RegisterTypes
  <2>6. CASE mode' # "running"
    BY <1>1, <1>2, <1>3, <1>7, <1>9, <1>11, <2>4, <2>6
    DEF RegisterInv, RegisterTypes, RunInv, Calling
  <2> QED
    BY <2>5, <2>6
<1> QED
  BY <1>4, <1>13, <1>14 DEF CallEffect

\* Steps that only change the table of handlers or the heap, or halt.
LEMMA RegistersKept ==
  ASSUME RegisterInv,
         UNCHANGED <<registers, next_pid, process_table, state, received, active_process>>,
         mode' \in {mode} \cup Halted,
         interrupt_handlers' \in [Interrupts -> Pids \cup {NULL}], leaked' \in Nat
  PROVE  RegisterInv'
<1>1. RegisterTypes'
  BY DEF RegisterInv, RegisterTypes, registers
<1>2. ContextInv' /\ StaleInv'
  BY DEF RegisterInv, ContextInv, StaleInv, Present, registers
<1>3. ParkedInv'
  BY DEF RegisterInv, ParkedInv, Parked, Present, registers
<1>4. RunInv'
  BY DEF RegisterInv, RunInv, Calling, Halted, registers
<1> QED
  BY <1>1, <1>2, <1>3, <1>4 DEF RegisterInv

\* A call of a handler changes the stack pointer and the program counter that
\* are stored for a process.
LEMMA HandlerContext ==
  ASSUME NEW p, NEW words \in [Words -> ValuesOf(p)]
  PROVE  LET called == context_call_func(context_stack_push(words)) IN
         /\ called \in [Words -> ValuesOf(p)]
         /\ \A r \in Others : load_context(called)[r] = load_context(words)[r]
<1> DEFINE called == context_call_func(context_stack_push(words))
<1>1. <<"pushed">> \in ValuesOf(p) /\ <<"handler">> \in ValuesOf(p)
  BY DEF ValuesOf, Names
<1>2. /\ called \in [Words -> ValuesOf(p)]
      /\ \A w \in 0..6 : called[w] = words[w]
  BY <1>1 DEF context_call_func, context_stack_push, Words
<1> HIDE DEF called
<1>3. \A r \in Others : r \in Registers /\ called[Offset[r]] = words[Offset[r]]
  BY <1>2, OffsetRange
<1>4. \A r \in Others : load_context(called)[r] = load_context(words)[r]
  BY <1>3, LoadRegister
<1> QED
  BY <1>2, <1>4 DEF called

LEMMA HandlerRegisters ==
  ASSUME CInv, RegisterInv, NEW p \in process_table,
         ctx' = [ctx EXCEPT ![p] = context_call_func(context_stack_push(@))],
         own' = IF p = active_process THEN own ELSE [own EXCEPT ![p] = load_context(ctx'[p])],
         left' = IF p = active_process THEN left ELSE [left EXCEPT ![p].how = "handler"],
         state' = [state EXCEPT ![p] = "PROCESS_ACTIVE"],
         UNCHANGED <<regs, saved, interrupt_handlers, leaked, mode, active_process,
                     next_pid, process_table, received>>
  PROVE  RegisterInv'
<1>1. RegisterTypes /\ ContextInv /\ ParkedInv /\ StaleInv /\ RunInv
  BY DEF RegisterInv
<1>2. p \in Pids /\ p < next_pid /\ ~(p >= next_pid) /\ state \in [Pids -> States]
  BY CTypes, KernelAssumption DEF Pids
<1>3. PICK words \in [Words -> ValuesOf(p)] :
        /\ words = context_call_func(context_stack_push(ctx[p]))
        /\ \A r \in Others : load_context(words)[r] = load_context(ctx[p])[r]
  BY <1>1, <1>2, ContextAt, HandlerContext
<1>4. words \in [Words -> Values]
  BY <1>2, <1>3, ValuesOfProcess
<1>5. /\ ctx' \in [Pids -> [Words -> Values]] /\ ctx'[p] = words
      /\ \A q \in Pids : q # p => ctx'[q] = ctx[q]
  BY <1>1, <1>2, <1>3, <1>4 DEF RegisterTypes
<1>6. ContextInv'
  BY <1>1, <1>3, <1>5 DEF ContextInv
<1>7. /\ own' \in [Pids -> [Registers -> Values]]
      /\ \A q \in Pids : q # p => own'[q] = own[q]
      /\ p # active_process => own'[p] = load_context(ctx'[p])
      /\ p = active_process => own' = own
  <2>1. load_context(words) \in [Registers -> Values]
    BY <1>4, LoadedValues
  <2> QED
    BY <1>1, <1>2, <1>5, <2>1 DEF RegisterTypes
<1>8. /\ left' \in [Pids -> [how : Hows, received : Nat]]
      /\ \A q \in Pids : q # p => left'[q] = left[q]
      /\ p # active_process => left'[p].how = "handler"
      /\ p = active_process => left' = left
  BY <1>1, <1>2 DEF RegisterTypes, Hows
<1>9. RegisterTypes'
  BY <1>1, <1>5, <1>7, <1>8 DEF RegisterTypes
<1>10. StaleInv'
  <2> SUFFICES ASSUME NEW q \in Pids, Present(q)'
               PROVE  /\ \A r \in Others : load_context(ctx'[q])[r] = saved'[q][r]
                      /\ q >= next_pid' => left'[q].how = "spawn"
    BY DEF StaleInv
  <2>1. /\ \A r \in Others : load_context(ctx[q])[r] = saved[q][r]
        /\ q >= next_pid => left[q].how = "spawn"
    BY <1>1 DEF StaleInv, Present
  <2> QED
    BY <1>2, <1>3, <1>5, <1>8, <2>1
<1>11. ParkedInv'
  <2> SUFFICES ASSUME NEW q \in Pids, Present(q)', q # active_process
               PROVE  Parked(q)'
    BY DEF ParkedInv
  <2>1. CASE q = p
    <3>1. Faithful(load_context(ctx'[p]), own'[p], saved'[p], left'[p], Len(received'[p]))
      BY <1>7, <1>8, <2>1 DEF Faithful
    <3> QED
      BY <1>2, <2>1, <3>1 DEF Parked
  <2>2. CASE q # p
    <3>1. Parked(q)
      BY <1>1 DEF ParkedInv, Present
    <3> QED
      BY <1>2, <1>5, <1>7, <1>8, <2>2, <3>1, ParkedKept
  <2> QED
    BY <2>1, <2>2
<1>12. RunInv'
  <2>1. active_process # NULL =>
          /\ own'[active_process] = own[active_process]
          /\ left'[active_process] = left[active_process]
    BY <1>7, <1>8, CTypes
  <2> QED
    BY <1>1, <2>1 DEF RunInv, Calling
<1> QED
  BY <1>6, <1>9, <1>10, <1>11, <1>12 DEF RegisterInv

LEMMA SignalRegisters ==
  ASSUME CInv, RegisterInv, Signals
  PROVE  RegisterInv'
<1>0. /\ interrupt_handlers \in [Interrupts -> Pids \cup {NULL}] /\ leaked \in Nat
      /\ active_process \in Pids \cup {NULL}
  BY DEF RegisterInv, RegisterTypes, CInv, CoreInv, TypeOK
<1>1. PICK i \in Interrupts :
        \/ kernel_register_interrupt_handler(i)
        \/ kernel_remove_interrupt_handler(i)
        \/ kernel_execute_interrupt_handler(i)
        \/ HandlerFaults(i)
  BY DEF Signals
<1>2. CASE kernel_register_interrupt_handler(i)
  <2>1. /\ UNCHANGED <<registers, next_pid, process_table, state, received, active_process>>
        /\ mode' \in {mode} \cup Halted
        /\ interrupt_handlers' \in [Interrupts -> Pids \cup {NULL}] /\ leaked' \in Nat
    BY <1>0, <1>2
    DEF kernel_register_interrupt_handler, Halt, Halted, histories, sched, signals
  <2> QED
    BY <2>1, RegistersKept
<1>3. CASE kernel_remove_interrupt_handler(i)
  <2>1. /\ UNCHANGED <<registers, next_pid, process_table, state, received, active_process>>
        /\ mode' \in {mode} \cup Halted
        /\ interrupt_handlers' \in [Interrupts -> Pids \cup {NULL}] /\ leaked' \in Nat
    BY <1>0, <1>3 DEF kernel_remove_interrupt_handler, histories, sched
  <2> QED
    BY <2>1, RegistersKept
<1>4. CASE kernel_execute_interrupt_handler(i)
  <2>1. PICK p : p = interrupt_handlers[i]
    OBVIOUS
  <2>2. CASE p \notin process_table
    <3>1. /\ UNCHANGED <<registers, next_pid, process_table, state, received, active_process>>
          /\ mode' \in {mode} \cup Halted
          /\ interrupt_handlers' \in [Interrupts -> Pids \cup {NULL}] /\ leaked' \in Nat
      BY <1>0, <1>4, <2>1, <2>2 DEF kernel_execute_interrupt_handler, histories
    <3> QED
      BY <3>1, RegistersKept
  <2>3. CASE p \in process_table
    BY <1>4, <2>1, <2>3, HandlerRegisters
    DEF kernel_execute_interrupt_handler, MakeReady, signals, histories
  <2> QED
    BY <2>2, <2>3
<1>5. CASE HandlerFaults(i)
  <2>1. /\ UNCHANGED <<registers, next_pid, process_table, state, received, active_process>>
        /\ mode' \in {mode} \cup Halted
        /\ UNCHANGED <<interrupt_handlers, leaked>>
    BY <1>5 DEF HandlerFaults, Halt, Halted, histories, signals
  <2> QED
    BY <1>0, <2>1, RegistersKept
<1> QED
  BY <1>1, <1>2, <1>3, <1>4, <1>5

(***************************************************************************)
(* The theorems                                                            *)
(***************************************************************************)

CIInv == CInv /\ UserInv /\ RegisterInv

LEMMA InitRegisters ==
  ASSUME CInit
  PROVE  RegisterInv
<1>1. PICK words \in [Words -> Names] : words = InitialContext
  <2>1. [w \in Words |-> <<"zero">>] \in [Words -> Names]
    BY DEF Names
  <2>2. InitialContext \in [Words -> Names]
    BY <2>1 DEF InitialContext, set_context_stack, set_context_flags, set_context_pc, Names
  <2> QED
    BY <2>2
<1>2. Names \subseteq Values /\ \A p \in Pids : Names \subseteq ValuesOf(p)
  <2>1. Names \subseteq Values
    BY DEF Values
  <2>2. \A p \in Pids : Names \subseteq ValuesOf(p)
    BY DEF ValuesOf
  <2> QED
    BY <2>1, <2>2
<1>3. PICK file \in [Registers -> Values] : file = load_context(words)
  <2>1. words \in [Words -> Values]
    BY <1>1, <1>2
  <2> QED
    BY <2>1, LoadedValues
<1>4. /\ ctx = [p \in Pids |-> words] /\ regs = file
      /\ interrupt_handlers = [i \in Interrupts |-> NULL] /\ leaked = 0
      /\ own = [p \in Pids |-> file] /\ saved = own
      /\ left = [p \in Pids |-> [how |-> "spawn", received |-> 0]]
      /\ state = [p \in Pids |-> "PROCESS_ACTIVE"]
      /\ active_process = NULL
  BY <1>1, <1>3 DEF CInit, Init
<1>5. RegisterTypes
  BY <1>1, <1>2, <1>3, <1>4 DEF RegisterTypes, Hows
<1>6. ContextInv
  BY <1>1, <1>2, <1>4 DEF ContextInv
<1>7. StaleInv
  BY <1>3, <1>4 DEF StaleInv
<1>8. ParkedInv
  <2> SUFFICES ASSUME NEW p \in Pids
               PROVE  Parked(p)
    BY DEF ParkedInv
  <2>1. Faithful(load_context(ctx[p]), own[p], saved[p], left[p], Len(received[p]))
    BY <1>3, <1>4 DEF Faithful
  <2> QED
    BY <1>4, <2>1 DEF Parked
<1>9. RunInv
  BY <1>4 DEF RunInv, Calling
<1> QED
  BY <1>5, <1>6, <1>7, <1>8, <1>9 DEF RegisterInv

LEMMA InitCIInv == CInit => CIInv
<1> SUFFICES ASSUME CInit
             PROVE  CIInv
  OBVIOUS
<1>1. IInv /\ Init
  BY InitIInv DEF CInit
<1>2. CInv /\ UserInv
  BY <1>1 DEF IInv, Init, CInv, DeadQueuesEmpty, UserInv
<1> QED
  BY <1>2, InitRegisters DEF CIInv

LEMMA NextCIInv == CIInv /\ [CNext]_<<vars, registers, signals>> => CIInv'
<1> SUFFICES ASSUME CIInv, [CNext]_<<vars, registers, signals>>
             PROVE  CIInv'
  OBVIOUS
<1>1. CInv' /\ UserInv'
  BY KernelInv DEF CIInv, RegisterInv
<1>2. RegisterInv'
  <2>1. CASE Boot \/ Preempt \/ Syscall \/ Signals
    BY <2>1, BootRegisters, PreemptRegisters, SyscallRegisters, SignalRegisters DEF CIInv
  <2>2. CASE UNCHANGED <<vars, registers, signals>>
    BY <2>2, RegistersKept DEF CIInv, RegisterInv, RegisterTypes, vars, histories, signals
  <2> QED
    BY <2>1, <2>2 DEF CNext, Stopped
<1> QED
  BY <1>1, <1>2 DEF CIInv

\* The inductive invariant of the composition: the kernel's own invariant, who
\* is in user mode, and what the registers and the saved contexts hold.
THEOREM CInvariance == CSpec => []CIInv
BY InitCIInv, NextCIInv, PTL DEF CSpec

\* In user mode the active process is one of Pids.
LEMMA RunningFaithful ==
  ASSUME CIInv, NEW p \in Pids, InUserMode(p)
  PROVE  /\ Faithful(regs, own[p], saved[p], left[p], Len(received[p]))
         /\ \A r \in Registers : regs[r] \in ValuesOf(p)
BY NullIsNoProcess DEF CIInv, RegisterInv, RunInv, Calling, InUserMode

\* A process goes on where it entered the kernel, with its own stack and
\* flags: what do_syscall or isr_preempt stored is what load_context takes.
THEOREM ProcessesResume == CSpec => []ResumesWhereItLeft
<1>1. CIInv => ResumesWhereItLeft
  BY RunningFaithful DEF ResumesWhereItLeft, Faithful
<1> QED
  BY <1>1, CInvariance, PTL

\* A yield changes no register of the process that yields, whichever
\* processes and handlers have run before it goes on.
THEOREM YieldsTransparent == CSpec => []PreemptTransparent
<1>1. CIInv => PreemptTransparent
  <2> SUFFICES ASSUME CIInv, NEW p \in Pids, InUserMode(p), left[p].how = "isr_preempt"
               PROVE  regs = own[p]
    BY DEF PreemptTransparent
  <2>1. \A r \in Registers : regs[r] = own[p][r]
    BY RunningFaithful DEF Faithful
  <2>2. regs \in [Registers -> Values] /\ own[p] \in [Registers -> Values]
    BY DEF CIInv, RegisterInv, RegisterTypes
  <2> QED
    BY <2>1, <2>2
<1> QED
  BY <1>1, CInvariance, PTL

\* A receive that blocked returns ENONE, and with exactly one message more
\* than the process had.
THEOREM BlockedReceivesReturn == CSpec => []BlockedReceiveReturns
<1>1. CIInv => BlockedReceiveReturns
  BY RunningFaithful DEF BlockedReceiveReturns, Faithful
<1> QED
  BY <1>1, CInvariance, PTL

\* A receive that blocked gives back the registers of the last yield: of its
\* caller do_syscall has stored three words only.
THEOREM BlockedReceivesStale == CSpec => []BlockedReceiveStale
<1>1. CIInv => BlockedReceiveStale
  BY RunningFaithful DEF BlockedReceiveStale, Faithful, Others
<1> QED
  BY <1>1, CInvariance, PTL

\* No process sees a register of another, whatever kernel entries they made.
THEOREM RegistersSeparate == CSpec => []OwnRegisters
<1>1. CIInv => OwnRegisters
  BY RunningFaithful, OneOwner DEF OwnRegisters
<1> QED
  BY <1>1, CInvariance, PTL

\* The handlers for interrupts keep the ready queue exact: a process that
\* waits is put there once, one that is ready or running not again.
THEOREM HandlersKeepReadyQueue == CSpec => []ReadyExact
<1>1. CIInv => ReadyExact
  BY DEF CIInv, CInv, CoreInv
<1> QED
  BY <1>1, CInvariance, PTL

\* The blocks of the heap that actions take.
Handled == {i \in Interrupts : interrupt_handlers[i] # NULL}

LEMMA HandledFinite ==
  ASSUME RegisterTypes
  PROVE  IsFiniteSet(Handled) /\ Cardinality(Handled) \in Nat /\ leaked \in Nat
<1>1. Handled \in SUBSET Interrupts
  BY DEF Handled
<1>2. IsFiniteSet(Handled)
  BY <1>1, ContextAssumption, FS_Subset
<1> QED
  BY <1>2, FS_CardinalityType DEF RegisterTypes

\* A step that changes no table or queue of Kernel.
LEMMA BlocksMove ==
  ASSUME CInv, UNCHANGED <<process_table, message_queue, port_table, dropped>>,
         NEW change \in Int, heap_free' = heap_free + change
  PROVE  Blocks' = Blocks + change
<1>1. QueueLengths' = QueueLengths /\ OpenPorts' = OpenPorts
  BY LengthsFrame DEF OpenPorts
<1>2. BlocksInUse' = BlocksInUse /\ Total(dropped)' = Total(dropped)
  BY <1>1 DEF BlocksInUse, Total
<1>3. BlocksInUse \in Int /\ Total(dropped) \in Int /\ heap_free \in Int
  BY HeapTypes DEF CInv, BlocksInUse, SpawnBlocks, PortBlocks, MessageBlocks
<1> QED
  BY <1>2, <1>3 DEF Blocks

LEMMA BlocksType ==
  ASSUME CInv
  PROVE  Blocks \in Int
BY HeapTypes DEF CInv, Blocks, BlocksInUse, SpawnBlocks, PortBlocks, MessageBlocks

LEMMA ActionsStep ==
  ASSUME CInv, RegisterTypes, [CNext]_<<vars, registers, signals>>
  PROVE  Blocks' + 2 * Cardinality(Handled') + leaked' =
         Blocks + 2 * Cardinality(Handled) + leaked
<1>0. /\ Blocks \in Int /\ leaked \in Nat /\ Cardinality(Handled) \in Nat
      /\ IsFiniteSet(Handled) /\ heap_free \in Nat
      /\ interrupt_handlers \in [Interrupts -> Pids \cup {NULL}]
  BY BlocksType, HandledFinite DEF RegisterTypes, CInv, CoreInv, TypeOK
<1>1. CASE \/ Boot \/ Preempt \/ Syscall
           \/ Stopped /\ UNCHANGED <<registers, signals>>
           \/ UNCHANGED <<vars, registers, signals>>
  <2>1. [Next]_vars /\ UNCHANGED <<interrupt_handlers, leaked>>
    BY <1>1 DEF Boot, Preempt, Syscall, KernelCall, Next, signals
  <2>2. Step
    BY <2>1, NextIsStep DEF CInv
  <2>3. Blocks' = Blocks
    BY <2>2, HeapStep DEF CInv
  <2> QED
    BY <2>1, <2>3 DEF Handled
<1>2. CASE Signals
  <2>1. PICK i \in Interrupts :
          \/ kernel_register_interrupt_handler(i)
          \/ kernel_remove_interrupt_handler(i)
          \/ kernel_execute_interrupt_handler(i)
          \/ HandlerFaults(i)
    BY <1>2 DEF Signals
  <2>2. CASE Halt("fault") /\ UNCHANGED signals
    <3>1. UNCHANGED <<process_table, message_queue, port_table, heap_free, dropped,
                      interrupt_handlers, leaked>>
      BY <2>2 DEF Halt, histories, signals
    <3>2. Blocks' = Blocks
      BY <3>1, HeapFrame
    <3> QED
      BY <3>1, <3>2 DEF Handled
  <2>3. CASE kernel_register_interrupt_handler(i) /\ ~(Halt("fault") /\ UNCHANGED signals)
    <3>1. /\ heap_free' = heap_free + (-2) /\ leaked' = leaked
          /\ interrupt_handlers' = [interrupt_handlers EXCEPT ![i] = active_process]
          /\ active_process # NULL /\ interrupt_handlers[i] = NULL
          /\ UNCHANGED <<process_table, message_queue, port_table, dropped>>
      BY <1>0, <2>3
      DEF kernel_register_interrupt_handler, InKernel, ActionBlocks, histories, signals
    <3>2. Blocks' = Blocks + (-2)
      BY <3>1, BlocksMove
    <3>3. Handled' = Handled \cup {i} /\ i \notin Handled
      BY <1>0, <3>1 DEF Handled
    <3>4. Cardinality(Handled') = Cardinality(Handled) + 1
      BY <1>0, <3>3, FS_AddElement
    <3> QED
      BY <1>0, <3>1, <3>2, <3>4
  <2>4. CASE \/ kernel_remove_interrupt_handler(i)
             \/ kernel_execute_interrupt_handler(i) /\ interrupt_handlers[i] \notin process_table
    <3>1. /\ \/ heap_free' = heap_free + 2 /\ leaked' = leaked
             \/ heap_free' = heap_free + 1 /\ leaked' = leaked + 1
          /\ interrupt_handlers' = [interrupt_handlers EXCEPT ![i] = NULL]
          /\ interrupt_handlers[i] # NULL
          /\ UNCHANGED <<process_table, message_queue, port_table, dropped>>
      BY <1>0, <2>4
      DEF kernel_remove_interrupt_handler, kernel_execute_interrupt_handler, ActionBlocks,
          histories
    <3>2. Blocks' + leaked' = Blocks + leaked + 2
      <4>1. CASE heap_free' = heap_free + 2 /\ leaked' = leaked
        <5>1. Blocks' = Blocks + 2
          BY <3>1, <4>1, BlocksMove
        <5> QED
          BY <1>0, <4>1, <5>1
      <4>2. CASE heap_free' = heap_free + 1 /\ leaked' = leaked + 1
        <5>1. Blocks' = Blocks + 1
          BY <3>1, <4>2, BlocksMove
        <5> QED
          BY <1>0, <4>2, <5>1
      <4> QED
        BY <3>1, <4>1, <4>2
    <3>3. Blocks' \in Int /\ leaked' \in Int
      <4>1. \E change \in {1, 2} : heap_free' = heap_free + change
        BY <3>1
      <4>2. \E change \in {1, 2} : Blocks' = Blocks + change
        BY <3>1, <4>1, BlocksMove
      <4> QED
        BY <1>0, <3>1, <4>2
    <3>4. Handled' = Handled \ {i} /\ i \in Handled
      BY <1>0, <3>1 DEF Handled
    <3>5. Cardinality(Handled') = Cardinality(Handled) - 1
      BY <1>0, <3>4, FS_RemoveElement
    <3>6. PICK b, c, d, e, n \in Int :
            /\ b = Blocks' /\ c = leaked' /\ d = Blocks /\ e = leaked
            /\ n = Cardinality(Handled)
      BY <1>0, <3>3
    <3>7. b + c = d + e + 2
      BY <3>2, <3>6
    <3>8. b + 2 * (n - 1) + c = d + 2 * n + e
      BY <3>7
    <3> QED
      BY <3>5, <3>6, <3>8
  <2>5. CASE kernel_execute_interrupt_handler(i) /\ interrupt_handlers[i] \in process_table
    <3>1. UNCHANGED <<process_table, message_queue, port_table, heap_free, dropped,
                      interrupt_handlers, leaked>>
      BY <2>5 DEF kernel_execute_interrupt_handler, histories, signals
    <3>2. Blocks' = Blocks
      BY <3>1, HeapFrame
    <3> QED
      BY <3>1, <3>2 DEF Handled
  <2> QED
    BY <2>1, <2>2, <2>3, <2>4, <2>5 DEF HandlerFaults
<1> QED
  BY <1>1, <1>2 DEF CNext

\* Registering, removing and executing handlers balances the heap, except for
\* the action of a terminated process, which is lost when it is next to be
\* executed.
THEOREM ActionsBalanced == CSpec => []ActionsAccounted
<1>1. ActionsAccounted <=> Blocks + 2 * Cardinality(Handled) + leaked = HeapBlocks
  BY DEF ActionsAccounted, Blocks, Handled, ActionBlocks
<1>2. CInit => ActionsAccounted
  <2> SUFFICES ASSUME CInit
               PROVE  ActionsAccounted
    OBVIOUS
  <2>1. Blocks = HeapBlocks
    BY InitHeap DEF CInit, HeapAccounted, Blocks
  <2>2. Handled = {} /\ leaked = 0
    BY DEF CInit, Handled
  <2> QED
    BY <1>1, <2>1, <2>2, FS_EmptySet, KernelAssumption
<1>3. CIInv /\ ActionsAccounted /\ [CNext]_<<vars, registers, signals>> => ActionsAccounted'
  <2> SUFFICES ASSUME CIInv, ActionsAccounted, [CNext]_<<vars, registers, signals>>
               PROVE  ActionsAccounted'
    OBVIOUS
  <2>1. Blocks' + 2 * Cardinality(Handled') + leaked' = HeapBlocks
    BY <1>1, ActionsStep DEF CIInv, RegisterInv
  <2> QED
    BY <2>1 DEF ActionsAccounted, Blocks, Handled, ActionBlocks
<1> QED
  BY <1>2, <1>3, CInvariance, PTL DEF CSpec
=============================================================================
