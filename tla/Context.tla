------------------------------ MODULE Context ------------------------------
(***************************************************************************)
(* What the registers of processes hold across kernel entries: Kernel      *)
(* together with the context of each process, as src/x86/preempt.S,        *)
(* context.c and load_context.S save and restore it, and the handlers for  *)
(* interrupts of src/kernel.c, which change the context of a process from  *)
(* outside.                                                                *)
(*                                                                         *)
(* A register value is what a process put there, known by the register,    *)
(* the process and one of two generations, or the name of what the kernel  *)
(* put there.  A process may have changed all of its registers before each *)
(* entry.                                                                  *)
(***************************************************************************)
EXTENDS Kernel, SequencesExt

CONSTANT Interrupts   \* interrupts that processes may handle; none as built

ASSUME ContextAssumption == IsFiniteSet(Interrupts)

VARIABLES
  ctx,                \* process_t.ctx: the 12 words of process_context_t
  regs,               \* the CPU's registers in user mode
  interrupt_handlers, \* kernel.interrupt_handlers: pid of each action, or NULL
  leaked,             \* history: actions that were removed and not freed
  own,                \* history: registers of each process at its last entry
  saved,              \* history: registers at its last isr_preempt or its start
  left                \* history: how each process left user mode, and the number
                      \* of messages it had received

registers == <<ctx, regs, own, saved, left>>
signals == <<interrupt_handlers, leaked>>

Words == 0..11
Registers == {"eax", "ebx", "ecx", "edx", "edi", "esi", "ebp", "esp", "ss", "cs", "eip", "eflags"}

\* Registers that iret restores.
Frame == {"esp", "ss", "cs", "eip", "eflags"}

\* The registers as a process has set them; processes do not change segments.
File(p, generation) ==
  [r \in Registers |-> CASE r = "cs" -> <<"0x1B">>
                         [] r = "ss" -> <<"0x23">>
                         [] OTHER -> <<r, p, generation>>]
-----------------------------------------------------------------------------
(* src/x86/context.c                                                       *)

set_context_pc(words, pc) == [words EXCEPT ![10] = pc, ![9] = <<"0x1B">>]
set_context_stack(words, sp) == [words EXCEPT ![7] = sp, ![8] = <<"0x23">>]
set_context_flags(words, eflags) == [words EXCEPT ![11] = eflags]

\* Mutant: the value goes to ebx.
ReturnInEbx(words, value) == [words EXCEPT ![1] = value]

set_context_return(words, value) == [words EXCEPT ![0] = value]

\* Mutant: ebx and ecx are pushed in the wrong order.
PushedSwapped == <<"eflags", "eip", "cs", "ss", "esp", "ebp", "esi", "edi", "edx", "ebx", "ecx", "eax">>

\* The order in which isr_preempt pushes the registers: the last is the first
\* word of the structure.
Pushed == <<"eflags", "eip", "cs", "ss", "esp", "ebp", "esi", "edi", "edx", "ecx", "ebx", "eax">>

\* kernel_store_active_context of what isr_preempt has pushed
StoredContext(file) == [w \in Words |-> file[Reverse(Pushed)[w + 1]]]

\* The words from which load_context takes each register
Offset ==
  [eax |-> 0, ebx |-> 1, ecx |-> 2, edx |-> 3, edi |-> 4, esi |-> 5, ebp |-> 6,
   esp |-> 7, ss |-> 8, cs |-> 9, eip |-> 10, eflags |-> 11]

load_context(words) == [r \in Registers |-> words[Offset[r]]]

\* The context that kernel_spawn_process builds.
InitialContext ==
  set_context_stack(
    set_context_flags(
      set_context_pc([w \in Words |-> <<"zero">>], <<"entry">>),
      <<"DEFAULT_FLAGS">>),
    <<"_kernel_start">>)

\* Mutant: do_syscall stores nothing.
StoreNone(words, file) == words

\* What do_syscall stores of its caller.
StoredFrame(words, file) ==
  set_context_flags(
    set_context_stack(set_context_pc(words, file.eip), file.esp), file.eflags)

\* isr_syscall uses esi, ebp and ecx itself and do_syscall may change edx; it
\* returns a result in eax.
Returned(file) ==
  [r \in Registers |-> CASE r = "eax" -> <<"result">>
                         [] r \in {"ecx", "edx", "esi", "ebp"} -> <<"clobbered">>
                         [] OTHER -> file[r]]
-----------------------------------------------------------------------------
CInit ==
  /\ Init
  /\ ctx = [p \in Pids |-> InitialContext]
  /\ regs = load_context(InitialContext)
  /\ interrupt_handlers = [i \in Interrupts |-> NULL]
  /\ leaked = 0
  /\ own = [p \in Pids |-> load_context(InitialContext)]
  /\ saved = own
  /\ left = [p \in Pids |-> [how |-> "spawn", received |-> 0]]

\* The process in user mode, also if it has been terminated.
User == cr3

Leave(file, how) ==
  /\ own' = [own EXCEPT ![User] = file]
  /\ left' = [left EXCEPT ![User] = [how |-> how, received |-> Len(received[User])]]

Boot ==
  /\ kernel_load_module \/ EnterFirstProcess
  /\ regs' = IF mode' = "running" THEN load_context(ctx[active_process']) ELSE regs
  /\ UNCHANGED <<ctx, own, saved, left, signals>>

\* Mutant: the context is stored after the scheduler has chosen.
StoreLate == active_process'

\* The process whose context kernel_store_active_context replaces, if any.
Storing == active_process

Preempt ==
  /\ isr_preempt
  /\ \E generation \in BOOLEAN :
       LET file == File(User, generation) IN
       /\ ctx' = IF Storing = NULL THEN ctx
                 ELSE [ctx EXCEPT ![Storing] = StoredContext(file)]
       /\ regs' = IF mode' = "running" THEN load_context(ctx'[active_process']) ELSE regs
       /\ saved' = [saved EXCEPT ![User] = file]
       /\ Leave(file, "isr_preempt")
  /\ UNCHANGED signals

\* Mutant: a process that is woken gets no return value.
WokenKept(words) == words

Woken(words) == set_context_return(words, <<"ENONE">>)

\* The context of every process after a system call: do_syscall has stored
\* that of the caller, kernel_send_message sets the result of the recipient.
ContextsAfter(file) ==
  [p \in Pids |->
     IF p = active_process THEN StoredFrame(ctx[p], file)
     ELSE IF state[p] = "PROCESS_REQUESTING" /\ state'[p] = "PROCESS_ACTIVE" THEN Woken(ctx[p])
     ELSE ctx[p]]

KernelCall ==
  \/ send \/ receive_message
  \/ kernel_create_port \/ kernel_remove_port
  \/ terminate_self \/ TerminateOther
  \/ SyscallOfTerminated

Blocked == /\ mode' # "fault" /\ active_process # NULL
           /\ state'[active_process] = "PROCESS_REQUESTING"

\* A system call returns to its caller, or blocks it and enters another
\* process through load_context.
Syscall ==
  /\ KernelCall
  /\ \E generation \in BOOLEAN :
       LET file == File(User, generation) IN
       /\ ctx' = ContextsAfter(file)
       /\ regs' = CASE mode' # "running" -> regs
                    [] mode' = "running" /\ Blocked -> load_context(ctx'[active_process'])
                    [] OTHER -> Returned(file)
       /\ Leave(file, IF Blocked THEN "receive" ELSE "return")
  /\ UNCHANGED <<saved, signals>>
-----------------------------------------------------------------------------
(* Handlers for interrupts.  No interrupt calls them at this commit.       *)

InKernel == mode = "running"

\* kmalloc of the action and of its node, neither of them checked
ActionBlocks == 2

kernel_register_interrupt_handler(i) ==
  /\ InKernel /\ active_process # NULL
  /\ interrupt_handlers[i] = NULL
  /\ \/ heap_free < ActionBlocks /\ Halt("fault") /\ UNCHANGED signals
     \/ /\ heap_free >= ActionBlocks
        /\ heap_free' = heap_free - ActionBlocks
        /\ interrupt_handlers' = [interrupt_handlers EXCEPT ![i] = active_process]
        /\ UNCHANGED <<sched, next_pid, process_table, state, message_buffer,
                       message_queue, port_table, histories, leaked>>
  /\ UNCHANGED registers

\* Mutant: the action is not freed.
RemoveUnfreed(i) ==
  /\ InKernel
  /\ interrupt_handlers[i] # NULL
  /\ heap_free' = heap_free + ActionBlocks - 1
  /\ interrupt_handlers' = [interrupt_handlers EXCEPT ![i] = NULL]
  /\ UNCHANGED <<sched, next_pid, process_table, state, message_buffer,
                 message_queue, port_table, histories, leaked, registers>>

kernel_remove_interrupt_handler(i) ==
  /\ InKernel
  /\ interrupt_handlers[i] # NULL
  /\ heap_free' = heap_free + ActionBlocks
  /\ interrupt_handlers' = [interrupt_handlers EXCEPT ![i] = NULL]
  /\ UNCHANGED <<sched, next_pid, process_table, state, message_buffer,
                 message_queue, port_table, histories, leaked, registers>>

\* What is pushed lies on the stack of the process; only the stack pointer
\* tells.
context_stack_push(words) == [words EXCEPT ![7] = <<"pushed">>]

\* The process is to run the handler, with two arguments and a return address.
context_call_func(words) == [context_stack_push(words) EXCEPT ![10] = <<"handler">>]

\* Mutant: a process is put in the ready queue also if it is there already.
AlwaysReady(p) ==
  /\ state' = [state EXCEPT ![p] = "PROCESS_ACTIVE"]
  /\ priority_queue' = priorityqueue_insert(priority_queue, p)

\* A process blocked in receive becomes ready; its message_buffer stays.
MakeReady(p) ==
  /\ state' = [state EXCEPT ![p] = "PROCESS_ACTIVE"]
  /\ priority_queue' = IF state[p] = "PROCESS_ACTIVE" THEN priority_queue
                       ELSE priorityqueue_insert(priority_queue, p)

\* An action whose process has been terminated is removed, and not freed.
\* Otherwise the process is made to call its handler.  If it is the active
\* one this has no effect: its context is overwritten when it is next stored.
kernel_execute_interrupt_handler(i) ==
  /\ InKernel
  /\ interrupt_handlers[i] # NULL
  /\ LET p == interrupt_handlers[i] IN
     \/ /\ p \notin process_table
        /\ interrupt_handlers' = [interrupt_handlers EXCEPT ![i] = NULL]
        /\ leaked' = leaked + 1
        /\ heap_free' = heap_free + ActionBlocks - 1
        /\ UNCHANGED <<registers, state, priority_queue>>
     \/ /\ p \in process_table /\ active_process # NULL
        /\ ctx' = [ctx EXCEPT ![p] = context_call_func(context_stack_push(@))]
        /\ own' = IF p = active_process THEN own
                  ELSE [own EXCEPT ![p] = load_context(ctx'[p])]
        /\ left' = IF p = active_process THEN left
                   ELSE [left EXCEPT ![p].how = "handler"]
        /\ MakeReady(p)
        /\ UNCHANGED <<regs, saved, signals, heap_free>>
  /\ UNCHANGED <<mode, active_process, cr3, next_pid, process_table,
                 message_buffer, message_queue, port_table, histories>>

\* After the active process was terminated, registering reads its pid and
\* executing its address space through NULL.
HandlerFaults(i) ==
  /\ InKernel /\ active_process = NULL
  /\ interrupt_handlers[i] = NULL \/ interrupt_handlers[i] \in process_table
  /\ Halt("fault")
  /\ UNCHANGED <<registers, signals>>

Signals ==
  \E i \in Interrupts :
    \/ kernel_register_interrupt_handler(i)
    \/ kernel_remove_interrupt_handler(i)
    \/ kernel_execute_interrupt_handler(i)
    \/ HandlerFaults(i)

CNext ==
  \/ Boot
  \/ Preempt
  \/ Syscall
  \/ Signals
  \/ Stopped /\ UNCHANGED <<registers, signals>>

CSpec == CInit /\ [][CNext]_<<vars, registers, signals>>
-----------------------------------------------------------------------------
(* Correctness                                                             *)

InUserMode(p) == mode = "running" /\ active_process = p

\* A process goes on where it entered the kernel, with its own stack and
\* flags, whatever the entry was and however many others ran in between.
ResumesWhereItLeft ==
  \A p \in Pids : InUserMode(p) => \A r \in Frame : regs[r] = own[p][r]

\* A yield changes none of the twelve registers: isr_preempt pushes them in
\* the order in which load_context looks for them.
PreemptTransparent ==
  \A p \in Pids : InUserMode(p) /\ left[p].how = "isr_preempt" => regs = own[p]

\* A receive that blocked returns ENONE, and returns only once a message was
\* copied to its buffer.
BlockedReceiveReturns ==
  \A p \in Pids :
    InUserMode(p) /\ left[p].how = "receive" =>
      /\ regs.eax = <<"ENONE">>
      /\ Len(received[p]) = left[p].received + 1

\* Of its other registers such a process gets back not what they held when it
\* called receive, but what they held at its last yield, or zero.
BlockedReceiveStale ==
  \A p \in Pids :
    InUserMode(p) /\ left[p].how = "receive" =>
      \A r \in Registers \ (Frame \cup {"eax"}) : regs[r] = saved[p][r]

\* Registering, removing and executing handlers balances the heap too, except
\* that the action of a process that was terminated is lost when it is next
\* to be executed: its node is freed, it is not.
ActionsAccounted ==
  heap_free + BlocksInUse + Total(dropped)
    + ActionBlocks * Cardinality({i \in Interrupts : interrupt_handlers[i] # NULL})
    + leaked = HeapBlocks

\* No process sees the register of another.
OwnRegisters ==
  \A p \in Pids, r \in Registers :
    InUserMode(p) /\ Len(regs[r]) > 1 => regs[r][2] = p
=============================================================================
