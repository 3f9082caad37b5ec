------------------------------ MODULE Entries ------------------------------
(***************************************************************************)
(* Interrupts, exceptions and system calls step by step: the tables that   *)
(* src/x86/idt.c builds, the handlers of isr.c and preempt.S, do_syscall   *)
(* with the syscall table, printing from any of them, and the end of       *)
(* kernel_initialize that lets the first process run.                      *)
(*                                                                         *)
(* An activation is kernel code in progress.  The CPU executes the top of  *)
(* stack, or a process in user mode if stack is empty.  What an activation *)
(* still has to do is a sequence of named steps; an interrupt may come     *)
(* before any of them while the interrupt flag is set.                     *)
(***************************************************************************)
EXTENDS SyscallTable, Console, SequencesExt

CONSTANT
  External   \* vectors the APIC delivers: the spurious one and ISR_APIC_TIMER,
             \* whose handler is installed though the timer is not started

VARIABLES
  stack,     \* activations, innermost last
  ints,      \* the interrupt flag
  ds,        \* the data segment selectors, which are always loaded together
  flags,     \* the interrupt flag in the stored context of each process
  own,       \* history: the interrupt flag each process was last using
  woken      \* history: a halted page fault handler was resumed

machine == <<stack, ints, ds, flags, own, woken>>
vars == <<dispatch, console, machine>>
-----------------------------------------------------------------------------
(* Descriptor tables                                                       *)

create_segment_descriptor(code, dpl) == [code |-> code, dpl |-> dpl]

\* The null descriptor, kernel code and data, user code and data
gdt ==
  [entry \in 0..4 |->
     CASE entry = 1 -> create_segment_descriptor(TRUE, 0)
       [] entry = 2 -> create_segment_descriptor(FALSE, 0)
       [] entry = 3 -> create_segment_descriptor(TRUE, 3)
       [] entry = 4 -> create_segment_descriptor(FALSE, 3)
       [] OTHER -> [code |-> FALSE, dpl |-> 0]]

NullSegment == 0
KernelData  == 16
UserData    == 35

EXCEPTION_DIV_BY_0            == 0
EXCEPTION_INVALID_OPCODE      == 6
EXCEPTION_SEGMENT_NOT_PRESENT == 11
EXCEPTION_GPF                 == 13
EXCEPTION_PAGE_FAULT          == 14
ISR_APIC_TIMER                == 64
ISR_PREEMPT                   == 65
ISR_SYSCALL                   == 128
Spurious                      == 255

ASSUME EntriesAssumption == External \subseteq {ISR_APIC_TIMER, Spurious}

create_interrupt_descriptor(isr, type, privilege) ==
  [isr |-> isr, type |-> type, dpl |-> privilege]

\* Mutant: the entries of processes go through trap gates.
TrapEntries(isr) == create_interrupt_descriptor(isr, "TRAP32", 3)

EntryGate(isr) == create_interrupt_descriptor(isr, "INT32", 3)

\* The double fault's task gate is left out: the handlers fault at most once.
idt ==
  [vector \in 0..255 |->
     CASE vector = EXCEPTION_DIV_BY_0 ->
            create_interrupt_descriptor("isr_division_by_zero", "INT32", 0)
       [] vector = EXCEPTION_SEGMENT_NOT_PRESENT ->
            create_interrupt_descriptor("isr_segment_not_present", "TRAP32", 0)
       [] vector = EXCEPTION_GPF ->
            create_interrupt_descriptor("isr_gp_fault", "TRAP32", 0)
       [] vector = EXCEPTION_PAGE_FAULT ->
            create_interrupt_descriptor("isr_page_fault", "TRAP32", 0)
       [] vector = ISR_PREEMPT -> EntryGate("isr_preempt")
       [] vector = ISR_APIC_TIMER -> create_interrupt_descriptor("isr_timer", "INT32", 0)
       [] vector = ISR_SYSCALL -> EntryGate("isr_syscall")
       [] OTHER -> create_interrupt_descriptor("isr_generic", "INT32", 0)]

\* Mutant: isr_syscall returns with the kernel's data segments.
SegmentsKept == <<"cli", "ds_kernel", "do_syscall", "iret">>

SyscallSteps == <<"cli", "ds_kernel", "do_syscall", "ds_user", "iret">>

\* The steps of each handler.  apic_eoi is part of the timer's print.
Steps ==
  [isr_generic             |-> <<"print", "iret">>,
   isr_division_by_zero    |-> <<"print", "iret">>,
   isr_timer               |-> <<"print", "iret">>,
   isr_segment_not_present |-> <<"cli", "print", "hlt", "iret">>,
   isr_gp_fault            |-> <<"cli", "ds_kernel", "print", "hlt", "iret">>,
   isr_page_fault          |-> <<"ds_kernel", "print", "hlt", "iret">>,
   isr_preempt             |-> <<"cli", "store", "advance", "load_context">>,
   isr_syscall             |-> SyscallSteps,
   kernel_initialize       |-> <<"set_syscalls", "load_modules", "sti", "advance", "load_context">>]

panic == <<"print", "cli", "halt">>

\* An activation remembers what its iret restores.
Activation(isr, fromUser) ==
  [isr |-> isr, user |-> fromUser, ints |-> ints, todo |-> Steps[isr]]

Init ==
  /\ DispatchInit
  /\ ConsoleInit
  /\ ints = FALSE
  /\ ds = KernelData
  /\ stack = <<Activation("kernel_initialize", FALSE)>>
  /\ calls = <<NotPrinting>>
  /\ flags = [p \in Pids |-> TRUE]     \* DEFAULT_FLAGS
  /\ own = [p \in Pids |-> TRUE]
  /\ woken = FALSE
-----------------------------------------------------------------------------
Top == stack[Len(stack)]
At(step) == stack # <<>> /\ Head(Top.todo) = step
UserMode == stack = <<>>

\* The top activation goes on with the given steps.
GoOn(todo) == stack' = [stack EXCEPT ![Len(stack)].todo = todo]
Advance == GoOn(Tail(Top.todo))

\* The CPU goes through the gate of a vector, on top of what below is left
\* with; from user mode it starts at tss.esp0 with an empty stack.
Through(vector, below) ==
  /\ stack' = Append(below, Activation(idt[vector].isr, UserMode))
  /\ calls' = Append(calls, NotPrinting)
  /\ ints' = (ints /\ idt[vector].type = "TRAP32")
  /\ UNCHANGED <<cursor, ds, flags, own>>

\* A software interrupt of a process needs a gate of privilege 3.
Software(vector) == IF idt[vector].dpl = 3 THEN vector ELSE EXCEPTION_GPF

\* A process calls the kernel, or one of its instructions faults.  Invalid
\* opcode stands for the other exceptions that isr_generic handles and that
\* push no error code.  Those with one (10, 12, 17) do not come from the code
\* of a process: there is no task switch, the segments are flat and present,
\* and alignment checking is not enabled.
FromUser ==
  /\ UserMode
  /\ \/ \E vector \in {ISR_SYSCALL, ISR_PREEMPT, ISR_APIC_TIMER} :
          Through(Software(vector), stack)
     \/ \E exception \in {EXCEPTION_DIV_BY_0, EXCEPTION_INVALID_OPCODE,
                          EXCEPTION_SEGMENT_NOT_PRESENT, EXCEPTION_GPF, EXCEPTION_PAGE_FAULT} :
          Through(exception, stack)
  /\ UNCHANGED <<dispatch, woken>>

\* The flags of a process give it I/O privilege 3, so that it may use cli and
\* sti itself.
UserFlag ==
  /\ UserMode
  /\ ints' = ~ints
  /\ own' = [p \in Pids |-> IF p = active_process THEN ~ints ELSE own[p]]
  /\ UNCHANGED <<dispatch, console, stack, ds, flags, woken>>

\* An interrupt comes between two steps.  It also ends a hlt.
Interrupt ==
  /\ ints
  /\ \E vector \in External :
       IF At("hlt")
       THEN /\ Through(vector, [stack EXCEPT ![Len(stack)].todo = Tail(@)])
            /\ woken' = TRUE
       ELSE Through(vector, stack) /\ UNCHANGED woken
  /\ UNCHANGED dispatch

\* An exception in the kernel's own code.
KernelFault(vector) == Through(vector, stack) /\ UNCHANGED woken
-----------------------------------------------------------------------------
(* Steps of the handlers                                                   *)

Flag ==
  /\ At("cli") \/ At("sti")
  /\ ints' = At("sti")
  /\ Advance
  /\ UNCHANGED <<dispatch, console, ds, flags, own, woken>>

Segments ==
  /\ At("ds_kernel") \/ At("ds_user")
  /\ ds' = IF At("ds_kernel") THEN KernelData ELSE UserData
  /\ Advance
  /\ UNCHANGED <<dispatch, console, ints, flags, own, woken>>

\* Steps that access memory through ds.
Accessing == {"print", "store", "advance", "do_syscall"}

\* Four of the handlers, and isr_preempt, do not load ds: they run with what
\* the interrupted code had.
NullAccess ==
  /\ \E step \in Accessing : At(step)
  /\ ds = NullSegment
  /\ KernelFault(EXCEPTION_GPF)
  /\ UNCHANGED dispatch

\* The messages of the kernel have no tabs and returns once interrupts are
\* enabled; test_syscall prints what it is given.
Text == IF call.pending THEN DOMAIN Updates ELSE {"printable", "newline"}

\* Some number of characters is printed.
Printing ==
  /\ At("print") /\ ds # NullSegment
  /\ putchar(Text)
  /\ UNCHANGED <<dispatch, machine>>

Printed ==
  /\ At("print") /\ Call.todo = <<>>
  /\ ds # NullSegment
  /\ Advance
  /\ UNCHANGED <<dispatch, console, ints, ds, flags, own, woken>>

\* What iret and load_context do in common: back to user mode.
ToUser(flag, segments) ==
  /\ stack' = <<>>
  /\ calls' = <<>>
  /\ ints' = flag
  /\ ds' = segments
  /\ UNCHANGED <<cursor, flags, own, woken>>

\* On the way to user mode the CPU clears data segments of the kernel.
Iret ==
  /\ At("iret")
  /\ \/ /\ Top.user
        /\ ToUser(Top.ints, IF gdt[ds \div 8].dpl = 0 THEN NullSegment ELSE ds)
     \/ /\ ~Top.user
        /\ stack' = Front(stack)
        /\ calls' = Front(calls)
        /\ ints' = Top.ints
        /\ UNCHANGED <<cursor, ds, flags, own, woken>>
  /\ UNCHANGED dispatch

SetSyscalls ==
  /\ At("set_syscalls")
  /\ LET missing == {id \in SyscallIds : ~syscall_table[id].defined} IN
     \/ /\ missing # {}
        /\ set_syscall(CHOOSE id \in missing : \A other \in missing : id <= other, 1, 0, Code)
        /\ UNCHANGED <<console, machine>>
     \/ /\ missing = {}
        /\ Advance
        /\ UNCHANGED <<dispatch, console, ints, ds, flags, own, woken>>

LoadModules ==
  /\ At("load_modules")
  /\ process_table' = Pids
  /\ Advance
  /\ UNCHANGED <<syscall_table, active_process, cr3, call>>
  /\ UNCHANGED <<console, ints, ds, flags, own, woken>>

\* Mutant: the flags of the interrupt handler itself are stored.
StoreCurrent == IF active_process = NULL THEN flags
                ELSE [flags EXCEPT ![active_process] = ints]

\* The flags of the interrupted code are part of the context.
StoreFlags == IF active_process = NULL THEN flags
              ELSE [flags EXCEPT ![active_process] = Top.ints]

\* kernel_store_active_context
StoreContext ==
  /\ At("store") /\ ds # NullSegment
  /\ flags' = StoreFlags
  /\ Advance
  /\ UNCHANGED <<dispatch, console, ints, ds, own, woken>>

\* kernel_advance_scheduler prints which process it enters, or panics.  What
\* it reads from a misplaced queue is a process, zero, or it is no process and
\* the way to its context is a page fault.
AdvanceScheduler ==
  /\ At("advance") /\ ds # NullSegment
  /\ \/ /\ \/ EnterProcess /\ GoOn(<<"print">> \o Tail(Top.todo))
           \/ NoneReady /\ GoOn(panic)
        /\ UNCHANGED <<console, ints, ds, flags, own, woken>>
     \/ Misplaced /\ UNCHANGED dispatch /\ KernelFault(EXCEPTION_PAGE_FAULT)

load_context ==
  /\ At("load_context")
  /\ ToUser(flags[active_process], UserData)
  /\ UNCHANGED dispatch

\* do_syscall up to the call of the function, which may print.
DoSyscall ==
  /\ At("do_syscall") /\ ds # NullSegment
  /\ \E id \in 0..MAX_SYSCALL_ID + 1 :
       \/ /\ (NoSuchCall(id) /\ UNCHANGED dispatch) \/ StaleCall(id)
          /\ Advance
          /\ UNCHANGED <<console, ints, ds, flags, own, woken>>
       \/ /\ Dispatch(id)
          /\ GoOn(<<"print", "function", "return">> \o Tail(Top.todo))
          /\ flags' = StoreFlags
          /\ UNCHANGED <<console, ints, ds, own, woken>>
       \/ DispatchFaults(id) /\ KernelFault(EXCEPTION_PAGE_FAULT)

\* What the function may do to the state of this module.  Termination and
\* entries of processes are not in the table that kernel_initialize fills.
Function ==
  /\ At("function")
  /\ \/ /\ \/ UNCHANGED dispatch
           \/ \E id \in 0..LastId, arg_count \in {3, 4}, pid \in Pids,
                 func_ptr \in {NULL, Code} : set_syscall(id, arg_count, pid, func_ptr)
           \/ \E pid \in process_table : Terminate(pid)
        /\ Advance
        /\ UNCHANGED <<console, ints, ds, flags, own, woken>>
     \/ /\ active_process # NULL
        /\ BlockCaller
        /\ GoOn(<<"advance", "load_context">>)
        /\ UNCHANGED <<console, ints, ds, flags, own, woken>>
     \/ UNCHANGED dispatch /\ KernelFault(EXCEPTION_PAGE_FAULT)

ReturnFromFunction ==
  /\ At("return")
  /\ \/ Return /\ Advance /\ UNCHANGED <<console, ints, ds, flags, own, woken>>
     \/ ReturnFaults /\ KernelFault(EXCEPTION_PAGE_FAULT)

\* hlt without interrupts, and the loop at the end of panic
Stopped ==
  /\ At("halt") \/ At("hlt")
  /\ ~ints
  /\ UNCHANGED vars
-----------------------------------------------------------------------------
Next ==
  \/ FromUser
  \/ UserFlag
  \/ Interrupt
  \/ Flag
  \/ Segments
  \/ NullAccess
  \/ Printing
  \/ Printed
  \/ Iret
  \/ SetSyscalls
  \/ LoadModules
  \/ StoreContext
  \/ AdvanceScheduler
  \/ load_context
  \/ DoSyscall
  \/ Function
  \/ ReturnFromFunction
  \/ Stopped

Spec == Init /\ [][Next]_vars
-----------------------------------------------------------------------------
(* Correctness                                                             *)

Faults == {"isr_page_fault", "isr_gp_fault"}

\* A system call or a yield is not interrupted: what can come on top of it is
\* a fault of its own code, after which nothing runs any more.  This is why
\* Kernel may take such an entry as one step.
KernelNotReentered ==
  \A i \in 1..Len(stack) - 1 :
    stack[i].isr \in {"isr_syscall", "isr_preempt"} =>
      stack[i + 1].isr \in Faults /\ ~ints

\* Processes run with their own data segments whatever handlers and calls
\* came before, and the kernel always has some, though four handlers and
\* isr_preempt do not load them: unless a page fault handler was resumed from
\* its hlt, which returns to the process without data segments.
ValidSegments ==
  ~woken => IF UserMode THEN ds = UserData ELSE ds # NullSegment

\* A process in user mode has its own address space loaded, also after a call
\* of a function in that of another process.
CallerSpaceRestored ==
  UserMode /\ active_process # NULL => cr3 = active_process

\* A process keeps the interrupt flag it had when it gave up the CPU, in a
\* yield or in a system call that blocked.
OwnFlag == UserMode /\ active_process # NULL => ints = own[active_process]

\* A function that is called is one of the table, of the kernel or of a process
\* that is alive: not one whose process was terminated since it was entered,
\* and not what lies behind the table, though do_syscall reads that as an
\* entry and may find it defined.
CallsLiveEntry ==
  At("function") => /\ call.id < MAX_SYSCALL_ID
                    /\ call.owner # NULL => call.owner \in process_table

\* A character is written past the visible screen only by a handler that has
\* interrupted the output of another between the update that moved the cursor
\* there and the end of the scroll that brings it back, and then by less than
\* a line: a newline moves the cursor a whole line on before it returns to the
\* line's start.
WritesNearScreen ==
  At("print") /\ Call.todo = <<>> /\ cursor >= Limit =>
    /\ cursor < Limit + line_width
    /\ \E i \in 1..Len(calls) - 1 :
         calls[i].todo \in {<<"trim_line", "check">>, <<"check">>, <<"scroll">>}
=============================================================================
