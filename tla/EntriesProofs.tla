--------------------------- MODULE EntriesProofs ---------------------------
(***************************************************************************)
(* Proofs about Entries.  The inductive invariant says where in its code   *)
(* each activation can be, which activations can lie on top of which, and  *)
(* what each place in the code knows about segments, address space and     *)
(* flags.  A second one, ConsoleInv, builds on it: where interrupts can    *)
(* come, and which values of the cursor each call of putchar can hold.     *)
(***************************************************************************)
EXTENDS Entries, SequenceTheorems, WellFoundedInduction, TLAPS

Quiet   == {"isr_generic", "isr_division_by_zero", "isr_timer"}
Halting == {"isr_segment_not_present", "isr_gp_fault", "isr_page_fault"}
Entered == {"isr_syscall", "isr_preempt"}
Isrs == Quiet \cup Halting \cup Entered \cup {"kernel_initialize"}

\* What an activation can have left to do.
Ret        == <<"iret">>
PrintRet   == <<"print", "iret">>
Hlt        == <<"hlt", "iret">>
PrintHlt   == <<"print", "hlt", "iret">>
CliHlt     == <<"cli", "print", "hlt", "iret">>
SegHlt     == <<"ds_kernel", "print", "hlt", "iret">>
CliSegHlt  == <<"cli", "ds_kernel", "print", "hlt", "iret">>
LoadOnly   == <<"load_context">>
PrintLoad  == <<"print", "load_context">>
Sched      == <<"advance", "load_context">>
StoreSched == <<"store", "advance", "load_context">>
CliStore   == <<"cli", "store", "advance", "load_context">>
Dead       == <<"halt">>
CliDead    == <<"cli", "halt">>
PrintDead  == <<"print", "cli", "halt">>
UserSeg    == <<"ds_user", "iret">>
InReturn   == <<"return", "ds_user", "iret">>
InFunction == <<"function", "return", "ds_user", "iret">>
InPrint    == <<"print", "function", "return", "ds_user", "iret">>
DoCall     == <<"do_syscall", "ds_user", "iret">>
SegCall    == <<"ds_kernel", "do_syscall", "ds_user", "iret">>
CliCall    == <<"cli", "ds_kernel", "do_syscall", "ds_user", "iret">>
StiSched   == <<"sti", "advance", "load_context">>
Modules    == <<"load_modules", "sti", "advance", "load_context">>
Syscalls   == <<"set_syscalls", "load_modules", "sti", "advance", "load_context">>

Todos ==
  {Ret, PrintRet, Hlt, PrintHlt, CliHlt, SegHlt, CliSegHlt, LoadOnly, PrintLoad,
   Sched, StoreSched, CliStore, Dead, CliDead, PrintDead, UserSeg, InReturn,
   InFunction, InPrint, DoCall, SegCall, CliCall, StiSched, Modules, Syscalls}

\* Ways to go on after the scheduler was called.
Leaving == {PrintLoad, LoadOnly, PrintDead, CliDead, Dead}

\* A function of the syscall table has been called and has not returned.
InCall == {InPrint, InFunction, InReturn}

\* What can be left to do for an activation of each handler.
Planned(isr, todo) ==
  \/ isr \in Quiet /\ todo \in {PrintRet, Ret}
  \/ isr = "isr_segment_not_present" /\ todo \in {CliHlt, PrintHlt, Hlt, Ret}
  \/ isr = "isr_gp_fault" /\ todo \in {CliSegHlt, SegHlt, PrintHlt, Hlt, Ret}
  \/ isr = "isr_page_fault" /\ todo \in {SegHlt, PrintHlt, Hlt, Ret}
  \/ isr = "isr_preempt" /\ todo \in {CliStore, StoreSched, Sched} \cup Leaving
  \/ /\ isr = "isr_syscall"
     /\ todo \in {CliCall, SegCall, DoCall, UserSeg, Ret, Sched} \cup InCall \cup Leaving
  \/ /\ isr = "kernel_initialize"
     /\ todo \in {Syscalls, Modules, StiSched, Sched} \cup Leaving

Activations == [isr : Isrs, user : BOOLEAN, ints : BOOLEAN, todo : Todos]
TableEntries == [defined : BOOLEAN, process_id : Nat]

TypeInv ==
  /\ ints \in BOOLEAN
  /\ woken \in BOOLEAN
  /\ ds \in {NullSegment, KernelData, UserData}
  /\ stack \in Seq(Activations)
  /\ flags \in [Pids -> BOOLEAN]
  /\ own \in [Pids -> BOOLEAN]
  /\ process_table \in SUBSET Pids
  /\ active_process \in Pids \cup {NULL}
  /\ call.owner \in Nat
  /\ syscall_table \in [0..MAX_SYSCALL_ID -> TableEntries]

\* Only the first activation comes from user mode, and what comes on top of
\* another is an interrupt or a fault of the kernel.
StackInv ==
  \A k \in DOMAIN stack :
    /\ Planned(stack[k].isr, stack[k].todo)
    /\ stack[k].user <=> k = 1 /\ stack[k].isr # "kernel_initialize"
    /\ k > 1 => stack[k].isr \in {"isr_generic", "isr_timer"} \cup Faults

Entering == stack # <<>> /\ stack[1].isr \in Entered

\* On top of a system call or yield there are only faults on their way to hlt.
ClosedInv ==
  Entering => /\ ~ints
              /\ \A k \in DOMAIN stack :
                   k > 1 => stack[k].isr \in Faults /\ stack[k].todo # Ret

\* Until a fault handler is resumed from its hlt none returns, and the quiet
\* handlers leave ds as they found it.
SegmentInv ==
  ~woken =>
    /\ ds # NullSegment
    /\ \A k \in DOMAIN stack : stack[k].isr \in Halting => stack[k].todo # Ret
    /\ (\A k \in DOMAIN stack : stack[k].isr \in Quiet) => ds = UserData
    /\ Entering /\ stack[1].todo = Ret => Len(stack) = 1 /\ ds = UserData

\* Until its function has run, a call is one of a live entry of the table.
LiveCall ==
  /\ call.id < MAX_SYSCALL_ID
  /\ call.owner # NULL => call.owner \in process_table

\* Nobody has called the kernel before the first process runs.
BootQueue == stack # <<>> /\ stack[1].isr = "kernel_initialize" => ~Misplaced

\* The caller's address space is loaded except inside a function that belongs
\* to a process.  A context is loaded only for a process.
SpaceInv ==
  /\ active_process # NULL =>
       \/ cr3 = active_process
       \/ /\ Entering
          /\ stack[1].todo \in InCall
          /\ call.owner > 0
  /\ stack # <<>> /\ stack[1].todo \in {PrintLoad, LoadOnly} => active_process # NULL
  /\ stack # <<>> /\ stack[1].todo \in {InPrint, InFunction} => LiveCall
  /\ BootQueue

\* What is stored for the processes that do not have the CPU is their own
\* flag, and that of the active process is on the stack, in the flag itself,
\* or stored already.
FlagInv ==
  /\ \A p \in Pids : p # active_process => flags[p] = own[p]
  /\ active_process # NULL =>
       /\ stack = <<>> => ints = own[active_process]
       /\ stack # <<>> /\ stack[1].todo \notin Leaving =>
            /\ stack[1].ints = own[active_process]
            /\ stack[1].isr # "kernel_initialize"
       /\ stack # <<>> /\ stack[1].todo \in InCall \cup Leaving \cup {Sched} =>
            flags[active_process] = own[active_process]

\* What lies behind the table has the capacity of the queue as its owner.
TableInv == syscall_table[MAX_SYSCALL_ID].process_id = Capacity

IInv == TypeInv /\ StackInv /\ ClosedInv /\ SegmentInv /\ SpaceInv /\ FlagInv /\ TableInv

(***************************************************************************)
(* The places in the code                                                  *)
(***************************************************************************)

LEMMA Heads ==
  /\ Ret # <<>> /\ Head(Ret) = "iret"
  /\ PrintRet # <<>> /\ Head(PrintRet) = "print"
  /\ Hlt # <<>> /\ Head(Hlt) = "hlt"
  /\ PrintHlt # <<>> /\ Head(PrintHlt) = "print"
  /\ CliHlt # <<>> /\ Head(CliHlt) = "cli"
  /\ SegHlt # <<>> /\ Head(SegHlt) = "ds_kernel"
  /\ CliSegHlt # <<>> /\ Head(CliSegHlt) = "cli"
  /\ LoadOnly # <<>> /\ Head(LoadOnly) = "load_context"
  /\ PrintLoad # <<>> /\ Head(PrintLoad) = "print"
  /\ Sched # <<>> /\ Head(Sched) = "advance"
  /\ StoreSched # <<>> /\ Head(StoreSched) = "store"
  /\ CliStore # <<>> /\ Head(CliStore) = "cli"
  /\ Dead # <<>> /\ Head(Dead) = "halt"
  /\ CliDead # <<>> /\ Head(CliDead) = "cli"
  /\ PrintDead # <<>> /\ Head(PrintDead) = "print"
  /\ UserSeg # <<>> /\ Head(UserSeg) = "ds_user"
  /\ InReturn # <<>> /\ Head(InReturn) = "return"
  /\ InFunction # <<>> /\ Head(InFunction) = "function"
  /\ InPrint # <<>> /\ Head(InPrint) = "print"
  /\ DoCall # <<>> /\ Head(DoCall) = "do_syscall"
  /\ SegCall # <<>> /\ Head(SegCall) = "ds_kernel"
  /\ CliCall # <<>> /\ Head(CliCall) = "cli"
  /\ StiSched # <<>> /\ Head(StiSched) = "sti"
  /\ Modules # <<>> /\ Head(Modules) = "load_modules"
  /\ Syscalls # <<>> /\ Head(Syscalls) = "set_syscalls"
BY DEF Ret, PrintRet, Hlt, PrintHlt, CliHlt, SegHlt, CliSegHlt, LoadOnly,
    PrintLoad, Sched, StoreSched, CliStore, Dead, CliDead, PrintDead, UserSeg,
    InReturn, InFunction, InPrint, DoCall, SegCall, CliCall, StiSched,
    Modules, Syscalls

LEMMA Tails ==
  /\ Tail(Ret) = <<>>
  /\ Tail(PrintRet) = Ret
  /\ Tail(Hlt) = Ret
  /\ Tail(PrintHlt) = Hlt
  /\ Tail(CliHlt) = PrintHlt
  /\ Tail(SegHlt) = PrintHlt
  /\ Tail(CliSegHlt) = SegHlt
  /\ Tail(LoadOnly) = <<>>
  /\ Tail(PrintLoad) = LoadOnly
  /\ Tail(Sched) = LoadOnly
  /\ Tail(StoreSched) = Sched
  /\ Tail(CliStore) = StoreSched
  /\ Tail(Dead) = <<>>
  /\ Tail(CliDead) = Dead
  /\ Tail(PrintDead) = CliDead
  /\ Tail(UserSeg) = Ret
  /\ Tail(InReturn) = UserSeg
  /\ Tail(InFunction) = InReturn
  /\ Tail(InPrint) = InFunction
  /\ Tail(DoCall) = UserSeg
  /\ Tail(SegCall) = DoCall
  /\ Tail(CliCall) = SegCall
  /\ Tail(StiSched) = Sched
  /\ Tail(Modules) = StiSched
  /\ Tail(Syscalls) = Modules
BY DEF Ret, PrintRet, Hlt, PrintHlt, CliHlt, SegHlt, CliSegHlt, LoadOnly,
    PrintLoad, Sched, StoreSched, CliStore, Dead, CliDead, PrintDead, UserSeg,
    InReturn, InFunction, InPrint, DoCall, SegCall, CliCall, StiSched,
    Modules, Syscalls

\* Two that begin with the same step go on differently.
LEMMA Different ==
  /\ PrintRet # PrintHlt
  /\ PrintRet # PrintLoad
  /\ PrintRet # PrintDead
  /\ PrintRet # InPrint
  /\ PrintHlt # PrintLoad
  /\ PrintHlt # PrintDead
  /\ PrintHlt # InPrint
  /\ PrintLoad # PrintDead
  /\ PrintLoad # InPrint
  /\ PrintDead # InPrint
  /\ CliHlt # CliSegHlt
  /\ CliHlt # CliStore
  /\ CliHlt # CliDead
  /\ CliHlt # CliCall
  /\ CliSegHlt # CliStore
  /\ CliSegHlt # CliDead
  /\ CliSegHlt # CliCall
  /\ CliStore # CliDead
  /\ CliStore # CliCall
  /\ CliDead # CliCall
  /\ SegHlt # SegCall
BY DEF PrintRet, PrintHlt, PrintLoad, PrintDead, InPrint, CliHlt, CliSegHlt,
    CliStore, CliDead, CliCall, SegHlt, SegCall

LEMMA ByHead ==
  ASSUME NEW todo \in Todos
  PROVE  /\ Head(todo) = "iret" => todo = Ret
         /\ Head(todo) = "print" => todo \in {PrintRet, PrintHlt, PrintLoad, PrintDead, InPrint}
         /\ Head(todo) = "hlt" => todo = Hlt
         /\ Head(todo) = "cli" => todo \in {CliHlt, CliSegHlt, CliStore, CliDead, CliCall}
         /\ Head(todo) = "ds_kernel" => todo \in {SegHlt, SegCall}
         /\ Head(todo) = "load_context" => todo = LoadOnly
         /\ Head(todo) = "advance" => todo = Sched
         /\ Head(todo) = "store" => todo = StoreSched
         /\ Head(todo) = "halt" => todo = Dead
         /\ Head(todo) = "ds_user" => todo = UserSeg
         /\ Head(todo) = "return" => todo = InReturn
         /\ Head(todo) = "function" => todo = InFunction
         /\ Head(todo) = "do_syscall" => todo = DoCall
         /\ Head(todo) = "sti" => todo = StiSched
         /\ Head(todo) = "load_modules" => todo = Modules
         /\ Head(todo) = "set_syscalls" => todo = Syscalls
BY Heads DEF Todos

LEMMA PlanShape ==
  ASSUME NEW isr, NEW todo, Planned(isr, todo)
  PROVE  isr \in Isrs /\ todo \in Todos /\ todo # <<>>
BY Heads DEF Planned, Isrs, Todos, Quiet, Halting, Entered, InCall, Leaving

\* A step after which an activation knows as much as before.
Alike(old, new) ==
  /\ old \in Leaving <=> new \in Leaving
  /\ old \in InCall <=> new \in InCall
  /\ new \in {PrintLoad, LoadOnly} => old \in {PrintLoad, LoadOnly}
  /\ new \in {InPrint, InFunction} => old \in {InPrint, InFunction}
  /\ new # Sched

LEMMA PlanCli ==
  ASSUME NEW isr, NEW todo, Planned(isr, todo), Head(todo) = "cli"
  PROVE  /\ Planned(isr, Tail(todo))
         /\ Tail(todo) # Ret
         /\ Alike(todo, Tail(todo))
<1>1. todo \in {CliHlt, CliSegHlt, CliStore, CliDead, CliCall}
  BY PlanShape, ByHead
<1>2. /\ todo = CliHlt => Tail(todo) = PrintHlt
      /\ todo = CliSegHlt => Tail(todo) = SegHlt
      /\ todo = CliStore => Tail(todo) = StoreSched
      /\ todo = CliDead => Tail(todo) = Dead
      /\ todo = CliCall => Tail(todo) = SegCall
  BY Tails
<1>3. PICK next : next = Tail(todo)
  OBVIOUS
<1>4. Planned(isr, next) /\ next # Ret /\ Alike(todo, next)
  BY <1>1, <1>2, <1>3, Heads, Different DEF Planned, Quiet, InCall, Leaving, Alike
<1> QED
  BY <1>3, <1>4

LEMMA PlanPrint ==
  ASSUME NEW isr, NEW todo, Planned(isr, todo), Head(todo) = "print"
  PROVE  /\ Planned(isr, Tail(todo))
         /\ Tail(todo) = Ret => isr \in Quiet
         /\ Alike(todo, Tail(todo))
<1>1. todo \in {PrintRet, PrintHlt, PrintLoad, PrintDead, InPrint}
  BY PlanShape, ByHead
<1>2. /\ todo = PrintRet => Tail(todo) = Ret
      /\ todo = PrintHlt => Tail(todo) = Hlt
      /\ todo = PrintLoad => Tail(todo) = LoadOnly
      /\ todo = PrintDead => Tail(todo) = CliDead
      /\ todo = InPrint => Tail(todo) = InFunction
  BY Tails
<1>3. PICK next : next = Tail(todo)
  OBVIOUS
<1>4. Planned(isr, next) /\ (next = Ret => isr \in Quiet) /\ Alike(todo, next)
  BY <1>1, <1>2, <1>3, Heads, Different DEF Planned, Quiet, InCall, Leaving, Alike
<1> QED
  BY <1>3, <1>4

LEMMA PlanSegment ==
  ASSUME NEW isr, NEW todo, Planned(isr, todo), Head(todo) = "ds_kernel"
  PROVE  /\ Planned(isr, Tail(todo))
         /\ isr \in Faults \cup {"isr_syscall"}
         /\ Tail(todo) # Ret
         /\ Alike(todo, Tail(todo))
<1>1. todo \in {SegHlt, SegCall}
  BY PlanShape, ByHead
<1>2. /\ todo = SegHlt => Tail(todo) = PrintHlt
      /\ todo = SegCall => Tail(todo) = DoCall
  BY Tails
<1>3. PICK next : next = Tail(todo)
  OBVIOUS
<1>4. /\ Planned(isr, next) /\ next # Ret /\ Alike(todo, next)
      /\ isr \in Faults \cup {"isr_syscall"}
  BY <1>1, <1>2, <1>3, Heads, Different
  DEF Planned, Quiet, InCall, Leaving, Alike, Faults
<1> QED
  BY <1>3, <1>4

\* The other steps stand in one place only.
LEMMA PlanOnce ==
  ASSUME NEW isr, NEW todo, Planned(isr, todo)
  PROVE  /\ Head(todo) = "iret" =>
              todo = Ret /\ isr \in Quiet \cup Halting \cup {"isr_syscall"}
         /\ Head(todo) = "hlt" => todo = Hlt /\ isr \in Halting
         /\ Head(todo) = "ds_user" => todo = UserSeg /\ isr = "isr_syscall"
         /\ Head(todo) = "do_syscall" => todo = DoCall /\ isr = "isr_syscall"
         /\ Head(todo) = "function" => todo = InFunction /\ isr = "isr_syscall"
         /\ Head(todo) = "return" => todo = InReturn /\ isr = "isr_syscall"
         /\ Head(todo) = "store" => todo = StoreSched /\ isr = "isr_preempt"
         /\ Head(todo) = "advance" =>
              todo = Sched /\ isr \in Entered \cup {"kernel_initialize"}
         /\ Head(todo) = "load_context" =>
              todo = LoadOnly /\ isr \in Entered \cup {"kernel_initialize"}
         /\ Head(todo) = "sti" => todo = StiSched /\ isr = "kernel_initialize"
         /\ Head(todo) = "set_syscalls" => todo = Syscalls /\ isr = "kernel_initialize"
         /\ Head(todo) = "load_modules" => todo = Modules /\ isr = "kernel_initialize"
<1>1. todo \in Todos
  BY PlanShape
<1> QED
  BY <1>1, ByHead, Heads DEF Planned, Quiet, Halting, Entered, InCall, Leaving

(***************************************************************************)
(* The tables                                                              *)
(***************************************************************************)

\* A handler has done nothing yet.
Fresh(isr, todo) ==
  /\ Planned(isr, todo)
  /\ todo \notin {Ret, Sched} \cup InCall \cup Leaving

LEMMA StepsFresh ==
  ASSUME NEW isr \in Isrs
  PROVE  Fresh(isr, Steps[isr])
<1>1. /\ isr \in Quiet => Steps[isr] = PrintRet
      /\ isr = "isr_segment_not_present" => Steps[isr] = CliHlt
      /\ isr = "isr_gp_fault" => Steps[isr] = CliSegHlt
      /\ isr = "isr_page_fault" => Steps[isr] = SegHlt
      /\ isr = "isr_preempt" => Steps[isr] = CliStore
      /\ isr = "isr_syscall" => Steps[isr] = CliCall
      /\ isr = "kernel_initialize" => Steps[isr] = Syscalls
  BY DEF Quiet, Steps, SyscallSteps, PrintRet, CliHlt, CliSegHlt, SegHlt, CliStore,
     CliCall, Syscalls
<1>2. PICK todo : todo = Steps[isr]
  OBVIOUS
<1>3. Fresh(isr, todo)
  BY <1>1, <1>2, Heads, Different
  DEF Fresh, Planned, Isrs, Quiet, Halting, Entered, InCall, Leaving
<1> QED
  BY <1>2, <1>3

LEMMA Gates ==
  /\ idt[EXCEPTION_DIV_BY_0].isr = "isr_division_by_zero"
  /\ idt[EXCEPTION_INVALID_OPCODE] = [isr |-> "isr_generic", type |-> "INT32", dpl |-> 0]
  /\ idt[EXCEPTION_SEGMENT_NOT_PRESENT].isr = "isr_segment_not_present"
  /\ idt[EXCEPTION_GPF].isr = "isr_gp_fault"
  /\ idt[EXCEPTION_PAGE_FAULT].isr = "isr_page_fault"
  /\ idt[ISR_PREEMPT] = [isr |-> "isr_preempt", type |-> "INT32", dpl |-> 3]
  /\ idt[ISR_APIC_TIMER] = [isr |-> "isr_timer", type |-> "INT32", dpl |-> 0]
  /\ idt[ISR_SYSCALL] = [isr |-> "isr_syscall", type |-> "INT32", dpl |-> 3]
  /\ idt[Spurious] = [isr |-> "isr_generic", type |-> "INT32", dpl |-> 0]
BY DEF idt, create_interrupt_descriptor, EntryGate, EXCEPTION_DIV_BY_0,
   EXCEPTION_INVALID_OPCODE, EXCEPTION_SEGMENT_NOT_PRESENT, EXCEPTION_GPF, EXCEPTION_PAGE_FAULT,
   ISR_PREEMPT, ISR_APIC_TIMER, ISR_SYSCALL, Spurious

(***************************************************************************)
(* The stack of activations                                                *)
(***************************************************************************)

\* The top activation goes on with todo.
Moved(todo) ==
  /\ stack # <<>> /\ stack' # <<>>
  /\ stack' \in Seq(Activations)
  /\ Len(stack) \in Nat \ {0}
  /\ Len(stack') = Len(stack)
  /\ DOMAIN stack = 1..Len(stack) /\ DOMAIN stack' = 1..Len(stack)
  /\ \A k \in 1..Len(stack) :
       /\ stack'[k].isr = stack[k].isr
       /\ stack'[k].user = stack[k].user
       /\ stack'[k].ints = stack[k].ints
       /\ stack'[k].todo = IF k = Len(stack) THEN todo ELSE stack[k].todo
  /\ stack'[1].isr = stack[1].isr /\ stack'[1].ints = stack[1].ints
  /\ stack'[1].todo = IF Len(stack) = 1 THEN todo ELSE stack[1].todo
  /\ stack'[Len(stack)].isr = Top.isr

\* An activation comes on top.
Pushed(act) ==
  /\ stack' # <<>>
  /\ stack' \in Seq(Activations)
  /\ Len(stack) \in Nat
  /\ Len(stack') = Len(stack) + 1
  /\ DOMAIN stack = 1..Len(stack) /\ DOMAIN stack' = 1..Len(stack) + 1
  /\ \A k \in 1..Len(stack) : stack'[k] = stack[k]
  /\ stack'[Len(stack) + 1] = act

LEMMA StackTop ==
  ASSUME TypeInv, stack # <<>>
  PROVE  /\ Len(stack) \in Nat \ {0}
         /\ DOMAIN stack = 1..Len(stack)
         /\ Len(stack) \in 1..Len(stack) /\ 1 \in 1..Len(stack)
         /\ Top \in Activations
         /\ stack[1] \in Activations
BY DEF TypeInv, Top

LEMMA TopPlanned ==
  ASSUME TypeInv, StackInv, stack # <<>>
  PROVE  /\ Planned(Top.isr, Top.todo)
         /\ Len(stack) > 1 => Top.isr \in {"isr_generic", "isr_timer"} \cup Faults
         /\ Top.user <=> Len(stack) = 1 /\ Top.isr # "kernel_initialize"
BY StackTop DEF StackInv, Top

\* A system call, a yield or kernel_initialize runs only on an empty stack.
LEMMA TopAlone ==
  ASSUME TypeInv, StackInv, stack # <<>>, Top.isr \in Entered \cup {"kernel_initialize"}
  PROVE  Len(stack) = 1 /\ Top = stack[1]
BY StackTop, TopPlanned DEF Entered, Faults, Top

LEMMA GoOnMoves ==
  ASSUME TypeInv, stack # <<>>, NEW todo \in Todos, GoOn(todo)
  PROVE  Moved(todo)
<1>1. Len(stack) \in 1..Len(stack) /\ Top \in Activations
  BY StackTop
<1>2. PICK act \in Activations : act = [Top EXCEPT !.todo = todo]
  BY <1>1 DEF Activations
<1>3. stack' = [stack EXCEPT ![Len(stack)] = act]
  BY <1>2 DEF GoOn, Top
<1>4. stack \in Seq(Activations)
  BY DEF TypeInv
<1>5. /\ stack' \in Seq(Activations)
      /\ Len(stack') = Len(stack)
      /\ \A j \in 1..Len(stack) : stack'[j] = IF j = Len(stack) THEN act ELSE stack[j]
  BY <1>1, <1>3, <1>4, ExceptSeq
<1>6. act.isr = Top.isr /\ act.user = Top.user /\ act.ints = Top.ints /\ act.todo = todo
  BY <1>1, <1>2 DEF Activations
<1>7. DOMAIN stack' = 1..Len(stack) /\ stack' # <<>>
  BY <1>1, <1>5
<1>8. \A k \in 1..Len(stack) :
         /\ stack'[k].isr = stack[k].isr
         /\ stack'[k].user = stack[k].user
         /\ stack'[k].ints = stack[k].ints
         /\ stack'[k].todo = IF k = Len(stack) THEN todo ELSE stack[k].todo
  BY <1>5, <1>6 DEF Top
<1>9. 1 \in 1..Len(stack) /\ Len(stack) \in Nat \ {0} /\ DOMAIN stack = 1..Len(stack)
  BY StackTop
<1>10. /\ stack'[1].isr = stack[1].isr /\ stack'[1].ints = stack[1].ints
       /\ stack'[1].todo = IF Len(stack) = 1 THEN todo ELSE stack[1].todo
  BY <1>8, <1>9
<1>11. stack'[Len(stack)].isr = Top.isr
  BY <1>1, <1>5, <1>6
<1> QED
  BY <1>5, <1>7, <1>8, <1>9, <1>10, <1>11 DEF Moved

LEMMA AppendPushes ==
  ASSUME TypeInv, NEW act \in Activations, stack' = Append(stack, act)
  PROVE  Pushed(act)
<1>1. stack \in Seq(Activations)
  BY DEF TypeInv
<1> QED
  BY <1>1, AppendProperties DEF Pushed

(***************************************************************************)
(* What the invariant asks of a step on the stack                          *)
(***************************************************************************)

\* Where the activations are, what is on top of what, and the segments.
Layers == StackInv /\ ClosedInv /\ SegmentInv

\* What belongs to the active process.
Active == SpaceInv /\ FlagInv

LEMMA MoveLayers ==
  ASSUME IInv, NEW todo, Moved(todo), Planned(Top.isr, todo),
         Entering => ~ints',
         Top.isr \in Halting => todo # Ret,
         woken' = woken,
         ds # NullSegment => ds' # NullSegment,
         ds' = ds \/ Top.isr \notin Quiet,
         Top.isr \in Entered /\ todo = Ret => ds' = UserData
  PROVE  Layers'
<1>1. StackInv'
  <2> SUFFICES ASSUME NEW k \in 1..Len(stack)
               PROVE  /\ Planned(stack'[k].isr, stack'[k].todo)
                      /\ stack'[k].user <=> k = 1 /\ stack'[k].isr # "kernel_initialize"
                      /\ k > 1 => stack'[k].isr \in {"isr_generic", "isr_timer"} \cup Faults
    BY DEF StackInv, Moved
  <2>1. /\ Planned(stack[k].isr, stack[k].todo)
        /\ stack[k].user <=> k = 1 /\ stack[k].isr # "kernel_initialize"
        /\ k > 1 => stack[k].isr \in {"isr_generic", "isr_timer"} \cup Faults
    BY DEF IInv, StackInv, Moved
  <2>2. /\ stack'[k].isr = stack[k].isr
        /\ stack'[k].user = stack[k].user
        /\ stack'[k].todo = IF k = Len(stack) THEN todo ELSE stack[k].todo
    BY DEF Moved
  <2>3. k = Len(stack) => stack[k].isr = Top.isr
    BY DEF Top
  <2> QED
    BY <2>1, <2>2, <2>3
<1>2. Entering' <=> Entering
  BY DEF Moved, Entering
<1>3. ClosedInv'
  BY <1>2 DEF IInv, ClosedInv, Moved, Top, Faults, Halting
<1>4. SegmentInv'
  <2> SUFFICES ASSUME ~woken
               PROVE  /\ ds' # NullSegment
                      /\ \A k \in DOMAIN stack' :
                           stack'[k].isr \in Halting => stack'[k].todo # Ret
                      /\ (\A k \in DOMAIN stack' : stack'[k].isr \in Quiet) =>
                           ds' = UserData
                      /\ Entering' /\ stack'[1].todo = Ret =>
                           Len(stack') = 1 /\ ds' = UserData
    BY DEF SegmentInv
  <2>1. ds' # NullSegment
    BY DEF IInv, SegmentInv
  <2>2. \A k \in DOMAIN stack' : stack'[k].isr \in Halting => stack'[k].todo # Ret
    BY DEF IInv, SegmentInv, Moved, Top
  <2>3. (\A k \in DOMAIN stack' : stack'[k].isr \in Quiet) => ds' = UserData
    <3> SUFFICES ASSUME \A k \in 1..Len(stack) : stack'[k].isr \in Quiet
                 PROVE  ds' = UserData
      BY DEF Moved
    <3>1. \A k \in 1..Len(stack) : stack[k].isr \in Quiet
      BY DEF Moved
    <3>2. Top.isr \in Quiet
      <4>1. Len(stack) \in 1..Len(stack)
        BY StackTop DEF IInv, Moved
      <4> QED
        BY <3>1, <4>1 DEF Top
    <3>3. \A k \in DOMAIN stack : stack[k].isr \in Quiet
      BY <3>1 DEF Moved
    <3>4. ds = UserData
      BY <3>3 DEF IInv, SegmentInv
    <3> QED
      BY <3>2, <3>4
  <2>4. Entering' /\ stack'[1].todo = Ret => Len(stack') = 1 /\ ds' = UserData
    <3>1. Len(stack) = 1 => Top = stack[1]
      BY DEF Top
    <3>2. Entering => stack[1].isr \in Entered
      BY DEF Entering
    <3> QED
      BY <1>2, <3>1, <3>2 DEF IInv, SegmentInv, Moved
  <2> QED
    BY <2>1, <2>2, <2>3, <2>4
<1> QED
  BY <1>1, <1>3, <1>4 DEF Layers

LEMMA MoveActive ==
  ASSUME IInv, NEW todo, Moved(todo), Alike(Top.todo, todo),
         UNCHANGED <<active_process, cr3, call, flags, own>>,
         process_table \subseteq process_table',
         stack[1].isr = "kernel_initialize" => UNCHANGED syscall_table
  PROVE  Active'
<1>1. Entering' <=> Entering
  BY DEF Moved, Entering
<1>2. stack'[1].isr = stack[1].isr /\ stack'[1].ints = stack[1].ints
  BY DEF Moved
<1>3. \/ stack'[1].todo = stack[1].todo
      \/ Alike(stack[1].todo, stack'[1].todo)
  <2>1. Len(stack) = 1 => Top = stack[1]
    BY DEF Top
  <2> QED
    BY <2>1 DEF Moved
<1>4. SpaceInv'
  <2>1. LiveCall => LiveCall'
    BY DEF LiveCall
  <2>2. BootQueue'
    BY <1>2 DEF IInv, SpaceInv, BootQueue, Misplaced, Moved
  <2> QED
    BY <1>1, <1>3, <2>1, <2>2 DEF IInv, SpaceInv, Moved, Alike
<1>5. FlagInv'
  <2>1. \A p \in Pids : p # active_process' => flags'[p] = own'[p]
    BY DEF IInv, FlagInv
  <2>2. stack'[1].todo \notin Leaving => stack[1].todo \notin Leaving
    BY <1>3 DEF Alike
  <2>3. stack'[1].todo \in InCall \cup Leaving \cup {Sched} =>
          stack[1].todo \in InCall \cup Leaving \cup {Sched}
    BY <1>3 DEF Alike
  <2> QED
    BY <1>2, <2>1, <2>2, <2>3 DEF IInv, FlagInv, Moved
<1> QED
  BY <1>4, <1>5 DEF Active

\* Something interrupts the kernel or faults in it.
LEMMA PushLayers ==
  ASSUME IInv, stack # <<>>, NEW act, Pushed(act),
         act.isr \in {"isr_generic", "isr_timer"} \cup Faults,
         act.user = FALSE,
         Fresh(act.isr, act.todo),
         Entering => act.isr \in Faults /\ ~ints' /\ Top.todo # Ret,
         woken' = woken, ds' = ds
  PROVE  Layers'
<1>1. Len(stack) >= 1
  BY StackTop DEF IInv
<1>2. StackInv'
  BY <1>1 DEF IInv, StackInv, Pushed, Fresh
<1>3. (Entering' <=> Entering) /\ stack'[1] = stack[1]
  BY <1>1 DEF Pushed, Entering
<1>4. ClosedInv'
  BY <1>1, <1>3 DEF IInv, ClosedInv, Pushed, Fresh
<1>5. SegmentInv'
  <2> SUFFICES ASSUME ~woken
               PROVE  /\ ds' # NullSegment
                      /\ \A k \in DOMAIN stack' :
                           stack'[k].isr \in Halting => stack'[k].todo # Ret
                      /\ (\A k \in DOMAIN stack' : stack'[k].isr \in Quiet) =>
                           ds' = UserData
                      /\ Entering' /\ stack'[1].todo = Ret =>
                           Len(stack') = 1 /\ ds' = UserData
    BY DEF SegmentInv
  <2>1. ds' # NullSegment
    BY DEF IInv, SegmentInv
  <2>2. \A k \in DOMAIN stack' : stack'[k].isr \in Halting => stack'[k].todo # Ret
    BY DEF IInv, SegmentInv, Pushed, Fresh
  <2>3. (\A k \in DOMAIN stack' : stack'[k].isr \in Quiet) => ds' = UserData
    BY DEF IInv, SegmentInv, Pushed
  <2>4. Entering' /\ stack'[1].todo = Ret => Len(stack') = 1 /\ ds' = UserData
    <3>1. ASSUME Entering, stack[1].todo = Ret
          PROVE  FALSE
      <4>1. Len(stack) = 1
        BY <3>1 DEF IInv, SegmentInv
      <4> QED
        BY <3>1, <4>1 DEF Top
    <3> QED
      BY <1>3, <3>1
  <2> QED
    BY <2>1, <2>2, <2>3, <2>4
<1> QED
  BY <1>2, <1>4, <1>5 DEF Layers

LEMMA PushActive ==
  ASSUME IInv, stack # <<>>, NEW act, Pushed(act),
         UNCHANGED <<syscall_table, process_table, active_process, call, flags, own>>,
         active_process # NULL => cr3' = cr3
  PROVE  Active'
<1>1. Len(stack) >= 1
  BY StackTop DEF IInv
<1>2. (Entering' <=> Entering) /\ stack'[1] = stack[1] /\ stack' # <<>>
  BY <1>1 DEF Pushed, Entering
<1>3. SpaceInv'
  BY <1>2 DEF IInv, SpaceInv, LiveCall, BootQueue, Misplaced
<1>4. FlagInv'
  BY <1>2 DEF IInv, FlagInv
<1> QED
  BY <1>3, <1>4 DEF Active

(***************************************************************************)
(* One lemma for each action                                               *)
(***************************************************************************)

LEMMA PlannedMoves ==
  ASSUME IInv, stack # <<>>, NEW todo, Planned(Top.isr, todo), GoOn(todo)
  PROVE  Moved(todo)
BY PlanShape, GoOnMoves DEF IInv

\* A step that only goes on to the next place.
LEMMA Steady ==
  ASSUME IInv, NEW todo, Moved(todo), Layers', Active',
         ints' \in BOOLEAN, ds' \in {NullSegment, KernelData, UserData},
         UNCHANGED <<dispatch, flags, own, woken>>
  PROVE  IInv'
<1>1. TypeInv'
  BY DEF IInv, TypeInv, Moved, dispatch
<1>2. TableInv'
  BY DEF IInv, TableInv, dispatch
<1> QED
  BY <1>1, <1>2 DEF IInv, Layers, Active

LEMMA AtTop ==
  ASSUME IInv, NEW step, At(step)
  PROVE  /\ stack # <<>>
         /\ Planned(Top.isr, Top.todo)
         /\ Head(Top.todo) = step
BY TopPlanned DEF IInv, At

LEMMA FlagStep ==
  ASSUME IInv, Flag
  PROVE  IInv'
<1> DEFINE next == Tail(Top.todo)
<1>1. CASE At("cli")
  <2>1. Planned(Top.isr, next) /\ next # Ret /\ Alike(Top.todo, next) /\ stack # <<>>
    BY <1>1, AtTop, PlanCli
  <2>2. Moved(next)
    BY <2>1, PlannedMoves DEF Flag, Advance
  <2>3. ints' = FALSE
    BY <1>1 DEF Flag, At
  <2>4. Layers'
    BY <2>1, <2>2, <2>3, MoveLayers DEF Flag
  <2>5. Active'
    BY <2>1, <2>2, MoveActive DEF Flag, dispatch
  <2> QED
    BY <2>2, <2>3, <2>4, <2>5, Steady DEF Flag, IInv, TypeInv
<1>2. CASE At("sti")
  <2>1. /\ stack # <<>> /\ Top.isr = "kernel_initialize" /\ Top.todo = StiSched
        /\ next = Sched
    BY <1>2, AtTop, PlanOnce, Tails
  <2>2. Planned(Top.isr, Sched) /\ Sched # Ret
    BY <2>1, Heads DEF Planned
  <2>3. Moved(Sched)
    BY <2>1, <2>2, PlannedMoves DEF Flag, Advance
  <2>4. Len(stack) = 1 /\ Top = stack[1]
    BY <2>1, TopAlone DEF IInv
  <2>5. ~Entering
    BY <2>1, <2>4 DEF Entering, Entered
  <2>6. Layers'
    BY <2>1, <2>2, <2>3, <2>5, MoveLayers DEF Flag, Halting
  <2>7. StiSched \notin Leaving /\ Sched \notin InCall
    BY Heads DEF Leaving, InCall
  <2>8. active_process = NULL
    BY <2>1, <2>4, <2>7 DEF IInv, FlagInv
  <2>9. Sched \notin {PrintLoad, LoadOnly, InPrint, InFunction}
    BY Heads
  <2>10. Active'
    BY <2>3, <2>4, <2>8, <2>9
    DEF Active, IInv, SpaceInv, BootQueue, Misplaced, FlagInv, Moved, Flag, dispatch
  <2>11. ints' \in BOOLEAN
    BY DEF Flag, At
  <2> QED
    BY <2>3, <2>6, <2>10, <2>11, Steady DEF Flag, IInv, TypeInv
<1> QED
  BY <1>1, <1>2 DEF Flag

LEMMA SegmentsStep ==
  ASSUME IInv, Segments
  PROVE  IInv'
<1> DEFINE next == Tail(Top.todo)
<1>1. /\ stack # <<>>
      /\ Planned(Top.isr, next)
      /\ Alike(Top.todo, next)
      /\ Top.isr \in Faults \cup {"isr_syscall"}
      /\ Top.isr \in Halting => next # Ret
      /\ next = Ret => ds' = UserData
  <2>1. CASE At("ds_kernel")
    BY <2>1, AtTop, PlanSegment
  <2>2. CASE At("ds_user")
    <3>1. Top.isr = "isr_syscall" /\ Top.todo = UserSeg /\ next = Ret /\ stack # <<>>
      BY <2>2, AtTop, PlanOnce, Tails
    <3>2. Planned("isr_syscall", Ret) /\ Alike(UserSeg, Ret)
      BY Heads DEF Planned, Alike, Leaving, InCall
    <3>3. ds' = UserData
      BY <2>2 DEF Segments, At
    <3> QED
      BY <3>1, <3>2, <3>3 DEF Halting
  <2> QED
    BY <2>1, <2>2 DEF Segments
<1>2. Moved(next)
  BY <1>1, PlannedMoves DEF Segments, Advance
<1>3. ds' \in {KernelData, UserData} /\ ds' # NullSegment
  BY DEF Segments, KernelData, UserData, NullSegment
<1>4. Entering => ~ints'
  BY DEF Segments, IInv, ClosedInv
<1>5. Top.isr \notin Quiet
  BY <1>1 DEF Quiet, Faults
<1>6. Layers'
  BY <1>1, <1>2, <1>3, <1>4, <1>5, MoveLayers DEF Segments
<1>7. Active'
  BY <1>1, <1>2, MoveActive DEF Segments, dispatch
<1> QED
  BY <1>2, <1>3, <1>6, <1>7, Steady DEF Segments, IInv, TypeInv

LEMMA PrintedStep ==
  ASSUME IInv, Printed
  PROVE  IInv'
<1> DEFINE next == Tail(Top.todo)
<1>1. /\ Planned(Top.isr, next) /\ Alike(Top.todo, next) /\ stack # <<>>
      /\ next = Ret => Top.isr \in Quiet
  BY AtTop, PlanPrint DEF Printed
<1>2. Moved(next)
  BY <1>1, PlannedMoves DEF Printed, Advance
<1>3. Top.isr \in Quiet => Top.isr \notin Halting \cup Entered
  BY DEF Quiet, Halting, Entered
<1>4. Entering => ~ints'
  BY DEF Printed, IInv, ClosedInv
<1>5. Layers'
  BY <1>1, <1>2, <1>3, <1>4, MoveLayers DEF Printed
<1>6. Active'
  BY <1>1, <1>2, MoveActive DEF Printed, dispatch
<1> QED
  BY <1>2, <1>5, <1>6, Steady DEF Printed, IInv, TypeInv

LEMMA PrintingStep ==
  ASSUME IInv, UNCHANGED <<dispatch, machine>>
  PROVE  IInv'
<1>1. /\ (TypeInv <=> TypeInv') /\ (StackInv <=> StackInv') /\ (TableInv <=> TableInv')
      /\ (Entering <=> Entering')
  BY DEF TypeInv, StackInv, TableInv, Entering, machine, dispatch
<1>2. /\ (ClosedInv <=> ClosedInv') /\ (SegmentInv <=> SegmentInv')
      /\ (SpaceInv <=> SpaceInv') /\ (FlagInv <=> FlagInv')
  BY <1>1 DEF ClosedInv, SegmentInv, SpaceInv, LiveCall, BootQueue, Misplaced,
    FlagInv, machine, dispatch
<1> QED
  BY <1>1, <1>2 DEF IInv

\* What a gate puts on the stack.
LEMMA GateActivation ==
  ASSUME IInv, NEW vector, idt[vector].isr \in Isrs
  PROVE  LET act == Activation(idt[vector].isr, UserMode)
         IN  /\ act \in Activations
             /\ act.isr = idt[vector].isr
             /\ act.user = (stack = <<>>)
             /\ act.ints = ints
             /\ Fresh(act.isr, act.todo)
<1>1. Fresh(idt[vector].isr, Steps[idt[vector].isr])
  BY StepsFresh
<1>2. Steps[idt[vector].isr] \in Todos
  BY <1>1, PlanShape DEF Fresh
<1>3. ints \in BOOLEAN
  BY DEF IInv, TypeInv
<1> QED
  BY <1>1, <1>2, <1>3 DEF Activation, Activations, UserMode

LEMMA KernelPush ==
  ASSUME IInv, stack # <<>>, NEW vector, Through(vector, stack), woken' = woken,
         idt[vector].isr \in {"isr_generic", "isr_timer"} \cup Faults,
         Entering => idt[vector].isr \in Faults /\ Top.todo # Ret,
         UNCHANGED <<syscall_table, process_table, active_process, call>>,
         active_process # NULL => cr3' = cr3
  PROVE  IInv'
<1>1. idt[vector].isr \in Isrs
  BY DEF Isrs, Quiet, Faults, Halting
<1>2. PICK act \in Activations :
         /\ act = Activation(idt[vector].isr, UserMode)
         /\ act.isr = idt[vector].isr /\ act.user = FALSE /\ Fresh(act.isr, act.todo)
  BY <1>1, GateActivation
<1>3. Pushed(act)
  BY <1>2, AppendPushes DEF Through, IInv
<1>4. Entering => ~ints'
  BY DEF Through, IInv, ClosedInv
<1>5. Layers'
  BY <1>2, <1>3, <1>4, PushLayers DEF Through
<1>6. Active'
  BY <1>3, PushActive DEF Through
<1>7. TypeInv'
  BY <1>3 DEF IInv, TypeInv, Through, Pushed
<1>8. TableInv'
  BY DEF IInv, TableInv
<1> QED
  BY <1>5, <1>6, <1>7, <1>8 DEF IInv, Layers, Active

LEMMA NullAccessStep ==
  ASSUME IInv, NullAccess
  PROVE  IInv'
<1>1. PICK step \in Accessing : At(step)
  BY DEF NullAccess
<1>2. stack # <<>> /\ Head(Top.todo) = step
  BY <1>1, AtTop
<1>3. Top.todo # Ret
  BY <1>2, Heads DEF Accessing
<1>4. idt[EXCEPTION_GPF].isr \in Faults
  BY Gates DEF Faults
<1> QED
  BY <1>2, <1>3, <1>4, KernelPush DEF NullAccess, KernelFault, dispatch

LEMMA UserModeFacts ==
  ASSUME IInv, stack = <<>>
  PROVE  /\ ~woken => ds = UserData
         /\ active_process # NULL => cr3 = active_process /\ ints = own[active_process]
         /\ \A p \in Pids : p # active_process => flags[p] = own[p]
<1>1. \A k \in DOMAIN stack : FALSE
  OBVIOUS
<1>2. ~Entering
  BY DEF Entering
<1>3. ~woken => ds = UserData
  BY <1>1 DEF IInv, SegmentInv
<1> QED
  BY <1>2, <1>3 DEF IInv, SpaceInv, FlagInv

\* A process comes into the kernel.
LEMMA UserPush ==
  ASSUME IInv, stack = <<>>, NEW vector, Through(vector, stack),
         idt[vector].isr \in Isrs \ {"kernel_initialize"},
         idt[vector].isr \in Entered => idt[vector].type = "INT32",
         UNCHANGED <<dispatch, woken>>
  PROVE  IInv'
<1>1. PICK act \in Activations :
         /\ act = Activation(idt[vector].isr, UserMode)
         /\ act.isr = idt[vector].isr /\ act.user = TRUE /\ act.ints = ints
         /\ Fresh(act.isr, act.todo)
  BY GateActivation
<1>2. Pushed(act)
  BY <1>1, AppendPushes DEF Through, IInv
<1>3. /\ Len(stack') = 1 /\ stack'[1] = act /\ stack' # <<>> /\ DOMAIN stack' = {1}
      /\ stack' \in Seq(Activations)
  BY <1>2 DEF Pushed
<1>4. StackInv'
  BY <1>1, <1>3 DEF StackInv, Fresh
<1>5. Entering' => ~ints'
  BY <1>1, <1>3 DEF Entering, Through
<1>6. ClosedInv'
  BY <1>3, <1>5 DEF ClosedInv
<1>7. SegmentInv'
  <2>1. act.todo # Ret
    BY <1>1 DEF Fresh
  <2>2. ~woken => ds = UserData /\ ds # NullSegment
    BY UserModeFacts DEF UserData, NullSegment
  <2> QED
    BY <1>3, <2>1, <2>2 DEF SegmentInv, Through
<1>8. act.todo \notin {Sched} \cup InCall \cup Leaving
  BY <1>1 DEF Fresh
<1>9. SpaceInv'
  BY <1>1, <1>3, <1>8, UserModeFacts DEF SpaceInv, BootQueue, dispatch, Leaving, InCall
<1>10. FlagInv'
  BY <1>1, <1>3, <1>8, UserModeFacts DEF FlagInv, dispatch, Through
<1>11. TypeInv'
  BY <1>3 DEF IInv, TypeInv, Through, dispatch
<1>12. TableInv'
  BY DEF IInv, TableInv, dispatch
<1> QED
  BY <1>4, <1>6, <1>7, <1>9, <1>10, <1>11, <1>12 DEF IInv

LEMMA FromUserStep ==
  ASSUME IInv, FromUser
  PROVE  IInv'
<1>1. stack = <<>> /\ UNCHANGED <<dispatch, woken>>
  BY DEF FromUser, UserMode
<1>2. ASSUME NEW vector \in {ISR_SYSCALL, ISR_PREEMPT, ISR_APIC_TIMER},
             Through(Software(vector), stack)
      PROVE  IInv'
  <2>1. /\ idt[Software(vector)].isr \in Isrs \ {"kernel_initialize"}
        /\ idt[Software(vector)].isr \in Entered => idt[Software(vector)].type = "INT32"
    BY Gates DEF Software, Isrs, Quiet, Halting, Entered
  <2> QED
    BY <1>1, <1>2, <2>1, UserPush
<1>3. ASSUME NEW exception \in {EXCEPTION_DIV_BY_0, EXCEPTION_INVALID_OPCODE,
                                EXCEPTION_SEGMENT_NOT_PRESENT, EXCEPTION_GPF,
                                EXCEPTION_PAGE_FAULT},
             Through(exception, stack)
      PROVE  IInv'
  <2>1. /\ idt[exception].isr \in Isrs \ {"kernel_initialize"}
        /\ idt[exception].isr \notin Entered
    BY Gates DEF Isrs, Quiet, Halting, Entered
  <2> QED
    BY <1>1, <1>3, <2>1, UserPush
<1> QED
  BY <1>2, <1>3 DEF FromUser

LEMMA UserFlagStep ==
  ASSUME IInv, UserFlag
  PROVE  IInv'
<1>1. stack = <<>> /\ stack' = <<>> /\ ~Entering' /\ ~Entering /\ ints \in BOOLEAN
  BY DEF UserFlag, UserMode, Entering, IInv, TypeInv
<1>2. TypeInv'
  BY <1>1 DEF UserFlag, IInv, TypeInv, dispatch
<1>3. StackInv' /\ ClosedInv' /\ SegmentInv'
  BY <1>1 DEF UserFlag, IInv, StackInv, ClosedInv, SegmentInv
<1>4. SpaceInv'
  BY <1>1 DEF UserFlag, IInv, SpaceInv, BootQueue, dispatch
<1>5. FlagInv'
  <2>1. active_process # NULL => active_process \in Pids
    BY DEF IInv, TypeInv
  <2>2. \A p \in Pids : own'[p] = IF p = active_process THEN ~ints ELSE own[p]
    BY DEF UserFlag
  <2> QED
    BY <1>1, <2>1, <2>2 DEF UserFlag, IInv, FlagInv, dispatch
<1>6. TableInv'
  BY DEF UserFlag, IInv, TableInv, dispatch
<1> QED
  BY <1>2, <1>3, <1>4, <1>5, <1>6 DEF IInv

\* An interrupt ends a hlt: the handler below will return.
LEMMA WakeShape ==
  ASSUME IInv, Interrupt, At("hlt")
  PROVE  /\ stack # <<>> /\ Top.todo = Hlt /\ Top.isr \in Halting
         /\ woken' = TRUE /\ ints' = FALSE /\ ints
         /\ UNCHANGED <<dispatch, cursor, ds, flags, own>>
         /\ calls' = Append(calls, NotPrinting)
         /\ \E act, low \in Activations :
              /\ act.isr \in {"isr_generic", "isr_timer"} /\ act.user = FALSE
              /\ Fresh(act.isr, act.todo)
              /\ low.isr = Top.isr /\ low.user = Top.user /\ low.ints = Top.ints
              /\ low.todo = Ret
              /\ stack' \in Seq(Activations) /\ stack' # <<>>
              /\ Len(stack') = Len(stack) + 1
              /\ \A k \in 1..Len(stack) : stack'[k] = IF k = Len(stack) THEN low ELSE stack[k]
              /\ stack'[Len(stack) + 1] = act
<1>1. /\ stack # <<>> /\ Top.todo = Hlt /\ Top.isr \in Halting
      /\ Tail(Top.todo) = Ret
  BY AtTop, PlanOnce, Tails
<1>2. PICK vector \in External :
         /\ Through(vector, [stack EXCEPT ![Len(stack)].todo = Tail(@)])
         /\ woken' = TRUE
  BY DEF Interrupt
<1>a. /\ UNCHANGED <<dispatch, cursor, ds, flags, own>> /\ ints
      /\ calls' = Append(calls, NotPrinting)
      /\ ints' = (ints /\ idt[vector].type = "TRAP32")
  BY <1>2 DEF Interrupt, Through
<1>b. /\ idt[vector].isr \in {"isr_generic", "isr_timer"} /\ idt[vector].isr \in Isrs
      /\ idt[vector].type = "INT32"
  BY Gates, EntriesAssumption DEF Isrs, Quiet
<1>c. ints' = FALSE
  BY <1>a, <1>b
<1>3. PICK act \in Activations :
         /\ act = Activation(idt[vector].isr, UserMode)
         /\ act.isr = idt[vector].isr /\ act.user = FALSE /\ Fresh(act.isr, act.todo)
  BY <1>1, <1>b, GateActivation
<1>4. /\ Len(stack) \in Nat \ {0} /\ DOMAIN stack = 1..Len(stack)
      /\ Len(stack) \in 1..Len(stack) /\ 1 \in 1..Len(stack)
      /\ Top \in Activations /\ stack \in Seq(Activations)
  BY <1>1, StackTop DEF IInv, TypeInv
<1>5. PICK low \in Activations : low = [Top EXCEPT !.todo = Ret]
  BY <1>4 DEF Activations, Todos
<1>6. /\ low.isr = Top.isr /\ low.user = Top.user /\ low.ints = Top.ints
      /\ low.todo = Ret
  BY <1>4, <1>5 DEF Activations
<1>7. PICK below : below = [stack EXCEPT ![Len(stack)] = low]
  OBVIOUS
<1>8. /\ below \in Seq(Activations) /\ Len(below) = Len(stack)
      /\ \A k \in 1..Len(stack) : below[k] = IF k = Len(stack) THEN low ELSE stack[k]
  BY <1>4, <1>7, ExceptSeq
<1>9. [stack EXCEPT ![Len(stack)].todo = Tail(@)] = below
  BY <1>1, <1>5, <1>7 DEF Top
<1>10. stack' = Append(below, act)
  BY <1>2, <1>3, <1>9 DEF Through
<1>11. /\ stack' \in Seq(Activations) /\ stack' # <<>>
       /\ Len(stack') = Len(stack) + 1
       /\ \A k \in 1..Len(stack) : stack'[k] = below[k]
       /\ stack'[Len(stack) + 1] = act
  BY <1>8, <1>10, AppendProperties
<1>12. \A k \in 1..Len(stack) : stack'[k] = IF k = Len(stack) THEN low ELSE stack[k]
  BY <1>8, <1>11
<1> QED
  BY <1>1, <1>2, <1>3, <1>a, <1>b, <1>c, <1>6, <1>11, <1>12

LEMMA WakePush ==
  ASSUME IInv, Interrupt, At("hlt")
  PROVE  IInv'
<1>1. /\ stack # <<>> /\ Top.todo = Hlt /\ Top.isr \in Halting
      /\ woken' = TRUE /\ UNCHANGED <<dispatch, ds, flags, own>> /\ ints' \in BOOLEAN
  BY WakeShape
<1>2. PICK act \in Activations, low \in Activations :
        /\ act.isr \in {"isr_generic", "isr_timer"} /\ act.user = FALSE
        /\ Fresh(act.isr, act.todo)
        /\ low.isr = Top.isr /\ low.user = Top.user /\ low.ints = Top.ints
        /\ low.todo = Ret
        /\ stack' \in Seq(Activations) /\ stack' # <<>>
        /\ Len(stack') = Len(stack) + 1
        /\ \A k \in 1..Len(stack) : stack'[k] = IF k = Len(stack) THEN low ELSE stack[k]
        /\ stack'[Len(stack) + 1] = act
  BY WakeShape
<1>4. /\ Len(stack) \in Nat \ {0} /\ DOMAIN stack = 1..Len(stack)
      /\ Len(stack) \in 1..Len(stack) /\ 1 \in 1..Len(stack)
  BY <1>1, StackTop DEF IInv, TypeInv
<1>12. ~Entering
  BY DEF IInv, ClosedInv, Interrupt
<1>13. stack'[1].isr = stack[1].isr /\ stack'[1].ints = stack[1].ints
  BY <1>2, <1>4 DEF Top
<1>14. ~Entering'
  BY <1>1, <1>2, <1>12, <1>13 DEF Entering
<1>15. TypeInv'
  BY <1>1, <1>2 DEF IInv, TypeInv, dispatch
<1>16. StackInv'
  <2> SUFFICES ASSUME NEW k \in 1..Len(stack) + 1
               PROVE  /\ Planned(stack'[k].isr, stack'[k].todo)
                      /\ stack'[k].user <=> k = 1 /\ stack'[k].isr # "kernel_initialize"
                      /\ k > 1 => stack'[k].isr \in {"isr_generic", "isr_timer"} \cup Faults
    BY <1>2 DEF StackInv
  <2>1. CASE k = Len(stack) + 1
    <3>1. stack'[k] = act
      BY <1>2, <2>1
    <3>2. k > 1
      BY <1>4, <2>1
    <3>3. Planned(act.isr, act.todo)
      BY <1>2 DEF Fresh
    <3> QED
      BY <1>2, <3>1, <3>2, <3>3
  <2>2. CASE k # Len(stack) + 1
    <3>1. /\ k \in 1..Len(stack)
          /\ stack'[k] = IF k = Len(stack) THEN low ELSE stack[k]
      <4>1. k \in 1..Len(stack)
        BY <1>4, <2>2
      <4> QED
        BY <1>2, <4>1
    <3>2. /\ Planned(stack[k].isr, stack[k].todo)
          /\ stack[k].user <=> k = 1 /\ stack[k].isr # "kernel_initialize"
          /\ k > 1 => stack[k].isr \in {"isr_generic", "isr_timer"} \cup Faults
      BY <1>4, <3>1 DEF IInv, StackInv
    <3>3. Planned(low.isr, Ret)
      BY <1>1, <1>2 DEF Planned, Halting
    <3>4. CASE k = Len(stack)
      <4>1. stack'[k] = low /\ stack[k] = Top
        BY <3>1, <3>4 DEF Top
      <4> QED
        BY <1>2, <3>2, <3>3, <4>1
    <3>5. CASE k # Len(stack)
      BY <3>1, <3>2, <3>5
    <3> QED
      BY <3>4, <3>5
  <2> QED
    BY <2>1, <2>2
<1>17. ClosedInv' /\ SegmentInv'
  BY <1>1, <1>14 DEF ClosedInv, SegmentInv
<1>18. \/ stack'[1].todo = stack[1].todo
       \/ stack[1].todo = Hlt /\ stack'[1].todo = Ret
  BY <1>1, <1>2, <1>4 DEF Top
<1>19. {Hlt, Ret} \cap (Leaving \cup InCall \cup {Sched}) = {}
  BY Heads DEF Leaving, InCall
<1>20. SpaceInv'
  <2>1. stack'[1].isr = stack[1].isr
    BY <1>1, <1>2, <1>4 DEF Top
  <2>2. BootQueue'
    BY <1>1, <2>1 DEF IInv, SpaceInv, BootQueue, Misplaced, dispatch
  <2> QED
    BY <1>1, <1>12, <1>18, <1>19, <2>2
    DEF IInv, SpaceInv, LiveCall, dispatch, Leaving, InCall
<1>21. FlagInv'
  BY <1>1, <1>2, <1>13, <1>18, <1>19 DEF IInv, FlagInv, dispatch
<1>22. TableInv'
  BY <1>1 DEF IInv, TableInv, dispatch
<1> QED
  BY <1>15, <1>16, <1>17, <1>20, <1>21, <1>22 DEF IInv

LEMMA InterruptStep ==
  ASSUME IInv, Interrupt
  PROVE  IInv'
<1>1. PICK vector \in External :
         IF At("hlt")
         THEN /\ Through(vector, [stack EXCEPT ![Len(stack)].todo = Tail(@)])
              /\ woken' = TRUE
         ELSE Through(vector, stack) /\ UNCHANGED woken
  BY DEF Interrupt
<1>2. idt[vector].isr \in {"isr_generic", "isr_timer"}
  BY Gates, EntriesAssumption
<1>3. ints /\ UNCHANGED dispatch
  BY DEF Interrupt
<1>4. CASE At("hlt")
  BY <1>4, WakePush
<1>5. CASE ~At("hlt") /\ stack # <<>>
  <2>1. ~Entering
    BY <1>3 DEF IInv, ClosedInv
  <2> QED
    BY <1>1, <1>2, <1>3, <1>5, <2>1, KernelPush DEF dispatch
<1>6. CASE ~At("hlt") /\ stack = <<>>
  <2>1. idt[vector].isr \in Isrs \ {"kernel_initialize"} /\ idt[vector].isr \notin Entered
    BY <1>2 DEF Isrs, Quiet, Entered
  <2> QED
    BY <1>1, <1>3, <1>6, <2>1, UserPush
<1> QED
  BY <1>4, <1>5, <1>6

LEMMA GdtSegments ==
  /\ gdt[UserData \div 8].dpl = 3
  /\ gdt[KernelData \div 8].dpl = 0
  /\ gdt[NullSegment \div 8].dpl = 0
<1>1. UserData \div 8 = 4 /\ KernelData \div 8 = 2 /\ NullSegment \div 8 = 0
  BY DEF UserData, KernelData, NullSegment
<1> QED
  BY <1>1 DEF gdt, create_segment_descriptor

\* A process gets the CPU back.
LEMMA ToUserStep ==
  ASSUME IInv, NEW flag \in BOOLEAN, NEW segments \in {NullSegment, UserData},
         ToUser(flag, segments), UNCHANGED dispatch,
         ~woken => segments = UserData,
         \A p \in Pids : p # active_process => flags[p] = own[p],
         active_process # NULL => cr3 = active_process /\ flag = own[active_process]
  PROVE  IInv'
<1>1. stack' = <<>> /\ ~Entering' /\ ints' = flag /\ ds' = segments
  BY DEF ToUser, Entering
<1>2. TypeInv'
  BY <1>1 DEF ToUser, IInv, TypeInv, dispatch
<1>3. StackInv' /\ ClosedInv'
  BY <1>1 DEF StackInv, ClosedInv
<1>4. SegmentInv'
  BY <1>1 DEF SegmentInv, ToUser, NullSegment, UserData
<1>5. SpaceInv' /\ FlagInv'
  BY <1>1 DEF SpaceInv, BootQueue, FlagInv, ToUser, dispatch
<1>6. TableInv'
  BY DEF IInv, TableInv, dispatch
<1> QED
  BY <1>2, <1>3, <1>4, <1>5, <1>6 DEF IInv

LEMMA IretStep ==
  ASSUME IInv, Iret
  PROVE  IInv'
<1>1. /\ stack # <<>> /\ Top.todo = Ret
      /\ Top.isr \in Quiet \cup Halting \cup {"isr_syscall"}
  BY AtTop, PlanOnce DEF Iret
<1>2. /\ Len(stack) \in Nat \ {0} /\ DOMAIN stack = 1..Len(stack)
      /\ Len(stack) \in 1..Len(stack) /\ 1 \in 1..Len(stack)
      /\ Top \in Activations /\ stack \in Seq(Activations)
  BY <1>1, StackTop DEF IInv, TypeInv
<1>3. Ret \notin Leaving \cup InCall \cup {Sched}
  BY Heads DEF Leaving, InCall
<1>4. Top.ints \in BOOLEAN
  BY <1>2 DEF Activations
<1>5. ~woken => Top.isr \notin Halting
  BY <1>1, <1>2 DEF IInv, SegmentInv, Top
<1>6. UNCHANGED dispatch
  BY DEF Iret
<1>7. CASE Top.user
  <2> DEFINE segments == IF gdt[ds \div 8].dpl = 0 THEN NullSegment ELSE ds
  <2>1. ToUser(Top.ints, segments)
    BY <1>7 DEF Iret
  <2>2. Len(stack) = 1 /\ Top = stack[1]
    BY <1>1, <1>7, TopPlanned DEF IInv, Top
  <2>3. segments \in {NullSegment, UserData} /\ (ds = UserData => segments = UserData)
    BY GdtSegments DEF IInv, TypeInv
  <2>4. ~woken => ds = UserData
    <3>1. Top.isr = "isr_syscall" => Entering
      BY <1>1, <2>2 DEF Entering, Entered
    <3>2. Top.isr \in Quiet => \A k \in DOMAIN stack : stack[k].isr \in Quiet
      BY <1>2, <2>2
    <3> QED
      BY <1>1, <1>5, <2>2, <3>1, <3>2 DEF IInv, SegmentInv
  <2>5. /\ \A p \in Pids : p # active_process => flags[p] = own[p]
        /\ active_process # NULL => cr3 = active_process /\ Top.ints = own[active_process]
    BY <1>1, <1>3, <2>2 DEF IInv, FlagInv, SpaceInv
  <2> HIDE DEF segments
  <2> QED
    BY <1>4, <1>6, <2>1, <2>3, <2>4, <2>5, ToUserStep
<1>8. CASE ~Top.user
  <2>1. Len(stack) # 1
    BY <1>1, <1>8, TopPlanned DEF IInv, Quiet, Halting
  <2>2. stack' = SubSeq(stack, 1, Len(stack) - 1)
    BY <1>8 DEF Iret, Front, ToUser
  <2>3. /\ stack' \in Seq(Activations) /\ Len(stack') = Len(stack) - 1
        /\ DOMAIN stack' = 1..Len(stack) - 1
        /\ \A k \in 1..Len(stack) - 1 : stack'[k] = stack[k]
        /\ stack' # <<>> /\ stack'[1] = stack[1]
    <3>0. Len(stack) - 1 \in Nat \ {0}
      BY <1>2, <2>1
    <3>1. PICK n \in Nat \ {0} : n = Len(stack) - 1
      BY <3>0
    <3>2. /\ \A k \in 1..n : k \in 1..Len(stack)
          /\ \A k \in 1..n : stack[k] \in Activations
      BY <1>2, <3>1
    <3>3. /\ stack' \in Seq(Activations)
          /\ Len(stack') = n
          /\ \A k \in 1..n : stack'[k] = stack[k]
      BY <2>2, <3>1, <3>2, SubSeqProperties
    <3> QED
      BY <3>1, <3>3
  <2>4. ~Entering
    BY <1>1, <1>2, <2>1 DEF IInv, ClosedInv, Top
  <2>5. ~Entering'
    BY <1>1, <2>3, <2>4 DEF Entering
  <2>6. /\ ints' = Top.ints
        /\ UNCHANGED <<ds, flags, own, woken>>
    BY <1>8 DEF Iret
  <2>7. TypeInv'
    BY <1>4, <1>6, <2>3, <2>6 DEF IInv, TypeInv, dispatch
  <2>8. StackInv'
    BY <1>2, <2>3 DEF IInv, StackInv
  <2>9. ClosedInv'
    BY <2>5 DEF ClosedInv
  <2>10. SegmentInv'
    <3> SUFFICES ASSUME ~woken
                 PROVE  /\ ds # NullSegment
                        /\ \A k \in DOMAIN stack' :
                             stack'[k].isr \in Halting => stack'[k].todo # Ret
                        /\ (\A k \in DOMAIN stack' : stack'[k].isr \in Quiet) =>
                             ds = UserData
      BY <2>5, <2>6 DEF SegmentInv
    <3>1. ds # NullSegment
      BY DEF IInv, SegmentInv
    <3>2. \A k \in DOMAIN stack' : stack'[k].isr \in Halting => stack'[k].todo # Ret
      BY <1>2, <2>3 DEF IInv, SegmentInv
    <3>3. ASSUME \A k \in DOMAIN stack' : stack'[k].isr \in Quiet
          PROVE  ds = UserData
      <4>1. Top.isr \in Quiet
        BY <1>1, <1>2, <1>5, <2>1, TopPlanned DEF IInv, Faults, Quiet, Halting
      <4>2. \A k \in DOMAIN stack : stack[k].isr \in Quiet
        BY <1>2, <2>3, <3>3, <4>1 DEF Top
      <4> QED
        BY <4>2 DEF IInv, SegmentInv
    <3> QED
      BY <3>1, <3>2, <3>3
  <2>11. SpaceInv'
    BY <1>1, <1>6, <2>3, <2>4 DEF IInv, SpaceInv, LiveCall, BootQueue, Misplaced, dispatch
  <2>12. FlagInv'
    BY <1>1, <1>6, <2>3, <2>6 DEF IInv, FlagInv, dispatch
  <2>13. TableInv'
    BY <1>6 DEF IInv, TableInv, dispatch
  <2> QED
    BY <2>7, <2>8, <2>9, <2>10, <2>11, <2>12, <2>13 DEF IInv
<1> QED
  BY <1>7, <1>8

LEMMA ConcatTwo ==
  ASSUME NEW a, NEW b
  PROVE  <<a>> \o <<b>> = <<a, b>>
<1> DEFINE S == {a, b}
<1>1. PICK s \in Seq(S) : s = <<a>>
  <2>1. <<a>> \in Seq(S)
    OBVIOUS
  <2> QED
    BY <2>1
<1>2. PICK t \in Seq(S) : t = <<b>>
  <2>1. <<b>> \in Seq(S)
    OBVIOUS
  <2> QED
    BY <2>1
<1>3. PICK u \in Seq(S) : u = <<a, b>>
  <2>1. <<a, b>> \in Seq(S)
    OBVIOUS
  <2> QED
    BY <2>1
<1>4. /\ Len(s) = 1 /\ s[1] = a
      /\ Len(t) = 1 /\ t[1] = b
      /\ Len(u) = 2 /\ u[1] = a /\ u[2] = b
  BY <1>1, <1>2, <1>3
<1>5. /\ s \o t \in Seq(S) /\ Len(s \o t) = 2
      /\ \A i \in 1..2 : (s \o t)[i] = IF i <= 1 THEN s[i] ELSE t[i - 1]
  BY <1>4, ConcatProperties
<1>6. \A i \in 1..2 : (s \o t)[i] = u[i]
  BY <1>4, <1>5
<1>7. s \o t = u
  BY <1>4, <1>5, <1>6, SeqEqual
<1> QED
  BY <1>1, <1>2, <1>3, <1>7

LEMMA ConcatFive ==
  ASSUME NEW a, NEW b, NEW c, NEW d, NEW e
  PROVE  <<a, b, c>> \o <<d, e>> = <<a, b, c, d, e>>
<1> DEFINE S == {a, b, c, d, e}
<1>1. PICK s \in Seq(S) : s = <<a, b, c>>
  <2>1. <<a, b, c>> \in Seq(S)
    OBVIOUS
  <2> QED
    BY <2>1
<1>2. PICK t \in Seq(S) : t = <<d, e>>
  <2>1. <<d, e>> \in Seq(S)
    OBVIOUS
  <2> QED
    BY <2>1
<1>3. PICK u \in Seq(S) : u = <<a, b, c, d, e>>
  <2>1. <<a, b, c, d, e>> \in Seq(S)
    OBVIOUS
  <2> QED
    BY <2>1
<1>4. /\ Len(s) = 3 /\ s[1] = a /\ s[2] = b /\ s[3] = c
      /\ Len(t) = 2 /\ t[1] = d /\ t[2] = e
      /\ Len(u) = 5 /\ u[1] = a /\ u[2] = b /\ u[3] = c /\ u[4] = d /\ u[5] = e
  BY <1>1, <1>2, <1>3
<1>5. /\ s \o t \in Seq(S) /\ Len(s \o t) = 5
      /\ \A i \in 1..5 : (s \o t)[i] = IF i <= 3 THEN s[i] ELSE t[i - 3]
  <2>1. /\ s \o t \in Seq(S)
        /\ Len(s \o t) = Len(s) + Len(t)
        /\ \A i \in 1..Len(s) + Len(t) : (s \o t)[i] =
             IF i <= Len(s) THEN s[i] ELSE t[i - Len(s)]
    BY ConcatProperties
  <2>2. Len(s) = 3 /\ Len(s) + Len(t) = 5
    BY <1>4
  <2> QED
    BY <2>1, <2>2
<1>6. \A i \in 1..5 : (s \o t)[i] = u[i]
  BY <1>4, <1>5
<1>7. s \o t = u
  BY <1>4, <1>5, <1>6, SeqEqual
<1> QED
  BY <1>1, <1>2, <1>3, <1>7

\* What the scheduler and a call of a function put in front of the rest.
LEMMA Prefixed ==
  /\ <<"print">> \o LoadOnly = PrintLoad
  /\ <<"print", "function", "return">> \o UserSeg = InPrint
<1>1. <<"print">> \o <<"load_context">> = <<"print", "load_context">>
  BY ConcatTwo, Zenon
<1>2. <<"print", "function", "return">> \o <<"ds_user", "iret">> =
        <<"print", "function", "return", "ds_user", "iret">>
  BY ConcatFive, Zenon
<1> QED
  BY <1>1, <1>2, Zenon DEF LoadOnly, PrintLoad, UserSeg, InPrint

(***************************************************************************)
(* The syscall table                                                       *)
(***************************************************************************)

LEMMA TableBounds ==
  /\ MAX_SYSCALL_ID \in Nat
  /\ \A id \in 0..LastId : id \in 0..MAX_SYSCALL_ID /\ id < MAX_SYSCALL_ID
  /\ 0 \notin Pids /\ Pids \subseteq Nat
BY SyscallAssumption DEF MAX_SYSCALL_ID

\* An entry below the last identifier is set; what follows the table is not.
LEMMA SetKeepsTable ==
  ASSUME IInv, NEW id \in 0..LastId, NEW arg_count, NEW pid \in Nat, NEW func_ptr,
         set_syscall(id, arg_count, pid, func_ptr)
  PROVE  /\ syscall_table' \in [0..MAX_SYSCALL_ID -> TableEntries]
         /\ syscall_table'[MAX_SYSCALL_ID] = syscall_table[MAX_SYSCALL_ID]
         /\ TableInv'
<1>1. syscall_table \in [0..MAX_SYSCALL_ID -> TableEntries]
  BY DEF IInv, TypeInv
<1>2. id \in 0..MAX_SYSCALL_ID /\ id # MAX_SYSCALL_ID /\ MAX_SYSCALL_ID \in 0..MAX_SYSCALL_ID
  BY TableBounds
<1>3. [defined |-> TRUE, process_id |-> pid] \in TableEntries
  BY DEF TableEntries
<1>4. \/ syscall_table' = syscall_table
      \/ syscall_table' = [syscall_table EXCEPT ![id] = [defined |-> TRUE, process_id |-> pid]]
  BY DEF set_syscall
<1> QED
  BY <1>1, <1>2, <1>3, <1>4 DEF IInv, TableInv

\* do_syscall may clear the word behind the table, but not its owner.
LEMMA StaleKeepsTable ==
  ASSUME IInv, NEW id \in 0..MAX_SYSCALL_ID + 1, StaleCall(id)
  PROVE  /\ syscall_table' \in [0..MAX_SYSCALL_ID -> TableEntries]
         /\ TableInv'
<1>1. syscall_table \in [0..MAX_SYSCALL_ID -> TableEntries]
  BY DEF IInv, TypeInv
<1>2. id \in 0..MAX_SYSCALL_ID /\ syscall_table[id].defined /\ MAX_SYSCALL_ID \in 0..MAX_SYSCALL_ID
  BY TableBounds DEF StaleCall, NoSuchCall
<1>4. syscall_table' = [syscall_table EXCEPT ![id] = [syscall_table[id] EXCEPT !.defined = FALSE]]
  BY DEF StaleCall
<1>5. [syscall_table[id] EXCEPT !.defined = FALSE] \in TableEntries
  BY <1>1, <1>2 DEF TableEntries
<1> QED
  BY <1>1, <1>2, <1>4, <1>5 DEF IInv, TableInv, TableEntries

\* A set of identifiers has a least one.
LEMMA LeastId ==
  ASSUME NEW ids, ids \subseteq Nat, ids # {}
  PROVE  \E id \in ids : \A other \in ids : id <= other
<1>1. PICK id \in ids : \A other \in ids : ~(<<other, id>> \in OpToRel(<, Nat))
  BY NatLessThanWellFounded, WFMin
<1>2. \A other \in ids : ~(other < id)
  BY <1>1 DEF OpToRel
<1> QED
  BY <1>2

LEMMA SetSyscallsStep ==
  ASSUME IInv, SetSyscalls
  PROVE  IInv'
<1> DEFINE missing == {id \in SyscallIds : ~syscall_table[id].defined}
           first == CHOOSE id \in missing : \A other \in missing : id <= other
<1>1. /\ stack # <<>> /\ Top.isr = "kernel_initialize" /\ Top.todo = Syscalls
      /\ Tail(Top.todo) = Modules
  BY AtTop, PlanOnce, Tails DEF SetSyscalls
<1>2. CASE missing # {} /\ set_syscall(first, 1, 0, Code) /\ UNCHANGED <<console, machine>>
  <2>1. missing \subseteq Nat /\ missing \subseteq 0..LastId
    <3>1. LastId \in Nat /\ SyscallIds \subseteq 0..LastId
      BY SyscallAssumption
    <3>2. missing \subseteq SyscallIds
      OBVIOUS
    <3> HIDE DEF missing
    <3> QED
      BY <3>1, <3>2
  <2>2. \E id \in missing : \A other \in missing : id <= other
    <3> HIDE DEF missing
    <3> QED
      BY <1>2, <2>1, LeastId
  <2>3. first \in missing
    BY <2>2
  <2>4. first \in 0..LastId
    BY <2>1, <2>3
  <2>5. syscall_table' \in [0..MAX_SYSCALL_ID -> TableEntries] /\ TableInv'
    <3> HIDE DEF first
    <3> QED
      BY <1>2, <2>4, SetKeepsTable
  <2>6. UNCHANGED <<process_table, active_process, cr3, call>>
    BY <1>2 DEF set_syscall
  <2>7. TypeInv'
    BY <1>2, <2>5, <2>6 DEF IInv, TypeInv, machine
  <2>8. (Entering <=> Entering') /\ StackInv'
    BY <1>2 DEF IInv, StackInv, Entering, machine
  <2>9. ClosedInv' /\ SegmentInv' /\ FlagInv'
    BY <1>2, <2>6, <2>8 DEF IInv, ClosedInv, SegmentInv, FlagInv, machine
  <2>10. syscall_table'[MAX_SYSCALL_ID] = syscall_table[MAX_SYSCALL_ID]
    <3> HIDE DEF first
    <3> QED
      BY <1>2, <2>4, SetKeepsTable
  <2>11. SpaceInv'
    BY <1>2, <2>6, <2>8, <2>10 DEF IInv, SpaceInv, LiveCall, BootQueue, Misplaced, machine
  <2> QED
    BY <2>5, <2>7, <2>8, <2>9, <2>11 DEF IInv
<1>3. CASE Advance /\ UNCHANGED <<dispatch, console, ints, ds, flags, own, woken>>
  <2>1. Planned("kernel_initialize", Modules) /\ Modules # Ret /\ Alike(Syscalls, Modules)
    BY Heads DEF Planned, Alike, Leaving, InCall
  <2>2. Moved(Modules)
    BY <1>1, <1>3, <2>1, PlannedMoves DEF Advance
  <2>3. Entering => ~ints'
    BY <1>3 DEF IInv, ClosedInv
  <2>4. Layers'
    BY <1>1, <1>3, <2>1, <2>2, <2>3, MoveLayers DEF Halting
  <2>5. Active'
    BY <1>1, <1>3, <2>1, <2>2, MoveActive DEF dispatch
  <2> QED
    BY <1>3, <2>2, <2>4, <2>5, Steady DEF IInv, TypeInv
<1> QED
  BY <1>2, <1>3 DEF SetSyscalls

LEMMA LoadModulesStep ==
  ASSUME IInv, LoadModules
  PROVE  IInv'
<1>1. /\ stack # <<>> /\ Top.isr = "kernel_initialize" /\ Top.todo = Modules
      /\ Tail(Top.todo) = StiSched
  BY AtTop, PlanOnce, Tails DEF LoadModules
<1>2. Planned("kernel_initialize", StiSched) /\ StiSched # Ret /\ Alike(Modules, StiSched)
  BY Heads DEF Planned, Alike, Leaving, InCall
<1>3. Moved(StiSched)
  BY <1>1, <1>2, PlannedMoves DEF LoadModules, Advance
<1>4. Entering => ~ints'
  BY DEF LoadModules, IInv, ClosedInv
<1>5. Layers'
  BY <1>1, <1>2, <1>3, <1>4, MoveLayers DEF LoadModules, Halting
<1>6. Active'
  <2>1. process_table \subseteq process_table' /\ UNCHANGED syscall_table
    BY DEF LoadModules, IInv, TypeInv
  <2> QED
    BY <1>1, <1>2, <1>3, <2>1, MoveActive DEF LoadModules
<1>7. TypeInv'
  BY <1>3 DEF LoadModules, IInv, TypeInv, Moved
<1>8. TableInv'
  BY DEF LoadModules, IInv, TableInv
<1> QED
  BY <1>5, <1>6, <1>7, <1>8 DEF IInv, Layers, Active

LEMMA StoreContextStep ==
  ASSUME IInv, StoreContext
  PROVE  IInv'
<1>1. /\ stack # <<>> /\ Top.isr = "isr_preempt" /\ Top.todo = StoreSched
      /\ Tail(Top.todo) = Sched
  BY AtTop, PlanOnce, Tails DEF StoreContext
<1>2. Planned("isr_preempt", Sched) /\ Sched # Ret
  BY Heads DEF Planned
<1>3. Moved(Sched)
  BY <1>1, <1>2, PlannedMoves DEF StoreContext, Advance
<1>4. Len(stack) = 1 /\ Top = stack[1]
  BY <1>1, TopAlone DEF IInv, Entered
<1>5. Entering => ~ints'
  BY DEF StoreContext, IInv, ClosedInv
<1>6. Layers'
  BY <1>1, <1>2, <1>3, <1>5, MoveLayers DEF StoreContext, Halting, Entered
<1>7. StoreSched \notin Leaving /\ StoreSched \notin InCall /\ Sched \notin Leaving
  BY Heads DEF Leaving, InCall
<1>8. stack[1].ints \in BOOLEAN
  BY <1>1, StackTop DEF IInv, Activations
<1>9. /\ flags' \in [Pids -> BOOLEAN]
      /\ \A p \in Pids : flags'[p] = IF p = active_process THEN Top.ints ELSE flags[p]
  BY <1>4, <1>8, TableBounds DEF StoreContext, StoreFlags, IInv, TypeInv, NULL
<1>10. UNCHANGED <<dispatch, own>>
  BY DEF StoreContext
<1>11. active_process # NULL => active_process \in Pids
  BY DEF IInv, TypeInv
<1>12. SpaceInv'
  BY <1>1, <1>3, <1>4, <1>7, <1>10, Heads
  DEF IInv, SpaceInv, BootQueue, Misplaced, Moved, dispatch, Leaving
<1>13. FlagInv'
  BY <1>1, <1>3, <1>4, <1>7, <1>9, <1>10, <1>11 DEF IInv, FlagInv, Moved, dispatch
<1>14. TypeInv'
  BY <1>3, <1>9, <1>10 DEF StoreContext, IInv, TypeInv, Moved, dispatch
<1>15. TableInv'
  BY <1>10 DEF IInv, TableInv, dispatch
<1> QED
  BY <1>6, <1>12, <1>13, <1>14, <1>15 DEF IInv, Layers

LEMMA AdvanceSchedulerStep ==
  ASSUME IInv, AdvanceScheduler
  PROVE  IInv'
<1>1. /\ stack # <<>> /\ Top.isr \in Entered \cup {"kernel_initialize"} /\ Top.todo = Sched
      /\ Tail(Top.todo) = LoadOnly
  BY AtTop, PlanOnce, Tails DEF AdvanceScheduler
<1>2. <<"print">> \o LoadOnly = PrintLoad /\ panic = PrintDead
  BY Prefixed DEF panic, PrintDead
<1>3. Len(stack) = 1 /\ Top = stack[1]
  BY <1>1, TopAlone DEF IInv
<1>4. Entering => ~ints
  BY DEF IInv, ClosedInv
<1>5. Top.isr \notin Halting
  BY <1>1 DEF Halting, Entered
<1>6. \A p \in Pids : flags[p] = own[p]
  <2>1. stack[1].todo = Sched /\ Sched \in InCall \cup Leaving \cup {Sched}
    BY <1>1, <1>3
  <2> QED
    BY <1>1, <2>1, TableBounds DEF IInv, FlagInv, NULL
<1>7. ASSUME NEW todo \in {PrintLoad, PrintDead}, GoOn(todo),
             active_process' \in process_table \cup {NULL},
             active_process' # NULL => cr3' = active_process',
             todo = PrintLoad => active_process' # NULL,
             call'.owner \in Nat,
             UNCHANGED <<syscall_table, process_table>>,
             UNCHANGED <<console, ints, ds, flags, own, woken>>
      PROVE  IInv'
  <2>1. Planned(Top.isr, todo) /\ todo # Ret
    BY <1>1, Heads DEF Planned, Leaving, Entered
  <2>2. Moved(todo)
    BY <1>1, <1>7, <2>1, PlannedMoves
  <2>3. Layers'
    BY <1>4, <1>5, <1>7, <2>1, <2>2, MoveLayers
  <2>4. stack'[1].todo = todo /\ stack' # <<>> /\ stack' \in Seq(Activations)
    BY <1>3, <2>2 DEF Moved
  <2>5. TypeInv'
    BY <1>7, <2>4 DEF IInv, TypeInv
  <2>6. active_process' # NULL => active_process' \in Pids
    BY <2>5 DEF TypeInv
  <2>7. SpaceInv'
    <3>1. BootQueue'
      BY <1>3, <1>7, <2>2 DEF IInv, SpaceInv, BootQueue, Misplaced, Moved
    <3> QED
      BY <1>7, <2>4, <3>1, Different, Heads DEF SpaceInv
  <2>8. FlagInv'
    BY <1>6, <1>7, <2>4, <2>6 DEF FlagInv, Leaving
  <2>9. TableInv'
    BY <1>7 DEF IInv, TableInv
  <2> QED
    BY <2>3, <2>5, <2>7, <2>8, <2>9 DEF IInv, Layers
<1>8. CASE /\ EnterProcess /\ GoOn(<<"print">> \o Tail(Top.todo))
           /\ UNCHANGED <<console, ints, ds, flags, own, woken>>
  <2>1. GoOn(PrintLoad)
    BY <1>1, <1>2, <1>8
  <2>2. active_process' \in process_table /\ active_process' # NULL
    BY <1>8, TableBounds DEF EnterProcess, IInv, TypeInv, NULL
  <2>3. call'.owner \in Nat
    BY <1>8 DEF EnterProcess, NoCall, NULL
  <2> QED
    BY <1>7, <1>8, <2>1, <2>2, <2>3 DEF EnterProcess
<1>9. CASE NoneReady /\ GoOn(panic) /\ UNCHANGED <<console, ints, ds, flags, own, woken>>
  <2>1. GoOn(PrintDead) /\ PrintDead # PrintLoad
    BY <1>2, <1>9, Different
  <2>2. active_process' = NULL /\ UNCHANGED <<syscall_table, process_table, call>>
    BY <1>9 DEF NoneReady
  <2>3. call'.owner \in Nat
    BY <2>2 DEF IInv, TypeInv
  <2> QED
    BY <1>7, <1>9, <2>1, <2>2, <2>3
<1>10. CASE UNCHANGED dispatch /\ KernelFault(EXCEPTION_PAGE_FAULT)
  <2>1. idt[EXCEPTION_PAGE_FAULT].isr \in Faults
    BY Gates DEF Faults
  <2>2. Top.todo # Ret
    BY <1>1, Heads
  <2> QED
    BY <1>1, <1>10, <2>1, <2>2, KernelPush DEF dispatch, KernelFault
<1> QED
  BY <1>8, <1>9, <1>10 DEF AdvanceScheduler

LEMMA LoadContextStep ==
  ASSUME IInv, load_context
  PROVE  IInv'
<1>1. /\ stack # <<>> /\ Top.isr \in Entered \cup {"kernel_initialize"} /\ Top.todo = LoadOnly
  BY AtTop, PlanOnce DEF load_context
<1>2. stack[1].todo = LoadOnly
  BY <1>1, TopAlone DEF IInv
<1>3. active_process # NULL /\ active_process \in Pids
  BY <1>1, <1>2 DEF IInv, SpaceInv, TypeInv
<1>4. LoadOnly \in Leaving /\ LoadOnly \notin InCall
  BY Heads DEF Leaving, InCall
<1>5. cr3 = active_process
  BY <1>2, <1>3, <1>4 DEF IInv, SpaceInv
<1>6. flags[active_process] = own[active_process]
  BY <1>1, <1>2, <1>3, <1>4 DEF IInv, FlagInv
<1>7. /\ \A p \in Pids : p # active_process => flags[p] = own[p]
      /\ flags[active_process] \in BOOLEAN
  BY <1>3 DEF IInv, FlagInv, TypeInv
<1>8. ToUser(flags[active_process], UserData) /\ UNCHANGED dispatch
  BY DEF load_context
<1> QED
  BY <1>5, <1>6, <1>7, <1>8, ToUserStep

LEMMA DoSyscallStep ==
  ASSUME IInv, DoSyscall
  PROVE  IInv'
<1>1. /\ stack # <<>> /\ Top.isr = "isr_syscall" /\ Top.todo = DoCall
      /\ Tail(Top.todo) = UserSeg
  BY AtTop, PlanOnce, Tails DEF DoSyscall
<1>2. Len(stack) = 1 /\ Top = stack[1]
  BY <1>1, TopAlone DEF IInv, Entered
<1>3. Entering /\ ~ints
  BY <1>1, <1>2 DEF Entering, Entered, IInv, ClosedInv
<1>4. DoCall \notin Leaving \cup InCall
  BY Heads, Different DEF Leaving, InCall
<1>5. PICK id \in 0..MAX_SYSCALL_ID + 1 :
       \/ /\ (NoSuchCall(id) /\ UNCHANGED dispatch) \/ StaleCall(id)
          /\ Advance
          /\ UNCHANGED <<console, ints, ds, flags, own, woken>>
       \/ /\ Dispatch(id)
          /\ GoOn(<<"print", "function", "return">> \o Tail(Top.todo))
          /\ flags' = StoreFlags
          /\ UNCHANGED <<console, ints, ds, own, woken>>
       \/ DispatchFaults(id) /\ KernelFault(EXCEPTION_PAGE_FAULT)
  BY DEF DoSyscall
<1>6. CASE /\ (NoSuchCall(id) /\ UNCHANGED dispatch) \/ StaleCall(id)
           /\ Advance
           /\ UNCHANGED <<console, ints, ds, flags, own, woken>>
  <2>1. Planned("isr_syscall", UserSeg) /\ UserSeg # Ret /\ Alike(DoCall, UserSeg)
    BY Heads DEF Planned, Alike, Leaving, InCall
  <2>2. Moved(UserSeg)
    BY <1>1, <1>6, <2>1, PlannedMoves DEF Advance
  <2>3. UNCHANGED <<process_table, active_process, cr3, call>>
    BY <1>6 DEF dispatch, StaleCall
  <2>4. syscall_table' \in [0..MAX_SYSCALL_ID -> TableEntries] /\ TableInv'
    BY <1>6, StaleKeepsTable DEF dispatch, IInv, TypeInv, TableInv
  <2>5. Layers'
    BY <1>1, <1>3, <1>6, <2>1, <2>2, MoveLayers DEF Halting
  <2>6. Active'
    BY <1>1, <1>2, <1>6, <2>1, <2>2, <2>3, MoveActive
  <2>7. TypeInv'
    BY <1>6, <2>2, <2>3, <2>4 DEF IInv, TypeInv, Moved
  <2> QED
    BY <2>4, <2>5, <2>6, <2>7 DEF IInv, Layers, Active
<1>7. CASE /\ Dispatch(id)
           /\ GoOn(<<"print", "function", "return">> \o Tail(Top.todo))
           /\ flags' = StoreFlags
           /\ UNCHANGED <<console, ints, ds, own, woken>>
  <2>1. GoOn(InPrint)
    BY <1>1, <1>7, Prefixed
  <2>2. Planned("isr_syscall", InPrint) /\ InPrint # Ret
    BY Heads DEF Planned, InCall
  <2>3. Moved(InPrint)
    BY <1>1, <2>1, <2>2, PlannedMoves
  <2>4. Layers'
    BY <1>1, <1>3, <1>7, <2>2, <2>3, MoveLayers DEF Halting
  <2>5. /\ active_process # NULL /\ active_process \in Pids
        /\ active_process' = active_process
        /\ UNCHANGED <<syscall_table, process_table>>
    BY <1>7 DEF Dispatch, IInv, TypeInv
  <2>6. id \in 0..MAX_SYSCALL_ID /\ Owner(id) \in Nat
    <3>1. id \in 0..MAX_SYSCALL_ID
      BY <1>7, TableBounds DEF Dispatch, NoSuchCall
    <3> QED
      BY <3>1 DEF IInv, TypeInv, TableEntries, Owner
  <2>7. call'.owner = Owner(id)
    BY <1>7 DEF Dispatch
  <2>8. stack[1].ints \in BOOLEAN
    BY <1>1, StackTop DEF IInv, Activations
  <2>9. /\ flags' \in [Pids -> BOOLEAN]
        /\ \A p \in Pids : flags'[p] = IF p = active_process THEN Top.ints ELSE flags[p]
    BY <1>2, <1>7, <2>5, <2>8 DEF StoreFlags, IInv, TypeInv
  <2>10. TypeInv'
    BY <1>7, <2>3, <2>5, <2>6, <2>7, <2>9 DEF IInv, TypeInv, Moved
  <2>11. stack'[1].todo = InPrint /\ stack' # <<>> /\ Entering'
    BY <1>2, <1>3, <2>3 DEF Moved, Entering
  <2>12. InPrint \in InCall /\ InPrint \notin {PrintLoad, LoadOnly}
    BY Heads, Different DEF InCall
  <2>13. cr3 = active_process
    BY <1>1, <1>2, <1>4, <2>5 DEF IInv, SpaceInv
  <2>14. SpaceInv'
    <3>1. id # MAX_SYSCALL_ID /\ (Owner(id) # NULL => Owner(id) \in process_table)
      BY <1>7, SyscallAssumption DEF Dispatch, LiveOwner, Owner, IInv, TableInv, TypeInv, NULL
    <3>2. call'.id = id
      BY <1>7 DEF Dispatch
    <3>3. LiveCall'
      BY <2>5, <2>6, <2>7, <3>1, <3>2, TableBounds DEF LiveCall
    <3> QED
      BY <1>1, <1>2, <1>7, <2>3, <2>5, <2>7, <2>11, <2>12, <2>13, <3>3
      DEF SpaceInv, BootQueue, Moved, Dispatch, CallSpace
  <2>15. Top.ints = own[active_process]
    BY <1>1, <1>2, <1>4, <2>5 DEF IInv, FlagInv
  <2>16. FlagInv'
    <3>1. \A p \in Pids : flags'[p] = own'[p]
      BY <1>7, <2>5, <2>9, <2>15 DEF IInv, FlagInv
    <3>2. stack'[1].ints = Top.ints /\ stack'[1].isr = "isr_syscall"
      BY <1>1, <1>2, <2>3 DEF Moved
    <3> QED
      BY <1>7, <2>5, <2>11, <2>15, <3>1, <3>2 DEF FlagInv
  <2>17. TableInv'
    BY <2>5 DEF IInv, TableInv
  <2> QED
    BY <2>4, <2>10, <2>14, <2>16, <2>17 DEF IInv, Layers
<1>8. CASE DispatchFaults(id) /\ KernelFault(EXCEPTION_PAGE_FAULT)
  <2>1. idt[EXCEPTION_PAGE_FAULT].isr \in Faults
    BY Gates DEF Faults
  <2>2. Top.todo # Ret
    BY <1>1, Heads
  <2> QED
    BY <1>1, <1>8, <2>1, <2>2, KernelPush DEF DispatchFaults, KernelFault
<1> QED
  BY <1>5, <1>6, <1>7, <1>8

LEMMA FunctionStep ==
  ASSUME IInv, Function
  PROVE  IInv'
<1>1. /\ stack # <<>> /\ Top.isr = "isr_syscall" /\ Top.todo = InFunction
      /\ Tail(Top.todo) = InReturn
  BY AtTop, PlanOnce, Tails DEF Function
<1>2. Len(stack) = 1 /\ Top = stack[1]
  BY <1>1, TopAlone DEF IInv, Entered
<1>3. Entering /\ ~ints
  BY <1>1, <1>2 DEF Entering, Entered, IInv, ClosedInv
<1>4. InFunction \in InCall /\ InFunction \notin Leaving
  BY Heads DEF Leaving, InCall
<1>5. \A p \in Pids : flags[p] = own[p]
  BY <1>1, <1>2, <1>4, TableBounds DEF IInv, FlagInv, NULL
<1>6. CASE /\ \/ UNCHANGED dispatch
              \/ \E id \in 0..LastId, arg_count \in {3, 4}, pid \in Pids,
                    func_ptr \in {NULL, Code} : set_syscall(id, arg_count, pid, func_ptr)
              \/ \E pid \in process_table : Terminate(pid)
           /\ Advance
           /\ UNCHANGED <<console, ints, ds, flags, own, woken>>
  <2>1. Planned("isr_syscall", InReturn) /\ InReturn # Ret /\ Alike(InFunction, InReturn)
    BY Heads DEF Planned, Alike, Leaving, InCall
  <2>2. Moved(InReturn)
    BY <1>1, <1>6, <2>1, PlannedMoves DEF Advance
  <2>3. Layers'
    BY <1>1, <1>3, <1>6, <2>1, <2>2, MoveLayers DEF Halting
  <2>4. CASE \/ UNCHANGED dispatch
             \/ \E id \in 0..LastId, arg_count \in {3, 4}, pid \in Pids,
                   func_ptr \in {NULL, Code} : set_syscall(id, arg_count, pid, func_ptr)
    <3>1. UNCHANGED <<process_table, active_process, cr3, call>>
      BY <2>4 DEF dispatch, set_syscall
    <3>2. syscall_table' \in [0..MAX_SYSCALL_ID -> TableEntries] /\ TableInv'
      BY <2>4, SetKeepsTable, TableBounds DEF dispatch, IInv, TypeInv, TableInv
    <3>3. Active'
      BY <1>1, <1>2, <1>6, <2>1, <2>2, <3>1, MoveActive
    <3>4. TypeInv'
      BY <1>6, <2>2, <3>1, <3>2 DEF IInv, TypeInv, Moved
    <3> QED
      BY <2>3, <3>2, <3>3, <3>4 DEF IInv, Layers, Active
  <2>5. CASE \E pid \in process_table : Terminate(pid)
    <3>1. /\ process_table' \subseteq process_table
          /\ active_process' \in {active_process, NULL}
          /\ UNCHANGED <<syscall_table, cr3, call>>
      BY <2>5 DEF Terminate
    <3>2. TypeInv'
      BY <1>6, <2>2, <3>1 DEF IInv, TypeInv, Moved
    <3>3. /\ stack'[1].todo = InReturn /\ stack' # <<>> /\ Entering'
          /\ stack'[1].ints = stack[1].ints /\ stack'[1].isr = stack[1].isr
      BY <1>2, <1>3, <2>2 DEF Moved, Entering
    <3>4. InReturn \in InCall /\ InReturn \notin {PrintLoad, LoadOnly}
      BY Heads DEF InCall
    <3>5. SpaceInv'
      BY <1>1, <1>2, <3>1, <3>3, <3>4, Heads DEF IInv, SpaceInv, BootQueue
    <3>6. active_process' # NULL => active_process' = active_process /\ active_process \in Pids
      BY <3>1 DEF IInv, TypeInv
    <3>7. FlagInv'
      BY <1>1, <1>2, <1>4, <1>5, <1>6, <3>3, <3>6 DEF IInv, FlagInv
    <3>8. TableInv'
      BY <3>1 DEF IInv, TableInv
    <3> QED
      BY <2>3, <3>2, <3>5, <3>7, <3>8 DEF IInv, Layers
  <2> QED
    BY <1>6, <2>4, <2>5
<1>7. CASE /\ active_process # NULL
           /\ BlockCaller
           /\ GoOn(<<"advance", "load_context">>)
           /\ UNCHANGED <<console, ints, ds, flags, own, woken>>
  <2>1. GoOn(Sched)
    BY <1>7 DEF Sched
  <2>2. Planned("isr_syscall", Sched) /\ Sched # Ret
    BY Heads DEF Planned
  <2>3. Moved(Sched)
    BY <1>1, <2>1, <2>2, PlannedMoves
  <2>4. Layers'
    BY <1>1, <1>3, <1>7, <2>2, <2>3, MoveLayers DEF Halting
  <2>5. active_process' = NULL /\ UNCHANGED <<syscall_table, process_table, cr3, call>>
    BY <1>7 DEF BlockCaller
  <2>6. TypeInv'
    BY <1>7, <2>3, <2>5 DEF IInv, TypeInv, Moved
  <2>7. /\ stack'[1].todo = Sched /\ Sched \notin {PrintLoad, LoadOnly, InPrint, InFunction}
        /\ stack'[1].isr = "isr_syscall"
    BY <1>1, <1>2, <2>3, Heads DEF Moved
  <2>8. SpaceInv' /\ FlagInv'
    BY <1>5, <1>7, <2>5, <2>7 DEF SpaceInv, BootQueue, FlagInv
  <2>9. TableInv'
    BY <2>5 DEF IInv, TableInv
  <2> QED
    BY <2>4, <2>6, <2>8, <2>9 DEF IInv, Layers
<1>8. CASE UNCHANGED dispatch /\ KernelFault(EXCEPTION_PAGE_FAULT)
  <2>1. idt[EXCEPTION_PAGE_FAULT].isr \in Faults
    BY Gates DEF Faults
  <2>2. Top.todo # Ret
    BY <1>1, Heads
  <2> QED
    BY <1>1, <1>8, <2>1, <2>2, KernelPush DEF dispatch, KernelFault
<1> QED
  BY <1>6, <1>7, <1>8 DEF Function

LEMMA ReturnStep ==
  ASSUME IInv, ReturnFromFunction
  PROVE  IInv'
<1>1. /\ stack # <<>> /\ Top.isr = "isr_syscall" /\ Top.todo = InReturn
      /\ Tail(Top.todo) = UserSeg
  BY AtTop, PlanOnce, Tails DEF ReturnFromFunction
<1>2. Len(stack) = 1 /\ Top = stack[1]
  BY <1>1, TopAlone DEF IInv, Entered
<1>3. Entering /\ ~ints
  BY <1>1, <1>2 DEF Entering, Entered, IInv, ClosedInv
<1>4. CASE Return /\ Advance /\ UNCHANGED <<console, ints, ds, flags, own, woken>>
  <2>1. /\ Planned("isr_syscall", UserSeg) /\ UserSeg # Ret
        /\ InReturn \notin Leaving /\ UserSeg \notin InCall \cup Leaving \cup {Sched}
    BY Heads DEF Planned, Leaving, InCall
  <2>2. Moved(UserSeg)
    BY <1>1, <1>4, <2>1, PlannedMoves DEF Advance
  <2>3. Layers'
    BY <1>1, <1>3, <1>4, <2>1, <2>2, MoveLayers DEF Halting
  <2>4. UNCHANGED <<syscall_table, process_table, active_process>> /\ call'.owner \in Nat
    BY <1>4 DEF Return, NoCall, NULL
  <2>5. TypeInv'
    BY <1>4, <2>2, <2>4 DEF IInv, TypeInv, Moved
  <2>6. /\ stack'[1].todo = UserSeg /\ stack' # <<>>
        /\ stack'[1].ints = stack[1].ints /\ stack'[1].isr = stack[1].isr
    BY <1>2, <2>2 DEF Moved
  <2>7. active_process # NULL => cr3' = active_process
    BY <1>4 DEF Return, CallerSpace, Switched, IInv, SpaceInv
  <2>8. SpaceInv'
    BY <1>1, <1>2, <2>1, <2>4, <2>6, <2>7 DEF SpaceInv, BootQueue, InCall, Leaving
  <2>9. FlagInv'
    BY <1>1, <1>2, <1>4, <2>1, <2>4, <2>6 DEF IInv, FlagInv
  <2>10. TableInv'
    BY <2>4 DEF IInv, TableInv
  <2> QED
    BY <2>3, <2>5, <2>8, <2>9, <2>10 DEF IInv, Layers
<1>5. CASE ReturnFaults /\ KernelFault(EXCEPTION_PAGE_FAULT)
  <2>1. idt[EXCEPTION_PAGE_FAULT].isr \in Faults
    BY Gates DEF Faults
  <2>2. Top.todo # Ret
    BY <1>1, Heads
  <2> QED
    BY <1>1, <1>5, <2>1, <2>2, KernelPush DEF ReturnFaults, dispatch, KernelFault
<1> QED
  BY <1>4, <1>5 DEF ReturnFromFunction

LEMMA InitInv ==
  ASSUME Init
  PROVE  IInv
<1>1. Fresh("kernel_initialize", Steps["kernel_initialize"])
  BY StepsFresh DEF Isrs
<1>2. Steps["kernel_initialize"] \in Todos
  BY <1>1, PlanShape DEF Fresh
<1>3. PICK act : act = Activation("kernel_initialize", FALSE)
  OBVIOUS
<1>4. /\ act \in Activations /\ act.isr = "kernel_initialize" /\ act.user = FALSE
      /\ Fresh(act.isr, act.todo)
  BY <1>1, <1>2, <1>3 DEF Activation, Activations, Isrs, Init
<1>5. stack = <<act>>
  BY <1>3 DEF Init
<1>6. /\ stack \in Seq(Activations) /\ Len(stack) = 1 /\ stack[1] = act /\ DOMAIN stack = {1}
      /\ stack # <<>>
  BY <1>4, <1>5
<1>7. ~Entering
  BY <1>4, <1>6 DEF Entering, Entered
<1>8. active_process = NULL /\ cr3 = NULL /\ process_table = {} /\ call = NoCall
  BY DEF Init, DispatchInit
<1>9. /\ syscall_table \in [0..MAX_SYSCALL_ID -> TableEntries]
      /\ TableInv /\ ~Misplaced
  <2>1. QueueWords \in TableEntries /\ Undefined \in TableEntries
    BY SyscallAssumption DEF QueueWords, Undefined, TableEntries, NULL
  <2> QED
    BY <2>1, TableBounds DEF Init, DispatchInit, TableInv, QueueWords, Misplaced
<1>10. TypeInv
  BY <1>6, <1>8, <1>9 DEF Init, TypeInv, NoCall, NULL
<1>11. StackInv
  BY <1>4, <1>6 DEF StackInv, Fresh
<1>12. ClosedInv
  BY <1>7 DEF ClosedInv
<1>13. SegmentInv
  <2>1. ds # NullSegment
    BY DEF Init, KernelData, NullSegment
  <2>2. stack[1].isr \notin Halting \cup Quiet
    BY <1>4, <1>6 DEF Halting, Quiet
  <2> QED
    BY <1>6, <1>7, <2>1, <2>2 DEF SegmentInv
<1>14. act.todo \notin {PrintLoad, LoadOnly, InPrint, InFunction}
  BY <1>4 DEF Fresh, Leaving, InCall
<1>15. SpaceInv /\ FlagInv
  BY <1>6, <1>8, <1>9, <1>14 DEF Init, SpaceInv, BootQueue, FlagInv
<1> QED
  BY <1>9, <1>10, <1>11, <1>12, <1>13, <1>15 DEF IInv

LEMMA NextInv ==
  ASSUME IInv, [Next]_vars
  PROVE  IInv'
<1>1. CASE UNCHANGED vars
  BY <1>1, PrintingStep DEF vars, machine, dispatch
<1>2. CASE Printing
  BY <1>2, PrintingStep DEF Printing
<1>3. CASE Stopped
  BY <1>1, <1>3 DEF Stopped
<1> QED
  BY <1>1, <1>2, <1>3, FromUserStep, UserFlagStep, InterruptStep, FlagStep,
     SegmentsStep, NullAccessStep, PrintedStep, IretStep, SetSyscallsStep,
     LoadModulesStep, StoreContextStep, AdvanceSchedulerStep, LoadContextStep,
     DoSyscallStep, FunctionStep, ReturnStep
  DEF Next

LEMMA AlwaysIInv == Spec => []IInv
BY InitInv, NextInv, PTL DEF Spec

(***************************************************************************)
(* The properties                                                          *)
(***************************************************************************)

\* Interrupts and system calls of any number of processes: no handler runs on
\* top of a system call or a yield except a fault of its own code, and then
\* with interrupts off.
THEOREM EntriesNotReentered == Spec => []KernelNotReentered
<1>1. ASSUME IInv PROVE KernelNotReentered
  <2> SUFFICES ASSUME NEW i \in 1..Len(stack) - 1, stack[i].isr \in Entered
               PROVE  stack[i + 1].isr \in Faults /\ ~ints
    BY DEF KernelNotReentered, Entered
  <2>1. /\ Len(stack) \in Nat /\ DOMAIN stack = 1..Len(stack)
        /\ i \in 1..Len(stack) /\ i + 1 \in 1..Len(stack) /\ i + 1 > 1
    BY <1>1 DEF IInv, TypeInv
  <2>2. stack[i].isr \notin {"isr_generic", "isr_timer"} \cup Faults
    BY DEF Entered, Faults
  <2>3. i = 1
    BY <1>1, <2>1, <2>2 DEF IInv, StackInv
  <2>4. Entering
    BY <2>1, <2>3 DEF Entering
  <2> QED
    BY <1>1, <2>1, <2>4 DEF IInv, ClosedInv
<1> QED
  BY AlwaysIInv, <1>1, PTL

\* The data segments are those of the process in user mode and never null in
\* the kernel, as long as no fault handler is resumed from its hlt.
THEOREM SegmentsValid == Spec => []ValidSegments
<1>1. ASSUME IInv PROVE ValidSegments
  <2>1. stack = <<>> /\ ~woken => ds = UserData
    BY <1>1, UserModeFacts
  <2>2. ~woken => ds # NullSegment
    BY <1>1 DEF IInv, SegmentInv
  <2> QED
    BY <2>1, <2>2 DEF ValidSegments, UserMode
<1> QED
  BY AlwaysIInv, <1>1, PTL

\* Every way back to user mode, from a call of a function in another process
\* too, leaves the address space of the active process loaded.
THEOREM SpaceRestored == Spec => []CallerSpaceRestored
<1>1. ASSUME IInv PROVE CallerSpaceRestored
  BY <1>1, UserModeFacts DEF CallerSpaceRestored, UserMode
<1> QED
  BY AlwaysIInv, <1>1, PTL

\* A process that gets the CPU back has the interrupt flag it left with.
THEOREM FlagKept == Spec => []OwnFlag
<1>1. ASSUME IInv PROVE OwnFlag
  BY <1>1, UserModeFacts DEF OwnFlag, UserMode
<1> QED
  BY AlwaysIInv, <1>1, PTL

\* do_syscall accepts the index one past the table, and what it finds there may
\* look like an entry: for any table and any set of processes it calls only
\* functions that were entered in the table, of the kernel or of live
\* processes.
THEOREM OnlyLiveCalls == Spec => []CallsLiveEntry
<1>1. ASSUME IInv PROVE CallsLiveEntry
  <2> SUFFICES ASSUME At("function")
               PROVE  LiveCall
    BY DEF CallsLiveEntry, LiveCall
  <2>1. stack # <<>> /\ Top.isr = "isr_syscall" /\ Top.todo = InFunction
    BY <1>1, AtTop, PlanOnce
  <2>2. Top = stack[1]
    BY <1>1, <2>1, TopAlone DEF IInv, Entered
  <2> QED
    BY <1>1, <2>1, <2>2 DEF IInv, SpaceInv
<1> QED
  BY AlwaysIInv, <1>1, PTL

(***************************************************************************)
(* The console.  A handler that may be interrupted prints with values of   *)
(* the cursor that are out of date; what it can leave the cursor at        *)
(* depends on the statement it is at.                                      *)
(***************************************************************************)

NextTodo == <<"next", "check">>
AddLine  == <<"add_line", "trim_line", "check">>
TrimLine == <<"trim_line", "check">>
AddTab   == <<"add_tab", "trim_tab", "check">>
TrimTab  == <<"trim_tab", "check">>
Back     == <<"back", "line_end", "check">>
LineEnd  == <<"line_end", "check">>
AtCheck  == <<"check">>
Scroll   == <<"scroll">>

Texts == {<<>>, NextTodo, AddLine, TrimLine, AddTab, TrimTab, Back, LineEnd, AtCheck, Scroll}
Plain == {<<>>, NextTodo, AddLine, TrimLine, AtCheck, Scroll}

CallStates ==
  [todo : Texts, loaded : UNION {[operands -> Nat] : operands \in SUBSET {"left", "right"}}]

\* Handlers that print with interrupts enabled.
Open == {"kernel_initialize", "isr_page_fault"}

\* Where interrupts can be enabled in the kernel.
OpenAt(isr, todo) ==
  \/ isr \in Open
  \/ isr \in {"isr_segment_not_present", "isr_gp_fault"} /\ Head(todo) = "cli"

\* Only the first activation can be interrupted, and only while its place in
\* the code lets interrupts through; it then has data segments.
IntsInv ==
  /\ ints /\ stack # <<>> => Len(stack) = 1 /\ OpenAt(stack[1].isr, stack[1].todo)
  /\ \A k \in DOMAIN stack :
       k > 1 /\ stack[k].ints => k = 2 /\ OpenAt(stack[1].isr, stack[1].todo)
  /\ stack # <<>> /\ stack[1].isr \in Open /\ stack[1].todo \notin {SegHlt, Ret} =>
       ds # NullSegment

\* A call is pending only in a system call that has not gone back.
PendingInv ==
  call.pending =>
    /\ stack # <<>>
    /\ stack[1].isr = "isr_syscall"
    /\ stack[1].todo \in InCall \cup {Sched, PrintDead, CliDead, Dead}

\* Where an interrupted call can find the cursor, and take it from there.
Low(todo) ==
  CASE todo = TrimLine -> 2 * line_width
    [] todo = Scroll   -> Limit - line_width
    [] OTHER           -> line_width

High(todo) ==
  IF todo \in {TrimLine, AtCheck, Scroll} THEN Limit + line_width - 1 ELSE Limit - 1

\* A call c that is not interrupted, began with the cursor in low..high and has
\* it now at the given place.
Brisk(c, at, low, high) ==
  /\ \A operand \in DOMAIN c.loaded : c.loaded[operand] = at
  /\ c.todo \in {<<>>, NextTodo, AddLine, AddTab, Back} => at \in low..high
  /\ c.todo = TrimLine => at \in low + line_width .. high + line_width
  /\ c.todo = TrimTab => at \in low + tab_width .. high + tab_width
  /\ c.todo = LineEnd => at \in 1..high
  /\ c.todo = AtCheck => at \in low .. high + line_width
  /\ c.todo = Scroll => at \in Limit .. high + line_width
  /\ c.todo \in {Back, LineEnd} => low = line_width

\* A call that may be interrupted.
Slow(c) ==
  /\ c.todo \in Plain
  /\ \A operand \in DOMAIN c.loaded : c.loaded[operand] \in Low(c.todo)..High(c.todo)

\* Such a call while nothing is on top of it.
SlowAt(c, at) == Slow(c) /\ at \in Low(c.todo)..High(c.todo)

\* Calls in progress are those of the first activation and of the last.
PrintInv ==
  /\ calls \in Seq(CallStates)
  /\ cursor \in Nat
  /\ Len(calls) = Len(stack)
  /\ \A k \in DOMAIN stack :
       /\ calls[k].todo = <<>> => calls[k] = NotPrinting
       /\ calls[k] # NotPrinting => Head(stack[k].todo) = "print" /\ ds # NullSegment
       /\ 1 < k /\ k < Len(stack) => calls[k] = NotPrinting
  /\ stack = <<>> => cursor \in line_width .. Limit - 1
  /\ Len(stack) = 1 =>
       IF stack[1].isr \in Open
       THEN SlowAt(calls[1], cursor)
       ELSE Brisk(calls[1], cursor, line_width, Limit - 1)
  /\ Len(stack) > 1 =>
       /\ Slow(calls[1])
       /\ stack[1].isr \notin Open => calls[1] = NotPrinting
       /\ Brisk(calls[Len(stack)], cursor, Low(calls[1].todo), High(calls[1].todo))

\* The screen has three lines at least, and the cursor does not wrap.
LEMMA Screen ==
  /\ line_width \in Nat \ {0} /\ tab_width \in Nat \ {0} /\ Word \in Nat \ {0}
  /\ tab_width <= line_width
  /\ Limit \in Nat /\ Limit >= 3 * line_width
  /\ Word > Limit + 2 * line_width
<1>1. /\ line_width \in Nat \ {0} /\ tab_width \in Nat \ {0} /\ Word \in Nat \ {0}
      /\ line_count \in Nat /\ line_count > 2 /\ tab_width <= line_width
      /\ Word > line_width * (line_count + 2)
  BY ConsoleAssumption
<1>2. ASSUME NEW w \in Nat \ {0}, NEW n \in Nat, n > 2
      PROVE  n * w \in Nat /\ n * w >= 3 * w /\ w * (n + 2) = n * w + 2 * w
  <2>1. PICK m \in Nat : n = m + 3
    <3>1. n - 3 \in Nat /\ n = (n - 3) + 3
      BY <1>2
    <3> QED
      BY <3>1
  <2>2. n * w = m * w + 3 * w /\ m * w \in Nat
    BY ONLY <2>1, m \in Nat, w \in Nat, n = m + 3
  <2>3. w * (n + 2) = n * w + 2 * w
    BY ONLY n \in Nat, w \in Nat
  <2> QED
    BY <2>2, <2>3
<1> QED
  BY <1>1, <1>2 DEF Limit

LEMMA Remainder ==
  ASSUME NEW n \in Nat, NEW d \in Nat \ {0}
  PROVE  n % d \in 0..d - 1 /\ n % d <= n /\ (n < d => n % d = n)
OBVIOUS

LEMMA Difference ==
  ASSUME NEW a \in Nat, NEW b \in Nat, b <= a, a < Word
  PROVE  Minus(a, b) = a - b
<1>1. a + Word - b = (a - b) + Word /\ a - b \in Nat /\ a - b < Word /\ Word \in Nat \ {0}
  BY Screen
<1>2. ASSUME NEW n \in Nat, NEW d \in Nat \ {0}, n < d
      PROVE  (n + d) % d = n
  BY <1>2
<1> QED
  BY <1>1, <1>2 DEF Minus

LEMMA TextHeads ==
  /\ Head(NextTodo) = "next" /\ Tail(NextTodo) = AtCheck
  /\ Head(AddLine) = "add_line" /\ Tail(AddLine) = TrimLine
  /\ Head(TrimLine) = "trim_line" /\ Tail(TrimLine) = AtCheck
  /\ Head(AddTab) = "add_tab" /\ Tail(AddTab) = TrimTab
  /\ Head(TrimTab) = "trim_tab" /\ Tail(TrimTab) = AtCheck
  /\ Head(Back) = "back" /\ Tail(Back) = LineEnd
  /\ Head(LineEnd) = "line_end" /\ Tail(LineEnd) = AtCheck
  /\ Head(AtCheck) = "check"
  /\ Head(Scroll) = "scroll" /\ Tail(Scroll) = <<>>
  /\ \A text \in Texts \ {<<>>} : text # <<>>
BY DEF Texts, NextTodo, AddLine, TrimLine, AddTab, TrimTab, Back, LineEnd, AtCheck, Scroll

LEMMA AppendTwo ==
  ASSUME NEW a, NEW b
  PROVE  Append(<<a>>, b) = <<a, b>>
<1> DEFINE S == {a, b}
<1>1. PICK s \in Seq(S) : s = <<a>>
  <2>1. <<a>> \in Seq(S)
    OBVIOUS
  <2> QED
    BY <2>1
<1>2. PICK u \in Seq(S) : u = <<a, b>>
  <2>1. <<a, b>> \in Seq(S)
    OBVIOUS
  <2> QED
    BY <2>1
<1>3. Len(s) = 1 /\ s[1] = a /\ Len(u) = 2 /\ u[1] = a /\ u[2] = b
  BY <1>1, <1>2
<1>4. /\ Append(s, b) \in Seq(S) /\ Len(Append(s, b)) = 2
      /\ Append(s, b)[1] = a /\ Append(s, b)[2] = b
  BY <1>3, AppendProperties
<1>5. Append(s, b) = u
  BY <1>3, <1>4, SeqEqual
<1> QED
  BY <1>1, <1>2, <1>5

LEMMA AppendThree ==
  ASSUME NEW a, NEW b, NEW c
  PROVE  Append(<<a, b>>, c) = <<a, b, c>>
<1> DEFINE S == {a, b, c}
<1>1. PICK s \in Seq(S) : s = <<a, b>>
  <2>1. <<a, b>> \in Seq(S)
    OBVIOUS
  <2> QED
    BY <2>1
<1>2. PICK u \in Seq(S) : u = <<a, b, c>>
  <2>1. <<a, b, c>> \in Seq(S)
    OBVIOUS
  <2> QED
    BY <2>1
<1>3. /\ Len(s) = 2 /\ s[1] = a /\ s[2] = b
      /\ Len(u) = 3 /\ u[1] = a /\ u[2] = b /\ u[3] = c
  BY <1>1, <1>2
<1>4. /\ Append(s, c) \in Seq(S) /\ Len(Append(s, c)) = 3
      /\ Append(s, c)[1] = a /\ Append(s, c)[2] = b /\ Append(s, c)[3] = c
  <2>1. /\ Append(s, c) \in Seq(S) /\ Len(Append(s, c)) = Len(s) + 1
        /\ \A i \in 1..Len(s) : Append(s, c)[i] = s[i]
        /\ Append(s, c)[Len(s) + 1] = c
    BY AppendProperties
  <2>2. 1 \in 1..Len(s) /\ 2 \in 1..Len(s) /\ Len(s) + 1 = 3
    BY <1>3
  <2> QED
    BY <1>3, <2>1, <2>2
<1>5. Append(s, c) = u
  BY <1>3, <1>4, SeqEqual
<1> QED
  BY <1>1, <1>2, <1>5

LEMMA TextBegins ==
  /\ Append(Updates["printable"], "check") = NextTodo
  /\ Append(Updates["newline"], "check") = AddLine
  /\ Append(Updates["tab"], "check") = AddTab
  /\ Append(Updates["return"], "check") = Back
  /\ DOMAIN Updates = {"printable", "newline", "tab", "return"}
<1>1. /\ Updates["printable"] = <<"next">>
      /\ Updates["newline"] = <<"add_line", "trim_line">>
      /\ Updates["tab"] = <<"add_tab", "trim_tab">>
      /\ Updates["return"] = <<"back", "line_end">>
  BY DEF Updates
<1>2. DOMAIN Updates = {"printable", "newline", "tab", "return"}
  BY DEF Updates
<1>3. /\ Append(<<"next">>, "check") = <<"next", "check">>
      /\ Append(<<"add_line", "trim_line">>, "check") = <<"add_line", "trim_line", "check">>
      /\ Append(<<"add_tab", "trim_tab">>, "check") = <<"add_tab", "trim_tab", "check">>
      /\ Append(<<"back", "line_end">>, "check") = <<"back", "line_end", "check">>
  BY AppendTwo, AppendThree, Zenon
<1> QED
  BY <1>1, <1>2, <1>3 DEF NextTodo, AddLine, AddTab, Back

\* The texts are told apart by their first statement.
LEMMA TextsDiffer ==
  /\ <<>> \notin {NextTodo, AddLine, TrimLine, AddTab, TrimTab, Back, LineEnd, AtCheck, Scroll}
  /\ NextTodo \notin {AddLine, TrimLine, AddTab, TrimTab, Back, LineEnd, AtCheck, Scroll}
  /\ AddLine \notin {TrimLine, AddTab, TrimTab, Back, LineEnd, AtCheck, Scroll}
  /\ TrimLine \notin {AddTab, TrimTab, Back, LineEnd, AtCheck, Scroll}
  /\ AddTab \notin {TrimTab, Back, LineEnd, AtCheck, Scroll}
  /\ TrimTab \notin {Back, LineEnd, AtCheck, Scroll}
  /\ Back \notin {LineEnd, AtCheck, Scroll}
  /\ LineEnd \notin {AtCheck, Scroll}
  /\ AtCheck # Scroll
BY DEF NextTodo, AddLine, TrimLine, AddTab, TrimTab, Back, LineEnd, AtCheck, Scroll

LEMMA Ranges ==
  ASSUME NEW todo
  PROVE  /\ todo = TrimLine => Low(todo) = 2 * line_width /\ High(todo) = Limit + line_width - 1
         /\ todo = Scroll => /\ Low(todo) = Limit - line_width
                             /\ High(todo) = Limit + line_width - 1
         /\ todo = AtCheck => Low(todo) = line_width /\ High(todo) = Limit + line_width - 1
         /\ todo \in {<<>>, NextTodo, AddLine} => Low(todo) = line_width /\ High(todo) = Limit - 1
         /\ Low(todo) \in {line_width, 2 * line_width, Limit - line_width}
         /\ High(todo) \in {Limit - 1, Limit + line_width - 1}
BY TextsDiffer DEF Low, High

\* A new call, or one that has completed a statement, has loaded nothing.
With(todo) == [NotPrinting EXCEPT !.todo = todo]

LEMMA WithState ==
  ASSUME NEW todo \in Texts
  PROVE  /\ With(todo) \in CallStates
         /\ With(todo).todo = todo
         /\ DOMAIN With(todo).loaded = {}
         /\ With(<<>>) = NotPrinting
<1>1. <<>> \in [{} -> Nat] /\ DOMAIN <<>> = {}
  OBVIOUS
<1>2. With(todo) = [todo |-> todo, loaded |-> <<>>] /\ With(<<>>) = NotPrinting
  BY DEF With, NotPrinting
<1>3. <<>> \in UNION {[operands -> Nat] : operands \in SUBSET {"left", "right"}}
  BY <1>1
<1> QED
  BY <1>1, <1>2, <1>3 DEF CallStates

\* A cursor within the ranges of an interrupted call.
Bounds(low, high) ==
  /\ low \in {line_width, 2 * line_width, Limit - line_width}
  /\ high \in {Limit - 1, Limit + line_width - 1}

LEMMA BriskBegin ==
  ASSUME NEW low, NEW high, NEW at, Brisk(NotPrinting, at, low, high),
         NEW character \in DOMAIN Updates, character = "return" => low = line_width
  PROVE  LET begun == With(Append(Updates[character], "check"))
         IN  /\ begun \in CallStates /\ begun.todo # <<>>
             /\ Brisk(begun, at, low, high)
<1> DEFINE todo == Append(Updates[character], "check")
<1>1. /\ todo \in {NextTodo, AddLine, AddTab, Back}
      /\ todo = Back => low = line_width
  BY TextBegins, TextsDiffer
<1>2. todo \in Texts /\ todo # <<>>
  BY <1>1, TextsDiffer DEF Texts
<1>3. at \in low..high
  BY DEF Brisk, NotPrinting
<1> HIDE DEF todo
<1>4. Brisk(With(todo), at, low, high)
  BY <1>1, <1>2, <1>3, WithState, TextsDiffer DEF Brisk
<1> QED
  BY <1>2, <1>4, WithState DEF todo

\* The operands that a statement has loaded.
Loaded(c, operand, at) ==
  [c EXCEPT !.loaded = [o \in DOMAIN @ \cup {operand} |-> IF o = operand THEN at ELSE @[o]]]

LEMMA LoadedState ==
  ASSUME NEW c \in CallStates, NEW operand \in {"left", "right"}, NEW at \in Nat
  PROVE  /\ Loaded(c, operand, at) \in CallStates
         /\ Loaded(c, operand, at).todo = c.todo
         /\ DOMAIN Loaded(c, operand, at).loaded = DOMAIN c.loaded \cup {operand}
         /\ \A o \in DOMAIN c.loaded \cup {operand} :
              Loaded(c, operand, at).loaded[o] = IF o = operand THEN at ELSE c.loaded[o]
<1> DEFINE loaded == [o \in DOMAIN c.loaded \cup {operand} |->
                        IF o = operand THEN at ELSE c.loaded[o]]
<1>1. PICK operands \in SUBSET {"left", "right"} : c.loaded \in [operands -> Nat]
  BY DEF CallStates
<1>2. DOMAIN c.loaded = operands
  BY <1>1
<1>3. loaded \in [operands \cup {operand} -> Nat] /\ operands \cup {operand} \in SUBSET {"left", "right"}
  BY <1>1, <1>2
<1>4. loaded \in UNION {[os -> Nat] : os \in SUBSET {"left", "right"}}
  BY <1>3
<1>5. Loaded(c, operand, at) = [c EXCEPT !.loaded = loaded]
  BY DEF Loaded
<1> HIDE DEF loaded
<1>6. /\ Loaded(c, operand, at) \in CallStates
      /\ Loaded(c, operand, at).todo = c.todo
      /\ Loaded(c, operand, at).loaded = loaded
  BY <1>4, <1>5 DEF CallStates
<1> QED
  BY <1>6 DEF loaded

LEMMA BriskLoad ==
  ASSUME NEW c \in CallStates, NEW operand \in {"left", "right"}, NEW at \in Nat,
         NEW low, NEW high, Brisk(c, at, low, high)
  PROVE  Brisk(Loaded(c, operand, at), at, low, high)
<1>1. PICK d : d = Loaded(c, operand, at)
  OBVIOUS
<1>2. /\ d.todo = c.todo
      /\ \A o \in DOMAIN d.loaded : d.loaded[o] = at
  <2>1. \A o \in DOMAIN c.loaded : c.loaded[o] = at
    BY DEF Brisk
  <2>2. /\ d.todo = c.todo
        /\ DOMAIN d.loaded = DOMAIN c.loaded \cup {operand}
        /\ \A o \in DOMAIN c.loaded \cup {operand} :
             d.loaded[o] = IF o = operand THEN at ELSE c.loaded[o]
    <3>1. c \in CallStates /\ operand \in {"left", "right"} /\ at \in Nat
      OBVIOUS
    <3> QED
      BY ONLY <1>1, <3>1, LoadedState
  <2> QED
    BY ONLY <2>1, <2>2
<1>3. Brisk(d, at, low, high)
  BY <1>2 DEF Brisk
<1> QED
  BY <1>1, <1>3

LEMMA Both ==
  /\ Operands("next") = {"left"} /\ Operands("add_line") = {"left"}
  /\ Operands("add_tab") = {"left"} /\ Operands("back") = {"left"}
  /\ Operands("scroll") = {"left"}
  /\ Operands("trim_line") = {"left", "right"} /\ Operands("trim_tab") = {"left", "right"}
  /\ Operands("line_end") = {"left", "right"}
BY DEF Operands

\* The values that statements store, while the cursor does not wrap.
LEMMA StoredValues ==
  ASSUME NEW loaded, loaded.left \in Nat, loaded.left + line_width < Word
  PROVE  /\ Stored("next", loaded) = loaded.left + 1
         /\ Stored("add_line", loaded) = loaded.left + line_width
         /\ Stored("add_tab", loaded) = loaded.left + tab_width
         /\ loaded.left >= line_width => Stored("back", loaded) = loaded.left - (line_width - 1)
<1>1. PICK left \in Nat : left = loaded.left
  OBVIOUS
<1>2. \A n \in Nat : n < Word => n % Word = n
  BY Screen, Remainder
<1>3. left + 1 < Word /\ left + line_width < Word /\ left + tab_width < Word
  BY <1>1, Screen
<1>4. (left + 1) % Word = left + 1
  BY <1>2, <1>3
<1>5. (left + line_width) % Word = left + line_width
  BY <1>2, <1>3, Screen
<1>6. (left + tab_width) % Word = left + tab_width
  BY <1>2, <1>3, Screen
<1>7. left >= line_width => Minus(left, line_width - 1) = left - (line_width - 1)
  BY <1>3, Screen, Difference
<1> QED
  BY <1>1, <1>4, <1>5, <1>6, <1>7 DEF Stored

LEMMA StoredScroll ==
  ASSUME NEW loaded, loaded.left \in Nat, loaded.left < Word, loaded.left >= line_width
  PROVE  Stored("scroll", loaded) = loaded.left - line_width
BY Screen, Difference DEF Stored

LEMMA StoredTrims ==
  ASSUME NEW loaded, loaded.left \in Nat, loaded.right \in Nat, loaded.left < Word
  PROVE  /\ loaded.left >= line_width =>
              Stored("trim_line", loaded) \in loaded.left - line_width + 1 .. loaded.left
         /\ loaded.left >= tab_width =>
              Stored("trim_tab", loaded) \in loaded.left - tab_width + 1 .. loaded.left
         /\ loaded.left = loaded.right /\ loaded.left >= 1 /\ loaded.left + line_width < Word =>
              Stored("line_end", loaded) \in line_width .. loaded.left + line_width
<1>1. PICK left \in Nat, right \in Nat : left = loaded.left /\ right = loaded.right
  OBVIOUS
<1>2. PICK r \in Nat : r = right % line_width /\ r < line_width /\ r <= right
  <2>1. right % line_width \in 0..line_width - 1 /\ right % line_width <= right
    BY Screen, Remainder
  <2> QED
    BY <2>1, Screen
<1>3. PICK t \in Nat : t = right % tab_width /\ t < tab_width
  <2>1. right % tab_width \in 0..tab_width - 1
    BY Screen, Remainder
  <2> QED
    BY <2>1, Screen
<1>4. ASSUME left >= line_width
      PROVE  Minus(left, r) \in left - line_width + 1 .. left
  <2>1. Minus(left, r) = left - r
    BY <1>1, <1>2, <1>4, Screen, Difference
  <2> QED
    BY <1>2, <1>4, <2>1, Screen
<1>5. ASSUME left >= tab_width
      PROVE  Minus(left, t) \in left - tab_width + 1 .. left
  <2>1. Minus(left, t) = left - t
    BY <1>1, <1>3, <1>5, Screen, Difference
  <2> QED
    BY <1>3, <1>5, <2>1, Screen
<1>6. ASSUME left = right, left + line_width < Word
      PROVE  (Minus(left, r) + line_width) % Word \in line_width .. left + line_width
  <2>1. Minus(left, r) = left - r
    BY <1>1, <1>2, <1>6, Difference
  <2>2. left - r + line_width \in Nat /\ left - r + line_width < Word /\ left - r >= 0
    BY <1>2, <1>6, Screen
  <2>3. (left - r + line_width) % Word = left - r + line_width
    BY <2>2, Screen, Remainder
  <2> QED
    BY <1>2, <2>1, <2>2, <2>3, Screen
<1> QED
  BY <1>1, <1>2, <1>3, <1>4, <1>5, <1>6 DEF Stored

\* Printing that is not interrupted completes a statement.
LEMMA BriskStore ==
  ASSUME NEW c \in CallStates, NEW at \in Nat, NEW low, NEW high, Bounds(low, high),
         Brisk(c, at, low, high),
         c.todo \notin {<<>>, AtCheck}, Operands(Head(c.todo)) \subseteq DOMAIN c.loaded
  PROVE  /\ Tail(c.todo) \in Texts
         /\ Stored(Head(c.todo), c.loaded) \in Nat
         /\ Brisk(With(Tail(c.todo)), Stored(Head(c.todo), c.loaded), low, high)
<1>1. PICK loaded : loaded = c.loaded
  OBVIOUS
<1>2. PICK next : next = Tail(c.todo)
  OBVIOUS
<1>3. PICK to : to = Stored(Head(c.todo), loaded)
  OBVIOUS
<1>4. \A operand \in DOMAIN loaded : loaded[operand] = at
  BY <1>1 DEF Brisk
<1>5. loaded.left = at
  BY <1>1, <1>4, Both, TextHeads DEF CallStates, Texts
<1>6. /\ low \in Nat /\ high \in Nat /\ low >= line_width /\ low + line_width <= Limit
      /\ high >= Limit - 1 /\ high + line_width < Word
  BY Screen DEF Bounds
<1>7. /\ next \in Texts /\ to \in Nat
      /\ next \in {<<>>, NextTodo, AddLine, AddTab, Back} => to \in low..high
      /\ next = TrimLine => to \in low + line_width .. high + line_width
      /\ next = TrimTab => to \in low + tab_width .. high + tab_width
      /\ next = LineEnd => to \in 1..high /\ low = line_width
      /\ next = AtCheck => to \in low .. high + line_width
      /\ next = Scroll => to \in Limit .. high + line_width
      /\ next \in {Back, LineEnd} => low = line_width
  <2>1. CASE c.todo = NextTodo
    <3>1. next = AtCheck /\ to = at + 1 /\ at \in low..high
      <4>1. at \in low..high
        BY <2>1 DEF Brisk
      <4>2. Stored("next", loaded) = at + 1
        BY <1>5, <1>6, <4>1, StoredValues, Screen
      <4> QED
        BY <1>2, <1>3, <2>1, <4>1, <4>2, TextHeads
    <3>2. to \in Nat /\ to \in low .. high + line_width
      BY <1>6, <3>1, Screen
    <3> QED
      BY <3>1, <3>2, TextsDiffer DEF Texts
  <2>2. CASE c.todo = AddLine
    <3>1. next = TrimLine /\ to = at + line_width /\ at \in low..high
      <4>1. at \in low..high
        BY <2>2 DEF Brisk
      <4>2. Stored("add_line", loaded) = at + line_width
        BY <1>5, <1>6, <4>1, StoredValues, Screen
      <4> QED
        BY <1>2, <1>3, <2>2, <4>1, <4>2, TextHeads
    <3> QED
      BY <1>6, <3>1, TextsDiffer, Screen DEF Texts
  <2>3. CASE c.todo = AddTab
    <3>1. next = TrimTab /\ to = at + tab_width /\ at \in low..high
      <4>1. at \in low..high
        BY <2>3 DEF Brisk
      <4>2. Stored("add_tab", loaded) = at + tab_width
        BY <1>5, <1>6, <4>1, StoredValues, Screen
      <4> QED
        BY <1>2, <1>3, <2>3, <4>1, <4>2, TextHeads
    <3> QED
      BY <1>6, <3>1, TextsDiffer, Screen DEF Texts
  <2>4. CASE c.todo = Back
    <3>1. next = LineEnd /\ to = at - (line_width - 1) /\ at \in low..high /\ low = line_width
      <4>1. at \in low..high /\ low = line_width
        BY <2>4 DEF Brisk
      <4>2. Stored("back", loaded) = at - (line_width - 1)
        BY <1>5, <1>6, <4>1, StoredValues, Screen
      <4> QED
        BY <1>2, <1>3, <2>4, <4>1, <4>2, TextHeads
    <3> QED
      BY <1>6, <3>1, TextsDiffer, Screen DEF Texts
  <2>5. CASE c.todo = Scroll
    <3>1. next = <<>> /\ to = at - line_width /\ at \in Limit .. high + line_width
      <4>1. at \in Limit .. high + line_width
        BY <2>5 DEF Brisk
      <4>2. at \in Nat /\ at >= line_width /\ at < Word
        BY <4>1, <1>6, Screen
      <4>3. Stored("scroll", loaded) = at - line_width
        BY <1>5, <4>2, StoredScroll
      <4> QED
        BY <1>2, <1>3, <2>5, <4>1, <4>3, TextHeads
    <3> QED
      BY <1>6, <3>1, TextsDiffer, Screen DEF Texts
  <2>6. ASSUME c.todo \in {TrimLine, TrimTab, LineEnd}
        PROVE  loaded.right = at /\ next = AtCheck
    BY <1>1, <1>2, <1>4, <2>6, Both, TextHeads
  <2>7. CASE c.todo = TrimLine
    <3>1. to \in at - line_width + 1 .. at /\ at \in low + line_width .. high + line_width
      <4>1. at \in low + line_width .. high + line_width
        BY <2>7 DEF Brisk
      <4>2. Stored("trim_line", loaded) \in at - line_width + 1 .. at
        BY <1>5, <1>6, <2>6, <2>7, <4>1, StoredTrims, Screen
      <4> QED
        BY <1>3, <2>7, <4>1, <4>2, TextHeads
    <3> QED
      BY <1>6, <2>6, <2>7, <3>1, TextsDiffer, Screen DEF Texts
  <2>8. CASE c.todo = TrimTab
    <3>1. to \in at - tab_width + 1 .. at /\ at \in low + tab_width .. high + tab_width
      <4>1. at \in low + tab_width .. high + tab_width
        BY <2>8 DEF Brisk
      <4>2. Stored("trim_tab", loaded) \in at - tab_width + 1 .. at
        BY <1>5, <1>6, <2>6, <2>8, <4>1, StoredTrims, Screen
      <4> QED
        BY <1>3, <2>8, <4>1, <4>2, TextHeads
    <3> QED
      BY <1>6, <2>6, <2>8, <3>1, TextsDiffer, Screen DEF Texts
  <2>9. CASE c.todo = LineEnd
    <3>1. to \in line_width .. at + line_width /\ at \in 1..high /\ low = line_width
      <4>1. at \in 1..high /\ low = line_width
        BY <2>9 DEF Brisk
      <4>2. Stored("line_end", loaded) \in line_width .. at + line_width
        <5>1. /\ loaded.left = at /\ loaded.right = at /\ at >= 1
              /\ at + line_width < Word /\ at < Word
          BY <1>5, <1>6, <2>6, <2>9, <4>1, Screen
        <5> QED
          BY <5>1, StoredTrims
      <4> QED
        BY <1>3, <2>9, <4>1, <4>2, TextHeads
    <3> QED
      BY <1>6, <2>6, <2>9, <3>1, TextsDiffer, Screen DEF Texts
  <2> QED
    BY <2>1, <2>2, <2>3, <2>4, <2>5, <2>7, <2>8, <2>9 DEF CallStates, Texts
<1>8. Brisk(With(next), to, low, high)
  BY <1>7, WithState DEF Brisk
<1> QED
  BY <1>1, <1>2, <1>3, <1>7, <1>8

LEMMA BriskCheck ==
  ASSUME NEW c, NEW at \in Nat, NEW low, NEW high, Bounds(low, high),
         Brisk(c, at, low, high), c.todo = AtCheck
  PROVE  Brisk(With(IF at >= Limit THEN Scroll ELSE <<>>), at, low, high)
<1>1. at \in low .. high + line_width
  BY DEF Brisk
<1>2. low \in Nat /\ high \in Nat /\ high >= Limit - 1
  BY Screen DEF Bounds
<1>3. CASE at >= Limit
  <2>1. at \in Limit .. high + line_width
    BY <1>1, <1>2, <1>3, Screen
  <2>2. Brisk(With(Scroll), at, low, high)
    BY <2>1, WithState, TextsDiffer DEF Brisk, Texts
  <2> QED
    BY <1>3, <2>2
<1>4. CASE ~(at >= Limit)
  <2>1. at \in low..high
    BY <1>1, <1>2, <1>4, Screen
  <2>2. Brisk(With(<<>>), at, low, high)
    BY <2>1, WithState, TextsDiffer DEF Brisk, Texts
  <2> QED
    BY <1>4, <2>2
<1> QED
  BY <1>3, <1>4

(***************************************************************************)
(* The same steps of a call that may be interrupted                        *)
(***************************************************************************)

LEMMA SlowWith ==
  ASSUME NEW todo \in Plain
  PROVE  With(todo) \in CallStates /\ With(todo).todo = todo /\ Slow(With(todo))
<1>1. todo \in Texts
  BY DEF Plain, Texts
<1> QED
  BY <1>1, WithState DEF Slow

LEMMA SlowBegin ==
  ASSUME NEW at, SlowAt(NotPrinting, at), NEW character \in {"printable", "newline"}
  PROVE  LET begun == With(Append(Updates[character], "check"))
         IN  begun \in CallStates /\ begun.todo # <<>> /\ SlowAt(begun, at)
<1> DEFINE todo == Append(Updates[character], "check")
<1>1. todo \in {NextTodo, AddLine}
  BY TextBegins
<1>2. todo \in Plain /\ todo # <<>>
  BY <1>1, TextsDiffer DEF Plain
<1>3. at \in line_width .. Limit - 1
  BY Ranges DEF SlowAt, NotPrinting
<1> HIDE DEF todo
<1>4. Low(todo) = line_width /\ High(todo) = Limit - 1
  BY <1>1, Ranges
<1> QED
  BY <1>2, <1>3, <1>4, SlowWith DEF SlowAt, todo

LEMMA SlowLoad ==
  ASSUME NEW c \in CallStates, NEW operand \in {"left", "right"}, NEW at \in Nat, SlowAt(c, at)
  PROVE  SlowAt(Loaded(c, operand, at), at)
<1>1. PICK d : d = Loaded(c, operand, at)
  OBVIOUS
<1>2. /\ d.todo = c.todo
      /\ \A o \in DOMAIN d.loaded : d.loaded[o] \in Low(c.todo)..High(c.todo)
  <2>1. \A o \in DOMAIN c.loaded : c.loaded[o] \in Low(c.todo)..High(c.todo)
    BY DEF SlowAt, Slow
  <2>2. at \in Low(c.todo)..High(c.todo)
    BY DEF SlowAt
  <2> QED
    BY <1>1, <2>1, <2>2, LoadedState
<1>3. SlowAt(d, at)
  BY <1>2 DEF SlowAt, Slow
<1> QED
  BY <1>1, <1>3

\* An interrupted call completes a statement with what it loaded before.
LEMMA SlowStore ==
  ASSUME NEW c \in CallStates, Slow(c),
         c.todo \notin {<<>>, AtCheck}, Operands(Head(c.todo)) \subseteq DOMAIN c.loaded
  PROVE  /\ Tail(c.todo) \in Texts
         /\ Stored(Head(c.todo), c.loaded) \in Nat
         /\ SlowAt(With(Tail(c.todo)), Stored(Head(c.todo), c.loaded))
<1>1. PICK loaded : loaded = c.loaded
  OBVIOUS
<1>2. PICK next : next = Tail(c.todo)
  OBVIOUS
<1>3. PICK to : to = Stored(Head(c.todo), loaded)
  OBVIOUS
<1>4. \A operand \in DOMAIN loaded : loaded[operand] \in Low(c.todo)..High(c.todo)
  BY <1>1 DEF Slow
<1>5. c.todo \in {NextTodo, AddLine, TrimLine, Scroll}
  BY DEF Slow, Plain
<1>6. loaded.left \in Low(c.todo)..High(c.todo)
  BY <1>1, <1>4, <1>5, Both, TextHeads
<1>7. next \in Plain /\ to \in Nat /\ to \in Low(next)..High(next)
  <2>1. CASE c.todo = NextTodo
    <3>1. loaded.left \in line_width .. Limit - 1
      BY <1>6, <2>1, Ranges
    <3>2. next = AtCheck /\ to = loaded.left + 1
      <4>1. loaded.left \in Nat /\ loaded.left + line_width < Word
        BY <3>1, Screen
      <4> QED
        BY <1>2, <1>3, <2>1, <4>1, TextHeads, StoredValues
    <3>3. Low(next) = line_width /\ High(next) = Limit + line_width - 1
      BY <3>2, Ranges
    <3> QED
      BY <3>1, <3>2, <3>3, Screen DEF Plain
  <2>2. CASE c.todo = AddLine
    <3>1. loaded.left \in line_width .. Limit - 1
      BY <1>6, <2>2, Ranges
    <3>2. next = TrimLine /\ to = loaded.left + line_width
      <4>1. loaded.left \in Nat /\ loaded.left + line_width < Word
        BY <3>1, Screen
      <4> QED
        BY <1>2, <1>3, <2>2, <4>1, TextHeads, StoredValues
    <3>3. Low(next) = 2 * line_width /\ High(next) = Limit + line_width - 1
      BY <3>2, Ranges
    <3> QED
      BY <3>1, <3>2, <3>3, Screen DEF Plain
  <2>3. CASE c.todo = TrimLine
    <3>1. loaded.left \in 2 * line_width .. Limit + line_width - 1
      BY <1>6, <2>3, Ranges
    <3>2. loaded.right \in Nat
      <4>1. loaded.right \in Low(c.todo)..High(c.todo)
        BY <1>1, <1>4, <2>3, Both, TextHeads
      <4>2. loaded.right \in 2 * line_width .. Limit + line_width - 1
        BY <4>1, <2>3, Ranges
      <4> QED
        BY <4>2, Screen
    <3>3. next = AtCheck /\ to \in loaded.left - line_width + 1 .. loaded.left
      <4>1. loaded.left \in Nat /\ loaded.left < Word /\ loaded.left >= line_width
        BY <3>1, Screen
      <4>2. Stored("trim_line", loaded) \in loaded.left - line_width + 1 .. loaded.left
        BY <3>2, <4>1, StoredTrims
      <4> QED
        BY <1>2, <1>3, <2>3, <4>2, TextHeads
    <3>4. Low(next) = line_width /\ High(next) = Limit + line_width - 1
      BY <3>3, Ranges
    <3> QED
      BY <3>1, <3>3, <3>4, Screen DEF Plain
  <2>4. CASE c.todo = Scroll
    <3>1. loaded.left \in Limit - line_width .. Limit + line_width - 1
      BY <1>6, <2>4, Ranges
    <3>2. next = <<>> /\ to = loaded.left - line_width
      <4>1. loaded.left \in Nat /\ loaded.left < Word /\ loaded.left >= line_width
        BY <3>1, Screen
      <4> QED
        BY <1>2, <1>3, <2>4, <4>1, TextHeads, StoredScroll
    <3>3. Low(next) = line_width /\ High(next) = Limit - 1
      BY <3>2, Ranges
    <3> QED
      BY <3>1, <3>2, <3>3, Screen DEF Plain
  <2> QED
    BY <1>5, <2>1, <2>2, <2>3, <2>4
<1>8. next \in Texts /\ SlowAt(With(next), to)
  BY <1>7, SlowWith DEF SlowAt, Plain, Texts
<1> QED
  BY <1>1, <1>2, <1>3, <1>7, <1>8

LEMMA SlowCheck ==
  ASSUME NEW c, NEW at \in Nat, SlowAt(c, at), c.todo = AtCheck
  PROVE  SlowAt(With(IF at >= Limit THEN Scroll ELSE <<>>), at)
<1>1. at \in line_width .. Limit + line_width - 1
  BY Ranges DEF SlowAt
<1>2. CASE at >= Limit
  <2>1. Low(Scroll) = Limit - line_width /\ High(Scroll) = Limit + line_width - 1
    BY Ranges
  <2>2. at \in Low(Scroll)..High(Scroll)
    BY <1>1, <1>2, <2>1, Screen
  <2>3. SlowAt(With(Scroll), at)
    BY <2>2, SlowWith DEF SlowAt, Plain
  <2> QED
    BY <1>2, <2>3
<1>3. CASE ~(at >= Limit)
  <2>1. Low(<<>>) = line_width /\ High(<<>>) = Limit - 1
    BY Ranges
  <2>2. at \in Low(<<>>)..High(<<>>)
    BY <1>1, <1>3, <2>1, Screen
  <2>3. SlowAt(With(<<>>), at)
    BY <2>2, SlowWith DEF SlowAt, Plain
  <2> QED
    BY <1>3, <2>3
<1> QED
  BY <1>2, <1>3

(***************************************************************************)
(* The calls of all activations                                            *)
(***************************************************************************)

LEMMA CallsShape ==
  ASSUME IInv, PrintInv
  PROVE  /\ Len(stack) \in Nat /\ DOMAIN stack = 1..Len(stack)
         /\ Len(calls) = Len(stack) /\ DOMAIN calls = 1..Len(stack)
         /\ stack # <<>> => /\ Len(stack) \in 1..Len(stack) /\ 1 \in 1..Len(stack)
                            /\ Call = calls[Len(stack)] /\ Call \in CallStates
         /\ stack = <<>> <=> Len(stack) = 0
BY DEF IInv, TypeInv, PrintInv, Call

\* Nothing is half printed outside a print step, and without data segments.
LEMMA TopIdle ==
  ASSUME IInv, PrintInv, stack # <<>>,
         Head(Top.todo) # "print" \/ ds = NullSegment \/ Call.todo = <<>>
  PROVE  /\ Call = NotPrinting /\ calls[Len(stack)] = NotPrinting
         /\ Len(stack) = 1 => cursor \in line_width .. Limit - 1
         /\ Len(stack) > 1 => cursor \in Low(calls[1].todo)..High(calls[1].todo)
<1>1. Call = NotPrinting /\ calls[Len(stack)] = NotPrinting
  BY CallsShape DEF PrintInv, Top
<1>2. NotPrinting.todo = <<>>
  BY DEF NotPrinting
<1>3. Len(stack) = 1 => cursor \in line_width .. Limit - 1
  BY <1>1, <1>2, Ranges DEF PrintInv, SlowAt, Brisk
<1>4. Len(stack) > 1 => cursor \in Low(calls[1].todo)..High(calls[1].todo)
  BY <1>1, <1>2 DEF PrintInv, Brisk
<1> QED
  BY <1>1, <1>3, <1>4

LEMMA IdleBrisk ==
  ASSUME NEW at, NEW low, NEW high, at \in low..high
  PROVE  Brisk(NotPrinting, at, low, high)
<1>1. NotPrinting.todo = <<>> /\ DOMAIN NotPrinting.loaded = {}
  BY DEF NotPrinting
<1> QED
  BY <1>1, TextsDiffer DEF Brisk

LEMMA IdleSlow ==
  /\ Slow(NotPrinting) /\ NotPrinting \in CallStates /\ NotPrinting.todo = <<>>
  /\ \A at \in line_width .. Limit - 1 : SlowAt(NotPrinting, at)
<1>1. Slow(NotPrinting) /\ NotPrinting \in CallStates /\ NotPrinting.todo = <<>>
  BY SlowWith, WithState DEF Plain, Texts
<1> QED
  BY <1>1, Ranges DEF SlowAt

LEMMA MovePrint ==
  ASSUME IInv, PrintInv, NEW todo, Moved(todo), UNCHANGED <<cursor, calls>>,
         Call = NotPrinting, ds # NullSegment => ds' # NullSegment
  PROVE  PrintInv'
<1>1. cursor' = cursor /\ calls' = calls
  OBVIOUS
<1>2. calls[Len(stack)] = NotPrinting
  BY CallsShape DEF Moved
<1>3. \A k \in DOMAIN stack' :
         /\ calls[k].todo = <<>> => calls[k] = NotPrinting
         /\ calls[k] # NotPrinting => Head(stack'[k].todo) = "print" /\ ds' # NullSegment
         /\ 1 < k /\ k < Len(stack') => calls[k] = NotPrinting
  <2> SUFFICES ASSUME NEW k \in 1..Len(stack)
               PROVE  /\ calls[k].todo = <<>> => calls[k] = NotPrinting
                      /\ calls[k] # NotPrinting =>
                           Head(stack'[k].todo) = "print" /\ ds' # NullSegment
                      /\ 1 < k /\ k < Len(stack') => calls[k] = NotPrinting
    BY DEF Moved
  <2>1. k # Len(stack) => stack'[k].todo = stack[k].todo
    BY DEF Moved
  <2> QED
    BY <1>2, <2>1 DEF PrintInv, Moved
<1>4. stack'[1].isr = stack[1].isr /\ Len(stack') = Len(stack) /\ stack' # <<>>
  BY DEF Moved
<1> QED
  BY <1>1, <1>3, <1>4 DEF PrintInv

\* An activation comes on top; what was the top may have gone on if it was
\* not printing.
Risen ==
  /\ Len(stack') = Len(stack) + 1 /\ DOMAIN stack' = 1..Len(stack) + 1
  /\ \A k \in 1..Len(stack) :
       /\ stack'[k].isr = stack[k].isr
       /\ stack'[k].todo = stack[k].todo \/ (k = Len(stack) /\ Call = NotPrinting)
  /\ calls' = Append(calls, NotPrinting)
  /\ UNCHANGED <<cursor, ds>>

LEMMA RisePrint ==
  ASSUME IInv, PrintInv, Risen,
         Len(stack) > 1 \/ (Len(stack) = 1 /\ stack[1].isr \notin Open) => Call = NotPrinting
  PROVE  PrintInv'
<1>1. PICK n \in Nat : n = Len(stack) /\ DOMAIN stack = 1..n /\ DOMAIN calls = 1..n
  BY CallsShape
<1>2. /\ calls' \in Seq(CallStates) /\ Len(calls') = n + 1
      /\ \A k \in 1..n : calls'[k] = calls[k]
      /\ calls'[n + 1] = NotPrinting
  <2>1. calls \in Seq(CallStates) /\ Len(calls) = n /\ calls' = Append(calls, NotPrinting)
    BY <1>1, CallsShape DEF PrintInv, Risen
  <2> QED
    BY <2>1, IdleSlow, AppendProperties
<1>3. Len(stack') = n + 1 /\ DOMAIN stack' = 1..n + 1 /\ stack' # <<>>
  BY <1>1 DEF Risen
<1>4. ASSUME NEW k \in 1..n + 1
      PROVE  /\ calls'[k].todo = <<>> => calls'[k] = NotPrinting
             /\ calls'[k] # NotPrinting => Head(stack'[k].todo) = "print" /\ ds' # NullSegment
             /\ 1 < k /\ k < n + 1 => calls'[k] = NotPrinting
  <2>1. CASE k = n + 1
    BY <1>2, <2>1
  <2>2. CASE k # n + 1
    <3>1. k \in 1..n /\ calls'[k] = calls[k]
      BY <1>2, <2>2
    <3>2. stack'[k].todo = stack[k].todo \/ calls[k] = NotPrinting
      BY <1>1, <3>1, CallsShape DEF Risen, Call
    <3>3. 1 < k /\ k = n => calls[k] = NotPrinting
      BY <1>1, CallsShape DEF Call
    <3>4. /\ calls[k].todo = <<>> => calls[k] = NotPrinting
          /\ calls[k] # NotPrinting => Head(stack[k].todo) = "print" /\ ds # NullSegment
          /\ 1 < k /\ k < n => calls[k] = NotPrinting
      BY <1>1, <3>1 DEF PrintInv
    <3>5. ds' = ds /\ (k < n + 1 => k < n \/ k = n)
      BY <3>1 DEF Risen
    <3> QED
      BY <3>1, <3>2, <3>3, <3>4, <3>5
  <2> QED
    BY <2>1, <2>2
<1>5. CASE n = 0
  <2>1. cursor \in line_width .. Limit - 1
    BY <1>1, <1>5, CallsShape DEF PrintInv
  <2>2. SlowAt(NotPrinting, cursor) /\ Brisk(NotPrinting, cursor, line_width, Limit - 1)
    BY <2>1, IdleSlow, IdleBrisk
  <2> QED
    BY <1>2, <1>3, <1>4, <1>5, <2>2 DEF PrintInv, Risen
<1>6. CASE n > 0
  <2>1. 1 \in 1..n /\ calls'[1] = calls[1] /\ stack'[1].isr = stack[1].isr
    BY <1>1, <1>2, <1>6 DEF Risen
  <2>2. /\ Slow(calls[1])
        /\ stack[1].isr \notin Open => calls[1] = NotPrinting
        /\ cursor \in Low(calls[1].todo)..High(calls[1].todo)
    <3>1. CASE n = 1 /\ stack[1].isr \in Open
      BY <1>1, <3>1 DEF PrintInv, SlowAt
    <3>2. CASE n = 1 /\ stack[1].isr \notin Open
      <4>1. calls[1] = NotPrinting /\ Call.todo = <<>> /\ stack # <<>>
        BY <1>1, <3>2, CallsShape, IdleSlow
      <4>2. cursor \in line_width .. Limit - 1
        BY <1>1, <3>2, <4>1, TopIdle
      <4> QED
        BY <3>2, <4>1, <4>2, IdleSlow DEF SlowAt
    <3>3. CASE n > 1
      <4>1. Call.todo = <<>> /\ stack # <<>>
        BY <1>1, <3>3, CallsShape, IdleSlow
      <4>2. cursor \in Low(calls[1].todo)..High(calls[1].todo)
        BY <1>1, <3>3, <4>1, TopIdle
      <4> QED
        BY <1>1, <3>3, <4>2 DEF PrintInv
    <3> QED
      BY <1>6, <3>1, <3>2, <3>3
  <2>3. Brisk(NotPrinting, cursor, Low(calls[1].todo), High(calls[1].todo))
    BY <2>2, IdleBrisk
  <2>4. Len(stack') > 1 /\ Len(stack') # 1
    BY <1>3, <1>6
  <2> QED
    BY <1>1, <1>2, <1>3, <1>4, <2>1, <2>2, <2>3, <2>4 DEF PrintInv, Risen
<1> QED
  BY <1>5, <1>6

\* An interrupted activation goes on.
LEMMA PopPrint ==
  ASSUME IInv, PrintInv, stack # <<>>, Call = NotPrinting,
         NEW n \in Nat \ {0}, Len(stack) = n + 1,
         Len(stack') = n, DOMAIN stack' = 1..n, \A k \in 1..n : stack'[k] = stack[k],
         calls' = Front(calls), UNCHANGED <<cursor, ds>>
  PROVE  PrintInv'
<1>1. DOMAIN stack = 1..n + 1 /\ Len(calls) = n + 1 /\ calls \in Seq(CallStates)
  BY CallsShape DEF PrintInv
<1>2. /\ calls' \in Seq(CallStates) /\ Len(calls') = n
      /\ \A k \in 1..n : calls'[k] = calls[k]
  <2>1. calls' = SubSeq(calls, 1, n)
    BY <1>1 DEF Front
  <2>2. \A k \in 1..n : calls[k] \in CallStates
    BY <1>1
  <2> QED
    BY <2>1, <2>2, SubSeqProperties
<1>3. /\ stack' # <<>> /\ 1 \in 1..n /\ n \in 1..n
      /\ stack'[1].isr = stack[1].isr /\ calls'[1] = calls[1] /\ calls'[n] = calls[n]
  BY <1>2
<1>4. ASSUME NEW k \in 1..n
      PROVE  /\ calls'[k].todo = <<>> => calls'[k] = NotPrinting
             /\ calls'[k] # NotPrinting => Head(stack'[k].todo) = "print" /\ ds' # NullSegment
             /\ 1 < k => calls'[k] = NotPrinting
  <2>1. /\ k \in DOMAIN stack /\ calls'[k] = calls[k] /\ stack'[k] = stack[k]
        /\ k < Len(stack) /\ ds' = ds
    BY <1>1, <1>2
  <2> QED
    BY <2>1 DEF PrintInv
<1>5. /\ Slow(calls[1])
      /\ stack[1].isr \notin Open => calls[1] = NotPrinting
  BY DEF PrintInv
<1>6. cursor \in Low(calls[1].todo)..High(calls[1].todo)
  BY TopIdle, IdleSlow
<1>7. CASE n = 1
  <2>1. stack[1].isr \notin Open => Brisk(calls[1], cursor, line_width, Limit - 1)
    BY <1>5, <1>6, IdleSlow, IdleBrisk, Ranges
  <2>2. SlowAt(calls[1], cursor)
    BY <1>5, <1>6 DEF SlowAt
  <2> QED
    BY <1>2, <1>3, <1>4, <1>7, <2>1, <2>2 DEF PrintInv
<1>8. CASE n > 1
  <2>1. calls'[n] = NotPrinting
    BY <1>3, <1>4, <1>8
  <2>2. Brisk(calls'[n], cursor, Low(calls[1].todo), High(calls[1].todo))
    BY <1>6, <2>1, IdleBrisk
  <2> QED
    BY <1>2, <1>3, <1>4, <1>5, <1>8, <2>2 DEF PrintInv
<1> QED
  BY <1>7, <1>8

LEMMA LeavePrint ==
  ASSUME IInv, PrintInv, stack # <<>>, Len(stack) = 1, Call = NotPrinting,
         stack' = <<>>, calls' = <<>>, cursor' = cursor
  PROVE  PrintInv'
<1>1. cursor \in line_width .. Limit - 1 /\ cursor \in Nat
  BY TopIdle, IdleSlow DEF PrintInv
<1> QED
  BY <1>1 DEF PrintInv

\* One step of printing takes call c and the cursor from at to d and to.
Put(c, at, d, to, text) ==
  \/ /\ c = NotPrinting /\ to = at
     /\ \E character \in text : d = With(Append(Updates[character], "check"))
  \/ /\ c.todo # <<>> /\ to = at
     /\ \E operand \in {"left", "right"} : d = Loaded(c, operand, at)
  \/ /\ c.todo \notin {<<>>, AtCheck} /\ Operands(Head(c.todo)) \subseteq DOMAIN c.loaded
     /\ to = Stored(Head(c.todo), c.loaded)
     /\ d = With(Tail(c.todo))
  \/ /\ c.todo = AtCheck /\ to = at
     /\ d = With(IF at >= Limit THEN Scroll ELSE <<>>)

LEMMA PutState ==
  ASSUME NEW c \in CallStates, NEW at, NEW d, NEW to, NEW text, text \subseteq DOMAIN Updates,
         Put(c, at, d, to, text), at \in Nat
  PROVE  /\ d \in CallStates
         /\ d.todo = <<>> => d = NotPrinting
<1>1. ASSUME NEW todo \in Texts, d = With(todo)
      PROVE  d \in CallStates /\ (d.todo = <<>> => d = NotPrinting)
  BY <1>1, WithState
<1>2. ASSUME NEW character \in text, d = With(Append(Updates[character], "check"))
      PROVE  d \in CallStates /\ (d.todo = <<>> => d = NotPrinting)
  <2>1. Append(Updates[character], "check") \in Texts
    BY <1>2, TextBegins DEF Texts
  <2> QED
    BY <1>1, <1>2, <2>1
<1>3. ASSUME NEW operand \in {"left", "right"}, d = Loaded(c, operand, at), c.todo # <<>>
      PROVE  d \in CallStates /\ d.todo # <<>>
  BY <1>3, LoadedState
<1>4. ASSUME c.todo \notin {<<>>, AtCheck}
      PROVE  Tail(c.todo) \in Texts
  <2>1. Tail(c.todo) \in {AtCheck, TrimLine, TrimTab, LineEnd, <<>>}
    BY <1>4, TextHeads DEF CallStates, Texts
  <2> QED
    BY <2>1 DEF Texts
<1>5. Scroll \in Texts /\ <<>> \in Texts
  BY DEF Texts
<1> QED
  BY <1>1, <1>2, <1>3, <1>4, <1>5 DEF Put

LEMMA BriskPut ==
  ASSUME NEW c \in CallStates, NEW at \in Nat, NEW d, NEW to, NEW text, text \subseteq DOMAIN Updates,
         Put(c, at, d, to, text), NEW low, NEW high, Bounds(low, high),
         Brisk(c, at, low, high), "return" \in text => low = line_width
  PROVE  to \in Nat /\ Brisk(d, to, low, high)
<1>1. ASSUME NEW character \in text, d = With(Append(Updates[character], "check")),
             c = NotPrinting
      PROVE  Brisk(d, at, low, high)
  BY <1>1, BriskBegin
<1>2. ASSUME NEW operand \in {"left", "right"}, d = Loaded(c, operand, at)
      PROVE  Brisk(d, at, low, high)
  BY <1>2, BriskLoad
<1>3. ASSUME c.todo \notin {<<>>, AtCheck}, Operands(Head(c.todo)) \subseteq DOMAIN c.loaded,
             to = Stored(Head(c.todo), c.loaded), d = With(Tail(c.todo))
      PROVE  to \in Nat /\ Brisk(d, to, low, high)
  BY <1>3, BriskStore
<1>4. ASSUME c.todo = AtCheck, d = With(IF at >= Limit THEN Scroll ELSE <<>>)
      PROVE  Brisk(d, at, low, high)
  BY <1>4, BriskCheck
<1> QED
  BY <1>1, <1>2, <1>3, <1>4 DEF Put

LEMMA SlowPut ==
  ASSUME NEW c \in CallStates, NEW at \in Nat, NEW d, NEW to,
         Put(c, at, d, to, {"printable", "newline"}), SlowAt(c, at)
  PROVE  to \in Nat /\ SlowAt(d, to)
<1>1. ASSUME NEW character \in {"printable", "newline"},
             d = With(Append(Updates[character], "check")), c = NotPrinting
      PROVE  SlowAt(d, at)
  BY <1>1, SlowBegin
<1>2. ASSUME NEW operand \in {"left", "right"}, d = Loaded(c, operand, at)
      PROVE  SlowAt(d, at)
  BY <1>2, SlowLoad
<1>3. ASSUME c.todo \notin {<<>>, AtCheck}, Operands(Head(c.todo)) \subseteq DOMAIN c.loaded,
             to = Stored(Head(c.todo), c.loaded), d = With(Tail(c.todo))
      PROVE  to \in Nat /\ SlowAt(d, to)
  BY <1>3, SlowStore DEF SlowAt
<1>4. ASSUME c.todo = AtCheck, d = With(IF at >= Limit THEN Scroll ELSE <<>>)
      PROVE  SlowAt(d, at)
  BY <1>4, SlowCheck
<1> QED
  BY <1>1, <1>2, <1>3, <1>4 DEF Put

\* putchar takes such a step.
LEMMA PutcharPuts ==
  ASSUME IInv, PrintInv, stack # <<>>, NEW text, putchar(text)
  PROVE  \E d : Put(Call, cursor, d, cursor', text) /\ Proceed(d)
<1>1. Call.todo = <<>> => Call = NotPrinting
  BY CallsShape DEF PrintInv
<1>2. ASSUME NEW character \in text, PutBegin(character)
      PROVE  \E d : Put(Call, cursor, d, cursor', text) /\ Proceed(d)
  <2>1. PICK d : d = With(Append(Updates[character], "check"))
    OBVIOUS
  <2>2. Proceed(d) /\ cursor' = cursor /\ Call = NotPrinting
    BY <1>1, <1>2, <2>1 DEF PutBegin, With
  <2>3. Put(Call, cursor, d, cursor', text)
    BY <2>1, <2>2 DEF Put
  <2> QED
    BY <2>2, <2>3
<1>3. ASSUME NEW operand \in {"left", "right"}, Load(operand)
      PROVE  \E d : Put(Call, cursor, d, cursor', text) /\ Proceed(d)
  <2>1. PICK d : d = Loaded(Call, operand, cursor)
    OBVIOUS
  <2>2. Proceed(d) /\ cursor' = cursor /\ Call.todo # <<>>
    BY <1>3, <2>1 DEF Load, Loaded, Pending
  <2>3. Put(Call, cursor, d, cursor', text)
    BY <2>1, <2>2 DEF Put
  <2> QED
    BY <2>2, <2>3
<1>4. ASSUME Store
      PROVE  \E d : Put(Call, cursor, d, cursor', text) /\ Proceed(d)
  <2>1. PICK d : d = With(Tail(Call.todo))
    OBVIOUS
  <2>2. /\ Call.todo \notin {<<>>, AtCheck}
        /\ Operands(Head(Call.todo)) \subseteq DOMAIN Call.loaded
    BY <1>4 DEF Store, Pending, AtCheck
  <2>3. cursor' = Stored(Head(Call.todo), Call.loaded) /\ Proceed(d)
    BY <1>4, <2>1 DEF Store, With
  <2>4. Put(Call, cursor, d, cursor', text)
    BY <2>1, <2>2, <2>3 DEF Put
  <2> QED
    BY <2>3, <2>4
<1>5. ASSUME Check
      PROVE  \E d : Put(Call, cursor, d, cursor', text) /\ Proceed(d)
  <2>1. PICK d : d = With(IF cursor >= Limit THEN Scroll ELSE <<>>)
    OBVIOUS
  <2>2. Call.todo = AtCheck /\ cursor' = cursor /\ Proceed(d)
    BY <1>5, <2>1 DEF Check, With, AtCheck, AtEnd, Scroll
  <2>3. Put(Call, cursor, d, cursor', text)
    BY <2>1, <2>2 DEF Put
  <2> QED
    BY <2>2, <2>3
<1> QED
  BY <1>2, <1>3, <1>4, <1>5 DEF putchar

LEMMA PrintingPrint ==
  ASSUME IInv, PendingInv, PrintInv, Printing
  PROVE  PrintInv'
<1>1. /\ stack # <<>> /\ Head(Top.todo) = "print" /\ ds # NullSegment
      /\ stack' = stack /\ ds' = ds /\ putchar(Text)
  BY DEF Printing, At, machine
<1>2. PICK d : Put(Call, cursor, d, cursor', Text) /\ Proceed(d)
  BY <1>1, PutcharPuts
<1>3. PICK n \in Nat \ {0} :
         /\ n = Len(stack) /\ n = Len(calls) /\ DOMAIN stack = 1..n
         /\ 1 \in 1..n /\ n \in 1..n /\ Call = calls[n] /\ Call \in CallStates
  BY <1>1, CallsShape
<1>4. cursor \in Nat /\ calls \in Seq(CallStates)
  BY DEF PrintInv
<1>5. /\ DOMAIN Updates = {"printable", "newline", "tab", "return"}
      /\ Text \subseteq DOMAIN Updates
      /\ ~call.pending => Text = {"printable", "newline"}
  BY TextBegins DEF Text
<1>6. d \in CallStates /\ (d.todo = <<>> => d = NotPrinting)
  BY <1>2, <1>3, <1>4, <1>5, PutState
<1>7. /\ calls' \in Seq(CallStates) /\ Len(calls') = n
      /\ \A k \in 1..n : calls'[k] = IF k = n THEN d ELSE calls[k]
  BY <1>2, <1>3, <1>4, <1>6, ExceptSeq DEF Proceed
<1>8. \A k \in DOMAIN stack' :
         /\ calls'[k].todo = <<>> => calls'[k] = NotPrinting
         /\ calls'[k] # NotPrinting => Head(stack'[k].todo) = "print" /\ ds' # NullSegment
         /\ 1 < k /\ k < Len(stack') => calls'[k] = NotPrinting
  BY <1>1, <1>3, <1>6, <1>7 DEF PrintInv, Top
<1>9. stack[1].isr \in Open => ~call.pending
  BY DEF PendingInv, Open
<1>10. CASE n = 1 /\ stack[1].isr \in Open
  <2>1. SlowAt(Call, cursor)
    BY <1>3, <1>10 DEF PrintInv
  <2>2. cursor' \in Nat /\ SlowAt(d, cursor')
    BY <1>2, <1>3, <1>4, <1>5, <1>9, <1>10, <2>1, SlowPut
  <2>3. calls'[1] = d
    BY <1>3, <1>7, <1>10
  <2> QED
    BY <1>1, <1>3, <1>7, <1>8, <1>10, <2>2, <2>3 DEF PrintInv
<1>11. CASE n = 1 /\ stack[1].isr \notin Open
  <2>1. Brisk(Call, cursor, line_width, Limit - 1) /\ Bounds(line_width, Limit - 1)
    BY <1>3, <1>11 DEF PrintInv, Bounds
  <2>2. cursor' \in Nat /\ Brisk(d, cursor', line_width, Limit - 1)
    BY <1>2, <1>3, <1>4, <1>5, <2>1, BriskPut
  <2>3. calls'[1] = d
    BY <1>3, <1>7, <1>11
  <2> QED
    BY <1>1, <1>3, <1>7, <1>8, <1>11, <2>2, <2>3 DEF PrintInv
<1>12. CASE n > 1
  <2>1. PICK low, high : low = Low(calls[1].todo) /\ high = High(calls[1].todo)
    OBVIOUS
  <2>2. Bounds(low, high)
    BY <2>1, Ranges DEF Bounds
  <2>3. /\ Slow(calls[1]) /\ Brisk(Call, cursor, low, high)
        /\ stack[1].isr \notin Open => calls[1] = NotPrinting
    BY <1>3, <1>12, <2>1 DEF PrintInv
  <2>4. "return" \in Text => low = line_width
    BY <1>5, <1>9, <2>1, <2>3, IdleSlow, Ranges
  <2>5. cursor' \in Nat /\ Brisk(d, cursor', low, high)
    BY <1>2, <1>3, <1>4, <1>5, <2>2, <2>3, <2>4, BriskPut
  <2>6. calls'[1] = calls[1] /\ calls'[n] = d
    BY <1>3, <1>7, <1>12
  <2> QED
    BY <1>1, <1>3, <1>7, <1>8, <1>12, <2>1, <2>3, <2>5, <2>6 DEF PrintInv
<1> QED
  BY <1>3, <1>10, <1>11, <1>12

(***************************************************************************)
(* Where interrupts can come                                               *)
(***************************************************************************)

\* The top activation goes on, with interrupts enabled only where it was or
\* by sti.
LEMMA MoveInts ==
  ASSUME IInv, IntsInv, NEW todo, Moved(todo),
         ints' => ints \/ Top.isr = "kernel_initialize",
         Head(Top.todo) = "cli" => ~ints',
         ds # NullSegment => ds' # NullSegment,
         Head(Top.todo) = "ds_kernel" => ds' # NullSegment,
         Top.isr \in Open => Top.todo # Ret /\ todo # SegHlt
  PROVE  IntsInv'
<1>1. /\ Len(stack) \in Nat \ {0} /\ Len(stack') = Len(stack) /\ stack # <<>> /\ stack' # <<>>
      /\ DOMAIN stack = 1..Len(stack) /\ DOMAIN stack' = 1..Len(stack)
      /\ stack'[1].isr = stack[1].isr
      /\ Len(stack) # 1 => stack'[1].todo = stack[1].todo
      /\ \A k \in 1..Len(stack) : stack'[k].ints = stack[k].ints
  BY DEF Moved
<1>2. Len(stack) = 1 => Top = stack[1]
  BY DEF Top
<1>3. Top.isr = "kernel_initialize" => Len(stack) = 1
  BY <1>1, TopAlone DEF IInv
<1>4. ints' => Len(stack') = 1 /\ OpenAt(stack'[1].isr, stack'[1].todo)
  <2> SUFFICES ASSUME ints'
               PROVE  Len(stack') = 1 /\ OpenAt(stack'[1].isr, stack'[1].todo)
    OBVIOUS
  <2>1. Len(stack) = 1
    BY <1>1, <1>3 DEF IntsInv
  <2>2. stack[1].isr \in Open
    BY <1>1, <1>2, <2>1 DEF IntsInv, OpenAt, Open
  <2> QED
    BY <1>1, <2>1, <2>2 DEF OpenAt
<1>5. \A k \in DOMAIN stack' :
        k > 1 /\ stack'[k].ints => k = 2 /\ OpenAt(stack'[1].isr, stack'[1].todo)
  <2> SUFFICES ASSUME NEW k \in 1..Len(stack), k > 1, stack'[k].ints
               PROVE  k = 2 /\ OpenAt(stack'[1].isr, stack'[1].todo)
    BY <1>1
  <2>1. Len(stack) # 1 /\ stack[k].ints
    BY <1>1
  <2> QED
    BY <1>1, <2>1 DEF IntsInv
<1>6. stack'[1].isr \in Open /\ stack'[1].todo \notin {SegHlt, Ret} => ds' # NullSegment
  <2> SUFFICES ASSUME stack[1].isr \in Open, stack'[1].todo \notin {SegHlt, Ret}
               PROVE  ds' # NullSegment
    BY <1>1
  <2>1. CASE Len(stack) # 1
    BY <1>1, <2>1 DEF IntsInv
  <2>2. CASE Len(stack) = 1
    <3>1. stack[1].todo # Ret
      BY <1>2, <2>2
    <3>2. stack[1].todo = SegHlt => Head(Top.todo) = "ds_kernel"
      BY <1>2, <2>2, Heads
    <3> QED
      BY <1>1, <3>1, <3>2 DEF IntsInv
  <2> QED
    BY <2>1, <2>2
<1> QED
  BY <1>4, <1>5, <1>6 DEF IntsInv

\* Something comes on top of kernel code.
LEMMA RiseInts ==
  ASSUME IInv, IntsInv, stack # <<>>,
         Len(stack') = Len(stack) + 1, DOMAIN stack' = 1..Len(stack) + 1,
         \A k \in 1..Len(stack) :
           /\ stack'[k].isr = stack[k].isr /\ stack'[k].ints = stack[k].ints
           /\ stack'[k].todo = stack[k].todo \/ (k = Len(stack) /\ stack[k].todo = Hlt /\ stack'[k].todo = Ret),
         stack'[Len(stack) + 1].ints => ints,
         ~ints', ds' = ds
  PROVE  IntsInv'
<1>1. PICK n \in Nat \ {0} : n = Len(stack) /\ DOMAIN stack = 1..n /\ 1 \in 1..n
  BY StackTop DEF IInv
<1>2. /\ stack'[1].isr = stack[1].isr
      /\ stack'[1].todo = stack[1].todo \/ (n = 1 /\ stack[1].todo = Hlt /\ stack'[1].todo = Ret)
  BY <1>1
<1>3. OpenAt(stack[1].isr, stack[1].todo) => OpenAt(stack'[1].isr, stack'[1].todo)
  BY <1>2, Heads DEF OpenAt
<1>4. ASSUME NEW k \in 1..n + 1, k > 1, stack'[k].ints
      PROVE  k = 2 /\ OpenAt(stack'[1].isr, stack'[1].todo)
  <2>1. CASE k = n + 1
    <3>1. ints
      BY <1>1, <1>4, <2>1
    <3> QED
      BY <1>1, <1>3, <2>1, <3>1 DEF IntsInv
  <2>2. CASE k # n + 1
    <3>1. k \in 1..n /\ stack[k].ints
      BY <1>1, <1>4, <2>2
    <3> QED
      BY <1>1, <1>3, <1>4, <3>1 DEF IntsInv
  <2> QED
    BY <2>1, <2>2
<1>5. stack'[1].isr \in Open /\ stack'[1].todo \notin {SegHlt, Ret} => ds' # NullSegment
  BY <1>2 DEF IntsInv
<1> QED
  BY <1>1, <1>4, <1>5 DEF IntsInv

(***************************************************************************)
(* The three parts together                                                *)
(***************************************************************************)

ConsoleInv == IntsInv /\ PendingInv /\ PrintInv

Called == InCall \cup {Sched, PrintDead, CliDead, Dead}

LEMMA MoveConsole ==
  ASSUME IInv, ConsoleInv, NEW todo, Moved(todo), UNCHANGED <<cursor, calls>>,
         Call = NotPrinting,
         ints' => ints \/ Top.isr = "kernel_initialize",
         Head(Top.todo) = "cli" => ~ints',
         ds # NullSegment => ds' # NullSegment,
         Head(Top.todo) = "ds_kernel" => ds' # NullSegment,
         Top.isr \in Open => Top.todo # Ret /\ todo # SegHlt,
         call'.pending /\ Len(stack) # 1 => call.pending,
         call'.pending /\ Len(stack) = 1 => Top.isr = "isr_syscall" /\ todo \in Called
  PROVE  ConsoleInv'
<1>1. IntsInv'
  BY MoveInts DEF ConsoleInv
<1>2. PendingInv'
  <2>1. /\ stack' # <<>> /\ stack'[1].isr = stack[1].isr
        /\ stack'[1].todo = IF Len(stack) = 1 THEN todo ELSE stack[1].todo
    BY DEF Moved
  <2>2. Len(stack) = 1 => Top = stack[1]
    BY DEF Top
  <2> QED
    BY <2>1, <2>2 DEF ConsoleInv, PendingInv, Called
<1>3. PrintInv'
  BY MovePrint DEF ConsoleInv
<1> QED
  BY <1>1, <1>2, <1>3 DEF ConsoleInv

\* A fault or an interrupt in kernel code.
LEMMA PushConsole ==
  ASSUME IInv, ConsoleInv, stack # <<>>, NEW vector, Through(vector, stack),
         idt[vector].isr \in {"isr_generic", "isr_timer"} \cup Faults,
         ~ints \/ idt[vector].type = "INT32",
         Len(stack) > 1 \/ stack[1].isr \notin Open => Call = NotPrinting,
         call'.pending => call.pending
  PROVE  ConsoleInv'
<1>1. idt[vector].isr \in Isrs
  BY DEF Isrs, Quiet, Faults, Halting
<1>2. PICK act \in Activations :
         act = Activation(idt[vector].isr, UserMode) /\ act.ints = ints
  BY <1>1, GateActivation
<1>3. Pushed(act)
  BY <1>2, AppendPushes DEF Through, IInv
<1>4. /\ Len(stack) \in Nat \ {0} /\ Len(stack) \in 1..Len(stack) /\ 1 \in 1..Len(stack)
  BY StackTop DEF IInv
<1>5. /\ stack' # <<>>
      /\ Len(stack') = Len(stack) + 1 /\ DOMAIN stack' = 1..Len(stack) + 1
      /\ \A k \in 1..Len(stack) : stack'[k] = stack[k]
      /\ stack'[Len(stack) + 1] = act
  BY <1>3 DEF Pushed
<1>6. ~ints' /\ UNCHANGED <<cursor, ds>> /\ calls' = Append(calls, NotPrinting)
  BY DEF Through
<1>7. IntsInv'
  BY <1>2, <1>5, <1>6, RiseInts DEF ConsoleInv
<1>8. PendingInv'
  BY <1>4, <1>5 DEF ConsoleInv, PendingInv
<1>9. Risen
  BY <1>5, <1>6 DEF Risen
<1>10. PrintInv'
  BY <1>4, <1>9, RisePrint DEF ConsoleInv
<1> QED
  BY <1>7, <1>8, <1>10 DEF ConsoleInv

\* A process comes into the kernel.
LEMMA EnterConsole ==
  ASSUME IInv, ConsoleInv, stack = <<>>, NEW vector, Through(vector, stack),
         idt[vector].isr \in Isrs \ {"kernel_initialize"},
         idt[vector].isr \in Halting \/ idt[vector].type = "INT32",
         UNCHANGED dispatch
  PROVE  ConsoleInv'
<1>1. PICK act \in Activations :
         /\ act = Activation(idt[vector].isr, UserMode) /\ act.isr = idt[vector].isr
         /\ Fresh(act.isr, act.todo)
  BY GateActivation
<1>2. Pushed(act)
  BY <1>1, AppendPushes DEF Through, IInv
<1>3. Len(stack) = 0
  OBVIOUS
<1>4. /\ stack' # <<>> /\ Len(stack') = 1 /\ DOMAIN stack' = 1..1 /\ stack'[1] = act
  BY <1>2, <1>3 DEF Pushed
<1>5. UNCHANGED <<cursor, ds>> /\ calls' = Append(calls, NotPrinting)
  BY DEF Through
<1>6. act.isr \in Halting => /\ OpenAt(act.isr, act.todo)
                             /\ act.isr \in Open => act.todo = SegHlt
  <2>1. act.todo = Steps[act.isr]
    BY <1>1 DEF Activation, Activations
  <2>2. /\ Steps["isr_segment_not_present"] = CliHlt
        /\ Steps["isr_gp_fault"] = CliSegHlt
        /\ Steps["isr_page_fault"] = SegHlt
    BY DEF Steps, CliHlt, CliSegHlt, SegHlt
  <2> QED
    BY <2>1, <2>2, Heads DEF Halting, OpenAt, Open
<1>7. act.isr \in Open => act.isr \in Halting
  BY <1>1 DEF Open, Halting
<1>8. ints' => act.isr \in Halting
  BY <1>1 DEF Through
<1>9. IntsInv'
  BY <1>4, <1>6, <1>7, <1>8 DEF IntsInv
<1>10. PendingInv'
  BY DEF ConsoleInv, PendingInv, dispatch
<1>11. Risen
  BY <1>3, <1>4, <1>5 DEF Risen
<1>12. PrintInv'
  BY <1>3, <1>11, RisePrint DEF ConsoleInv
<1> QED
  BY <1>9, <1>10, <1>12 DEF ConsoleInv

\* The handlers that print with interrupts enabled load ds first.
LEMMA OpenPlan ==
  ASSUME NEW isr, NEW todo, Planned(isr, todo), isr \in Open, todo # Ret
  PROVE  Tail(todo) # SegHlt
<1>1. todo \in {SegHlt, PrintHlt, Hlt, Syscalls, Modules, StiSched, Sched} \cup Leaving
  BY DEF Planned, Open, Quiet
<1>2. Tail(todo) \in {PrintHlt, Hlt, Ret, Modules, StiSched, Sched, LoadOnly, CliDead, Dead, <<>>}
  BY <1>1, Tails DEF Leaving
<1> QED
  BY <1>2, Heads

LEMMA CalledHeads ==
  ASSUME NEW todo \in Called
  PROVE  /\ Head(todo) \in {"print", "function", "return", "advance", "cli", "halt"}
         /\ Head(todo) = "cli" => todo = CliDead /\ Tail(todo) \in Called
         /\ Head(todo) = "print" => Tail(todo) \in Called
<1>1. todo \in {InPrint, InFunction, InReturn, Sched, PrintDead, CliDead, Dead}
  BY DEF Called, InCall
<1>2. /\ Head(todo) \in {"print", "function", "return", "advance", "cli", "halt"}
      /\ Head(todo) = "cli" => todo = CliDead
      /\ Head(todo) = "print" => todo \in {InPrint, PrintDead}
  BY <1>1, Heads
<1> QED
  BY <1>2, Tails DEF Called, InCall

\* Nothing is pending where the places in the code say so.
LEMMA PendingTop ==
  ASSUME IInv, ConsoleInv, stack # <<>>, Len(stack) = 1, call.pending
  PROVE  Top.isr = "isr_syscall" /\ Top.todo \in Called
BY DEF ConsoleInv, PendingInv, Top, Called

LEMMA FlagConsole ==
  ASSUME IInv, ConsoleInv, Flag
  PROVE  ConsoleInv'
<1> DEFINE next == Tail(Top.todo)
<1>1. /\ stack # <<>> /\ Planned(Top.isr, Top.todo) /\ Head(Top.todo) \in {"cli", "sti"}
  BY AtTop DEF Flag
<1>2. Planned(Top.isr, next)
  <2>1. CASE At("cli")
    BY <2>1, AtTop, PlanCli
  <2>2. CASE At("sti")
    <3>1. Top.isr = "kernel_initialize" /\ next = Sched
      BY <2>2, AtTop, PlanOnce, Tails
    <3> QED
      BY <3>1 DEF Planned
  <2> QED
    BY <2>1, <2>2 DEF Flag
<1>3. Moved(next)
  BY <1>1, <1>2, PlannedMoves DEF Flag, Advance
<1>4. Call = NotPrinting
  BY <1>1, TopIdle DEF ConsoleInv
<1>5. /\ ints' => Top.isr = "kernel_initialize"
      /\ Head(Top.todo) = "cli" => ~ints'
  BY <1>1, PlanOnce DEF Flag, At
<1>6. Top.todo # Ret
  BY <1>1, Heads
<1>7. Top.isr \in Open => next # SegHlt
  BY <1>1, <1>6, OpenPlan
<1>8. call.pending /\ Len(stack) = 1 => Top.isr = "isr_syscall" /\ next \in Called
  BY <1>1, PendingTop, CalledHeads
<1>9. UNCHANGED <<cursor, calls>> /\ ds' = ds /\ call' = call
  BY DEF Flag, console, dispatch
<1> HIDE DEF next
<1> QED
  BY <1>1, <1>3, <1>4, <1>5, <1>6, <1>7, <1>8, <1>9, MoveConsole

LEMMA SegmentsConsole ==
  ASSUME IInv, ConsoleInv, Segments
  PROVE  ConsoleInv'
<1> DEFINE next == Tail(Top.todo)
<1>1. /\ stack # <<>> /\ Planned(Top.isr, Top.todo) /\ Head(Top.todo) \in {"ds_kernel", "ds_user"}
  BY AtTop DEF Segments
<1>2. Planned(Top.isr, next)
  <2>1. CASE At("ds_kernel")
    BY <2>1, AtTop, PlanSegment
  <2>2. CASE At("ds_user")
    <3>1. Top.isr = "isr_syscall" /\ next = Ret
      BY <2>2, AtTop, PlanOnce, Tails
    <3> QED
      BY <3>1 DEF Planned
  <2> QED
    BY <2>1, <2>2 DEF Segments
<1>3. Moved(next)
  BY <1>1, <1>2, PlannedMoves DEF Segments, Advance
<1>4. Call = NotPrinting
  BY <1>1, TopIdle DEF ConsoleInv
<1>5. ds' # NullSegment
  BY DEF Segments, KernelData, UserData, NullSegment
<1>6. Top.todo # Ret
  BY <1>1, Heads
<1>7. Top.isr \in Open => next # SegHlt
  BY <1>1, <1>6, OpenPlan
<1>8. ~(call.pending /\ Len(stack) = 1)
  BY <1>1, PendingTop, CalledHeads
<1>9. UNCHANGED <<cursor, calls>> /\ ints' = ints /\ call' = call
  BY DEF Segments, console, dispatch
<1> HIDE DEF next
<1> QED
  BY <1>1, <1>3, <1>4, <1>5, <1>6, <1>7, <1>8, <1>9, MoveConsole

LEMMA PrintedConsole ==
  ASSUME IInv, ConsoleInv, Printed
  PROVE  ConsoleInv'
<1> DEFINE next == Tail(Top.todo)
<1>1. /\ stack # <<>> /\ Planned(Top.isr, Top.todo) /\ Head(Top.todo) = "print"
      /\ Planned(Top.isr, next)
  BY AtTop, PlanPrint DEF Printed
<1>2. Moved(next)
  BY <1>1, PlannedMoves DEF Printed, Advance
<1>3. Call = NotPrinting
  BY <1>1, TopIdle DEF ConsoleInv, Printed
<1>4. Top.todo # Ret
  BY <1>1, Heads
<1>5. Top.isr \in Open => next # SegHlt
  BY <1>1, <1>4, OpenPlan
<1>6. call.pending /\ Len(stack) = 1 => Top.isr = "isr_syscall" /\ next \in Called
  BY <1>1, PendingTop, CalledHeads
<1>7. UNCHANGED <<cursor, calls>> /\ ints' = ints /\ ds' = ds /\ call' = call
  BY DEF Printed, console, dispatch
<1> HIDE DEF next
<1> QED
  BY <1>1, <1>2, <1>3, <1>4, <1>5, <1>6, <1>7, MoveConsole

\* Nothing that the invariant is about changes.
LEMMA StillConsole ==
  ASSUME ConsoleInv, UNCHANGED <<stack, calls, cursor, ints, ds, call>>
  PROVE  ConsoleInv'
<1>1. IntsInv' /\ PendingInv'
  BY DEF ConsoleInv, IntsInv, PendingInv
<1>2. PrintInv'
  BY DEF ConsoleInv, PrintInv
<1> QED
  BY <1>1, <1>2 DEF ConsoleInv

\* A system call, a yield or kernel_initialize goes on.
LEMMA AloneConsole ==
  ASSUME IInv, ConsoleInv, stack # <<>>, Top.isr \in Entered \cup {"kernel_initialize"},
         Head(Top.todo) \notin {"print", "cli", "ds_kernel", "iret"},
         NEW todo, todo # SegHlt, Moved(todo),
         UNCHANGED <<cursor, calls, ints, ds>>,
         call'.pending => Top.isr = "isr_syscall" /\ todo \in Called
  PROVE  ConsoleInv'
<1>1. Len(stack) = 1
  BY TopAlone DEF IInv
<1>2. Call = NotPrinting
  BY TopIdle DEF ConsoleInv
<1>3. Top.todo # Ret
  BY Heads
<1> QED
  BY <1>1, <1>2, <1>3, MoveConsole

LEMMA SetSyscallsConsole ==
  ASSUME IInv, ConsoleInv, SetSyscalls
  PROVE  ConsoleInv'
<1> DEFINE missing == {id \in SyscallIds : ~syscall_table[id].defined}
           first == CHOOSE id \in missing : \A other \in missing : id <= other
<1>1. /\ stack # <<>> /\ Top.isr = "kernel_initialize" /\ Top.todo = Syscalls
      /\ Head(Top.todo) = "set_syscalls" /\ Tail(Top.todo) = Modules
  BY AtTop, PlanOnce, Tails DEF SetSyscalls
<1>2. CASE set_syscall(first, 1, 0, Code) /\ UNCHANGED <<console, machine>>
  BY <1>2, StillConsole DEF set_syscall, console, machine
<1>3. CASE Advance /\ UNCHANGED <<dispatch, console, ints, ds, flags, own, woken>>
  <2>1. Moved(Modules)
    BY <1>1, <1>3, PlannedMoves DEF Advance, Planned
  <2>2. ~call.pending
    BY <1>1, TopAlone, PendingTop DEF IInv
  <2>3. UNCHANGED <<cursor, calls, ints, ds>> /\ call' = call
    BY <1>3 DEF console, dispatch
  <2> QED
    BY <1>1, <2>1, <2>2, <2>3, Heads, AloneConsole
<1> QED
  BY <1>2, <1>3 DEF SetSyscalls

LEMMA LoadModulesConsole ==
  ASSUME IInv, ConsoleInv, LoadModules
  PROVE  ConsoleInv'
<1>1. /\ stack # <<>> /\ Top.isr = "kernel_initialize" /\ Top.todo = Modules
      /\ Head(Top.todo) = "load_modules" /\ Tail(Top.todo) = StiSched
  BY AtTop, PlanOnce, Tails DEF LoadModules
<1>2. Moved(StiSched)
  BY <1>1, PlannedMoves DEF LoadModules, Advance, Planned
<1>3. ~call.pending
  BY <1>1, TopAlone, PendingTop DEF IInv
<1>4. UNCHANGED <<cursor, calls, ints, ds>> /\ call' = call
  BY DEF LoadModules, console
<1> QED
  BY <1>1, <1>2, <1>3, <1>4, Heads, AloneConsole

LEMMA StoreContextConsole ==
  ASSUME IInv, ConsoleInv, StoreContext
  PROVE  ConsoleInv'
<1>1. /\ stack # <<>> /\ Top.isr = "isr_preempt" /\ Top.todo = StoreSched
      /\ Head(Top.todo) = "store" /\ Tail(Top.todo) = Sched
  BY AtTop, PlanOnce, Tails DEF StoreContext
<1>2. Moved(Sched)
  BY <1>1, PlannedMoves DEF StoreContext, Advance, Planned
<1>3. ~call.pending
  BY <1>1, TopAlone, PendingTop DEF IInv, Entered
<1>4. UNCHANGED <<cursor, calls, ints, ds>> /\ call' = call
  BY DEF StoreContext, console, dispatch
<1> QED
  BY <1>1, <1>2, <1>3, <1>4, Heads, AloneConsole DEF Entered

LEMMA LeaveConsole ==
  ASSUME IInv, ConsoleInv, stack # <<>>, Len(stack) = 1, Head(Top.todo) \in {"iret", "load_context"},
         stack' = <<>>, calls' = <<>>, cursor' = cursor, call' = call
  PROVE  ConsoleInv'
<1>1. Call = NotPrinting
  BY TopIdle DEF ConsoleInv
<1>2. ~call.pending
  BY PendingTop, CalledHeads
<1>3. IntsInv' /\ PendingInv'
  BY <1>2 DEF IntsInv, PendingInv
<1>4. PrintInv'
  BY <1>1, LeavePrint DEF ConsoleInv
<1> QED
  BY <1>3, <1>4 DEF ConsoleInv

LEMMA LoadContextConsole ==
  ASSUME IInv, ConsoleInv, load_context
  PROVE  ConsoleInv'
<1>1. /\ stack # <<>> /\ Top.isr \in Entered \cup {"kernel_initialize"}
      /\ Head(Top.todo) = "load_context"
  BY AtTop, PlanOnce DEF load_context
<1>2. Len(stack) = 1
  BY <1>1, TopAlone DEF IInv
<1>3. stack' = <<>> /\ calls' = <<>> /\ cursor' = cursor /\ call' = call
  BY DEF load_context, ToUser, dispatch
<1> QED
  BY <1>1, <1>2, <1>3, LeaveConsole

LEMMA IretConsole ==
  ASSUME IInv, ConsoleInv, Iret
  PROVE  ConsoleInv'
<1>1. /\ stack # <<>> /\ Head(Top.todo) = "iret" /\ Top.todo = Ret
      /\ Top.isr \in Quiet \cup Halting \cup {"isr_syscall"}
  BY AtTop, PlanOnce DEF Iret
<1>2. call' = call
  BY DEF Iret, dispatch
<1>3. CASE Top.user
  <2>1. Len(stack) = 1
    BY <1>1, <1>3, TopPlanned DEF IInv
  <2>2. stack' = <<>> /\ calls' = <<>> /\ cursor' = cursor
    BY <1>3 DEF Iret, ToUser
  <2> QED
    BY <1>1, <1>2, <2>1, <2>2, LeaveConsole
<1>4. CASE ~Top.user
  <2>1. /\ stack' = Front(stack) /\ calls' = Front(calls) /\ ints' = Top.ints
        /\ UNCHANGED <<cursor, ds>>
    BY <1>4 DEF Iret
  <2>2. PICK n \in Nat \ {0} : Len(stack) = n + 1
    <3>1. Len(stack) # 1 /\ Len(stack) \in Nat \ {0}
      BY <1>1, <1>4, TopPlanned, StackTop DEF IInv, Quiet, Halting
    <3>2. Len(stack) - 1 \in Nat \ {0} /\ Len(stack) = (Len(stack) - 1) + 1
      BY <3>1
    <3> QED
      BY <3>2
  <2>3. DOMAIN stack = 1..n + 1 /\ stack \in Seq(Activations)
    BY <1>1, <2>2, StackTop DEF IInv, TypeInv
  <2>4. /\ Len(stack') = n /\ DOMAIN stack' = 1..n
        /\ \A k \in 1..n : stack'[k] = stack[k]
    <3>1. stack' = SubSeq(stack, 1, n)
      BY <2>1, <2>2 DEF Front
    <3>2. \A k \in 1..n : stack[k] \in Activations
      BY <2>3
    <3>3. /\ stack' \in Seq(Activations) /\ Len(stack') = n
          /\ \A k \in 1..n : stack'[k] = stack[k]
      BY <3>1, <3>2, SubSeqProperties
    <3> QED
      BY <3>3
  <2>5. Call = NotPrinting
    BY <1>1, TopIdle DEF ConsoleInv
  <2>6. PrintInv'
    BY <1>1, <2>1, <2>2, <2>4, <2>5, PopPrint DEF ConsoleInv
  <2>7. stack' # <<>> /\ stack'[1] = stack[1] /\ 1 \in 1..n
    BY <2>4
  <2>8. PendingInv'
    BY <1>2, <2>7 DEF ConsoleInv, PendingInv
  <2>9. IntsInv'
    <3>1. Top.ints => n = 1 /\ OpenAt(stack[1].isr, stack[1].todo)
      BY <2>2, <2>3 DEF Top, ConsoleInv, IntsInv
    <3>2. \A k \in 1..n : k > 1 /\ stack[k].ints => k = 2 /\ OpenAt(stack[1].isr, stack[1].todo)
      BY <2>3 DEF ConsoleInv, IntsInv
    <3>3. stack[1].isr \in Open /\ stack[1].todo \notin {SegHlt, Ret} => ds # NullSegment
      BY <1>1 DEF ConsoleInv, IntsInv
    <3> QED
      BY <2>1, <2>4, <2>7, <3>1, <3>2, <3>3 DEF IntsInv
  <2> QED
    BY <2>6, <2>8, <2>9 DEF ConsoleInv
<1> QED
  BY <1>3, <1>4

\* A fault in a system call or yield.
LEMMA FaultConsole ==
  ASSUME IInv, ConsoleInv, stack # <<>>, Top.isr \in Entered, Head(Top.todo) # "print",
         KernelFault(EXCEPTION_PAGE_FAULT), call' = call
  PROVE  ConsoleInv'
<1>1. Len(stack) = 1 /\ Top = stack[1]
  BY TopAlone DEF IInv, Entered
<1>2. ~ints
  BY <1>1 DEF IInv, ClosedInv, Entering, Entered
<1>3. Call = NotPrinting
  BY TopIdle DEF ConsoleInv
<1>4. idt[EXCEPTION_PAGE_FAULT].isr \in Faults
  BY Gates DEF Faults
<1> QED
  BY <1>2, <1>3, <1>4, PushConsole DEF KernelFault

LEMMA AdvanceConsole ==
  ASSUME IInv, ConsoleInv, AdvanceScheduler
  PROVE  ConsoleInv'
<1>1. /\ stack # <<>> /\ Top.isr \in Entered \cup {"kernel_initialize"} /\ Top.todo = Sched
      /\ Head(Top.todo) = "advance" /\ Tail(Top.todo) = LoadOnly
  BY AtTop, PlanOnce, Tails DEF AdvanceScheduler
<1>2. /\ Planned(Top.isr, PrintLoad) /\ PrintLoad # SegHlt
      /\ Planned(Top.isr, PrintDead) /\ PrintDead # SegHlt
  BY <1>1, Heads DEF Planned, Entered, Leaving
<1>3. ASSUME UNCHANGED <<console, ints, ds, flags, own, woken>>
      PROVE  UNCHANGED <<cursor, calls, ints, ds>>
  BY <1>3 DEF console
<1>4. CASE /\ EnterProcess /\ GoOn(<<"print">> \o Tail(Top.todo))
           /\ UNCHANGED <<console, ints, ds, flags, own, woken>>
  <2>1. Moved(PrintLoad)
    BY <1>1, <1>2, <1>4, Prefixed, PlannedMoves
  <2>2. ~call'.pending
    BY <1>4 DEF EnterProcess, NoCall
  <2> QED
    BY <1>1, <1>2, <1>3, <1>4, <2>1, <2>2, AloneConsole
<1>5. CASE /\ NoneReady /\ GoOn(panic)
           /\ UNCHANGED <<console, ints, ds, flags, own, woken>>
  <2>1. Moved(PrintDead)
    BY <1>1, <1>2, <1>5, PlannedMoves DEF panic, PrintDead
  <2>2. call'.pending => Top.isr = "isr_syscall"
    BY <1>1, <1>5, TopAlone, PendingTop DEF NoneReady, IInv
  <2>3. PrintDead \in Called
    BY DEF Called
  <2> QED
    BY <1>1, <1>2, <1>3, <1>5, <2>1, <2>2, <2>3, AloneConsole
<1>6. CASE Misplaced /\ UNCHANGED dispatch /\ KernelFault(EXCEPTION_PAGE_FAULT)
  <2>1. Top = stack[1]
    BY <1>1, TopAlone DEF IInv
  <2>2. Top.isr \in Entered
    BY <1>1, <1>6, <2>1 DEF IInv, SpaceInv, BootQueue
  <2> QED
    BY <1>1, <1>6, <2>2, FaultConsole DEF dispatch
<1> QED
  BY <1>4, <1>5, <1>6 DEF AdvanceScheduler

LEMMA DoSyscallConsole ==
  ASSUME IInv, ConsoleInv, DoSyscall
  PROVE  ConsoleInv'
<1>1. /\ stack # <<>> /\ Top.isr = "isr_syscall" /\ Top.todo = DoCall
      /\ Head(Top.todo) = "do_syscall" /\ Tail(Top.todo) = UserSeg
  BY AtTop, PlanOnce, Tails DEF DoSyscall
<1>2. /\ Planned("isr_syscall", UserSeg) /\ UserSeg # SegHlt
      /\ Planned("isr_syscall", InPrint) /\ InPrint # SegHlt
  BY Heads DEF Planned, InCall
<1>3. ~call.pending
  BY <1>1, TopAlone, PendingTop, CalledHeads DEF IInv, Entered
<1>4. PICK id \in 0..MAX_SYSCALL_ID + 1 :
       \/ /\ (NoSuchCall(id) /\ UNCHANGED dispatch) \/ StaleCall(id)
          /\ Advance
          /\ UNCHANGED <<console, ints, ds, flags, own, woken>>
       \/ /\ Dispatch(id)
          /\ GoOn(<<"print", "function", "return">> \o Tail(Top.todo))
          /\ flags' = StoreFlags
          /\ UNCHANGED <<console, ints, ds, own, woken>>
       \/ DispatchFaults(id) /\ KernelFault(EXCEPTION_PAGE_FAULT)
  BY DEF DoSyscall
<1>5. CASE /\ (NoSuchCall(id) /\ UNCHANGED dispatch) \/ StaleCall(id)
           /\ Advance
           /\ UNCHANGED <<console, ints, ds, flags, own, woken>>
  <2>1. Moved(UserSeg)
    BY <1>1, <1>2, <1>5, PlannedMoves DEF Advance
  <2>2. UNCHANGED <<cursor, calls, ints, ds>> /\ call' = call
    BY <1>5 DEF console, dispatch, StaleCall
  <2> QED
    BY <1>1, <1>2, <1>3, <2>1, <2>2, AloneConsole DEF Entered
<1>6. CASE /\ Dispatch(id)
           /\ GoOn(<<"print", "function", "return">> \o Tail(Top.todo))
           /\ flags' = StoreFlags
           /\ UNCHANGED <<console, ints, ds, own, woken>>
  <2>1. Moved(InPrint)
    BY <1>1, <1>2, <1>6, Prefixed, PlannedMoves
  <2>2. UNCHANGED <<cursor, calls, ints, ds>>
    BY <1>6 DEF console
  <2>3. InPrint \in Called
    BY DEF Called, InCall
  <2> QED
    BY <1>1, <1>2, <2>1, <2>2, <2>3, AloneConsole DEF Entered
<1>7. CASE DispatchFaults(id) /\ KernelFault(EXCEPTION_PAGE_FAULT)
  BY <1>1, <1>7, FaultConsole DEF DispatchFaults, Entered
<1> QED
  BY <1>4, <1>5, <1>6, <1>7

LEMMA FunctionConsole ==
  ASSUME IInv, ConsoleInv, Function
  PROVE  ConsoleInv'
<1>1. /\ stack # <<>> /\ Top.isr = "isr_syscall" /\ Top.todo = InFunction
      /\ Head(Top.todo) = "function" /\ Tail(Top.todo) = InReturn
  BY AtTop, PlanOnce, Tails DEF Function
<1>2. /\ Planned("isr_syscall", InReturn) /\ InReturn # SegHlt /\ InReturn \in Called
      /\ Planned("isr_syscall", Sched) /\ Sched # SegHlt /\ Sched \in Called
  BY Heads DEF Planned, InCall, Called
<1>3. CASE Advance /\ UNCHANGED <<console, ints, ds, flags, own, woken>>
  <2>1. Moved(InReturn)
    BY <1>1, <1>2, <1>3, PlannedMoves DEF Advance
  <2>2. UNCHANGED <<cursor, calls, ints, ds>>
    BY <1>3 DEF console
  <2> QED
    BY <1>1, <1>2, <2>1, <2>2, AloneConsole DEF Entered
<1>4. CASE GoOn(<<"advance", "load_context">>) /\ UNCHANGED <<console, ints, ds, flags, own, woken>>
  <2>1. Moved(Sched)
    BY <1>1, <1>2, <1>4, PlannedMoves DEF Sched
  <2>2. UNCHANGED <<cursor, calls, ints, ds>>
    BY <1>4 DEF console
  <2> QED
    BY <1>1, <1>2, <2>1, <2>2, AloneConsole DEF Entered
<1>5. CASE UNCHANGED dispatch /\ KernelFault(EXCEPTION_PAGE_FAULT)
  BY <1>1, <1>5, FaultConsole DEF dispatch, Entered
<1> QED
  BY <1>3, <1>4, <1>5 DEF Function

LEMMA ReturnConsole ==
  ASSUME IInv, ConsoleInv, ReturnFromFunction
  PROVE  ConsoleInv'
<1>1. /\ stack # <<>> /\ Top.isr = "isr_syscall" /\ Top.todo = InReturn
      /\ Head(Top.todo) = "return" /\ Tail(Top.todo) = UserSeg
  BY AtTop, PlanOnce, Tails DEF ReturnFromFunction
<1>2. Planned("isr_syscall", UserSeg) /\ UserSeg # SegHlt
  BY Heads DEF Planned
<1>3. CASE Return /\ Advance /\ UNCHANGED <<console, ints, ds, flags, own, woken>>
  <2>1. Moved(UserSeg)
    BY <1>1, <1>2, <1>3, PlannedMoves DEF Advance
  <2>2. UNCHANGED <<cursor, calls, ints, ds>> /\ ~call'.pending
    BY <1>3 DEF console, Return, NoCall
  <2> QED
    BY <1>1, <1>2, <2>1, <2>2, AloneConsole DEF Entered
<1>4. CASE ReturnFaults /\ KernelFault(EXCEPTION_PAGE_FAULT)
  BY <1>1, <1>4, FaultConsole DEF ReturnFaults, dispatch, Entered
<1> QED
  BY <1>3, <1>4 DEF ReturnFromFunction

LEMMA NullAccessConsole ==
  ASSUME IInv, ConsoleInv, NullAccess
  PROVE  ConsoleInv'
<1>1. PICK step \in Accessing : At(step)
  BY DEF NullAccess
<1>2. stack # <<>> /\ Head(Top.todo) = step /\ ds = NullSegment
  BY <1>1, AtTop DEF NullAccess
<1>3. Call = NotPrinting
  BY <1>2, TopIdle DEF ConsoleInv
<1>4. ~ints
  <2> SUFFICES ASSUME ints PROVE FALSE
    OBVIOUS
  <2>1. Len(stack) = 1 /\ OpenAt(stack[1].isr, stack[1].todo)
    BY <1>2 DEF ConsoleInv, IntsInv
  <2>2. Head(stack[1].todo) \in Accessing
    BY <1>2, <2>1 DEF Top
  <2>3. stack[1].isr \in Open /\ stack[1].todo \notin {SegHlt, Ret}
    BY <2>1, <2>2, Heads DEF OpenAt, Accessing
  <2> QED
    BY <1>2, <2>3 DEF ConsoleInv, IntsInv
<1>5. idt[EXCEPTION_GPF].isr \in Faults
  BY Gates DEF Faults
<1> QED
  BY <1>2, <1>3, <1>4, <1>5, PushConsole DEF NullAccess, KernelFault, dispatch

LEMMA FromUserConsole ==
  ASSUME IInv, ConsoleInv, FromUser
  PROVE  ConsoleInv'
<1>1. stack = <<>> /\ UNCHANGED dispatch
  BY DEF FromUser, UserMode
<1>2. ASSUME NEW vector \in {ISR_SYSCALL, ISR_PREEMPT, ISR_APIC_TIMER},
             Through(Software(vector), stack)
      PROVE  ConsoleInv'
  <2>1. Software(vector) \in {ISR_SYSCALL, ISR_PREEMPT, EXCEPTION_GPF}
    BY Gates DEF Software
  <2>2. PICK gate : gate = idt[Software(vector)]
    OBVIOUS
  <2>3. /\ gate.isr \in {"isr_syscall", "isr_preempt", "isr_gp_fault"}
        /\ gate.isr # "isr_gp_fault" => gate.type = "INT32"
    BY <2>1, <2>2, Gates
  <2>4. /\ gate.isr \in Isrs \ {"kernel_initialize"}
        /\ gate.isr \in Halting \/ gate.type = "INT32"
    BY <2>3 DEF Isrs, Halting, Entered
  <2> QED
    BY <1>1, <1>2, <2>2, <2>4, EnterConsole
<1>3. ASSUME NEW exception \in {EXCEPTION_DIV_BY_0, EXCEPTION_INVALID_OPCODE,
                                EXCEPTION_SEGMENT_NOT_PRESENT, EXCEPTION_GPF,
                                EXCEPTION_PAGE_FAULT},
             Through(exception, stack)
      PROVE  ConsoleInv'
  <2>1. idt[EXCEPTION_DIV_BY_0].type = "INT32"
    BY DEF idt, create_interrupt_descriptor, EXCEPTION_DIV_BY_0,
       EXCEPTION_SEGMENT_NOT_PRESENT, EXCEPTION_GPF, EXCEPTION_PAGE_FAULT,
       ISR_PREEMPT, ISR_APIC_TIMER, ISR_SYSCALL
  <2>2. /\ idt[exception].isr \in Isrs \ {"kernel_initialize"}
        /\ idt[exception].isr \in Halting \/ idt[exception].type = "INT32"
    BY <2>1, Gates DEF Isrs, Quiet, Halting
  <2> QED
    BY <1>1, <1>3, <2>2, EnterConsole
<1> QED
  BY <1>2, <1>3 DEF FromUser

LEMMA UserFlagConsole ==
  ASSUME IInv, ConsoleInv, UserFlag
  PROVE  ConsoleInv'
<1>1. /\ stack = <<>> /\ stack' = <<>>
      /\ UNCHANGED <<cursor, calls, ds, call>>
  BY DEF UserFlag, UserMode, console, dispatch
<1>2. IntsInv' /\ PendingInv'
  BY <1>1 DEF ConsoleInv, IntsInv, PendingInv
<1>3. PrintInv'
  BY <1>1 DEF ConsoleInv, PrintInv
<1> QED
  BY <1>2, <1>3 DEF ConsoleInv

LEMMA InterruptConsole ==
  ASSUME IInv, ConsoleInv, Interrupt
  PROVE  ConsoleInv'
<1>1. PICK vector \in External :
         IF At("hlt")
         THEN /\ Through(vector, [stack EXCEPT ![Len(stack)].todo = Tail(@)])
              /\ woken' = TRUE
         ELSE Through(vector, stack) /\ UNCHANGED woken
  BY DEF Interrupt
<1>2. idt[vector].isr \in {"isr_generic", "isr_timer"} /\ idt[vector].type = "INT32"
  BY Gates, EntriesAssumption
<1>3. ints /\ UNCHANGED dispatch /\ call' = call
  BY DEF Interrupt, dispatch
<1>4. stack # <<>> => Len(stack) = 1 /\ Top = stack[1] /\ OpenAt(Top.isr, Top.todo)
  BY <1>3 DEF ConsoleInv, IntsInv, Top
<1>5. ASSUME stack # <<>>, stack[1].isr \notin Open
      PROVE  Call = NotPrinting
  <2>1. Head(Top.todo) = "cli"
    BY <1>4, <1>5 DEF OpenAt
  <2> QED
    BY <1>5, <2>1, TopIdle DEF ConsoleInv
<1>6. CASE At("hlt")
  <2>1. /\ stack # <<>> /\ Top.todo = Hlt
        /\ ints' = FALSE /\ UNCHANGED <<cursor, ds>>
        /\ calls' = Append(calls, NotPrinting)
    BY <1>6, WakeShape
  <2>2. PICK act \in Activations, low \in Activations :
          /\ low.isr = Top.isr /\ low.user = Top.user /\ low.ints = Top.ints
          /\ low.todo = Ret
          /\ stack' \in Seq(Activations) /\ stack' # <<>>
          /\ Len(stack') = Len(stack) + 1
          /\ \A k \in 1..Len(stack) : stack'[k] = IF k = Len(stack) THEN low ELSE stack[k]
          /\ stack'[Len(stack) + 1] = act
    BY <1>6, WakeShape
  <2>3. Call = NotPrinting
    BY <1>6, <2>1, TopIdle DEF ConsoleInv, At
  <2>4. /\ Len(stack) = 1 /\ DOMAIN stack' = 1..Len(stack) + 1
        /\ \A k \in 1..Len(stack) :
             /\ stack'[k].isr = stack[k].isr /\ stack'[k].ints = stack[k].ints
             /\ k = Len(stack) /\ stack[k].todo = Hlt /\ stack'[k].todo = Ret
    <3>1. Len(stack) = 1 /\ Top = stack[1]
      BY <1>4, <2>1
    <3>2. DOMAIN stack' = 1..2
      BY <2>2, <3>1
    <3>3. stack'[1] = low
      BY <2>2, <3>1
    <3> QED
      BY <2>1, <2>2, <3>1, <3>2, <3>3
  <2>5. IntsInv'
    BY <1>3, <2>1, <2>2, <2>4, RiseInts DEF ConsoleInv
  <2>6. ~call.pending
    BY <2>1, <2>4, Heads, PendingTop, CalledHeads
  <2>7. PendingInv'
    BY <1>3, <2>6 DEF PendingInv
  <2>8. Risen
    BY <2>1, <2>2, <2>3, <2>4 DEF Risen
  <2>9. PrintInv'
    BY <2>3, <2>8, RisePrint DEF ConsoleInv
  <2> QED
    BY <2>5, <2>7, <2>9 DEF ConsoleInv
<1>7. CASE ~At("hlt") /\ stack # <<>>
  <2>1. Len(stack) > 1 \/ stack[1].isr \notin Open => Call = NotPrinting
    <3>0. Len(stack) = 1
      BY <1>4, <1>7, Zenon
    <3>1. ~(Len(stack) > 1)
      BY <3>0
    <3>2. stack[1].isr \notin Open => Call = NotPrinting
      BY <1>5, <1>7
    <3> QED
      BY <3>1, <3>2
  <2> QED
    BY <1>1, <1>2, <1>3, <1>7, <2>1, PushConsole
<1>8. CASE ~At("hlt") /\ stack = <<>>
  <2>1. idt[vector].isr \in Isrs \ {"kernel_initialize"}
    BY <1>2 DEF Isrs, Quiet
  <2> QED
    BY <1>1, <1>2, <1>3, <1>8, <2>1, EnterConsole
<1> QED
  BY <1>6, <1>7, <1>8

LEMMA PrintingConsole ==
  ASSUME IInv, ConsoleInv, Printing
  PROVE  ConsoleInv'
<1>1. UNCHANGED <<stack, ints, ds, call>>
  BY DEF Printing, machine, dispatch
<1>2. IntsInv' /\ PendingInv'
  BY <1>1 DEF ConsoleInv, IntsInv, PendingInv
<1>3. PrintInv'
  BY PrintingPrint DEF ConsoleInv
<1> QED
  BY <1>2, <1>3 DEF ConsoleInv

LEMMA InitConsole ==
  ASSUME Init
  PROVE  ConsoleInv
<1>1. PICK act : act = Activation("kernel_initialize", FALSE)
  OBVIOUS
<1>2. act.isr = "kernel_initialize"
  BY <1>1 DEF Activation
<1>3. stack = <<act>> /\ calls = <<NotPrinting>> /\ ~ints /\ ds # NullSegment
  BY <1>1 DEF Init, KernelData, NullSegment
<1>4. /\ Len(stack) = 1 /\ stack[1] = act /\ DOMAIN stack = {1} /\ stack # <<>>
      /\ Len(calls) = 1 /\ calls[1] = NotPrinting
  BY <1>3
<1>5. calls \in Seq(CallStates)
  BY <1>3, IdleSlow
<1>6. cursor \in line_width .. Limit - 1 /\ cursor \in Nat
  BY Screen DEF Init, ConsoleInit
<1>7. SlowAt(NotPrinting, cursor)
  BY <1>6, IdleSlow
<1>8. IntsInv
  BY <1>3, <1>4 DEF IntsInv
<1>9. PendingInv
  BY DEF Init, DispatchInit, NoCall, PendingInv
<1>10. PrintInv
  BY <1>2, <1>4, <1>5, <1>6, <1>7 DEF PrintInv, Open
<1> QED
  BY <1>8, <1>9, <1>10 DEF ConsoleInv

LEMMA NextConsole ==
  ASSUME IInv, ConsoleInv, [Next]_vars
  PROVE  ConsoleInv'
<1>1. CASE UNCHANGED vars
  BY <1>1, StillConsole DEF vars, machine, console, dispatch
<1>2. CASE Stopped
  BY <1>1, <1>2 DEF Stopped
<1> QED
  BY <1>1, <1>2, FromUserConsole, UserFlagConsole, InterruptConsole, FlagConsole,
     SegmentsConsole, NullAccessConsole, PrintingConsole, PrintedConsole, IretConsole,
     SetSyscallsConsole, LoadModulesConsole, StoreContextConsole, AdvanceConsole,
     LoadContextConsole, DoSyscallConsole, FunctionConsole, ReturnConsole
  DEF Next

LEMMA AlwaysConsole == Spec => []ConsoleInv
BY AlwaysIInv, InitConsole, NextConsole, PTL DEF Spec

\* Handlers may interrupt each other's output between any two loads and stores
\* of the cursor: on a screen of any size with at least three lines a character
\* is written past its end only while a scroll is due in the output below, and
\* less than a line past it.
THEOREM OutputNearScreen == Spec => []WritesNearScreen
<1>1. ASSUME IInv, ConsoleInv PROVE WritesNearScreen
  <2> SUFFICES ASSUME At("print"), Call.todo = <<>>, cursor >= Limit
               PROVE  /\ cursor < Limit + line_width
                      /\ \E i \in 1..Len(calls) - 1 :
                           calls[i].todo \in {TrimLine, AtCheck, Scroll}
    BY DEF WritesNearScreen, TrimLine, AtCheck, Scroll
  <2>1. stack # <<>> /\ Len(stack) \in Nat \ {0} /\ Len(calls) = Len(stack)
    BY <1>1, StackTop DEF At, IInv, ConsoleInv, PrintInv
  <2>2. /\ Len(stack) = 1 => cursor \in line_width .. Limit - 1
        /\ Len(stack) > 1 => cursor \in Low(calls[1].todo)..High(calls[1].todo)
    BY <1>1, <2>1, TopIdle DEF ConsoleInv
  <2>3. /\ Low(calls[1].todo) \in {line_width, 2 * line_width, Limit - line_width}
        /\ High(calls[1].todo) \in {Limit - 1, Limit + line_width - 1}
        /\ High(calls[1].todo) # Limit - 1 => calls[1].todo \in {TrimLine, AtCheck, Scroll}
    BY Ranges DEF High
  <2>4. PICK low \in Nat, high \in Nat :
          /\ low = Low(calls[1].todo) /\ high = High(calls[1].todo)
          /\ high < Limit + line_width
    BY <2>3, Screen
  <2>5. Len(stack) > 1
    BY <2>1, <2>2, Screen
  <2>6. cursor \in low..high
    BY <2>2, <2>4, <2>5
  <2>7. calls[1].todo \in {TrimLine, AtCheck, Scroll}
    BY <2>3, <2>4, <2>6, Screen
  <2>8. 1 \in 1..Len(calls) - 1
    BY <2>1, <2>5
  <2> QED
    BY <2>4, <2>6, <2>7, <2>8, Screen
<1> QED
  BY AlwaysIInv, AlwaysConsole, <1>1, PTL
=============================================================================
