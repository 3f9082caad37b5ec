---------------------------- MODULE SyscallTable ----------------------------
(***************************************************************************)
(* The syscall table of src/kernel.c: set_syscall fills it, do_syscall     *)
(* dispatches through it.  An entry may belong to a process, in whose      *)
(* address space its function is called; kernel_initialize enters only the *)
(* kernel's own functions.                                                 *)
(*                                                                         *)
(* Both functions accept the index MAX_SYSCALL_ID, which is one past the   *)
(* table.  What lies there is kernel.priority_queue: the low byte of heap  *)
(* is read as defined, and capacity as process_id.  do_syscall may clear   *)
(* that byte, after which the queue is looked for at another address.      *)
(***************************************************************************)
EXTENDS Naturals, FiniteSets

CONSTANTS
  Pids,         \* processes
  SyscallIds,   \* the members of syscall_id_t that kernel_initialize enters
  LastId,       \* SYSCALL_CLOSE_PORT, the largest syscall_id_t
  SpareIds,     \* Bound: entries of the table above LastId
  Capacity,     \* kernel.priority_queue.capacity
  LowByteSet    \* whether the address libmalloc gave kernel.priority_queue.heap
                \* has a low byte that is not zero

ASSUME SyscallAssumption ==
  /\ Pids \subseteq Nat \ {0} /\ IsFiniteSet(Pids)
  /\ LastId \in Nat /\ SyscallIds \subseteq 0..LastId
  /\ SpareIds \in Nat \ {0}
  /\ Capacity \in Nat \ (Pids \cup {0})
  /\ LowByteSet \in BOOLEAN

VARIABLES
  syscall_table,   \* kernel.syscall_table and, at MAX_SYSCALL_ID, what follows it
  process_table,   \* the live processes
  active_process,  \* kernel.active_process
  cr3,             \* the address space that is loaded
  call             \* the dispatched call whose function has not returned

dispatch == <<syscall_table, process_table, active_process, cr3, call>>

NULL == 0
NoCall == [id |-> NULL, owner |-> NULL, pending |-> FALSE]

MAX_SYSCALL_ID == LastId + SpareIds

Undefined == [defined |-> FALSE, process_id |-> NULL]

\* kernel.priority_queue, read as an entry of the table.
QueueWords == [defined |-> LowByteSet, process_id |-> Capacity]

\* The low byte of the queue's address has been cleared.
Misplaced == LowByteSet /\ ~syscall_table[MAX_SYSCALL_ID].defined

\* memset of the table, before any module is loaded
DispatchInit ==
  /\ syscall_table = [id \in 0..MAX_SYSCALL_ID |->
                        IF id = MAX_SYSCALL_ID THEN QueueWords ELSE Undefined]
  /\ process_table = {}
  /\ active_process = NULL
  /\ cr3 = NULL
  /\ call = NoCall

\* The address of some function.
Code == 1

\* EOUTOFBOUNDS, EINVALIDARG, EDOESNTEXIST or ENULLPTR
Refused(id, arg_count, pid, func_ptr) ==
  \/ id > MAX_SYSCALL_ID
  \/ syscall_table[id].defined
  \/ arg_count > 3
  \/ pid # 0 /\ pid \notin process_table
  \/ func_ptr = NULL

set_syscall(id, arg_count, pid, func_ptr) ==
  /\ syscall_table' =
       IF Refused(id, arg_count, pid, func_ptr) THEN syscall_table
       ELSE [syscall_table EXCEPT ![id] = [defined |-> TRUE, process_id |-> pid]]
  /\ UNCHANGED <<process_table, active_process, cr3, call>>

Owner(id) == syscall_table[id].process_id

\* ENOSYSCALL: not an index of the table, or an entry not defined.
NoSuchCall(id) == id <= MAX_SYSCALL_ID => ~syscall_table[id].defined

\* Mutant: the owner is taken to be alive.
AnyOwner(id) == TRUE

LiveOwner(id) == Owner(id) = 0 \/ Owner(id) \in process_table

\* ENOSYSCALL, and the entry of a process that has been terminated is given
\* up.
StaleCall(id) ==
  /\ ~NoSuchCall(id) /\ ~LiveOwner(id)
  /\ syscall_table' = [syscall_table EXCEPT ![id].defined = FALSE]
  /\ UNCHANGED <<process_table, active_process, cr3, call>>

CallSpace(id) == IF Owner(id) > 0 THEN Owner(id) ELSE cr3

\* The owner's address space is loaded, the caller's context stored through
\* kernel.active_process and the function of the entry called.
Dispatch(id) ==
  /\ ~NoSuchCall(id) /\ LiveOwner(id)
  /\ active_process # NULL
  /\ cr3' = CallSpace(id)
  /\ call' = [id |-> id, owner |-> Owner(id), pending |-> TRUE]
  /\ UNCHANGED <<syscall_table, process_table, active_process>>

\* Without an active process the store is a page fault.
DispatchFaults(id) ==
  /\ ~NoSuchCall(id) /\ LiveOwner(id)
  /\ active_process = NULL
  /\ cr3' = CallSpace(id)
  /\ UNCHANGED <<syscall_table, process_table, active_process, call>>

Switched == call.owner > 0

\* Mutant: the address space of the entry's owner stays loaded.
KeepSpace == cr3

CallerSpace == IF Switched THEN active_process ELSE cr3

\* The function returns to do_syscall, and that to isr_syscall.
Return ==
  /\ Switched => active_process # NULL
  /\ cr3' = CallerSpace
  /\ call' = NoCall
  /\ UNCHANGED <<syscall_table, process_table, active_process>>

\* The way back to the address space of a process that has been terminated
\* leads through NULL.
ReturnFaults == Switched /\ active_process = NULL /\ UNCHANGED dispatch

\* kernel_advance_scheduler as this module needs it: some live process is
\* entered.  Which ones are ready is the subject of Kernel.
EnterProcess ==
  /\ active_process' \in process_table
  /\ cr3' = active_process'
  /\ call' = NoCall
  /\ UNCHANGED <<syscall_table, process_table>>

\* Nothing is extracted: there is nothing ready, or what is read at the wrong
\* address is zero.
NoneReady ==
  /\ active_process = NULL \/ Misplaced
  /\ active_process' = NULL
  /\ UNCHANGED <<syscall_table, process_table, cr3, call>>

\* receive_message blocks the caller.
BlockCaller ==
  /\ active_process' = NULL
  /\ UNCHANGED <<syscall_table, process_table, cr3, call>>

\* kernel_terminate_process
Terminate(pid) ==
  /\ process_table' = process_table \ {pid}
  /\ active_process' = IF active_process = pid THEN NULL ELSE active_process
  /\ UNCHANGED <<syscall_table, cr3, call>>
=============================================================================
