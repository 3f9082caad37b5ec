---------------------------- MODULE PriorityQueue ---------------------------
(***************************************************************************)
(* The priority queue of src/priorityqueue.c under any sequence of calls,  *)
(* and how it relates to the promises of include/priorityqueue.h.  A call  *)
(* takes a step up to its loop or recursion and one for each round of it;  *)
(* no other call is made meanwhile.                                        *)
(***************************************************************************)
EXTENDS Integers, PriorityQueueOps

CONSTANTS
  Values,    \* the pointers that are queued
  Prio,      \* set of priorities in use
  Capacity,  \* capacity of the array
  None       \* NULL

ASSUME PriorityQueueAssumption ==
  /\ Capacity \in Nat \ {0}
  /\ Prio \subseteq Int
  /\ Prio # {}
  /\ None \notin Values
  /\ None \notin Prio

VARIABLES
  queue,      \* struct priority_queue_t
  extracted,  \* what the last call of priorityqueue_extract_min returned
  doing,      \* "insert" or "heapify" while one is in its loop, else "none"
  i,          \* index that the loop has reached
  node,       \* what priorityqueue_insert stores
  ordered     \* history: since the queue was last empty, no node that took
              \* the place of a removed one belonged further up

vars == <<queue, extracted, doing, i, node, ordered>>

Garbage == Node(None, CHOOSE p \in Prio : TRUE)

\* The array once priorityqueue_insert has filled the hole.
Filled == IF doing = "insert" THEN [queue.heap EXCEPT ![i] = node] ELSE queue.heap

Contents == {Filled[k].value : k \in Indices(queue)}

Init ==
  /\ queue = construct_priority_queue(Capacity, Garbage)
  /\ extracted = None
  /\ doing = "none"
  /\ i = 0
  /\ node = Garbage
  /\ ordered = TRUE

\* A value is queued once at a time; a full queue refuses (ENOMEM).
Insert(value, priority) ==
  /\ doing = "none"
  /\ value \notin Contents
  /\ \/ queue.size = queue.capacity /\ UNCHANGED vars
     \/ /\ queue.size # queue.capacity
        /\ queue' = [queue EXCEPT !.size = @ + 1]
        /\ doing' = "insert"
        /\ i' = queue.size
        /\ node' = Node(value, priority)
        /\ UNCHANGED <<extracted, ordered>>

Rise ==
  /\ doing = "insert"
  /\ Rises(queue, i, node.priority)
  /\ queue' = ParentDown(queue, i)
  /\ i' = ParentOf(i)
  /\ UNCHANGED <<extracted, doing, node, ordered>>

\* The locals of a call that returns are gone.
Return == doing' = "none" /\ i' = 0 /\ node' = Garbage

Place ==
  /\ doing = "insert"
  /\ ~Rises(queue, i, node.priority)
  /\ queue' = Store(queue, i, node)
  /\ Return
  /\ UNCHANGED <<extracted, ordered>>

\* One activation of heapify.
heapify ==
  /\ doing = "heapify"
  /\ LET c == Exchanged(queue, i)
     IN \/ c = i /\ Return /\ UNCHANGED queue
        \/ c # i /\ queue' = Swap(queue, i, c) /\ i' = c /\ UNCHANGED <<doing, node>>
  /\ UNCHANGED <<extracted, ordered>>

\* The last node is no lower than the parent of the one at k.
InPlace(k) ==
  k = 0 \/ queue.heap[ParentOf(k)].priority <= queue.heap[queue.size - 1].priority

\* The node at k is replaced by the last one and heapify is called there, which
\* moves it down but not up.
Replace(k) ==
  /\ queue' = Shrunk(queue, k)
  /\ doing' = "heapify"
  /\ i' = k
  /\ ordered' = ((ordered /\ InPlace(k)) \/ queue.size = 1)
  /\ UNCHANGED node

ExtractMin ==
  /\ doing = "none"
  /\ \/ queue.size = 0 /\ extracted' = None /\ UNCHANGED <<queue, doing, i, node, ordered>>
     \/ queue.size # 0 /\ extracted' = Root(queue) /\ Replace(0)

\* The first node with the value is replaced; a queue without it is left alone
\* (EOUTOFBOUNDS).
Remove(value) ==
  /\ doing = "none"
  /\ \/ value \notin Contents /\ UNCHANGED <<queue, doing, i, node, ordered>>
     \/ \E k \in Indices(queue) :
          /\ queue.heap[k].value = value
          /\ \A j \in 0..k - 1 : queue.heap[j].value # value
          /\ Replace(k)
  /\ UNCHANGED extracted

Next ==
  \/ \E value \in Values, priority \in Prio : Insert(value, priority)
  \/ Rise
  \/ Place
  \/ ExtractMin
  \/ heapify
  \/ \E value \in Values : Remove(value)

Spec == Init /\ [][Next]_vars
-----------------------------------------------------------------------------
PriorityOf(v) == Filled[CHOOSE k \in Indices(queue) : Filled[k].value = v].priority

\* What the queue holds.  A call has its effect in its first step: the rounds
\* of insert and heapify change the places of nodes only.
Items == [v \in Values |-> IF v \in Contents THEN PriorityOf(v) ELSE None]

\* The queue is the bounded collection that priorityqueue.h describes: no
\* call loses, duplicates or invents a value, whatever the order of the heap,
\* a full queue refuses, and extract_min takes a value of lowest priority
\* until a removal from among different priorities leaves a node too far down.
Abstract == INSTANCE ReadyQueue WITH Priorities <- Prio, items <- Items

ImplementsReadyQueue == Abstract!Spec

=============================================================================
