-------------------------- MODULE PriorityQueueOps --------------------------
(***************************************************************************)
(* src/priorityqueue.c: a binary min-heap in an array.                     *)
(*                                                                         *)
(* A queue is a record: heap maps the indices 0..capacity-1 to nodes       *)
(* [value, priority], size counts the ones in use.  Nodes at and above     *)
(* size keep what was last stored there; heapify reads one of them.  The   *)
(* loop of priorityqueue_insert and the recursion of heapify are given by  *)
(* one round each.                                                         *)
(***************************************************************************)
LOCAL INSTANCE Integers

Node(value, priority) == [value |-> value, priority |-> priority]

\* The array comes from kmalloc with unspecified contents: garbage stands for
\* them.
construct_priority_queue(capacity, garbage) ==
  [heap |-> [k \in 0..capacity - 1 |-> garbage], size |-> 0, capacity |-> capacity]

Indices(queue) == 0..queue.size - 1

Root(queue) == queue.heap[0].value

\* The last node takes the place of the one at i, which leaves the queue.
Shrunk(queue, i) ==
  [queue EXCEPT !.size = queue.size - 1, !.heap[i] = queue.heap[queue.size - 1]]

\* Mutant: the right child is not looked at if the left one can move up.
LeftFirst(queue, i) ==
  LET h == queue.heap
      l == i * 2 + 1
      r == i * 2 + 2
  IN IF l >= queue.size THEN i
     ELSE IF h[l].priority <= h[i].priority THEN l
     ELSE IF h[r].priority <= h[i].priority THEN r
     ELSE i

\* The child that heapify exchanges with the node at i before it goes on
\* there, or i if it returns.
Exchanged(queue, i) ==
  LET h == queue.heap
      l == i * 2 + 1
      r == i * 2 + 2
      MovesUp(c, other) == /\ h[c].priority <= h[i].priority
                           /\ h[c].priority <= h[other].priority
  IN IF l >= queue.size THEN i
     ELSE IF MovesUp(l, r) THEN l
     ELSE IF MovesUp(r, l) THEN r
     ELSE i

Swap(queue, i, c) ==
  [queue EXCEPT !.heap[i] = queue.heap[c], !.heap[c] = queue.heap[i]]

ParentOf(i) == (i - 1) \div 2

\* The condition of the loop in priorityqueue_insert, with the hole at i.
Rises(queue, i, priority) ==
  i > 0 /\ queue.heap[ParentOf(i)].priority > priority

\* Its body: the parent moves down into the hole.
ParentDown(queue, i) == [queue EXCEPT !.heap[i] = queue.heap[ParentOf(i)]]

Store(queue, i, node) == [queue EXCEPT !.heap[i] = node]
=============================================================================
