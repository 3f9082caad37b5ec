--------------------------- MODULE MCPriorityQueue ---------------------------
(***************************************************************************)
(* PriorityQueue for TLC.  The code compares priorities and, in            *)
(* priorityqueue_remove, values for equality only: what a step can do to   *)
(* the queue is decided, up to a renaming of the values, by the parts of   *)
(* the state other than the values.  TLC explores one state of each class  *)
(* that View tells apart and checks every step that leaves it.             *)
(***************************************************************************)
EXTENDS PriorityQueue

Priorities(array) == [k \in DOMAIN array |-> array[k].priority]

View == <<Priorities(queue.heap), queue.size, doing, i, node.priority, ordered>>
=============================================================================
