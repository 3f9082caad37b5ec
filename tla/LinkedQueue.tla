----------------------------- MODULE LinkedQueue ----------------------------
(***************************************************************************)
(* src/queue.c: a singly linked list with pointers to both ends.  The      *)
(* nodes are blocks of the system heap; the fields of a block that is free *)
(* or newly allocated hold whatever was there before.                      *)
(***************************************************************************)
EXTENDS Integers, Sequences, FiniteSets

CONSTANTS
  Nodes,   \* the heap blocks that kmalloc can return for nodes
  Ptrs,    \* the user-defined objects that are queued
  NULL

ASSUME LinkedQueueAssumption ==
  /\ IsFiniteSet(Nodes)
  /\ NULL \notin Nodes
  /\ NULL \notin Ptrs

VARIABLES
  first, last, count,  \* struct queue_t
  next, ptr,           \* struct queue_node_t of each block
  allocated,           \* the blocks handed out by kmalloc and not yet freed
  returned,            \* what the last call of queue_get_next returned
  chain                \* history: the queue's nodes, first to last

queue == <<first, last, count>>
vars == <<queue, next, ptr, allocated, returned, chain>>

\* queue_construct; the blocks have arbitrary contents.
Init ==
  /\ first = NULL
  /\ last = NULL
  /\ count = 0
  /\ next \in [Nodes -> Nodes \cup {NULL}]
  /\ ptr \in [Nodes -> Ptrs]
  /\ allocated = {}
  /\ returned = NULL
  /\ chain = <<>>

\* Mutant: the new node is pushed in front of the first one.
LinkInFront(node) ==
  /\ next' = [next EXCEPT ![node] = first]
  /\ first' = node
  /\ last' = IF last = NULL THEN node ELSE last

\* The links that queue_insert sets: the new node's own, then first or the
\* next field of the last node, then last.
Link(node) ==
  /\ next' = IF last = NULL THEN [next EXCEPT ![node] = NULL]
                            ELSE [next EXCEPT ![node] = NULL, ![last] = node]
  /\ first' = IF last = NULL THEN node ELSE first
  /\ last' = node

queue_insert(p) ==
  \/ allocated = Nodes /\ UNCHANGED vars
  \/ \E node \in Nodes \ allocated :
       /\ allocated' = allocated \cup {node}
       /\ ptr' = [ptr EXCEPT ![node] = p]
       /\ Link(node)
       /\ count' = count + 1
       /\ chain' = Append(chain, node)
       /\ UNCHANGED returned

\* Mutant: last still points at the node that is freed.
UnlinkFirstOnly == first' = next[first] /\ UNCHANGED last

\* The unlinking of the first node.
Unlink ==
  /\ first' = next[first]
  /\ last' = IF next[first] = NULL THEN NULL ELSE last

queue_get_next ==
  \/ first = NULL /\ returned' = NULL /\ UNCHANGED <<queue, next, ptr, allocated, chain>>
  \/ /\ first # NULL
     /\ Unlink
     /\ count' = count - 1
     /\ returned' = ptr[first]
     /\ allocated' = allocated \ {first}
     /\ chain' = Tail(chain)
     /\ UNCHANGED <<next, ptr>>

Next == queue_get_next \/ \E p \in Ptrs : queue_insert(p)

Spec == Init /\ [][Next]_vars
-----------------------------------------------------------------------------
TypeOK ==
  /\ first \in Nodes \cup {NULL}
  /\ last \in Nodes \cup {NULL}
  /\ count \in Nat
  /\ next \in [Nodes -> Nodes \cup {NULL}]
  /\ ptr \in [Nodes -> Ptrs]
  /\ allocated \subseteq Nodes
  /\ returned \in Ptrs \cup {NULL}
  /\ chain \in Seq(Nodes)

\* The list is well formed: following next from first visits the allocated
\* nodes, each once, and ends at last, whose next is NULL; first and last are
\* NULL together; count is the number of nodes.  No link leads to a freed
\* block, although kfree leaves the block's own links as they were.
WellLinked ==
  /\ count = Len(chain)
  /\ allocated = {chain[i] : i \in DOMAIN chain}
  /\ \A i, j \in DOMAIN chain : chain[i] = chain[j] => i = j
  /\ first = IF chain = <<>> THEN NULL ELSE chain[1]
  /\ last = IF chain = <<>> THEN NULL ELSE chain[Len(chain)]
  /\ \A i \in DOMAIN chain :
       next[chain[i]] = IF i = Len(chain) THEN NULL ELSE chain[i + 1]

\* The list behaves as a bounded first-in-first-out queue of the pointers:
\* queue_get_next returns them in the order in which queue_insert took them,
\* and an insertion is refused only when no block is left for a node.
Abstract ==
  INSTANCE Fifo
  WITH Values <- Ptrs,
       None <- NULL,
       Room <- Cardinality(Nodes),
       items <- [i \in DOMAIN chain |-> ptr[chain[i]]]

ImplementsFifo == Abstract!Spec
=============================================================================
