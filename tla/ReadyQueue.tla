----------------------------- MODULE ReadyQueue -----------------------------
(***************************************************************************)
(* What include/priorityqueue.h promises, apart from the order of equal    *)
(* priorities: a bounded collection of values with priorities from which a *)
(* value of lowest priority is extracted.  Only a removal from among       *)
(* different priorities may end the last promise, which holds again once   *)
(* the collection has been empty.  The values in it are distinct, as       *)
(* Kernel!ReadyExact shows for the kernel's use.                           *)
(***************************************************************************)
EXTENDS Integers, FiniteSets

CONSTANTS Values, Priorities, Capacity, None

VARIABLES
  items,     \* priority of each value in the queue, None if it is not there
  extracted, \* what the last call of extract_min returned
  ordered    \* whether the lowest priority comes first

Held == {v \in Values : items[v] # None}

Lowest == {v \in Held : \A w \in Held : items[v] <= items[w]}

Alike == \A v, w \in Held : items[v] = items[w]

Init == items = [v \in Values |-> None] /\ extracted = None /\ ordered = TRUE

Insert(v, p) ==
  /\ v \notin Held
  /\ Cardinality(Held) < Capacity
  /\ items' = [items EXCEPT ![v] = p]
  /\ UNCHANGED <<extracted, ordered>>

Take(v) == v \in Held /\ items' = [items EXCEPT ![v] = None]

ExtractMin ==
  \/ Held = {} /\ extracted' = None /\ UNCHANGED <<items, ordered>>
  \/ \E v \in Held : /\ ordered => v \in Lowest
                     /\ Take(v)
                     /\ extracted' = v
                     /\ ordered' = (ordered \/ Held = {v})

Remove(v) ==
  /\ Take(v)
  /\ \/ ordered' = (ordered \/ Held = {v})
     \/ ~Alike /\ ordered' = FALSE
  /\ UNCHANGED extracted

Next ==
  \/ \E v \in Values, p \in Priorities : Insert(v, p)
  \/ ExtractMin
  \/ \E v \in Values : Remove(v)

Spec == Init /\ [][Next]_<<items, extracted, ordered>>
=============================================================================
