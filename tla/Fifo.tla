-------------------------------- MODULE Fifo --------------------------------
(***************************************************************************)
(* A first-in-first-out queue with room for Room entries, as the message   *)
(* queues of the kernel use struct queue_t.                                *)
(***************************************************************************)
LOCAL INSTANCE Sequences
LOCAL INSTANCE Naturals

CONSTANTS Values, None, Room

VARIABLES
  items,    \* the queued values, oldest first
  returned  \* what the last call of get_next returned

Init == items = <<>> /\ returned = None

Insert(v) ==
  /\ Len(items) < Room
  /\ items' = Append(items, v)
  /\ UNCHANGED returned

GetNext ==
  \/ items = <<>> /\ returned' = None /\ UNCHANGED items
  \/ items # <<>> /\ returned' = Head(items) /\ items' = Tail(items)

Next == GetNext \/ \E v \in Values : Insert(v)

Spec == Init /\ [][Next]_<<items, returned>>
=============================================================================
