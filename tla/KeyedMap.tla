------------------------------ MODULE KeyedMap ------------------------------
(***************************************************************************)
(* What kernel.c expects of process_table, port_table and                  *)
(* interrupt_handlers: a map from keys to pointers.  A call takes effect   *)
(* once, in one step, before it returns.                                   *)
(***************************************************************************)
CONSTANTS Keys, Values, NULL

VARIABLES
  map,   \* the pointer stored under each key, NULL if there is none
  got,   \* what the last lookup returned
  asked  \* the call that is made and has not taken effect

Request(op, k, v) == [op |-> op, key |-> k, value |-> v]

Idle == Request("none", NULL, NULL)

Init == map = [k \in Keys |-> NULL] /\ got = NULL /\ asked = Idle

Ask(op, k, v) == asked = Idle /\ asked' = Request(op, k, v) /\ UNCHANGED <<map, got>>

Answer(op, k, v) == asked = Request(op, k, v) /\ asked' = Idle

\* An entry that exists is kept.
Insert(k, v) ==
  /\ Answer("insert", k, v)
  /\ map' = IF map[k] = NULL THEN [map EXCEPT ![k] = v] ELSE map
  /\ UNCHANGED got

Remove(k) == Answer("remove", k, NULL) /\ map' = [map EXCEPT ![k] = NULL] /\ UNCHANGED got

Get(k) == Answer("get", k, NULL) /\ got' = map[k] /\ UNCHANGED map

Next ==
  \E k \in Keys :
    \/ Ask("remove", k, NULL) \/ Remove(k)
    \/ Ask("get", k, NULL) \/ Get(k)
    \/ \E v \in Values : Ask("insert", k, v) \/ Insert(k, v)

Spec == Init /\ [][Next]_<<map, got, asked>>
=============================================================================
