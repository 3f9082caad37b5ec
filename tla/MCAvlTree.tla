------------------------------ MODULE MCAvlTree -----------------------------
(***************************************************************************)
(* AvlTree for TLC.  Blocks are interchangeable and the contents of free   *)
(* ones do not matter, so that states are told apart by the tree that the  *)
(* blocks form.                                                            *)
(***************************************************************************)
EXTENDS AvlTree

RECURSIVE TreeAt(_)
TreeAt(t) ==
  IF t = NULL THEN <<>>
  ELSE <<nodes[t].height, nodes[t].key, nodes[t].value,
         TreeAt(nodes[t].left), TreeAt(nodes[t].right)>>

\* While a call is on its way back, at may be linked from nowhere yet.
View ==
  IF doing = "none"
  THEN <<TreeAt(tree)>>
  ELSE <<TreeAt(tree), doing, key, value, TreeAt(at), steps,
         [j \in 1..Len(path) |-> nodes[path[j]].key]>>

EachOnce == {<<k, IF k % 2 = 0 THEN "a" ELSE "b">> : k \in Keys}
OneTwice == EachOnce \cup {<<1, "a">>}
=============================================================================
