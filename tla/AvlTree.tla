------------------------------- MODULE AvlTree ------------------------------
(***************************************************************************)
(* src/avltree.c: the search trees behind process_table, port_table and    *)
(* interrupt_handlers, with their nodes updated in place.                  *)
(*                                                                         *)
(* A recursive call takes one step on the way down and one on the way      *)
(* back, a loop one step per round; no other call is made meanwhile.       *)
(***************************************************************************)
EXTENDS Integers, SequencesExt

CONSTANTS
  INT_MAX,   \* largest number of type int
  Keys,      \* the keys in use
  Values,    \* the pointers stored in the tree
  Bindings,  \* the pairs of key and pointer that callers insert
  Again,     \* whether they insert keys that are there; kernel.c does not
  Blocks,    \* blocks of the heap for nodes
  NULL

ASSUME AvlAssumption ==
  /\ INT_MAX \in Nat
  /\ Keys \subseteq -INT_MAX - 1..INT_MAX
  /\ Keys # {}
  /\ Bindings \subseteq Keys \X Values
  /\ Again \in BOOLEAN
  /\ NULL \notin Values /\ NULL \notin Blocks
-----------------------------------------------------------------------------
(***************************************************************************)
(* The functions on nodes.  mem maps blocks to the nodes in them; a        *)
(* rotation returns the new contents and the root of the rotated tree.     *)
(***************************************************************************)
avl_new(k, v) == [height |-> 1, key |-> k, value |-> v, left |-> NULL, right |-> NULL]

avl_height(mem, t) == IF t = NULL THEN 0 ELSE mem[t].height

avl_balance(mem, t) ==
  IF t = NULL THEN 0 ELSE avl_height(mem, mem[t].left) - avl_height(mem, mem[t].right)

Larger(m, n) == IF m > n THEN m ELSE n

\* Mutant: the height of the lower subtree.
LowerHeight(mem, t) ==
  LET l == avl_height(mem, mem[t].left)
      r == avl_height(mem, mem[t].right)
  IN [mem EXCEPT ![t].height = 1 + (IF l > r THEN r ELSE l)]

avl_update_height(mem, t) ==
  [mem EXCEPT ![t].height =
     1 + Larger(avl_height(mem, mem[t].left), avl_height(mem, mem[t].right))]

\* x, the new root, gets its height from the one y had before the rotation:
\* y's own is updated after it.
avl_right_rotate(mem, y) ==
  LET x == mem[y].left
      linked == [mem EXCEPT ![x].right = y, ![y].left = mem[x].right]
  IN [mem |-> avl_update_height(avl_update_height(linked, x), y), tree |-> x]

\* Mutant: the subtree between the two nodes is lost.
RotateLosingMiddle(mem, x) ==
  LET y == mem[x].right
      linked == [mem EXCEPT ![y].left = x, ![x].right = NULL]
  IN [mem |-> avl_update_height(avl_update_height(linked, x), y), tree |-> y]

avl_left_rotate(mem, x) ==
  LET y == mem[x].right
      linked == [mem EXCEPT ![y].left = x, ![x].right = mem[y].left]
  IN [mem |-> avl_update_height(avl_update_height(linked, x), y), tree |-> y]

\* The double rotations.
LeftRight(mem, t) ==
  LET l == avl_left_rotate(mem, mem[t].left)
  IN avl_right_rotate([l.mem EXCEPT ![t].left = l.tree], t)

RightLeft(mem, t) ==
  LET r == avl_right_rotate(mem, mem[t].right)
  IN avl_left_rotate([r.mem EXCEPT ![t].right = r.tree], t)

\* The end of avl_insert, above the place where k went in.
RebalanceInserted(mem, t, k) ==
  LET balance == avl_balance(mem, t)
      l == mem[t].left
      r == mem[t].right
  IN IF balance > 1 /\ k < mem[l].key THEN avl_right_rotate(mem, t)
     ELSE IF balance < -1 /\ k > mem[r].key THEN avl_left_rotate(mem, t)
     ELSE IF balance > 1 /\ k > mem[l].key THEN LeftRight(mem, t)
     ELSE IF balance < -1 /\ k < mem[r].key THEN RightLeft(mem, t)
     ELSE [mem |-> mem, tree |-> t]

\* The first of its two rotations has no child to raise: the heights say that
\* the tree is too deep on the side away from k.
Missing(mem, t, k) ==
  LET balance == avl_balance(mem, t)
      l == mem[t].left
      r == mem[t].right
  IN \/ balance > 1 /\ k > mem[l].key /\ mem[l].right = NULL
     \/ balance < -1 /\ k < mem[r].key /\ mem[r].left = NULL

\* The end of avl_remove, above the place where a node went.
RebalanceRemoved(mem, t) ==
  LET balance == avl_balance(mem, t)
      l == avl_balance(mem, mem[t].left)
      r == avl_balance(mem, mem[t].right)
  IN IF balance > 1 /\ l >= 0 THEN avl_right_rotate(mem, t)
     ELSE IF balance > 1 /\ l < 0 THEN LeftRight(mem, t)
     ELSE IF balance < -1 /\ r <= 0 THEN avl_left_rotate(mem, t)
     ELSE IF balance < -1 /\ r > 0 THEN RightLeft(mem, t)
     ELSE [mem |-> mem, tree |-> t]
-----------------------------------------------------------------------------
VARIABLES
  tree,   \* a root such as kernel.process_table
  nodes,  \* struct avltree_t in each block
  used,   \* the blocks that kmalloc has handed out
  got,    \* what the last call of avl_get returned
  doing,  \* the function that runs and how far it is, "none" if none does
  key,    \* its arguments; in avl_remove, min->key from the inner call on
  value,
  path,   \* the trees of the activations that wait for an inner one
  at,     \* the tree where the innermost activation is, or what it returned
  steps   \* history: the nodes passed on the way down from the root

vars == <<tree, nodes, used, got, doing, key, value, path, at, steps>>

Init ==
  /\ tree = NULL
  /\ nodes = [b \in Blocks |-> avl_new(CHOOSE k \in Keys : TRUE, NULL)]
  /\ used = {}
  /\ got = NULL
  /\ doing = "none"
  /\ key = (CHOOSE k \in Keys : TRUE)
  /\ value = NULL
  /\ path = <<>>
  /\ at = NULL
  /\ steps = 0

Call(function, k, v) ==
  /\ doing = "none"
  /\ doing' = function
  /\ key' = k
  /\ value' = v
  /\ path' = <<>>
  /\ at' = tree
  /\ steps' = 0
  /\ UNCHANGED <<tree, nodes, used, got>>

Present(k) == \E n \in used : nodes[n].key = k

avl_insert ==
  \E b \in Bindings : (Again \/ ~Present(b[1])) /\ Call("insert", b[1], b[2])

avl_remove == \E k \in Keys : Call("remove", k, NULL)

avl_get == \E k \in Keys : Call("get", k, NULL)

Here == at # NULL /\ nodes[at].key = key

\* The subtree in which key is.
Toward(t) == IF key < nodes[t].key THEN nodes[t].left ELSE nodes[t].right

Wait == path' = Append(path, at) /\ steps' = steps + 1

Descend ==
  /\ doing \in {"insert", "remove"}
  /\ at # NULL /\ ~Here
  /\ Wait
  /\ at' = Toward(at)
  /\ UNCHANGED <<tree, nodes, used, got, doing, key, value>>

\* A round of the loop in avl_get, and its end.
Search ==
  /\ doing = "get"
  /\ \/ /\ at # NULL /\ ~Here
        /\ at' = Toward(at)
        /\ steps' = steps + 1
        /\ UNCHANGED <<got, doing>>
     \/ /\ at = NULL \/ Here
        /\ got' = IF at = NULL THEN NULL ELSE nodes[at].value
        /\ doing' = "none"
        /\ UNCHANGED <<at, steps>>
  /\ UNCHANGED <<tree, nodes, used, key, value, path>>

\* avl_insert where key belongs: a node that is there is kept.
Place ==
  /\ doing = "insert"
  /\ \/ /\ at = NULL
        /\ \E b \in Blocks \ used :
             /\ nodes' = [nodes EXCEPT ![b] = avl_new(key, value)]
             /\ used' = used \cup {b}
             /\ at' = b
     \/ Here /\ UNCHANGED <<nodes, used, at>>
  /\ doing' = "inserted"
  /\ UNCHANGED <<tree, got, key, value, path, steps>>

\* avl_remove where key belongs: nothing there, a leaf, a node with one child,
\* whose contents move up, or an inner node, which its successor replaces.
Absent == at = NULL /\ UNCHANGED <<nodes, used, at>>

Leaf ==
  /\ Here /\ nodes[at].left = NULL /\ nodes[at].right = NULL
  /\ used' = used \ {at}
  /\ at' = NULL
  /\ UNCHANGED nodes

Single ==
  /\ Here /\ (nodes[at].left = NULL) # (nodes[at].right = NULL)
  /\ LET child == IF nodes[at].left = NULL THEN nodes[at].right ELSE nodes[at].left
         moved == [nodes EXCEPT ![at] = nodes[child]]
         rest == RebalanceRemoved(avl_update_height(moved, at), at)
     IN /\ nodes' = rest.mem
        /\ at' = rest.tree
        /\ used' = used \ {child}

Unlink ==
  /\ doing = "remove"
  /\ Absent \/ Leaf \/ Single
  /\ doing' = "removed"
  /\ UNCHANGED <<tree, got, key, value, path, steps>>

Inner ==
  /\ doing = "remove"
  /\ Here /\ nodes[at].left # NULL /\ nodes[at].right # NULL
  /\ Wait
  /\ at' = nodes[at].right
  /\ doing' = "minimum"
  /\ UNCHANGED <<tree, nodes, used, got, key, value>>

\* The loop that looks for the successor, then the copy of its key and value
\* and the call that removes it from the right subtree.
Minimum ==
  /\ doing = "minimum"
  /\ \/ /\ nodes[at].left # NULL
        /\ at' = nodes[at].left
        /\ steps' = steps + 1
        /\ UNCHANGED <<nodes, key, doing>>
     \/ LET t == Last(path)
            min == nodes[at]
        IN /\ min.left = NULL
           /\ nodes' = [nodes EXCEPT ![t].key = min.key, ![t].value = min.value]
           /\ key' = min.key
           /\ at' = nodes[t].right
           /\ steps' = Len(path)
           /\ doing' = "remove"
  /\ UNCHANGED <<tree, used, got, value, path>>

\* The node t with the subtree that the inner call returned.  The successor's
\* key leads the outer activations of avl_remove where the removed one did.
Linked(t) ==
  IF key < nodes[t].key THEN [nodes EXCEPT ![t].left = at]
                        ELSE [nodes EXCEPT ![t].right = at]

\* What an activation does after the inner one has returned to it.
Back ==
  LET t == Last(path)
      mem == avl_update_height(Linked(t), t)
      rest == IF doing = "inserted" THEN RebalanceInserted(mem, t, key)
                                    ELSE RebalanceRemoved(mem, t)
  IN /\ doing \in {"inserted", "removed"}
     /\ path # <<>>
     /\ doing = "removed" \/ ~Missing(mem, t, key)
     /\ nodes' = rest.mem
     /\ at' = rest.tree
     /\ path' = Front(path)
     /\ UNCHANGED <<tree, used, got, doing, key, value, steps>>

\* The rotation reads a node at NULL: a page fault in the kernel.
Fault ==
  /\ doing = "inserted"
  /\ path # <<>>
  /\ LET t == Last(path) IN Missing(avl_update_height(Linked(t), t), t, key)
  /\ doing' = "fault"
  /\ UNCHANGED <<tree, nodes, used, got, key, value, path, at, steps>>

\* The outermost activation returns the root.
Return ==
  /\ doing \in {"inserted", "removed"}
  /\ path = <<>>
  /\ tree' = at
  /\ doing' = "none"
  /\ UNCHANGED <<nodes, used, got, key, value, path, at, steps>>

Stopped == doing = "fault" /\ UNCHANGED vars

Next ==
  \/ avl_insert \/ avl_remove \/ avl_get
  \/ Descend \/ Search \/ Place \/ Unlink \/ Inner \/ Minimum
  \/ Back \/ Fault \/ Return \/ Stopped

Spec == Init /\ [][Next]_vars
-----------------------------------------------------------------------------
\* The heights that avl_right_rotate leaves may be wrong, and every later
\* rotation starts from them, but the error goes one way: no walk down the
\* tree, in a lookup, an insertion or a removal, passes more nodes than the
\* height of the root says.
HeightsBound ==
  doing \in {"get", "insert", "remove", "minimum"} => steps <= avl_height(nodes, tree)

Map ==
  [k \in Keys |-> IF Present(k) THEN nodes[CHOOSE n \in used : nodes[n].key = k].value
                                ELSE NULL]

\* A removed inner node has the key of its successor, which is still there.
Replacing == \E m, n \in used : m # n /\ nodes[m].key = key /\ nodes[n].key = key

\* The call that runs, until it has changed or read the entry of its key.
Asked ==
  IF doing \in {"get", "insert"} \/ (doing \in {"remove", "minimum"} /\ ~Replacing)
  THEN [op |-> IF doing = "minimum" THEN "remove" ELSE doing,
        key |-> key, value |-> IF doing = "insert" THEN value ELSE NULL]
  ELSE [op |-> "none", key |-> NULL, value |-> NULL]

\* The tree is the map that kernel.c takes it for: each insertion and removal,
\* with its rotations and the replacement of a removed inner node by its
\* successor, changes the entry of its key, once, and no other, and a lookup
\* returns the entry of its key.
Abstract == INSTANCE KeyedMap WITH map <- Map, asked <- Asked

ImplementsMap == Abstract!Spec

\* avl_insert "Inserts a new node into an AVL tree": no rotation needs a child
\* that is not there.
RotationsSafe == doing # "fault"
=============================================================================
