---------------------------- MODULE AvlTreeProofs ---------------------------
(***************************************************************************)
(* The trees of AvlTree are search trees and implement KeyedMap, for all   *)
(* keys and any number of nodes, and a walk down one is no longer than the *)
(* height of its root says.                                                *)
(***************************************************************************)
EXTENDS AvlTree, SequenceTheorems, TLAPS

Pointers == Blocks \cup {NULL}

Node == [height : Nat, key : Keys, value : Values \cup {NULL},
         left : Pointers, right : Pointers]

Memory == [Blocks -> Node]

TypeInv ==
  /\ tree \in Pointers
  /\ nodes \in Memory
  /\ used \in SUBSET Blocks
  /\ doing \in {"none", "get", "insert", "remove", "minimum", "inserted", "removed",
                "fault"}
  /\ key \in Keys
  /\ value \in Values \cup {NULL}
  /\ path \in Seq(Blocks)
  /\ at \in Pointers
  /\ steps \in Nat

\* The pointers of the values that the tree holds.
ValueInv ==
  /\ doing = "insert" => value \in Values
  /\ \A n \in used : nodes[n].value \in Values
-----------------------------------------------------------------------------
(***************************************************************************)
(* Search trees.  Each node n has its place: the keys that lead a search   *)
(* to it lie between lo[n] and hi[n].                                      *)
(***************************************************************************)
\* A subtree in the place from low to high: a missing one leaves out no key.
Edge(mem, u, lo, hi, c, low, high) ==
  IF c = NULL
  THEN \A j \in u : mem[j].key <= low \/ high <= mem[j].key
  ELSE c \in u /\ lo[c] = low /\ hi[c] = high

Fits(mem, u, lo, hi, n) ==
  /\ lo[n] < mem[n].key /\ mem[n].key < hi[n]
  /\ Edge(mem, u, lo, hi, mem[n].left, lo[n], mem[n].key)
  /\ Edge(mem, u, lo, hi, mem[n].right, mem[n].key, hi[n])

\* The place of m is within that of n's left or right subtree.
Below(mem, lo, hi, m, n) ==
  \/ lo[n] <= lo[m] /\ hi[m] <= mem[n].key
  \/ mem[n].key <= lo[m] /\ hi[m] <= hi[n]

Apart(mem, lo, hi, m, n) ==
  \/ Below(mem, lo, hi, m, n)
  \/ Below(mem, lo, hi, n, m)
  \/ hi[m] <= lo[n]
  \/ hi[n] <= lo[m]

Sound(mem, u, lo, hi) ==
  /\ \A n \in u : Fits(mem, u, lo, hi, n)
  /\ \A m, n \in u : m # n => Apart(mem, lo, hi, m, n)

Placed(mem, u, lo, hi) ==
  /\ mem \in Memory
  /\ u \in SUBSET Blocks
  /\ lo \in [Blocks -> Int]
  /\ hi \in [Blocks -> Int]
  /\ Sound(mem, u, lo, hi)

\* Every key has its place below n.
Spans(lo, hi, n) == \A k \in Keys : lo[n] < k /\ k < hi[n]

Rooted(top, u, lo, hi) ==
  IF top = NULL THEN u = {} ELSE top \in u /\ Spans(lo, hi, top)

\* The child of t on the side of k.
Side(mem, t, k) == IF k < mem[t].key THEN mem[t].left ELSE mem[t].right

\* The nodes of s, each the child of the one before it on the side of k.
Chain(mem, u, lo, hi, s, k) ==
  /\ \A j \in 1..Len(s) : s[j] \in u
  /\ \A j \in 1..Len(s) - 1 : s[j + 1] = Side(mem, s[j], k)
  /\ \A i, j \in 1..Len(s) : i < j => Below(mem, lo, hi, s[j], s[i])

\* The subtree of a call that has returned counts as linked.
Up == doing \in {"inserted", "removed", "fault"}
Now == IF Up /\ path # <<>> THEN Linked(Last(path)) ELSE nodes
Top == IF Up /\ path = <<>> THEN at ELSE tree

\* In the inner call of avl_remove the key of the node d to be replaced is
\* there twice: the order is that of the tree with its old key.
Pending(mem, lo, d, old) ==
  /\ doing = "remove"
  /\ old < key
  /\ \E j \in 1..Len(path) : path[j] = d
  /\ nodes[d].key = key
  /\ mem = [nodes EXCEPT ![d].key = old]
  /\ \A j \in used : mem[j].key <= old \/ key <= mem[j].key
  /\ \E n \in used \ {d} : nodes[n].key = key /\ nodes[n].value = nodes[d].value
  /\ at # NULL /\ at # d /\ lo[at] = old

Ordered(mem, lo) == mem = Now \/ \E d \in used, old \in Keys : Pending(mem, lo, d, old)

PathInv(mem, lo, hi) ==
  /\ path # <<>> => path[1] = tree
  /\ Chain(mem, used, lo, hi, path, key)

AtInv(mem, lo, hi) ==
  /\ ~Up => \A j \in 1..Len(path) : lo[path[j]] < key /\ key < hi[path[j]]
  /\ doing \in {"insert", "remove"} =>
       at = IF path = <<>> THEN tree ELSE Side(mem, Last(path), key)
  /\ doing \in {"get", "insert", "remove"} =>
       IF at = NULL THEN \A n \in used : mem[n].key # key
       ELSE at \in used /\ lo[at] < key /\ key < hi[at]
  /\ doing = "get" => path = <<>>
  /\ doing = "minimum" =>
       /\ path # <<>>
       /\ LET t == Last(path)
          IN /\ mem[t].key = key /\ mem[t].right # NULL
             /\ at \in used /\ lo[at] = key /\ hi[at] <= hi[t]

Shape(mem, lo, hi) ==
  /\ Ordered(mem, lo)
  /\ Placed(mem, used, lo, hi)
  /\ Rooted(Top, used, lo, hi)
  /\ doing # "none" => PathInv(mem, lo, hi) /\ AtInv(mem, lo, hi)

\* Heights grow from child to parent, but at the node whose subtree has just
\* changed.
Tall(mem, n) ==
  /\ avl_height(mem, mem[n].left) < mem[n].height
  /\ avl_height(mem, mem[n].right) < mem[n].height

HeightInv ==
  \A n \in used : Tall(Now, n) \/ (Up /\ path # <<>> /\ n = Last(path))

StepInv ==
  doing \in {"get", "insert", "remove", "minimum"} =>
    /\ Len(path) <= steps
    /\ steps + avl_height(nodes, at) <= avl_height(nodes, tree)
    /\ \A j \in 1..Len(path) : j - 1 + nodes[path[j]].height <= avl_height(nodes, tree)

IInv ==
  /\ TypeInv
  /\ ValueInv
  /\ HeightInv
  /\ StepInv
  /\ \E mem, lo, hi : Shape(mem, lo, hi)
-----------------------------------------------------------------------------
\* The fields of a node.
LEMMA Fields ==
  ASSUME NEW mem \in Memory, NEW n \in Blocks
  PROVE  /\ mem[n].key \in Keys /\ mem[n].key \in Int
         /\ mem[n].height \in Nat
         /\ mem[n].value \in Values \cup {NULL}
         /\ mem[n].left \in Pointers /\ mem[n].right \in Pointers
  <1>1. Keys \subseteq Int
    BY AvlAssumption
  <1> QED
    BY <1>1 DEF Memory, Node

\* What Sound says of a node, with the case of a missing child apart.
LEMMA FitsLeft ==
  ASSUME NEW mem, NEW u, NEW lo, NEW hi, Placed(mem, u, lo, hi), NEW n \in u
  PROVE  /\ n \in Blocks
         /\ mem[n].key \in Int /\ lo[n] \in Int /\ hi[n] \in Int
         /\ lo[n] < mem[n].key /\ mem[n].key < hi[n]
         /\ mem[n].left \in Pointers /\ mem[n].right \in Pointers
         /\ mem[n].left = NULL =>
              \A j \in u : mem[j].key <= lo[n] \/ mem[n].key <= mem[j].key
         /\ mem[n].right = NULL =>
              \A j \in u : mem[j].key <= mem[n].key \/ hi[n] <= mem[j].key
         /\ mem[n].left # NULL =>
              mem[n].left \in u /\ lo[mem[n].left] = lo[n] /\ hi[mem[n].left] = mem[n].key
         /\ mem[n].right # NULL =>
              mem[n].right \in u /\ lo[mem[n].right] = mem[n].key /\ hi[mem[n].right] = hi[n]
  <1>1. mem \in Memory /\ n \in Blocks /\ lo \in [Blocks -> Int] /\ hi \in [Blocks -> Int]
    BY DEF Placed
  <1>2. Fits(mem, u, lo, hi, n)
    BY DEF Placed, Sound
  <1>3. mem[n].key \in Int /\ mem[n].left \in Pointers /\ mem[n].right \in Pointers
    BY <1>1, Fields
  <1> QED
    BY <1>1, <1>2, <1>3 DEF Fits, Edge

\* Of the places of two nodes one lies within a subtree's of the other, or
\* they have no key in common.
LEMMA ApartCases ==
  ASSUME NEW mem, NEW u, NEW lo, NEW hi, Placed(mem, u, lo, hi),
         NEW m \in u, NEW n \in u, m # n
  PROVE  \/ lo[n] <= lo[m] /\ hi[m] <= mem[n].key
         \/ mem[n].key <= lo[m] /\ hi[m] <= hi[n]
         \/ lo[m] <= lo[n] /\ hi[n] <= mem[m].key
         \/ mem[m].key <= lo[n] /\ hi[n] <= hi[m]
         \/ hi[m] <= lo[n]
         \/ hi[n] <= lo[m]
  BY DEF Placed, Sound, Apart, Below

\* No two nodes have the same key.
LEMMA Distinct ==
  ASSUME NEW mem, NEW u, NEW lo, NEW hi, Placed(mem, u, lo, hi),
         NEW m \in u, NEW n \in u, mem[m].key = mem[n].key
  PROVE  m = n
  BY FitsLeft, ApartCases

\* A node has one parent and one place below it.
LEMMA OneParent ==
  ASSUME NEW mem, NEW u, NEW lo, NEW hi, Placed(mem, u, lo, hi),
         NEW m \in u, NEW n \in u, NEW c, c # NULL,
         c = mem[m].left \/ c = mem[m].right,
         c = mem[n].left \/ c = mem[n].right
  PROVE  m = n
  <1> SUFFICES ASSUME m # n
               PROVE  FALSE
    OBVIOUS
  <1>1. /\ lo[m] \in Int /\ hi[m] \in Int /\ mem[m].key \in Int
        /\ lo[m] < mem[m].key /\ mem[m].key < hi[m]
        /\ lo[n] \in Int /\ hi[n] \in Int /\ mem[n].key \in Int
        /\ lo[n] < mem[n].key /\ mem[n].key < hi[n]
    BY FitsLeft
  <1>2. \/ lo[c] = lo[m] /\ hi[c] = mem[m].key
        \/ lo[c] = mem[m].key /\ hi[c] = hi[m]
    BY FitsLeft
  <1>3. \/ lo[c] = lo[n] /\ hi[c] = mem[n].key
        \/ lo[c] = mem[n].key /\ hi[c] = hi[n]
    BY FitsLeft
  <1>4. mem[m].key # mem[n].key
    BY Distinct
  <1> QED
    BY <1>1, <1>2, <1>3, <1>4, ApartCases

\* A child is another node, and the two children are two.
LEMMA Children ==
  ASSUME NEW mem, NEW u, NEW lo, NEW hi, Placed(mem, u, lo, hi), NEW n \in u
  PROVE  /\ mem[n].left # NULL => mem[n].left # n /\ mem[n].left # mem[n].right
         /\ mem[n].right # NULL => mem[n].right # n /\ mem[n].left # mem[n].right
  BY FitsLeft
-----------------------------------------------------------------------------
(***************************************************************************)
(* Rotations.  b is a with x, a child of t, raised over t: a pointer to t  *)
(* leads to x now.                                                         *)
(***************************************************************************)
Redirected(a, b, u, t, x) ==
  \A n \in u \ {t, x} :
    /\ b[n].key = a[n].key /\ b[n].value = a[n].value /\ b[n].height = a[n].height
    /\ a[n].left = t => b[n].left = x
    /\ a[n].left # t => b[n].left = a[n].left
    /\ a[n].right = t => b[n].right = x
    /\ a[n].right # t => b[n].right = a[n].right

SameKeys(a, b, u) == \A n \in u : b[n].key = a[n].key

\* x gets the place of t, and t what is left of it on the far side of x.
LEMMA RightTurn ==
  ASSUME NEW a, NEW u, NEW lo, NEW hi, Placed(a, u, lo, hi),
         NEW t \in u, NEW x, x = a[t].left, x # NULL,
         NEW b \in Memory, Redirected(a, b, u, t, x),
         b[x].key = a[x].key, b[x].left = a[x].left, b[x].right = t,
         b[t].key = a[t].key, b[t].left = a[x].right, b[t].right = a[t].right,
         NEW lo2 \in [Blocks -> Int], NEW hi2 \in [Blocks -> Int],
         lo2[t] = a[x].key, \A n \in u \ {t} : lo2[n] = lo[n],
         hi2[x] = hi[t], \A n \in u \ {x} : hi2[n] = hi[n]
  PROVE  Placed(b, u, lo2, hi2)
  <1>1. /\ x \in u /\ x # t
        /\ lo[x] = lo[t] /\ hi[x] = a[t].key
    BY FitsLeft, Children
  <1>2. /\ lo[t] \in Int /\ hi[t] \in Int /\ a[t].key \in Int /\ a[x].key \in Int
        /\ lo[t] < a[x].key /\ a[x].key < a[t].key /\ a[t].key < hi[t]
    BY <1>1, FitsLeft
  <1>3. SameKeys(a, b, u)
    BY <1>1 DEF SameKeys, Redirected
  <1>4. \A n \in u : n # t /\ n # x => lo2[n] = lo[n] /\ hi2[n] = hi[n]
    OBVIOUS
  <1>5. /\ lo2[x] = lo[t] /\ hi2[x] = hi[t]
        /\ lo2[t] = a[x].key /\ hi2[t] = hi[t]
    BY <1>1
  <1>6. Fits(b, u, lo2, hi2, x)
    <2>1. Edge(b, u, lo2, hi2, b[x].left, lo2[x], b[x].key)
      <3>1. CASE a[x].left = NULL
        BY <1>1, <1>3, <1>5, <3>1, FitsLeft DEF Edge, SameKeys
      <3>2. CASE a[x].left # NULL
        <4>1. a[x].left \in u /\ lo[a[x].left] = lo[x] /\ hi[a[x].left] = a[x].key
          BY <1>1, <3>2, FitsLeft
        <4>2. a[x].left # t /\ a[x].left # x
          BY <1>1, <1>2, <4>1
        <4> QED
          BY <1>1, <1>4, <1>5, <3>2, <4>1, <4>2 DEF Edge
      <3> QED
        BY <3>1, <3>2
    <2>2. Edge(b, u, lo2, hi2, b[x].right, b[x].key, hi2[x])
      <3>1. t # NULL
        BY AvlAssumption DEF Placed
      <3> QED
        BY <1>5, <3>1 DEF Edge
    <2> QED
      BY <1>2, <1>5, <2>1, <2>2 DEF Fits
  <1>7. Fits(b, u, lo2, hi2, t)
    <2>1. Edge(b, u, lo2, hi2, b[t].left, lo2[t], b[t].key)
      <3>1. CASE a[x].right = NULL
        BY <1>1, <1>3, <1>5, <3>1, FitsLeft DEF Edge, SameKeys
      <3>2. CASE a[x].right # NULL
        <4>1. a[x].right \in u /\ lo[a[x].right] = a[x].key /\ hi[a[x].right] = hi[x]
          BY <1>1, <3>2, FitsLeft
        <4>2. a[x].right # t /\ a[x].right # x
          BY <1>1, <1>2, <4>1
        <4> QED
          BY <1>1, <1>4, <1>5, <3>2, <4>1, <4>2 DEF Edge
      <3> QED
        BY <3>1, <3>2
    <2>2. Edge(b, u, lo2, hi2, b[t].right, b[t].key, hi2[t])
      <3>1. CASE a[t].right = NULL
        BY <1>3, <1>5, <3>1, FitsLeft DEF Edge, SameKeys
      <3>2. CASE a[t].right # NULL
        <4>1. a[t].right \in u /\ lo[a[t].right] = a[t].key /\ hi[a[t].right] = hi[t]
          BY <3>2, FitsLeft
        <4>2. a[t].right # t /\ a[t].right # x
          BY <3>2, Children
        <4> QED
          BY <1>4, <1>5, <3>2, <4>1, <4>2 DEF Edge
      <3> QED
        BY <3>1, <3>2
    <2> QED
      BY <1>2, <1>5, <2>1, <2>2 DEF Fits
  <1>8. ASSUME NEW n \in u, n # t, n # x
        PROVE  Fits(b, u, lo2, hi2, n)
    <2>1. /\ lo2[n] = lo[n] /\ hi2[n] = hi[n] /\ b[n].key = a[n].key
          /\ lo[n] < a[n].key /\ a[n].key < hi[n]
      BY <1>3, <1>4, <1>8, FitsLeft DEF SameKeys
    <2>2. Edge(b, u, lo2, hi2, b[n].left, lo2[n], b[n].key)
      <3>1. CASE a[n].left = NULL
        <4>1. b[n].left = NULL
          BY <1>8, <3>1, AvlAssumption DEF Redirected, Placed
        <4> QED
          BY <1>3, <2>1, <3>1, <4>1, FitsLeft DEF Edge, SameKeys
      <3>2. CASE a[n].left = t
        <4>1. b[n].left = x /\ lo[t] = lo[n] /\ hi[t] = a[n].key
          BY <1>8, <3>2, FitsLeft, AvlAssumption DEF Redirected, Placed
        <4> QED
          BY <1>1, <1>5, <2>1, <4>1 DEF Edge
      <3>3. CASE a[n].left # NULL /\ a[n].left # t
        <4>1. a[n].left \in u /\ lo[a[n].left] = lo[n] /\ hi[a[n].left] = a[n].key
          BY <3>3, FitsLeft
        <4>2. a[n].left # x
          BY <1>8, OneParent
        <4>3. b[n].left = a[n].left
          BY <1>8, <3>3 DEF Redirected
        <4> QED
          BY <1>4, <2>1, <3>3, <4>1, <4>2, <4>3 DEF Edge
      <3> QED
        BY <3>1, <3>2, <3>3
    <2>3. Edge(b, u, lo2, hi2, b[n].right, b[n].key, hi2[n])
      <3>1. CASE a[n].right = NULL
        <4>1. b[n].right = NULL
          BY <1>8, <3>1, AvlAssumption DEF Redirected, Placed
        <4> QED
          BY <1>3, <2>1, <3>1, <4>1, FitsLeft DEF Edge, SameKeys
      <3>2. CASE a[n].right = t
        <4>1. b[n].right = x /\ lo[t] = a[n].key /\ hi[t] = hi[n]
          BY <1>8, <3>2, FitsLeft, AvlAssumption DEF Redirected, Placed
        <4> QED
          BY <1>1, <1>5, <2>1, <4>1 DEF Edge
      <3>3. CASE a[n].right # NULL /\ a[n].right # t
        <4>1. a[n].right \in u /\ lo[a[n].right] = a[n].key /\ hi[a[n].right] = hi[n]
          BY <3>3, FitsLeft
        <4>2. a[n].right # x
          BY <1>8, OneParent
        <4>3. b[n].right = a[n].right
          BY <1>8, <3>3 DEF Redirected
        <4> QED
          BY <1>4, <2>1, <3>3, <4>1, <4>2, <4>3 DEF Edge
      <3> QED
        BY <3>1, <3>2, <3>3
    <2> QED
      BY <2>1, <2>2, <2>3 DEF Fits
  <1>9. ASSUME NEW m \in u, NEW n \in u, m # n
        PROVE  Apart(b, lo2, hi2, m, n)
    <2>0. b[m].key = a[m].key /\ b[n].key = a[n].key
      BY <1>3 DEF SameKeys
    <2>1. ASSUME NEW i \in u, i # t, i # x
          PROVE  Apart(b, lo2, hi2, i, t) /\ Apart(b, lo2, hi2, i, x)
      <3>1. /\ lo[i] \in Int /\ hi[i] \in Int /\ a[i].key \in Int
            /\ lo[i] < a[i].key /\ a[i].key < hi[i]
            /\ lo2[i] = lo[i] /\ hi2[i] = hi[i]
            /\ b[i].key = a[i].key /\ b[t].key = a[t].key /\ b[x].key = a[x].key
        BY <1>4, <1>3, <1>1, <2>1, FitsLeft DEF SameKeys
      <3>2. \/ lo[t] <= lo[i] /\ hi[i] <= a[t].key
            \/ a[t].key <= lo[i] /\ hi[i] <= hi[t]
            \/ lo[i] <= lo[t] /\ hi[t] <= a[i].key
            \/ a[i].key <= lo[t] /\ hi[t] <= hi[i]
            \/ hi[i] <= lo[t]
            \/ hi[t] <= lo[i]
        BY <2>1, ApartCases
      <3>3. \/ lo[t] <= lo[i] /\ hi[i] <= a[x].key
            \/ a[x].key <= lo[i] /\ hi[i] <= a[t].key
            \/ lo[i] <= lo[t] /\ a[t].key <= a[i].key
            \/ a[i].key <= lo[t] /\ a[t].key <= hi[i]
            \/ hi[i] <= lo[t]
            \/ a[t].key <= lo[i]
        BY <2>1, <1>1, ApartCases
      <3> QED
        BY <1>2, <1>5, <3>1, <3>2, <3>3 DEF Apart, Below
    <2>2. Apart(b, lo2, hi2, x, t)
      BY <1>2, <1>5 DEF Apart, Below
    <2>3. CASE m \notin {t, x} /\ n \notin {t, x}
      BY <1>4, <1>9, <2>0, <2>3, ApartCases DEF Apart, Below
    <2>4. CASE m \notin {t, x} /\ n \in {t, x}
      BY <2>1, <2>4
    <2>5. CASE n \notin {t, x} /\ m \in {t, x}
      BY <2>1, <2>5 DEF Apart
    <2>6. CASE m \in {t, x} /\ n \in {t, x}
      BY <1>9, <2>2, <2>6 DEF Apart
    <2> QED
      BY <2>3, <2>4, <2>5, <2>6
  <1> QED
    BY <1>6, <1>7, <1>8, <1>9 DEF Placed, Sound

\* The mirror image.
LEMMA LeftTurn ==
  ASSUME NEW a, NEW u, NEW lo, NEW hi, Placed(a, u, lo, hi),
         NEW t \in u, NEW x, x = a[t].right, x # NULL,
         NEW b \in Memory, Redirected(a, b, u, t, x),
         b[x].key = a[x].key, b[x].right = a[x].right, b[x].left = t,
         b[t].key = a[t].key, b[t].right = a[x].left, b[t].left = a[t].left,
         NEW hi2 \in [Blocks -> Int], NEW lo2 \in [Blocks -> Int],
         hi2[t] = a[x].key, \A n \in u \ {t} : hi2[n] = hi[n],
         lo2[x] = lo[t], \A n \in u \ {x} : lo2[n] = lo[n]
  PROVE  Placed(b, u, lo2, hi2)
  <1>1. /\ x \in u /\ x # t
        /\ hi[x] = hi[t] /\ lo[x] = a[t].key
    BY FitsLeft, Children
  <1>2. /\ hi[t] \in Int /\ lo[t] \in Int /\ a[t].key \in Int /\ a[x].key \in Int
        /\ hi[t] > a[x].key /\ a[x].key > a[t].key /\ a[t].key > lo[t]
    BY <1>1, FitsLeft
  <1>3. SameKeys(a, b, u)
    BY <1>1 DEF SameKeys, Redirected
  <1>4. \A n \in u : n # t /\ n # x => hi2[n] = hi[n] /\ lo2[n] = lo[n]
    OBVIOUS
  <1>5. /\ hi2[x] = hi[t] /\ lo2[x] = lo[t]
        /\ hi2[t] = a[x].key /\ lo2[t] = lo[t]
    BY <1>1
  <1>6. Fits(b, u, lo2, hi2, x)
    <2>1. Edge(b, u, lo2, hi2, b[x].right, b[x].key, hi2[x])
      <3>1. CASE a[x].right = NULL
        BY <1>1, <1>3, <1>5, <3>1, FitsLeft DEF Edge, SameKeys
      <3>2. CASE a[x].right # NULL
        <4>1. a[x].right \in u /\ hi[a[x].right] = hi[x] /\ lo[a[x].right] = a[x].key
          BY <1>1, <3>2, FitsLeft
        <4>2. a[x].right # t /\ a[x].right # x
          BY <1>1, <1>2, <4>1
        <4> QED
          BY <1>1, <1>4, <1>5, <3>2, <4>1, <4>2 DEF Edge
      <3> QED
        BY <3>1, <3>2
    <2>2. Edge(b, u, lo2, hi2, b[x].left, lo2[x], b[x].key)
      <3>1. t # NULL
        BY AvlAssumption DEF Placed
      <3> QED
        BY <1>5, <3>1 DEF Edge
    <2> QED
      BY <1>2, <1>5, <2>1, <2>2 DEF Fits
  <1>7. Fits(b, u, lo2, hi2, t)
    <2>1. Edge(b, u, lo2, hi2, b[t].right, b[t].key, hi2[t])
      <3>1. CASE a[x].left = NULL
        BY <1>1, <1>3, <1>5, <3>1, FitsLeft DEF Edge, SameKeys
      <3>2. CASE a[x].left # NULL
        <4>1. a[x].left \in u /\ hi[a[x].left] = a[x].key /\ lo[a[x].left] = lo[x]
          BY <1>1, <3>2, FitsLeft
        <4>2. a[x].left # t /\ a[x].left # x
          BY <1>1, <1>2, <4>1
        <4> QED
          BY <1>1, <1>4, <1>5, <3>2, <4>1, <4>2 DEF Edge
      <3> QED
        BY <3>1, <3>2
    <2>2. Edge(b, u, lo2, hi2, b[t].left, lo2[t], b[t].key)
      <3>1. CASE a[t].left = NULL
        BY <1>3, <1>5, <3>1, FitsLeft DEF Edge, SameKeys
      <3>2. CASE a[t].left # NULL
        <4>1. a[t].left \in u /\ hi[a[t].left] = a[t].key /\ lo[a[t].left] = lo[t]
          BY <3>2, FitsLeft
        <4>2. a[t].left # t /\ a[t].left # x
          BY <3>2, Children
        <4> QED
          BY <1>4, <1>5, <3>2, <4>1, <4>2 DEF Edge
      <3> QED
        BY <3>1, <3>2
    <2> QED
      BY <1>2, <1>5, <2>1, <2>2 DEF Fits
  <1>8. ASSUME NEW n \in u, n # t, n # x
        PROVE  Fits(b, u, lo2, hi2, n)
    <2>1. /\ hi2[n] = hi[n] /\ lo2[n] = lo[n] /\ b[n].key = a[n].key
          /\ hi[n] > a[n].key /\ a[n].key > lo[n]
      BY <1>3, <1>4, <1>8, FitsLeft DEF SameKeys
    <2>2. Edge(b, u, lo2, hi2, b[n].right, b[n].key, hi2[n])
      <3>1. CASE a[n].right = NULL
        <4>1. b[n].right = NULL
          BY <1>8, <3>1, AvlAssumption DEF Redirected, Placed
        <4> QED
          BY <1>3, <2>1, <3>1, <4>1, FitsLeft DEF Edge, SameKeys
      <3>2. CASE a[n].right = t
        <4>1. b[n].right = x /\ hi[t] = hi[n] /\ lo[t] = a[n].key
          BY <1>8, <3>2, FitsLeft, AvlAssumption DEF Redirected, Placed
        <4> QED
          BY <1>1, <1>5, <2>1, <4>1 DEF Edge
      <3>3. CASE a[n].right # NULL /\ a[n].right # t
        <4>1. a[n].right \in u /\ hi[a[n].right] = hi[n] /\ lo[a[n].right] = a[n].key
          BY <3>3, FitsLeft
        <4>2. a[n].right # x
          BY <1>8, OneParent
        <4>3. b[n].right = a[n].right
          BY <1>8, <3>3 DEF Redirected
        <4> QED
          BY <1>4, <2>1, <3>3, <4>1, <4>2, <4>3 DEF Edge
      <3> QED
        BY <3>1, <3>2, <3>3
    <2>3. Edge(b, u, lo2, hi2, b[n].left, lo2[n], b[n].key)
      <3>1. CASE a[n].left = NULL
        <4>1. b[n].left = NULL
          BY <1>8, <3>1, AvlAssumption DEF Redirected, Placed
        <4> QED
          BY <1>3, <2>1, <3>1, <4>1, FitsLeft DEF Edge, SameKeys
      <3>2. CASE a[n].left = t
        <4>1. b[n].left = x /\ hi[t] = a[n].key /\ lo[t] = lo[n]
          BY <1>8, <3>2, FitsLeft, AvlAssumption DEF Redirected, Placed
        <4> QED
          BY <1>1, <1>5, <2>1, <4>1 DEF Edge
      <3>3. CASE a[n].left # NULL /\ a[n].left # t
        <4>1. a[n].left \in u /\ hi[a[n].left] = a[n].key /\ lo[a[n].left] = lo[n]
          BY <3>3, FitsLeft
        <4>2. a[n].left # x
          BY <1>8, OneParent
        <4>3. b[n].left = a[n].left
          BY <1>8, <3>3 DEF Redirected
        <4> QED
          BY <1>4, <2>1, <3>3, <4>1, <4>2, <4>3 DEF Edge
      <3> QED
        BY <3>1, <3>2, <3>3
    <2> QED
      BY <2>1, <2>2, <2>3 DEF Fits
  <1>9. ASSUME NEW m \in u, NEW n \in u, m # n
        PROVE  Apart(b, lo2, hi2, m, n)
    <2>0. b[m].key = a[m].key /\ b[n].key = a[n].key
      BY <1>3 DEF SameKeys
    <2>1. ASSUME NEW i \in u, i # t, i # x
          PROVE  Apart(b, lo2, hi2, i, t) /\ Apart(b, lo2, hi2, i, x)
      <3>1. /\ hi[i] \in Int /\ lo[i] \in Int /\ a[i].key \in Int
            /\ hi[i] > a[i].key /\ a[i].key > lo[i]
            /\ hi2[i] = hi[i] /\ lo2[i] = lo[i]
            /\ b[i].key = a[i].key /\ b[t].key = a[t].key /\ b[x].key = a[x].key
        BY <1>4, <1>3, <1>1, <2>1, FitsLeft DEF SameKeys
      <3>2. \/ hi[t] >= hi[i] /\ lo[i] >= a[t].key
            \/ a[t].key >= hi[i] /\ lo[i] >= lo[t]
            \/ hi[i] >= hi[t] /\ lo[t] >= a[i].key
            \/ a[i].key >= hi[t] /\ lo[t] >= lo[i]
            \/ lo[i] >= hi[t]
            \/ lo[t] >= hi[i]
        BY <2>1, ApartCases
      <3>3. \/ hi[t] >= hi[i] /\ lo[i] >= a[x].key
            \/ a[x].key >= hi[i] /\ lo[i] >= a[t].key
            \/ hi[i] >= hi[t] /\ a[t].key >= a[i].key
            \/ a[i].key >= hi[t] /\ a[t].key >= lo[i]
            \/ lo[i] >= hi[t]
            \/ a[t].key >= hi[i]
        BY <2>1, <1>1, ApartCases
      <3> QED
        BY <1>2, <1>5, <3>1, <3>2, <3>3 DEF Apart, Below
    <2>2. Apart(b, lo2, hi2, x, t)
      BY <1>2, <1>5 DEF Apart, Below
    <2>3. CASE m \notin {t, x} /\ n \notin {t, x}
      BY <1>4, <1>9, <2>0, <2>3, ApartCases DEF Apart, Below
    <2>4. CASE m \notin {t, x} /\ n \in {t, x}
      BY <2>1, <2>4
    <2>5. CASE n \notin {t, x} /\ m \in {t, x}
      BY <2>1, <2>5 DEF Apart
    <2>6. CASE m \in {t, x} /\ n \in {t, x}
      BY <1>9, <2>2, <2>6 DEF Apart
    <2> QED
      BY <2>3, <2>4, <2>5, <2>6
  <1> QED
    BY <1>6, <1>7, <1>8, <1>9 DEF Placed, Sound

\* The height of a subtree depends on its root only.
LEMMA Heights ==
  ASSUME NEW mem \in Memory, NEW c \in Pointers
  PROVE  /\ avl_height(mem, c) \in Nat
         /\ c = NULL => avl_height(mem, c) = 0
         /\ c # NULL => c \in Blocks /\ avl_height(mem, c) = mem[c].height
  BY Fields DEF avl_height, Pointers

\* avl_update_height sets one field.
LEMMA Updated ==
  ASSUME NEW mem \in Memory, NEW t \in Blocks, NEW m, m = avl_update_height(mem, t)
  PROVE  /\ m \in Memory
         /\ \A n \in Blocks : n # t => m[n] = mem[n]
         /\ m[t].key = mem[t].key /\ m[t].value = mem[t].value
         /\ m[t].left = mem[t].left /\ m[t].right = mem[t].right
         /\ m[t].height =
              1 + Larger(avl_height(mem, mem[t].left), avl_height(mem, mem[t].right))
  <1> DEFINE h == 1 + Larger(avl_height(mem, mem[t].left), avl_height(mem, mem[t].right))
  <1>1. h \in Nat
    BY Fields, Heights DEF Larger
  <1>2. m = [mem EXCEPT ![t].height = h]
    BY DEF avl_update_height
  <1> HIDE DEF h
  <1>3. m \in Memory
    BY <1>1, <1>2 DEF Memory, Node
  <1>4. /\ \A n \in Blocks : n # t => m[n] = mem[n]
        /\ m[t].key = mem[t].key /\ m[t].value = mem[t].value
        /\ m[t].left = mem[t].left /\ m[t].right = mem[t].right
        /\ m[t].height = h
    BY <1>2 DEF Memory, Node
  <1> QED
    BY <1>3, <1>4 DEF h

\* What the rotations do to the nodes.
LEMMA RightRotated ==
  ASSUME NEW mem \in Memory, NEW t \in Blocks, NEW x \in Blocks, x = mem[t].left, x # t,
         mem[x].right # x, mem[t].right # x,
         NEW r, r = avl_right_rotate(mem, t)
  PROVE  /\ r.tree = x /\ r.mem \in Memory
         /\ \A n \in Blocks : n # t /\ n # x => r.mem[n] = mem[n]
         /\ r.mem[x].key = mem[x].key /\ r.mem[x].value = mem[x].value
         /\ r.mem[x].left = mem[x].left /\ r.mem[x].right = t
         /\ r.mem[x].height = 1 + Larger(avl_height(mem, mem[x].left), mem[t].height)
         /\ r.mem[t].key = mem[t].key /\ r.mem[t].value = mem[t].value
         /\ r.mem[t].left = mem[x].right /\ r.mem[t].right = mem[t].right
         /\ r.mem[t].height =
              1 + Larger(avl_height(mem, mem[x].right), avl_height(mem, mem[t].right))
  <1> DEFINE a == [mem EXCEPT ![x].right = t, ![t].left = mem[x].right]
             b == avl_update_height(a, x)
             c == avl_update_height(b, t)
  <1>1. /\ a \in Memory
        /\ \A n \in Blocks : n # t /\ n # x => a[n] = mem[n]
        /\ a[x].key = mem[x].key /\ a[x].value = mem[x].value
        /\ a[x].left = mem[x].left /\ a[x].right = t
        /\ a[t].key = mem[t].key /\ a[t].value = mem[t].value
        /\ a[t].left = mem[x].right /\ a[t].right = mem[t].right
        /\ a[t].height = mem[t].height /\ a[x].height = mem[x].height
    BY DEF Memory, Node, Pointers
  <1>2. r = [mem |-> c, tree |-> x]
    BY DEF avl_right_rotate
  <1> HIDE DEF a
  <1>3. /\ b \in Memory
        /\ \A n \in Blocks : n # x => b[n] = a[n]
        /\ b[x].key = a[x].key /\ b[x].value = a[x].value
        /\ b[x].left = a[x].left /\ b[x].right = a[x].right
        /\ b[x].height = 1 + Larger(avl_height(a, a[x].left), avl_height(a, a[x].right))
    BY <1>1, Updated
  <1> HIDE DEF b
  <1>4. /\ c \in Memory
        /\ \A n \in Blocks : n # t => c[n] = b[n]
        /\ c[t].key = b[t].key /\ c[t].value = b[t].value
        /\ c[t].left = b[t].left /\ c[t].right = b[t].right
        /\ c[t].height = 1 + Larger(avl_height(b, b[t].left), avl_height(b, b[t].right))
    BY <1>3, Updated
  <1> HIDE DEF c
  <1>5. \A n \in Pointers : avl_height(a, n) = avl_height(mem, n)
    BY <1>1 DEF avl_height, Pointers
  <1>6. \A n \in Pointers : n # x => avl_height(b, n) = avl_height(mem, n)
    BY <1>1, <1>3 DEF avl_height, Pointers
  <1>7. avl_height(a, a[x].left) = avl_height(mem, mem[x].left)
    BY <1>1, <1>5, Fields
  <1>8. avl_height(a, a[x].right) = mem[t].height
    BY <1>1, AvlAssumption DEF avl_height
  <1>9. /\ avl_height(b, b[t].left) = avl_height(mem, mem[x].right)
        /\ avl_height(b, b[t].right) = avl_height(mem, mem[t].right)
    BY <1>1, <1>3, <1>6, Fields
  <1>10. r.tree = x /\ r.mem = c
    BY <1>2
  <1>11. \A n \in Blocks : n # t /\ n # x => c[n] = mem[n]
    BY <1>1, <1>3, <1>4
  <1>12. /\ c[x].key = mem[x].key /\ c[x].value = mem[x].value
         /\ c[x].left = mem[x].left /\ c[x].right = t
         /\ c[x].height = 1 + Larger(avl_height(mem, mem[x].left), mem[t].height)
    BY <1>1, <1>3, <1>4, <1>7, <1>8
  <1>13. /\ c[t].key = mem[t].key /\ c[t].value = mem[t].value
         /\ c[t].left = mem[x].right /\ c[t].right = mem[t].right
         /\ c[t].height =
              1 + Larger(avl_height(mem, mem[x].right), avl_height(mem, mem[t].right))
    BY <1>1, <1>3, <1>4, <1>9
  <1> QED
    BY <1>4, <1>10, <1>11, <1>12, <1>13

LEMMA LeftRotated ==
  ASSUME NEW mem \in Memory, NEW t \in Blocks, NEW x \in Blocks, x = mem[t].right, x # t,
         mem[x].left # t, mem[t].left # t, mem[x].right # t,
         NEW r, r = avl_left_rotate(mem, t)
  PROVE  /\ r.tree = x /\ r.mem \in Memory
         /\ \A n \in Blocks : n # t /\ n # x => r.mem[n] = mem[n]
         /\ r.mem[x].key = mem[x].key /\ r.mem[x].value = mem[x].value
         /\ r.mem[x].right = mem[x].right /\ r.mem[x].left = t
         /\ r.mem[t].key = mem[t].key /\ r.mem[t].value = mem[t].value
         /\ r.mem[t].right = mem[x].left /\ r.mem[t].left = mem[t].left
         /\ r.mem[t].height =
              1 + Larger(avl_height(mem, mem[t].left), avl_height(mem, mem[x].left))
         /\ r.mem[x].height =
              1 + Larger(r.mem[t].height, avl_height(mem, mem[x].right))
  <1> DEFINE a == [mem EXCEPT ![x].left = t, ![t].right = mem[x].left]
             b == avl_update_height(a, t)
             c == avl_update_height(b, x)
  <1>1. /\ a \in Memory
        /\ \A n \in Blocks : n # t /\ n # x => a[n] = mem[n]
        /\ a[x].key = mem[x].key /\ a[x].value = mem[x].value
        /\ a[x].right = mem[x].right /\ a[x].left = t
        /\ a[t].key = mem[t].key /\ a[t].value = mem[t].value
        /\ a[t].right = mem[x].left /\ a[t].left = mem[t].left
        /\ a[t].height = mem[t].height /\ a[x].height = mem[x].height
    BY DEF Memory, Node, Pointers
  <1>2. r = [mem |-> c, tree |-> x]
    BY DEF avl_left_rotate
  <1> HIDE DEF a
  <1>3. /\ b \in Memory
        /\ \A n \in Blocks : n # t => b[n] = a[n]
        /\ b[t].key = a[t].key /\ b[t].value = a[t].value
        /\ b[t].left = a[t].left /\ b[t].right = a[t].right
        /\ b[t].height = 1 + Larger(avl_height(a, a[t].left), avl_height(a, a[t].right))
    BY <1>1, Updated
  <1> HIDE DEF b
  <1>4. /\ c \in Memory
        /\ \A n \in Blocks : n # x => c[n] = b[n]
        /\ c[x].key = b[x].key /\ c[x].value = b[x].value
        /\ c[x].left = b[x].left /\ c[x].right = b[x].right
        /\ c[x].height = 1 + Larger(avl_height(b, b[x].left), avl_height(b, b[x].right))
    BY <1>3, Updated
  <1> HIDE DEF c
  <1>5. \A n \in Pointers : avl_height(a, n) = avl_height(mem, n)
    BY <1>1 DEF avl_height, Pointers
  <1>6. \A n \in Pointers : n # t => avl_height(b, n) = avl_height(mem, n)
    BY <1>1, <1>3 DEF avl_height, Pointers
  <1>7. /\ avl_height(a, a[t].left) = avl_height(mem, mem[t].left)
        /\ avl_height(a, a[t].right) = avl_height(mem, mem[x].left)
    BY <1>1, <1>5, Fields
  <1>8. avl_height(b, b[x].left) = b[t].height
    BY <1>1, <1>3, AvlAssumption DEF avl_height
  <1>9. avl_height(b, b[x].right) = avl_height(mem, mem[x].right)
    BY <1>1, <1>3, <1>6, Fields
  <1>10. r.tree = x /\ r.mem = c
    BY <1>2
  <1>11. \A n \in Blocks : n # t /\ n # x => c[n] = mem[n]
    BY <1>1, <1>3, <1>4
  <1>12. /\ c[t].key = mem[t].key /\ c[t].value = mem[t].value
         /\ c[t].right = mem[x].left /\ c[t].left = mem[t].left
         /\ c[t].height =
              1 + Larger(avl_height(mem, mem[t].left), avl_height(mem, mem[x].left))
         /\ c[t].height = b[t].height
    BY <1>1, <1>3, <1>4, <1>7
  <1>13. /\ c[x].key = mem[x].key /\ c[x].value = mem[x].value
         /\ c[x].right = mem[x].right /\ c[x].left = t
         /\ c[x].height = 1 + Larger(c[t].height, avl_height(mem, mem[x].right))
    BY <1>1, <1>3, <1>4, <1>8, <1>9, <1>12
  <1> QED
    BY <1>4, <1>10, <1>11, <1>12, <1>13
-----------------------------------------------------------------------------
(***************************************************************************)
(* One activation's work on the tree a below it at t: c is what it leaves  *)
(* once the pointer to t leads to x, the root that it returns.             *)
(***************************************************************************)
Outside(a, lo, hi, t, n) == a[n].key <= lo[t] \/ hi[t] <= a[n].key

PointsTo(a, n, t) == a[n].left = t \/ a[n].right = t

Kept(a, c, t, x, n) ==
  /\ c[n].height = a[n].height
  /\ a[n].left = t => c[n].left = x
  /\ a[n].left # t => c[n].left = a[n].left
  /\ a[n].right = t => c[n].right = x
  /\ a[n].right # t => c[n].right = a[n].right

Settled(a, c, u, lo, hi, lo2, hi2, t, x) ==
  /\ Placed(c, u, lo2, hi2)
  /\ x \in u /\ lo2[x] = lo[t] /\ hi2[x] = hi[t]
  /\ \A n \in u : c[n].key = a[n].key /\ c[n].value = a[n].value
  /\ \A n \in u : Outside(a, lo, hi, t, n) =>
                    lo2[n] = lo[n] /\ hi2[n] = hi[n] /\ Kept(a, c, t, x, n)
  /\ \A n \in u : n = t \/ Tall(a, n) => PointsTo(a, n, t) \/ Tall(c, n)

\* The order in which avl_right_rotate updates the heights makes x taller
\* than it is, never lower.
LEMMA RightStep ==
  ASSUME NEW a, NEW u, NEW lo, NEW hi, Placed(a, u, lo, hi),
         NEW t \in u, NEW x, x = a[t].left, x # NULL,
         avl_height(a, a[x].right) < a[t].height,
         avl_height(a, a[t].right) < a[t].height,
         NEW r, r = avl_right_rotate(a, t),
         NEW c \in Memory, Redirected(a, c, u, t, x), c[t] = r.mem[t], c[x] = r.mem[x]
  PROVE  /\ r.tree = x /\ r.mem \in Memory
         /\ \A n \in Blocks : n # t /\ n # x => r.mem[n] = a[n]
         /\ \E lo2, hi2 : Settled(a, c, u, lo, hi, lo2, hi2, t, x)
  <1> DEFINE lo2 == [lo EXCEPT ![t] = a[x].key]
             hi2 == [hi EXCEPT ![x] = hi[t]]
  <1>1. /\ a \in Memory /\ u \in SUBSET Blocks
        /\ lo \in [Blocks -> Int] /\ hi \in [Blocks -> Int] /\ NULL \notin u
    BY AvlAssumption DEF Placed
  <1>2. /\ x \in u /\ x # t /\ t \in Blocks /\ x \in Blocks
        /\ a[x].right # x /\ a[t].right # x /\ a[x].left # x
        /\ lo[x] = lo[t] /\ hi[x] = a[t].key
    BY <1>1, FitsLeft, Children
  <1>3. /\ lo[t] \in Int /\ hi[t] \in Int /\ a[t].key \in Int /\ a[x].key \in Int
        /\ lo[t] < a[x].key /\ a[x].key < a[t].key /\ a[t].key < hi[t]
    BY <1>2, FitsLeft
  <1>4. /\ r.tree = x /\ r.mem \in Memory
        /\ \A n \in Blocks : n # t /\ n # x => r.mem[n] = a[n]
        /\ c[x].key = a[x].key /\ c[x].value = a[x].value
        /\ c[x].left = a[x].left /\ c[x].right = t
        /\ c[x].height = 1 + Larger(avl_height(a, a[x].left), a[t].height)
        /\ c[t].key = a[t].key /\ c[t].value = a[t].value
        /\ c[t].left = a[x].right /\ c[t].right = a[t].right
        /\ c[t].height = 1 + Larger(avl_height(a, a[x].right), avl_height(a, a[t].right))
    BY <1>1, <1>2, RightRotated
  <1>5. /\ lo2 \in [Blocks -> Int] /\ hi2 \in [Blocks -> Int]
        /\ lo2[t] = a[x].key /\ \A n \in u \ {t} : lo2[n] = lo[n]
        /\ hi2[x] = hi[t] /\ \A n \in u \ {x} : hi2[n] = hi[n]
    BY <1>1, <1>2, <1>3
  <1> HIDE DEF lo2, hi2
  <1>6. Placed(c, u, lo2, hi2)
    BY <1>4, <1>5, RightTurn
  <1>7. lo2[x] = lo[t] /\ hi2[x] = hi[t]
    BY <1>2, <1>5
  <1>8. \A n \in u : c[n].key = a[n].key /\ c[n].value = a[n].value
    BY <1>4 DEF Redirected
  <1>9. ASSUME NEW n \in u, Outside(a, lo, hi, t, n)
        PROVE  lo2[n] = lo[n] /\ hi2[n] = hi[n] /\ Kept(a, c, t, x, n)
    <2>1. n # t /\ n # x
      BY <1>3, <1>9 DEF Outside
    <2> QED
      BY <1>5, <2>1 DEF Redirected, Kept
  <1>10. ASSUME NEW n \in u, n = t \/ Tall(a, n), ~PointsTo(a, n, t)
         PROVE  Tall(c, n)
    <2>1. \A j \in Pointers : j # t /\ j # x /\ (j = NULL \/ j \in u) =>
                                avl_height(c, j) = avl_height(a, j)
      BY DEF avl_height, Redirected, Pointers
    <2>2. CASE n = t
      <3>1. /\ a[x].right \in Pointers /\ a[t].right \in Pointers
            /\ a[x].right = NULL \/ a[x].right \in u
            /\ a[t].right = NULL \/ a[t].right \in u
            /\ a[x].right # t /\ a[t].right # t
        BY <1>1, <1>2, <1>3, FitsLeft, Children
      <3>2. /\ avl_height(c, c[t].left) = avl_height(a, a[x].right)
            /\ avl_height(c, c[t].right) = avl_height(a, a[t].right)
        BY <1>2, <1>4, <2>1, <3>1
      <3>3. avl_height(a, a[x].right) \in Nat /\ avl_height(a, a[t].right) \in Nat
        BY <1>1, <3>1, Heights
      <3> QED
        BY <1>4, <2>2, <3>2, <3>3 DEF Tall, Larger
    <2>3. CASE n = x
      <3>1. a[x].left \in Pointers /\ (a[x].left = NULL \/ a[x].left \in u) /\ a[x].left # t
        BY <1>1, <1>2, <1>3, FitsLeft
      <3>2. /\ avl_height(c, c[x].left) = avl_height(a, a[x].left)
            /\ avl_height(c, c[x].right) = c[t].height
        BY <1>1, <1>2, <1>4, <2>1, <3>1 DEF avl_height
      <3>3. /\ avl_height(a, a[x].left) \in Nat /\ a[t].height \in Nat
            /\ avl_height(a, a[x].right) \in Nat /\ avl_height(a, a[t].right) \in Nat
        BY <1>1, <1>2, Heights, Fields
      <3>4. c[t].height <= a[t].height
        BY <1>4, <3>3 DEF Larger
      <3>5. c[t].height \in Nat
        BY <1>2, Fields
      <3> QED
        BY <1>4, <2>3, <3>2, <3>3, <3>4, <3>5 DEF Tall, Larger
    <2>4. CASE n # t /\ n # x
      <3>1. c[n].left = a[n].left /\ c[n].right = a[n].right /\ c[n].height = a[n].height
        BY <1>10, <2>4 DEF Redirected, PointsTo
      <3>2. a[n].left # x /\ a[n].right # x
        BY <2>4, <1>2, OneParent
      <3>3. /\ a[n].left \in Pointers /\ (a[n].left = NULL \/ a[n].left \in u)
            /\ a[n].right \in Pointers /\ (a[n].right = NULL \/ a[n].right \in u)
        BY FitsLeft
      <3>4. Tall(a, n)
        BY <1>10, <2>4
      <3> QED
        BY <1>10, <2>1, <3>1, <3>2, <3>3, <3>4 DEF Tall, PointsTo
    <2> QED
      BY <2>2, <2>3, <2>4
  <1>11. Settled(a, c, u, lo, hi, lo2, hi2, t, x)
    BY <1>2, <1>6, <1>7, <1>8, <1>9, <1>10 DEF Settled
  <1> QED
    BY <1>4, <1>11

LEMMA LeftStep ==
  ASSUME NEW a, NEW u, NEW lo, NEW hi, Placed(a, u, lo, hi),
         NEW t \in u, NEW x, x = a[t].right, x # NULL,
         NEW r, r = avl_left_rotate(a, t),
         NEW c \in Memory, Redirected(a, c, u, t, x), c[t] = r.mem[t], c[x] = r.mem[x]
  PROVE  /\ r.tree = x /\ r.mem \in Memory
         /\ \A n \in Blocks : n # t /\ n # x => r.mem[n] = a[n]
         /\ \E lo2, hi2 : Settled(a, c, u, lo, hi, lo2, hi2, t, x)
  <1> DEFINE hi2 == [hi EXCEPT ![t] = a[x].key]
             lo2 == [lo EXCEPT ![x] = lo[t]]
  <1>1. /\ a \in Memory /\ u \in SUBSET Blocks
        /\ lo \in [Blocks -> Int] /\ hi \in [Blocks -> Int] /\ NULL \notin u
    BY AvlAssumption DEF Placed
  <1>2. /\ x \in u /\ x # t /\ t \in Blocks /\ x \in Blocks
        /\ a[x].left # x /\ a[t].left # x /\ a[x].right # x
        /\ hi[x] = hi[t] /\ lo[x] = a[t].key
    BY <1>1, FitsLeft, Children
  <1>3. /\ lo[t] \in Int /\ hi[t] \in Int /\ a[t].key \in Int /\ a[x].key \in Int
        /\ lo[t] < a[t].key /\ a[t].key < a[x].key /\ a[x].key < hi[t]
    BY <1>2, FitsLeft
  <1>31. /\ a[x].left \in Pointers /\ a[t].left \in Pointers /\ a[x].right \in Pointers
         /\ a[x].left = NULL \/ a[x].left \in u
         /\ a[t].left = NULL \/ a[t].left \in u
         /\ a[x].right = NULL \/ a[x].right \in u
         /\ a[x].left # t /\ a[t].left # t /\ a[x].right # t
    BY <1>1, <1>2, <1>3, FitsLeft, Children
  <1>4. /\ r.tree = x /\ r.mem \in Memory
        /\ \A n \in Blocks : n # t /\ n # x => r.mem[n] = a[n]
        /\ c[x].key = a[x].key /\ c[x].value = a[x].value
        /\ c[x].right = a[x].right /\ c[x].left = t
        /\ c[t].key = a[t].key /\ c[t].value = a[t].value
        /\ c[t].right = a[x].left /\ c[t].left = a[t].left
        /\ c[t].height = 1 + Larger(avl_height(a, a[t].left), avl_height(a, a[x].left))
        /\ c[x].height = 1 + Larger(c[t].height, avl_height(a, a[x].right))
    BY <1>1, <1>2, <1>31, LeftRotated
  <1>5. /\ lo2 \in [Blocks -> Int] /\ hi2 \in [Blocks -> Int]
        /\ hi2[t] = a[x].key /\ \A n \in u \ {t} : hi2[n] = hi[n]
        /\ lo2[x] = lo[t] /\ \A n \in u \ {x} : lo2[n] = lo[n]
    BY <1>1, <1>2, <1>3
  <1> HIDE DEF lo2, hi2
  <1>6. Placed(c, u, lo2, hi2)
    BY <1>4, <1>5, LeftTurn
  <1>7. lo2[x] = lo[t] /\ hi2[x] = hi[t]
    BY <1>2, <1>5
  <1>8. \A n \in u : c[n].key = a[n].key /\ c[n].value = a[n].value
    BY <1>4 DEF Redirected
  <1>9. ASSUME NEW n \in u, Outside(a, lo, hi, t, n)
        PROVE  lo2[n] = lo[n] /\ hi2[n] = hi[n] /\ Kept(a, c, t, x, n)
    <2>1. n # t /\ n # x
      BY <1>3, <1>9 DEF Outside
    <2> QED
      BY <1>5, <2>1 DEF Redirected, Kept
  <1>10. ASSUME NEW n \in u, n = t \/ Tall(a, n), ~PointsTo(a, n, t)
         PROVE  Tall(c, n)
    <2>1. \A j \in Pointers : j # t /\ j # x /\ (j = NULL \/ j \in u) =>
                                avl_height(c, j) = avl_height(a, j)
      BY DEF avl_height, Redirected, Pointers
    <2>2. CASE n = t
      <3>2. /\ avl_height(c, c[t].left) = avl_height(a, a[t].left)
            /\ avl_height(c, c[t].right) = avl_height(a, a[x].left)
        BY <1>2, <1>4, <2>1, <1>31
      <3>3. avl_height(a, a[t].left) \in Nat /\ avl_height(a, a[x].left) \in Nat
        BY <1>1, <1>31, Heights
      <3> QED
        BY <1>4, <2>2, <3>2, <3>3 DEF Tall, Larger
    <2>3. CASE n = x
      <3>2. /\ avl_height(c, c[x].right) = avl_height(a, a[x].right)
            /\ avl_height(c, c[x].left) = c[t].height
        BY <1>1, <1>2, <1>4, <2>1, <1>31 DEF avl_height
      <3>3. avl_height(a, a[x].right) \in Nat /\ c[t].height \in Nat
        BY <1>1, <1>2, <1>31, Heights, Fields
      <3> QED
        BY <1>4, <2>3, <3>2, <3>3 DEF Tall, Larger
    <2>4. CASE n # t /\ n # x
      <3>1. c[n].left = a[n].left /\ c[n].right = a[n].right /\ c[n].height = a[n].height
        BY <1>10, <2>4 DEF Redirected, PointsTo
      <3>2. a[n].left # x /\ a[n].right # x
        BY <2>4, <1>2, OneParent
      <3>3. /\ a[n].left \in Pointers /\ (a[n].left = NULL \/ a[n].left \in u)
            /\ a[n].right \in Pointers /\ (a[n].right = NULL \/ a[n].right \in u)
        BY FitsLeft
      <3>4. Tall(a, n)
        BY <1>10, <2>4
      <3> QED
        BY <1>10, <2>1, <3>1, <3>2, <3>3, <3>4 DEF Tall, PointsTo
    <2> QED
      BY <2>2, <2>3, <2>4
  <1>11. Settled(a, c, u, lo, hi, lo2, hi2, t, x)
    BY <1>2, <1>6, <1>7, <1>8, <1>9, <1>10 DEF Settled
  <1> QED
    BY <1>4, <1>11

\* c is m, what an activation at t leaves of a, with the pointer to t replaced.
Relinked(a, m, c, u, t, x) ==
  \A n \in u :
    /\ ~PointsTo(a, n, t) => c[n] = m[n]
    /\ PointsTo(a, n, t) => c[n].key = m[n].key /\ c[n].value = m[n].value /\ Kept(m, c, t, x, n)

\* r is the result of an activation on the tree a at t.
Result(a, u, lo, hi, t, r) ==
  /\ r.mem \in Memory
  /\ r.tree \in u
  /\ \A n \in u : Outside(a, lo, hi, t, n) => r.mem[n] = a[n]
  /\ \A c \in Memory :
       Relinked(a, r.mem, c, u, t, r.tree) =>
         \E lo2, hi2 : Settled(a, c, u, lo, hi, lo2, hi2, t, r.tree)

\* Whatever points to t is outside of its place.
LEMMA ParentOutside ==
  ASSUME NEW a, NEW u, NEW lo, NEW hi, Placed(a, u, lo, hi), NEW t \in u, NEW n \in u
  PROVE  /\ PointsTo(a, n, t) => Outside(a, lo, hi, t, n)
         /\ Outside(a, lo, hi, t, n) => n # t
  <1>1. t # NULL
    BY AvlAssumption DEF Placed
  <1> QED
    BY <1>1, FitsLeft DEF PointsTo, Outside

LEMMA RightResult ==
  ASSUME NEW a, NEW u, NEW lo, NEW hi, Placed(a, u, lo, hi),
         NEW t \in u, a[t].left # NULL,
         avl_height(a, a[a[t].left].right) < a[t].height,
         avl_height(a, a[t].right) < a[t].height
  PROVE  Result(a, u, lo, hi, t, avl_right_rotate(a, t))
  <1> DEFINE r == avl_right_rotate(a, t)
             x == a[t].left
  <1>1. /\ x \in u /\ x # t /\ t \in Blocks /\ x \in Blocks /\ a \in Memory
        /\ a[x].right # x /\ a[t].right # x /\ lo[x] = lo[t] /\ hi[x] = a[t].key
    BY FitsLeft, Children, AvlAssumption DEF Placed
  <1>2. /\ r.tree = x /\ r.mem \in Memory
        /\ \A n \in Blocks : n # t /\ n # x => r.mem[n] = a[n]
    BY <1>1, RightRotated
  <1>3. ~PointsTo(a, t, t) /\ ~PointsTo(a, x, t)
    BY <1>1, ParentOutside, FitsLeft DEF Outside
  <1>4. /\ lo[t] \in Int /\ hi[t] \in Int /\ a[t].key \in Int /\ a[x].key \in Int
        /\ lo[t] < a[x].key /\ a[x].key < a[t].key /\ a[t].key < hi[t]
    BY <1>1, FitsLeft
  <1>5. \A n \in u : Outside(a, lo, hi, t, n) => r.mem[n] = a[n]
    BY <1>2, <1>4, FitsLeft DEF Outside
  <1>6. ASSUME NEW c \in Memory, Relinked(a, r.mem, c, u, t, r.tree)
        PROVE  \E lo2, hi2 : Settled(a, c, u, lo, hi, lo2, hi2, t, r.tree)
    <2>1. c[t] = r.mem[t] /\ c[x] = r.mem[x]
      BY <1>1, <1>3, <1>6 DEF Relinked
    <2>2. Redirected(a, c, u, t, x)
      <3> SUFFICES ASSUME NEW n \in u, n # t, n # x
                   PROVE  /\ c[n].key = a[n].key /\ c[n].value = a[n].value
                          /\ Kept(a, c, t, x, n)
        BY DEF Redirected, Kept
      <3>1. r.mem[n] = a[n]
        BY <1>2, FitsLeft
      <3>2. CASE PointsTo(a, n, t)
        BY <1>2, <1>6, <3>1, <3>2 DEF Relinked, Kept
      <3>3. CASE ~PointsTo(a, n, t)
        BY <1>6, <3>1, <3>3 DEF Relinked, Kept, PointsTo
      <3> QED
        BY <3>2, <3>3
    <2> HIDE DEF r, x
    <2>3. \E lo2, hi2 : Settled(a, c, u, lo, hi, lo2, hi2, t, x)
      <3> USE DEF r, x
      <3> QED
        BY <2>1, <2>2, RightStep
    <2> QED
      BY <1>2, <2>3
  <1> HIDE DEF r
  <1>7. Result(a, u, lo, hi, t, r)
    BY <1>1, <1>2, <1>5, <1>6 DEF Result
  <1> QED
    BY <1>7 DEF r

LEMMA LeftResult ==
  ASSUME NEW a, NEW u, NEW lo, NEW hi, Placed(a, u, lo, hi),
         NEW t \in u, a[t].right # NULL
  PROVE  Result(a, u, lo, hi, t, avl_left_rotate(a, t))
  <1> DEFINE r == avl_left_rotate(a, t)
             x == a[t].right
  <1>1. /\ x \in u /\ x # t /\ t \in Blocks /\ x \in Blocks /\ a \in Memory
        /\ hi[x] = hi[t] /\ lo[x] = a[t].key
    BY FitsLeft, Children, AvlAssumption DEF Placed
  <1>3. ~PointsTo(a, t, t) /\ ~PointsTo(a, x, t)
    BY <1>1, ParentOutside, FitsLeft DEF Outside
  <1>2. /\ r.tree = x /\ r.mem \in Memory
        /\ \A n \in Blocks : n # t /\ n # x => r.mem[n] = a[n]
    BY <1>1, <1>3, LeftRotated DEF PointsTo
  <1>4. /\ lo[t] \in Int /\ hi[t] \in Int /\ a[t].key \in Int /\ a[x].key \in Int
        /\ lo[t] < a[t].key /\ a[t].key < a[x].key /\ a[x].key < hi[t]
    BY <1>1, FitsLeft
  <1>5. \A n \in u : Outside(a, lo, hi, t, n) => r.mem[n] = a[n]
    BY <1>2, <1>4, FitsLeft DEF Outside
  <1>6. ASSUME NEW c \in Memory, Relinked(a, r.mem, c, u, t, r.tree)
        PROVE  \E lo2, hi2 : Settled(a, c, u, lo, hi, lo2, hi2, t, r.tree)
    <2>1. c[t] = r.mem[t] /\ c[x] = r.mem[x]
      BY <1>1, <1>3, <1>6 DEF Relinked
    <2>2. Redirected(a, c, u, t, x)
      <3> SUFFICES ASSUME NEW n \in u, n # t, n # x
                   PROVE  /\ c[n].key = a[n].key /\ c[n].value = a[n].value
                          /\ Kept(a, c, t, x, n)
        BY DEF Redirected, Kept
      <3>1. r.mem[n] = a[n]
        BY <1>2, FitsLeft
      <3>2. CASE PointsTo(a, n, t)
        BY <1>2, <1>6, <3>1, <3>2 DEF Relinked, Kept
      <3>3. CASE ~PointsTo(a, n, t)
        BY <1>6, <3>1, <3>3 DEF Relinked, Kept, PointsTo
      <3> QED
        BY <3>2, <3>3
    <2> HIDE DEF r, x
    <2>3. \E lo2, hi2 : Settled(a, c, u, lo, hi, lo2, hi2, t, x)
      <3> USE DEF r, x
      <3> QED
        BY <2>1, <2>2, LeftStep
    <2> QED
      BY <1>2, <2>3
  <1> HIDE DEF r
  <1>7. Result(a, u, lo, hi, t, r)
    BY <1>1, <1>2, <1>5, <1>6 DEF Result
  <1> QED
    BY <1>7 DEF r

\* An activation that rotates nothing.
LEMMA StayResult ==
  ASSUME NEW a, NEW u, NEW lo, NEW hi, Placed(a, u, lo, hi), NEW t \in u, Tall(a, t)
  PROVE  Result(a, u, lo, hi, t, [mem |-> a, tree |-> t])
  <1>1. ASSUME NEW c \in Memory, Relinked(a, a, c, u, t, t)
        PROVE  Settled(a, c, u, lo, hi, lo, hi, t, t)
    <2>1. \A n \in u : /\ c[n].key = a[n].key /\ c[n].value = a[n].value
                       /\ c[n].left = a[n].left /\ c[n].right = a[n].right
                       /\ c[n].height = a[n].height
      BY <1>1 DEF Relinked, Kept
    <2>2. \A n \in u : Fits(c, u, lo, hi, n)
      BY <2>1 DEF Placed, Sound, Fits, Edge
    <2>3. \A m, n \in u : m # n => Apart(c, lo, hi, m, n)
      BY <2>1 DEF Placed, Sound, Apart, Below
    <2>4. Placed(c, u, lo, hi)
      BY <2>2, <2>3 DEF Placed, Sound
    <2>5. \A n \in u : Tall(a, n) => Tall(c, n)
      <3> SUFFICES ASSUME NEW n \in u, Tall(a, n)
                   PROVE  Tall(c, n)
        OBVIOUS
      <3>1. /\ a[n].left = NULL \/ a[n].left \in u
            /\ a[n].right = NULL \/ a[n].right \in u
        BY FitsLeft
      <3>2. /\ avl_height(c, a[n].left) = avl_height(a, a[n].left)
            /\ avl_height(c, a[n].right) = avl_height(a, a[n].right)
        BY <2>1, <3>1 DEF avl_height
      <3> QED
        BY <2>1, <3>2 DEF Tall
    <2> QED
      BY <2>1, <2>4, <2>5 DEF Settled, Kept
  <1> QED
    BY <1>1 DEF Result, Placed

\* A rotation at a child l of t leaves alone what is outside of t.
LEMMA InnerSettled ==
  ASSUME NEW a, NEW u, NEW lo, NEW hi, Placed(a, u, lo, hi),
         NEW t \in u, NEW l \in u, PointsTo(a, t, l),
         NEW e, NEW lo1, NEW hi1, NEW x, Settled(a, e, u, lo, hi, lo1, hi1, l, x)
  PROVE  /\ lo1[t] = lo[t] /\ hi1[t] = hi[t] /\ Outside(a, lo, hi, l, t)
         /\ \A n \in u : Outside(a, lo, hi, t, n) =>
              /\ Outside(a, lo, hi, l, n) /\ Outside(e, lo1, hi1, t, n)
              /\ ~PointsTo(a, n, l)
         /\ \A n \in u : PointsTo(e, n, t) <=> PointsTo(a, n, t)
  <1>1. Placed(e, u, lo1, hi1) /\ t # NULL /\ l # NULL
    BY AvlAssumption DEF Settled, Placed
  <1>2. Outside(a, lo, hi, l, t)
    BY ParentOutside
  <1>3. lo1[t] = lo[t] /\ hi1[t] = hi[t] /\ \A n \in u : e[n].key = a[n].key
    BY <1>2 DEF Settled
  <1>4. /\ lo[l] \in Int /\ hi[l] \in Int /\ lo[t] \in Int /\ hi[t] \in Int
        /\ a[t].key \in Int /\ a[l].key \in Int
        /\ lo[l] < a[l].key /\ a[l].key < hi[l] /\ lo[t] < a[t].key /\ a[t].key < hi[t]
        /\ \/ lo[l] = lo[t] /\ hi[l] = a[t].key
           \/ lo[l] = a[t].key /\ hi[l] = hi[t]
    BY <1>1, FitsLeft DEF PointsTo
  <1>5. ASSUME NEW n \in u, Outside(a, lo, hi, t, n)
        PROVE  /\ Outside(a, lo, hi, l, n) /\ Outside(e, lo1, hi1, t, n)
               /\ ~PointsTo(a, n, l)
    <2>1. n # t
      BY <1>4, <1>5 DEF Outside
    <2>2. ~PointsTo(a, n, l)
      BY <1>1, <2>1, OneParent DEF PointsTo
    <2>3. a[n].key \in Int
      BY FitsLeft
    <2> QED
      BY <1>3, <1>4, <1>5, <2>2, <2>3 DEF Outside
  <1>6. ASSUME NEW n \in u
        PROVE  PointsTo(e, n, t) <=> PointsTo(a, n, t)
    <2>1. CASE Outside(a, lo, hi, l, n)
      <3>1. Kept(a, e, l, x, n)
        BY <2>1 DEF Settled
      <3>2. t # l
        BY <1>2, ParentOutside
      <3>3. x # t
        BY <1>1, <1>4, <1>3, FitsLeft DEF Settled
      <3> QED
        BY <3>1, <3>2, <3>3 DEF Kept, PointsTo
    <2>2. CASE ~Outside(a, lo, hi, l, n)
      <3>1. a[n].key \in Int /\ lo[l] < a[n].key /\ a[n].key < hi[l]
        BY <1>4, <2>2, FitsLeft DEF Outside
      <3>2. ~PointsTo(a, n, t)
        BY <1>1, <1>4, <3>1, FitsLeft DEF PointsTo
      <3>3. ~PointsTo(e, n, t)
        BY <1>1, <1>3, <1>4, <3>1, FitsLeft DEF PointsTo
      <3> QED
        BY <3>2, <3>3
    <2> QED
      BY <2>1, <2>2
  <1> QED
    BY <1>2, <1>3, <1>5, <1>6

\* A rotation at a child of t, then one at t.
LEMMA Compose ==
  ASSUME NEW a, NEW u, NEW lo, NEW hi, Placed(a, u, lo, hi),
         NEW t \in u, NEW l \in u, PointsTo(a, t, l),
         NEW e, NEW lo1, NEW hi1, NEW x, Settled(a, e, u, lo, hi, lo1, hi1, l, x),
         NEW c, NEW lo2, NEW hi2, NEW y, Settled(e, c, u, lo1, hi1, lo2, hi2, t, y)
  PROVE  Settled(a, c, u, lo, hi, lo2, hi2, t, y)
  <1>1. /\ lo1[t] = lo[t] /\ hi1[t] = hi[t]
        /\ \A n \in u : Outside(a, lo, hi, t, n) =>
             /\ Outside(a, lo, hi, l, n) /\ Outside(e, lo1, hi1, t, n)
             /\ ~PointsTo(a, n, l)
        /\ \A n \in u : PointsTo(e, n, t) <=> PointsTo(a, n, t)
    BY InnerSettled
  <1>2. ASSUME NEW n \in u, Outside(a, lo, hi, t, n)
        PROVE  lo2[n] = lo[n] /\ hi2[n] = hi[n] /\ Kept(a, c, t, y, n)
    <2>1. lo1[n] = lo[n] /\ hi1[n] = hi[n] /\ Kept(a, e, l, x, n) /\ ~PointsTo(a, n, l)
      BY <1>1, <1>2 DEF Settled
    <2>2. lo2[n] = lo1[n] /\ hi2[n] = hi1[n] /\ Kept(e, c, t, y, n)
      BY <1>1, <1>2 DEF Settled
    <2> QED
      BY <2>1, <2>2 DEF Kept, PointsTo
  <1>3. ASSUME NEW n \in u, n = t \/ Tall(a, n)
        PROVE  PointsTo(a, n, t) \/ Tall(c, n)
    <2>1. n = t \/ Tall(e, n)
      <3>1. PointsTo(a, n, l) => n = t
        BY AvlAssumption, OneParent DEF PointsTo, Placed
      <3> QED
        BY <1>3, <3>1 DEF Settled
    <2> QED
      BY <1>1, <2>1 DEF Settled
  <1>4. \A n \in u : c[n].key = a[n].key /\ c[n].value = a[n].value
    BY DEF Settled
  <1> QED
    BY <1>1, <1>2, <1>3, <1>4 DEF Settled

\* e is what the first rotation of a double one leaves.
LEMMA DoubleResult ==
  ASSUME NEW a, NEW u, NEW lo, NEW hi, Placed(a, u, lo, hi),
         NEW t \in u, NEW l \in u, PointsTo(a, t, l),
         NEW m, Result(a, u, lo, hi, l, m),
         NEW e \in Memory, Relinked(a, m.mem, e, u, l, m.tree),
         NEW lo1, NEW hi1, Settled(a, e, u, lo, hi, lo1, hi1, l, m.tree),
         NEW r, Result(e, u, lo1, hi1, t, r)
  PROVE  Result(a, u, lo, hi, t, r)
  <1>1. /\ \A n \in u : Outside(a, lo, hi, t, n) =>
             /\ Outside(a, lo, hi, l, n) /\ Outside(e, lo1, hi1, t, n)
             /\ ~PointsTo(a, n, l)
        /\ \A n \in u : PointsTo(e, n, t) <=> PointsTo(a, n, t)
    BY InnerSettled
  <1>2. \A n \in u : Outside(a, lo, hi, t, n) => r.mem[n] = a[n]
    BY <1>1 DEF Result, Relinked
  <1>3. ASSUME NEW c \in Memory, Relinked(a, r.mem, c, u, t, r.tree)
        PROVE  \E lo2, hi2 : Settled(a, c, u, lo, hi, lo2, hi2, t, r.tree)
    <2>1. Relinked(e, r.mem, c, u, t, r.tree)
      BY <1>1, <1>3 DEF Relinked
    <2>2. PICK lo2, hi2 : Settled(e, c, u, lo1, hi1, lo2, hi2, t, r.tree)
      BY <2>1 DEF Result
    <2> QED
      BY <2>2, Compose
  <1> QED
    BY <1>2, <1>3 DEF Result

LEMMA LeftRightResult ==
  ASSUME NEW a, NEW u, NEW lo, NEW hi, Placed(a, u, lo, hi), NEW t \in u,
         \A n \in u : PointsTo(a, n, t) \/ Tall(a, n),
         a[t].left # NULL, a[a[t].left].right # NULL
  PROVE  Result(a, u, lo, hi, t, LeftRight(a, t))
  <1> DEFINE l == a[t].left
             x == a[l].right
             z == a[x].right
             m == avl_left_rotate(a, l)
             e == [m.mem EXCEPT ![t].left = m.tree]
             r == avl_right_rotate(e, t)
  <1>1. /\ a \in Memory /\ t \in Blocks /\ t # NULL
        /\ l \in u /\ l \in Blocks /\ l # t /\ l # NULL /\ PointsTo(a, t, l)
        /\ lo[l] = lo[t] /\ hi[l] = a[t].key
    BY FitsLeft, Children, AvlAssumption DEF Placed, PointsTo
  <1>2. /\ x \in u /\ x \in Blocks /\ x # l /\ x # NULL /\ PointsTo(a, l, x)
        /\ lo[x] = a[l].key /\ hi[x] = a[t].key
    BY <1>1, FitsLeft, Children, AvlAssumption DEF Placed, PointsTo
  <1>3. x # t /\ z # t /\ z # l /\ z # x /\ (z = NULL \/ z \in u) /\ z \in Pointers
    BY <1>1, <1>2, FitsLeft
  <1>4. Tall(a, t) /\ Tall(a, l) /\ Tall(a, x)
    BY <1>1, <1>2, <1>3, ParentOutside, FitsLeft DEF Outside
  <1>5. Result(a, u, lo, hi, l, m)
    BY <1>1, <1>2, LeftResult
  <1>6. /\ m.tree = x /\ m.mem \in Memory
        /\ \A n \in Blocks : n # l /\ n # x => m.mem[n] = a[n]
        /\ m.mem[x].right = z
    <2>1. a[x].left # l /\ a[l].left # l /\ a[x].right # l
      BY <1>1, <1>2, <1>3, Children, FitsLeft
    <2> QED
      BY <1>1, <1>2, <2>1, LeftRotated
  <1> HIDE DEF m
  <1>7. /\ e \in Memory
        /\ \A n \in Blocks : n # t => e[n] = m.mem[n]
        /\ e[t].left = x /\ e[t].right = a[t].right /\ e[t].height = a[t].height
        /\ e[t].key = a[t].key /\ e[t].value = a[t].value
    <2>1. m.mem[t] = a[t]
      BY <1>1, <1>3, <1>6
    <2> QED
      BY <1>1, <1>2, <1>6, <2>1 DEF Memory, Node, Pointers
  <1>8. LeftRight(a, t) = r
    BY DEF LeftRight, m
  <1> HIDE DEF e
  <1>9. Relinked(a, m.mem, e, u, l, m.tree)
    <2> SUFFICES ASSUME NEW n \in u
                 PROVE  /\ ~PointsTo(a, n, l) => e[n] = m.mem[n]
                        /\ PointsTo(a, n, l) =>
                             /\ e[n].key = m.mem[n].key /\ e[n].value = m.mem[n].value
                             /\ Kept(m.mem, e, l, m.tree, n)
      BY DEF Relinked
    <2>1. n \in Blocks
      BY FitsLeft
    <2>2. CASE n # t
      <3>1. ~PointsTo(a, n, l)
        BY <1>1, <2>2, OneParent DEF PointsTo
      <3> QED
        BY <1>7, <2>1, <2>2, <3>1
    <2>3. CASE n = t
      <3>1. m.mem[t] = a[t] /\ a[t].right # l
        BY <1>1, <1>3, <1>6, Children
      <3> QED
        BY <1>1, <1>6, <1>7, <2>3, <3>1 DEF Kept
    <2> QED
      BY <2>2, <2>3
  <1>10. PICK lo1, hi1 : Settled(a, e, u, lo, hi, lo1, hi1, l, m.tree)
    BY <1>5, <1>7, <1>9 DEF Result
  <1>11. Placed(e, u, lo1, hi1)
    BY <1>10 DEF Settled
  <1>12. e[x].right = z /\ avl_height(e, z) = avl_height(a, z)
    BY <1>2, <1>3, <1>6, <1>7 DEF avl_height, Placed
  <1>13. avl_height(e, e[t].right) = avl_height(a, a[t].right)
    <2>1. a[t].right # l /\ a[t].right # x /\ a[t].right # t
      BY <1>1, <1>2, <1>3, Children, OneParent DEF PointsTo
    <2>2. a[t].right \in Pointers
      BY FitsLeft
    <2> QED
      BY <1>6, <1>7, <2>1, <2>2 DEF avl_height, Pointers
  <1>14. /\ avl_height(a, z) \in Nat /\ avl_height(a, a[t].right) \in Nat
         /\ a[x].height \in Nat /\ a[l].height \in Nat /\ a[t].height \in Nat
    BY <1>1, <1>2, <1>3, Heights, Fields
  <1>15. /\ avl_height(a, z) < a[x].height /\ a[x].height < a[l].height
         /\ a[l].height < a[t].height /\ avl_height(a, a[t].right) < a[t].height
    BY <1>1, <1>2, <1>4 DEF Tall, avl_height
  <1>16. Result(e, u, lo1, hi1, t, r)
    <2>1. avl_height(e, e[e[t].left].right) < e[t].height
      BY <1>7, <1>12, <1>14, <1>15
    <2>2. avl_height(e, e[t].right) < e[t].height
      BY <1>7, <1>13, <1>15
    <2> QED
      BY <1>2, <1>7, <1>11, <2>1, <2>2, RightResult
  <1> HIDE DEF r
  <1> QED
    BY <1>1, <1>5, <1>7, <1>8, <1>9, <1>10, <1>16, DoubleResult

LEMMA RightLeftResult ==
  ASSUME NEW a, NEW u, NEW lo, NEW hi, Placed(a, u, lo, hi), NEW t \in u,
         \A n \in u : PointsTo(a, n, t) \/ Tall(a, n),
         a[t].right # NULL, a[a[t].right].left # NULL
  PROVE  Result(a, u, lo, hi, t, RightLeft(a, t))
  <1> DEFINE l == a[t].right
             x == a[l].left
             m == avl_right_rotate(a, l)
             e == [m.mem EXCEPT ![t].right = m.tree]
             r == avl_left_rotate(e, t)
  <1>1. /\ a \in Memory /\ t \in Blocks /\ t # NULL
        /\ l \in u /\ l \in Blocks /\ l # t /\ l # NULL /\ PointsTo(a, t, l)
        /\ lo[l] = a[t].key /\ hi[l] = hi[t]
    BY FitsLeft, Children, AvlAssumption DEF Placed, PointsTo
  <1>2. /\ x \in u /\ x \in Blocks /\ x # l /\ x # NULL /\ PointsTo(a, l, x)
        /\ lo[x] = a[t].key /\ hi[x] = a[l].key
    BY <1>1, FitsLeft, Children, AvlAssumption DEF Placed, PointsTo
  <1>3. x # t
    BY <1>1, <1>2, FitsLeft
  <1>4. Tall(a, l) /\ Tall(a, x)
    BY <1>1, <1>2, <1>3, ParentOutside, FitsLeft DEF Outside
  <1>41. /\ avl_height(a, a[x].right) < a[l].height
         /\ avl_height(a, a[l].right) < a[l].height
    <2>1. /\ avl_height(a, a[x].right) \in Nat /\ a[x].height \in Nat /\ a[l].height \in Nat
      BY <1>1, <1>2, Heights, Fields
    <2>2. /\ avl_height(a, a[x].right) < a[x].height /\ a[x].height < a[l].height
          /\ avl_height(a, a[l].right) < a[l].height
      BY <1>1, <1>2, <1>4 DEF Tall, avl_height
    <2> QED
      BY <2>1, <2>2
  <1>5. Result(a, u, lo, hi, l, m)
    BY <1>1, <1>2, <1>41, RightResult
  <1>6. /\ m.tree = x /\ m.mem \in Memory
        /\ \A n \in Blocks : n # l /\ n # x => m.mem[n] = a[n]
    <2>1. a[x].right # x /\ a[l].right # x
      BY <1>1, <1>2, Children
    <2> QED
      BY <1>1, <1>2, <2>1, RightRotated
  <1> HIDE DEF m
  <1>7. /\ e \in Memory
        /\ \A n \in Blocks : n # t => e[n] = m.mem[n]
        /\ e[t].right = x /\ e[t].left = a[t].left /\ e[t].height = a[t].height
        /\ e[t].key = a[t].key /\ e[t].value = a[t].value
    <2>1. m.mem[t] = a[t]
      BY <1>1, <1>3, <1>6
    <2> QED
      BY <1>1, <1>2, <1>6, <2>1 DEF Memory, Node, Pointers
  <1>8. RightLeft(a, t) = r
    BY DEF RightLeft, m
  <1> HIDE DEF e
  <1>9. Relinked(a, m.mem, e, u, l, m.tree)
    <2> SUFFICES ASSUME NEW n \in u
                 PROVE  /\ ~PointsTo(a, n, l) => e[n] = m.mem[n]
                        /\ PointsTo(a, n, l) =>
                             /\ e[n].key = m.mem[n].key /\ e[n].value = m.mem[n].value
                             /\ Kept(m.mem, e, l, m.tree, n)
      BY DEF Relinked
    <2>1. n \in Blocks
      BY FitsLeft
    <2>2. CASE n # t
      <3>1. ~PointsTo(a, n, l)
        BY <1>1, <2>2, OneParent DEF PointsTo
      <3> QED
        BY <1>7, <2>1, <2>2, <3>1
    <2>3. CASE n = t
      <3>1. m.mem[t] = a[t] /\ a[t].left # l
        BY <1>1, <1>3, <1>6, Children
      <3> QED
        BY <1>1, <1>6, <1>7, <2>3, <3>1 DEF Kept
    <2> QED
      BY <2>2, <2>3
  <1>10. PICK lo1, hi1 : Settled(a, e, u, lo, hi, lo1, hi1, l, m.tree)
    BY <1>5, <1>7, <1>9 DEF Result
  <1>11. Placed(e, u, lo1, hi1)
    BY <1>10 DEF Settled
  <1>16. Result(e, u, lo1, hi1, t, r)
    BY <1>2, <1>7, <1>11, LeftResult
  <1> HIDE DEF r
  <1> QED
    BY <1>1, <1>5, <1>7, <1>8, <1>9, <1>10, <1>16, DoubleResult

\* The end of avl_insert and of avl_remove.  A balance other than 0 means that
\* a child is there, and where avl_remove rotates twice its child is there too.
LEMMA RebalanceResult ==
  ASSUME NEW a, NEW u, NEW lo, NEW hi, Placed(a, u, lo, hi), NEW t \in u,
         \A n \in u : PointsTo(a, n, t) \/ Tall(a, n)
  PROVE  /\ Result(a, u, lo, hi, t, RebalanceRemoved(a, t))
         /\ \A k : ~Missing(a, t, k) =>
                    Result(a, u, lo, hi, t, RebalanceInserted(a, t, k))
  <1> DEFINE l == a[t].left
             r == a[t].right
  <1>1. /\ a \in Memory /\ t \in Blocks /\ t # NULL
        /\ l \in Pointers /\ r \in Pointers
        /\ avl_height(a, l) \in Nat /\ avl_height(a, r) \in Nat
    BY FitsLeft, Heights, AvlAssumption DEF Placed
  <1>2. Tall(a, t)
    BY ParentOutside
  <1>3. avl_balance(a, t) = avl_height(a, l) - avl_height(a, r)
    BY <1>1 DEF avl_balance
  <1>4. /\ avl_balance(a, t) > 1 => l # NULL /\ l \in u
        /\ avl_balance(a, t) < -1 => r # NULL /\ r \in u
    BY <1>1, <1>3, FitsLeft, Heights
  <1>5. avl_balance(a, t) > 1 => Result(a, u, lo, hi, t, avl_right_rotate(a, t))
    <2> SUFFICES ASSUME avl_balance(a, t) > 1
                 PROVE  Result(a, u, lo, hi, t, avl_right_rotate(a, t))
      OBVIOUS
    <2>1. l # NULL /\ l \in u /\ PointsTo(a, t, l)
      BY <1>4 DEF PointsTo
    <2>2. Tall(a, l)
      <3>1. ~PointsTo(a, l, t)
        BY <1>1, <2>1, FitsLeft DEF PointsTo
      <3> QED
        BY <2>1, <3>1
    <2>3. /\ avl_height(a, a[l].right) \in Nat /\ a[l].height \in Nat /\ a[t].height \in Nat
      BY <1>1, <2>1, FitsLeft, Heights, Fields
    <2>4. /\ avl_height(a, a[l].right) < a[l].height /\ a[l].height < a[t].height
          /\ avl_height(a, r) < a[t].height
      BY <1>2, <2>1, <2>2 DEF Tall, avl_height
    <2> QED
      BY <2>1, <2>3, <2>4, RightResult
  <1>6. avl_balance(a, t) < -1 => Result(a, u, lo, hi, t, avl_left_rotate(a, t))
    BY <1>4, LeftResult
  <1>7. Result(a, u, lo, hi, t, [mem |-> a, tree |-> t])
    BY <1>2, StayResult
  <1>8. /\ avl_balance(a, t) > 1 /\ a[l].right # NULL =>
             Result(a, u, lo, hi, t, LeftRight(a, t))
        /\ avl_balance(a, t) < -1 /\ a[r].left # NULL =>
             Result(a, u, lo, hi, t, RightLeft(a, t))
    BY <1>4, LeftRightResult, RightLeftResult
  <1>9. Result(a, u, lo, hi, t, RebalanceRemoved(a, t))
    <2>1. /\ avl_balance(a, t) > 1 /\ avl_balance(a, l) < 0 => a[l].right # NULL
          /\ avl_balance(a, t) < -1 /\ avl_balance(a, r) > 0 => a[r].left # NULL
      <3>1. \A c \in u : /\ avl_balance(a, c) < 0 => a[c].right # NULL
                         /\ avl_balance(a, c) > 0 => a[c].left # NULL
        <4> SUFFICES ASSUME NEW c \in u
                     PROVE  /\ avl_balance(a, c) < 0 => a[c].right # NULL
                            /\ avl_balance(a, c) > 0 => a[c].left # NULL
          OBVIOUS
        <4>1. c # NULL /\ a[c].left \in Pointers /\ a[c].right \in Pointers
          BY FitsLeft, AvlAssumption
        <4>2. avl_balance(a, c) = avl_height(a, a[c].left) - avl_height(a, a[c].right)
          BY <4>1 DEF avl_balance
        <4> QED
          BY <1>1, <4>1, <4>2, Heights
      <3> QED
        BY <1>4, <3>1
    <2> QED
      BY <1>5, <1>6, <1>7, <1>8, <2>1 DEF RebalanceRemoved
  <1>10. ASSUME NEW k, ~Missing(a, t, k)
         PROVE  Result(a, u, lo, hi, t, RebalanceInserted(a, t, k))
    <2>1. /\ avl_balance(a, t) > 1 /\ k > a[l].key => a[l].right # NULL
          /\ avl_balance(a, t) < -1 /\ k < a[r].key => a[r].left # NULL
      BY <1>10 DEF Missing
    <2> QED
      BY <1>5, <1>6, <1>7, <1>8, <2>1 DEF RebalanceInserted
  <1> QED
    BY <1>9, <1>10

\* Only keys and links have a part in the order.
LEMMA SamePlaced ==
  ASSUME NEW a, NEW u, NEW lo, NEW hi, Placed(a, u, lo, hi), NEW b \in Memory,
         \A n \in u : b[n].key = a[n].key /\ b[n].left = a[n].left /\ b[n].right = a[n].right
  PROVE  Placed(b, u, lo, hi)
  <1>1. \A n \in u : Fits(b, u, lo, hi, n)
    BY DEF Placed, Sound, Fits, Edge
  <1>2. \A m, n \in u : m # n => Apart(b, lo, hi, m, n)
    BY DEF Placed, Sound, Apart, Below
  <1> QED
    BY <1>1, <1>2 DEF Placed, Sound

\* avl_update_height makes t taller than its children.
LEMMA UpdatedPlaced ==
  ASSUME NEW a, NEW u, NEW lo, NEW hi, Placed(a, u, lo, hi), NEW t \in u,
         \A n \in u : n = t \/ Tall(a, n),
         NEW m, m = avl_update_height(a, t)
  PROVE  /\ Placed(m, u, lo, hi)
         /\ \A n \in u : PointsTo(m, n, t) \/ Tall(m, n)
         /\ \A n \in u : /\ m[n].key = a[n].key /\ m[n].value = a[n].value
                         /\ m[n].left = a[n].left /\ m[n].right = a[n].right
                         /\ n # t => m[n] = a[n]
  <1>1. a \in Memory /\ u \in SUBSET Blocks /\ t \in Blocks
    BY DEF Placed
  <1>2. /\ m \in Memory
        /\ \A n \in Blocks : n # t => m[n] = a[n]
        /\ m[t].key = a[t].key /\ m[t].value = a[t].value
        /\ m[t].left = a[t].left /\ m[t].right = a[t].right
        /\ m[t].height = 1 + Larger(avl_height(a, a[t].left), avl_height(a, a[t].right))
    BY <1>1, Updated
  <1>3. \A n \in u : /\ m[n].key = a[n].key /\ m[n].value = a[n].value
                     /\ m[n].left = a[n].left /\ m[n].right = a[n].right
                     /\ n # t => m[n] = a[n]
    BY <1>1, <1>2
  <1>4. Placed(m, u, lo, hi)
    BY <1>2, <1>3, SamePlaced
  <1>5. ASSUME NEW n \in u, ~PointsTo(m, n, t)
        PROVE  Tall(m, n)
    <2>1. /\ a[n].left \in Pointers /\ a[n].right \in Pointers
          /\ a[n].left # t /\ a[n].right # t
      BY <1>3, <1>5, FitsLeft DEF PointsTo
    <2>2. /\ avl_height(m, m[n].left) = avl_height(a, a[n].left)
          /\ avl_height(m, m[n].right) = avl_height(a, a[n].right)
      BY <1>2, <1>3, <2>1 DEF avl_height, Pointers
    <2>3. CASE n = t
      <3>1. avl_height(a, a[t].left) \in Nat /\ avl_height(a, a[t].right) \in Nat
        BY <1>1, Heights, Fields
      <3> QED
        BY <1>2, <2>2, <2>3, <3>1 DEF Tall, Larger
    <2>4. CASE n # t
      BY <1>3, <2>2, <2>4 DEF Tall
    <2> QED
      BY <2>3, <2>4
  <1> QED
    BY <1>3, <1>4, <1>5
-----------------------------------------------------------------------------
(***************************************************************************)
(* Insertion and removal of a node.                                        *)
(***************************************************************************)
\* A leaf goes: its place is left out by none of the others.
LEMMA LeafGone ==
  ASSUME NEW a, NEW u, NEW lo, NEW hi, Placed(a, u, lo, hi),
         NEW t \in u, a[t].left = NULL, a[t].right = NULL,
         NEW b \in Memory, Redirected(a, b, u, t, NULL)
  PROVE  Placed(b, u \ {t}, lo, hi)
  <1> DEFINE v == u \ {t}
  <1>1. /\ NULL \notin u /\ u \in SUBSET Blocks /\ lo \in [Blocks -> Int]
        /\ hi \in [Blocks -> Int]
    BY AvlAssumption DEF Placed
  <1>2. \A n \in v : b[n].key = a[n].key /\ a[n].key \in Int
    BY <1>1, FitsLeft DEF Redirected
  <1>3. \A j \in v : a[j].key <= lo[t] \/ hi[t] <= a[j].key
    <2> SUFFICES ASSUME NEW j \in v
                 PROVE  a[j].key <= lo[t] \/ hi[t] <= a[j].key
      OBVIOUS
    <2>1. a[j].key # a[t].key
      BY Distinct
    <2> QED
      BY <2>1, FitsLeft
  <1>4. ASSUME NEW n \in v
        PROVE  Fits(b, v, lo, hi, n)
    <2>1. /\ lo[n] < a[n].key /\ a[n].key < hi[n] /\ b[n].key = a[n].key
      BY <1>2, FitsLeft
    <2>2. Edge(b, v, lo, hi, b[n].left, lo[n], b[n].key)
      <3>1. CASE a[n].left = NULL
        BY <1>1, <1>2, <2>1, <3>1, FitsLeft DEF Edge, Redirected
      <3>2. CASE a[n].left = t
        BY <1>1, <1>2, <1>3, <2>1, <3>2, FitsLeft DEF Edge, Redirected
      <3>3. CASE a[n].left # NULL /\ a[n].left # t
        BY <1>1, <1>2, <2>1, <3>3, FitsLeft DEF Edge, Redirected
      <3> QED
        BY <3>1, <3>2, <3>3
    <2>3. Edge(b, v, lo, hi, b[n].right, b[n].key, hi[n])
      <3>1. CASE a[n].right = NULL
        BY <1>1, <1>2, <2>1, <3>1, FitsLeft DEF Edge, Redirected
      <3>2. CASE a[n].right = t
        BY <1>1, <1>2, <1>3, <2>1, <3>2, FitsLeft DEF Edge, Redirected
      <3>3. CASE a[n].right # NULL /\ a[n].right # t
        BY <1>1, <1>2, <2>1, <3>3, FitsLeft DEF Edge, Redirected
      <3> QED
        BY <3>1, <3>2, <3>3
    <2> QED
      BY <2>1, <2>2, <2>3 DEF Fits
  <1>5. \A m, n \in v : m # n => Apart(b, lo, hi, m, n)
    BY <1>2, ApartCases DEF Apart, Below
  <1> QED
    BY <1>1, <1>4, <1>5 DEF Placed, Sound

\* The only child of t, the left one, moves into t.  A place that ended at t's
\* key ends where that of t does.
LEMMA LeftMoved ==
  ASSUME NEW a, NEW u, NEW lo, NEW hi, Placed(a, u, lo, hi),
         NEW t \in u, NEW c, c = a[t].left, c # NULL, a[t].right = NULL,
         NEW b \in Memory, b[t] = a[c], \A n \in u \ {t} : b[n] = a[n],
         NEW hi2 \in [Blocks -> Int],
         \A n \in u : IF a[t].key <= hi[n] /\ hi[n] < hi[t] THEN hi2[n] = hi[t]
                                                           ELSE hi2[n] = hi[n]
  PROVE  Placed(b, u \ {c}, lo, hi2)
  <1> DEFINE v == u \ {c}
  <1>1. /\ NULL \notin u /\ u \in SUBSET Blocks /\ lo \in [Blocks -> Int]
        /\ hi \in [Blocks -> Int]
    BY AvlAssumption DEF Placed
  <1>2. /\ c \in u /\ c # t /\ lo[c] = lo[t] /\ hi[c] = a[t].key
        /\ lo[t] \in Int /\ hi[t] \in Int /\ a[t].key \in Int /\ a[c].key \in Int
        /\ lo[t] < a[c].key /\ a[c].key < a[t].key /\ a[t].key < hi[t]
    BY <1>1, FitsLeft, Children
  <1>3. /\ hi2[t] = hi[t] /\ b[t].key = a[c].key
        /\ b[t].left = a[c].left /\ b[t].right = a[c].right
    BY <1>2
  <1>4. \A n \in u : n # t => a[n].key \in Int /\ (a[n].key < a[t].key \/ hi[t] <= a[n].key)
    BY FitsLeft, Distinct
  <1>5. \A n \in v : n # t => b[n].key = a[n].key /\ b[n].left = a[n].left /\ b[n].right = a[n].right
    OBVIOUS
  <1>6. \A j \in v : \E i \in u : i # t /\ b[j].key = a[i].key
    BY <1>2, <1>3, <1>5
  \* A gap of the tree a is one of the tree b after its end has moved.
  <1>7. ASSUME NEW low \in Int, NEW high \in Int, NEW high2 \in Int,
               \A j \in u : a[j].key <= low \/ high <= a[j].key,
               IF a[t].key <= high /\ high < hi[t] THEN high2 = hi[t] ELSE high2 = high
        PROVE  \A j \in v : b[j].key <= low \/ high2 <= b[j].key
    <2> SUFFICES ASSUME NEW i \in u, i # t
                 PROVE  a[i].key <= low \/ high2 <= a[i].key
      BY <1>6
    <2>1. a[i].key <= low \/ high <= a[i].key
      BY <1>7
    <2>2. a[i].key \in Int /\ (a[i].key < a[t].key \/ hi[t] <= a[i].key)
      BY <1>4
    <2> QED
      BY <1>2, <1>7, <2>1, <2>2
  <1>8. \A n \in v : n # c
    OBVIOUS
  <1>9. Fits(b, v, lo, hi2, t)
    <2>1. Edge(b, v, lo, hi2, b[t].left, lo[t], b[t].key)
      <3>1. CASE a[c].left = NULL
        <4>1. \A j \in u : a[j].key <= lo[t] \/ a[c].key <= a[j].key
          BY <1>2, <3>1, FitsLeft
        <4>2. \A j \in v : b[j].key <= lo[t] \/ a[c].key <= b[j].key
          BY <1>2, <1>7, <4>1
        <4> QED
          BY <1>3, <3>1, <4>2 DEF Edge
      <3>2. CASE a[c].left # NULL
        <4>1. a[c].left \in u /\ lo[a[c].left] = lo[t] /\ hi[a[c].left] = a[c].key /\ a[c].left # c
          BY <1>2, <3>2, FitsLeft, Children
        <4>2. hi2[a[c].left] = a[c].key
          BY <1>2, <4>1
        <4> QED
          BY <1>3, <3>2, <4>1, <4>2 DEF Edge
      <3> QED
        BY <3>1, <3>2
    <2>2. Edge(b, v, lo, hi2, b[t].right, b[t].key, hi2[t])
      <3>1. CASE a[c].right = NULL
        <4>1. \A j \in u : a[j].key <= a[c].key \/ a[t].key <= a[j].key
          BY <1>2, <3>1, FitsLeft
        <4>2. \A j \in v : b[j].key <= a[c].key \/ hi[t] <= b[j].key
          BY <1>2, <1>7, <4>1
        <4> QED
          BY <1>3, <3>1, <4>2 DEF Edge
      <3>2. CASE a[c].right # NULL
        <4>1. /\ a[c].right \in u /\ lo[a[c].right] = a[c].key
              /\ hi[a[c].right] = a[t].key /\ a[c].right # c
          BY <1>2, <3>2, FitsLeft, Children
        <4>2. hi2[a[c].right] = hi[t]
          BY <1>2, <4>1
        <4> QED
          BY <1>3, <3>2, <4>1, <4>2 DEF Edge
      <3> QED
        BY <3>1, <3>2
    <2> QED
      BY <1>2, <1>3, <2>1, <2>2 DEF Fits
  <1>10. ASSUME NEW n \in v, n # t
         PROVE  Fits(b, v, lo, hi2, n)
    <2>1. /\ lo[n] \in Int /\ hi[n] \in Int /\ a[n].key \in Int /\ hi2[n] \in Int
          /\ lo[n] < a[n].key /\ a[n].key < hi[n] /\ hi[n] <= hi2[n]
          /\ b[n].key = a[n].key /\ b[n].left = a[n].left /\ b[n].right = a[n].right
      BY <1>1, <1>2, <1>5, <1>10, FitsLeft
    <2>2. a[n].left # c /\ a[n].right # c
      BY <1>2, <1>10, OneParent
    <2>3. Edge(b, v, lo, hi2, b[n].left, lo[n], b[n].key)
      <3>1. CASE a[n].left = NULL
        <4>1. \A j \in u : a[j].key <= lo[n] \/ a[n].key <= a[j].key
          BY <3>1, FitsLeft
        <4>2. a[n].key < a[t].key \/ hi[t] <= a[n].key
          BY <1>4, <1>10
        <4>3. \A j \in v : b[j].key <= lo[n] \/ a[n].key <= b[j].key
          BY <1>2, <1>7, <2>1, <4>1, <4>2
        <4> QED
          BY <2>1, <3>1, <4>3 DEF Edge
      <3>2. CASE a[n].left # NULL
        <4>1. a[n].left \in u /\ lo[a[n].left] = lo[n] /\ hi[a[n].left] = a[n].key
          BY <3>2, FitsLeft
        <4>2. a[n].key < a[t].key \/ hi[t] <= a[n].key
          BY <1>4, <1>10
        <4>3. hi2[a[n].left] = a[n].key
          BY <1>2, <2>1, <4>1, <4>2
        <4> QED
          BY <2>1, <2>2, <3>2, <4>1, <4>3 DEF Edge
      <3> QED
        BY <3>1, <3>2
    <2>4. Edge(b, v, lo, hi2, b[n].right, b[n].key, hi2[n])
      <3>1. CASE a[n].right = NULL
        <4>1. \A j \in u : a[j].key <= a[n].key \/ hi[n] <= a[j].key
          BY <3>1, FitsLeft
        <4>2. \A j \in v : b[j].key <= a[n].key \/ hi2[n] <= b[j].key
          BY <1>2, <1>7, <2>1, <4>1
        <4> QED
          BY <2>1, <3>1, <4>2 DEF Edge
      <3>2. CASE a[n].right # NULL
        <4>1. a[n].right \in u /\ lo[a[n].right] = a[n].key /\ hi[a[n].right] = hi[n]
          BY <3>2, FitsLeft
        <4>3. hi2[a[n].right] = hi2[n]
          BY <4>1
        <4> QED
          BY <2>1, <2>2, <3>2, <4>1, <4>3 DEF Edge
      <3> QED
        BY <3>1, <3>2
    <2> QED
      BY <2>1, <2>3, <2>4 DEF Fits
  <1>11. ASSUME NEW m \in v, NEW n \in v, m # n
         PROVE  Apart(b, lo, hi2, m, n)
    <2>1. ASSUME NEW i \in v, i # t
          PROVE  /\ lo[i] \in Int /\ hi[i] \in Int /\ a[i].key \in Int /\ hi2[i] \in Int
                 /\ lo[i] < a[i].key /\ a[i].key < hi[i] /\ b[i].key = a[i].key
                 /\ IF a[t].key <= hi[i] /\ hi[i] < hi[t] THEN hi2[i] = hi[t] ELSE hi2[i] = hi[i]
                 /\ a[i].key < a[t].key \/ hi[t] <= a[i].key
                 /\ \/ lo[t] <= lo[i] /\ hi[i] <= a[t].key
                    \/ a[t].key <= lo[i] /\ hi[i] <= hi[t]
                    \/ lo[i] <= lo[t] /\ hi[t] <= a[i].key
                    \/ a[i].key <= lo[t] /\ hi[t] <= hi[i]
                    \/ hi[i] <= lo[t]
                    \/ hi[t] <= lo[i]
      BY <1>1, <1>4, <1>5, <2>1, FitsLeft, ApartCases
    <2>2. ASSUME NEW i \in v, i # t
          PROVE  Apart(b, lo, hi2, i, t)
      <3>1. \/ lo[t] <= lo[i] /\ hi[i] <= a[c].key
            \/ a[c].key <= lo[i] /\ hi[i] <= a[t].key
            \/ lo[i] <= lo[t] /\ a[t].key <= a[i].key
            \/ a[i].key <= lo[t] /\ a[t].key <= hi[i]
            \/ hi[i] <= lo[t]
            \/ a[t].key <= lo[i]
        BY <1>2, ApartCases
      <3> QED
        BY <1>2, <1>3, <2>1, <2>2, <3>1 DEF Apart, Below
    <2>3. CASE m # t /\ n # t
      <3>1. \/ lo[n] <= lo[m] /\ hi[m] <= a[n].key
            \/ a[n].key <= lo[m] /\ hi[m] <= hi[n]
            \/ lo[m] <= lo[n] /\ hi[n] <= a[m].key
            \/ a[m].key <= lo[n] /\ hi[n] <= hi[m]
            \/ hi[m] <= lo[n]
            \/ hi[n] <= lo[m]
        BY <1>11, ApartCases
      <3> QED
        BY <1>2, <2>1, <2>3, <3>1 DEF Apart, Below
    <2>4. CASE m # t /\ n = t
      BY <2>2, <2>4
    <2>5. CASE m = t /\ n # t
      BY <2>2, <2>5 DEF Apart
    <2> QED
      BY <1>11, <2>3, <2>4, <2>5
  <1> QED
    BY <1>1, <1>9, <1>10, <1>11 DEF Placed, Sound

\* The mirror image.
LEMMA RightMoved ==
  ASSUME NEW a, NEW u, NEW lo, NEW hi, Placed(a, u, lo, hi),
         NEW t \in u, NEW c, c = a[t].right, c # NULL, a[t].left = NULL,
         NEW b \in Memory, b[t] = a[c], \A n \in u \ {t} : b[n] = a[n],
         NEW lo2 \in [Blocks -> Int],
         \A n \in u : IF a[t].key >= lo[n] /\ lo[n] > lo[t] THEN lo2[n] = lo[t]
                                                           ELSE lo2[n] = lo[n]
  PROVE  Placed(b, u \ {c}, lo2, hi)
  <1> DEFINE v == u \ {c}
  <1>1. /\ NULL \notin u /\ u \in SUBSET Blocks /\ hi \in [Blocks -> Int]
        /\ lo \in [Blocks -> Int]
    BY AvlAssumption DEF Placed
  <1>2. /\ c \in u /\ c # t /\ hi[c] = hi[t] /\ lo[c] = a[t].key
        /\ hi[t] \in Int /\ lo[t] \in Int /\ a[t].key \in Int /\ a[c].key \in Int
        /\ hi[t] > a[c].key /\ a[c].key > a[t].key /\ a[t].key > lo[t]
    BY <1>1, FitsLeft, Children
  <1>3. /\ lo2[t] = lo[t] /\ b[t].key = a[c].key
        /\ b[t].right = a[c].right /\ b[t].left = a[c].left
    BY <1>2
  <1>4. \A n \in u : n # t => a[n].key \in Int /\ (a[n].key > a[t].key \/ lo[t] >= a[n].key)
    BY FitsLeft, Distinct
  <1>5. \A n \in v : n # t => b[n].key = a[n].key /\ b[n].right = a[n].right /\ b[n].left = a[n].left
    OBVIOUS
  <1>6. \A j \in v : \E i \in u : i # t /\ b[j].key = a[i].key
    BY <1>2, <1>3, <1>5
  \* A gap of the tree a is one of the tree b after its end has moved.
  <1>7. ASSUME NEW high \in Int, NEW low \in Int, NEW low2 \in Int,
               \A j \in u : a[j].key >= high \/ low >= a[j].key,
               IF a[t].key >= low /\ low > lo[t] THEN low2 = lo[t] ELSE low2 = low
        PROVE  \A j \in v : b[j].key >= high \/ low2 >= b[j].key
    <2> SUFFICES ASSUME NEW i \in u, i # t
                 PROVE  a[i].key >= high \/ low2 >= a[i].key
      BY <1>6
    <2>1. a[i].key >= high \/ low >= a[i].key
      BY <1>7
    <2>2. a[i].key \in Int /\ (a[i].key > a[t].key \/ lo[t] >= a[i].key)
      BY <1>4
    <2> QED
      BY <1>2, <1>7, <2>1, <2>2
  <1>8. \A n \in v : n # c
    OBVIOUS
  <1>9. Fits(b, v, lo2, hi, t)
    <2>1. Edge(b, v, lo2, hi, b[t].right, b[t].key, hi[t])
      <3>1. CASE a[c].right = NULL
        <4>1. \A j \in u : a[j].key >= hi[t] \/ a[c].key >= a[j].key
          BY <1>2, <3>1, FitsLeft
        <4>2. \A j \in v : b[j].key >= hi[t] \/ a[c].key >= b[j].key
          BY <1>2, <1>7, <4>1
        <4> QED
          BY <1>3, <3>1, <4>2 DEF Edge
      <3>2. CASE a[c].right # NULL
        <4>1. a[c].right \in u /\ hi[a[c].right] = hi[t] /\ lo[a[c].right] = a[c].key /\ a[c].right # c
          BY <1>2, <3>2, FitsLeft, Children
        <4>2. lo2[a[c].right] = a[c].key
          BY <1>2, <4>1
        <4> QED
          BY <1>3, <3>2, <4>1, <4>2 DEF Edge
      <3> QED
        BY <3>1, <3>2
    <2>2. Edge(b, v, lo2, hi, b[t].left, lo2[t], b[t].key)
      <3>1. CASE a[c].left = NULL
        <4>1. \A j \in u : a[j].key >= a[c].key \/ a[t].key >= a[j].key
          BY <1>2, <3>1, FitsLeft
        <4>2. \A j \in v : b[j].key >= a[c].key \/ lo[t] >= b[j].key
          BY <1>2, <1>7, <4>1
        <4> QED
          BY <1>3, <3>1, <4>2 DEF Edge
      <3>2. CASE a[c].left # NULL
        <4>1. /\ a[c].left \in u /\ hi[a[c].left] = a[c].key
              /\ lo[a[c].left] = a[t].key /\ a[c].left # c
          BY <1>2, <3>2, FitsLeft, Children
        <4>2. lo2[a[c].left] = lo[t]
          BY <1>2, <4>1
        <4> QED
          BY <1>3, <3>2, <4>1, <4>2 DEF Edge
      <3> QED
        BY <3>1, <3>2
    <2> QED
      BY <1>2, <1>3, <2>1, <2>2 DEF Fits
  <1>10. ASSUME NEW n \in v, n # t
         PROVE  Fits(b, v, lo2, hi, n)
    <2>1. /\ hi[n] \in Int /\ lo[n] \in Int /\ a[n].key \in Int /\ lo2[n] \in Int
          /\ hi[n] > a[n].key /\ a[n].key > lo[n] /\ lo[n] >= lo2[n]
          /\ b[n].key = a[n].key /\ b[n].right = a[n].right /\ b[n].left = a[n].left
      BY <1>1, <1>2, <1>5, <1>10, FitsLeft
    <2>2. a[n].right # c /\ a[n].left # c
      BY <1>2, <1>10, OneParent
    <2>3. Edge(b, v, lo2, hi, b[n].right, b[n].key, hi[n])
      <3>1. CASE a[n].right = NULL
        <4>1. \A j \in u : a[j].key >= hi[n] \/ a[n].key >= a[j].key
          BY <3>1, FitsLeft
        <4>2. a[n].key > a[t].key \/ lo[t] >= a[n].key
          BY <1>4, <1>10
        <4>3. \A j \in v : b[j].key >= hi[n] \/ a[n].key >= b[j].key
          BY <1>2, <1>7, <2>1, <4>1, <4>2
        <4> QED
          BY <2>1, <3>1, <4>3 DEF Edge
      <3>2. CASE a[n].right # NULL
        <4>1. a[n].right \in u /\ hi[a[n].right] = hi[n] /\ lo[a[n].right] = a[n].key
          BY <3>2, FitsLeft
        <4>2. a[n].key > a[t].key \/ lo[t] >= a[n].key
          BY <1>4, <1>10
        <4>3. lo2[a[n].right] = a[n].key
          BY <1>2, <2>1, <4>1, <4>2
        <4> QED
          BY <2>1, <2>2, <3>2, <4>1, <4>3 DEF Edge
      <3> QED
        BY <3>1, <3>2
    <2>4. Edge(b, v, lo2, hi, b[n].left, lo2[n], b[n].key)
      <3>1. CASE a[n].left = NULL
        <4>1. \A j \in u : a[j].key >= a[n].key \/ lo[n] >= a[j].key
          BY <3>1, FitsLeft
        <4>2. \A j \in v : b[j].key >= a[n].key \/ lo2[n] >= b[j].key
          BY <1>2, <1>7, <2>1, <4>1
        <4> QED
          BY <2>1, <3>1, <4>2 DEF Edge
      <3>2. CASE a[n].left # NULL
        <4>1. a[n].left \in u /\ hi[a[n].left] = a[n].key /\ lo[a[n].left] = lo[n]
          BY <3>2, FitsLeft
        <4>3. lo2[a[n].left] = lo2[n]
          BY <4>1
        <4> QED
          BY <2>1, <2>2, <3>2, <4>1, <4>3 DEF Edge
      <3> QED
        BY <3>1, <3>2
    <2> QED
      BY <2>1, <2>3, <2>4 DEF Fits
  <1>11. ASSUME NEW m \in v, NEW n \in v, m # n
         PROVE  Apart(b, lo2, hi, m, n)
    <2>1. ASSUME NEW i \in v, i # t
          PROVE  /\ hi[i] \in Int /\ lo[i] \in Int /\ a[i].key \in Int /\ lo2[i] \in Int
                 /\ hi[i] > a[i].key /\ a[i].key > lo[i] /\ b[i].key = a[i].key
                 /\ IF a[t].key >= lo[i] /\ lo[i] > lo[t] THEN lo2[i] = lo[t] ELSE lo2[i] = lo[i]
                 /\ a[i].key > a[t].key \/ lo[t] >= a[i].key
                 /\ \/ hi[t] >= hi[i] /\ lo[i] >= a[t].key
                    \/ a[t].key >= hi[i] /\ lo[i] >= lo[t]
                    \/ hi[i] >= hi[t] /\ lo[t] >= a[i].key
                    \/ a[i].key >= hi[t] /\ lo[t] >= lo[i]
                    \/ lo[i] >= hi[t]
                    \/ lo[t] >= hi[i]
      BY <1>1, <1>4, <1>5, <2>1, FitsLeft, ApartCases
    <2>2. ASSUME NEW i \in v, i # t
          PROVE  Apart(b, lo2, hi, i, t)
      <3>1. \/ hi[t] >= hi[i] /\ lo[i] >= a[c].key
            \/ a[c].key >= hi[i] /\ lo[i] >= a[t].key
            \/ hi[i] >= hi[t] /\ a[t].key >= a[i].key
            \/ a[i].key >= hi[t] /\ a[t].key >= lo[i]
            \/ lo[i] >= hi[t]
            \/ a[t].key >= hi[i]
        BY <1>2, ApartCases
      <3> QED
        BY <1>2, <1>3, <2>1, <2>2, <3>1 DEF Apart, Below
    <2>3. CASE m # t /\ n # t
      <3>1. \/ hi[n] >= hi[m] /\ lo[m] >= a[n].key
            \/ a[n].key >= hi[m] /\ lo[m] >= lo[n]
            \/ hi[m] >= hi[n] /\ lo[n] >= a[m].key
            \/ a[m].key >= hi[n] /\ lo[n] >= lo[m]
            \/ lo[m] >= hi[n]
            \/ lo[n] >= hi[m]
        BY <1>11, ApartCases
      <3> QED
        BY <1>2, <2>1, <2>3, <3>1 DEF Apart, Below
    <2>4. CASE m # t /\ n = t
      BY <2>2, <2>4
    <2>5. CASE m = t /\ n # t
      BY <2>2, <2>5 DEF Apart
    <2> QED
      BY <1>11, <2>3, <2>4, <2>5
  <1> QED
    BY <1>1, <1>9, <1>10, <1>11 DEF Placed, Sound

\* The key of d becomes the next one, which nothing else has: places that ended
\* or began at the old key, or between the two, do so at the new one.
LEMMA Renamed ==
  ASSUME NEW a, NEW u, NEW lo, NEW hi, Placed(a, u, lo, hi),
         NEW d \in u, NEW k \in Int, a[d].key < k, k < hi[d],
         \A j \in u : a[j].key <= a[d].key \/ k < a[j].key,
         NEW b \in Memory, b[d].key = k, \A n \in u \ {d} : b[n].key = a[n].key,
         \A n \in u : b[n].left = a[n].left /\ b[n].right = a[n].right,
         NEW lo2 \in [Blocks -> Int], NEW hi2 \in [Blocks -> Int],
         \A n \in u : IF a[d].key <= lo[n] /\ lo[n] < k THEN lo2[n] = k ELSE lo2[n] = lo[n],
         \A n \in u : IF a[d].key <= hi[n] /\ hi[n] < k THEN hi2[n] = k ELSE hi2[n] = hi[n]
  PROVE  Placed(b, u, lo2, hi2)
  <1> DEFINE old == a[d].key
             Moves(v, w) == IF old <= v /\ v < k THEN w = k ELSE w = v
  <1>1. old \in Int /\ NULL \notin u /\ u \in SUBSET Blocks
    BY FitsLeft, AvlAssumption DEF Placed
  <1>2. ASSUME NEW n \in u
        PROVE  /\ lo[n] \in Int /\ hi[n] \in Int /\ a[n].key \in Int /\ b[n].key \in Int
               /\ lo2[n] \in Int /\ hi2[n] \in Int
               /\ lo[n] < a[n].key /\ a[n].key < hi[n]
               /\ Moves(lo[n], lo2[n]) /\ Moves(hi[n], hi2[n]) /\ Moves(a[n].key, b[n].key)
               /\ a[n].key <= old \/ k < a[n].key
               /\ n # d => b[n].key = a[n].key /\ a[n].key # old
    <2>1. /\ lo[n] \in Int /\ hi[n] \in Int /\ a[n].key \in Int
          /\ lo[n] < a[n].key /\ a[n].key < hi[n] /\ n \in Blocks
      BY FitsLeft
    <2>2. n # d => b[n].key = a[n].key /\ a[n].key # old
      BY Distinct
    <2>3. Moves(a[n].key, b[n].key)
      BY <1>1, <2>1, <2>2
    <2>4. b[n].key \in Int
      BY <2>1, <2>2
    <2> QED
      BY <2>1, <2>2, <2>3, <2>4
  <1> HIDE DEF old
  <1>3. ASSUME NEW low \in Int, NEW high \in Int, NEW low2 \in Int, NEW high2 \in Int,
               Moves(low, low2), Moves(high, high2),
               \A j \in u : a[j].key <= low \/ high <= a[j].key
        PROVE  \A j \in u : b[j].key <= low2 \/ high2 <= b[j].key
    <2> SUFFICES ASSUME NEW j \in u
                 PROVE  b[j].key <= low2 \/ high2 <= b[j].key
      OBVIOUS
    <2>1. a[j].key <= low \/ high <= a[j].key
      BY <1>3
    <2> QED
      BY <1>1, <1>2, <1>3, <2>1
  <1>4. ASSUME NEW n \in u
        PROVE  Fits(b, u, lo2, hi2, n)
    <2>1. lo2[n] < b[n].key /\ b[n].key < hi2[n]
      <3>1. CASE n = d
        BY <1>1, <1>2, <3>1 DEF old
      <3>2. CASE n # d
        BY <1>1, <1>2, <3>2
      <3> QED
        BY <3>1, <3>2
    <2>2. Edge(b, u, lo2, hi2, b[n].left, lo2[n], b[n].key)
      <3>1. CASE a[n].left = NULL
        <4>1. \A j \in u : a[j].key <= lo[n] \/ a[n].key <= a[j].key
          BY <3>1, FitsLeft
        <4> QED
          BY <1>2, <1>3, <3>1, <4>1 DEF Edge
      <3>2. CASE a[n].left # NULL
        <4>1. a[n].left \in u /\ lo[a[n].left] = lo[n] /\ hi[a[n].left] = a[n].key
          BY <3>2, FitsLeft
        <4>2. lo2[a[n].left] = lo2[n] /\ hi2[a[n].left] = b[n].key
          BY <1>2, <4>1
        <4> QED
          BY <3>2, <4>1, <4>2 DEF Edge
      <3> QED
        BY <3>1, <3>2
    <2>3. Edge(b, u, lo2, hi2, b[n].right, b[n].key, hi2[n])
      <3>1. CASE a[n].right = NULL
        <4>1. \A j \in u : a[j].key <= a[n].key \/ hi[n] <= a[j].key
          BY <3>1, FitsLeft
        <4> QED
          BY <1>2, <1>3, <3>1, <4>1 DEF Edge
      <3>2. CASE a[n].right # NULL
        <4>1. a[n].right \in u /\ lo[a[n].right] = a[n].key /\ hi[a[n].right] = hi[n]
          BY <3>2, FitsLeft
        <4>2. lo2[a[n].right] = b[n].key /\ hi2[a[n].right] = hi2[n]
          BY <1>2, <4>1
        <4> QED
          BY <3>2, <4>1, <4>2 DEF Edge
      <3> QED
        BY <3>1, <3>2
    <2> QED
      BY <2>1, <2>2, <2>3 DEF Fits
  \* Moves preserves the order.
  <1>5. ASSUME NEW v \in Int, NEW w \in Int, NEW v2 \in Int, NEW w2 \in Int,
               Moves(v, v2), Moves(w, w2), v <= w
        PROVE  v2 <= w2
    BY <1>1, <1>5
  <1>6. ASSUME NEW m \in u, NEW n \in u, m # n
        PROVE  Apart(b, lo2, hi2, m, n)
    <2>1. \/ lo[n] <= lo[m] /\ hi[m] <= a[n].key
          \/ a[n].key <= lo[m] /\ hi[m] <= hi[n]
          \/ lo[m] <= lo[n] /\ hi[n] <= a[m].key
          \/ a[m].key <= lo[n] /\ hi[n] <= hi[m]
          \/ hi[m] <= lo[n]
          \/ hi[n] <= lo[m]
      BY <1>6, ApartCases
    <2>2. /\ lo[n] <= lo[m] => lo2[n] <= lo2[m]
          /\ lo[m] <= lo[n] => lo2[m] <= lo2[n]
          /\ hi[n] <= hi[m] => hi2[n] <= hi2[m]
          /\ hi[m] <= hi[n] => hi2[m] <= hi2[n]
      BY <1>2, <1>5
    <2>3. /\ hi[m] <= a[n].key => hi2[m] <= b[n].key
          /\ hi[n] <= a[m].key => hi2[n] <= b[m].key
          /\ a[n].key <= lo[m] => b[n].key <= lo2[m]
          /\ a[m].key <= lo[n] => b[m].key <= lo2[n]
      BY <1>2, <1>5
    <2>4. /\ hi[m] <= lo[n] => hi2[m] <= lo2[n]
          /\ hi[n] <= lo[m] => hi2[n] <= lo2[m]
      BY <1>2, <1>5
    <2> QED
      BY <2>1, <2>2, <2>3, <2>4 DEF Apart, Below
  <1> QED
    BY <1>1, <1>4, <1>6 DEF Placed, Sound

\* A new node x takes the place of a missing left child of p.
LEMMA LeftPut ==
  ASSUME NEW a, NEW u, NEW lo, NEW hi, Placed(a, u, lo, hi),
         NEW p \in u, a[p].left = NULL,
         NEW x \in Blocks, x \notin u,
         NEW b \in Memory, lo[p] < b[x].key, b[x].key < a[p].key,
         b[x].left = NULL, b[x].right = NULL, b[p].left = x,
         \A n \in u : b[n].key = a[n].key /\ b[n].right = a[n].right,
         \A n \in u : n # p => b[n].left = a[n].left,
         NEW lo2 \in [Blocks -> Int], NEW hi2 \in [Blocks -> Int],
         lo2[x] = lo[p], hi2[x] = a[p].key,
         \A n \in u : lo2[n] = lo[n] /\ hi2[n] = hi[n]
  PROVE  Placed(b, u \cup {x}, lo2, hi2)
  <1> DEFINE v == u \cup {x}
             k == b[x].key
  <1>1. /\ NULL \notin v /\ v \in SUBSET Blocks /\ k \in Int
    BY AvlAssumption, Fields DEF Placed
  <1>2. /\ lo[p] \in Int /\ hi[p] \in Int /\ a[p].key \in Int
        /\ lo[p] < k /\ k < a[p].key /\ a[p].key < hi[p]
        /\ \A j \in u : a[j].key <= lo[p] \/ a[p].key <= a[j].key
    BY FitsLeft
  <1> HIDE DEF k
  <1>3. ASSUME NEW n \in u
        PROVE  /\ lo[n] \in Int /\ hi[n] \in Int /\ a[n].key \in Int
               /\ lo[n] < a[n].key /\ a[n].key < hi[n]
               /\ lo2[n] = lo[n] /\ hi2[n] = hi[n] /\ b[n].key = a[n].key
    BY FitsLeft
  \* No other subtree is missing where the new key belongs.
  <1>4. ASSUME NEW n \in u, n # p
        PROVE  /\ Apart(b, lo2, hi2, x, n)
               /\ a[n].left = NULL => k <= lo[n] \/ a[n].key <= k
               /\ a[n].right = NULL => k <= a[n].key \/ hi[n] <= k
    <2>1. \/ lo[n] <= lo[p] /\ hi[p] <= a[n].key
          \/ a[n].key <= lo[p] /\ hi[p] <= hi[n]
          \/ lo[p] <= lo[n] /\ hi[n] <= a[p].key
          \/ a[p].key <= lo[n] /\ hi[n] <= hi[p]
          \/ hi[p] <= lo[n]
          \/ hi[n] <= lo[p]
      BY <1>4, ApartCases
    <2>2. a[n].key <= lo[p] \/ a[p].key <= a[n].key
      BY <1>2
    <2>3. Apart(b, lo2, hi2, x, n)
      BY <1>2, <1>3, <2>1, <2>2 DEF Apart, Below
    <2>4. a[n].left = NULL => k <= lo[n] \/ a[n].key <= k
      <3>1. a[n].left = NULL => a[p].key <= lo[n] \/ a[n].key <= a[p].key
        BY FitsLeft
      <3> QED
        BY <1>1, <1>2, <1>3, <2>1, <2>2, <3>1
    <2>5. a[n].right = NULL => k <= a[n].key \/ hi[n] <= k
      <3>1. a[n].right = NULL => a[p].key <= a[n].key \/ hi[n] <= a[p].key
        BY FitsLeft
      <3> QED
        BY <1>1, <1>2, <1>3, <2>1, <2>2, <3>1
    <2> QED
      BY <2>3, <2>4, <2>5
  <1>5. Fits(b, v, lo2, hi2, x)
    <2>1. /\ \A j \in v : b[j].key <= lo[p] \/ k <= b[j].key
          /\ \A j \in v : b[j].key <= k \/ a[p].key <= b[j].key
      BY <1>1, <1>2, <1>3 DEF k
    <2> QED
      BY <1>1, <1>2, <2>1 DEF Fits, Edge, k
  <1>6. ASSUME NEW n \in u
        PROVE  Fits(b, v, lo2, hi2, n)
    <2>1. Edge(b, v, lo2, hi2, b[n].left, lo2[n], b[n].key)
      <3>1. CASE n = p
        BY <1>1, <1>3, <3>1 DEF Edge
      <3>2. CASE n # p /\ a[n].left = NULL
        <4>1. \A j \in u : a[j].key <= lo[n] \/ a[n].key <= a[j].key
          BY <3>2, FitsLeft
        <4>2. k <= lo[n] \/ a[n].key <= k
          BY <1>4, <3>2
        <4> QED
          BY <1>3, <3>2, <4>1, <4>2 DEF Edge, k
      <3>3. CASE n # p /\ a[n].left # NULL
        <4>1. a[n].left \in u /\ lo[a[n].left] = lo[n] /\ hi[a[n].left] = a[n].key
          BY <3>3, FitsLeft
        <4> QED
          BY <1>3, <3>3, <4>1 DEF Edge
      <3> QED
        BY <3>1, <3>2, <3>3
    <2>2. Edge(b, v, lo2, hi2, b[n].right, b[n].key, hi2[n])
      <3>1. CASE a[n].right = NULL
        <4>1. \A j \in u : a[j].key <= a[n].key \/ hi[n] <= a[j].key
          BY <3>1, FitsLeft
        <4>2. k <= a[n].key \/ hi[n] <= k
          BY <1>1, <1>2, <1>3, <1>4, <3>1
        <4> QED
          BY <1>3, <3>1, <4>1, <4>2 DEF Edge, k
      <3>2. CASE a[n].right # NULL
        <4>1. a[n].right \in u /\ lo[a[n].right] = a[n].key /\ hi[a[n].right] = hi[n]
          BY <3>2, FitsLeft
        <4> QED
          BY <1>3, <3>2, <4>1 DEF Edge
      <3> QED
        BY <3>1, <3>2
    <2> QED
      BY <1>3, <2>1, <2>2 DEF Fits
  <1>7. ASSUME NEW m \in v, NEW n \in v, m # n
        PROVE  Apart(b, lo2, hi2, m, n)
    <2>1. Apart(b, lo2, hi2, x, p)
      BY <1>2, <1>3 DEF Apart, Below
    <2>2. CASE m \in u /\ n \in u
      BY <1>3, <1>7, <2>2, ApartCases DEF Apart, Below
    <2>3. CASE m = x /\ n \in u
      BY <1>4, <2>1, <2>3
    <2>4. CASE n = x /\ m \in u
      <3>1. Apart(b, lo2, hi2, x, m)
        BY <1>4, <2>1, <2>4
      <3> QED
        BY <2>4, <3>1 DEF Apart
    <2> QED
      BY <1>7, <2>2, <2>3, <2>4
  <1> QED
    BY <1>1, <1>5, <1>6, <1>7 DEF Placed, Sound

\* The mirror image.
LEMMA RightPut ==
  ASSUME NEW a, NEW u, NEW lo, NEW hi, Placed(a, u, lo, hi),
         NEW p \in u, a[p].right = NULL,
         NEW x \in Blocks, x \notin u,
         NEW b \in Memory, hi[p] > b[x].key, b[x].key > a[p].key,
         b[x].right = NULL, b[x].left = NULL, b[p].right = x,
         \A n \in u : b[n].key = a[n].key /\ b[n].left = a[n].left,
         \A n \in u : n # p => b[n].right = a[n].right,
         NEW hi2 \in [Blocks -> Int], NEW lo2 \in [Blocks -> Int],
         hi2[x] = hi[p], lo2[x] = a[p].key,
         \A n \in u : hi2[n] = hi[n] /\ lo2[n] = lo[n]
  PROVE  Placed(b, u \cup {x}, lo2, hi2)
  <1> DEFINE v == u \cup {x}
             k == b[x].key
  <1>1. /\ NULL \notin v /\ v \in SUBSET Blocks /\ k \in Int
    BY AvlAssumption, Fields DEF Placed
  <1>2. /\ hi[p] \in Int /\ lo[p] \in Int /\ a[p].key \in Int
        /\ hi[p] > k /\ k > a[p].key /\ a[p].key > lo[p]
        /\ \A j \in u : a[j].key >= hi[p] \/ a[p].key >= a[j].key
    BY FitsLeft
  <1> HIDE DEF k
  <1>3. ASSUME NEW n \in u
        PROVE  /\ hi[n] \in Int /\ lo[n] \in Int /\ a[n].key \in Int
               /\ hi[n] > a[n].key /\ a[n].key > lo[n]
               /\ hi2[n] = hi[n] /\ lo2[n] = lo[n] /\ b[n].key = a[n].key
    BY FitsLeft
  \* No other subtree is missing where the new key belongs.
  <1>4. ASSUME NEW n \in u, n # p
        PROVE  /\ Apart(b, lo2, hi2, x, n)
               /\ a[n].right = NULL => k >= hi[n] \/ a[n].key >= k
               /\ a[n].left = NULL => k >= a[n].key \/ lo[n] >= k
    <2>1. \/ hi[n] >= hi[p] /\ lo[p] >= a[n].key
          \/ a[n].key >= hi[p] /\ lo[p] >= lo[n]
          \/ hi[p] >= hi[n] /\ lo[n] >= a[p].key
          \/ a[p].key >= hi[n] /\ lo[n] >= lo[p]
          \/ lo[p] >= hi[n]
          \/ lo[n] >= hi[p]
      BY <1>4, ApartCases
    <2>2. a[n].key >= hi[p] \/ a[p].key >= a[n].key
      BY <1>2
    <2>3. Apart(b, lo2, hi2, x, n)
      BY <1>2, <1>3, <2>1, <2>2 DEF Apart, Below
    <2>4. a[n].right = NULL => k >= hi[n] \/ a[n].key >= k
      <3>1. a[n].right = NULL => a[p].key >= hi[n] \/ a[n].key >= a[p].key
        BY FitsLeft
      <3> QED
        BY <1>1, <1>2, <1>3, <2>1, <2>2, <3>1
    <2>5. a[n].left = NULL => k >= a[n].key \/ lo[n] >= k
      <3>1. a[n].left = NULL => a[p].key >= a[n].key \/ lo[n] >= a[p].key
        BY FitsLeft
      <3> QED
        BY <1>1, <1>2, <1>3, <2>1, <2>2, <3>1
    <2> QED
      BY <2>3, <2>4, <2>5
  <1>5. Fits(b, v, lo2, hi2, x)
    <2>1. /\ \A j \in v : b[j].key >= hi[p] \/ k >= b[j].key
          /\ \A j \in v : b[j].key >= k \/ a[p].key >= b[j].key
      BY <1>1, <1>2, <1>3 DEF k
    <2> QED
      BY <1>1, <1>2, <2>1 DEF Fits, Edge, k
  <1>6. ASSUME NEW n \in u
        PROVE  Fits(b, v, lo2, hi2, n)
    <2>1. Edge(b, v, lo2, hi2, b[n].right, b[n].key, hi2[n])
      <3>1. CASE n = p
        BY <1>1, <1>3, <3>1 DEF Edge
      <3>2. CASE n # p /\ a[n].right = NULL
        <4>1. \A j \in u : a[j].key >= hi[n] \/ a[n].key >= a[j].key
          BY <3>2, FitsLeft
        <4>2. k >= hi[n] \/ a[n].key >= k
          BY <1>4, <3>2
        <4> QED
          BY <1>3, <3>2, <4>1, <4>2 DEF Edge, k
      <3>3. CASE n # p /\ a[n].right # NULL
        <4>1. a[n].right \in u /\ hi[a[n].right] = hi[n] /\ lo[a[n].right] = a[n].key
          BY <3>3, FitsLeft
        <4> QED
          BY <1>3, <3>3, <4>1 DEF Edge
      <3> QED
        BY <3>1, <3>2, <3>3
    <2>2. Edge(b, v, lo2, hi2, b[n].left, lo2[n], b[n].key)
      <3>1. CASE a[n].left = NULL
        <4>1. \A j \in u : a[j].key >= a[n].key \/ lo[n] >= a[j].key
          BY <3>1, FitsLeft
        <4>2. k >= a[n].key \/ lo[n] >= k
          BY <1>1, <1>2, <1>3, <1>4, <3>1
        <4> QED
          BY <1>3, <3>1, <4>1, <4>2 DEF Edge, k
      <3>2. CASE a[n].left # NULL
        <4>1. a[n].left \in u /\ hi[a[n].left] = a[n].key /\ lo[a[n].left] = lo[n]
          BY <3>2, FitsLeft
        <4> QED
          BY <1>3, <3>2, <4>1 DEF Edge
      <3> QED
        BY <3>1, <3>2
    <2> QED
      BY <1>3, <2>1, <2>2 DEF Fits
  <1>7. ASSUME NEW m \in v, NEW n \in v, m # n
        PROVE  Apart(b, lo2, hi2, m, n)
    <2>1. Apart(b, lo2, hi2, x, p)
      BY <1>2, <1>3 DEF Apart, Below
    <2>2. CASE m \in u /\ n \in u
      BY <1>3, <1>7, <2>2, ApartCases DEF Apart, Below
    <2>3. CASE m = x /\ n \in u
      BY <1>4, <2>1, <2>3
    <2>4. CASE n = x /\ m \in u
      <3>1. Apart(b, lo2, hi2, x, m)
        BY <1>4, <2>1, <2>4
      <3> QED
        BY <2>4, <3>1 DEF Apart
    <2> QED
      BY <1>7, <2>2, <2>3, <2>4
  <1> QED
    BY <1>1, <1>5, <1>6, <1>7 DEF Placed, Sound
-----------------------------------------------------------------------------
(***************************************************************************)
(* An activation and its caller.                                           *)
(***************************************************************************)
LinkedIn(mem, k, t, c) ==
  IF k < mem[t].key THEN [mem EXCEPT ![t].left = c] ELSE [mem EXCEPT ![t].right = c]

LEMMA LinkedFields ==
  ASSUME NEW mem \in Memory, NEW t \in Blocks, NEW c \in Pointers, NEW k,
         NEW m, m = LinkedIn(mem, k, t, c)
  PROVE  /\ m \in Memory
         /\ \A n \in Blocks : n # t => m[n] = mem[n]
         /\ m[t].key = mem[t].key /\ m[t].value = mem[t].value /\ m[t].height = mem[t].height
         /\ k < mem[t].key => m[t].left = c /\ m[t].right = mem[t].right
         /\ ~(k < mem[t].key) => m[t].left = mem[t].left /\ m[t].right = c
  <1>1. CASE k < mem[t].key
    <2>1. m = [mem EXCEPT ![t].left = c]
      BY <1>1 DEF LinkedIn
    <2> QED
      BY <1>1, <2>1 DEF Memory, Node
  <1>2. CASE ~(k < mem[t].key)
    <2>1. m = [mem EXCEPT ![t].right = c]
      BY <1>2 DEF LinkedIn
    <2> QED
      BY <1>2, <2>1 DEF Memory, Node
  <1> QED
    BY <1>1, <1>2

\* A node is not below itself, and its parent is outside of its place.
LEMMA BelowOutside ==
  ASSUME NEW a, NEW u, NEW lo, NEW hi, Placed(a, u, lo, hi), NEW t \in u, NEW n \in u,
         Below(a, lo, hi, t, n)
  PROVE  Outside(a, lo, hi, t, n) /\ t # n
  BY FitsLeft DEF Below, Outside

\* Nothing points to the root.
LEMMA RootFree ==
  ASSUME NEW a, NEW u, NEW lo, NEW hi, Placed(a, u, lo, hi), NEW t \in u, NEW n \in u,
         Spans(lo, hi, t)
  PROVE  ~PointsTo(a, n, t) /\ ~Outside(a, lo, hi, t, n)
  <1>1. a[n].key \in Keys /\ a[n].key \in Int /\ lo[t] \in Int /\ hi[t] \in Int
    BY Fields DEF Placed
  <1>2. ~Outside(a, lo, hi, t, n)
    BY <1>1 DEF Outside, Spans
  <1> QED
    BY <1>2, ParentOutside

TallBut(a, u, t) == \A n \in u : PointsTo(a, n, t) \/ Tall(a, n)

\* The activations of s wait for the one at t.
Awaited(a, u, lo, hi, s, k, t) ==
  /\ s \in Seq(Blocks)
  /\ Chain(a, u, lo, hi, s, k)
  /\ \A j \in 1..Len(s) : Below(a, lo, hi, t, s[j])
  /\ s = <<>> => Spans(lo, hi, t)
  /\ s # <<>> => Spans(lo, hi, s[1]) /\ t = Side(a, Last(s), k)

\* c is what the activation at t returns, linked to the last one of s.
Relink(r, s, k, c) ==
  /\ s = <<>> => c = r.mem
  /\ s # <<>> => c = LinkedIn(r.mem, k, Last(s), r.tree)

\* a is the tree with the height of t updated.
LEMMA Activation ==
  ASSUME NEW a, NEW u, NEW lo, NEW hi, Placed(a, u, lo, hi), NEW t \in u, NEW k,
         TallBut(a, u, t), NEW r, Result(a, u, lo, hi, t, r),
         NEW s, Awaited(a, u, lo, hi, s, k, t),
         NEW c, Relink(r, s, k, c)
  PROVE  /\ r.mem \in Memory /\ r.tree \in u
         /\ \A n \in u : /\ r.mem[n].key = a[n].key /\ r.mem[n].value = a[n].value
         /\ \A n \in u : Tall(c, n) \/ (s # <<>> /\ n = Last(s))
         /\ \E lo2, hi2 : /\ Placed(c, u, lo2, hi2)
                          /\ Chain(c, u, lo2, hi2, s, k)
                          /\ s = <<>> => Spans(lo2, hi2, r.tree)
                          /\ s # <<>> => Spans(lo2, hi2, s[1])
  <1> USE DEF TallBut, Awaited, Relink
  <1> DEFINE x == r.tree
             p == Last(s)
  <1>1. /\ a \in Memory /\ u \in SUBSET Blocks /\ NULL \notin u
        /\ r.mem \in Memory /\ x \in u
    BY AvlAssumption DEF Placed, Result
  <1>2. s # <<>> => /\ Len(s) \in Nat /\ Len(s) > 0 /\ 1 \in 1..Len(s) /\ Len(s) \in 1..Len(s)
                    /\ p = s[Len(s)] /\ p \in u /\ s[1] \in u
    BY DEF Last, Chain
  <1>3. ASSUME NEW j \in 1..Len(s)
        PROVE  s[j] \in u /\ Outside(a, lo, hi, t, s[j]) /\ s[j] # t
    BY BelowOutside DEF Chain
  <1>4. ASSUME s # <<>>
        PROVE  /\ PointsTo(a, p, t) /\ r.mem[p] = a[p]
               /\ \A n \in u : PointsTo(a, n, t) => n = p
    <2>1. PointsTo(a, p, t)
      BY <1>4 DEF Side, PointsTo
    <2>2. r.mem[p] = a[p]
      BY <1>2, <1>3, <1>4 DEF Result
    <2>3. ASSUME NEW n \in u, PointsTo(a, n, t)
          PROVE  n = p
      <3>1. p \in u /\ t # NULL
        BY <1>1, <1>2, <1>4
      <3> HIDE DEF p
      <3> QED
        BY <2>1, <2>3, <3>1, OneParent DEF PointsTo
    <2> QED
      BY <2>1, <2>2, <2>3
  <1>5. c \in Memory /\ Relinked(a, r.mem, c, u, t, x)
    <2>1. CASE s = <<>>
      <3>1. c = r.mem
        BY <2>1
      <3>2. \A n \in u : ~PointsTo(a, n, t)
        BY <2>1, RootFree
      <3> QED
        BY <1>1, <3>1, <3>2 DEF Relinked
    <2>2. CASE s # <<>>
      <3>1. c = LinkedIn(r.mem, k, p, x)
        BY <2>2
      <3>2. p \in Blocks /\ x \in Pointers
        BY <1>1, <1>2, <2>2 DEF Pointers
      <3>3. /\ c \in Memory
            /\ \A n \in Blocks : n # p => c[n] = r.mem[n]
            /\ c[p].key = a[p].key /\ c[p].value = a[p].value /\ c[p].height = a[p].height
            /\ k < a[p].key => c[p].left = x /\ c[p].right = a[p].right
            /\ ~(k < a[p].key) => c[p].left = a[p].left /\ c[p].right = x
        <4> HIDE DEF p, x
        <4>1. /\ c \in Memory
              /\ \A n \in Blocks : n # p => c[n] = r.mem[n]
              /\ c[p].key = r.mem[p].key /\ c[p].value = r.mem[p].value
              /\ c[p].height = r.mem[p].height
              /\ k < r.mem[p].key => c[p].left = x /\ c[p].right = r.mem[p].right
              /\ ~(k < r.mem[p].key) => c[p].left = r.mem[p].left /\ c[p].right = x
          BY <1>1, <3>1, <3>2, LinkedFields
        <4>2. r.mem[p] = a[p]
          BY <1>4, <2>2
        <4> QED
          BY <4>1, <4>2
      <3>4. /\ k < a[p].key => a[p].left = t /\ a[p].right # t
            /\ ~(k < a[p].key) => a[p].right = t /\ a[p].left # t
        BY <1>1, <1>2, <2>2, Children DEF Side
      <3>5. Kept(r.mem, c, t, x, p)
        <4> HIDE DEF p, x
        <4> QED
          BY <1>4, <2>2, <3>3, <3>4 DEF Kept
      <3>6. \A n \in u : PointsTo(a, n, t) => n = p
        BY <1>4, <2>2
      <3>7. PointsTo(a, p, t) /\ r.mem[p] = a[p]
        BY <1>4, <2>2
      <3> HIDE DEF p, x
      <3> QED
        BY <1>1, <3>3, <3>5, <3>6, <3>7 DEF Relinked
    <2> QED
      BY <2>1, <2>2
  <1>6. PICK lo2, hi2 : Settled(a, c, u, lo, hi, lo2, hi2, t, x)
    BY <1>5 DEF Result
  <1>7. /\ Placed(c, u, lo2, hi2) /\ lo2[x] = lo[t] /\ hi2[x] = hi[t]
        /\ \A n \in u : c[n].key = a[n].key /\ c[n].value = a[n].value
        /\ \A n \in u : PointsTo(a, n, t) \/ Tall(c, n)
    BY <1>6 DEF Settled
  <1>8. \A n \in u : r.mem[n].key = a[n].key /\ r.mem[n].value = a[n].value
    BY <1>5, <1>7 DEF Relinked
  <1>9. \A n \in u : Tall(c, n) \/ (s # <<>> /\ n = p)
    BY <1>4, <1>7, RootFree
  <1>10. \A j \in 1..Len(s) : /\ s[j] \in u /\ lo2[s[j]] = lo[s[j]] /\ hi2[s[j]] = hi[s[j]]
                              /\ c[s[j]].key = a[s[j]].key /\ Kept(a, c, t, x, s[j])
    BY <1>3, <1>6 DEF Settled
  <1>11. Chain(c, u, lo2, hi2, s, k)
    <2>1. ASSUME NEW j \in 1..Len(s) - 1
          PROVE  s[j + 1] = Side(c, s[j], k)
      <3>1. j \in 1..Len(s) /\ j + 1 \in 1..Len(s)
        OBVIOUS
      <3>2. s[j + 1] = Side(a, s[j], k) /\ s[j + 1] # t
        BY <1>3, <3>1 DEF Chain
      <3>3. Kept(a, c, t, x, s[j]) /\ c[s[j]].key = a[s[j]].key
        BY <1>10, <3>1
      <3> QED
        BY <3>2, <3>3 DEF Side, Kept
    <2>2. ASSUME NEW i \in 1..Len(s), NEW j \in 1..Len(s), i < j
          PROVE  Below(c, lo2, hi2, s[j], s[i])
      <3>1. Below(a, lo, hi, s[j], s[i])
        BY <2>2 DEF Chain
      <3> QED
        BY <1>10, <3>1 DEF Below
    <2> QED
      BY <1>3, <2>1, <2>2 DEF Chain
  <1>12. /\ s = <<>> => Spans(lo2, hi2, x)
         /\ s # <<>> => Spans(lo2, hi2, s[1])
    BY <1>2, <1>7, <1>10 DEF Spans
  <1> QED
    BY <1>1, <1>7, <1>8, <1>9, <1>11, <1>12

\* The path grows by a child of its last node.
LEMMA ChainAppend ==
  ASSUME NEW mem, NEW u, NEW lo, NEW hi, Placed(mem, u, lo, hi), NEW t \in u, NEW k,
         NEW s \in Seq(Blocks), Chain(mem, u, lo, hi, s, k),
         s # <<>> => t = Side(mem, Last(s), k)
  PROVE  /\ \A j \in 1..Len(s) : Below(mem, lo, hi, t, s[j])
         /\ Chain(mem, u, lo, hi, Append(s, t), k)
         /\ s # <<>> => Append(s, t)[1] = s[1]
         /\ s = <<>> => Append(s, t)[1] = t
         /\ Append(s, t) \in Seq(Blocks) /\ Append(s, t) # <<>>
         /\ Len(Append(s, t)) = Len(s) + 1 /\ Last(Append(s, t)) = t
         /\ \A j \in 1..Len(s) : Append(s, t)[j] = s[j]
         /\ Append(s, t)[Len(s) + 1] = t
  <1> DEFINE q == Append(s, t)
  <1>1. t \in Blocks /\ t # NULL /\ u \in SUBSET Blocks
    BY AvlAssumption DEF Placed
  <1>2. /\ q \in Seq(Blocks) /\ q # <<>> /\ Len(q) = Len(s) + 1 /\ Len(s) \in Nat
        /\ \A j \in 1..Len(s) : q[j] = s[j]
        /\ q[Len(s) + 1] = t
    BY <1>1, AppendProperties, LenProperties
  <1>3. Last(q) = t
    BY <1>2 DEF Last
  <1>4. s # <<>> => Len(s) \in 1..Len(s) /\ 1 \in 1..Len(s) /\ Last(s) = s[Len(s)]
    BY <1>2 DEF Last
  <1>5. ASSUME NEW j \in 1..Len(s)
        PROVE  Below(mem, lo, hi, t, s[j])
    <2> DEFINE p == Last(s)
    <2>1. s # <<>> /\ p \in u /\ p = s[Len(s)] /\ s[j] \in u
      BY <1>2, <1>4 DEF Chain
    <2>2. \/ lo[t] = lo[p] /\ hi[t] = mem[p].key
          \/ lo[t] = mem[p].key /\ hi[t] = hi[p]
      <3>1. t = mem[p].left \/ t = mem[p].right
        BY <2>1 DEF Side
      <3> HIDE DEF p
      <3> QED
        BY <1>1, <2>1, <3>1, FitsLeft
    <2>3. /\ lo[p] \in Int /\ hi[p] \in Int /\ mem[p].key \in Int
          /\ lo[p] < mem[p].key /\ mem[p].key < hi[p]
          /\ lo[s[j]] \in Int /\ hi[s[j]] \in Int /\ mem[s[j]].key \in Int
      <3> HIDE DEF p
      <3> QED
        BY <2>1, FitsLeft
    <2>4. CASE j = Len(s)
      BY <2>1, <2>2, <2>3, <2>4 DEF Below
    <2>5. CASE j # Len(s)
      <3>1. Below(mem, lo, hi, p, s[j])
        BY <1>2, <1>4, <2>1, <2>5 DEF Chain
      <3> HIDE DEF p
      <3> QED
        BY <2>2, <2>3, <3>1 DEF Below
    <2> QED
      BY <2>4, <2>5
  <1> HIDE DEF q
  <1>6. Chain(mem, u, lo, hi, q, k)
    <2>1. \A j \in 1..Len(q) : q[j] \in u
      BY <1>2 DEF Chain
    <2>2. ASSUME NEW j \in 1..Len(q) - 1
          PROVE  q[j + 1] = Side(mem, q[j], k)
      <3>1. CASE j = Len(s)
        BY <1>2, <1>4, <3>1
      <3>2. CASE j # Len(s)
        <4>1. j \in 1..Len(s) - 1 /\ j \in 1..Len(s) /\ j + 1 \in 1..Len(s)
          BY <1>2, <3>2
        <4>2. q[j] = s[j] /\ q[j + 1] = s[j + 1]
          BY <1>2, <4>1
        <4> QED
          BY <4>1, <4>2 DEF Chain
      <3> QED
        BY <3>1, <3>2
    <2>3. ASSUME NEW i \in 1..Len(q), NEW j \in 1..Len(q), i < j
          PROVE  Below(mem, lo, hi, q[j], q[i])
      <3>1. CASE j = Len(s) + 1
        BY <1>2, <1>5, <2>3, <3>1
      <3>2. CASE j # Len(s) + 1
        BY <1>2, <2>3, <3>2 DEF Chain
      <3> QED
        BY <3>1, <3>2
    <2> QED
      BY <2>1, <2>2, <2>3 DEF Chain
  <1>7. /\ s # <<>> => q[1] = s[1]
        /\ s = <<>> => q[1] = t
    BY <1>2, <1>4
  <1> QED
    BY <1>2, <1>3, <1>5, <1>6, <1>7 DEF q

\* The last node of the path and the ones before it.
LEMMA PathFront ==
  ASSUME NEW s \in Seq(Blocks), s # <<>>
  PROVE  /\ Len(s) \in Nat /\ Len(s) > 0 /\ Last(s) = s[Len(s)] /\ Last(s) \in Blocks
         /\ Front(s) \in Seq(Blocks) /\ Len(Front(s)) = Len(s) - 1
         /\ \A j \in 1..Len(s) - 1 : Front(s)[j] = s[j]
         /\ Front(s) = <<>> => Len(s) = 1
         /\ Front(s) # <<>> => /\ Len(s) > 1 /\ Last(Front(s)) = s[Len(s) - 1]
                               /\ Front(s)[1] = s[1]
  <1> DEFINE f == Front(s)
  <1>1. Len(s) \in Nat /\ Len(s) > 0 /\ Last(s) = s[Len(s)] /\ Last(s) \in Blocks
    BY DEF Last
  <1>2. /\ f \in Seq(Blocks) /\ Len(f) = Len(s) - 1
        /\ \A j \in 1..Len(s) - 1 : f[j] = s[j]
    <2> DEFINE e == Len(s) - 1
    <2>1. \A j \in 1..e : s[j] \in Blocks
      BY <1>1
    <2>2. e \in Nat /\ e \in Int /\ 1 \in Int
      BY <1>1
    <2>3. f = SubSeq(s, 1, e)
      BY DEF Front
    <2> HIDE DEF e, f
    <2>4. /\ SubSeq(s, 1, e) \in Seq(Blocks)
          /\ Len(SubSeq(s, 1, e)) = IF 1 <= e THEN e - 1 + 1 ELSE 0
          /\ \A i \in 1..e - 1 + 1 : SubSeq(s, 1, e)[i] = s[1 + i - 1]
      BY ONLY <2>1, <2>2, SubSeqProperties
    <2>5. f \in Seq(Blocks) /\ Len(f) = e /\ \A j \in 1..e : f[j] = s[j]
      BY <2>2, <2>3, <2>4
    <2> QED
      BY <2>5 DEF e
  <1> HIDE DEF f
  <1>3. f = <<>> => Len(s) = 1
    BY <1>1, <1>2
  <1>4. f # <<>> => Len(s) > 1
    BY <1>1, <1>2
  <1>5. f # <<>> => Last(f) = s[Len(s) - 1] /\ f[1] = s[1]
    BY <1>1, <1>2, <1>4 DEF Last
  <1> QED
    BY <1>1, <1>2, <1>3, <1>4, <1>5 DEF f
-----------------------------------------------------------------------------
(***************************************************************************)
(* The steps.                                                              *)
(***************************************************************************)
\* On the way down the order differs from the nodes at most in one key.
LEMMA Down ==
  ASSUME TypeInv, NEW mem, NEW lo, NEW hi, Shape(mem, lo, hi), ~Up
  PROVE  /\ mem \in Memory /\ Now = nodes /\ Top = tree
         /\ \A n \in Blocks : /\ mem[n].left = nodes[n].left /\ mem[n].right = nodes[n].right
                              /\ mem[n].height = nodes[n].height
                              /\ mem[n].value = nodes[n].value
         /\ doing # "remove" => mem = nodes
         /\ at \in used => mem[at].key = nodes[at].key
         /\ mem = nodes \/ \E d \in used, old \in Keys : Pending(mem, lo, d, old)
  <1>1. Now = nodes /\ Top = tree /\ mem \in Memory
    BY DEF Now, Top, Shape, Placed
  <1>2. mem = nodes \/ \E d \in used, old \in Keys : Pending(mem, lo, d, old)
    BY <1>1 DEF Shape, Ordered
  <1>3. CASE mem = nodes
    BY <1>1, <1>3
  <1>4. ASSUME NEW d \in used, NEW old \in Keys, Pending(mem, lo, d, old)
        PROVE  /\ \A n \in Blocks : /\ mem[n].left = nodes[n].left
                                    /\ mem[n].right = nodes[n].right
                                    /\ mem[n].height = nodes[n].height
                                    /\ mem[n].value = nodes[n].value
               /\ doing = "remove"
               /\ at \in used => mem[at].key = nodes[at].key
    <2>1. mem = [nodes EXCEPT ![d].key = old] /\ at # d /\ doing = "remove"
      BY <1>4 DEF Pending
    <2>2. used \in SUBSET Blocks /\ nodes \in Memory
      BY DEF TypeInv
    <2> QED
      BY <2>1, <2>2 DEF Memory, Node
  <1> QED
    BY <1>1, <1>2, <1>3, <1>4

LEMMA InitIInv == Init => IInv
  <1> SUFFICES ASSUME Init
               PROVE  IInv
    OBVIOUS
  <1> DEFINE lo == [b \in Blocks |-> 0]
             k0 == CHOOSE k \in Keys : TRUE
  <1>1. k0 \in Keys
    BY AvlAssumption
  <1> HIDE DEF k0
  <1>2. avl_new(k0, NULL) \in Node
    BY <1>1 DEF avl_new, Node, Pointers
  <1>3. TypeInv
    BY <1>1, <1>2 DEF Init, TypeInv, Memory, Pointers, k0
  <1>4. ValueInv /\ HeightInv /\ StepInv
    BY DEF Init, ValueInv, HeightInv, StepInv
  <1>5. Placed(nodes, used, lo, lo)
    BY <1>3 DEF Init, Placed, Sound, TypeInv
  <1>6. Shape(nodes, lo, lo)
    BY <1>5 DEF Init, Shape, Ordered, Now, Up, Rooted, Top
  <1> QED
    BY <1>3, <1>4, <1>6 DEF IInv

LEMMA CallIInv ==
  ASSUME IInv, NEW f \in {"get", "insert", "remove"}, NEW k \in Keys, NEW v,
         v \in Values \cup {NULL}, f = "insert" => v \in Values, Call(f, k, v)
  PROVE  IInv'
  <1>1. PICK mem, lo, hi : Shape(mem, lo, hi)
    BY DEF IInv
  <1>2. /\ doing = "none" /\ doing' = f /\ key' = k /\ value' = v
        /\ path' = <<>> /\ at' = tree /\ steps' = 0
        /\ tree' = tree /\ nodes' = nodes /\ used' = used
    BY DEF Call
  <1>3. TypeInv /\ ValueInv /\ HeightInv
    BY DEF IInv
  <1>4. ~Up /\ ~Up' /\ Now = nodes /\ Now' = nodes /\ Top = tree /\ Top' = tree
    BY <1>2 DEF Up, Now, Top
  <1>5. TypeInv'
    BY <1>2, <1>3 DEF TypeInv
  <1>6. ValueInv'
    BY <1>2, <1>3 DEF ValueInv
  <1>7. HeightInv'
    BY <1>2, <1>3, <1>4 DEF HeightInv, Tall, avl_height
  <1>8. StepInv'
    <2>1. avl_height(nodes, tree) \in Nat
      BY <1>3, Heights DEF TypeInv
    <2> QED
      BY <1>2, <2>1 DEF StepInv, avl_height
  <1>9. mem = nodes
    BY <1>1, <1>2, <1>3, <1>4, Down
  <1>10. Placed(nodes, used, lo, hi) /\ Rooted(tree, used, lo, hi)
    BY <1>1, <1>4, <1>9 DEF Shape
  <1>11. Shape(nodes, lo, hi)'
    <2>1. PathInv(nodes, lo, hi)'
      BY <1>2 DEF PathInv, Chain
    <2>2. AtInv(nodes, lo, hi)'
      BY <1>2, <1>10 DEF AtInv, Rooted, Spans
    <2>3. Placed(nodes', used', lo, hi) /\ Rooted(Top', used', lo, hi)
      BY <1>2, <1>4, <1>10
    <2> QED
      BY <1>2, <1>4, <2>1, <2>2, <2>3 DEF Shape, Ordered
  <1> QED
    BY <1>5, <1>6, <1>7, <1>8, <1>11 DEF IInv

\* A key leads from a node to the child where it belongs.
LEMMA SideStep ==
  ASSUME NEW mem, NEW u, NEW lo, NEW hi, Placed(mem, u, lo, hi), NEW t \in u, NEW k \in Int,
         lo[t] < k, k < hi[t], mem[t].key # k,
         NEW c, c = Side(mem, t, k)
  PROVE  /\ c \in Pointers
         /\ c = NULL => \A n \in u : mem[n].key # k
         /\ c # NULL => c \in u /\ lo[c] < k /\ k < hi[c]
         /\ c # NULL /\ k < mem[t].key => lo[c] = lo[t]
  <1>1. mem[t].key \in Int
    BY FitsLeft
  <1>2. CASE k < mem[t].key
    <2>1. c = mem[t].left
      BY <1>2 DEF Side
    <2> QED
      BY <1>1, <1>2, <2>1, FitsLeft
  <1>3. CASE k > mem[t].key
    <2>1. c = mem[t].right
      BY <1>1, <1>3 DEF Side
    <2> QED
      BY <1>1, <1>3, <2>1, FitsLeft
  <1> QED
    BY <1>1, <1>2, <1>3

\* A child is lower than its parent.
LEMMA Lower ==
  ASSUME NEW mem \in Memory, NEW t \in Blocks, Tall(mem, t),
         NEW c, c = mem[t].left \/ c = mem[t].right
  PROVE  avl_height(mem, c) \in Nat /\ mem[t].height \in Nat
         /\ avl_height(mem, c) < mem[t].height
  BY Fields, Heights DEF Tall

\* The inner call of avl_remove goes left until it finds the successor.
LEMMA PendingSide ==
  ASSUME TypeInv, NEW mem, NEW lo, NEW hi, Placed(mem, used, lo, hi),
         NEW d \in used, NEW old \in Keys, Pending(mem, lo, d, old),
         at \in used, lo[at] < key, key < hi[at]
  PROVE  /\ mem[at].key # key =>
              LET c == Side(mem, at, key) IN c # NULL /\ c # d /\ lo[c] = old
         /\ mem[at].key = key => mem[at].left = NULL
  <1>1. /\ old < key /\ nodes[d].key = key /\ lo[at] = old /\ at # d /\ used \in SUBSET Blocks
        /\ \A j \in used : mem[j].key <= old \/ key <= mem[j].key
        /\ key \in Int /\ old \in Int /\ nodes \in Memory
    BY AvlAssumption DEF Pending, TypeInv
  <1>2. mem[d].key = old /\ \A n \in used \ {d} : mem[n].key = nodes[n].key
    BY <1>1 DEF Pending, Memory, Node
  <1>3. PICK n \in used : n # d /\ mem[n].key = key
    BY <1>2 DEF Pending
  <1>4. lo[d] \in Int /\ lo[d] < old
    BY <1>2, FitsLeft
  <1>5. mem[at].key \in Int /\ old < mem[at].key
    BY <1>1, FitsLeft
  <1>6. ASSUME mem[at].key # key
        PROVE  LET c == Side(mem, at, key) IN c # NULL /\ c # d /\ lo[c] = old
    <2> DEFINE c == Side(mem, at, key)
    <2>1. key < mem[at].key
      BY <1>1, <1>5, <1>6
    <2>2. c # NULL
      BY <1>1, <1>3, <1>6, SideStep
    <2>3. lo[c] = lo[at]
      BY <1>1, <1>6, <2>1, <2>2, SideStep
    <2> QED
      BY <1>1, <1>4, <2>2, <2>3
  <1>7. ASSUME mem[at].key = key, mem[at].left # NULL
        PROVE  FALSE
    <2>1. /\ mem[at].left \in used /\ lo[mem[at].left] = old /\ hi[mem[at].left] = key
      BY <1>1, <1>7, FitsLeft
    <2>2. /\ mem[mem[at].left].key \in Int /\ old < mem[mem[at].left].key
          /\ mem[mem[at].left].key < key
      BY <2>1, FitsLeft
    <2> QED
      BY <1>1, <2>1, <2>2
  <1> QED
    BY <1>6, <1>7

LEMMA DescendIInv ==
  ASSUME IInv, Descend
  PROVE  IInv'
  <1>1. PICK mem, lo, hi : Shape(mem, lo, hi)
    BY DEF IInv
  <1> DEFINE c == Side(mem, at, key)
             q == Append(path, at)
  <1>2. TypeInv /\ ValueInv /\ HeightInv /\ StepInv
    BY DEF IInv
  <1>3. /\ doing \in {"insert", "remove"} /\ at # NULL /\ nodes[at].key # key
        /\ path' = q /\ steps' = steps + 1 /\ at' = Toward(at)
        /\ tree' = tree /\ nodes' = nodes /\ used' = used /\ doing' = doing /\ key' = key
        /\ value' = value
    BY DEF Descend, Here, Wait
  <1>4. ~Up /\ ~Up'
    BY <1>3 DEF Up
  <1>5. Now' = nodes /\ Top' = tree
    BY <1>3, <1>4 DEF Now, Top
  <1>6. /\ mem \in Memory /\ Now = nodes /\ Top = tree
        /\ \A n \in Blocks : /\ mem[n].left = nodes[n].left /\ mem[n].right = nodes[n].right
                             /\ mem[n].height = nodes[n].height
                             /\ mem[n].value = nodes[n].value
        /\ at \in used => mem[at].key = nodes[at].key
        /\ mem = nodes \/ \E d \in used, old \in Keys : Pending(mem, lo, d, old)
    BY <1>1, <1>2, <1>4, Down
  <1>7. /\ Placed(mem, used, lo, hi) /\ Rooted(tree, used, lo, hi)
        /\ PathInv(mem, lo, hi) /\ AtInv(mem, lo, hi)
    BY <1>1, <1>3, <1>6 DEF Shape
  <1>8. /\ at \in used /\ lo[at] < key /\ key < hi[at]
        /\ at = IF path = <<>> THEN tree ELSE Side(mem, Last(path), key)
        /\ \A j \in 1..Len(path) : lo[path[j]] < key /\ key < hi[path[j]]
    BY <1>3, <1>4, <1>7 DEF AtInv
  <1>9. /\ nodes \in Memory /\ used \in SUBSET Blocks /\ at \in Blocks /\ key \in Keys
        /\ key \in Int /\ path \in Seq(Blocks) /\ tree \in Pointers
    BY <1>2, <1>8, AvlAssumption DEF TypeInv
  <1>10. mem[at].key # key /\ at' = c
    BY <1>3, <1>6, <1>8, <1>9 DEF Toward, Side
  <1>11. /\ c \in Pointers
         /\ c = NULL => \A n \in used : mem[n].key # key
         /\ c # NULL => c \in used /\ lo[c] < key /\ key < hi[c]
    <2> HIDE DEF c
    <2>1. c = Side(mem, at, key)
      BY DEF c
    <2> QED
      BY <1>7, <1>8, <1>9, <1>10, <2>1, SideStep
  <1>12. /\ Chain(mem, used, lo, hi, q, key)
         /\ path # <<>> => q[1] = path[1]
         /\ path = <<>> => q[1] = at
         /\ q \in Seq(Blocks) /\ q # <<>> /\ Len(q) = Len(path) + 1 /\ Last(q) = at
         /\ \A j \in 1..Len(path) : q[j] = path[j]
         /\ q[Len(path) + 1] = at
    <2>1. Chain(mem, used, lo, hi, path, key)
      BY <1>7 DEF PathInv
    <2>2. path # <<>> => at = Side(mem, Last(path), key)
      BY <1>8
    <2>3. Placed(mem, used, lo, hi) /\ at \in used
      BY <1>7, <1>8
    <2> QED
      BY ONLY <1>9, <2>1, <2>2, <2>3, ChainAppend
  <1> HIDE DEF c, q
  <1>13. TypeInv'
    BY <1>2, <1>3, <1>10, <1>11, <1>12 DEF TypeInv
  <1>14. ValueInv'
    BY <1>2, <1>3 DEF ValueInv
  <1>15. \A n \in used : Tall(nodes, n)
    BY <1>2, <1>4, <1>6 DEF HeightInv
  <1>16. HeightInv'
    BY <1>3, <1>5, <1>15 DEF HeightInv, Tall, avl_height
  <1>17. StepInv'
    <2>1. /\ avl_height(nodes, c) \in Nat /\ nodes[at].height \in Nat
          /\ avl_height(nodes, c) < nodes[at].height
      <3>1. c = nodes[at].left \/ c = nodes[at].right
        BY <1>6, <1>9 DEF c, Side
      <3> QED
        BY <1>8, <1>9, <1>15, <3>1, Lower
    <2>2. avl_height(nodes, at) = nodes[at].height /\ avl_height(nodes, tree) \in Nat
      BY <1>3, <1>9, Heights DEF avl_height
    <2>3. /\ Len(path) \in Nat /\ steps \in Nat /\ Len(path) <= steps
          /\ steps + nodes[at].height <= avl_height(nodes, tree)
          /\ \A j \in 1..Len(path) : j - 1 + nodes[path[j]].height <= avl_height(nodes, tree)
      BY <1>2, <1>3, <2>2 DEF StepInv, TypeInv
    <2>4. \A j \in 1..Len(q) : j - 1 + nodes[q[j]].height <= avl_height(nodes, tree)
      <3> SUFFICES ASSUME NEW j \in 1..Len(q)
                   PROVE  j - 1 + nodes[q[j]].height <= avl_height(nodes, tree)
        OBVIOUS
      <3>1. CASE j = Len(path) + 1
        BY <1>12, <2>1, <2>2, <2>3, <3>1
      <3>2. CASE j \in 1..Len(path)
        BY <1>12, <2>3, <3>2
      <3> QED
        BY <1>12, <2>3, <3>1, <3>2
    <2>5. Len(q) <= steps + 1 /\ steps + 1 + avl_height(nodes, c) <= avl_height(nodes, tree)
      BY <1>12, <2>1, <2>2, <2>3
    <2> QED
      BY <1>3, <1>10, <2>4, <2>5 DEF StepInv, avl_height
  <1>18. Shape(mem, lo, hi)'
    <2>1. Ordered(mem, lo)'
      <3>1. CASE mem = nodes
        BY <1>5, <3>1 DEF Ordered
      <3>2. ASSUME NEW d \in used, NEW old \in Keys, Pending(mem, lo, d, old)
            PROVE  Pending(mem, lo, d, old)'
        <4>1. c # NULL /\ c # d /\ lo[c] = old
          BY <1>2, <1>7, <1>8, <1>10, <3>2, PendingSide DEF c
        <4>2. \E j \in 1..Len(q) : q[j] = d
          <5>1. PICK j \in 1..Len(path) : path[j] = d
            BY <3>2 DEF Pending
          <5>2. j \in 1..Len(q)
            BY <1>12, <1>9
          <5> QED
            BY <1>12, <5>1, <5>2
        <4> QED
          BY <1>3, <1>10, <3>2, <4>1, <4>2 DEF Pending
      <3> QED
        BY <1>3, <1>6, <3>1, <3>2 DEF Ordered
    <2>2. PathInv(mem, lo, hi)'
      BY <1>3, <1>7, <1>8, <1>12 DEF PathInv
    <2>3. AtInv(mem, lo, hi)'
      <3>1. \A j \in 1..Len(q) : lo[q[j]] < key /\ key < hi[q[j]]
        <4> SUFFICES ASSUME NEW j \in 1..Len(q)
                     PROVE  lo[q[j]] < key /\ key < hi[q[j]]
          OBVIOUS
        <4>1. CASE j = Len(path) + 1
          BY <1>8, <1>12, <4>1
        <4>2. CASE j \in 1..Len(path)
          BY <1>8, <1>12, <4>2
        <4> QED
          BY <1>9, <1>12, <4>1, <4>2
      <3>2. at' = Side(mem, Last(q), key)
        BY <1>10, <1>12 DEF c
      <3>3. doing' # "get" /\ doing' # "minimum"
        BY <1>3
      <3> QED
        BY <1>3, <1>10, <1>11, <1>12, <3>1, <3>2, <3>3 DEF AtInv
    <2>4. Placed(mem, used', lo, hi) /\ Rooted(Top', used', lo, hi)
      BY <1>3, <1>5, <1>7
    <2> QED
      BY <2>1, <2>2, <2>3, <2>4 DEF Shape
  <1> QED
    BY <1>13, <1>14, <1>16, <1>17, <1>18 DEF IInv

LEMMA SearchIInv ==
  ASSUME IInv, Search
  PROVE  IInv'
  <1>1. PICK mem, lo, hi : Shape(mem, lo, hi)
    BY DEF IInv
  <1>2. TypeInv /\ ValueInv /\ HeightInv /\ StepInv
    BY DEF IInv
  <1>3. /\ doing = "get" /\ tree' = tree /\ nodes' = nodes /\ used' = used /\ key' = key
        /\ value' = value /\ path' = path
    BY DEF Search
  <1>4. ~Up /\ mem = nodes /\ Now = nodes /\ Top = tree
    BY <1>1, <1>2, <1>3, Down DEF Up
  <1>5. /\ Placed(nodes, used, lo, hi) /\ Rooted(tree, used, lo, hi)
        /\ PathInv(nodes, lo, hi) /\ AtInv(nodes, lo, hi) /\ path = <<>>
    BY <1>1, <1>3, <1>4 DEF Shape, AtInv
  <1>6. \A n \in used : Tall(nodes, n)
    BY <1>2, <1>4 DEF HeightInv
  <1>7. CASE /\ at # NULL /\ ~Here /\ at' = Toward(at) /\ steps' = steps + 1
             /\ doing' = doing
    <2> DEFINE c == Side(nodes, at, key)
    <2>1. /\ at \in used /\ lo[at] < key /\ key < hi[at] /\ nodes[at].key # key
      BY <1>3, <1>5, <1>7 DEF AtInv, Here
    <2>2. /\ nodes \in Memory /\ used \in SUBSET Blocks /\ at \in Blocks /\ key \in Keys
          /\ key \in Int /\ tree \in Pointers /\ steps \in Nat
      BY <1>2, <2>1, AvlAssumption DEF TypeInv
    <2>3. at' = c
      BY <1>7 DEF Toward, Side
    <2>4. /\ c \in Pointers
          /\ c = NULL => \A n \in used : nodes[n].key # key
          /\ c # NULL => c \in used /\ lo[c] < key /\ key < hi[c]
      <3> HIDE DEF c
      <3>1. c = Side(nodes, at, key)
        BY DEF c
      <3> QED
        BY <1>5, <2>1, <2>2, <3>1, SideStep
    <2>5. c = nodes[at].left \/ c = nodes[at].right
      BY DEF Side
    <2> HIDE DEF c
    <2>6. ~Up' /\ Now' = nodes /\ Top' = tree
      BY <1>3, <1>7 DEF Up, Now, Top
    <2>7. TypeInv'
      BY <1>2, <1>3, <1>7, <2>3, <2>4 DEF TypeInv
    <2>8. ValueInv'
      BY <1>2, <1>3, <1>7 DEF ValueInv
    <2>9. HeightInv'
      BY <1>3, <1>6, <2>6 DEF HeightInv, Tall, avl_height
    <2>10. StepInv'
      <3>1. /\ avl_height(nodes, c) \in Nat /\ nodes[at].height \in Nat
            /\ avl_height(nodes, c) < nodes[at].height
        BY <1>6, <2>1, <2>2, <2>5, Lower
      <3>2. avl_height(nodes, at) = nodes[at].height /\ avl_height(nodes, tree) \in Nat
        BY <1>7, <2>2, Heights DEF avl_height
      <3>3. steps + nodes[at].height <= avl_height(nodes, tree)
        BY <1>2, <1>3, <3>2 DEF StepInv
      <3>4. Len(path) <= steps + 1 /\ steps + 1 + avl_height(nodes, c) <= avl_height(nodes, tree)
        BY <1>5, <2>2, <3>1, <3>2, <3>3
      <3> QED
        BY <1>3, <1>5, <1>7, <2>3, <3>4 DEF StepInv, avl_height
    <2>11. Shape(nodes, lo, hi)'
      <3>1. PathInv(nodes, lo, hi)'
        BY <1>3, <1>5 DEF PathInv
      <3>2. AtInv(nodes, lo, hi)'
        BY <1>3, <1>5, <1>7, <2>3, <2>4 DEF AtInv
      <3>3. Placed(nodes', used', lo, hi) /\ Rooted(Top', used', lo, hi) /\ Ordered(nodes, lo)'
        BY <1>3, <1>5, <2>6 DEF Ordered
      <3> QED
        BY <3>1, <3>2, <3>3 DEF Shape
    <2> QED
      BY <2>7, <2>8, <2>9, <2>10, <2>11 DEF IInv
  <1>8. CASE doing' = "none" /\ at' = at /\ steps' = steps
    <2>1. ~Up' /\ Now' = nodes /\ Top' = tree
      BY <1>3, <1>8 DEF Up, Now, Top
    <2>2. TypeInv' /\ ValueInv' /\ StepInv'
      BY <1>2, <1>3, <1>8 DEF TypeInv, ValueInv, StepInv
    <2>3. HeightInv'
      BY <1>3, <1>6, <2>1 DEF HeightInv, Tall, avl_height
    <2>4. Shape(nodes, lo, hi)'
      BY <1>3, <1>5, <1>8, <2>1 DEF Shape, Ordered
    <2> QED
      BY <2>2, <2>3, <2>4 DEF IInv
  <1> QED
    BY <1>7, <1>8 DEF Search

LEMMA InnerIInv ==
  ASSUME IInv, Inner
  PROVE  IInv'
  <1>1. PICK mem, lo, hi : Shape(mem, lo, hi)
    BY DEF IInv
  <1> DEFINE c == nodes[at].right
             q == Append(path, at)
  <1>2. TypeInv /\ ValueInv /\ HeightInv /\ StepInv
    BY DEF IInv
  <1>3. /\ doing = "remove" /\ at # NULL /\ nodes[at].key = key
        /\ nodes[at].left # NULL /\ c # NULL
        /\ path' = q /\ steps' = steps + 1 /\ at' = c
        /\ tree' = tree /\ nodes' = nodes /\ used' = used /\ doing' = "minimum" /\ key' = key
        /\ value' = value
    BY DEF Inner, Here, Wait
  <1>4. ~Up /\ ~Up' /\ Now' = nodes /\ Top' = tree
    BY <1>3 DEF Up, Now, Top
  <1>5. /\ mem \in Memory /\ Now = nodes /\ Top = tree
        /\ \A n \in Blocks : mem[n].left = nodes[n].left
        /\ at \in used => mem[at].key = nodes[at].key
        /\ mem = nodes \/ \E d \in used, old \in Keys : Pending(mem, lo, d, old)
    BY <1>1, <1>2, <1>4, Down
  <1>6. /\ Placed(mem, used, lo, hi) /\ Rooted(tree, used, lo, hi)
        /\ PathInv(mem, lo, hi) /\ AtInv(mem, lo, hi)
    BY <1>1, <1>3, <1>5 DEF Shape
  <1>7. /\ at \in used /\ lo[at] < key /\ key < hi[at]
        /\ at = IF path = <<>> THEN tree ELSE Side(mem, Last(path), key)
        /\ \A j \in 1..Len(path) : lo[path[j]] < key /\ key < hi[path[j]]
    BY <1>3, <1>4, <1>6 DEF AtInv
  <1>8. /\ nodes \in Memory /\ used \in SUBSET Blocks /\ at \in Blocks /\ key \in Keys
        /\ key \in Int /\ path \in Seq(Blocks) /\ tree \in Pointers
    BY <1>2, <1>7, AvlAssumption DEF TypeInv
  <1>9. mem = nodes
    BY <1>2, <1>3, <1>5, <1>6, <1>7, <1>8, PendingSide
  <1>10. /\ Chain(nodes, used, lo, hi, q, key)
         /\ path # <<>> => q[1] = path[1]
         /\ path = <<>> => q[1] = at
         /\ q \in Seq(Blocks) /\ q # <<>> /\ Len(q) = Len(path) + 1 /\ Last(q) = at
         /\ \A j \in 1..Len(path) : q[j] = path[j]
         /\ q[Len(path) + 1] = at
    <2>1. Chain(nodes, used, lo, hi, path, key)
      BY <1>6, <1>9 DEF PathInv
    <2>2. path # <<>> => at = Side(nodes, Last(path), key)
      BY <1>7, <1>9
    <2>3. Placed(nodes, used, lo, hi) /\ at \in used
      BY <1>6, <1>7, <1>9
    <2> QED
      BY ONLY <1>8, <2>1, <2>2, <2>3, ChainAppend
  <1>11. c \in used /\ c \in Pointers /\ lo[c] = key /\ hi[c] = hi[at] /\ hi[at] \in Int
    BY <1>3, <1>6, <1>7, <1>9, FitsLeft
  <1> HIDE DEF c, q
  <1>12. \A n \in used : Tall(nodes, n)
    BY <1>2, <1>4, <1>5 DEF HeightInv
  <1>13. TypeInv' /\ ValueInv'
    BY <1>2, <1>3, <1>10, <1>11 DEF TypeInv, ValueInv
  <1>14. HeightInv'
    BY <1>3, <1>4, <1>12 DEF HeightInv, Tall, avl_height
  <1>15. StepInv'
    <2>1. /\ avl_height(nodes, c) \in Nat /\ nodes[at].height \in Nat
          /\ avl_height(nodes, c) < nodes[at].height
      <3>1. c = nodes[at].right
        BY DEF c
      <3> QED
        BY <1>7, <1>8, <1>12, <3>1, Lower
    <2>2. avl_height(nodes, at) = nodes[at].height /\ avl_height(nodes, tree) \in Nat
      BY <1>3, <1>8, Heights DEF avl_height
    <2>3. /\ Len(path) \in Nat /\ steps \in Nat /\ Len(path) <= steps
          /\ steps + nodes[at].height <= avl_height(nodes, tree)
          /\ \A j \in 1..Len(path) : j - 1 + nodes[path[j]].height <= avl_height(nodes, tree)
      BY <1>2, <1>3, <2>2 DEF StepInv, TypeInv
    <2>4. \A j \in 1..Len(q) : j - 1 + nodes[q[j]].height <= avl_height(nodes, tree)
      <3> SUFFICES ASSUME NEW j \in 1..Len(q)
                   PROVE  j - 1 + nodes[q[j]].height <= avl_height(nodes, tree)
        OBVIOUS
      <3>1. CASE j = Len(path) + 1
        BY <1>10, <2>1, <2>2, <2>3, <3>1
      <3>2. CASE j \in 1..Len(path)
        BY <1>10, <2>3, <3>2
      <3> QED
        BY <1>10, <2>3, <3>1, <3>2
    <2>5. Len(q) <= steps + 1 /\ steps + 1 + avl_height(nodes, c) <= avl_height(nodes, tree)
      BY <1>10, <2>1, <2>2, <2>3
    <2> QED
      BY <1>3, <2>4, <2>5 DEF StepInv, avl_height
  <1>16. Shape(nodes, lo, hi)'
    <2>1. PathInv(nodes, lo, hi)'
      BY <1>3, <1>6, <1>7, <1>10 DEF PathInv
    <2>2. AtInv(nodes, lo, hi)'
      <3>1. \A j \in 1..Len(q) : lo[q[j]] < key /\ key < hi[q[j]]
        <4> SUFFICES ASSUME NEW j \in 1..Len(q)
                     PROVE  lo[q[j]] < key /\ key < hi[q[j]]
          OBVIOUS
        <4>1. CASE j = Len(path) + 1
          BY <1>7, <1>10, <4>1
        <4>2. CASE j \in 1..Len(path)
          BY <1>7, <1>10, <4>2
        <4> QED
          BY <1>8, <1>10, <4>1, <4>2
      <3>2. /\ nodes[Last(q)].key = key /\ nodes[Last(q)].right # NULL
            /\ hi[c] <= hi[Last(q)]
        BY <1>3, <1>10, <1>11 DEF c
      <3> QED
        BY <1>3, <1>10, <1>11, <3>1, <3>2 DEF AtInv
    <2>3. Placed(nodes', used', lo, hi) /\ Rooted(Top', used', lo, hi) /\ Ordered(nodes, lo)'
      BY <1>3, <1>4, <1>6, <1>9 DEF Ordered
    <2> QED
      BY <2>1, <2>2, <2>3 DEF Shape
  <1> QED
    BY <1>13, <1>14, <1>15, <1>16 DEF IInv

LEMMA FaultIInv ==
  ASSUME IInv, Fault
  PROVE  IInv'
  <1>1. PICK mem, lo, hi : Shape(mem, lo, hi)
    BY DEF IInv
  <1>2. TypeInv /\ ValueInv /\ HeightInv /\ StepInv
    BY DEF IInv
  <1>3. /\ doing = "inserted" /\ doing' = "fault" /\ path # <<>>
        /\ tree' = tree /\ nodes' = nodes /\ used' = used /\ key' = key /\ value' = value
        /\ path' = path /\ at' = at /\ steps' = steps
    BY DEF Fault
  <1>4. Up /\ Up' /\ Now' = Now /\ Top' = Top
    BY <1>3 DEF Up, Now, Top, Linked
  <1>5. TypeInv' /\ ValueInv' /\ StepInv'
    BY <1>2, <1>3 DEF TypeInv, ValueInv, StepInv
  <1>6. HeightInv'
    BY <1>2, <1>3, <1>4 DEF HeightInv, Tall, avl_height
  <1>7. mem = Now /\ Placed(mem, used, lo, hi) /\ Rooted(Top, used, lo, hi) /\ PathInv(mem, lo, hi)
    BY <1>1, <1>3 DEF Shape, Ordered, Pending
  <1>8. Shape(mem, lo, hi)'
    <2>1. PathInv(mem, lo, hi)' /\ AtInv(mem, lo, hi)'
      BY <1>3, <1>4, <1>7 DEF PathInv, AtInv
    <2> QED
      BY <1>3, <1>4, <1>7, <2>1 DEF Shape, Ordered
  <1> QED
    BY <1>5, <1>6, <1>8 DEF IInv

LEMMA ReturnIInv ==
  ASSUME IInv, Return
  PROVE  IInv'
  <1>1. PICK mem, lo, hi : Shape(mem, lo, hi)
    BY DEF IInv
  <1>2. TypeInv /\ ValueInv /\ HeightInv /\ StepInv
    BY DEF IInv
  <1>3. /\ doing \in {"inserted", "removed"} /\ doing' = "none" /\ path = <<>>
        /\ tree' = at /\ nodes' = nodes /\ used' = used /\ key' = key /\ value' = value
        /\ path' = path /\ at' = at /\ steps' = steps
    BY DEF Return
  <1>4. Up /\ ~Up' /\ Now = nodes /\ Now' = nodes /\ Top = at /\ Top' = at
    BY <1>3 DEF Up, Now, Top
  <1>5. TypeInv' /\ ValueInv' /\ StepInv'
    BY <1>2, <1>3 DEF TypeInv, ValueInv, StepInv
  <1>6. HeightInv'
    BY <1>2, <1>3, <1>4 DEF HeightInv, Tall, avl_height
  <1>7. mem = nodes /\ Placed(mem, used, lo, hi) /\ Rooted(at, used, lo, hi)
    BY <1>1, <1>3, <1>4 DEF Shape, Ordered, Pending
  <1>8. Shape(mem, lo, hi)'
    BY <1>3, <1>4, <1>7 DEF Shape, Ordered
  <1> QED
    BY <1>5, <1>6, <1>8 DEF IInv

LEMMA StutterIInv ==
  ASSUME IInv, UNCHANGED vars
  PROVE  IInv'
  <1>1. PICK mem, lo, hi : Shape(mem, lo, hi)
    BY DEF IInv
  <1>2. /\ tree' = tree /\ nodes' = nodes /\ used' = used /\ key' = key /\ value' = value
        /\ path' = path /\ at' = at /\ steps' = steps /\ doing' = doing
    BY DEF vars
  <1>3. Up' = Up /\ Now' = Now /\ Top' = Top
    BY <1>2 DEF Up, Now, Top, Linked
  <1>4. TypeInv' /\ ValueInv' /\ StepInv'
    BY <1>2 DEF TypeInv, ValueInv, StepInv, IInv, avl_height
  <1>5. HeightInv'
    BY <1>2, <1>3 DEF HeightInv, Tall, avl_height, IInv
  <1>6. Shape(mem, lo, hi)'
    <2>1. PathInv(mem, lo, hi) => PathInv(mem, lo, hi)'
      BY <1>2 DEF PathInv
    <2>2. AtInv(mem, lo, hi) => AtInv(mem, lo, hi)'
      BY <1>2, <1>3 DEF AtInv
    <2>3. Ordered(mem, lo) => Ordered(mem, lo)'
      BY <1>2, <1>3 DEF Ordered, Pending
    <2> QED
      BY <1>1, <1>2, <1>3, <2>1, <2>2, <2>3 DEF Shape
  <1> QED
    BY <1>4, <1>5, <1>6 DEF IInv

\* A round of the loop that looks for the successor.
LEMMA LoopIInv ==
  ASSUME IInv, doing = "minimum", nodes[at].left # NULL, at' = nodes[at].left,
         steps' = steps + 1, UNCHANGED <<nodes, key, doing, tree, used, got, value, path>>
  PROVE  IInv'
  <1>1. PICK mem, lo, hi : Shape(mem, lo, hi)
    BY DEF IInv
  <1> DEFINE c == nodes[at].left
             t == Last(path)
  <1>2. TypeInv /\ ValueInv /\ HeightInv /\ StepInv
    BY DEF IInv
  <1>3. /\ tree' = tree /\ nodes' = nodes /\ used' = used /\ doing' = doing /\ key' = key
        /\ value' = value /\ path' = path
    OBVIOUS
  <1>4. ~Up /\ ~Up' /\ Now' = nodes /\ Top' = tree
    BY <1>3 DEF Up, Now, Top
  <1>5. mem = nodes /\ Now = nodes /\ Top = tree
    BY <1>1, <1>2, <1>4, Down
  <1>6. /\ Placed(nodes, used, lo, hi) /\ Rooted(tree, used, lo, hi)
        /\ PathInv(nodes, lo, hi) /\ AtInv(nodes, lo, hi)
    BY <1>1, <1>5 DEF Shape
  <1>7. /\ path # <<>> /\ nodes[t].key = key /\ nodes[t].right # NULL
        /\ at \in used /\ lo[at] = key /\ hi[at] <= hi[t]
    BY <1>6 DEF AtInv
  <1>8. /\ nodes \in Memory /\ at \in Blocks /\ tree \in Pointers /\ steps \in Nat
        /\ path \in Seq(Blocks) /\ used \in SUBSET Blocks
    BY <1>2, <1>7 DEF TypeInv
  <1>9. /\ c \in used /\ c \in Pointers /\ lo[c] = key /\ hi[c] <= hi[t]
    <2>1. t \in used
      BY <1>6, <1>7, <1>8, PathFront DEF PathInv, Chain
    <2>2. hi[t] \in Int
      <3> HIDE DEF t
      <3> QED
        BY <1>6, <2>1, FitsLeft
    <2>3. /\ c \in used /\ c \in Pointers /\ lo[c] = lo[at] /\ hi[c] = nodes[at].key
          /\ nodes[at].key < hi[at] /\ nodes[at].key \in Int /\ hi[at] \in Int
      BY <1>6, <1>7, FitsLeft
    <2> QED
      BY <1>7, <2>2, <2>3
  <1>10. \A n \in used : Tall(nodes, n)
    BY <1>2, <1>4, <1>5 DEF HeightInv
  <1>11. /\ avl_height(nodes, c) \in Nat /\ nodes[at].height \in Nat
         /\ avl_height(nodes, c) < nodes[at].height
    BY <1>7, <1>8, <1>10, Lower
  <1> HIDE DEF c, t
  <1>12. TypeInv' /\ ValueInv'
    BY <1>2, <1>3, <1>9 DEF TypeInv, ValueInv, c
  <1>13. HeightInv'
    BY <1>3, <1>4, <1>10 DEF HeightInv, Tall, avl_height
  <1>14. StepInv'
    <2>1. avl_height(nodes, at) = nodes[at].height /\ avl_height(nodes, tree) \in Nat
      BY <1>8, Heights, AvlAssumption DEF avl_height
    <2>2. /\ Len(path) \in Nat /\ Len(path) <= steps
          /\ steps + nodes[at].height <= avl_height(nodes, tree)
          /\ \A j \in 1..Len(path) : j - 1 + nodes[path[j]].height <= avl_height(nodes, tree)
      BY <1>2, <1>8, <2>1 DEF StepInv
    <2>3. Len(path) <= steps + 1 /\ steps + 1 + avl_height(nodes, c) <= avl_height(nodes, tree)
      BY <1>8, <1>11, <2>1, <2>2
    <2> QED
      BY <1>3, <2>2, <2>3 DEF StepInv, avl_height, c
  <1>15. Shape(nodes, lo, hi)'
    <2>1. PathInv(nodes, lo, hi)'
      BY <1>3, <1>6 DEF PathInv
    <2>2. AtInv(nodes, lo, hi)'
      BY <1>3, <1>4, <1>6, <1>7, <1>9 DEF AtInv, c, t
    <2>3. Placed(nodes', used', lo, hi) /\ Rooted(Top', used', lo, hi) /\ Ordered(nodes, lo)'
      BY <1>3, <1>4, <1>6 DEF Ordered
    <2> QED
      BY <2>1, <2>2, <2>3 DEF Shape
  <1> QED
    BY <1>12, <1>13, <1>14, <1>15 DEF IInv

\* Its end: t has the successor's key and value, and the order is still that of
\* the tree with the key that t had.
Copied(t, min) ==
  /\ nodes' = [nodes EXCEPT ![t].key = min.key, ![t].value = min.value]
  /\ key' = min.key
  /\ at' = nodes[t].right
  /\ steps' = Len(path)
  /\ doing' = "remove"
  /\ UNCHANGED <<tree, used, got, value, path>>

LEMMA CopyFacts ==
  ASSUME IInv, doing = "minimum", nodes[at].left = NULL,
         NEW t, t = Last(path), Copied(t, nodes[at]),
         NEW lo, NEW hi, Shape(nodes, lo, hi)
  PROVE  /\ t \in used /\ at \in used /\ at # t /\ nodes[t].key = key
         /\ key < nodes[at].key /\ nodes[at].key < hi[t] /\ nodes[at].key \in Keys
         /\ \A j \in used : nodes[j].key <= key \/ nodes[at].key <= nodes[j].key
         /\ nodes' \in Memory
         /\ \A n \in Blocks \ {t} : nodes'[n] = nodes[n]
         /\ nodes'[t].key = nodes[at].key /\ nodes'[t].value = nodes[at].value
         /\ nodes'[t].left = nodes[t].left /\ nodes'[t].right = nodes[t].right
         /\ nodes'[t].height = nodes[t].height
  <1>1. TypeInv /\ PathInv(nodes, lo, hi) /\ AtInv(nodes, lo, hi) /\ Placed(nodes, used, lo, hi)
    BY DEF IInv, Shape
  <1>2. /\ path # <<>> /\ nodes[t].key = key /\ at \in used /\ lo[at] = key /\ hi[at] <= hi[t]
    BY <1>1 DEF AtInv
  <1>3. nodes \in Memory /\ path \in Seq(Blocks) /\ used \in SUBSET Blocks
    BY <1>1 DEF TypeInv
  <1>4. t \in used
    BY <1>1, <1>2, <1>3, PathFront DEF PathInv, Chain
  <1>5. /\ lo[at] \in Int /\ hi[at] \in Int /\ nodes[at].key \in Int /\ hi[t] \in Int
        /\ lo[at] < nodes[at].key /\ nodes[at].key < hi[at]
        /\ \A j \in used : nodes[j].key <= lo[at] \/ nodes[at].key <= nodes[j].key
    BY <1>1, <1>2, <1>4, FitsLeft
  <1>6. nodes[at].key \in Keys /\ nodes[at].value \in Values \cup {NULL}
    BY <1>2, <1>3, Fields
  <1>7. nodes' = [nodes EXCEPT ![t].key = nodes[at].key, ![t].value = nodes[at].value]
    BY DEF Copied
  <1>8. /\ nodes' \in Memory
        /\ \A n \in Blocks \ {t} : nodes'[n] = nodes[n]
        /\ nodes'[t].key = nodes[at].key /\ nodes'[t].value = nodes[at].value
        /\ nodes'[t].left = nodes[t].left /\ nodes'[t].right = nodes[t].right
        /\ nodes'[t].height = nodes[t].height
    BY <1>3, <1>4, <1>6, <1>7 DEF Memory, Node
  <1> QED
    BY <1>2, <1>4, <1>5, <1>6, <1>8

LEMMA CopyIInv ==
  ASSUME IInv, doing = "minimum", nodes[at].left = NULL,
         NEW t, t = Last(path), Copied(t, nodes[at])
  PROVE  IInv'
  <1>1. PICK mem, lo, hi : Shape(mem, lo, hi)
    BY DEF IInv
  <1>0. PICK m, old : m = [nodes' EXCEPT ![t].key = old] /\ old = key
    OBVIOUS
  <1> DEFINE k == nodes[at].key
             c == nodes[t].right
  <1>2. TypeInv /\ ValueInv /\ HeightInv /\ StepInv
    BY DEF IInv
  <1>3. /\ key' = k /\ at' = c /\ steps' = Len(path) /\ doing' = "remove"
        /\ tree' = tree /\ used' = used /\ value' = value /\ path' = path
    BY DEF Copied
  <1>4. ~Up /\ ~Up' /\ Now' = nodes' /\ Top' = tree
    BY <1>3 DEF Up, Now, Top
  <1>5. mem = nodes /\ Now = nodes /\ Top = tree
    BY <1>1, <1>2, <1>4, Down
  <1>6. /\ Placed(nodes, used, lo, hi) /\ Rooted(tree, used, lo, hi)
        /\ PathInv(nodes, lo, hi) /\ AtInv(nodes, lo, hi)
    BY <1>1, <1>5 DEF Shape
  <1>7. /\ t \in used /\ at \in used /\ at # t /\ nodes[t].key = key
        /\ key < k /\ k < hi[t] /\ k \in Keys
        /\ \A j \in used : nodes[j].key <= key \/ k <= nodes[j].key
        /\ nodes' \in Memory
        /\ \A n \in Blocks \ {t} : nodes'[n] = nodes[n]
        /\ nodes'[t].key = k /\ nodes'[t].value = nodes[at].value
        /\ nodes'[t].left = nodes[t].left /\ nodes'[t].right = nodes[t].right
        /\ nodes'[t].height = nodes[t].height
    BY <1>1, <1>5, CopyFacts
  <1>8. /\ nodes \in Memory /\ used \in SUBSET Blocks /\ key \in Keys /\ key \in Int
        /\ path \in Seq(Blocks) /\ tree \in Pointers /\ steps \in Nat /\ k \in Int
        /\ t \in Blocks
    BY <1>2, <1>7, AvlAssumption DEF TypeInv
  <1>9. path # <<>> /\ c # NULL /\ \A j \in 1..Len(path) : lo[path[j]] < key /\ key < hi[path[j]]
    BY <1>4, <1>6 DEF AtInv
  <1>10. /\ Len(path) \in Nat /\ Len(path) > 0 /\ t = path[Len(path)] /\ Len(path) \in 1..Len(path)
         /\ 1 \in 1..Len(path)
    BY <1>8, <1>9, PathFront
  <1>11. /\ m \in Memory
         /\ \A n \in used : /\ m[n].key = nodes[n].key /\ m[n].left = nodes[n].left
                            /\ m[n].right = nodes[n].right
    <2>1. /\ m \in Memory
          /\ \A n \in Blocks : n # t => m[n] = nodes'[n]
          /\ m[t].key = old /\ m[t].left = nodes'[t].left /\ m[t].right = nodes'[t].right
      <3>1. nodes' \in Memory /\ t \in Blocks /\ old \in Keys
        BY <1>0, <1>7, <1>8
      <3>2. m = [nodes' EXCEPT ![t].key = old]
        BY <1>0
      <3> QED
        BY ONLY <3>1, <3>2 DEF Memory, Node
    <2>2. \A n \in used : n \in Blocks
      BY <1>8
    <2>3. \A n \in Blocks \ {t} : nodes'[n] = nodes[n]
      BY <1>7
    <2>4. nodes'[t].left = nodes[t].left /\ nodes'[t].right = nodes[t].right
      BY <1>7
    <2>5. old = nodes[t].key
      BY <1>0, <1>7
    <2> QED
      BY ONLY <2>1, <2>2, <2>3, <2>4, <2>5
  <1>12. Placed(m, used, lo, hi)
    BY <1>6, <1>11, SamePlaced
  <1>13. /\ c \in used /\ c \in Pointers /\ lo[c] = key /\ hi[c] = hi[t] /\ hi[t] \in Int
         /\ lo[t] \in Int /\ lo[t] < key
    BY <1>6, <1>7, <1>9, FitsLeft
  <1> HIDE DEF k, c
  <1>14. \A j \in 1..Len(path) : /\ path[j] \in used /\ lo[path[j]] < k /\ k < hi[path[j]]
                                 /\ j # Len(path) =>
                                      Side(m, path[j], k) = Side(nodes, path[j], key)
    <2> SUFFICES ASSUME NEW j \in 1..Len(path)
                 PROVE  /\ path[j] \in used /\ lo[path[j]] < k /\ k < hi[path[j]]
                        /\ j # Len(path) => Side(m, path[j], k) = Side(nodes, path[j], key)
      OBVIOUS
    <2>1. path[j] \in used
      BY <1>6 DEF PathInv, Chain
    <2>2. CASE j = Len(path)
      BY <1>7, <1>8, <1>10, <1>13, <2>2
    <2>3. CASE j # Len(path)
      <3>1. Below(nodes, lo, hi, t, path[j])
        BY <1>6, <1>10, <2>3 DEF PathInv, Chain
      <3>2. /\ lo[path[j]] \in Int /\ hi[path[j]] \in Int /\ nodes[path[j]].key \in Int
            /\ lo[path[j]] < nodes[path[j]].key /\ nodes[path[j]].key < hi[path[j]]
        BY <1>6, <2>1, FitsLeft
      <3>3. lo[path[j]] < k /\ k < hi[path[j]] /\ (k < nodes[path[j]].key <=> key < nodes[path[j]].key)
        BY <1>7, <1>8, <1>13, <3>1, <3>2 DEF Below
      <3> QED
        BY <1>11, <2>1, <3>3 DEF Side
    <2> QED
      BY <2>1, <2>2, <2>3
  <1>15. \A n \in used : Tall(nodes, n)
    BY <1>2, <1>4, <1>5 DEF HeightInv
  <1>16. /\ \A n \in Blocks : /\ nodes'[n].height = nodes[n].height
                              /\ nodes'[n].left = nodes[n].left
                              /\ nodes'[n].right = nodes[n].right
         /\ \A n \in Pointers : avl_height(nodes', n) = avl_height(nodes, n)
    BY <1>7 DEF avl_height, Pointers
  <1>17. TypeInv'
    BY <1>2, <1>3, <1>7, <1>8, <1>13 DEF TypeInv
  <1>18. ValueInv'
    BY <1>2, <1>3, <1>7, <1>8 DEF ValueInv
  <1>19. HeightInv'
    <2>1. \A n \in used : Tall(nodes', n)
      BY <1>8, <1>15, <1>16, Fields DEF Tall
    <2> QED
      BY <1>3, <1>4, <2>1 DEF HeightInv, Tall, avl_height
  <1>20. StepInv'
    <2>1. /\ avl_height(nodes, c) \in Nat /\ nodes[t].height \in Nat
          /\ avl_height(nodes, c) < nodes[t].height
      BY <1>7, <1>8, <1>15, Lower DEF c
    <2>2. /\ Len(path) - 1 + nodes[t].height <= avl_height(nodes, tree)
          /\ \A j \in 1..Len(path) : j - 1 + nodes[path[j]].height <= avl_height(nodes, tree)
      BY <1>2, <1>10 DEF StepInv
    <2>3. avl_height(nodes, tree) \in Nat
      BY <1>8, Heights
    <2>4. Len(path) + avl_height(nodes, c) <= avl_height(nodes, tree)
      BY <1>10, <2>1, <2>2, <2>3
    <2>5. \A j \in 1..Len(path) : nodes'[path[j]].height = nodes[path[j]].height
      BY <1>8, <1>14, <1>16
    <2>6. avl_height(nodes', c) = avl_height(nodes, c) /\ avl_height(nodes', tree) = avl_height(nodes, tree)
      BY <1>8, <1>13, <1>16
    <2>7. Len(path) <= Len(path)
      BY <1>10
    <2>8. StepInv' = (/\ Len(path) <= Len(path)
                      /\ Len(path) + avl_height(nodes', c) <= avl_height(nodes', tree)
                      /\ \A j \in 1..Len(path) :
                           j - 1 + nodes'[path[j]].height <= avl_height(nodes', tree))
      BY <1>3 DEF StepInv, avl_height
    <2> QED
      BY <2>2, <2>4, <2>5, <2>6, <2>7, <2>8
  <1>21. Shape(m, lo, hi)'
    <2>1. Pending(m, lo, t, old)'
      <3>1. nodes'[at].key = k /\ nodes'[at].value = nodes'[t].value
        BY <1>7, <1>8 DEF k
      <3>2. \A j \in used : m[j].key <= key \/ k <= m[j].key
        BY <1>7, <1>11
      <3>3. c # t
        BY <1>8, <1>13
      <3>4. \E j \in 1..Len(path) : path[j] = t
        BY <1>10
      <3> QED
        BY <1>3, <1>7, <1>9, <1>13, <1>0, <3>1, <3>2, <3>3, <3>4 DEF Pending
    <2>2. Ordered(m, lo)'
      BY <1>0, <1>3, <1>7, <1>8, <2>1 DEF Ordered
    <2>3. Chain(m, used, lo, hi, path, k)
      <3>1. \A j \in 1..Len(path) - 1 : path[j + 1] = Side(m, path[j], k)
        BY <1>6, <1>10, <1>14 DEF PathInv, Chain
      <3>2. \A i, j \in 1..Len(path) : i < j => Below(m, lo, hi, path[j], path[i])
        BY <1>6, <1>11, <1>14 DEF PathInv, Chain, Below
      <3> QED
        BY <1>14, <3>1, <3>2 DEF Chain
    <2>4. PathInv(m, lo, hi)'
      BY <1>3, <1>6, <2>3 DEF PathInv
    <2>5. c = Side(m, t, k)
      BY <1>7, <1>8, <1>11 DEF Side, c
    <2>6. AtInv(m, lo, hi)'
      BY <1>3, <1>7, <1>8, <1>9, <1>13, <1>14, <2>5 DEF AtInv
    <2>7. Placed(m, used', lo, hi) /\ Rooted(Top', used', lo, hi)
      BY <1>3, <1>4, <1>6, <1>12
    <2> QED
      BY <2>2, <2>4, <2>6, <2>7 DEF Shape
  <1> QED
    BY <1>17, <1>18, <1>19, <1>20, <1>21 DEF IInv

LEMMA MinimumIInv ==
  ASSUME IInv, Minimum
  PROVE  IInv'
  <1>1. CASE /\ nodes[at].left # NULL /\ at' = nodes[at].left /\ steps' = steps + 1
             /\ UNCHANGED <<nodes, key, doing>>
    BY <1>1, LoopIInv DEF Minimum
  <1>2. CASE nodes[at].left = NULL /\ Copied(Last(path), nodes[at])
    BY <1>2, CopyIInv DEF Minimum
  <1> QED
    BY <1>1, <1>2 DEF Minimum, Copied

\* What an activation that has returned leaves.
LEMMA UpIInv ==
  ASSUME TypeInv', ValueInv', doing' \in {"inserted", "removed"}, NEW c, c = Now',
         \A n \in used' : Tall(c, n) \/ (path' # <<>> /\ n = Last(path')),
         NEW lo, NEW hi, Placed(c, used', lo, hi), Chain(c, used', lo, hi, path', key'),
         path' # <<>> => path'[1] = tree', Rooted(Top', used', lo, hi)
  PROVE  IInv'
  <1>1. Up' /\ doing' \notin {"none", "get", "insert", "remove", "minimum"}
    BY DEF Up
  <1>2. StepInv'
    BY <1>1 DEF StepInv
  <1>3. HeightInv'
    BY <1>1 DEF HeightInv, Tall, avl_height
  <1>4. PathInv(c, lo, hi)'
    BY DEF PathInv
  <1>5. AtInv(c, lo, hi)'
    BY <1>1 DEF AtInv
  <1>6. Shape(c, lo, hi)'
    BY <1>4, <1>5 DEF Shape, Ordered
  <1> QED
    BY <1>2, <1>3, <1>6 DEF IInv

\* A chain is made of keys, places and links.
LEMMA SameChain ==
  ASSUME NEW a, NEW u, NEW lo, NEW hi, NEW s, NEW k, Chain(a, u, lo, hi, s, k),
         NEW b, NEW v, NEW lo2, NEW hi2, Len(s) \in Nat,
         \A j \in 1..Len(s) : /\ s[j] \in v /\ b[s[j]].key = a[s[j]].key
                              /\ lo2[s[j]] = lo[s[j]] /\ hi2[s[j]] = hi[s[j]],
         \A j \in 1..Len(s) - 1 : Side(b, s[j], k) = Side(a, s[j], k)
  PROVE  Chain(b, v, lo2, hi2, s, k)
  <1>1. \A i, j \in 1..Len(s) : i < j => Below(b, lo2, hi2, s[j], s[i])
    BY DEF Chain, Below
  <1> QED
    BY <1>1 DEF Chain

\* An activation updates the height of its node t, rebalances and returns to
\* those of s.
LEMMA UpStep ==
  ASSUME TypeInv, NEW a, NEW u, NEW lo, NEW hi, Placed(a, u, lo, hi), NEW t \in u,
         \A n \in u : n = t \/ Tall(a, n),
         NEW m, m = avl_update_height(a, t),
         NEW r, \/ r = RebalanceRemoved(m, t)
                \/ ~Missing(m, t, key) /\ r = RebalanceInserted(m, t, key),
         NEW s \in Seq(Blocks), Chain(a, u, lo, hi, s, key),
         \A j \in 1..Len(s) : Below(a, lo, hi, t, s[j]),
         s = <<>> => Spans(lo, hi, t),
         s # <<>> => Spans(lo, hi, s[1]) /\ t = Side(a, Last(s), key) /\ s[1] = tree,
         \A n \in u : a[n].value \in Values,
         doing' \in {"inserted", "removed"}, nodes' = r.mem, at' = r.tree, path' = s,
         used' = u, key' = key, value' = value, tree' = tree, steps' = steps
  PROVE  IInv' /\ \A n \in u : nodes'[n].key = a[n].key /\ nodes'[n].value = a[n].value
  <1>1. /\ Placed(m, u, lo, hi)
        /\ \A n \in u : PointsTo(m, n, t) \/ Tall(m, n)
        /\ \A n \in u : /\ m[n].key = a[n].key /\ m[n].value = a[n].value
                        /\ m[n].left = a[n].left /\ m[n].right = a[n].right
    BY UpdatedPlaced
  <1>2. Result(m, u, lo, hi, t, r)
    BY <1>1, RebalanceResult
  <1>3. \A j \in 1..Len(s) : s[j] \in u /\ m[s[j]].key = a[s[j]].key
                             /\ Side(m, s[j], key) = Side(a, s[j], key)
    BY <1>1 DEF Chain, Side
  <1>4. Chain(m, u, lo, hi, s, key)
    BY <1>3, SameChain
  <1>5. \A j \in 1..Len(s) : Below(m, lo, hi, t, s[j])
    BY <1>3 DEF Below
  <1>6. s # <<>> => t = Side(m, Last(s), key)
    BY <1>3 DEF Last
  <1>7. PICK c : c = IF s # <<>> THEN LinkedIn(r.mem, key, Last(s), r.tree) ELSE r.mem
    OBVIOUS
  <1>8. /\ r.mem \in Memory /\ r.tree \in u
        /\ \A n \in u : /\ r.mem[n].key = m[n].key /\ r.mem[n].value = m[n].value
        /\ \A n \in u : Tall(c, n) \/ (s # <<>> /\ n = Last(s))
        /\ \E lo2, hi2 : /\ Placed(c, u, lo2, hi2)
                         /\ Chain(c, u, lo2, hi2, s, key)
                         /\ s = <<>> => Spans(lo2, hi2, r.tree)
                         /\ s # <<>> => Spans(lo2, hi2, s[1])
    <2>1. Awaited(m, u, lo, hi, s, key, t)
      BY <1>4, <1>5, <1>6 DEF Awaited
    <2>2. Placed(m, u, lo, hi) /\ TallBut(m, u, t)
      BY <1>1 DEF TallBut
    <2>3. Relink(r, s, key, c)
      BY <1>7 DEF Relink
    <2> QED
      BY ONLY <1>2, <2>1, <2>2, <2>3, t \in u, Activation
  <1>9. PICK lo2, hi2 : /\ Placed(c, u, lo2, hi2)
                        /\ Chain(c, u, lo2, hi2, s, key)
                        /\ s = <<>> => Spans(lo2, hi2, r.tree)
                        /\ s # <<>> => Spans(lo2, hi2, s[1])
    BY <1>8
  <1>10. u \in SUBSET Blocks
    BY DEF Placed
  <1>11. TypeInv'
    BY <1>8, <1>10 DEF TypeInv, Pointers
  <1>12. ValueInv'
    BY <1>1, <1>8 DEF ValueInv
  <1>13. c = Now'
    BY <1>7 DEF Now, Up, Linked, LinkedIn
  <1>14. s # <<>> => s[1] \in u
    BY DEF Chain
  <1>15. Rooted(Top', used', lo2, hi2)
    <2>1. CASE s = <<>>
      <3>1. Top' = r.tree /\ r.tree # NULL
        BY <1>8, <1>10, <2>1, AvlAssumption DEF Top, Up
      <3> QED
        BY <1>8, <1>9, <2>1, <3>1 DEF Rooted
    <2>2. CASE s # <<>>
      <3>1. Top' = s[1] /\ s[1] # NULL
        BY <1>10, <1>14, <2>2, AvlAssumption DEF Top, Up
      <3> QED
        BY <1>9, <1>14, <2>2, <3>1 DEF Rooted
    <2> QED
      BY <2>1, <2>2
  <1>16. IInv'
    <2>1. Placed(c, used', lo2, hi2) /\ Chain(c, used', lo2, hi2, path', key')
      BY <1>9
    <2>2. \A n \in used' : Tall(c, n) \/ (path' # <<>> /\ n = Last(path'))
      BY <1>8
    <2>3. path' # <<>> => path'[1] = tree'
      OBVIOUS
    <2> QED
      BY <1>11, <1>12, <1>13, <1>15, <2>1, <2>2, <2>3, UpIInv
  <1> QED
    BY <1>1, <1>8, <1>16

\* An activation continues after the one it waited for.
LEMMA BackIInv ==
  ASSUME IInv, Back
  PROVE  IInv' /\ used' = used
         /\ \A n \in used : nodes'[n].key = nodes[n].key /\ nodes'[n].value = nodes[n].value
  <1>1. PICK mem, lo, hi : Shape(mem, lo, hi)
    BY DEF IInv
  <1>2. TypeInv /\ ValueInv /\ HeightInv
    BY DEF IInv
  <1>3. PICK t, a, m, r : /\ t = Last(path) /\ a = Linked(t) /\ m = avl_update_height(a, t)
                          /\ r = IF doing = "inserted" THEN RebalanceInserted(m, t, key)
                                                       ELSE RebalanceRemoved(m, t)
    OBVIOUS
  <1>4. /\ doing \in {"inserted", "removed"} /\ path # <<>>
        /\ doing = "removed" \/ ~Missing(m, t, key)
        /\ nodes' = r.mem /\ at' = r.tree /\ path' = Front(path)
        /\ tree' = tree /\ used' = used /\ doing' = doing /\ key' = key /\ value' = value
        /\ steps' = steps
    BY <1>3 DEF Back
  <1>5. Up /\ Now = a /\ Top = tree
    BY <1>3, <1>4 DEF Up, Now, Top
  <1>6. mem = a
    BY <1>1, <1>4, <1>5 DEF Shape, Ordered, Pending
  <1>7. /\ Placed(a, used, lo, hi) /\ Rooted(tree, used, lo, hi) /\ PathInv(a, lo, hi)
    BY <1>1, <1>4, <1>5, <1>6 DEF Shape
  <1>8. /\ nodes \in Memory /\ path \in Seq(Blocks) /\ at \in Pointers /\ key \in Keys
        /\ used \in SUBSET Blocks
    BY <1>2 DEF TypeInv
  <1>9. PICK s : s = Front(path)
    OBVIOUS
  <1>10. /\ Len(path) \in Nat /\ Len(path) > 0 /\ t = path[Len(path)] /\ t \in Blocks
         /\ s \in Seq(Blocks) /\ Len(s) = Len(path) - 1
         /\ \A j \in 1..Len(path) - 1 : s[j] = path[j]
         /\ s = <<>> => Len(path) = 1
         /\ s # <<>> => /\ Len(path) > 1 /\ Last(s) = path[Len(path) - 1]
                        /\ s[1] = path[1]
    BY <1>3, <1>4, <1>8, <1>9, PathFront
  <1>11. /\ \A j \in 1..Len(path) : path[j] \in used
         /\ \A j \in 1..Len(path) - 1 : path[j + 1] = Side(a, path[j], key)
         /\ \A i, j \in 1..Len(path) : i < j => Below(a, lo, hi, path[j], path[i])
         /\ path[1] = tree
    BY <1>4, <1>7 DEF PathInv, Chain
  <1>12. t \in used /\ tree # NULL /\ Spans(lo, hi, tree)
    <2>1. t \in used /\ path[1] \in used
      BY <1>10, <1>11
    <2>2. tree # NULL
      BY <1>8, <1>11, <2>1, AvlAssumption
    <2> QED
      BY <1>7, <2>1, <2>2 DEF Rooted
  <1>13. Chain(a, used, lo, hi, s, key) /\ \A j \in 1..Len(s) : Below(a, lo, hi, t, s[j])
    BY <1>10, <1>11 DEF Chain
  <1>14. /\ s = <<>> => Spans(lo, hi, t)
         /\ s # <<>> => Spans(lo, hi, s[1]) /\ t = Side(a, Last(s), key) /\ s[1] = tree
    <2>1. CASE s = <<>>
      BY <1>10, <1>11, <1>12, <2>1
    <2>2. CASE s # <<>>
      <3>1. path[Len(path) - 1 + 1] = Side(a, path[Len(path) - 1], key)
        BY <1>10, <1>11, <2>2
      <3> QED
        BY <1>10, <1>11, <1>12, <2>2, <3>1
    <2> QED
      BY <2>1, <2>2
  <1>15. \A n \in used : n = t \/ Tall(a, n)
    BY <1>2, <1>3, <1>5 DEF HeightInv
  <1>16. \A n \in Blocks : a[n].key = nodes[n].key /\ a[n].value = nodes[n].value
    <2>1. a = LinkedIn(nodes, key, t, at)
      BY <1>3 DEF Linked, LinkedIn
    <2>2. /\ \A n \in Blocks : n # t => a[n] = nodes[n]
          /\ a[t].key = nodes[t].key /\ a[t].value = nodes[t].value
      BY <1>8, <1>10, <2>1, LinkedFields
    <2> QED
      BY <2>2
  <1>17. \A n \in used : a[n].value \in Values
    BY <1>2, <1>8, <1>16 DEF ValueInv
  <1>18. \/ r = RebalanceRemoved(m, t)
         \/ ~Missing(m, t, key) /\ r = RebalanceInserted(m, t, key)
    BY <1>3, <1>4
  <1>19. /\ doing' \in {"inserted", "removed"} /\ nodes' = r.mem /\ at' = r.tree /\ path' = s
         /\ used' = used /\ key' = key /\ value' = value /\ tree' = tree /\ steps' = steps
    BY <1>4, <1>9
  <1>20. IInv' /\ \A n \in used : nodes'[n].key = a[n].key /\ nodes'[n].value = a[n].value
    <2>1. s \in Seq(Blocks) /\ m = avl_update_height(a, t) /\ TypeInv /\ Placed(a, used, lo, hi)
      BY <1>2, <1>3, <1>7, <1>10
    <2> QED
      BY ONLY <1>12, <1>13, <1>14, <1>15, <1>17, <1>18, <1>19, <2>1, UpStep
  <1> QED
    BY <1>4, <1>8, <1>16, <1>20

\* The replaced node gets the key of its successor once that one is gone.
Successor(a, u, d, k) ==
  /\ d \in u /\ a[d].key \in Keys /\ a[d].key < k
  /\ \A n \in u : a[n].key <= a[d].key \/ k < a[n].key

Replaced(a, b, u, d, k) ==
  /\ b \in Memory
  /\ b[d].key = k
  /\ \A n \in u : n # d => b[n].key = a[n].key
  /\ \A n \in u : b[n].left = a[n].left /\ b[n].right = a[n].right

LEMMA ReplacedPlaced ==
  ASSUME NEW a, NEW u, NEW lo, NEW hi, Placed(a, u, lo, hi),
         NEW k \in Keys, NEW d \in u, Successor(a, u, d, k), k < hi[d],
         NEW b, Replaced(a, b, u, d, k)
  PROVE  \E lo2, hi2 :
           /\ Placed(b, u, lo2, hi2)
           /\ \A n \in u : Spans(lo, hi, n) => Spans(lo2, hi2, n)
           /\ \A m, n \in u : Below(a, lo, hi, m, n) => Below(b, lo2, hi2, m, n)
  <1> DEFINE lo2 == [n \in Blocks |-> IF a[d].key <= lo[n] /\ lo[n] < k THEN k ELSE lo[n]]
             hi2 == [n \in Blocks |-> IF a[d].key <= hi[n] /\ hi[n] < k THEN k ELSE hi[n]]
  <1>1. /\ lo \in [Blocks -> Int] /\ hi \in [Blocks -> Int] /\ u \in SUBSET Blocks
        /\ k \in Int /\ a[d].key \in Int /\ a[d].key \in Keys /\ a[d].key < k /\ b \in Memory
        /\ \A n \in u : a[n].key <= a[d].key \/ k < a[n].key
    BY AvlAssumption, FitsLeft DEF Placed, Successor, Replaced
  <1>2. /\ \A n \in u : IF a[d].key <= lo[n] /\ lo[n] < k THEN lo2[n] = k ELSE lo2[n] = lo[n]
        /\ \A n \in u : IF a[d].key <= hi[n] /\ hi[n] < k THEN hi2[n] = k ELSE hi2[n] = hi[n]
        /\ lo2 \in [Blocks -> Int] /\ hi2 \in [Blocks -> Int]
    BY <1>1
  <1> HIDE DEF lo2, hi2
  <1>3. Placed(b, u, lo2, hi2)
    <2>1. /\ b[d].key = k /\ \A n \in u \ {d} : b[n].key = a[n].key
          /\ \A n \in u : b[n].left = a[n].left /\ b[n].right = a[n].right
      BY DEF Replaced
    <2>2. /\ d \in u /\ k \in Int /\ a[d].key < k /\ k < hi[d] /\ b \in Memory
          /\ \A j \in u : a[j].key <= a[d].key \/ k < a[j].key
          /\ Placed(a, u, lo, hi)
      BY <1>1
    <2> QED
      BY ONLY <1>2, <2>1, <2>2, Renamed
  <1>4. \A n \in u : Spans(lo, hi, n) => Spans(lo2, hi2, n)
    <2> SUFFICES ASSUME NEW n \in u, Spans(lo, hi, n)
                 PROVE  Spans(lo2, hi2, n)
      OBVIOUS
    <2>1. lo[n] < a[d].key /\ k < hi[n] /\ lo[n] \in Int /\ hi[n] \in Int
      BY <1>1 DEF Spans
    <2>2. lo2[n] = lo[n] /\ hi2[n] = hi[n]
      BY <1>1, <1>2, <2>1
    <2> QED
      BY <2>2 DEF Spans
  <1>5. ASSUME NEW m \in u, NEW n \in u, Below(a, lo, hi, m, n)
        PROVE  Below(b, lo2, hi2, m, n)
    <2>1. /\ lo[m] \in Int /\ hi[m] \in Int /\ lo[n] \in Int /\ hi[n] \in Int
          /\ a[n].key \in Int
      BY FitsLeft
    <2>2. CASE n = d
      <3>1. b[n].key = k
        BY <2>2 DEF Replaced
      <3> QED
        BY <1>1, <1>2, <1>5, <2>1, <2>2, <3>1 DEF Below
    <2>3. CASE n # d
      <3>1. b[n].key = a[n].key /\ a[n].key # a[d].key
        BY <2>3, Distinct DEF Replaced
      <3>2. a[n].key < a[d].key \/ k < a[n].key
        BY <1>1, <2>1, <3>1
      <3> QED
        BY <1>1, <1>2, <1>5, <2>1, <3>1, <3>2 DEF Below
    <2> QED
      BY <2>2, <2>3
  <1> QED
    BY <1>3, <1>4, <1>5

\* avl_remove has found key at at; it may be d's new one.
Twin(mem, hi, d) ==
  /\ d \in used /\ d # at /\ d # nodes[at].right /\ nodes[at].left = NULL
  /\ \E j \in 1..Len(path) : path[j] = d
  /\ Successor(mem, used \ {at}, d, key) /\ key < hi[d]
  /\ nodes[d].key = key /\ nodes[d].value = nodes[at].value
  /\ \A n \in Blocks : n # d => mem[n] = nodes[n]

LEMMA FoundFacts ==
  ASSUME IInv, doing = "remove", Here, NEW mem, NEW lo, NEW hi, Shape(mem, lo, hi)
  PROVE  /\ TypeInv /\ mem \in Memory /\ Placed(mem, used, lo, hi)
         /\ at \in used /\ at \in Blocks /\ mem[at].key = key /\ key \in Keys /\ key \in Int
         /\ Awaited(mem, used, lo, hi, path, key, at)
         /\ path # <<>> => path[1] = tree
         /\ \A n \in Blocks : /\ mem[n].left = nodes[n].left /\ mem[n].right = nodes[n].right
                              /\ mem[n].height = nodes[n].height
                              /\ mem[n].value = nodes[n].value
         /\ \A n \in used : Tall(nodes, n) /\ nodes[n].value \in Values
         /\ mem = nodes \/ \E d \in used : Twin(mem, hi, d)
  <1>1. TypeInv /\ ValueInv /\ HeightInv
    BY DEF IInv
  <1>2. ~Up /\ at # NULL /\ nodes[at].key = key
    BY DEF Up, Here
  <1>3. /\ mem \in Memory /\ Now = nodes /\ Top = tree
        /\ \A n \in Blocks : /\ mem[n].left = nodes[n].left /\ mem[n].right = nodes[n].right
                             /\ mem[n].height = nodes[n].height
                             /\ mem[n].value = nodes[n].value
        /\ at \in used => mem[at].key = nodes[at].key
        /\ mem = nodes \/ \E d \in used, old \in Keys : Pending(mem, lo, d, old)
    BY <1>1, <1>2, Down
  <1>4. /\ Placed(mem, used, lo, hi) /\ Rooted(tree, used, lo, hi)
        /\ PathInv(mem, lo, hi) /\ AtInv(mem, lo, hi)
    BY <1>3 DEF Shape
  <1>5. /\ at \in used /\ lo[at] < key /\ key < hi[at]
        /\ at = IF path = <<>> THEN tree ELSE Side(mem, Last(path), key)
        /\ \A j \in 1..Len(path) : lo[path[j]] < key /\ key < hi[path[j]]
    BY <1>2, <1>4 DEF AtInv
  <1>6. /\ nodes \in Memory /\ used \in SUBSET Blocks /\ at \in Blocks /\ key \in Keys
        /\ key \in Int /\ path \in Seq(Blocks)
    BY <1>1, <1>5, AvlAssumption DEF TypeInv
  <1>7. \A n \in used : Tall(nodes, n) /\ nodes[n].value \in Values
    BY <1>1, <1>2, <1>3 DEF HeightInv, ValueInv
  <1>8. Chain(mem, used, lo, hi, path, key) /\ (path # <<>> => path[1] = tree)
    BY <1>4 DEF PathInv
  <1>9. \A j \in 1..Len(path) : Below(mem, lo, hi, at, path[j])
    <2>1. path # <<>> => at = Side(mem, Last(path), key)
      BY <1>5
    <2>2. Placed(mem, used, lo, hi) /\ at \in used
      BY <1>4, <1>5
    <2> QED
      BY ONLY <1>6, <1>8, <2>1, <2>2, ChainAppend
  <1>10. Awaited(mem, used, lo, hi, path, key, at)
    <2>1. path = <<>> => Spans(lo, hi, at)
      BY <1>2, <1>4, <1>5 DEF Rooted
    <2>2. path # <<>> => Spans(lo, hi, path[1])
      <3>1. path # <<>> => path[1] \in used
        BY <1>6, <1>8 DEF Chain
      <3> QED
        BY <1>4, <1>6, <1>8, <3>1, AvlAssumption DEF Rooted
    <2> QED
      BY <1>5, <1>6, <1>8, <1>9, <2>1, <2>2 DEF Awaited
  <1>11. ASSUME NEW d \in used, NEW old \in Keys, Pending(mem, lo, d, old)
         PROVE  Twin(mem, hi, d)
    <2>1. /\ old < key /\ nodes[d].key = key /\ at # d /\ lo[at] = old
          /\ mem = [nodes EXCEPT ![d].key = old]
          /\ \A j \in used : mem[j].key <= old \/ key <= mem[j].key
          /\ \E j \in 1..Len(path) : path[j] = d
      BY <1>11 DEF Pending
    <2>2. mem[d].key = old /\ \A n \in Blocks : n # d => mem[n] = nodes[n]
      BY <1>6, <2>1 DEF Memory, Node
    <2>3. nodes[at].left = NULL
      BY <1>1, <1>2, <1>3, <1>4, <1>5, <1>6, <1>11, PendingSide
    <2>4. key < hi[d]
      BY <1>5, <2>1
    <2>5. d # nodes[at].right
      <3>1. lo[d] \in Int /\ lo[d] < old /\ old \in Int
        BY <1>4, <2>2, FitsLeft
      <3>2. nodes[at].right # NULL => lo[nodes[at].right] = key
        BY <1>2, <1>3, <1>4, <1>5, <1>6, FitsLeft
      <3>3. d # NULL
        BY <1>6, AvlAssumption
      <3> QED
        BY <1>6, <2>1, <3>1, <3>2, <3>3
    <2>6. nodes[d].value = nodes[at].value
      <3>1. PICK n \in used \ {d} : nodes[n].key = key /\ nodes[n].value = nodes[d].value
        BY <1>11 DEF Pending
      <3>2. mem[n].key = mem[at].key
        BY <1>2, <1>3, <1>5, <1>6, <2>2, <3>1
      <3>3. n = at
        BY <1>4, <1>5, <3>1, <3>2, Distinct
      <3> QED
        BY <3>1, <3>3
    <2>7. Successor(mem, used \ {at}, d, key)
      <3>1. \A n \in used : n # at => mem[n].key # key /\ mem[n].key \in Int
        BY <1>2, <1>3, <1>4, <1>5, Distinct, FitsLeft
      <3>2. old \in Int
        BY <2>2, <1>4, FitsLeft
      <3> QED
        BY <1>6, <2>1, <2>2, <3>1, <3>2 DEF Successor
    <2> QED
      BY <2>1, <2>2, <2>3, <2>4, <2>5, <2>6, <2>7 DEF Twin
  <1> QED
    BY <1>1, <1>2, <1>3, <1>4, <1>5, <1>6, <1>7, <1>8, <1>10, <1>11

Refilled(a, b, u, hi, k) ==
  b = a \/ \E d \in u : Successor(a, u, d, k) /\ k < hi[d] /\ Replaced(a, b, u, d, k)

\* What is left without the successor: the path to it stays.
LEMMA ReplacedChain ==
  ASSUME NEW a, NEW u, NEW lo, NEW hi, Placed(a, u, lo, hi), NEW k \in Keys,
         NEW s, Chain(a, u, lo, hi, s, k),
         NEW b, Refilled(a, b, u, hi, k)
  PROVE  \E lo2, hi2 :
           /\ Placed(b, u, lo2, hi2)
           /\ Chain(b, u, lo2, hi2, s, k)
           /\ \A n \in u : Spans(lo, hi, n) => Spans(lo2, hi2, n)
           /\ \A m, n \in u : Below(a, lo, hi, m, n) => Below(b, lo2, hi2, m, n)
           /\ \A n \in u : Side(b, n, k) = Side(a, n, k)
  <1>1. CASE b = a
    BY <1>1
  <1>2. ASSUME NEW d \in u, Successor(a, u, d, k), k < hi[d], Replaced(a, b, u, d, k)
        PROVE  \E lo2, hi2 :
                 /\ Placed(b, u, lo2, hi2)
                 /\ Chain(b, u, lo2, hi2, s, k)
                 /\ \A n \in u : Spans(lo, hi, n) => Spans(lo2, hi2, n)
                 /\ \A m, n \in u : Below(a, lo, hi, m, n) => Below(b, lo2, hi2, m, n)
                 /\ \A n \in u : Side(b, n, k) = Side(a, n, k)
    <2>1. PICK lo2, hi2 :
            /\ Placed(b, u, lo2, hi2)
            /\ \A n \in u : Spans(lo, hi, n) => Spans(lo2, hi2, n)
            /\ \A m, n \in u : Below(a, lo, hi, m, n) => Below(b, lo2, hi2, m, n)
      BY <1>2, ReplacedPlaced
    <2>2. k \in Int /\ a[d].key \in Int
      BY AvlAssumption, FitsLeft
    <2>3. ASSUME NEW n \in u
          PROVE  Side(b, n, k) = Side(a, n, k)
      <3>1. b[n].left = a[n].left /\ b[n].right = a[n].right
        BY <1>2 DEF Replaced
      <3>2. k < b[n].key <=> k < a[n].key
        <4>1. CASE n = d
          BY <1>2, <2>2, <4>1 DEF Replaced, Successor
        <4>2. CASE n # d
          BY <1>2, <4>2 DEF Replaced
        <4> QED
          BY <4>1, <4>2
      <3> QED
        BY <3>1, <3>2 DEF Side
    <2>4. Chain(b, u, lo2, hi2, s, k)
      <3>1. \A j \in 1..Len(s) : s[j] \in u
        BY DEF Chain
      <3>2. \A i, j \in 1..Len(s) : i < j => Below(b, lo2, hi2, s[j], s[i])
        BY <2>1, <3>1 DEF Chain
      <3>3. \A j \in 1..Len(s) - 1 : j \in 1..Len(s) /\ s[j + 1] = Side(a, s[j], k)
        BY DEF Chain
      <3>4. \A j \in 1..Len(s) - 1 : s[j + 1] = Side(b, s[j], k)
        BY <2>3, <3>1, <3>3
      <3> QED
        BY <3>1, <3>2, <3>4 DEF Chain
    <2> QED
      BY <2>1, <2>3, <2>4
  <1> QED
    BY <1>1, <1>2 DEF Refilled

\* The subtree of an activation is replaced in the node above it.
LEMMA LinkedTall ==
  ASSUME NEW mem \in Memory, NEW p \in Blocks, NEW c \in Pointers, NEW k,
         NEW b, b = LinkedIn(mem, k, p, c), NEW n \in Blocks, n # p, Tall(mem, n)
  PROVE  Tall(b, n)
  <1>1. /\ \A j \in Blocks : j # p => b[j] = mem[j]
        /\ b[p].height = mem[p].height
    BY LinkedFields
  <1>2. \A j \in Pointers : avl_height(b, j) = avl_height(mem, j)
    BY <1>1 DEF avl_height, Pointers
  <1>3. mem[n].left \in Pointers /\ mem[n].right \in Pointers
    BY Fields
  <1> QED
    BY <1>1, <1>2, <1>3 DEF Tall

LEMMA LeafIInv ==
  ASSUME IInv, doing = "remove", Leaf, doing' = "removed",
         UNCHANGED <<tree, key, value, path, steps>>
  PROVE  IInv'
  <1>1. PICK mem, lo, hi : Shape(mem, lo, hi)
    BY DEF IInv
  <1>2. /\ nodes[at].left = NULL /\ nodes[at].right = NULL
        /\ used' = used \ {at} /\ at' = NULL /\ nodes' = nodes
        /\ tree' = tree /\ key' = key /\ value' = value /\ path' = path /\ steps' = steps
    BY DEF Leaf
  <1>3. /\ TypeInv /\ mem \in Memory /\ Placed(mem, used, lo, hi)
        /\ at \in used /\ at \in Blocks /\ mem[at].key = key /\ key \in Keys /\ key \in Int
        /\ Awaited(mem, used, lo, hi, path, key, at)
        /\ path # <<>> => path[1] = tree
        /\ \A n \in Blocks : /\ mem[n].left = nodes[n].left /\ mem[n].right = nodes[n].right
                             /\ mem[n].height = nodes[n].height
                             /\ mem[n].value = nodes[n].value
        /\ \A n \in used : Tall(nodes, n) /\ nodes[n].value \in Values
        /\ mem = nodes \/ \E d \in used : Twin(mem, hi, d)
    BY <1>1, FoundFacts DEF Leaf
  <1>4. TypeInv' /\ ValueInv'
    BY <1>2, <1>3 DEF TypeInv, ValueInv, Pointers
  <1>5. nodes \in Memory /\ used \in SUBSET Blocks /\ path \in Seq(Blocks)
    BY <1>3 DEF TypeInv
  <1>6. CASE path = <<>>
    <2>1. Spans(lo, hi, at)
      BY <1>3, <1>6 DEF Awaited
    <2>2. \A n \in used : n = at
      <3> SUFFICES ASSUME NEW n \in used
                   PROVE  n = at
        OBVIOUS
      <3>1. /\ mem[n].key \in Keys /\ mem[n].key \in Int
            /\ lo[at] \in Int /\ hi[at] \in Int /\ mem[at].key \in Int
            /\ mem[n].key <= lo[at] \/ mem[at].key <= mem[n].key
            /\ mem[n].key <= mem[at].key \/ hi[at] <= mem[n].key
        BY <1>2, <1>3, <1>5, FitsLeft, Fields
      <3>2. mem[n].key = mem[at].key
        BY <2>1, <3>1 DEF Spans
      <3> QED
        BY <1>3, <3>2, Distinct
    <2>3. used' = {}
      BY <1>2, <2>2
    <2>4. Now' = nodes /\ Top' = NULL
      BY <1>2, <1>6 DEF Now, Top, Up
    <2>5. Placed(nodes, used', lo, hi) /\ Rooted(Top', used', lo, hi)
      BY <1>3, <1>5, <2>3, <2>4 DEF Placed, Sound, Rooted
    <2>6. Chain(nodes, used', lo, hi, path', key') /\ path' = <<>>
      BY <1>2, <1>6 DEF Chain
    <2>7. \A n \in used' : Tall(nodes, n)
      BY <2>3
    <2> QED
      BY <1>4, <2>4, <2>5, <2>6, <2>7, UpIInv
  <1>7. CASE path # <<>>
    <2>1. PICK p, a, b, u : /\ p = Last(path) /\ u = used \ {at}
                            /\ a = LinkedIn(mem, key, p, NULL) /\ b = LinkedIn(nodes, key, p, NULL)
      OBVIOUS
    <2>2. /\ Chain(mem, used, lo, hi, path, key)
          /\ \A j \in 1..Len(path) : Below(mem, lo, hi, at, path[j])
          /\ Spans(lo, hi, path[1]) /\ at = Side(mem, p, key)
      BY <1>3, <1>7, <2>1 DEF Awaited
    <2>3. Len(path) \in Nat /\ Len(path) > 0 /\ p = path[Len(path)] /\ p \in Blocks
      BY <1>5, <1>7, <2>1, PathFront
    <2>4. \A j \in 1..Len(path) : path[j] \in used /\ path[j] # at /\ path[j] \in u
      BY <1>3, <2>1, <2>2, BelowOutside DEF Chain
    <2>5. \A j \in 1..Len(path) - 1 : path[j] # p
      BY <1>3, <2>2, <2>3, <2>4, BelowOutside DEF Chain
    <2>6. NULL \in Pointers /\ NULL \notin used /\ p \in used /\ p # at
      BY <1>5, <2>3, <2>4, AvlAssumption DEF Pointers
    <2>7. /\ a \in Memory
          /\ \A n \in Blocks : n # p => a[n] = mem[n]
          /\ a[p].key = mem[p].key /\ a[p].value = mem[p].value /\ a[p].height = mem[p].height
          /\ key < mem[p].key => a[p].left = NULL /\ a[p].right = mem[p].right
          /\ ~(key < mem[p].key) => a[p].left = mem[p].left /\ a[p].right = NULL
      BY <1>3, <2>1, <2>3, <2>6, LinkedFields
    <2>8. /\ b \in Memory
          /\ \A n \in Blocks : n # p => b[n] = nodes[n]
          /\ b[p].key = nodes[p].key /\ b[p].value = nodes[p].value
          /\ b[p].height = nodes[p].height
          /\ key < nodes[p].key => b[p].left = NULL /\ b[p].right = nodes[p].right
          /\ ~(key < nodes[p].key) => b[p].left = nodes[p].left /\ b[p].right = NULL
      BY <1>5, <2>1, <2>3, <2>6, LinkedFields
    <2>9. Redirected(mem, a, used, at, NULL)
      <3> SUFFICES ASSUME NEW n \in used \ {at, NULL}
                   PROVE  /\ a[n].key = mem[n].key /\ a[n].value = mem[n].value
                          /\ a[n].height = mem[n].height
                          /\ mem[n].left = at => a[n].left = NULL
                          /\ mem[n].left # at => a[n].left = mem[n].left
                          /\ mem[n].right = at => a[n].right = NULL
                          /\ mem[n].right # at => a[n].right = mem[n].right
        BY DEF Redirected
      <3>1. /\ key < mem[p].key => mem[p].left = at /\ mem[p].right # at
            /\ ~(key < mem[p].key) => mem[p].right = at /\ mem[p].left # at
        BY <1>3, <2>2, <2>6, Children DEF Side
      <3>2. CASE n = p
        BY <2>7, <3>1, <3>2
      <3>3. CASE n # p
        <4>1. mem[n].left # at /\ mem[n].right # at
          <5>1. mem[p].left = at \/ mem[p].right = at
            BY <3>1
          <5>2. at # NULL
            BY <1>3, <2>6
          <5> QED
            BY <1>3, <2>6, <3>3, <5>1, <5>2, OneParent
        <4>2. a[n] = mem[n]
          BY <1>5, <2>7, <3>3
        <4> QED
          BY <4>1, <4>2
      <3> QED
        BY <3>2, <3>3
    <2>10. Placed(a, u, lo, hi)
      BY <1>2, <1>3, <2>1, <2>7, <2>9, LeafGone
    <2>11. Chain(a, u, lo, hi, path, key)
      <3>1. \A j \in 1..Len(path) : path[j] \in u /\ a[path[j]].key = mem[path[j]].key
        BY <1>5, <2>4, <2>7
      <3>2. \A j \in 1..Len(path) - 1 : Side(a, path[j], key) = Side(mem, path[j], key)
        BY <1>5, <2>3, <2>4, <2>5, <2>7 DEF Side
      <3>3. Chain(mem, used, lo, hi, path, key) /\ Len(path) \in Nat
        BY <2>2, <2>3
      <3> QED
        BY ONLY <3>1, <3>2, <3>3, SameChain
    <2>12. Refilled(a, b, u, hi, key)
      <3>1. CASE mem = nodes
        BY <2>1, <3>1 DEF Refilled
      <3>2. ASSUME NEW d \in used, Twin(mem, hi, d)
            PROVE  /\ d \in u /\ Successor(a, u, d, key) /\ key < hi[d]
                   /\ Replaced(a, b, u, d, key)
        <4>1. /\ d # at /\ key < hi[d] /\ nodes[d].key = key
              /\ mem[d].key \in Keys /\ mem[d].key < key
              /\ \A n \in u : mem[n].key <= mem[d].key \/ key < mem[n].key
              /\ \A n \in Blocks : n # d => mem[n] = nodes[n]
          BY <2>1, <3>2 DEF Twin, Successor
        <4>2. d \in u /\ u \in SUBSET Blocks /\ mem[d].key \in Int
          BY <1>5, <1>3, <2>1, <4>1, Fields
        <4>3. \A n \in Blocks : a[n].key = mem[n].key /\ b[n].key = nodes[n].key
          BY <2>7, <2>8
        <4>4. Successor(a, u, d, key)
          BY <4>1, <4>2, <4>3 DEF Successor
        <4>5. key < mem[p].key <=> key < nodes[p].key
          <5>1. CASE p = d
            BY <1>3, <4>1, <4>2, <5>1
          <5>2. CASE p # d
            BY <2>3, <4>1, <5>2
          <5> QED
            BY <5>1, <5>2
        <4>6. \A n \in Blocks : a[n].left = b[n].left /\ a[n].right = b[n].right
          BY <1>3, <2>3, <2>7, <2>8, <4>5
        <4>7. Replaced(a, b, u, d, key)
          BY <2>8, <4>1, <4>2, <4>3, <4>6 DEF Replaced
        <4> QED
          BY <4>1, <4>2, <4>4, <4>7
      <3> QED
        BY <1>3, <3>1, <3>2 DEF Refilled
    <2>13. PICK lo2, hi2 :
             /\ Placed(b, u, lo2, hi2)
             /\ Chain(b, u, lo2, hi2, path, key)
             /\ \A n \in u : Spans(lo, hi, n) => Spans(lo2, hi2, n)
      BY <1>3, <2>10, <2>11, <2>12, ReplacedChain
    <2>14. b = Now' /\ Top' = tree
      BY <1>2, <1>7, <2>1 DEF Now, Top, Up, Linked, LinkedIn
    <2>15. Rooted(Top', used', lo2, hi2)
      <3>1. path[1] \in u /\ path[1] = tree /\ tree # NULL
        BY <1>3, <1>7, <2>3, <2>4, <2>6
      <3> QED
        BY <1>2, <2>1, <2>2, <2>13, <2>14, <3>1 DEF Rooted
    <2>16. \A n \in used' : Tall(b, n) \/ (path' # <<>> /\ n = Last(path'))
      BY <1>2, <1>3, <1>5, <1>7, <2>1, <2>3, <2>6, LinkedTall
    <2>17. /\ Placed(b, used', lo2, hi2) /\ Chain(b, used', lo2, hi2, path', key')
           /\ path' # <<>> => path'[1] = tree'
      BY <1>2, <1>3, <2>1, <2>13
    <2> QED
      BY <1>4, <2>14, <2>15, <2>16, <2>17, UpIInv
  <1> QED
    BY <1>6, <1>7

\* The contents of an only child c move up to t.  The nodes above t keep their
\* places.
OnlyChild(a, t, c) ==
  /\ c # NULL
  /\ \/ a[t].left = NULL /\ c = a[t].right
     \/ a[t].right = NULL /\ c = a[t].left

MovedUp(a, b, u, t, c) == b[t] = a[c] /\ \A n \in u \ {t} : b[n] = a[n]

HeldAbove(a, u, lo, hi, lo2, hi2, t, c) ==
  /\ lo2[t] = lo[t] /\ hi2[t] = hi[t]
  /\ \A n \in u : Below(a, lo, hi, t, n) =>
                    n # c /\ n # t /\ lo2[n] = lo[n] /\ hi2[n] = hi[n]

LEMMA MovedPlaced ==
  ASSUME NEW a, NEW u, NEW lo, NEW hi, Placed(a, u, lo, hi), NEW t \in u,
         NEW c, OnlyChild(a, t, c), NEW b \in Memory, MovedUp(a, b, u, t, c)
  PROVE  /\ c \in u /\ c # t
         /\ \E lo2, hi2 : Placed(b, u \ {c}, lo2, hi2) /\ HeldAbove(a, u, lo, hi, lo2, hi2, t, c)
  <1> USE DEF OnlyChild, MovedUp, HeldAbove
  <1>1. /\ lo \in [Blocks -> Int] /\ hi \in [Blocks -> Int] /\ u \in SUBSET Blocks
        /\ lo[t] \in Int /\ hi[t] \in Int /\ a[t].key \in Int
        /\ lo[t] < a[t].key /\ a[t].key < hi[t]
    BY FitsLeft DEF Placed
  <1>2. CASE a[t].left # NULL
    <2> DEFINE hi2 == [n \in Blocks |-> IF a[t].key <= hi[n] /\ hi[n] < hi[t] THEN hi[t] ELSE hi[n]]
    <2>1. c = a[t].left /\ c # NULL /\ a[t].right = NULL
      BY <1>2
    <2>2. c \in u /\ c # t /\ hi[c] = a[t].key /\ lo[c] = lo[t]
      BY <2>1, FitsLeft, Children
    <2>3. /\ hi2 \in [Blocks -> Int]
          /\ \A n \in u : IF a[t].key <= hi[n] /\ hi[n] < hi[t] THEN hi2[n] = hi[t]
                                                             ELSE hi2[n] = hi[n]
      BY <1>1
    <2> HIDE DEF hi2
    <2>4. Placed(b, u \ {c}, lo, hi2)
      BY <2>1, <2>3, LeftMoved
    <2>5. hi2[t] = hi[t]
      BY <1>1, <2>3
    <2>6. ASSUME NEW n \in u, Below(a, lo, hi, t, n)
          PROVE  n # c /\ n # t /\ hi2[n] = hi[n]
      <3>1. lo[n] \in Int /\ hi[n] \in Int /\ a[n].key \in Int /\ a[n].key < hi[n]
        BY FitsLeft
      <3>2. hi[t] <= hi[n] /\ n # t
        BY <1>1, <2>6, <3>1, BelowOutside DEF Below
      <3> QED
        BY <1>1, <2>2, <2>3, <3>1, <3>2
    <2> QED
      BY <2>2, <2>4, <2>5, <2>6
  <1>3. CASE a[t].left = NULL
    <2> DEFINE lo2 == [n \in Blocks |-> IF a[t].key >= lo[n] /\ lo[n] > lo[t] THEN lo[t] ELSE lo[n]]
    <2>1. c = a[t].right /\ c # NULL /\ a[t].left = NULL
      BY <1>3
    <2>2. c \in u /\ c # t /\ lo[c] = a[t].key /\ hi[c] = hi[t]
      BY <2>1, FitsLeft, Children
    <2>3. /\ lo2 \in [Blocks -> Int]
          /\ \A n \in u : IF a[t].key >= lo[n] /\ lo[n] > lo[t] THEN lo2[n] = lo[t]
                                                             ELSE lo2[n] = lo[n]
      BY <1>1
    <2> HIDE DEF lo2
    <2>4. Placed(b, u \ {c}, lo2, hi)
      BY <2>1, <2>3, RightMoved
    <2>5. lo2[t] = lo[t]
      BY <1>1, <2>3
    <2>6. ASSUME NEW n \in u, Below(a, lo, hi, t, n)
          PROVE  n # c /\ n # t /\ lo2[n] = lo[n]
      <3>1. lo[n] \in Int /\ hi[n] \in Int /\ a[n].key \in Int /\ lo[n] < a[n].key
        BY FitsLeft
      <3>2. lo[n] <= lo[t] /\ n # t
        BY <1>1, <2>6, <3>1, BelowOutside DEF Below
      <3> QED
        BY <1>1, <2>2, <2>3, <3>1, <3>2
    <2> QED
      BY <2>2, <2>4, <2>5, <2>6
  <1> QED
    BY <1>2, <1>3

LEMMA SingleIInv ==
  ASSUME IInv, doing = "remove", Single, doing' = "removed",
         UNCHANGED <<tree, key, value, path, steps>>,
         NEW c, c = IF nodes[at].left = NULL THEN nodes[at].right ELSE nodes[at].left
  PROVE  /\ IInv' /\ used' = used \ {c} /\ c \in used /\ c # at
         /\ \A n \in used' : n # at =>
              nodes'[n].key = nodes[n].key /\ nodes'[n].value = nodes[n].value
         /\ nodes'[at].key = nodes[c].key /\ nodes'[at].value = nodes[c].value
  <1>1. PICK mem, lo, hi : Shape(mem, lo, hi)
    BY DEF IInv
  <1>2. PICK b, m, r, u : /\ b = [nodes EXCEPT ![at] = nodes[c]] /\ m = avl_update_height(b, at)
                          /\ r = RebalanceRemoved(m, at) /\ u = used \ {c}
    OBVIOUS
  <1>3. /\ (nodes[at].left = NULL) # (nodes[at].right = NULL)
        /\ nodes' = r.mem /\ at' = r.tree /\ used' = u
        /\ tree' = tree /\ key' = key /\ value' = value /\ path' = path /\ steps' = steps
    BY <1>2 DEF Single
  <1>4. /\ TypeInv /\ mem \in Memory /\ Placed(mem, used, lo, hi)
        /\ at \in used /\ at \in Blocks /\ mem[at].key = key /\ key \in Keys /\ key \in Int
        /\ Awaited(mem, used, lo, hi, path, key, at)
        /\ path # <<>> => path[1] = tree
        /\ \A n \in Blocks : /\ mem[n].left = nodes[n].left /\ mem[n].right = nodes[n].right
                             /\ mem[n].height = nodes[n].height
                             /\ mem[n].value = nodes[n].value
        /\ \A n \in used : Tall(nodes, n) /\ nodes[n].value \in Values
        /\ mem = nodes \/ \E d \in used : Twin(mem, hi, d)
    BY <1>1, FoundFacts DEF Single
  <1>5. nodes \in Memory /\ used \in SUBSET Blocks /\ path \in Seq(Blocks) /\ Len(path) \in Nat
    BY <1>4 DEF TypeInv
  <1>6. /\ Chain(mem, used, lo, hi, path, key)
        /\ \A j \in 1..Len(path) : path[j] \in used /\ Below(mem, lo, hi, at, path[j])
        /\ path = <<>> => Spans(lo, hi, at)
        /\ path # <<>> => Spans(lo, hi, path[1]) /\ at = Side(mem, Last(path), key)
    BY <1>4 DEF Awaited, Chain
  <1>7. c = IF mem[at].left = NULL THEN mem[at].right ELSE mem[at].left
    BY <1>4
  <1>8. c \in Blocks
    BY <1>3, <1>4, <1>5, <1>7, FitsLeft DEF Pointers
  <1>9. PICK a : a = [mem EXCEPT ![at] = mem[c]]
    OBVIOUS
  <1>10. /\ a \in Memory /\ a[at] = mem[c] /\ \A n \in Blocks : n # at => a[n] = mem[n]
    BY <1>4, <1>8, <1>9 DEF Memory
  <1>11. /\ b \in Memory /\ b[at] = nodes[c] /\ \A n \in Blocks : n # at => b[n] = nodes[n]
    BY <1>2, <1>4, <1>5, <1>8 DEF Memory
  <1>12. /\ c \in used /\ c # at
         /\ \E lo2, hi2 : /\ Placed(a, used \ {c}, lo2, hi2)
                          /\ HeldAbove(mem, used, lo, hi, lo2, hi2, at, c)
    <2>1. OnlyChild(mem, at, c)
      BY <1>3, <1>4, <1>7 DEF OnlyChild
    <2>2. MovedUp(mem, a, used, at, c)
      BY <1>5, <1>10 DEF MovedUp
    <2>3. Placed(mem, used, lo, hi) /\ at \in used /\ a \in Memory
      BY <1>4, <1>10
    <2> QED
      BY ONLY <2>1, <2>2, <2>3, MovedPlaced
  <1>13. PICK lo1, hi1 :
              /\ Placed(a, u, lo1, hi1)
              /\ lo1[at] = lo[at] /\ hi1[at] = hi[at]
              /\ \A n \in used : Below(mem, lo, hi, at, n) =>
                                   n # c /\ n # at /\ lo1[n] = lo[n] /\ hi1[n] = hi[n]
    BY <1>2, <1>12 DEF HeldAbove
  <1>14. \A j \in 1..Len(path) : /\ path[j] \in u /\ path[j] # at /\ path[j] \in Blocks
                                 /\ lo1[path[j]] = lo[path[j]] /\ hi1[path[j]] = hi[path[j]]
                                 /\ a[path[j]] = mem[path[j]]
    BY <1>2, <1>5, <1>6, <1>10, <1>13
  <1>15. Chain(a, u, lo1, hi1, path, key)
    <2>1. \A j \in 1..Len(path) : /\ path[j] \in u /\ a[path[j]].key = mem[path[j]].key
                                  /\ lo1[path[j]] = lo[path[j]] /\ hi1[path[j]] = hi[path[j]]
      BY <1>14
    <2>2. \A j \in 1..Len(path) - 1 : Side(a, path[j], key) = Side(mem, path[j], key)
      BY <1>5, <1>14 DEF Side
    <2>3. Chain(mem, used, lo, hi, path, key) /\ Len(path) \in Nat
      BY <1>5, <1>6
    <2> QED
      BY ONLY <2>1, <2>2, <2>3, SameChain
  <1>16. \A j \in 1..Len(path) : Below(a, lo1, hi1, at, path[j])
    BY <1>6, <1>13, <1>14 DEF Below
  <1>17. Refilled(a, b, u, hi1, key)
    <2>1. CASE mem = nodes
      BY <1>2, <1>9, <2>1 DEF Refilled
    <2>2. ASSUME NEW d \in used, Twin(mem, hi, d)
          PROVE  d \in u /\ Successor(a, u, d, key) /\ key < hi1[d] /\ Replaced(a, b, u, d, key)
      <3>1. /\ d # at /\ d # nodes[at].right /\ nodes[at].left = NULL
            /\ key < hi[d] /\ nodes[d].key = key
            /\ mem[d].key \in Keys /\ mem[d].key < key
            /\ \A n \in used \ {at} : mem[n].key <= mem[d].key \/ key < mem[n].key
            /\ \A n \in Blocks : n # d => mem[n] = nodes[n]
        BY <2>2 DEF Twin, Successor
      <3>2. d \in u /\ d # c /\ d \in Blocks
        BY <1>2, <1>5, <3>1
      <3>3. PICK j \in 1..Len(path) : path[j] = d
        BY <2>2 DEF Twin
      <3>4. key < hi1[d]
        BY <1>14, <3>1, <3>3
      <3>5. a[d] = mem[d] /\ b[d] = nodes[d]
        BY <1>10, <1>11, <3>1, <3>2
      <3>6. \A n \in u : a[n].key <= a[d].key \/ key < a[n].key
        <4> SUFFICES ASSUME NEW n \in u
                     PROVE  a[n].key <= a[d].key \/ key < a[n].key
          OBVIOUS
        <4>1. CASE n = at
          BY <1>10, <1>12, <3>1, <3>5, <4>1
        <4>2. CASE n # at
          BY <1>2, <1>5, <1>10, <3>1, <3>5, <4>2
        <4> QED
          BY <4>1, <4>2
      <3>7. Successor(a, u, d, key)
        BY <3>1, <3>2, <3>5, <3>6 DEF Successor
      <3>8. \A n \in u : n # d => b[n] = a[n]
        BY <1>2, <1>5, <1>8, <1>10, <1>11, <3>1, <3>2
      <3>9. b[d].key = key /\ b[d].left = a[d].left /\ b[d].right = a[d].right
        BY <1>4, <3>1, <3>2, <3>5
      <3>10. Replaced(a, b, u, d, key)
        BY <1>11, <3>8, <3>9 DEF Replaced
      <3> QED
        BY <3>2, <3>4, <3>7, <3>10
    <2> QED
      BY <1>4, <2>1, <2>2 DEF Refilled
  <1>18. PICK lo2, hi2 :
           /\ Placed(b, u, lo2, hi2)
           /\ Chain(b, u, lo2, hi2, path, key)
           /\ \A n \in u : Spans(lo1, hi1, n) => Spans(lo2, hi2, n)
           /\ \A i, n \in u : Below(a, lo1, hi1, i, n) => Below(b, lo2, hi2, i, n)
           /\ \A n \in u : Side(b, n, key) = Side(a, n, key)
    BY <1>4, <1>13, <1>15, <1>17, ReplacedChain
  <1>19. at \in u
    BY <1>2, <1>4, <1>12
  <1>20. \A n \in u : n = at \/ Tall(b, n)
    <2>1. nodes[c].height < nodes[at].height
      <3>1. Tall(nodes, at) /\ (c = nodes[at].left \/ c = nodes[at].right) /\ c # NULL
        BY <1>4, <1>8, AvlAssumption
      <3> QED
        BY <3>1 DEF Tall, avl_height
    <2>2. \A j \in Pointers : /\ avl_height(b, j) \in Nat /\ avl_height(nodes, j) \in Nat
                              /\ avl_height(b, j) <= avl_height(nodes, j)
      <3> SUFFICES ASSUME NEW j \in Pointers
                   PROVE  /\ avl_height(b, j) \in Nat /\ avl_height(nodes, j) \in Nat
                          /\ avl_height(b, j) <= avl_height(nodes, j)
        OBVIOUS
      <3>1. avl_height(b, j) \in Nat /\ avl_height(nodes, j) \in Nat
        BY <1>5, <1>11, Heights
      <3>2. CASE j = NULL
        BY <3>1, <3>2 DEF avl_height
      <3>3. CASE j = at
        BY <1>4, <1>5, <1>8, <1>11, <2>1, <3>1, <3>3, Fields, AvlAssumption DEF avl_height
      <3>4. CASE j # NULL /\ j # at
        BY <1>11, <3>1, <3>4 DEF avl_height, Pointers
      <3> QED
        BY <3>1, <3>2, <3>3, <3>4
    <2>3. ASSUME NEW n \in u, n # at
          PROVE  Tall(b, n)
      <3>1. n \in Blocks /\ b[n] = nodes[n] /\ Tall(nodes, n)
        BY <1>2, <1>4, <1>5, <1>11, <2>3
      <3>2. nodes[n].left \in Pointers /\ nodes[n].right \in Pointers /\ nodes[n].height \in Nat
        BY <1>5, <3>1, Fields
      <3> QED
        BY <2>2, <3>1, <3>2 DEF Tall
    <2> QED
      BY <2>3
  <1>21. \A j \in 1..Len(path) : Below(b, lo2, hi2, at, path[j])
    BY <1>14, <1>16, <1>18, <1>19
  <1>22. /\ path = <<>> => Spans(lo2, hi2, at)
         /\ path # <<>> => /\ Spans(lo2, hi2, path[1]) /\ at = Side(b, Last(path), key)
                           /\ path[1] = tree
    <2>1. CASE path = <<>>
      BY <1>6, <1>13, <1>18, <1>19, <2>1 DEF Spans
    <2>2. CASE path # <<>>
      <3>1. /\ Len(path) \in 1..Len(path) /\ 1 \in 1..Len(path) /\ Last(path) = path[Len(path)]
        BY <1>5, <2>2, PathFront
      <3>2. Spans(lo1, hi1, path[1]) /\ path[1] \in u
        BY <1>6, <1>14, <2>2, <3>1 DEF Spans
      <3>3. Side(b, Last(path), key) = Side(mem, Last(path), key)
        BY <1>14, <1>18, <3>1 DEF Side
      <3> QED
        BY <1>4, <1>6, <1>18, <2>2, <3>2, <3>3
    <2> QED
      BY <2>1, <2>2
  <1>23. \A n \in u : b[n].value \in Values
    BY <1>2, <1>4, <1>5, <1>11, <1>12
  <1>24. /\ doing' \in {"inserted", "removed"} /\ nodes' = r.mem /\ at' = r.tree /\ path' = path
         /\ used' = u /\ key' = key /\ value' = value /\ tree' = tree /\ steps' = steps
    BY <1>3
  <1>25. IInv' /\ \A n \in u : nodes'[n].key = b[n].key /\ nodes'[n].value = b[n].value
    <2>1. /\ path \in Seq(Blocks) /\ m = avl_update_height(b, at) /\ TypeInv
          /\ Placed(b, u, lo2, hi2) /\ Chain(b, u, lo2, hi2, path, key)
          /\ r = RebalanceRemoved(m, at)
      BY <1>2, <1>4, <1>5, <1>18
    <2> QED
      BY ONLY <1>19, <1>20, <1>21, <1>22, <1>23, <1>24, <2>1, UpStep
  <1>26. nodes'[at].key = nodes[c].key /\ nodes'[at].value = nodes[c].value
    BY <1>11, <1>19, <1>25
  <1>27. \A n \in used' : n # at =>
           nodes'[n].key = nodes[n].key /\ nodes'[n].value = nodes[n].value
    <2>1. \A n \in u : n \in Blocks
      BY <1>2, <1>5
    <2> QED
      BY <1>3, <1>11, <1>25, <2>1
  <1> QED
    BY <1>2, <1>3, <1>12, <1>25, <1>26, <1>27

\* Linking the child that is there changes nothing.
LEMMA LinkedSame ==
  ASSUME NEW mem \in Memory, NEW t \in Blocks, NEW k, NEW c \in Pointers, c = Side(mem, t, k)
  PROVE  LinkedIn(mem, k, t, c) = mem
  <1>1. CASE k < mem[t].key
    <2>1. c = mem[t].left /\ LinkedIn(mem, k, t, c) = [mem EXCEPT ![t].left = c]
      BY <1>1 DEF Side, LinkedIn
    <2> QED
      BY <2>1 DEF Memory, Node
  <1>2. CASE ~(k < mem[t].key)
    <2>1. c = mem[t].right /\ LinkedIn(mem, k, t, c) = [mem EXCEPT ![t].right = c]
      BY <1>2 DEF Side, LinkedIn
    <2> QED
      BY <2>1 DEF Memory, Node
  <1> QED
    BY <1>1, <1>2

\* A call that finds nothing to change.
LEMMA KeptIInv ==
  ASSUME IInv, \/ doing = "insert" /\ at # NULL /\ doing' = "inserted"
               \/ doing = "remove" /\ at = NULL /\ doing' = "removed",
         UNCHANGED <<tree, nodes, used, key, value, path, at, steps>>
  PROVE  IInv'
  <1>1. PICK mem, lo, hi : Shape(mem, lo, hi)
    BY DEF IInv
  <1>2. TypeInv /\ ValueInv /\ HeightInv
    BY DEF IInv
  <1>3. ~Up /\ Up' /\ doing \in {"insert", "remove"}
    BY DEF Up
  <1>4. mem = nodes /\ Now = nodes /\ Top = tree
    BY <1>1, <1>2, <1>3, Down DEF Pending
  <1>5. /\ Placed(nodes, used, lo, hi) /\ Rooted(tree, used, lo, hi)
        /\ PathInv(nodes, lo, hi) /\ AtInv(nodes, lo, hi)
    BY <1>1, <1>3, <1>4 DEF Shape
  <1>6. at = IF path = <<>> THEN tree ELSE Side(nodes, Last(path), key)
    BY <1>3, <1>5 DEF AtInv
  <1>7. nodes \in Memory /\ path \in Seq(Blocks) /\ at \in Pointers
    BY <1>2 DEF TypeInv
  <1>8. TypeInv' /\ ValueInv'
    BY <1>2 DEF TypeInv, ValueInv
  <1>9. nodes = Now'
    <2>1. CASE path = <<>>
      BY <1>3, <2>1 DEF Now
    <2>2. CASE path # <<>>
      <3>1. Last(path) \in Blocks
        BY <1>7, <2>2, PathFront
      <3>2. LinkedIn(nodes, key, Last(path), at) = nodes
        BY <1>6, <1>7, <2>2, <3>1, LinkedSame
      <3>3. Now' = LinkedIn(nodes, key, Last(path), at)
        BY <1>3, <2>2 DEF Now, Linked, LinkedIn
      <3> QED
        BY <3>2, <3>3
    <2> QED
      BY <2>1, <2>2
  <1>10. Top' = tree
    BY <1>3, <1>6 DEF Top
  <1>11. \A n \in used : Tall(nodes, n)
    BY <1>2, <1>3, <1>4 DEF HeightInv
  <1>12. /\ Placed(nodes, used', lo, hi) /\ Rooted(Top', used', lo, hi)
         /\ Chain(nodes, used', lo, hi, path', key') /\ (path' # <<>> => path'[1] = tree')
         /\ \A n \in used' : Tall(nodes, n)
    BY <1>5, <1>10, <1>11 DEF PathInv
  <1> QED
    BY <1>8, <1>9, <1>12, UpIInv

\* A new node is a leaf below the last one of the path.
LEMMA PutIInv ==
  ASSUME IInv, doing = "insert", at = NULL, doing' = "inserted",
         NEW b \in Blocks, b \notin used,
         nodes' = [nodes EXCEPT ![b] = avl_new(key, value)], used' = used \cup {b}, at' = b,
         UNCHANGED <<tree, key, value, path, steps>>
  PROVE  /\ IInv' /\ nodes'[b].key = key /\ nodes'[b].value = value /\ value \in Values
         /\ \A n \in used : nodes'[n] = nodes[n] /\ nodes[n].key # key
  <1>1. PICK mem, lo, hi : Shape(mem, lo, hi)
    BY DEF IInv
  <1>2. TypeInv /\ ValueInv /\ HeightInv
    BY DEF IInv
  <1>3. ~Up /\ Up'
    BY DEF Up
  <1>4. mem = nodes /\ Now = nodes /\ Top = tree
    BY <1>1, <1>2, <1>3, Down
  <1>5. /\ Placed(nodes, used, lo, hi) /\ Rooted(tree, used, lo, hi)
        /\ PathInv(nodes, lo, hi) /\ AtInv(nodes, lo, hi)
    BY <1>1, <1>4 DEF Shape
  <1>6. /\ at = IF path = <<>> THEN tree ELSE Side(nodes, Last(path), key)
        /\ \A n \in used : nodes[n].key # key
        /\ \A j \in 1..Len(path) : lo[path[j]] < key /\ key < hi[path[j]]
    BY <1>3, <1>5 DEF AtInv
  <1>7. /\ nodes \in Memory /\ path \in Seq(Blocks) /\ used \in SUBSET Blocks /\ key \in Keys
        /\ key \in Int /\ value \in Values /\ lo \in [Blocks -> Int] /\ hi \in [Blocks -> Int]
    BY <1>2, <1>5, AvlAssumption DEF TypeInv, ValueInv, Placed
  <1>8. avl_new(key, value) \in Node
    BY <1>7 DEF avl_new, Node, Pointers
  <1>9. /\ nodes' \in Memory /\ \A n \in Blocks : n # b => nodes'[n] = nodes[n]
        /\ nodes'[b].key = key /\ nodes'[b].value = value /\ nodes'[b].height = 1
        /\ nodes'[b].left = NULL /\ nodes'[b].right = NULL
    <2>1. /\ nodes' \in Memory /\ nodes'[b] = avl_new(key, value)
          /\ \A n \in Blocks : n # b => nodes'[n] = nodes[n]
      BY <1>7, <1>8 DEF Memory
    <2> QED
      BY <2>1 DEF avl_new
  <1>10. TypeInv' /\ ValueInv'
    BY <1>2, <1>7, <1>9 DEF TypeInv, ValueInv, Pointers
  <1>11. \A n \in used : Tall(nodes, n)
    BY <1>2, <1>3, <1>4 DEF HeightInv
  <1>12. Tall(nodes', b)
    BY <1>9 DEF Tall, avl_height
  <1>13. \A n \in used : Tall(nodes', n) /\ n \in Blocks /\ n # b
    <2> SUFFICES ASSUME NEW n \in used
                 PROVE  Tall(nodes', n) /\ n \in Blocks /\ n # b
      OBVIOUS
    <2>1. n \in Blocks /\ n # b /\ nodes'[n] = nodes[n] /\ Tall(nodes, n)
      BY <1>7, <1>9, <1>11
    <2>2. /\ nodes[n].left # NULL => nodes[n].left \in used
          /\ nodes[n].right # NULL => nodes[n].right \in used
      BY <1>5, FitsLeft
    <2>3. /\ avl_height(nodes', nodes[n].left) = avl_height(nodes, nodes[n].left)
          /\ avl_height(nodes', nodes[n].right) = avl_height(nodes, nodes[n].right)
      BY <1>7, <1>9, <2>2 DEF avl_height
    <2> QED
      BY <2>1, <2>3 DEF Tall
  <1>14. IInv'
    <2>1. CASE path = <<>>
      <3> DEFINE lo2 == [n \in Blocks |-> -INT_MAX - 2]
                 hi2 == [n \in Blocks |-> INT_MAX + 1]
      <3>1. used = {} /\ used' = {b}
        BY <1>5, <1>6, <2>1 DEF Rooted
      <3>2. nodes' = Now' /\ Top' = b
        BY <1>3, <2>1 DEF Now, Top
      <3>3. /\ lo2 \in [Blocks -> Int] /\ hi2 \in [Blocks -> Int]
            /\ lo2[b] < key /\ key < hi2[b] /\ Spans(lo2, hi2, b)
        BY <1>7, AvlAssumption DEF Spans
      <3> HIDE DEF lo2, hi2
      <3>4. Fits(nodes', {b}, lo2, hi2, b)
        <4>1. lo2[b] \in Int /\ hi2[b] \in Int
          BY <3>3
        <4> QED
          BY <1>7, <1>9, <3>3, <4>1 DEF Fits, Edge
      <3>5. Placed(nodes', used', lo2, hi2)
        BY <1>9, <3>1, <3>3, <3>4 DEF Placed, Sound
      <3>6. Rooted(Top', used', lo2, hi2)
        BY <3>1, <3>2, <3>3, AvlAssumption DEF Rooted
      <3>7. Chain(nodes', used', lo2, hi2, path', key') /\ path' = <<>>
        BY <2>1 DEF Chain
      <3>8. \A n \in used' : Tall(nodes', n)
        BY <1>12, <3>1
      <3> QED
        BY <1>10, <3>2, <3>5, <3>6, <3>7, <3>8, UpIInv
    <2>2. CASE path # <<>>
      <3>1. PICK p, c : p = Last(path) /\ c = LinkedIn(nodes', key, p, b)
        OBVIOUS
      <3>2. Len(path) \in Nat /\ Len(path) > 0 /\ p = path[Len(path)] /\ p \in Blocks
        BY <1>7, <2>2, <3>1, PathFront
      <3>3. /\ \A j \in 1..Len(path) : path[j] \in used
            /\ Chain(nodes, used, lo, hi, path, key) /\ path[1] = tree
        BY <1>5, <2>2 DEF PathInv, Chain
      <3>4. p \in used /\ p # b /\ lo[p] < key /\ key < hi[p] /\ nodes[p].key # key
        BY <1>6, <3>2, <3>3
      <3>5. NULL = Side(nodes, p, key)
        BY <1>6, <2>2, <3>1
      <3>6. /\ c \in Memory
            /\ \A n \in Blocks : n # p => c[n] = nodes'[n]
            /\ c[p].key = nodes[p].key /\ c[p].value = nodes[p].value
            /\ c[p].height = nodes[p].height
            /\ key < nodes[p].key => c[p].left = b /\ c[p].right = nodes[p].right
            /\ ~(key < nodes[p].key) => c[p].left = nodes[p].left /\ c[p].right = b
        <4>1. nodes'[p] = nodes[p] /\ b \in Pointers
          BY <1>9, <3>2, <3>4 DEF Pointers
        <4>2. /\ c \in Memory
              /\ \A n \in Blocks : n # p => c[n] = nodes'[n]
              /\ c[p].key = nodes'[p].key /\ c[p].value = nodes'[p].value
              /\ c[p].height = nodes'[p].height
              /\ key < nodes'[p].key => c[p].left = b /\ c[p].right = nodes'[p].right
              /\ ~(key < nodes'[p].key) => c[p].left = nodes'[p].left /\ c[p].right = b
          <5>1. /\ nodes' \in Memory /\ p \in Blocks /\ b \in Pointers
                /\ c = LinkedIn(nodes', key, p, b)
            BY <1>9, <3>1, <3>2, <4>1
          <5> QED
            BY ONLY <5>1, LinkedFields
        <4> QED
          BY <4>1, <4>2
      <3>7. /\ c[b].key = key /\ c[b].left = NULL /\ c[b].right = NULL
            /\ \A n \in used : c[n].key = nodes[n].key
            /\ \A n \in used : n # p => c[n] = nodes[n]
        BY <1>9, <1>13, <3>4, <3>6
      <3>8. \E lo2, hi2 : /\ Placed(c, used \cup {b}, lo2, hi2)
                          /\ \A n \in used : lo2[n] = lo[n] /\ hi2[n] = hi[n]
        <4>1. nodes[p].key \in Int /\ lo[p] \in Int /\ hi[p] \in Int
          BY <1>5, <3>4, FitsLeft
        <4>2. CASE key < nodes[p].key
          <5> DEFINE lo2 == [lo EXCEPT ![b] = lo[p]]
                     hi2 == [hi EXCEPT ![b] = nodes[p].key]
          <5>1. /\ lo2 \in [Blocks -> Int] /\ hi2 \in [Blocks -> Int]
                /\ lo2[b] = lo[p] /\ hi2[b] = nodes[p].key
                /\ \A n \in used : lo2[n] = lo[n] /\ hi2[n] = hi[n]
            BY <1>7, <1>13, <4>1
          <5>2. /\ p \in used /\ nodes[p].left = NULL /\ b \in Blocks /\ b \notin used /\ c \in Memory
                /\ lo[p] < c[b].key /\ c[b].key < nodes[p].key
                /\ c[b].left = NULL /\ c[b].right = NULL /\ c[p].left = b
                /\ \A n \in used : c[n].key = nodes[n].key /\ c[n].right = nodes[n].right
                /\ \A n \in used : n # p => c[n].left = nodes[n].left
                /\ Placed(nodes, used, lo, hi)
            BY <1>5, <3>4, <3>5, <3>6, <3>7, <4>2 DEF Side
          <5> HIDE DEF lo2, hi2
          <5>3. Placed(c, used \cup {b}, lo2, hi2)
            BY ONLY <5>1, <5>2, LeftPut
          <5> QED
            BY <5>1, <5>3
        <4>3. CASE key > nodes[p].key
          <5> DEFINE lo2 == [lo EXCEPT ![b] = nodes[p].key]
                     hi2 == [hi EXCEPT ![b] = hi[p]]
          <5>1. /\ lo2 \in [Blocks -> Int] /\ hi2 \in [Blocks -> Int]
                /\ lo2[b] = nodes[p].key /\ hi2[b] = hi[p]
                /\ \A n \in used : hi2[n] = hi[n] /\ lo2[n] = lo[n]
            BY <1>7, <1>13, <4>1
          <5>2. ~(key < nodes[p].key)
            BY <1>7, <4>1, <4>3
          <5>3. /\ p \in used /\ nodes[p].right = NULL /\ b \in Blocks /\ b \notin used
                /\ c \in Memory /\ hi[p] > c[b].key /\ c[b].key > nodes[p].key
                /\ c[b].left = NULL /\ c[b].right = NULL /\ c[p].right = b
                /\ \A n \in used : c[n].key = nodes[n].key /\ c[n].left = nodes[n].left
                /\ \A n \in used : n # p => c[n].right = nodes[n].right
                /\ Placed(nodes, used, lo, hi)
            BY <1>5, <1>7, <3>4, <3>5, <3>6, <3>7, <4>1, <4>3, <5>2 DEF Side
          <5> HIDE DEF lo2, hi2
          <5>4. Placed(c, used \cup {b}, lo2, hi2)
            BY ONLY <5>1, <5>3, RightPut
          <5> QED
            BY <5>1, <5>4
        <4>4. key < nodes[p].key \/ key > nodes[p].key
          BY <1>7, <3>4, <4>1
        <4> QED
          BY ONLY <4>2, <4>3, <4>4
      <3>9. PICK lo2, hi2 : /\ Placed(c, used', lo2, hi2)
                            /\ \A n \in used : lo2[n] = lo[n] /\ hi2[n] = hi[n]
        BY <3>8
      <3>10. Chain(c, used', lo2, hi2, path, key)
        <4>1. \A j \in 1..Len(path) : /\ path[j] \in used' /\ c[path[j]].key = nodes[path[j]].key
                                      /\ lo2[path[j]] = lo[path[j]] /\ hi2[path[j]] = hi[path[j]]
          BY <3>3, <3>7, <3>9
        <4>2. \A j \in 1..Len(path) - 1 : path[j] # p
          BY <1>5, <3>2, <3>3, BelowOutside DEF Chain
        <4>3. \A j \in 1..Len(path) - 1 : Side(c, path[j], key) = Side(nodes, path[j], key)
          BY <3>2, <3>3, <3>7, <4>2 DEF Side
        <4>4. Chain(nodes, used, lo, hi, path, key) /\ Len(path) \in Nat
          BY <3>2, <3>3
        <4> QED
          BY ONLY <4>1, <4>3, <4>4, SameChain
      <3>11. c = Now' /\ Top' = tree
        BY <1>3, <2>2, <3>1 DEF Now, Top, Linked, LinkedIn
      <3>12. Rooted(Top', used', lo2, hi2)
        <4>1. tree \in used /\ tree # NULL
          BY <1>7, <3>2, <3>3, AvlAssumption
        <4> QED
          BY <1>5, <3>9, <3>11, <4>1 DEF Rooted, Spans
      <3>13. \A n \in used' : Tall(c, n) \/ (path' # <<>> /\ n = Last(path'))
        <4>1. \A n \in used' : n \in Blocks /\ Tall(nodes', n)
          BY <1>12, <1>13
        <4>2. b \in Pointers
          BY DEF Pointers
        <4> QED
          BY <1>9, <2>2, <3>1, <3>2, <4>1, <4>2, LinkedTall
      <3>14. /\ Chain(c, used', lo2, hi2, path', key') /\ (path' # <<>> => path'[1] = tree')
        BY <3>3, <3>10
      <3> QED
        BY <1>10, <3>9, <3>11, <3>12, <3>13, <3>14, UpIInv
    <2> QED
      BY <2>1, <2>2
  <1> QED
    BY <1>6, <1>7, <1>9, <1>13, <1>14

LEMMA PlaceIInv ==
  ASSUME IInv, Place
  PROVE  IInv'
  <1>1. /\ doing = "insert" /\ doing' = "inserted"
        /\ UNCHANGED <<tree, key, value, path, steps>>
    BY DEF Place
  <1>2. CASE at = NULL /\ \E b \in Blocks \ used :
                            /\ nodes' = [nodes EXCEPT ![b] = avl_new(key, value)]
                            /\ used' = used \cup {b}
                            /\ at' = b
    BY <1>1, <1>2, PutIInv
  <1>3. CASE Here /\ UNCHANGED <<nodes, used, at>>
    BY <1>1, <1>3, KeptIInv DEF Here
  <1> QED
    BY <1>2, <1>3 DEF Place

LEMMA UnlinkIInv ==
  ASSUME IInv, Unlink
  PROVE  IInv'
  <1>1. /\ doing = "remove" /\ doing' = "removed"
        /\ UNCHANGED <<tree, key, value, path, steps>>
    BY DEF Unlink
  <1>2. CASE Absent
    BY <1>1, <1>2, KeptIInv DEF Absent
  <1>3. CASE Leaf
    BY <1>1, <1>3, LeafIInv
  <1>4. CASE Single
    BY <1>1, <1>4, SingleIInv
  <1> QED
    BY <1>2, <1>3, <1>4 DEF Unlink

\* Every step keeps the invariant.
LEMMA NextIInv ==
  ASSUME IInv, [Next]_vars
  PROVE  IInv'
  <1>1. ASSUME NEW f \in {"get", "insert", "remove"}, NEW k \in Keys, NEW v, Call(f, k, v),
               f = "insert" => v \in Values, v \in Values \cup {NULL}
        PROVE  IInv'
    BY <1>1, CallIInv
  <1>2. CASE avl_insert
    <2>1. PICK b \in Bindings : Call("insert", b[1], b[2])
      BY <1>2 DEF avl_insert
    <2>2. b[1] \in Keys /\ b[2] \in Values
      BY AvlAssumption
    <2> QED
      BY <1>1, <2>1, <2>2
  <1>3. CASE avl_remove
    BY <1>1, <1>3 DEF avl_remove
  <1>4. CASE avl_get
    BY <1>1, <1>4 DEF avl_get
  <1>5. CASE Descend
    BY <1>5, DescendIInv
  <1>6. CASE Search
    BY <1>6, SearchIInv
  <1>7. CASE Place
    BY <1>7, PlaceIInv
  <1>8. CASE Unlink
    BY <1>8, UnlinkIInv
  <1>9. CASE Inner
    BY <1>9, InnerIInv
  <1>10. CASE Minimum
    BY <1>10, MinimumIInv
  <1>11. CASE Back
    BY <1>11, BackIInv
  <1>12. CASE Fault
    BY <1>12, FaultIInv
  <1>13. CASE Return
    BY <1>13, ReturnIInv
  <1>14. CASE UNCHANGED vars
    BY <1>14, StutterIInv
  <1> QED
    BY <1>2, <1>3, <1>4, <1>5, <1>6, <1>7, <1>8, <1>9, <1>10, <1>11, <1>12, <1>13, <1>14
    DEF Next, Stopped

\* The blocks in use form a search tree at every step of every call of
\* avltree.c, with its links turned, its nodes moved and its keys replaced in
\* place.
THEOREM TreeInvariance == Spec => []IInv
  <1>1. Init => IInv
    BY InitIInv
  <1>2. IInv /\ [Next]_vars => IInv'
    BY NextIInv
  <1> QED
    BY <1>1, <1>2, PTL DEF Spec

\* No walk of avl_insert, avl_remove or avl_get is longer than the height that
\* the root stores, whatever rotations made of the heights.
THEOREM WalksBounded == Spec => []HeightsBound
  <1>1. IInv => HeightsBound
    <2> SUFFICES ASSUME IInv, doing \in {"get", "insert", "remove", "minimum"}
                 PROVE  steps <= avl_height(nodes, tree)
      BY DEF HeightsBound
    <2>1. /\ nodes \in Memory /\ at \in Pointers /\ tree \in Pointers /\ steps \in Nat
          /\ steps + avl_height(nodes, at) <= avl_height(nodes, tree)
      BY DEF IInv, TypeInv, StepInv
    <2>2. avl_height(nodes, at) \in Nat /\ avl_height(nodes, tree) \in Nat
      BY <2>1, Heights
    <2> QED
      BY <2>1, <2>2
  <1> QED
    BY <1>1, TreeInvariance, PTL
-----------------------------------------------------------------------------
(***************************************************************************)
(* The tree as a map.                                                      *)
(***************************************************************************)
MapOf(mem, u) ==
  [k \in Keys |-> IF \E n \in u : mem[n].key = k
                  THEN mem[CHOOSE n \in u : mem[n].key = k].value ELSE NULL]

\* The map f has the entries of the nodes and no other.
Holds(mem, u, f) ==
  /\ f = [k \in Keys |-> f[k]]
  /\ \A n \in u : mem[n].key \in Keys /\ f[mem[n].key] = mem[n].value
  /\ \A k \in Keys : f[k] # NULL => \E n \in u : mem[n].key = k

LEMMA MapIs ==
  ASSUME NEW mem, NEW u, NEW f, Holds(mem, u, f)
  PROVE  MapOf(mem, u) = f
  <1>1. ASSUME NEW k \in Keys
        PROVE  f[k] = IF \E n \in u : mem[n].key = k
                      THEN mem[CHOOSE n \in u : mem[n].key = k].value ELSE NULL
    <2>1. CASE \E n \in u : mem[n].key = k
      <3> DEFINE n == CHOOSE n \in u : mem[n].key = k
      <3>1. n \in u /\ mem[n].key = k
        BY <2>1
      <3> QED
        BY <2>1, <3>1 DEF Holds
    <2>2. CASE ~\E n \in u : mem[n].key = k
      BY <2>2 DEF Holds
    <2> QED
      BY <2>1, <2>2
  <1>2. f = [k \in Keys |-> f[k]]
    BY DEF Holds
  <1> QED
    BY <1>1, <1>2 DEF MapOf

\* Nodes with one key have one value.
Agree(mem, u) ==
  \A m, n \in u : mem[m].key = mem[n].key => mem[m].value = mem[n].value

LEMMA MapHolds ==
  ASSUME NEW mem, NEW u, Agree(mem, u), \A n \in u : mem[n].key \in Keys
  PROVE  /\ Holds(mem, u, MapOf(mem, u))
         /\ \A k \in Keys : (\A n \in u : mem[n].key # k) => MapOf(mem, u)[k] = NULL
  <1>1. \A k \in Keys : (\A n \in u : mem[n].key # k) => MapOf(mem, u)[k] = NULL
    BY DEF MapOf
  <1>2. ASSUME NEW m \in u
        PROVE  MapOf(mem, u)[mem[m].key] = mem[m].value
    <2> DEFINE n == CHOOSE n \in u : mem[n].key = mem[m].key
    <2>1. n \in u /\ mem[n].key = mem[m].key
      OBVIOUS
    <2>2. MapOf(mem, u)[mem[m].key] = mem[n].value
      BY <1>2 DEF MapOf
    <2> QED
      BY <2>1, <2>2 DEF Agree
  <1>3. MapOf(mem, u) = [k \in Keys |-> MapOf(mem, u)[k]]
    BY DEF MapOf
  <1>4. \A k \in Keys : MapOf(mem, u)[k] # NULL => \E n \in u : mem[n].key = k
    BY <1>1
  <1> QED
    BY <1>1, <1>2, <1>3, <1>4 DEF Holds

\* The invariant gives the map its entries; the successor and the node it
\* replaces agree.
LEMMA MapFacts ==
  ASSUME IInv
  PROVE  /\ Holds(nodes, used, Map) /\ Map = MapOf(nodes, used)
         /\ \A k \in Keys : (\A n \in used : nodes[n].key # k) => Map[k] = NULL
  <1>1. TypeInv
    BY DEF IInv
  <1>2. /\ nodes \in Memory /\ used \in SUBSET Blocks /\ path \in Seq(Blocks) /\ at \in Pointers
        /\ key \in Keys
    BY <1>1 DEF TypeInv
  <1>3. PICK mem, lo, hi : Shape(mem, lo, hi)
    BY DEF IInv
  <1>4. Placed(mem, used, lo, hi) /\ Ordered(mem, lo)
    BY <1>3 DEF Shape
  <1>5. Agree(nodes, used)
    <2>1. CASE mem = Now
      <3>1. \A n \in Blocks : mem[n].key = nodes[n].key /\ mem[n].value = nodes[n].value
        <4>1. CASE Up /\ path # <<>>
          <5>1. PICK t : t = Last(path)
            OBVIOUS
          <5>2. t \in Blocks
            BY <1>2, <4>1, <5>1, PathFront
          <5>3. mem = LinkedIn(nodes, key, t, at)
            BY <2>1, <4>1, <5>1 DEF Now, Linked, LinkedIn
          <5>4. /\ \A n \in Blocks : n # t => mem[n] = nodes[n]
                /\ mem[t].key = nodes[t].key /\ mem[t].value = nodes[t].value
            BY <1>2, <5>2, <5>3, LinkedFields
          <5> QED
            BY <5>4
        <4>2. CASE ~(Up /\ path # <<>>)
          BY <2>1, <4>2 DEF Now
        <4> QED
          BY <4>1, <4>2
      <3> QED
        BY <1>2, <1>4, <3>1, Distinct DEF Agree
    <2>2. ASSUME NEW d \in used, NEW old \in Keys, Pending(mem, lo, d, old)
          PROVE  Agree(nodes, used)
      <3>1. nodes[d].key = key /\ mem = [nodes EXCEPT ![d].key = old]
        BY <2>2 DEF Pending
      <3>2. PICK s \in used : s # d /\ nodes[s].key = key /\ nodes[s].value = nodes[d].value
        BY <2>2 DEF Pending
      <3>3. \A n \in used : n # d => mem[n] = nodes[n]
        BY <1>2, <3>1 DEF Memory
      <3>4. \A m, n \in used : m # d /\ n # d /\ nodes[m].key = nodes[n].key => m = n
        BY <1>4, <3>3, Distinct
      <3>5. \A n \in used : n # d /\ nodes[n].key = key => n = s
        BY <3>2, <3>4
      <3> QED
        BY <3>1, <3>2, <3>4, <3>5 DEF Agree
    <2> QED
      BY <1>4, <2>1, <2>2 DEF Ordered
  <1>6. \A n \in used : nodes[n].key \in Keys
    BY <1>2, Fields
  <1>7. Map = MapOf(nodes, used)
    BY DEF Map, MapOf, Present
  <1> QED
    BY <1>5, <1>6, <1>7, MapHolds

\* The next map, from its entries.
LEMMA NextMap ==
  ASSUME NEW f, Holds(nodes', used', f)
  PROVE  Map' = f
  <1>1. Map' = MapOf(nodes', used')
    BY DEF Map, MapOf, Present
  <1> QED
    BY <1>1, MapIs

\* A step that leaves the keys and values alone.
LEMMA SameMap ==
  ASSUME IInv, used' = used,
         \A n \in used : nodes'[n].key = nodes[n].key /\ nodes'[n].value = nodes[n].value
  PROVE  Map' = Map
  <1>1. Holds(nodes, used, Map)
    BY MapFacts
  <1>2. Holds(nodes', used', Map)
    <2> HIDE DEF Map
    <2> QED
      BY <1>1 DEF Holds
  <1> QED
    BY <1>2, NextMap

\* What is left to take effect of the call that runs, before and after a step.
LEMMA AskedIs ==
  /\ doing \in {"none", "inserted", "removed", "fault"} => Asked = Abstract!Idle
  /\ doing = "get" => Asked = Abstract!Request("get", key, NULL)
  /\ doing = "insert" => Asked = Abstract!Request("insert", key, value)
  /\ doing \in {"remove", "minimum"} =>
       Asked = IF Replacing THEN Abstract!Idle ELSE Abstract!Request("remove", key, NULL)
  BY DEF Asked, Abstract!Idle, Abstract!Request

LEMMA AskedNext ==
  /\ doing' \in {"none", "inserted", "removed", "fault"} => Asked' = Abstract!Idle
  /\ doing' = "get" => Asked' = Abstract!Request("get", key', NULL)
  /\ doing' = "insert" => Asked' = Abstract!Request("insert", key', value')
  /\ doing' \in {"remove", "minimum"} =>
       Asked' = IF Replacing' THEN Abstract!Idle ELSE Abstract!Request("remove", key', NULL)
  BY DEF Asked, Abstract!Idle, Abstract!Request

\* No key is there twice but while a successor replaces a node.
LEMMA OneNode ==
  ASSUME IInv, NEW mem, NEW lo, NEW hi, Shape(mem, lo, hi), mem = nodes
  PROVE  /\ ~Replacing
         /\ \A m, n \in used : nodes[m].key = nodes[n].key => m = n
  <1>1. Placed(nodes, used, lo, hi)
    BY DEF Shape
  <1>2. \A m, n \in used : nodes[m].key = nodes[n].key => m = n
    BY <1>1, Distinct
  <1> QED
    BY <1>2 DEF Replacing

\* Of the two nodes with key, one in the way of the other, at goes; with one
\* only, the entry of key goes.
LEMMA RemovedMap ==
  ASSUME IInv, doing = "remove", Here, NEW mem, NEW lo, NEW hi, Shape(mem, lo, hi),
         \A n \in used' : \E j \in used \ {at} :
           nodes'[n].key = nodes[j].key /\ nodes'[n].value = nodes[j].value,
         \A j \in used \ {at} : \E n \in used' : nodes'[n].key = nodes[j].key
  PROVE  Map' = IF Replacing THEN Map ELSE [Map EXCEPT ![key] = NULL]
  <1>1. /\ TypeInv /\ Placed(mem, used, lo, hi) /\ at \in used /\ mem[at].key = key
        /\ key \in Keys
        /\ mem = nodes \/ \E d \in used : Twin(mem, hi, d)
    BY FoundFacts
  <1>2. Holds(nodes, used, Map)
    BY MapFacts
  <1>3. CASE mem = nodes
    <2>1. PICK f : f = [Map EXCEPT ![key] = NULL]
      OBVIOUS
    <2>2. \A j \in used \ {at} : nodes[j].key # key
      BY <1>1, <1>3, Distinct
    <2>3. /\ Map = [k \in Keys |-> Map[k]]
          /\ \A n \in used : nodes[n].key \in Keys /\ Map[nodes[n].key] = nodes[n].value
          /\ \A k \in Keys : Map[k] # NULL => \E n \in used : nodes[n].key = k
      BY <1>2 DEF Holds
    <2>4. /\ f = [k \in Keys |-> f[k]] /\ f[key] = NULL
          /\ \A k \in Keys : k # key => f[k] = Map[k]
      <3> HIDE DEF Map
      <3> QED
        BY <1>1, <2>1, <2>3
    <2>5. \A n \in used' : nodes'[n].key \in Keys /\ f[nodes'[n].key] = nodes'[n].value
      BY <2>2, <2>3, <2>4
    <2>6. ASSUME NEW k \in Keys, f[k] # NULL
          PROVE  \E n \in used' : nodes'[n].key = k
      <3>1. k # key /\ Map[k] # NULL
        BY <2>4, <2>6
      <3>2. PICK j \in used : nodes[j].key = k
        BY <2>3, <3>1
      <3>3. j # at
        BY <1>1, <1>3, <3>1, <3>2
      <3> QED
        BY <3>2, <3>3
    <2>7. Holds(nodes', used', f)
      BY <2>4, <2>5, <2>6 DEF Holds
    <2>8. ~Replacing
      BY <1>3, OneNode
    <2>9. Map' = f
      BY <2>7, NextMap
    <2> HIDE DEF Map
    <2> QED
      BY <2>1, <2>8, <2>9
  <1>4. ASSUME NEW d \in used, Twin(mem, hi, d)
        PROVE  Map' = IF Replacing THEN Map ELSE [Map EXCEPT ![key] = NULL]
    <2>1. d # at /\ nodes[d].key = key
      BY <1>4 DEF Twin
    <2>2. nodes[at].key = key
      BY DEF Here
    <2>3. /\ Map = [k \in Keys |-> Map[k]]
          /\ \A n \in used : nodes[n].key \in Keys /\ Map[nodes[n].key] = nodes[n].value
          /\ \A k \in Keys : Map[k] # NULL => \E n \in used : nodes[n].key = k
      BY <1>2 DEF Holds
    <2> HIDE DEF Map
    <2>4. \A n \in used' : nodes'[n].key \in Keys /\ Map[nodes'[n].key] = nodes'[n].value
      BY <2>3
    <2>5. ASSUME NEW k \in Keys, Map[k] # NULL
          PROVE  \E n \in used' : nodes'[n].key = k
      <3>1. PICK j \in used : nodes[j].key = k
        BY <2>3, <2>5
      <3>2. PICK i \in used \ {at} : nodes[i].key = k
        BY <2>1, <2>2, <3>1
      <3> QED
        BY <3>2
    <2>6. Holds(nodes', used', Map)
      BY <2>3, <2>4, <2>5 DEF Holds
    <2>7. Map' = Map
      BY <2>6, NextMap
    <2>8. Replacing
      BY <1>1, <2>1, <2>2 DEF Replacing
    <2> QED
      BY <2>7, <2>8
  <1> QED
    BY <1>1, <1>3, <1>4

LEMMA UnlinkMap ==
  ASSUME IInv, Unlink
  PROVE  Map' = IF Replacing THEN Map ELSE [Map EXCEPT ![key] = NULL]
  <1>1. PICK mem, lo, hi : Shape(mem, lo, hi)
    BY DEF IInv
  <1>2. /\ doing = "remove" /\ doing' = "removed"
        /\ UNCHANGED <<tree, key, value, path, steps>>
    BY DEF Unlink
  <1>3. CASE Absent
    <2>1. Map' = Map /\ at = NULL
      BY <1>3, SameMap DEF Absent
    <2>2. TypeInv /\ ~Up
      BY <1>2 DEF IInv, Up
    <2>3. mem = nodes
      BY <1>1, <2>1, <2>2, Down DEF Pending
    <2>4. \A n \in used : nodes[n].key # key
      BY <1>1, <1>2, <2>1, <2>3 DEF Shape, AtInv
    <2>5. key \in Keys /\ ~Replacing
      BY <2>2, <2>4 DEF TypeInv, Replacing
    <2>6. Map[key] = NULL /\ Map = [k \in Keys |-> Map[k]]
      BY <2>4, <2>5, MapFacts DEF Holds
    <2> HIDE DEF Map
    <2>7. [Map EXCEPT ![key] = NULL] = Map
      BY <2>5, <2>6
    <2> QED
      BY <2>1, <2>5, <2>7
  <1>4. CASE Leaf
    <2>1. Here /\ used' = used \ {at} /\ nodes' = nodes
      BY <1>4 DEF Leaf
    <2> QED
      BY <1>1, <1>2, <2>1, RemovedMap
  <1>5. CASE Single
    <2>1. PICK c : c = IF nodes[at].left = NULL THEN nodes[at].right ELSE nodes[at].left
      OBVIOUS
    <2>2. /\ used' = used \ {c} /\ c \in used /\ c # at
          /\ \A n \in used' : n # at =>
               nodes'[n].key = nodes[n].key /\ nodes'[n].value = nodes[n].value
          /\ nodes'[at].key = nodes[c].key /\ nodes'[at].value = nodes[c].value
      BY <1>2, <1>5, <2>1, SingleIInv
    <2>3. Here /\ at \in used
      BY <1>1, <1>2, <1>5, FoundFacts DEF Single
    <2>4. ASSUME NEW n \in used'
          PROVE  \E j \in used \ {at} :
                   nodes'[n].key = nodes[j].key /\ nodes'[n].value = nodes[j].value
      BY <2>2, <2>4
    <2>5. ASSUME NEW j \in used \ {at}
          PROVE  \E n \in used' : nodes'[n].key = nodes[j].key
      <3>1. CASE j = c
        BY <2>2, <2>3, <3>1
      <3>2. CASE j # c
        BY <2>2, <2>5, <3>2
      <3> QED
        BY <3>1, <3>2
    <2> QED
      BY <1>1, <1>2, <2>3, <2>4, <2>5, RemovedMap
  <1> QED
    BY <1>3, <1>4, <1>5 DEF Unlink

LEMMA PlaceMap ==
  ASSUME IInv, Place
  PROVE  Map' = IF Map[key] = NULL THEN [Map EXCEPT ![key] = value] ELSE Map
  <1>1. /\ doing = "insert" /\ doing' = "inserted"
        /\ UNCHANGED <<tree, key, value, path, steps>>
    BY DEF Place
  <1>2. ASSUME at = NULL, NEW b \in Blocks \ used,
               nodes' = [nodes EXCEPT ![b] = avl_new(key, value)], used' = used \cup {b}, at' = b
        PROVE  /\ key \in Keys /\ value \in Values /\ Map[key] = NULL
               /\ Map' = [Map EXCEPT ![key] = value]
    <2>1. /\ nodes'[b].key = key /\ nodes'[b].value = value /\ value \in Values
          /\ \A n \in used : nodes'[n] = nodes[n] /\ nodes[n].key # key
      BY <1>1, <1>2, PutIInv
    <2>2. key \in Keys
      BY DEF IInv, TypeInv
    <2>3. /\ Map = [k \in Keys |-> Map[k]]
          /\ \A n \in used : nodes[n].key \in Keys /\ Map[nodes[n].key] = nodes[n].value
          /\ \A k \in Keys : Map[k] # NULL => \E n \in used : nodes[n].key = k
      BY MapFacts DEF Holds
    <2>4. Map[key] = NULL
      BY <2>1, <2>2, MapFacts
    <2>5. PICK f : f = [Map EXCEPT ![key] = value]
      OBVIOUS
    <2> HIDE DEF Map
    <2>6. /\ f = [k \in Keys |-> f[k]] /\ f[key] = value
          /\ \A k \in Keys : k # key => f[k] = Map[k]
      BY <2>2, <2>3, <2>5
    <2>7. \A n \in used' : nodes'[n].key \in Keys /\ f[nodes'[n].key] = nodes'[n].value
      BY <1>2, <2>1, <2>2, <2>3, <2>6
    <2>8. \A k \in Keys : f[k] # NULL => \E n \in used' : nodes'[n].key = k
      BY <1>2, <2>1, <2>3, <2>6
    <2>9. Holds(nodes', used', f)
      BY <2>6, <2>7, <2>8 DEF Holds
    <2> QED
      BY <2>1, <2>2, <2>4, <2>5, <2>9, NextMap
  <1>3. CASE Here /\ UNCHANGED <<nodes, used, at>>
    <2>1. PICK mem, lo, hi : Shape(mem, lo, hi)
      BY DEF IInv
    <2>2. TypeInv /\ ValueInv /\ ~Up
      BY <1>1 DEF IInv, Up
    <2>3. mem = nodes
      BY <1>1, <2>1, <2>2, Down
    <2>4. at \in used /\ nodes[at].key = key
      BY <1>1, <1>3, <2>1, <2>3 DEF Shape, AtInv, Here
    <2>5. Map[key] = nodes[at].value
      BY <2>4, MapFacts DEF Holds
    <2>6. Map[key] # NULL
      BY <2>2, <2>4, <2>5, AvlAssumption DEF ValueInv
    <2>7. Map' = Map
      BY <1>3, SameMap
    <2> HIDE DEF Map
    <2> QED
      BY <2>6, <2>7
  <1>4. CASE /\ at = NULL
             /\ \E b \in Blocks \ used :
                  /\ nodes' = [nodes EXCEPT ![b] = avl_new(key, value)]
                  /\ used' = used \cup {b}
                  /\ at' = b
    <2>1. Map[key] = NULL /\ Map' = [Map EXCEPT ![key] = value]
      <3> HIDE DEF Map
      <3> QED
        BY <1>2, <1>4
    <2> HIDE DEF Map
    <2> QED
      BY <2>1
  <1> QED
    BY <1>3, <1>4 DEF Place

\* The copy of the successor takes the entry of the removed key away.
LEMMA CopyMap ==
  ASSUME IInv, doing = "minimum", nodes[at].left = NULL,
         NEW t, t = Last(path), Copied(t, nodes[at])
  PROVE  ~Replacing /\ Replacing' /\ Map' = [Map EXCEPT ![key] = NULL]
  <1>1. doing = "minimum" /\ ~Up /\ used' = used
    BY DEF Up, Copied
  <1>2. PICK mem, lo, hi : Shape(mem, lo, hi)
    BY DEF IInv
  <1>3. mem = nodes
    BY <1>1, <1>2, Down DEF IInv
  <1>4. /\ t \in used /\ at \in used /\ at # t /\ nodes[t].key = key
        /\ key < nodes[at].key /\ nodes[at].key \in Keys
        /\ \A n \in Blocks \ {t} : nodes'[n] = nodes[n]
        /\ nodes'[t].key = nodes[at].key /\ nodes'[t].value = nodes[at].value
    BY <1>1, <1>2, <1>3, CopyFacts
  <1>5. key \in Keys /\ key \in Int /\ nodes[at].key \in Int /\ used \in SUBSET Blocks
    <2>1. key \in Keys /\ used \in SUBSET Blocks
      BY DEF IInv, TypeInv
    <2>2. Keys \subseteq Int
      BY AvlAssumption
    <2> QED
      BY <1>4, <2>1, <2>2
  <1>6. \A n \in used : n # t => nodes[n].key # key
    <2>1. Placed(nodes, used, lo, hi)
      BY <1>2, <1>3 DEF Shape
    <2> QED
      BY <1>4, <2>1, Distinct
  <1>7. /\ Map = [k \in Keys |-> Map[k]]
        /\ \A n \in used : nodes[n].key \in Keys /\ Map[nodes[n].key] = nodes[n].value
        /\ \A k \in Keys : Map[k] # NULL => \E n \in used : nodes[n].key = k
    BY MapFacts DEF Holds
  <1>8. PICK f : f = [Map EXCEPT ![key] = NULL]
    OBVIOUS
  <1> HIDE DEF Map
  <1>9. /\ f = [k \in Keys |-> f[k]] /\ f[key] = NULL
        /\ \A k \in Keys : k # key => f[k] = Map[k]
    BY <1>5, <1>7, <1>8
  <1>10. nodes[at].key # key
    BY <1>4, <1>5
  <1>11. \A n \in used : n # t => nodes'[n] = nodes[n]
    BY <1>4, <1>5
  <1>12. \A n \in used' : nodes'[n].key \in Keys /\ f[nodes'[n].key] = nodes'[n].value
    <2> SUFFICES ASSUME NEW n \in used
                 PROVE  nodes'[n].key \in Keys /\ f[nodes'[n].key] = nodes'[n].value
      BY <1>1
    <2>1. CASE n = t
      BY <1>4, <1>7, <1>9, <1>10, <2>1
    <2>2. CASE n # t
      BY <1>6, <1>7, <1>9, <1>11, <2>2
    <2> QED
      BY <2>1, <2>2
  <1>13. ASSUME NEW k \in Keys, f[k] # NULL
         PROVE  \E n \in used' : nodes'[n].key = k
    <2>1. k # key /\ Map[k] # NULL
      BY <1>9, <1>13
    <2>2. PICK n \in used : nodes[n].key = k
      BY <1>7, <2>1
    <2>3. n # t
      BY <1>4, <2>1, <2>2
    <2> QED
      BY <1>1, <1>11, <2>2, <2>3
  <1>14. Holds(nodes', used', f)
    BY <1>9, <1>12, <1>13 DEF Holds
  <1>15. ~Replacing
    BY <1>2, <1>3, OneNode
  <1>16. Replacing'
    <2>1. key' = nodes[at].key
      BY DEF Copied
    <2>2. nodes'[at] = nodes[at]
      BY <1>4, <1>11
    <2> QED
      BY <1>1, <1>4, <2>1, <2>2 DEF Replacing
  <1> QED
    BY <1>8, <1>14, <1>15, <1>16, NextMap

\* avl_get returns the entry of its key.
LEMMA SearchMap ==
  ASSUME IInv, Search, at = NULL \/ Here
  PROVE  Map' = Map /\ got' = Map[key] /\ doing' = "none"
  <1>1. Map' = Map
    BY SameMap DEF Search
  <1>2. PICK mem, lo, hi : Shape(mem, lo, hi)
    BY DEF IInv
  <1>3. TypeInv /\ ~Up /\ doing = "get"
    BY DEF IInv, Search, Up
  <1>4. mem = nodes
    BY <1>2, <1>3, Down
  <1>5. IF at = NULL THEN \A n \in used : nodes[n].key # key ELSE at \in used
    BY <1>2, <1>3, <1>4 DEF Shape, AtInv
  <1>6. key \in Keys
    BY <1>3 DEF TypeInv
  <1>7. CASE at = NULL
    <2>1. Map[key] = NULL
      BY <1>5, <1>6, <1>7, MapFacts
    <2> HIDE DEF Map
    <2> QED
      BY <1>1, <1>6, <1>7, <2>1 DEF Search
  <1>8. CASE at # NULL /\ Here
    <2>1. Map[key] = nodes[at].value
      BY <1>5, <1>8, MapFacts DEF Holds, Here
    <2> HIDE DEF Map
    <2> QED
      BY <1>1, <1>6, <1>8, <2>1 DEF Search
  <1> QED
    BY <1>7, <1>8

\* A step on the way down or back, and one of no call, changes no entry and
\* answers nothing.
LEMMA QuietStep ==
  ASSUME IInv, used' = used, got' = got,
         \A n \in used : nodes'[n].key = nodes[n].key /\ nodes'[n].value = nodes[n].value,
         \/ /\ doing \in {"none", "inserted", "removed", "fault"}
            /\ doing' \in {"none", "inserted", "removed", "fault"}
         \/ UNCHANGED <<doing, key, value>>
         \/ doing = "remove" /\ doing' = "minimum" /\ UNCHANGED <<key, value>>
  PROVE  UNCHANGED <<Map, got, Asked>>
  <1>1. Map' = Map
    BY SameMap
  <1>2. CASE /\ doing \in {"none", "inserted", "removed", "fault"}
             /\ doing' \in {"none", "inserted", "removed", "fault"}
    <2>1. Asked = Abstract!Idle /\ Asked' = Abstract!Idle
      BY <1>2, AskedIs, AskedNext
    <2> HIDE DEF Map, Asked
    <2> QED
      BY <1>1, <2>1
  <1>3. CASE UNCHANGED <<key, value>>
    <2>1. Replacing' = Replacing
      <3>1. Replacing' <=> Replacing
        BY <1>3 DEF Replacing
      <3>2. Replacing \in BOOLEAN /\ Replacing' \in BOOLEAN
        BY DEF Replacing
      <3> QED
        BY <3>1, <3>2
    <2>2. Asked' = Asked
      <3>1. doing' = doing \/ (doing = "remove" /\ doing' = "minimum")
            \/ (/\ doing \in {"none", "inserted", "removed", "fault"}
                /\ doing' \in {"none", "inserted", "removed", "fault"})
        OBVIOUS
      <3> HIDE DEF Replacing
      <3> QED
        BY <1>3, <2>1, <3>1 DEF Asked
    <2> HIDE DEF Map, Asked
    <2> QED
      BY <1>1, <2>2
  <1> QED
    BY <1>2, <1>3

\* A call that is made is a request for the entry of its key.
LEMMA CallAsks ==
  ASSUME IInv, NEW op \in {"get", "insert", "remove"}, NEW k \in Keys, NEW v,
         op # "insert" => v = NULL, Call(op, k, v)
  PROVE  Abstract!Ask(op, k, v)
  <1>1. doing = "none" /\ doing' = op /\ key' = k /\ value' = v
        /\ UNCHANGED <<nodes, used, got>>
    BY DEF Call
  <1>2. Map' = Map
    BY <1>1, SameMap
  <1>3. ~Replacing'
    <2>1. PICK mem, lo, hi : Shape(mem, lo, hi)
      BY DEF IInv
    <2>2. mem = nodes
      BY <1>1, <2>1, Down DEF IInv, Up
    <2>3. \A m, n \in used : nodes[m].key = nodes[n].key => m = n
      BY <2>1, <2>2, OneNode
    <2> QED
      BY <1>1, <2>3 DEF Replacing
  <1>4. Asked = Abstract!Idle
    BY <1>1, AskedIs
  <1>5. Asked' = Abstract!Request(op, k, v)
    <2> HIDE DEF Replacing, Asked, Abstract!Request, Abstract!Idle
    <2> QED
      BY <1>1, <1>3, AskedNext
  <1> HIDE DEF Map, Asked
  <1> QED
    BY <1>1, <1>2, <1>4, <1>5 DEF Abstract!Ask

\* The copy of the successor, or the step that frees a node, is the removal.
LEMMA RemoveTakesEffect ==
  ASSUME IInv, Unlink \/ Minimum
  PROVE  Abstract!Remove(key) \/ UNCHANGED <<Map, got, Asked>>
  <1>1. got' = got
    BY DEF Unlink, Minimum
  <1>2. CASE Unlink
    <2>1. Map' = IF Replacing THEN Map ELSE [Map EXCEPT ![key] = NULL]
      BY <1>2, UnlinkMap
    <2>2. doing = "remove" /\ doing' = "removed"
      BY <1>2 DEF Unlink
    <2>3. /\ Asked = IF Replacing THEN Abstract!Idle ELSE Abstract!Request("remove", key, NULL)
          /\ Asked' = Abstract!Idle
      BY <2>2, AskedIs, AskedNext
    <2> HIDE DEF Map, Asked, Replacing
    <2> QED
      BY <1>1, <2>1, <2>3 DEF Abstract!Remove, Abstract!Answer
  <1>3. CASE /\ doing = "minimum"
             /\ UNCHANGED <<nodes, key, doing>>
             /\ UNCHANGED <<tree, used, got, value, path>>
    BY <1>3, QuietStep
  <1>4. CASE doing = "minimum" /\ nodes[at].left = NULL /\ Copied(Last(path), nodes[at])
    <2>1. ~Replacing /\ Replacing' /\ Map' = [Map EXCEPT ![key] = NULL]
      BY <1>4, CopyMap
    <2>2. doing' = "remove"
      BY <1>4 DEF Copied
    <2>3. Asked = Abstract!Request("remove", key, NULL) /\ Asked' = Abstract!Idle
      BY <1>4, <2>1, <2>2, AskedIs, AskedNext
    <2> HIDE DEF Map, Asked, Replacing
    <2> QED
      BY <1>1, <2>1, <2>3 DEF Abstract!Remove, Abstract!Answer
  <1> QED
    BY <1>2, <1>3, <1>4 DEF Minimum, Copied

\* avltree.c is a map: every call, with its rotations and the replacement of a
\* removed inner node by its successor, takes effect once, on the entry of the
\* key it was called with and on no other, and a lookup returns that entry.
THEOREM TreeImplementsMap == Spec => ImplementsMap
  <1>1. Init => Abstract!Init
    <2> SUFFICES ASSUME Init
                 PROVE  Abstract!Init
      OBVIOUS
    <2>1. used = {} /\ got = NULL /\ doing = "none"
      BY DEF Init
    <2>2. Map = [k \in Keys |-> NULL]
      BY <2>1 DEF Map, Present
    <2>3. Asked = Abstract!Idle
      BY <2>1, AskedIs
    <2> HIDE DEF Map, Asked
    <2> QED
      BY <2>1, <2>2, <2>3 DEF Abstract!Init
  <1>2. ASSUME IInv, [Next]_vars
        PROVE  [Abstract!Next]_<<Map, got, Asked>>
    <2>1. key \in Keys /\ TypeInv /\ ValueInv
      BY <1>2 DEF IInv, TypeInv
    <2>2. CASE avl_insert
      <3>1. PICK b \in Bindings : Call("insert", b[1], b[2])
        BY <2>2 DEF avl_insert
      <3>2. b[1] \in Keys /\ b[2] \in Values
        BY AvlAssumption
      <3>3. Abstract!Ask("insert", b[1], b[2])
        BY <1>2, <3>1, <3>2, CallAsks
      <3> QED
        BY <3>2, <3>3 DEF Abstract!Next
    <2>3. CASE avl_remove
      <3>1. PICK k \in Keys : Call("remove", k, NULL)
        BY <2>3 DEF avl_remove
      <3>2. Abstract!Ask("remove", k, NULL)
        BY <1>2, <3>1, CallAsks
      <3> QED
        BY <3>2 DEF Abstract!Next
    <2>4. CASE avl_get
      <3>1. PICK k \in Keys : Call("get", k, NULL)
        BY <2>4 DEF avl_get
      <3>2. Abstract!Ask("get", k, NULL)
        BY <1>2, <3>1, CallAsks
      <3> QED
        BY <3>2 DEF Abstract!Next
    <2>5. CASE Descend \/ Inner \/ Fault \/ Return
      <3>1. UNCHANGED <<Map, got, Asked>>
        BY <1>2, <2>5, QuietStep DEF Descend, Inner, Fault, Return
      <3> QED
        BY <3>1
    <2>6. CASE UNCHANGED vars
      <3>1. UNCHANGED <<Map, got, Asked>>
        BY <1>2, <2>6, QuietStep DEF vars
      <3> QED
        BY <3>1
    <2>7. CASE Back
      <3>1. got' = got /\ used' = used /\ UNCHANGED <<doing, key, value>>
        BY <2>7 DEF Back
      <3>2. UNCHANGED <<Map, got, Asked>>
        BY <1>2, <2>7, <3>1, BackIInv, QuietStep
      <3> QED
        BY <3>2
    <2>8. CASE Search /\ at # NULL /\ ~Here
      <3>1. UNCHANGED <<Map, got, Asked>>
        BY <1>2, <2>8, QuietStep DEF Search
      <3> QED
        BY <3>1
    <2>9. CASE Search /\ (at = NULL \/ Here)
      <3>1. Map' = Map /\ got' = Map[key] /\ doing = "get" /\ doing' = "none"
        BY <1>2, <2>9, SearchMap DEF Search
      <3>2. Asked = Abstract!Request("get", key, NULL) /\ Asked' = Abstract!Idle
        BY <3>1, AskedIs, AskedNext
      <3> HIDE DEF Map, Asked
      <3> QED
        BY <2>1, <3>1, <3>2 DEF Abstract!Next, Abstract!Get, Abstract!Answer
    <2>10. CASE Place
      <3>1. Map' = IF Map[key] = NULL THEN [Map EXCEPT ![key] = value] ELSE Map
        BY <1>2, <2>10, PlaceMap
      <3>2. got' = got /\ doing = "insert" /\ doing' = "inserted"
        BY <2>10 DEF Place
      <3>3. Asked = Abstract!Request("insert", key, value) /\ Asked' = Abstract!Idle
        BY <3>2, AskedIs, AskedNext
      <3>4. value \in Values
        BY <2>1, <3>2 DEF ValueInv
      <3> HIDE DEF Map, Asked
      <3> QED
        BY <2>1, <3>1, <3>2, <3>3, <3>4 DEF Abstract!Next, Abstract!Insert, Abstract!Answer
    <2>11. CASE Unlink \/ Minimum
      <3>1. Abstract!Remove(key) \/ UNCHANGED <<Map, got, Asked>>
        BY <1>2, <2>11, RemoveTakesEffect
      <3> QED
        BY <2>1, <3>1 DEF Abstract!Next
    <2> QED
      BY <1>2, <2>2, <2>3, <2>4, <2>5, <2>6, <2>7, <2>8, <2>9, <2>10, <2>11
      DEF Next, Stopped, Search
  <1> QED
    BY <1>1, <1>2, TreeInvariance, PTL DEF Spec, ImplementsMap, Abstract!Spec
=============================================================================
