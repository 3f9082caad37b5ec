------------------------ MODULE PriorityQueueProofs -------------------------
(***************************************************************************)
(* The array heap of PriorityQueue implements ReadyQueue, for every set of *)
(* values and priorities and every capacity.                               *)
(***************************************************************************)
EXTENDS PriorityQueue, FiniteSetTheorems, WellFoundedInduction, TLAPS

Nodes == [value : Values \cup {None}, priority : Prio]

Array == [0..Capacity - 1 -> Nodes]

TypeInv ==
  /\ queue \in [heap : Array, size : 0..Capacity, capacity : {Capacity}]
  /\ doing \in {"none", "insert", "heapify"}
  /\ i \in 0..Capacity - 1
  /\ node \in Nodes
  /\ ordered \in BOOLEAN

\* Where the loops are.  The node that heapify moves down is still in the
\* array behind the ones in use, so that the comparison with an index that is
\* not in use compares the node with itself.
StageInv ==
  /\ doing = "none" => i = 0
  /\ doing = "insert" => i < queue.size
  /\ doing = "heapify" => /\ queue.size < Capacity
                          /\ i <= queue.size
                          /\ queue.heap[i] = queue.heap[queue.size]

\* The values in use are pointers, each there once.
Distinct(array, size) ==
  \A j, k \in 0..size - 1 :
    /\ array[j].value \in Values
    /\ array[j].value = array[k].value => j = k

\* Unless a removal left a node too far down, a parent has no higher priority
\* number than its child, except where the node being moved may be out of
\* place: below the parent of the hole in insert, above the children of the
\* node in heapify.
Loose(k) ==
  \/ doing = "insert" /\ k = i
  \/ doing = "heapify" /\ ParentOf(k) = i

EdgeInv ==
  ordered => \A k \in 1..queue.size - 1 :
               Loose(k) \/ Filled[ParentOf(k)].priority <= Filled[k].priority

\* Past the node being moved the order holds.
BridgeInv ==
  ordered /\ i > 0 => \A k \in 1..queue.size - 1 :
    ParentOf(k) = i => Filled[ParentOf(i)].priority <= Filled[k].priority

PInv == TypeInv /\ StageInv /\ Distinct(Filled, queue.size) /\ EdgeInv /\ BridgeInv

-----------------------------------------------------------------------------
(***************************************************************************)
(* Indices and arrays                                                      *)
(***************************************************************************)

LEMMA ParentFacts ==
  ASSUME NEW k \in Nat, k > 0
  PROVE  /\ ParentOf(k) \in Nat
         /\ ParentOf(k) < k
         /\ \A j \in Nat : ParentOf(k) = j <=> k = 2 * j + 1 \/ k = 2 * j + 2
BY DEF ParentOf

\* In an array that is ordered throughout, the root has a lowest priority.
LEMMA RootIsLowest ==
  ASSUME NEW array \in Array, NEW size \in 1..Capacity, NEW n \in 0..size - 1,
         \A k \in 1..size - 1 : array[ParentOf(k)].priority <= array[k].priority
  PROVE  array[0].priority <= array[n].priority
<1> DEFINE p == [k \in 0..size - 1 |-> array[k].priority]
           above == {k \in 0..size - 1 : ~(p[0] <= p[k])}
<1>1. p \in [0..size - 1 -> Int]
  <2>1. \A k \in 0..size - 1 : array[k] \in Nodes
    BY PriorityQueueAssumption DEF Array
  <2> QED
    BY <2>1, PriorityQueueAssumption DEF Nodes
<1>2. \A k \in 1..size - 1 : p[ParentOf(k)] <= p[k]
  BY ParentFacts
<1> HIDE DEF p
<1>3. ASSUME above # {}
      PROVE  FALSE
  <2>1. above \subseteq Nat
    OBVIOUS
  <2>2. PICK k \in above : \A j \in above : ~(<<j, k>> \in OpToRel(<, Nat))
    BY ONLY <1>3, <2>1, NatLessThanWellFounded, WFMin
  <2>3. \A j \in above : ~(j < k)
    BY <2>1, <2>2 DEF OpToRel
  <2>4. k \in 0..size - 1 /\ ~(p[0] <= p[k])
    OBVIOUS
  <2>5. k # 0
    BY <1>1, <2>4
  <2>6. ParentOf(k) \in 0..size - 1 /\ ParentOf(k) < k
    BY <2>4, <2>5, ParentFacts
  <2>7. p[0] <= p[ParentOf(k)]
    BY <2>3, <2>6
  <2> QED
    BY <1>1, <1>2, <2>4, <2>5, <2>6, <2>7
<1>4. p[0] <= p[n]
  BY <1>3
<1> QED
  BY <1>4 DEF p

LEMMA SameArray ==
  ASSUME NEW x \in Array, NEW y \in Array, \A k \in 0..Capacity - 1 : x[k] = y[k]
  PROVE  x = y
<1> DEFINE S == 0..Capacity - 1
<1>1. x \in [S -> Nodes] /\ y \in [S -> Nodes] /\ \A k \in S : x[k] = y[k]
  BY DEF Array
<1> HIDE DEF S
<1> QED
  BY <1>1

Exchange(array, a, b) == [array EXCEPT ![a] = array[b], ![b] = array[a]]

LEMMA ExchangeAt ==
  ASSUME NEW array \in Array, NEW a \in 0..Capacity - 1, NEW b \in 0..Capacity - 1
  PROVE  /\ Exchange(array, a, b) \in Array
         /\ Exchange(array, a, b)[a] = array[b]
         /\ Exchange(array, a, b)[b] = array[a]
         /\ \A k \in 0..Capacity - 1 :
              k # a /\ k # b => Exchange(array, a, b)[k] = array[k]
BY DEF Exchange, Array

\* Moving the hole at a to b exchanges what fills it with what was at b.
LEMMA HoleMoves ==
  ASSUME NEW heap \in Array, NEW a \in 0..Capacity - 1, NEW b \in 0..Capacity - 1,
         a # b, NEW new \in Nodes
  PROVE  LET filled == [heap EXCEPT ![a] = new]
             moved == [heap EXCEPT ![a] = heap[b]]
         IN /\ [moved EXCEPT ![b] = new] = Exchange(filled, a, b)
            /\ filled[a] = new
            /\ filled[b] = heap[b]
<1> DEFINE filled == [heap EXCEPT ![a] = new]
           moved == [heap EXCEPT ![a] = heap[b]]
<1>1. filled \in Array /\ moved \in Array /\ filled[a] = new /\ filled[b] = heap[b]
  BY DEF Array
<1>2. \A k \in 0..Capacity - 1 : moved[k] = IF k = a THEN heap[b] ELSE heap[k]
  BY DEF Array
<1>3. \A k \in 0..Capacity - 1 : filled[k] = IF k = a THEN new ELSE heap[k]
  BY DEF Array
<1> HIDE DEF filled, moved
<1>4. /\ Exchange(filled, a, b) \in Array
      /\ Exchange(filled, a, b)[a] = filled[b]
      /\ Exchange(filled, a, b)[b] = filled[a]
      /\ \A k \in 0..Capacity - 1 :
           k # a /\ k # b => Exchange(filled, a, b)[k] = filled[k]
  BY <1>1, ExchangeAt
<1>5. /\ [moved EXCEPT ![b] = new] \in Array
      /\ [moved EXCEPT ![b] = new][b] = new
      /\ \A k \in 0..Capacity - 1 : k # b => [moved EXCEPT ![b] = new][k] = moved[k]
  BY <1>1 DEF Array
<1> DEFINE x == Exchange(filled, a, b)
           y == [moved EXCEPT ![b] = new]
<1>6. /\ x \in Array /\ y \in Array /\ x[a] = heap[b] /\ x[b] = new
      /\ \A k \in 0..Capacity - 1 : k # a /\ k # b => x[k] = heap[k]
  BY <1>1, <1>3, <1>4, <1>5
<1>7. y[b] = new /\ \A k \in 0..Capacity - 1 : k # b => y[k] = moved[k]
  BY <1>5
<1> HIDE DEF x, y
<1>8. y[a] = heap[b] /\ \A k \in 0..Capacity - 1 : k # a /\ k # b => y[k] = heap[k]
  BY <1>2, <1>7
<1>9. \A k \in 0..Capacity - 1 : x[k] = y[k]
  BY <1>6, <1>7, <1>8
<1>10. x = y
  BY <1>6, <1>9, SameArray
<1> QED
  BY <1>1, <1>10 DEF filled, moved, x, y

LEMMA ExchangeDistinct ==
  ASSUME NEW array \in Array, NEW size \in 0..Capacity, Distinct(array, size),
         NEW a \in 0..size - 1, NEW b \in 0..size - 1
  PROVE  Distinct(Exchange(array, a, b), size)
<1>1. Capacity \in Nat
  BY PriorityQueueAssumption
<1>2. /\ Exchange(array, a, b)[a] = array[b]
      /\ Exchange(array, a, b)[b] = array[a]
      /\ \A k \in 0..size - 1 : k # a /\ k # b => Exchange(array, a, b)[k] = array[k]
  BY <1>1, ExchangeAt
<1> QED
  BY <1>2 DEF Distinct

-----------------------------------------------------------------------------
(***************************************************************************)
(* The invariant                                                           *)
(***************************************************************************)

LEMMA Types ==
  ASSUME TypeInv
  PROVE  /\ queue.heap \in Array
         /\ queue.size \in 0..Capacity
         /\ queue.capacity = Capacity
         /\ Capacity \in Nat \ {0}
         /\ Filled \in Array
BY PriorityQueueAssumption DEF TypeInv, Filled, Array

LEMMA PriorityIsInt ==
  ASSUME NEW array \in Array, NEW k \in 0..Capacity - 1
  PROVE  array[k].priority \in Int
<1>1. array[k] \in Nodes
  BY DEF Array
<1> QED
  BY <1>1, PriorityQueueAssumption DEF Nodes

LEMMA GarbageIsNode == Garbage \in Nodes
<1>1. (CHOOSE p \in Prio : TRUE) \in Prio
  BY PriorityQueueAssumption
<1> QED
  BY <1>1 DEF Garbage, Node, Nodes

LEMMA InitPInv ==
  ASSUME Init
  PROVE  PInv
<1>1. Capacity \in Nat \ {0}
  BY PriorityQueueAssumption
<1>2. queue = [heap |-> [k \in 0..Capacity - 1 |-> Garbage], size |-> 0,
               capacity |-> Capacity]
  BY DEF Init, construct_priority_queue
<1>3. TypeInv
  BY <1>1, <1>2, GarbageIsNode DEF Init, TypeInv, Array
<1>4. queue.size = 0 /\ doing = "none" /\ i = 0
  BY <1>2 DEF Init
<1>5. StageInv /\ EdgeInv /\ BridgeInv
  BY <1>4 DEF StageInv, EdgeInv, BridgeInv
<1>6. Distinct(Filled, queue.size)
  BY <1>4 DEF Distinct
<1> QED
  BY <1>3, <1>5, <1>6 DEF PInv

LEMMA InsertStep ==
  ASSUME PInv, NEW value \in Values, NEW priority \in Prio, Insert(value, priority),
         queue.size # queue.capacity
  PROVE  /\ queue.size < Capacity
         /\ Filled' = [Filled EXCEPT ![queue.size] = Node(value, priority)]
         /\ PInv'
<1> DEFINE n == queue.size
           new == Node(value, priority)
<1>1. /\ queue.heap \in Array /\ n \in 0..Capacity - 1 /\ Capacity \in Nat \ {0}
      /\ Filled \in Array
  BY Types DEF PInv
<1>2. new \in Nodes /\ new.value = value
  BY DEF Node, Nodes
<1>3. /\ doing = "none"
      /\ queue'.size = n + 1 /\ queue'.heap = queue.heap /\ queue'.capacity = Capacity
      /\ doing' = "insert" /\ i' = n /\ node' = new /\ ordered' = ordered
  BY Types DEF Insert, vars, PInv, TypeInv
<1>4. queue' \in [heap : Array, size : 0..Capacity, capacity : {Capacity}]
  BY <1>1, <1>3 DEF Insert, vars, PInv, TypeInv
<1>5. TypeInv'
  BY <1>1, <1>2, <1>3, <1>4 DEF PInv, TypeInv
<1>6. Filled' = [Filled EXCEPT ![n] = new] /\ Filled = queue.heap
  BY <1>3 DEF Filled
<1>7. \A k \in 0..Capacity - 1 : Filled'[k] = IF k = n THEN new ELSE Filled[k]
  BY <1>1, <1>6 DEF Array
<1>8. StageInv'
  BY <1>1, <1>3 DEF StageInv
<1>9. Distinct(Filled', n + 1)
  <2>1. \A k \in 0..n - 1 : Filled[k].value # value
    BY DEF Insert, Contents, Indices
  <2> QED
    BY <1>1, <1>2, <1>7, <2>1 DEF PInv, Distinct
<1>10. ASSUME ordered, NEW k \in 1..n
       PROVE  Loose(k)' \/ Filled'[ParentOf(k)].priority <= Filled'[k].priority
  <2>1. CASE k = n
    BY <1>3, <2>1 DEF Loose
  <2>2. CASE k # n
    <3>1. ParentOf(k) \in 0..n - 1 /\ k \in 1..n - 1
      BY <1>1, <2>2, ParentFacts
    <3>2. Filled[ParentOf(k)].priority <= Filled[k].priority
      BY <1>3, <1>10, <3>1 DEF PInv, EdgeInv, Loose
    <3> QED
      BY <1>1, <1>7, <3>1, <3>2
  <2> QED
    BY <2>1, <2>2
<1>11. ASSUME NEW k \in 1..n, ParentOf(k) = n
       PROVE  FALSE
  BY <1>1, <1>11, ParentFacts
<1>12. EdgeInv' /\ BridgeInv'
  BY <1>1, <1>3, <1>10, <1>11 DEF EdgeInv, BridgeInv
<1> QED
  BY <1>1, <1>3, <1>5, <1>6, <1>8, <1>9, <1>12 DEF PInv

LEMMA RiseStep ==
  ASSUME PInv, Rise
  PROVE  /\ ParentOf(i) \in 0..queue.size - 1 /\ i \in 0..queue.size - 1
         /\ Filled' = Exchange(Filled, i, ParentOf(i)) /\ queue'.size = queue.size
         /\ PInv'
<1> DEFINE n == queue.size
           p == ParentOf(i)
<1>1. /\ queue.heap \in Array /\ n \in 0..Capacity /\ Capacity \in Nat \ {0}
      /\ Filled \in Array /\ node \in Nodes
  BY Types DEF PInv, TypeInv
<1>2. /\ doing = "insert" /\ i \in 1..n - 1
      /\ queue.heap[p].priority > node.priority
      /\ queue'.size = n /\ queue'.heap = [queue.heap EXCEPT ![i] = queue.heap[p]]
      /\ doing' = "insert" /\ i' = p /\ node' = node /\ ordered' = ordered
  BY DEF Rise, Rises, ParentDown, PInv, StageInv, TypeInv
<1>3. p \in 0..n - 1 /\ p < i
  BY <1>1, <1>2, ParentFacts
<1>4. TypeInv'
  BY <1>1, <1>2, <1>3 DEF Rise, ParentDown, PInv, TypeInv, Array
<1>5. StageInv'
  BY <1>1, <1>2, <1>3 DEF StageInv
<1>6. Filled' = Exchange(Filled, i, p) /\ Filled[i] = node /\ Filled[p] = queue.heap[p]
  <2>1. Filled = [queue.heap EXCEPT ![i] = node]
    BY <1>2 DEF Filled
  <2>2. Filled' = [queue'.heap EXCEPT ![p] = node]
    BY <1>2 DEF Filled
  <2>3. i \in 0..Capacity - 1 /\ p \in 0..Capacity - 1
    BY <1>1, <1>2, <1>3
  <2> QED
    BY <1>1, <1>2, <1>3, <2>1, <2>2, <2>3, HoleMoves
<1>7. i \in 0..Capacity - 1 /\ p \in 0..Capacity - 1 /\ 0..n - 1 \subseteq 0..Capacity - 1
  BY <1>1, <1>2, <1>3
<1>8. /\ Filled'[i] = Filled[p]
      /\ Filled'[p] = Filled[i]
      /\ \A k \in 0..n - 1 : k # i /\ k # p => Filled'[k] = Filled[k]
  <2>1. /\ Filled \in Array /\ i \in 0..Capacity - 1 /\ p \in 0..Capacity - 1
        /\ Filled' = Exchange(Filled, i, p)
    BY <1>1, <1>6, <1>7
  <2>2. /\ Filled'[i] = Filled[p]
        /\ Filled'[p] = Filled[i]
        /\ \A k \in 0..Capacity - 1 : k # i /\ k # p => Filled'[k] = Filled[k]
    BY ONLY <2>1, ExchangeAt
  <2> QED
    BY <1>7, <2>2
<1>9. Distinct(Filled', n)
  BY <1>1, <1>2, <1>3, <1>6, ExchangeDistinct DEF PInv
<1>10. Filled[p].priority > Filled[i].priority
  BY <1>2, <1>6
<1>11. \A k \in 0..n - 1 : Filled[k].priority \in Int
  BY <1>1, PriorityIsInt
<1>12. ordered => \A k \in 1..n - 1 :
         k # i => Filled[ParentOf(k)].priority <= Filled[k].priority
  BY <1>2 DEF PInv, EdgeInv, Loose
<1>13. ordered => \A k \in 1..n - 1 :
         ParentOf(k) = i => Filled[p].priority <= Filled[k].priority
  BY <1>2 DEF PInv, BridgeInv
<1>14. ASSUME ordered, NEW k \in 1..n - 1, k # p
       PROVE  Filled'[ParentOf(k)].priority <= Filled'[k].priority
  <2>1. ParentOf(k) \in 0..n - 1 /\ ParentOf(k) < k
    BY <1>1, ParentFacts
  <2> QED
    BY <1>2, <1>3, <1>8, <1>10, <1>11, <1>12, <1>13, <1>14, <2>1
<1>15. ASSUME ordered, p > 0, NEW k \in 1..n - 1, ParentOf(k) = p
       PROVE  Filled'[ParentOf(p)].priority <= Filled'[k].priority
  <2>1. ParentOf(p) \in 0..n - 1 /\ ParentOf(p) < p /\ p < k
    BY <1>1, <1>3, <1>15, ParentFacts
  <2>2. Filled[ParentOf(p)].priority <= Filled[p].priority
    BY <1>3, <1>12, <1>15
  <2> QED
    BY <1>2, <1>3, <1>8, <1>10, <1>11, <1>12, <1>13, <1>15, <2>1, <2>2
<1>16. EdgeInv' /\ BridgeInv'
  BY <1>2, <1>14, <1>15 DEF EdgeInv, BridgeInv, Loose
<1> QED
  BY <1>2, <1>3, <1>4, <1>5, <1>6, <1>9, <1>16 DEF PInv

LEMMA PlaceStep ==
  ASSUME PInv, Place
  PROVE  Filled' = Filled /\ queue'.size = queue.size /\ PInv'
<1> DEFINE n == queue.size
<1>1. /\ queue.heap \in Array /\ n \in 0..Capacity /\ Capacity \in Nat \ {0}
      /\ Filled \in Array /\ node \in Nodes
  BY Types DEF PInv, TypeInv
<1>2. /\ doing = "insert" /\ i \in 0..n - 1
      /\ queue' = [queue EXCEPT !.heap[i] = node]
      /\ doing' = "none" /\ i' = 0 /\ node' = Garbage /\ ordered' = ordered
  BY DEF Place, Store, Return, PInv, StageInv, TypeInv
<1>3. queue'.size = n /\ queue'.heap = [queue.heap EXCEPT ![i] = node]
  BY <1>2 DEF PInv, TypeInv
<1>4. Filled' = Filled
  BY <1>2, <1>3 DEF Filled
<1>5. TypeInv'
  <2>1. [queue.heap EXCEPT ![i] = node] \in Array
    BY <1>1 DEF Array
  <2>2. queue' \in [heap : Array, size : 0..Capacity, capacity : {Capacity}]
    BY <1>2, <2>1 DEF PInv, TypeInv
  <2> QED
    BY <1>1, <1>2, <2>2, GarbageIsNode DEF PInv, TypeInv
<1>6. StageInv' /\ BridgeInv'
  BY <1>2 DEF StageInv, BridgeInv
<1>7. ASSUME ordered, NEW k \in 1..n - 1
      PROVE  Filled[ParentOf(k)].priority <= Filled[k].priority
  <2>1. CASE k # i
    BY <1>2, <1>7, <2>1 DEF PInv, EdgeInv, Loose
  <2>2. CASE k = i
    <3>1. ParentOf(i) \in 0..n - 1 /\ ParentOf(i) # i /\ ParentOf(i) \in 0..Capacity - 1
      BY <1>1, <2>2, ParentFacts
    <3>2. Filled[i] = node /\ Filled[ParentOf(i)] = queue.heap[ParentOf(i)]
      BY <1>1, <1>2, <3>1 DEF Filled, Array
    <3>3. ~(queue.heap[ParentOf(i)].priority > node.priority)
      BY <1>2, <2>2 DEF Place, Rises
    <3>4. Filled[i].priority \in Int /\ Filled[ParentOf(i)].priority \in Int
      BY <1>1, <1>2, <3>1, PriorityIsInt
    <3> QED
      BY <2>2, <3>2, <3>3, <3>4
  <2> QED
    BY <2>1, <2>2
<1>8. EdgeInv'
  BY <1>2, <1>3, <1>4, <1>7 DEF EdgeInv
<1> QED
  BY <1>3, <1>4, <1>5, <1>6, <1>8 DEF PInv

LEMMA ReplaceStep ==
  ASSUME PInv, doing = "none", NEW k \in Indices(queue), Replace(k)
  PROVE  /\ queue.size \in 1..Capacity
         /\ Filled' = [Filled EXCEPT ![k] = Filled[queue.size - 1]]
         /\ queue'.size = queue.size - 1
         /\ PInv'
<1> DEFINE n == queue.size
           F == Filled
           G == [Filled EXCEPT ![k] = Filled[n - 1]]
<1>1. /\ n \in 1..Capacity /\ k \in 0..n - 1 /\ Capacity \in Nat \ {0}
      /\ F \in Array /\ F = queue.heap
  BY Types DEF PInv, Indices, Filled
<1>2. /\ queue' = [queue EXCEPT !.size = n - 1, !.heap[k] = queue.heap[n - 1]]
      /\ doing' = "heapify" /\ i' = k /\ node' = node
      /\ ordered' = ((ordered /\ InPlace(k)) \/ n = 1)
  BY DEF Replace, Shrunk
<1>3. queue'.size = n - 1 /\ queue'.heap = G /\ queue'.capacity = Capacity
  BY <1>1, <1>2, Types DEF PInv, TypeInv
<1>4. Filled' = G
  BY <1>2, <1>3 DEF Filled
<1>5. /\ G \in Array
      /\ G[k] = F[n - 1]
      /\ \A j \in 0..n - 1 : j # k => G[j] = F[j]
  <2>1. k \in 0..Capacity - 1 /\ n - 1 \in 0..Capacity - 1 /\ 0..n - 1 \subseteq 0..Capacity - 1
    BY <1>1
  <2> QED
    BY <1>1, <2>1 DEF Array
<1>6. queue' \in [heap : Array, size : 0..Capacity, capacity : {Capacity}]
  <2>1. n - 1 \in 0..Capacity
    BY <1>1
  <2>2. queue' = [heap |-> G, size |-> n - 1, capacity |-> Capacity]
    BY <1>1, <1>2, Types DEF PInv, TypeInv
  <2> HIDE DEF G
  <2> QED
    BY <1>5, <2>1, <2>2
<1>7. TypeInv'
  BY <1>1, <1>2, <1>6 DEF PInv, TypeInv
<1> HIDE DEF F, G
<1>8. StageInv'
  <2>1. G[k] = G[n - 1] /\ k <= n - 1 /\ n - 1 < Capacity
    BY <1>1, <1>5
  <2> QED
    BY <1>2, <1>3, <2>1 DEF StageInv
<1>9. Distinct(G, n - 1)
  <2>1. Distinct(F, n)
    BY DEF PInv, F
  <2> QED
    BY <1>1, <1>5, <2>1 DEF Distinct
<1>10. \A j \in 0..n - 1 : F[j].priority \in Int
  BY <1>1, PriorityIsInt
<1>11. ordered => \A j \in 1..n - 1 : F[ParentOf(j)].priority <= F[j].priority
  BY <1>1 DEF PInv, EdgeInv, Loose, F
<1>12. InPlace(k) => k = 0 \/ F[ParentOf(k)].priority <= F[n - 1].priority
  BY <1>1 DEF InPlace
<1>13. ASSUME ordered, InPlace(k), NEW j \in 1..n - 2, ParentOf(j) # k
       PROVE  G[ParentOf(j)].priority <= G[j].priority
  <2>1. ParentOf(j) \in 0..n - 1 /\ j \in 0..n - 1 /\ n - 1 \in 0..n - 1
    BY <1>1, ParentFacts
  <2> QED
    BY <1>1, <1>5, <1>10, <1>11, <1>12, <1>13, <2>1
<1>14. ASSUME ordered, k > 0, NEW j \in 1..n - 2, ParentOf(j) = k
       PROVE  G[ParentOf(k)].priority <= G[j].priority
  <2>1. ParentOf(k) \in 0..n - 1 /\ j \in 0..n - 1 /\ n - 1 \in 0..n - 1
    BY <1>1, <1>14, ParentFacts
  <2>2. G[ParentOf(k)] = F[ParentOf(k)] /\ G[j] = F[j] /\ k \in 1..n - 1
    BY <1>1, <1>5, <1>14, <2>1, ParentFacts
  <2>3. F[ParentOf(k)].priority <= F[k].priority /\ F[k].priority <= F[j].priority
    BY <1>11, <1>14, <2>1, <2>2
  <2> QED
    BY <1>10, <2>1, <2>2, <2>3
<1>15. EdgeInv' /\ BridgeInv'
  <2>1. 1..queue'.size - 1 = 1..n - 2
    BY <1>1, <1>3
  <2>2. ordered' => (ordered /\ InPlace(k)) \/ 1..n - 2 = {}
    <3>1. n = 1 => 1..n - 2 = {}
      OBVIOUS
    <3>2. ordered' => (ordered /\ InPlace(k)) \/ n = 1
      BY ONLY <1>2, Zenon
    <3> QED
      BY ONLY <3>1, <3>2, Zenon
  <2> QED
    BY <1>2, <1>4, <1>13, <1>14, <2>1, <2>2 DEF EdgeInv, BridgeInv, Loose
<1> QED
  BY <1>1, <1>3, <1>4, <1>7, <1>8, <1>9, <1>15 DEF PInv, G

\* What heapify finds at i: two children at least as high, or one to exchange,
\* which is lowest.  The index size counts as a child with the same node.
LEMMA ExchangedIs ==
  ASSUME PInv, doing = "heapify"
  PROVE  LET n == queue.size
             c == Exchanged(queue, i)
         IN \/ /\ c = i
               /\ \A k \in 1..n - 1 :
                    ParentOf(k) = i => Filled[i].priority <= Filled[k].priority
            \/ /\ c \in 1..n /\ ParentOf(c) = i /\ i < c /\ c \in 0..Capacity - 1
               /\ Filled[c].priority <= Filled[i].priority
               /\ \A k \in 1..n - 1 :
                    ParentOf(k) = i => Filled[c].priority <= Filled[k].priority
<1> DEFINE n == queue.size
           l == i * 2 + 1
           r == i * 2 + 2
           p == [k \in 0..n |-> Filled[k].priority]
<1>1. /\ Filled \in Array /\ n \in 0..Capacity - 1 /\ i \in 0..n /\ Capacity \in Nat
      /\ Filled = queue.heap
  BY Types DEF PInv, TypeInv, StageInv, Filled
<1>2. p \in [0..n -> Int] /\ \A k \in 0..n : p[k] = queue.heap[k].priority
  BY <1>1, PriorityIsInt
<1>3. \A k \in Nat : k > 0 => (ParentOf(k) = i <=> k = l \/ k = r)
  BY <1>1, ParentFacts
<1>4. CASE l >= n
  <2>1. Exchanged(queue, i) = i
    BY <1>4 DEF Exchanged
  <2>2. \A k \in 1..n - 1 : ParentOf(k) # i
    BY <1>1, <1>3, <1>4
  <2> QED
    BY <2>1, <2>2
<1>5. CASE l < n
  <2>1. l \in 1..n /\ r \in 1..n /\ i \in 0..n /\ i < l /\ i < r
    BY <1>1, <1>5
  <2>2. ~(l >= n)
    BY <1>1, <1>5
  <2>3. Exchanged(queue, i) =
          IF p[l] <= p[i] /\ p[l] <= p[r] THEN l
          ELSE IF p[r] <= p[i] /\ p[r] <= p[l] THEN r ELSE i
    BY <1>1, <2>1, <2>2 DEF Exchanged
  <2>4. p[i] \in Int /\ p[l] \in Int /\ p[r] \in Int
    BY <1>2, <2>1
  <2> HIDE DEF p
  <2>5. \/ /\ Exchanged(queue, i) = i
           /\ p[i] <= p[l] /\ p[i] <= p[r]
        \/ /\ Exchanged(queue, i) \in {l, r}
           /\ p[Exchanged(queue, i)] <= p[i]
           /\ p[Exchanged(queue, i)] <= p[l] /\ p[Exchanged(queue, i)] <= p[r]
    BY <2>3, <2>4
  <2>6. \A k \in 1..n - 1 : ParentOf(k) = i => k = l \/ k = r
    BY <1>1, <1>3
  <2>7. \A k \in {l, r} : /\ k \in 1..n /\ ParentOf(k) = i /\ i < k
                          /\ k \in 0..Capacity - 1
    BY <1>1, <1>3, <2>1
  <2>8. \A k \in 0..n : p[k] = Filled[k].priority
    BY DEF p
  <2> HIDE DEF l, r
  <2> QED
    BY <1>1, <2>1, <2>5, <2>6, <2>7, <2>8
<1> QED
  BY <1>1, <1>4, <1>5

LEMMA HeapifyStep ==
  ASSUME PInv, heapify
  PROVE  /\ queue'.size = queue.size
         /\ \/ Filled' = Filled
            \/ \E a, b \in 0..queue.size - 1 : Filled' = Exchange(Filled, a, b)
         /\ PInv'
<1> DEFINE n == queue.size
           F == Filled
           c == Exchanged(queue, i)
<1>1. /\ doing = "heapify" /\ F \in Array /\ F = queue.heap
      /\ n \in 0..Capacity - 1 /\ i \in 0..n /\ Capacity \in Nat \ {0}
      /\ F[i] = F[n] /\ i \in 0..Capacity - 1 /\ ordered' = ordered
  BY Types DEF heapify, PInv, TypeInv, StageInv, Filled
<1>2. ordered => \A k \in 1..n - 1 :
        ParentOf(k) # i => F[ParentOf(k)].priority <= F[k].priority
  BY <1>1 DEF PInv, EdgeInv, Loose
<1>3. ordered /\ i > 0 => \A k \in 1..n - 1 :
        ParentOf(k) = i => F[ParentOf(i)].priority <= F[k].priority
  BY DEF PInv, BridgeInv
<1>4. CASE c = i
  <2>1. UNCHANGED queue /\ doing' = "none" /\ i' = 0 /\ node' = Garbage
    BY <1>4 DEF heapify, Return
  <2>2. Filled' = Filled
    BY <1>1, <2>1 DEF Filled
  <2>3. TypeInv'
    BY <1>1, <2>1, GarbageIsNode DEF PInv, TypeInv
  <2>4. StageInv' /\ BridgeInv' /\ Distinct(Filled', queue'.size)
    BY <2>1, <2>2 DEF StageInv, BridgeInv, PInv
  <2>5. \A k \in 1..n - 1 : ParentOf(k) = i => F[i].priority <= F[k].priority
    <3>1. ASSUME c \in 1..n, i < c PROVE FALSE
      BY <1>1, <1>4, <3>1
    <3> HIDE DEF c
    <3> QED
      BY <1>1, <3>1, ExchangedIs DEF c
  <2>6. EdgeInv'
    <3>1. ordered => \A k \in 1..n - 1 : F[ParentOf(k)].priority <= F[k].priority
      BY <1>2, <2>5
    <3> QED
      BY <1>1, <2>1, <2>2, <3>1 DEF EdgeInv
  <2> QED
    BY <2>1, <2>2, <2>3, <2>4, <2>6 DEF PInv
<1>5. CASE c # i
  <2>1. /\ queue' = [queue EXCEPT !.heap[i] = queue.heap[c], !.heap[c] = queue.heap[i]]
        /\ doing' = "heapify" /\ i' = c /\ node' = node
    BY <1>1, <1>5 DEF heapify, Swap
  <2>2. /\ c \in 1..n /\ ParentOf(c) = i /\ i < c /\ c \in 0..Capacity - 1
        /\ F[c].priority <= F[i].priority
        /\ \A k \in 1..n - 1 : ParentOf(k) = i => F[c].priority <= F[k].priority
    BY <1>1, <1>5, ExchangedIs
  <2> HIDE DEF c
  <2>3. queue'.size = n /\ queue'.heap = Exchange(F, i, c)
    BY <1>1, <2>1 DEF Exchange, PInv, TypeInv
  <2>4. Filled' = Exchange(F, i, c)
    BY <2>1, <2>3 DEF Filled
  <2> DEFINE G == Exchange(F, i, c)
  <2>5. /\ G \in Array /\ G[i] = F[c] /\ G[c] = F[i]
        /\ \A k \in 0..Capacity - 1 : k # i /\ k # c => G[k] = F[k]
    <3> HIDE DEF F
    <3> QED
      BY <1>1, <2>2, ExchangeAt
  <2>6. TypeInv'
    <3>1. queue' \in [heap : Array, size : 0..Capacity, capacity : {Capacity}]
      BY <2>1, <2>3, <2>5 DEF PInv, TypeInv
    <3> QED
      BY <1>1, <2>1, <2>2, <3>1 DEF PInv, TypeInv
  <2> HIDE DEF F, G
  <2>7. G[c] = G[n]
    BY <1>1, <2>2, <2>5
  <2>8. StageInv'
    <3>1. queue'.heap = G /\ queue'.size = n /\ i' = c /\ doing' = "heapify"
      BY <2>1, <2>3 DEF G
    <3>2. n < Capacity /\ c <= n
      BY <1>1, <2>2
    <3> QED
      BY <2>7, <3>1, <3>2 DEF StageInv
  <2>9. \A k \in 0..n : F[k].priority \in Int
    BY <1>1, PriorityIsInt
  <2>10. ASSUME ordered, NEW k \in 1..n - 1, ParentOf(k) # c
         PROVE  G[ParentOf(k)].priority <= G[k].priority
    <3>1. ParentOf(k) \in 0..n - 1 /\ ParentOf(k) < k /\ k \in 0..Capacity - 1
      BY <1>1, ParentFacts
    <3>2. CASE k = i
      <4>1. G[ParentOf(k)] = F[ParentOf(k)] /\ G[k] = F[c]
        BY <1>1, <2>2, <2>5, <3>1, <3>2
      <4>2. CASE c < n
        <5>1. i > 0 /\ c \in 1..n - 1
          BY <1>1, <2>2, <3>2, <4>2
        <5>2. F[ParentOf(i)].priority <= F[c].priority
          BY <1>3, <2>2, <2>10, <5>1
        <5> QED
          BY <3>2, <4>1, <5>2
      <4>3. CASE c = n
        BY <1>1, <1>2, <2>2, <2>10, <3>1, <3>2, <4>1, <4>3
      <4> QED
        BY <1>1, <2>2, <4>2, <4>3
    <3>3. CASE k = c
      BY <1>1, <2>2, <2>5, <3>3
    <3>4. CASE k # i /\ k # c /\ ParentOf(k) = i
      <4>1. G[ParentOf(k)] = F[c] /\ G[k] = F[k]
        BY <2>5, <3>1, <3>4
      <4> QED
        BY <2>2, <3>4, <4>1
    <3>5. CASE k # i /\ k # c /\ ParentOf(k) # i
      <4>1. G[ParentOf(k)] = F[ParentOf(k)] /\ G[k] = F[k]
        BY <1>1, <2>5, <2>10, <3>1, <3>5
      <4> QED
        BY <1>2, <2>10, <3>5, <4>1
    <3> QED
      BY <3>2, <3>3, <3>4, <3>5
  <2>11. ASSUME ordered, NEW k \in 1..n - 1, ParentOf(k) = c
         PROVE  G[ParentOf(c)].priority <= G[k].priority
    <3>1. c < k /\ k \in 0..Capacity - 1
      BY <1>1, <2>2, <2>11, ParentFacts
    <3>2. G[ParentOf(c)] = F[c] /\ G[k] = F[k]
      BY <1>1, <2>2, <2>5, <3>1
    <3>3. F[c].priority <= F[k].priority
      BY <1>2, <2>2, <2>11
    <3> QED
      BY <3>2, <3>3
  <2>12. EdgeInv' /\ BridgeInv'
    <3>1. Filled' = G
      BY <2>4 DEF G
    <3> QED
      BY <1>1, <2>1, <2>3, <2>10, <2>11, <3>1 DEF EdgeInv, BridgeInv, Loose
  <2>13. CASE c < n
    <3>1. i \in 0..n - 1 /\ c \in 0..n - 1
      BY <1>1, <2>2, <2>13
    <3>2. Distinct(Filled', n)
      BY <1>1, <2>4, <3>1, ExchangeDistinct DEF PInv, F
    <3> QED
      BY <2>3, <2>4, <2>6, <2>8, <2>12, <3>1, <3>2 DEF PInv, F
  <2>14. CASE c = n
    <3>1. \A k \in 0..Capacity - 1 : G[k] = F[k]
      BY <1>1, <2>5, <2>14
    <3>2. Filled' = F
      BY <1>1, <2>4, <2>5, <3>1, SameArray DEF G
    <3> QED
      BY <2>3, <2>6, <2>8, <2>12, <3>2 DEF PInv, F
  <2> QED
    BY <1>1, <2>2, <2>13, <2>14
<1> QED
  BY <1>4, <1>5

LEMMA Preserved ==
  ASSUME PInv, [Next]_vars
  PROVE  PInv'
<1>1. CASE UNCHANGED vars
  BY <1>1 DEF vars, PInv, TypeInv, StageInv, Distinct, EdgeInv, BridgeInv, Loose, Filled
<1>2. ASSUME NEW value \in Values, NEW priority \in Prio, Insert(value, priority)
      PROVE  PInv'
  <2>1. CASE queue.size = queue.capacity
    BY <1>1, <1>2, <2>1 DEF Insert
  <2> QED
    BY <1>2, <2>1, InsertStep
<1>3. ASSUME ExtractMin
      PROVE  PInv'
  <2>1. CASE queue.size = 0 /\ UNCHANGED <<queue, doing, i, node, ordered>>
    BY <2>1 DEF PInv, TypeInv, StageInv, Distinct, EdgeInv, BridgeInv, Loose, Filled
  <2>2. CASE queue.size # 0 /\ Replace(0)
    <3>1. 0 \in Indices(queue)
      BY <2>2, Types DEF PInv, Indices
    <3> QED
      BY <1>3, <2>2, <3>1, ReplaceStep DEF ExtractMin
  <2> QED
    BY <1>3, <2>1, <2>2 DEF ExtractMin
<1>4. ASSUME NEW value \in Values, Remove(value)
      PROVE  PInv'
  <2>1. CASE UNCHANGED <<queue, doing, i, node, ordered>>
    BY <2>1 DEF PInv, TypeInv, StageInv, Distinct, EdgeInv, BridgeInv, Loose, Filled
  <2>2. CASE \E k \in Indices(queue) : Replace(k)
    BY <1>4, <2>2, ReplaceStep DEF Remove
  <2> QED
    BY <1>4, <2>1, <2>2 DEF Remove
<1> QED
  BY <1>1, <1>2, <1>3, <1>4, RiseStep, PlaceStep, HeapifyStep DEF Next

\* At every step of every call the array holds each value once and, unless a
\* removal left a node too far down, is ordered but for the node being moved.
THEOREM PInvariance == Spec => []PInv
BY InitPInv, Preserved, PTL DEF Spec
-----------------------------------------------------------------------------
(***************************************************************************)
(* What the queue holds                                                    *)
(***************************************************************************)

Held(array, size) == {array[k].value : k \in 0..size - 1}

Meaning(array, size) ==
  [v \in Values |->
     IF v \in Held(array, size)
     THEN array[CHOOSE k \in 0..size - 1 : array[k].value = v].priority
     ELSE None]

LEMMA ItemsMeaning ==
  /\ Items = Meaning(Filled, queue.size)
  /\ Items' = Meaning(Filled', queue'.size)
BY DEF Items, Meaning, Held, Contents, PriorityOf, Indices

LEMMA MeaningIs ==
  ASSUME NEW array, NEW size, Distinct(array, size)
  PROVE  /\ \A k \in 0..size - 1 :
              Meaning(array, size)[array[k].value] = array[k].priority
         /\ \A v \in Values \ Held(array, size) : Meaning(array, size)[v] = None
         /\ Held(array, size) \subseteq Values
<1>1. ASSUME NEW k \in 0..size - 1
      PROVE  Meaning(array, size)[array[k].value] = array[k].priority
  <2> DEFINE v == array[k].value
             j == CHOOSE m \in 0..size - 1 : array[m].value = v
  <2>1. v \in Values /\ v \in Held(array, size)
    BY DEF Distinct, Held
  <2>2. j \in 0..size - 1 /\ array[j].value = v
    OBVIOUS
  <2>3. j = k
    <3> HIDE DEF j
    <3> QED
      BY <2>2 DEF Distinct
  <2>4. Meaning(array, size)[v] = array[j].priority
    BY <2>1 DEF Meaning
  <2> QED
    BY <2>3, <2>4
<1> QED
  BY <1>1 DEF Meaning, Held, Distinct

\* A function that gives each value in the array its priority, and None to the
\* others, is what the array means.
LEMMA MeaningOnly ==
  ASSUME NEW array, NEW size, Distinct(array, size),
         NEW items \in [Values -> Prio \cup {None}],
         \A k \in 0..size - 1 : items[array[k].value] = array[k].priority,
         \A v \in Values \ Held(array, size) : items[v] = None
  PROVE  Meaning(array, size) = items
<1> DEFINE m == Meaning(array, size)
<1>1. \A v \in Values : m[v] = items[v]
  <2> SUFFICES ASSUME NEW v \in Values
               PROVE  m[v] = items[v]
    OBVIOUS
  <2>1. CASE v \in Held(array, size)
    BY <2>1, MeaningIs DEF Held
  <2>2. CASE v \notin Held(array, size)
    BY <2>2, MeaningIs
  <2> QED
    BY <2>1, <2>2
<1>2. m = [v \in Values |-> m[v]] /\ items = [v \in Values |-> items[v]]
  BY DEF Meaning
<1> HIDE DEF m
<1>3. m = items
  BY <1>1, <1>2
<1> QED
  BY <1>3 DEF m

LEMMA MeaningType ==
  ASSUME NEW array \in Array, NEW size \in 0..Capacity, Distinct(array, size)
  PROVE  /\ Meaning(array, size) \in [Values -> Prio \cup {None}]
         /\ \A v \in Values : Meaning(array, size)[v] # None <=> v \in Held(array, size)
<1>1. Capacity \in Nat /\ \A k \in 0..size - 1 : array[k] \in Nodes
  BY PriorityQueueAssumption DEF Array
<1>2. \A k \in 0..size - 1 : array[k].priority \in Prio
  BY <1>1 DEF Nodes
<1>3. \A v \in Held(array, size) : Meaning(array, size)[v] \in Prio
  BY <1>2, MeaningIs DEF Held
<1>4. \A v \in Values \ Held(array, size) : Meaning(array, size)[v] = None
  BY MeaningIs
<1>5. Meaning(array, size) = [v \in Values |-> Meaning(array, size)[v]]
  BY DEF Meaning
<1>6. \A v \in Values : Meaning(array, size)[v] \in Prio \cup {None}
  BY <1>3, <1>4
<1>7. Meaning(array, size) \in [Values -> Prio \cup {None}]
  BY <1>5, <1>6
<1> QED
  BY <1>3, <1>4, <1>7, PriorityQueueAssumption

LEMMA HeldSize ==
  ASSUME NEW array \in Array, NEW size \in 0..Capacity, Distinct(array, size)
  PROVE  Cardinality(Held(array, size)) = size
<1> DEFINE S == 0..size - 1
           H == Held(array, size)
           b == [k \in S |-> array[k].value]
<1>1. size \in Nat
  BY PriorityQueueAssumption
<1>2. IsFiniteSet(S) /\ Cardinality(S) = size
  BY <1>1, FS_Interval
<1>3. \A j, k \in S : array[j].value = array[k].value => j = k
  BY DEF Distinct
<1>4. H = {array[k].value : k \in S}
  BY DEF Held
<1> HIDE DEF S, H
<1>5. b \in [S -> H] /\ \A h \in H : \E k \in S : b[k] = h
  BY <1>4
<1>6. \A j, k \in S : b[j] = b[k] => j = k
  BY <1>3
<1> HIDE DEF b
<1>7. b \in Bijection(S, H)
  BY <1>5, <1>6 DEF Bijection, Injection, Surjection, IsInjective
<1>8. ExistsBijection(S, H)
  BY <1>7 DEF ExistsBijection
<1>9. Cardinality(H) = size
  BY <1>2, <1>8, FS_CardinalityType, FS_Bijection
<1> QED
  BY <1>9 DEF H

LEMMA ExchangeMeaning ==
  ASSUME NEW array \in Array, NEW size \in 0..Capacity, Distinct(array, size),
         NEW a \in 0..size - 1, NEW b \in 0..size - 1
  PROVE  Meaning(Exchange(array, a, b), size) = Meaning(array, size)
<1> DEFINE x == Exchange(array, a, b)
<1>1. /\ Capacity \in Nat /\ 0..size - 1 \subseteq 0..Capacity - 1
      /\ a \in 0..Capacity - 1 /\ b \in 0..Capacity - 1
  BY PriorityQueueAssumption
<1>2. /\ x[a] = array[b] /\ x[b] = array[a]
      /\ \A k \in 0..size - 1 : k # a /\ k # b => x[k] = array[k]
  BY <1>1, ExchangeAt
<1>3. Distinct(x, size)
  BY ExchangeDistinct
<1> HIDE DEF x
<1>4. \A k \in 0..size - 1 : \E j \in 0..size - 1 : x[k] = array[j]
  BY <1>2
<1>5. \A k \in 0..size - 1 : \E j \in 0..size - 1 : array[k] = x[j]
  BY <1>2
<1>6. Held(x, size) = Held(array, size)
  BY <1>4, <1>5 DEF Held
<1>7. \A k \in 0..size - 1 : Meaning(array, size)[x[k].value] = x[k].priority
  BY <1>4, MeaningIs
<1>8. \A v \in Values \ Held(x, size) : Meaning(array, size)[v] = None
  BY <1>6, MeaningIs
<1>9. Meaning(array, size) \in [Values -> Prio \cup {None}]
  BY MeaningType
<1> QED
  BY <1>3, <1>7, <1>8, <1>9, MeaningOnly DEF x

LEMMA InsertMeaning ==
  ASSUME NEW array \in Array, NEW size \in 0..Capacity - 1, Distinct(array, size),
         NEW value \in Values, value \notin Held(array, size), NEW priority \in Prio,
         NEW x, x[size] = Node(value, priority),
         \A k \in 0..size - 1 : x[k] = array[k],
         NEW more, more = size + 1, Distinct(x, more)
  PROVE  Meaning(x, more) = [Meaning(array, size) EXCEPT ![value] = priority]
<1> DEFINE old == Meaning(array, size)
           items == [old EXCEPT ![value] = priority]
<1>1. Capacity \in Nat /\ size \in Nat /\ size \in 0..Capacity
  BY PriorityQueueAssumption
<1>2. /\ x[size] = Node(value, priority)
      /\ \A k \in 0..size - 1 : x[k] = array[k]
  OBVIOUS
<1>3. Node(value, priority).value = value /\ Node(value, priority).priority = priority
  BY DEF Node
<1>4. /\ old \in [Values -> Prio \cup {None}]
      /\ \A k \in 0..size - 1 : old[array[k].value] = array[k].priority
      /\ \A v \in Values \ Held(array, size) : old[v] = None
      /\ \A k \in 0..size - 1 : /\ array[k].value \in Held(array, size)
                                /\ array[k].value \in Values
  BY <1>1, MeaningType, MeaningIs DEF Held
<1>5. Held(x, more) = Held(array, size) \cup {value}
  <2>1. 0..more - 1 = (0..size - 1) \cup {size}
    BY <1>1
  <2> QED
    BY <1>2, <1>3, <2>1 DEF Held
<1> HIDE DEF old
<1>6. /\ items \in [Values -> Prio \cup {None}] /\ items[value] = priority
      /\ \A v \in Values : v # value => items[v] = old[v]
  BY <1>4
<1> HIDE DEF items
<1>7. ASSUME NEW k \in 0..more - 1
      PROVE  items[x[k].value] = x[k].priority
  <2>1. CASE k = size
    BY <1>2, <1>3, <1>6, <2>1
  <2>2. CASE k # size
    <3>1. k \in 0..size - 1
      BY <1>1, <2>2
    <3> QED
      BY <1>2, <1>4, <1>6, <3>1
  <2> QED
    BY <2>1, <2>2
<1>8. \A v \in Values \ Held(x, more) : items[v] = None
  BY <1>4, <1>5, <1>6
<1>9. Meaning(x, more) = items
  BY ONLY Distinct(x, more), <1>6, <1>7, <1>8, MeaningOnly
<1> QED
  BY <1>9 DEF items, old

LEMMA ShrunkMeaning ==
  ASSUME NEW array \in Array, NEW size \in 1..Capacity, Distinct(array, size),
         NEW n \in 0..size - 1,
         NEW x, x[n] = array[size - 1],
         \A k \in 0..size - 1 : k # n => x[k] = array[k],
         NEW less, less = size - 1, Distinct(x, less)
  PROVE  Meaning(x, less) = [Meaning(array, size) EXCEPT ![array[n].value] = None]
<1> DEFINE old == Meaning(array, size)
           gone == array[n].value
           items == [old EXCEPT ![gone] = None]
<1>1. Capacity \in Nat /\ size \in Nat /\ size \in 0..Capacity
  BY PriorityQueueAssumption
<1>2. /\ x[n] = array[size - 1]
      /\ \A k \in 0..size - 1 : k # n => x[k] = array[k]
  OBVIOUS
<1>3. /\ old \in [Values -> Prio \cup {None}]
      /\ \A k \in 0..size - 1 : old[array[k].value] = array[k].priority
      /\ \A v \in Values \ Held(array, size) : old[v] = None
      /\ \A k \in 0..size - 1 : array[k].value \in Values
      /\ gone \in Values
  BY <1>1, MeaningType, MeaningIs DEF Distinct
<1>4. \A k \in 0..size - 1 : array[k].value = gone => k = n
  BY DEF Distinct
<1>5. ASSUME NEW k \in 0..less - 1
      PROVE  \E j \in 0..size - 1 : j # n /\ x[k] = array[j]
  <2>1. k \in 0..size - 1 /\ size - 1 \in 0..size - 1 /\ k # size - 1
    BY <1>1
  <2> QED
    BY <1>2, <2>1
<1>6. ASSUME NEW j \in 0..size - 1, j # n
      PROVE  \E k \in 0..less - 1 : array[j] = x[k]
  <2>1. CASE j # size - 1
    <3>1. j \in 0..less - 1
      BY <1>1, <2>1
    <3> QED
      BY <1>2, <1>6, <3>1
  <2>2. CASE j = size - 1
    <3>1. n \in 0..less - 1
      BY <1>1, <1>6, <2>2
    <3> QED
      BY <1>2, <2>2, <3>1
  <2> QED
    BY <2>1, <2>2
<1>7. \A v \in Held(array, size) : v = gone \/ v \in Held(x, less)
  BY <1>6 DEF Held
<1> HIDE DEF old
<1>8. /\ items \in [Values -> Prio \cup {None}] /\ items[gone] = None
      /\ \A v \in Values : v # gone => items[v] = old[v]
  BY <1>3
<1> HIDE DEF items
<1>9. \A k \in 0..less - 1 : items[x[k].value] = x[k].priority
  BY <1>3, <1>4, <1>5, <1>8
<1>10. \A v \in Values \ Held(x, less) : items[v] = None
  BY <1>3, <1>7, <1>8
<1>11. Meaning(x, less) = items
  BY ONLY Distinct(x, less), <1>8, <1>9, <1>10, MeaningOnly
<1> QED
  BY <1>11 DEF items, old
-----------------------------------------------------------------------------
(***************************************************************************)
(* The refinement                                                          *)
(***************************************************************************)

LEMMA AbstractHeld ==
  ASSUME PInv
  PROVE  /\ Abstract!Held = Held(Filled, queue.size)
         /\ Cardinality(Abstract!Held) = queue.size
         /\ \A k \in Indices(queue) : /\ Filled[k].value \in Abstract!Held
                                      /\ Items[Filled[k].value] = Filled[k].priority
<1>1. /\ Filled \in Array /\ queue.size \in 0..Capacity
      /\ Distinct(Filled, queue.size)
  BY Types DEF PInv
<1>2. Items = Meaning(Filled, queue.size)
  BY ItemsMeaning
<1>3. Held(Filled, queue.size) \subseteq Values
  BY <1>1, MeaningIs
<1>4. \A v \in Values : Items[v] # None <=> v \in Held(Filled, queue.size)
  BY <1>1, <1>2, MeaningType
<1>5. Abstract!Held = Held(Filled, queue.size)
  BY <1>3, <1>4 DEF Abstract!Held
<1>6. \A k \in Indices(queue) : Items[Filled[k].value] = Filled[k].priority
  BY <1>1, <1>2, MeaningIs DEF Indices
<1>7. \A k \in Indices(queue) : Filled[k].value \in Held(Filled, queue.size)
  BY DEF Held, Indices
<1> QED
  BY <1>1, <1>5, <1>6, <1>7, HeldSize

LEMMA AbstractInsert ==
  ASSUME PInv, NEW value \in Values, NEW priority \in Prio, Insert(value, priority),
         queue.size # queue.capacity
  PROVE  Abstract!Insert(value, priority)
<1>1. /\ Filled \in Array /\ Distinct(Filled, queue.size) /\ queue.size \in 0..Capacity - 1
      /\ Filled' = [Filled EXCEPT ![queue.size] = Node(value, priority)]
      /\ Distinct(Filled', queue'.size) /\ queue'.size = queue.size + 1
  <2>1. queue'.size = queue.size + 1
    BY DEF Insert, vars, PInv, TypeInv
  <2> QED
    BY <2>1, Types, InsertStep DEF PInv
<1>2. value \notin Held(Filled, queue.size)
  BY DEF Insert, Contents, Held, Indices
<1>3. Items' = [Items EXCEPT ![value] = priority]
  <2>1. PICK array, size, x, more :
          array = Filled /\ size = queue.size /\ x = Filled' /\ more = queue'.size
    OBVIOUS
  <2>2. /\ array \in Array /\ size \in 0..Capacity - 1 /\ Distinct(array, size)
        /\ value \notin Held(array, size) /\ more = size + 1 /\ Distinct(x, more)
    BY <1>1, <1>2, <2>1
  <2>3. x = [array EXCEPT ![size] = Node(value, priority)]
    BY <1>1, <2>1
  <2>4. x[size] = Node(value, priority) /\ \A k \in 0..size - 1 : x[k] = array[k]
    BY ONLY <2>2, <2>3, PriorityQueueAssumption DEF Array
  <2>5. Meaning(x, more) = [Meaning(array, size) EXCEPT ![value] = priority]
    BY ONLY value \in Values, priority \in Prio, <2>2, <2>4, InsertMeaning
  <2> QED
    BY <2>1, <2>5, ItemsMeaning
<1>4. value \notin Abstract!Held /\ Cardinality(Abstract!Held) < Capacity
  BY <1>1, <1>2, AbstractHeld, PriorityQueueAssumption
<1>5. Abstract!Cardinality(Abstract!Held) = Cardinality(Abstract!Held)
  BY DEF Abstract!Cardinality, Cardinality
<1>6. UNCHANGED <<extracted, ordered>>
  BY DEF Insert, vars
<1> QED
  BY <1>3, <1>4, <1>5, <1>6 DEF Abstract!Insert

LEMMA AbstractReplace ==
  ASSUME PInv, doing = "none", NEW k \in Indices(queue), Replace(k)
  PROVE  /\ Items' = [Items EXCEPT ![Filled[k].value] = None]
         /\ Abstract!Take(Filled[k].value)
         /\ queue.size = 1 <=> Abstract!Held = {Filled[k].value}
         /\ \/ ordered' = (ordered \/ Abstract!Held = {Filled[k].value})
            \/ k # 0 /\ ~Abstract!Alike /\ ordered' = FALSE
<1>1. /\ queue.size \in 1..Capacity /\ queue'.size = queue.size - 1
      /\ Filled' = [Filled EXCEPT ![k] = Filled[queue.size - 1]]
      /\ Distinct(Filled', queue'.size)
  BY ReplaceStep DEF PInv
<1>2. Filled \in Array /\ Distinct(Filled, queue.size) /\ k \in 0..queue.size - 1
  BY Types DEF PInv, Indices
<1>3. Items' = [Items EXCEPT ![Filled[k].value] = None]
  <2>1. PICK array, size, x, less :
          array = Filled /\ size = queue.size /\ x = Filled' /\ less = queue'.size
    OBVIOUS
  <2>2. /\ array \in Array /\ size \in 1..Capacity /\ Distinct(array, size)
        /\ k \in 0..size - 1 /\ less = size - 1 /\ Distinct(x, less)
    BY <1>1, <1>2, <2>1
  <2>3. x = [array EXCEPT ![k] = array[size - 1]]
    BY <1>1, <2>1
  <2>4. /\ x[k] = array[size - 1]
        /\ \A j \in 0..size - 1 : j # k => x[j] = array[j]
    <3>1. k \in 0..Capacity - 1 /\ 0..size - 1 \subseteq 0..Capacity - 1
      BY ONLY <2>2, PriorityQueueAssumption
    <3> QED
      BY ONLY <2>2, <2>3, <3>1 DEF Array
  <2>5. Meaning(x, less) = [Meaning(array, size) EXCEPT ![array[k].value] = None]
    BY ONLY <2>2, <2>4, ShrunkMeaning
  <2> QED
    BY <2>1, <2>5, ItemsMeaning
<1>4. Filled[k].value \in Abstract!Held
  BY AbstractHeld
<1>5. queue.size = 1 <=> Abstract!Held = {Filled[k].value}
  <2>1. ASSUME queue.size = 1
        PROVE  Abstract!Held = {Filled[k].value}
    <3>1. 0..queue.size - 1 = {k}
      BY <1>2, <2>1
    <3> QED
      BY <3>1, AbstractHeld DEF Held
  <2>2. ASSUME Abstract!Held = {Filled[k].value}
        PROVE  queue.size = 1
    <3>1. Cardinality({Filled[k].value}) = 1
      BY FS_Singleton
    <3> QED
      BY <2>2, <3>1, AbstractHeld
  <2> QED
    BY <2>1, <2>2
<1>6. ordered' = ((ordered /\ InPlace(k)) \/ queue.size = 1) /\ ordered \in BOOLEAN
  BY DEF Replace, PInv, TypeInv
<1>7. ASSUME ~InPlace(k)
      PROVE  k # 0 /\ ~Abstract!Alike
  <2> DEFINE last == queue.size - 1
             p == ParentOf(k)
  <2>1. k # 0 /\ ~(queue.heap[p].priority <= queue.heap[last].priority)
    BY <1>7 DEF InPlace
  <2>2. p \in Indices(queue) /\ last \in Indices(queue) /\ Filled = queue.heap
    BY <1>1, <1>2, <2>1, ParentFacts, PriorityQueueAssumption DEF Indices, Filled
  <2>3. Filled[p].priority \in Int /\ Filled[last].priority \in Int
    BY <1>1, <1>2, <2>2, PriorityIsInt, PriorityQueueAssumption DEF Indices
  <2>4. Filled[p].priority # Filled[last].priority
    BY <2>1, <2>2, <2>3
  <2>5. /\ Filled[p].value \in Abstract!Held /\ Filled[last].value \in Abstract!Held
        /\ Items[Filled[p].value] # Items[Filled[last].value]
    BY <2>2, <2>4, AbstractHeld
  <2> QED
    BY <2>1, <2>5 DEF Abstract!Alike
<1>8. \/ ordered' = (ordered \/ Abstract!Held = {Filled[k].value})
      \/ k # 0 /\ ~Abstract!Alike /\ ordered' = FALSE
  BY <1>5, <1>6, <1>7
<1> QED
  BY <1>3, <1>4, <1>5, <1>8 DEF Abstract!Take

LEMMA AbstractExtract ==
  ASSUME PInv, ExtractMin
  PROVE  Abstract!ExtractMin
<1>1. CASE queue.size = 0 /\ extracted' = None /\ UNCHANGED <<queue, doing, i, node, ordered>>
  <2>1. Held(Filled, 0) = {}
    BY DEF Held
  <2>2. Abstract!Held = {}
    BY <1>1, <2>1, AbstractHeld
  <2>3. UNCHANGED Items
    BY <1>1, ItemsMeaning DEF Filled
  <2> QED
    BY <1>1, <2>2, <2>3 DEF Abstract!ExtractMin
<1>2. CASE queue.size # 0 /\ extracted' = Root(queue) /\ Replace(0)
  <2>1. /\ 0 \in Indices(queue) /\ doing = "none" /\ Filled = queue.heap
        /\ queue.size \in 1..Capacity /\ Filled \in Array
    BY <1>2, Types DEF PInv, Indices, ExtractMin, Filled
  <2> DEFINE v == Filled[0].value
  <2>2. Abstract!Take(v) /\ ordered' = (ordered \/ Abstract!Held = {v})
    BY <1>2, <2>1, AbstractReplace
  <2>3. extracted' = v
    BY <1>2, <2>1 DEF Root
  <2>4. ordered => \A k \in 1..queue.size - 1 : Filled[ParentOf(k)].priority <= Filled[k].priority
    BY <2>1 DEF PInv, EdgeInv, Loose
  <2>5. ordered => \A k \in 0..queue.size - 1 : Filled[0].priority <= Filled[k].priority
    BY <2>1, <2>4, RootIsLowest
  <2>6. ordered => \A w \in Abstract!Held : Items[v] <= Items[w]
    <3> SUFFICES ASSUME ordered, NEW w \in Abstract!Held
                 PROVE  Items[v] <= Items[w]
      OBVIOUS
    <3>1. PICK k \in Indices(queue) : w = Filled[k].value
      BY AbstractHeld DEF Held, Indices
    <3>2. Items[w] = Filled[k].priority /\ Items[v] = Filled[0].priority
      BY <2>1, <3>1, AbstractHeld
    <3> QED
      BY <2>5, <3>2 DEF Indices
  <2>7. v \in Abstract!Held /\ (ordered => v \in Abstract!Lowest)
    BY <2>1, <2>6, AbstractHeld DEF Abstract!Lowest
  <2> QED
    BY <2>2, <2>3, <2>7 DEF Abstract!ExtractMin
<1> QED
  BY <1>1, <1>2 DEF ExtractMin

LEMMA AbstractRemove ==
  ASSUME PInv, NEW value \in Values, Remove(value)
  PROVE  Abstract!Remove(value) \/ UNCHANGED <<Items, extracted, ordered>>
<1>1. CASE UNCHANGED <<queue, doing, i, node, ordered>>
  BY <1>1, ItemsMeaning DEF Filled, Remove
<1>2. CASE \E k \in Indices(queue) : queue.heap[k].value = value /\ Replace(k)
  <2>1. PICK k \in Indices(queue) : queue.heap[k].value = value /\ Replace(k)
    BY <1>2
  <2>2. doing = "none" /\ Filled = queue.heap /\ UNCHANGED extracted
    BY DEF Remove, Filled
  <2>3. /\ Abstract!Take(value)
        /\ \/ ordered' = (ordered \/ Abstract!Held = {value})
           \/ ~Abstract!Alike /\ ordered' = FALSE
    BY <2>1, <2>2, AbstractReplace
  <2> QED
    BY <2>2, <2>3 DEF Abstract!Remove
<1> QED
  BY <1>1, <1>2 DEF Remove

\* The rounds of insert and heapify move nodes and change nothing else.
LEMMA AbstractStutter ==
  ASSUME PInv, Rise \/ Place \/ heapify
  PROVE  UNCHANGED <<Items, extracted, ordered>>
<1>1. Filled \in Array /\ queue.size \in 0..Capacity /\ Distinct(Filled, queue.size)
  BY Types DEF PInv
<1>2. UNCHANGED <<extracted, ordered>>
  BY DEF Rise, Place, heapify
<1>3. /\ queue'.size = queue.size
      /\ \/ Filled' = Filled
         \/ \E a, b \in 0..queue.size - 1 : Filled' = Exchange(Filled, a, b)
  BY RiseStep, PlaceStep, HeapifyStep
<1>4. Meaning(Filled', queue.size) = Meaning(Filled, queue.size)
  BY <1>1, <1>3, ExchangeMeaning
<1> QED
  BY <1>2, <1>3, <1>4, ItemsMeaning

\* insert, extract_min and remove on the array heap, stale reads and removals
\* among different priorities included, implement the bounded collection of
\* priorityqueue.h, from which a value of lowest priority is extracted unless
\* such a removal left a node too far down.
THEOREM QueueImplementsReadyQueue == Spec => ImplementsReadyQueue
<1>1. Init => Abstract!Init
  <2> SUFFICES ASSUME Init
               PROVE  Abstract!Init
    OBVIOUS
  <2>1. queue.size = 0 /\ extracted = None /\ ordered = TRUE
    BY DEF Init, construct_priority_queue
  <2>2. Contents = {}
    BY <2>1 DEF Contents, Indices
  <2> QED
    BY <2>1, <2>2 DEF Items, Abstract!Init
<1>2. ASSUME PInv, [Next]_vars
      PROVE  [Abstract!Next]_<<Items, extracted, ordered>>
  <2>1. CASE UNCHANGED vars
    BY <2>1, ItemsMeaning DEF vars, Filled
  <2>2. ASSUME NEW value \in Values, NEW priority \in Prio, Insert(value, priority)
        PROVE  [Abstract!Next]_<<Items, extracted, ordered>>
    <3>1. CASE queue.size = queue.capacity
      BY <2>1, <2>2, <3>1 DEF Insert
    <3>2. CASE queue.size # queue.capacity
      BY <1>2, <2>2, <3>2, AbstractInsert DEF Abstract!Next
    <3> QED
      BY <3>1, <3>2
  <2>3. CASE ExtractMin
    BY <1>2, <2>3, AbstractExtract DEF Abstract!Next
  <2>4. ASSUME NEW value \in Values, Remove(value)
        PROVE  [Abstract!Next]_<<Items, extracted, ordered>>
    BY <1>2, <2>4, AbstractRemove DEF Abstract!Next
  <2>5. CASE Rise \/ Place \/ heapify
    BY <1>2, <2>5, AbstractStutter
  <2> QED
    BY <1>2, <2>1, <2>2, <2>3, <2>4, <2>5 DEF Next
<1> QED
  BY <1>1, <1>2, PInvariance, PTL DEF Spec, ImplementsReadyQueue, Abstract!Spec
=============================================================================
