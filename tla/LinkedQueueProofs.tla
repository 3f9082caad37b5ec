-------------------------- MODULE LinkedQueueProofs -------------------------
(***************************************************************************)
(* Proofs about LinkedQueue, for every set of heap blocks and of objects.  *)
(***************************************************************************)
EXTENDS LinkedQueue, TLAPS, FiniteSetTheorems, SequenceTheorems

LQInv == TypeOK /\ WellLinked

LEMMA InitLQ == Init => LQInv
<1> SUFFICES ASSUME Init
             PROVE  LQInv
  OBVIOUS
<1>1. <<>> \in Seq(Nodes) /\ Len(<<>>) = 0 /\ DOMAIN <<>> = {}
  OBVIOUS
<1> QED
  BY <1>1 DEF Init, LQInv, TypeOK, WellLinked

LEMMA ChainFacts ==
  ASSUME LQInv
  PROVE  /\ chain \in Seq(Nodes)
         /\ Len(chain) \in Nat
         /\ DOMAIN chain = 1..Len(chain)
         /\ \A i \in 1..Len(chain) : chain[i] \in Nodes /\ chain[i] \in allocated
         /\ chain = <<>> <=> Len(chain) = 0
<1>1. chain \in Seq(Nodes)
  BY DEF LQInv, TypeOK
<1>2. Len(chain) \in Nat /\ DOMAIN chain = 1..Len(chain)
  BY <1>1, LenProperties
<1>3. \A i \in 1..Len(chain) : chain[i] \in Nodes
  BY <1>1, ElementOfSeq
<1>4. \A i \in 1..Len(chain) : chain[i] \in allocated
  BY <1>2 DEF LQInv, WellLinked
<1>5. chain = <<>> <=> Len(chain) = 0
  BY <1>1, EmptySeq
<1> QED
  BY <1>1, <1>2, <1>3, <1>4, <1>5

\* A new node is linked behind the last one.
LEMMA InsertLQ ==
  ASSUME LQInv, NEW p \in Ptrs, NEW node \in Nodes \ allocated,
         allocated' = allocated \cup {node},
         ptr' = [ptr EXCEPT ![node] = p],
         Link(node),
         count' = count + 1,
         chain' = Append(chain, node),
         UNCHANGED returned
  PROVE  LQInv'
<1> DEFINE n == Len(chain)
<1>1. /\ chain \in Seq(Nodes)
      /\ n \in Nat
      /\ DOMAIN chain = 1..n
      /\ \A i \in 1..n : chain[i] \in Nodes /\ chain[i] \in allocated
      /\ chain = <<>> <=> n = 0
  BY ChainFacts
<1>2. /\ chain' \in Seq(Nodes)
      /\ chain' # <<>>
      /\ Len(chain') = n + 1
      /\ \A i \in 1..n : chain'[i] = chain[i]
      /\ chain'[n + 1] = node
  BY <1>1, AppendProperties
<1>3. DOMAIN chain' = 1..n + 1
  BY <1>2, LenProperties
<1>4. \A i \in 1..n + 1 : i \in 1..n \/ i = n + 1
  BY <1>1
<1>5. NULL \notin Nodes
  BY LinkedQueueAssumption
<1>6. /\ next \in [Nodes -> Nodes \cup {NULL}]
      /\ last = IF n = 0 THEN NULL ELSE chain[n]
      /\ first = IF n = 0 THEN NULL ELSE chain[1]
      /\ \A i, j \in 1..n : chain[i] = chain[j] => i = j
      /\ \A i \in 1..n : next[chain[i]] = IF i = n THEN NULL ELSE chain[i + 1]
      /\ allocated = {chain[i] : i \in 1..n}
      /\ count = n
  BY <1>1 DEF LQInv, TypeOK, WellLinked
<1>7. last = NULL <=> n = 0
  <2>1. n # 0 => n \in 1..n
    BY <1>1
  <2>2. n # 0 => chain[n] \in Nodes
    BY <1>1, <2>1
  <2> QED
    BY <1>5, <1>6, <2>2
<1> HIDE DEF n
<1>8. /\ next' \in [Nodes -> Nodes \cup {NULL}]
      /\ next'[node] = NULL
      /\ n # 0 => next'[chain[n]] = node
      /\ \A x \in Nodes : x # node /\ (n = 0 \/ x # chain[n]) => next'[x] = next[x]
  <2>1. CASE n = 0
    <3>1. next' = [next EXCEPT ![node] = NULL]
      BY <1>7, <2>1 DEF Link
    <3> QED
      BY <1>6, <2>1, <3>1
  <2>2. CASE n # 0
    <3>1. n \in 1..n
      BY <1>1, <2>2
    <3>2. chain[n] \in Nodes /\ chain[n] # node /\ last = chain[n]
      BY <1>1, <1>6, <2>2, <3>1
    <3>3. next' = [next EXCEPT ![node] = NULL, ![chain[n]] = node]
      BY <1>7, <2>2, <3>2 DEF Link
    <3> QED
      BY <1>6, <2>2, <3>2, <3>3
  <2> QED
    BY <2>1, <2>2
<1>9. first' = chain'[1] /\ last' = node
  BY <1>1, <1>2, <1>6, <1>7 DEF Link
<1>10. TypeOK'
  <2>1. count' \in Nat
    BY <1>1, <1>6
  <2>2. first' \in Nodes \cup {NULL} /\ last' \in Nodes \cup {NULL}
    BY DEF LQInv, TypeOK, Link
  <2>3. ptr' \in [Nodes -> Ptrs] /\ allocated' \subseteq Nodes
    BY DEF LQInv, TypeOK
  <2> QED
    BY <1>2, <1>8, <2>1, <2>2, <2>3 DEF LQInv, TypeOK
<1>11. allocated' = {chain'[i] : i \in DOMAIN chain'}
  <2>1. ASSUME NEW x \in allocated'
        PROVE  \E i \in 1..n + 1 : x = chain'[i]
    <3>1. CASE x = node
      <4>1. n + 1 \in 1..n + 1
        BY <1>1
      <4> QED
        BY <1>2, <3>1, <4>1
    <3>2. CASE x \in allocated
      <4>1. PICK i \in 1..n : x = chain[i]
        BY <1>6, <3>2
      <4>2. i \in 1..n + 1
        BY <1>1
      <4> QED
        BY <1>2, <4>1, <4>2
    <3> QED
      BY <3>1, <3>2
  <2>2. \A i \in 1..n + 1 : chain'[i] \in allocated'
    BY <1>1, <1>2, <1>4
  <2> QED
    BY <1>3, <2>1, <2>2
<1>12. \A i, j \in DOMAIN chain' : chain'[i] = chain'[j] => i = j
  BY <1>1, <1>2, <1>3, <1>4, <1>6
<1>13. \A i \in DOMAIN chain' :
         next'[chain'[i]] = IF i = Len(chain') THEN NULL ELSE chain'[i + 1]
  <2> SUFFICES ASSUME NEW i \in 1..n + 1
               PROVE  next'[chain'[i]] = IF i = n + 1 THEN NULL ELSE chain'[i + 1]
    BY <1>2, <1>3
  <2>1. CASE i = n + 1
    BY <1>2, <1>8, <2>1
  <2>2. CASE i = n /\ i # n + 1
    <3>1. i \in 1..n /\ n # 0
      BY <1>1, <1>4, <2>2
    <3> QED
      BY <1>1, <1>2, <1>8, <2>2, <3>1
  <2>3. CASE i # n /\ i # n + 1
    <3>1. i \in 1..n /\ i + 1 \in 1..n /\ n \in 1..n
      BY <1>1, <2>3
    <3>2. chain[i] # chain[n] /\ chain[i] # node
      BY <1>1, <1>6, <2>3, <3>1
    <3> QED
      BY <1>1, <1>2, <1>6, <1>8, <2>3, <3>1, <3>2
  <2> QED
    BY <2>1, <2>2, <2>3
<1>14. count' = Len(chain')
  BY <1>2, <1>6
<1>15. WellLinked'
  BY <1>2, <1>9, <1>11, <1>12, <1>13, <1>14 DEF WellLinked
<1> QED
  BY <1>10, <1>15 DEF LQInv

\* The first node is unlinked and freed.
LEMMA GetNextLQ ==
  ASSUME LQInv, first # NULL, Unlink,
         count' = count - 1,
         returned' = ptr[first],
         allocated' = allocated \ {first},
         chain' = Tail(chain),
         UNCHANGED <<next, ptr>>
  PROVE  LQInv'
<1> DEFINE n == Len(chain)
<1>1. /\ chain \in Seq(Nodes)
      /\ n \in Nat
      /\ DOMAIN chain = 1..n
      /\ \A i \in 1..n : chain[i] \in Nodes /\ chain[i] \in allocated
      /\ chain = <<>> <=> n = 0
  BY ChainFacts
<1>2. chain # <<>> /\ n # 0
  BY <1>1 DEF LQInv, WellLinked
<1>3. /\ chain' \in Seq(Nodes)
      /\ Len(chain') = n - 1
      /\ \A i \in 1..n - 1 : chain'[i] = chain[i + 1]
  BY <1>1, <1>2, HeadTailProperties
<1>4. DOMAIN chain' = 1..n - 1 /\ (chain' = <<>> <=> n - 1 = 0)
  BY <1>3, LenProperties, EmptySeq
<1>5. NULL \notin Nodes
  BY LinkedQueueAssumption
<1>6. /\ first = chain[1]
      /\ last = chain[n]
      /\ \A i, j \in 1..n : chain[i] = chain[j] => i = j
      /\ \A i \in 1..n : next[chain[i]] = IF i = n THEN NULL ELSE chain[i + 1]
      /\ allocated = {chain[i] : i \in 1..n}
      /\ count = n
  BY <1>1, <1>2 DEF LQInv, WellLinked
<1>7. /\ 1 \in 1..n
      /\ n \in 1..n
      /\ \A i \in 1..n - 1 : i \in 1..n /\ i + 1 \in 1..n /\ i + 1 # 1
      /\ \A i \in 1..n : i # 1 => i - 1 \in 1..n - 1 /\ (i - 1) + 1 = i
  BY <1>1, <1>2
<1> HIDE DEF n
<1>8. next[first] = IF n = 1 THEN NULL ELSE chain[2]
  BY <1>6, <1>7
<1>9. n # 1 => 2 \in 1..n /\ 1 \in 1..n - 1 /\ n - 1 \in 1..n - 1
  BY <1>1, <1>2
<1>10. first' = IF chain' = <<>> THEN NULL ELSE chain'[1]
  BY <1>1, <1>3, <1>4, <1>8, <1>9 DEF Unlink
<1>11. last' = IF chain' = <<>> THEN NULL ELSE chain'[Len(chain')]
  BY <1>1, <1>3, <1>4, <1>5, <1>6, <1>8, <1>9 DEF Unlink
<1>12. allocated' = {chain'[i] : i \in DOMAIN chain'}
  <2>1. ASSUME NEW x \in allocated'
        PROVE  \E i \in 1..n - 1 : x = chain'[i]
    <3>1. PICK i \in 1..n : x = chain[i] /\ i # 1
      BY <1>6
    <3>2. i - 1 \in 1..n - 1 /\ (i - 1) + 1 = i
      BY <1>7, <3>1
    <3>3. chain'[i - 1] = chain[i]
      BY <1>3, <3>2
    <3> QED
      BY <3>1, <3>2, <3>3
  <2>2. ASSUME NEW i \in 1..n - 1
        PROVE  chain'[i] \in allocated'
    <3>1. i + 1 \in 1..n /\ i + 1 # 1 /\ 1 \in 1..n
      BY <1>7
    <3>2. chain[i + 1] # chain[1] /\ chain[i + 1] \in allocated
      BY <1>1, <1>6, <3>1
    <3> QED
      BY <1>3, <1>6, <3>2
  <2>3. DOMAIN chain' = 1..n - 1
    BY <1>4
  <2>4. allocated' \subseteq {chain'[i] : i \in 1..n - 1}
    BY <2>1
  <2>5. {chain'[i] : i \in 1..n - 1} \subseteq allocated'
    BY <2>2
  <2> QED
    BY <2>3, <2>4, <2>5, Zenon
<1>13. \A i, j \in DOMAIN chain' : chain'[i] = chain'[j] => i = j
  BY <1>1, <1>3, <1>4, <1>6, <1>7
<1>14. \A i \in DOMAIN chain' :
         next'[chain'[i]] = IF i = Len(chain') THEN NULL ELSE chain'[i + 1]
  <2> SUFFICES ASSUME NEW i \in 1..n - 1
               PROVE  next[chain[i + 1]] = IF i = n - 1 THEN NULL ELSE chain'[i + 1]
    BY <1>3, <1>4
  <2>1. CASE i = n - 1
    BY <1>1, <1>6, <1>7, <2>1
  <2>2. CASE i # n - 1
    <3>1. i + 1 \in 1..n - 1 /\ i + 1 \in 1..n /\ i + 1 # n
      BY <1>1, <2>2
    <3> QED
      BY <1>3, <1>6, <2>2, <3>1
  <2> QED
    BY <2>1, <2>2
<1>15. count' = Len(chain')
  BY <1>3, <1>6
<1>16. WellLinked'
  BY <1>10, <1>11, <1>12, <1>13, <1>14, <1>15 DEF WellLinked
<1>17. TypeOK'
  <2>1. first \in Nodes
    BY <1>1, <1>6, <1>7
  <2>2. next[first] \in Nodes \cup {NULL}
    BY <2>1 DEF LQInv, TypeOK
  <2>3. count' \in Nat
    BY <1>1, <1>2, <1>6
  <2> QED
    BY <1>3, <2>1, <2>2, <2>3 DEF LQInv, TypeOK, Unlink
<1> QED
  BY <1>16, <1>17 DEF LQInv

LEMMA NextLQ == LQInv /\ [Next]_vars => LQInv'
<1> SUFFICES ASSUME LQInv, [Next]_vars
             PROVE  LQInv'
  OBVIOUS
<1>1. CASE UNCHANGED vars
  BY <1>1 DEF LQInv, TypeOK, WellLinked, vars, queue
<1>2. CASE queue_get_next
  <2>1. CASE first = NULL
    <3>1. returned' = NULL /\ UNCHANGED <<queue, next, ptr, allocated, chain>>
      BY <1>2, <2>1 DEF queue_get_next
    <3> QED
      BY <3>1 DEF LQInv, TypeOK, WellLinked, queue
  <2>2. CASE first # NULL
    BY <1>2, <2>2, GetNextLQ DEF queue_get_next
  <2> QED
    BY <2>1, <2>2
<1>3. ASSUME NEW p \in Ptrs, queue_insert(p)
      PROVE  LQInv'
  <2>1. CASE allocated = Nodes /\ UNCHANGED vars
    BY <1>1, <2>1
  <2>2. CASE ~(allocated = Nodes /\ UNCHANGED vars)
    BY <1>3, <2>2, InsertLQ DEF queue_insert
  <2> QED
    BY <2>1, <2>2
<1> QED
  BY <1>1, <1>2, <1>3 DEF Next

\* After any sequence of queue_insert and queue_get_next the list is well
\* formed: every link leads to an allocated node, first to last, each node
\* once, and count is their number.
THEOREM ListWellFormed == Spec => [](TypeOK /\ WellLinked)
<1>1. LQInv => TypeOK /\ WellLinked
  BY DEF LQInv
<1> QED
  BY <1>1, InitLQ, NextLQ, PTL DEF Spec

(***************************************************************************)
(* The list implements Fifo                                                *)
(***************************************************************************)

\* The abstract contents: the values of items in Abstract.
Items == [i \in DOMAIN chain |-> ptr[chain[i]]]

LEMMA ItemsFacts ==
  ASSUME LQInv
  PROVE  /\ Items \in Seq(Ptrs)
         /\ Len(Items) = Len(chain)
         /\ \A i \in 1..Len(chain) : Items[i] = ptr[chain[i]]
         /\ Items = <<>> <=> chain = <<>>
<1>1. /\ Len(chain) \in Nat
      /\ DOMAIN chain = 1..Len(chain)
      /\ \A i \in 1..Len(chain) : chain[i] \in Nodes
      /\ chain = <<>> <=> Len(chain) = 0
  BY ChainFacts
<1>2. ptr \in [Nodes -> Ptrs]
  BY DEF LQInv, TypeOK
<1>3. Items \in [1..Len(chain) -> Ptrs]
  BY <1>1, <1>2 DEF Items
<1>4. Items \in Seq(Ptrs)
  BY <1>1, <1>3, SeqDef
<1>5. DOMAIN Items = 1..Len(Items) /\ Len(Items) \in Nat
  BY <1>4, LenProperties
<1>6. Len(Items) = Len(chain)
  BY <1>1, <1>3, <1>5
<1>7. Items = <<>> <=> chain = <<>>
  BY <1>1, <1>4, <1>6, EmptySeq
<1> QED
  BY <1>1, <1>4, <1>6, <1>7 DEF Items

\* A list with n nodes has n different blocks.
LEMMA ChainFits ==
  ASSUME LQInv'
  PROVE  Len(chain') \in Nat /\ Len(chain') <= Cardinality(Nodes)
<1> DEFINE n == Len(chain')
<1>1. chain' \in Seq(Nodes)
  BY DEF LQInv, TypeOK
<1>2. n \in Nat /\ DOMAIN chain' = 1..n /\ chain' \in [1..n -> Nodes]
  BY <1>1, LenProperties
<1>3. \A i, j \in 1..n : chain'[i] = chain'[j] => i = j
  BY <1>2 DEF LQInv, WellLinked
<1>4. chain' \in Injection(1..n, Nodes)
  BY <1>2, <1>3 DEF Injection, IsInjective
<1>5. Cardinality(1..n) = n
  <2>1. Cardinality(1..n) = IF 1 > n THEN 0 ELSE n - 1 + 1
    BY <1>2, FS_Interval
  <2> QED
    BY <1>2, <2>1
<1>6. Cardinality(1..n) <= Cardinality(Nodes)
  BY <1>4, FS_Injection, LinkedQueueAssumption
<1> QED
  BY <1>2, <1>5, <1>6

\* queue_insert appends.
LEMMA InsertRefines ==
  ASSUME LQInv, LQInv', NEW p \in Ptrs, NEW node \in Nodes \ allocated,
         ptr' = [ptr EXCEPT ![node] = p],
         chain' = Append(chain, node),
         UNCHANGED returned
  PROVE  Abstract!Insert(p)
<1> DEFINE n == Len(chain)
<1>1. /\ chain \in Seq(Nodes)
      /\ n \in Nat
      /\ DOMAIN chain = 1..n
      /\ \A i \in 1..n : chain[i] \in Nodes /\ chain[i] \in allocated
  BY ChainFacts
<1>2. /\ Items \in Seq(Ptrs)
      /\ Len(Items) = n
      /\ \A i \in 1..n : Items[i] = ptr[chain[i]]
  BY ItemsFacts
<1>3. /\ chain' \in Seq(Nodes)
      /\ Len(chain') = n + 1
      /\ \A i \in 1..n : chain'[i] = chain[i]
      /\ chain'[n + 1] = node
  BY <1>1, AppendProperties
<1>4. DOMAIN chain' = 1..n + 1 /\ ptr' \in [Nodes -> Ptrs] /\ ptr \in [Nodes -> Ptrs]
  BY <1>3, LenProperties DEF LQInv, TypeOK
<1>5. n < Cardinality(Nodes)
  <2>1. n + 1 <= Cardinality(Nodes)
    BY <1>3, ChainFits
  <2>2. Cardinality(Nodes) \in Nat
    BY FS_CardinalityType, LinkedQueueAssumption
  <2> QED
    BY <1>1, <2>1, <2>2
<1> HIDE DEF n
<1>6. /\ Append(Items, p) \in Seq(Ptrs)
      /\ Len(Append(Items, p)) = n + 1
      /\ \A i \in 1..n : Append(Items, p)[i] = Items[i]
      /\ Append(Items, p)[n + 1] = p
  BY <1>2, AppendProperties
<1>7. \A i \in 1..n + 1 : ptr'[chain'[i]] = Append(Items, p)[i]
  <2> SUFFICES ASSUME NEW i \in 1..n + 1
               PROVE  ptr'[chain'[i]] = Append(Items, p)[i]
    OBVIOUS
  <2>1. CASE i = n + 1
    BY <1>3, <1>4, <1>6, <2>1
  <2>2. CASE i # n + 1
    <3>1. i \in 1..n
      BY <1>1, <2>2
    <3>2. chain[i] # node /\ chain[i] \in Nodes
      BY <1>1, <3>1
    <3> QED
      BY <1>2, <1>3, <1>4, <1>6, <3>1, <3>2
  <2> QED
    BY <2>1, <2>2
<1>8. Items' = Append(Items, p)
  <2>1. Items' = [i \in 1..n + 1 |-> ptr'[chain'[i]]]
    BY <1>4 DEF Items
  <2>2. Append(Items, p) = [i \in 1..n + 1 |-> Append(Items, p)[i]]
    BY <1>6, LenProperties
  <2> QED
    BY <1>7, <2>1, <2>2
<1> QED
  BY <1>2, <1>5, <1>8 DEF Abstract!Insert, Items

\* queue_get_next takes the head.
LEMMA GetNextRefines ==
  ASSUME LQInv, first # NULL, returned' = ptr[first], chain' = Tail(chain), ptr' = ptr
  PROVE  Abstract!GetNext
<1> DEFINE n == Len(chain)
<1>1. /\ chain \in Seq(Nodes)
      /\ n \in Nat
      /\ DOMAIN chain = 1..n
      /\ chain = <<>> <=> n = 0
  BY ChainFacts
<1>2. /\ Items \in Seq(Ptrs)
      /\ Len(Items) = n
      /\ \A i \in 1..n : Items[i] = ptr[chain[i]]
      /\ Items = <<>> <=> chain = <<>>
  BY ItemsFacts
<1>3. chain # <<>> /\ Items # <<>> /\ n # 0 /\ first = chain[1]
  BY <1>1, <1>2 DEF LQInv, WellLinked
<1>4. /\ chain' \in Seq(Nodes)
      /\ Len(chain') = n - 1
      /\ \A i \in 1..n - 1 : chain'[i] = chain[i + 1]
  BY <1>1, <1>3, HeadTailProperties
<1>5. /\ Tail(Items) \in Seq(Ptrs)
      /\ Len(Tail(Items)) = n - 1
      /\ \A i \in 1..n - 1 : Tail(Items)[i] = Items[i + 1]
  BY <1>2, <1>3, HeadTailProperties
<1>6. DOMAIN chain' = 1..n - 1
  BY <1>4, LenProperties
<1> HIDE DEF n
<1>7. \A i \in 1..n - 1 : ptr[chain'[i]] = Tail(Items)[i]
  <2>1. \A i \in 1..n - 1 : i + 1 \in 1..n
    BY <1>1
  <2> QED
    BY <1>2, <1>4, <1>5, <2>1
<1>8. Items' = Tail(Items)
  <2>1. Items' = [i \in 1..n - 1 |-> ptr[chain'[i]]]
    BY <1>6 DEF Items
  <2>2. Tail(Items) = [i \in 1..n - 1 |-> Tail(Items)[i]]
    BY <1>5, LenProperties
  <2> QED
    BY <1>7, <2>1, <2>2
<1>9. returned' = Head(Items)
  <2>1. 1 \in 1..n
    BY <1>1, <1>3
  <2>2. Head(Items) = Items[1]
    BY <1>2, <1>3
  <2> QED
    BY <1>2, <1>3, <2>1, <2>2
<1> QED
  BY <1>3, <1>8, <1>9 DEF Abstract!GetNext, Items

\* The linked list of queue.c implements a first-in-first-out queue bounded
\* by the blocks of the heap.
THEOREM ListImplementsFifo == Spec => ImplementsFifo
<1>1. Init => Abstract!Init
  <2> SUFFICES ASSUME Init
               PROVE  Abstract!Init
    OBVIOUS
  <2>1. LQInv
    BY InitLQ
  <2>2. Items = <<>>
    BY <2>1, ItemsFacts DEF Init
  <2> QED
    BY <2>2 DEF Init, Abstract!Init, Items
<1>2. LQInv /\ LQInv' /\ [Next]_vars => [Abstract!Next]_<<Items, returned>>
  <2> SUFFICES ASSUME LQInv, LQInv', [Next]_vars
               PROVE  [Abstract!Next]_<<Items, returned>>
    OBVIOUS
  <2>1. CASE UNCHANGED vars
    BY <2>1 DEF vars, Items
  <2>2. CASE queue_get_next
    <3>1. CASE first = NULL
      <4>1. chain = <<>>
        <5>1. chain # <<>> => first \in Nodes
          BY ChainFacts DEF LQInv, WellLinked
        <5> QED
          BY <3>1, <5>1, LinkedQueueAssumption
      <4>2. Items = <<>>
        BY <4>1, ItemsFacts
      <4>3. returned' = NULL /\ UNCHANGED <<ptr, chain>>
        BY <2>2, <3>1 DEF queue_get_next
      <4> QED
        BY <4>2, <4>3 DEF Abstract!Next, Abstract!GetNext, Items
    <3>2. CASE first # NULL
      BY <2>2, <3>2, GetNextRefines DEF queue_get_next, Abstract!Next
    <3> QED
      BY <3>1, <3>2
  <2>3. ASSUME NEW p \in Ptrs, queue_insert(p)
        PROVE  [Abstract!Next]_<<Items, returned>>
    <3>1. CASE allocated = Nodes /\ UNCHANGED vars
      BY <2>1, <3>1
    <3>2. CASE ~(allocated = Nodes /\ UNCHANGED vars)
      <4>1. Abstract!Insert(p)
        BY <2>3, <3>2, InsertRefines DEF queue_insert
      <4> QED
        BY <4>1 DEF Abstract!Next
    <3> QED
      BY <3>1, <3>2
  <2> QED
    BY <2>1, <2>2, <2>3 DEF Next
<1> QED
  BY <1>1, <1>2, InitLQ, NextLQ, PTL DEF Spec, ImplementsFifo, Abstract!Spec, Items
=============================================================================
