----------------------------- MODULE BootProofs -----------------------------
(***************************************************************************)
(* Proofs about Boot, for every memory map, list of modules, page size and *)
(* size of the bitmap.                                                     *)
(***************************************************************************)
EXTENDS Boot, FiniteSetTheorems, WellFoundedInduction, TLAPS

(***************************************************************************)
(* Numbers                                                                 *)
(***************************************************************************)

LEMMA Division ==
  ASSUME NEW p \in Nat, p > 0, NEW n \in Nat
  PROVE  /\ n \div p \in Nat /\ n % p \in 0..p - 1
         /\ n = p * (n \div p) + (n % p)
OBVIOUS

LEMMA Multiple ==
  ASSUME NEW p \in Nat, p > 0, NEW q \in Nat
  PROVE  p * q \in Nat /\ (p * q) % p = 0
OBVIOUS

LEMMA Monotone ==
  ASSUME NEW p \in Nat, p > 0, NEW a \in Nat, NEW b \in Nat, a <= b
  PROVE  p * a <= p * b
OBVIOUS

LEMMA NextMultiple ==
  ASSUME NEW p \in Nat, p > 0, NEW a \in Nat, a % p = 0
  PROVE  (a + p) % p = 0
<1>1. PICK q \in Nat : a = p * q
  BY Division
<1>2. p * (q + 1) = p * q + p
  OBVIOUS
<1>3. (p * (q + 1)) % p = 0
  BY Multiple
<1> QED
  BY <1>1, <1>2, <1>3

\* Two multiples of p that differ are p apart.
LEMMA Apart ==
  ASSUME NEW p \in Nat, p > 0, NEW a \in Nat, NEW b \in Nat,
         a % p = 0, b % p = 0, a < b
  PROVE  a + p <= b
<1>1. PICK q \in Nat : q = a \div p /\ a = p * q
  BY Division
<1>2. PICK r \in Nat : r = b \div p /\ b = p * r
  BY Division
<1>3. q < r
  <2>1. r <= q => p * r <= p * q
    BY Monotone
  <2> QED
    BY <1>1, <1>2, <2>1
<1>4. p * (q + 1) <= p * r /\ p * (q + 1) = p * q + p
  BY <1>3, Monotone
<1> QED
  BY <1>1, <1>2, <1>4

LEMMA Parameters ==
  /\ Units \in Nat /\ page_size \in Nat /\ page_size > 0
  /\ kernel_pstart \in Nat /\ kernel_pend \in Nat /\ MaxNeeded \in Nat
  /\ kernel_pstart < kernel_pend /\ kernel_pend <= Units
BY BootAssumption

\* RoundUp gives the first multiple of page_size from n on.
LEMMA RoundedUp ==
  ASSUME NEW n \in Nat
  PROVE  /\ RoundUp(n) \in Nat /\ RoundUp(n) >= n /\ RoundUp(n) % page_size = 0
         /\ RoundUp(n) < n + page_size
         /\ \A f \in Nat : f % page_size = 0 /\ f >= n => f >= RoundUp(n)
<1>1. PICK p \in Nat : p = page_size /\ p > 0
  BY Parameters
<1>2. PICK m \in Nat : m = n + p - 1
  BY <1>1
<1>3. PICK q \in Nat : q = m \div p /\ m = p * q + (m % p) /\ m % p \in 0..p - 1
  BY <1>1, Division
<1>4. RoundUp(n) = q * p /\ q * p = p * q
  BY <1>1, <1>2, <1>3 DEF RoundUp
<1>5. PICK r \in Nat : r = p * q
  BY <1>1, Multiple
<1>6. PICK k \in 0..p - 1 : k = m % p /\ m = r + k
  BY <1>1, <1>3, <1>5
<1>7. r % p = 0
  BY <1>1, <1>5, Multiple
<1>8. ASSUME NEW f \in Nat, f % p = 0, f >= n
      PROVE  f >= r
  <2>1. f < r => f + p <= r
    BY <1>1, <1>7, <1>8, Apart
  <2> QED
    BY <1>1, <1>2, <1>6, <1>8, <2>1
<1> QED
  BY <1>1, <1>2, <1>4, <1>5, <1>6, <1>7, <1>8

LEMMA KernelPagesType ==
  KernelPages \in Nat /\ KernelPages <= Units \div page_size /\ Units \div page_size \in Nat
<1>1. PICK p \in Nat : p = page_size /\ p > 0
  BY Parameters
<1>2. PICK a \in Nat, b \in Nat : a = kernel_pend - kernel_pstart /\ b = Units /\ a <= b
  BY Parameters
<1>3. PICK q \in Nat : q = a \div p /\ a = p * q + (a % p) /\ a % p \in 0..p - 1
  BY <1>1, Division
<1>4. PICK r \in Nat : r = b \div p /\ b = p * r + (b % p) /\ b % p \in 0..p - 1
  BY <1>1, Division
<1>5. q <= r
  <2>1. PICK pq \in Nat, pr \in Nat : pq = p * q /\ pr = p * r
    BY <1>1, Multiple
  <2>2. r < q => pr + p <= pq
    <3>1. r < q => p * (r + 1) <= p * q
      BY <1>1, Monotone
    <3>2. p * (r + 1) = p * r + p
      OBVIOUS
    <3> QED
      BY <2>1, <3>1, <3>2
  <2>3. PICK k \in 0..p - 1 : a = pq + k
    BY <1>3, <2>1
  <2>4. PICK j \in 0..p - 1 : b = pr + j
    BY <1>4, <2>1
  <2> QED
    BY <1>1, <1>2, <2>2, <2>3, <2>4
<1> QED
  BY <1>1, <1>2, <1>3, <1>4, <1>5 DEF KernelPages

\* Every set of numbers that has any has a least one.
LEMMA LeastNumber ==
  ASSUME NEW T \in SUBSET Nat, T # {}
  PROVE  \E x \in T : \A y \in T : x <= y
<1>1. PICK x \in T : \A y \in T : ~(<<y, x>> \in OpToRel(<, Nat))
  BY NatLessThanWellFounded, WFMin
<1>2. \A y \in T : ~(y < x)
  BY <1>1 DEF OpToRel
<1> QED
  BY <1>2

(***************************************************************************)
(* The regions of the memory map                                           *)
(***************************************************************************)

AllUnits == 0..Units - 1

MapTypes ==
  /\ type \in [AllUnits -> DOMAIN Availability]
  /\ cuts \in SUBSET (0..Units)
  /\ 0 \in cuts /\ Units \in cuts

\* Regions of two types have a bound between them.
CutInv == \A c \in AllUnits : c > 0 /\ type[c - 1] # type[c] => c \in cuts

Rank(u) == Cardinality({d \in Starts : d <= u})

LEMMA StartsFinite ==
  ASSUME MapTypes
  PROVE  /\ Starts \subseteq AllUnits /\ IsFiniteSet(Starts) /\ Cardinality(Starts) \in Nat
         /\ \A u \in AllUnits : Rank(u) \in Nat /\ Rank(u) <= Cardinality(Starts)
<1>1. Starts \subseteq AllUnits
  <2> SUFFICES ASSUME NEW c \in Starts
               PROVE  c \in AllUnits
    OBVIOUS
  <2>1. c \in 0..Units /\ c # Units
    BY DEF Starts, MapTypes
  <2> QED
    BY <2>1, Parameters DEF AllUnits
<1>2. IsFiniteSet(AllUnits)
  BY Parameters, FS_Interval DEF AllUnits
<1>3. IsFiniteSet(Starts) /\ Cardinality(Starts) \in Nat
  BY <1>1, <1>2, FS_Subset, FS_CardinalityType
<1>4. ASSUME NEW u \in AllUnits
      PROVE  Rank(u) \in Nat /\ Rank(u) <= Cardinality(Starts)
  <2>1. {d \in Starts : d <= u} \in SUBSET Starts
    OBVIOUS
  <2> QED
    BY <1>3, <2>1, FS_Subset, FS_CardinalityType DEF Rank
<1> QED
  BY <1>1, <1>3, <1>4

LEMMA RankOrder ==
  ASSUME MapTypes, NEW a \in AllUnits, NEW b \in AllUnits, a <= b
  PROVE  /\ Rank(a) <= Rank(b)
         /\ (\E d \in Starts : a < d /\ d <= b) => Rank(a) < Rank(b)
<1> DEFINE A == {d \in Starts : d <= a}
           B == {d \in Starts : d <= b}
<1>1. Starts \subseteq AllUnits /\ IsFiniteSet(Starts)
  BY StartsFinite
<1>2. A \in SUBSET B /\ B \in SUBSET Starts
  <2>1. \A d \in Starts : d \in Nat
    BY <1>1, Parameters DEF AllUnits
  <2>2. a \in Nat /\ b \in Nat
    BY Parameters DEF AllUnits
  <2>3. \A d \in Starts : d <= a => d <= b
    BY <2>1, <2>2
  <2> QED
    BY <2>3
<1>3. IsFiniteSet(A) /\ IsFiniteSet(B) /\ Cardinality(A) <= Cardinality(B)
        /\ Cardinality(A) \in Nat /\ Cardinality(B) \in Nat
        /\ (Cardinality(B) = Cardinality(A) => A = B)
  <2>1. IsFiniteSet(B)
    BY <1>1, <1>2, FS_Subset
  <2>2. IsFiniteSet(A) /\ Cardinality(A) <= Cardinality(B)
          /\ (Cardinality(B) = Cardinality(A) => A = B)
    BY <1>2, <2>1, FS_Subset
  <2> QED
    BY <2>1, <2>2, FS_CardinalityType
<1>4. ASSUME NEW d \in Starts, a < d, d <= b
      PROVE  A # B
  <2>1. d \in B /\ ~(d <= a) /\ d \in AllUnits
    BY <1>1, <1>4, Parameters DEF AllUnits
  <2> QED
    BY <2>1
<1>5. Rank(a) = Cardinality(A) /\ Rank(b) = Cardinality(B)
  BY DEF Rank
<1> HIDE DEF A, B
<1> QED
  BY <1>3, <1>4, <1>5

\* The array of regions has one at every index.
LEMMA RegionFound ==
  ASSUME MapTypes, NEW n \in 1..Cardinality(Starts)
  PROVE  RegionBase(n) \in Starts /\ Rank(RegionBase(n)) = n
<1>1. Starts \subseteq AllUnits /\ IsFiniteSet(Starts) /\ Cardinality(Starts) \in Nat
  BY StartsFinite
<1> DEFINE N == Cardinality(Starts)
           f == [c \in Starts |-> Rank(c)]
<1>2. ASSUME NEW c \in Starts
      PROVE  Rank(c) \in 1..N
  <2>1. c \in AllUnits /\ Rank(c) \in Nat /\ Rank(c) <= N
    BY <1>1, StartsFinite
  <2>2. c \in {d \in Starts : d <= c}
    BY <2>1, Parameters DEF AllUnits
  <2>3. Rank(c) # 0
    <3>1. IsFiniteSet({d \in Starts : d <= c})
      BY <1>1, FS_Subset
    <3> QED
      BY <2>2, <3>1, FS_EmptySet DEF Rank
  <2> QED
    BY <1>1, <2>1, <2>3
<1>3. ASSUME NEW c \in Starts, NEW d \in Starts, Rank(c) = Rank(d)
      PROVE  c = d
  <2>1. c \in AllUnits /\ d \in AllUnits /\ Rank(c) \in Nat
    BY <1>1, StartsFinite
  <2>2. ~(c < d) /\ ~(d < c)
    <3>1. c < d => Rank(c) < Rank(d)
      BY <2>1, RankOrder, Parameters DEF AllUnits
    <3>2. d < c => Rank(d) < Rank(c)
      BY <2>1, RankOrder, Parameters DEF AllUnits
    <3> QED
      BY <1>3, <2>1, <3>1, <3>2
  <2> QED
    BY <2>1, <2>2, Parameters DEF AllUnits
<1>4. f \in Injection(Starts, 1..N)
  BY <1>2, <1>3 DEF Injection, IsInjective
<1>5. IsFiniteSet(1..N) /\ Cardinality(1..N) = N
  BY <1>1, FS_Interval
<1>6. f \in Surjection(Starts, 1..N)
  BY <1>4, <1>5, FS_Injection
<1>7. \E c \in Starts : Rank(c) = n
  BY <1>6 DEF Surjection
<1> QED
  BY <1>7 DEF RegionBase, Rank

\* Where there is no bound the type stays the same.
LEMMA Uniform ==
  ASSUME MapTypes, CutInv, NEW a \in AllUnits, NEW b \in AllUnits, a <= b,
         \A c \in cuts : ~(a < c /\ c <= b)
  PROVE  type[b] = type[a]
<1>0. \A u \in AllUnits : u \in Nat
  BY Parameters DEF AllUnits
<1> DEFINE W == {u \in AllUnits : a <= u /\ u <= b /\ type[u] # type[a]}
<1>1. CASE W = {}
  BY <1>0, <1>1
<1>2. CASE W # {}
  <2>1. PICK u \in W : \A v \in W : u <= v
    BY <1>0, <1>2, LeastNumber
  <2>2. u \in AllUnits /\ a < u /\ u <= b /\ u - 1 \in AllUnits /\ a <= u - 1 /\ u - 1 <= b
    BY <1>0, <2>1, Parameters DEF AllUnits
  <2>3. type[u - 1] = type[a]
    BY <1>0, <2>1, <2>2
  <2>4. type[u - 1] # type[u]
    BY <2>1, <2>3
  <2>5. u \in cuts
    BY <1>0, <2>2, <2>4 DEF CutInv
  <2> QED
    BY <2>2, <2>5
<1> QED
  BY <1>1, <1>2

\* A region reaches from its first unit to the next bound, with one type.
LEMMA RegionExtent ==
  ASSUME MapTypes, CutInv, NEW n \in 1..Cardinality(Starts)
  PROVE  /\ RegionEnd(n) \in cuts /\ RegionBase(n) < RegionEnd(n) /\ RegionEnd(n) <= Units
         /\ \A u \in AllUnits : RegionBase(n) <= u /\ u < RegionEnd(n) =>
              type[u] = type[RegionBase(n)]
<1>1. PICK b \in Starts : b = RegionBase(n)
  BY RegionFound
<1>2. b \in AllUnits /\ b \in Nat /\ b < Units
  BY StartsFinite, Parameters DEF AllUnits
<1> DEFINE T == {c \in cuts : c > b}
<1>3. T \in SUBSET Nat /\ Units \in T
  <2>1. \A c \in cuts : c \in Nat
    BY Parameters DEF MapTypes
  <2> QED
    BY <1>2, <2>1, Parameters DEF MapTypes
<1>4. \E x \in T : \A y \in T : x <= y
  BY <1>3, LeastNumber
<1>5. PICK e : e = RegionEnd(n)
  OBVIOUS
<1>6. e \in T /\ \A y \in T : e <= y
  BY <1>1, <1>4, <1>5 DEF RegionEnd, Min
<1>7. ASSUME NEW u \in AllUnits, b <= u, u < e
      PROVE  type[u] = type[b]
  <2>1. \A c \in cuts : ~(b < c /\ c <= u)
    BY <1>2, <1>3, <1>6, <1>7, Parameters DEF AllUnits, MapTypes
  <2> QED
    BY <1>2, <1>7, <2>1, Uniform
<1> QED
  BY <1>1, <1>3, <1>5, <1>6, <1>7

(***************************************************************************)
(* memmap_insert_region                                                    *)
(***************************************************************************)

LEMMA Kinds ==
  /\ DOMAIN Availability = {"none", "available", "unavailable", "defective"}
  /\ Availability["none"] = 0 /\ Availability["available"] = 1
  /\ Availability["unavailable"] = 2 /\ Availability["defective"] = 3
BY DEF Availability

LEMMA LeastAvailable ==
  ASSUME NEW all \in SUBSET DOMAIN Availability, all # {}
  PROVE  \E t \in DOMAIN Availability :
           t \in all /\ \A other \in all : Availability[other] <= Availability[t]
BY Kinds

\* The types that meet at a unit: that of the map and those of the regions.
Meet(regions, u) ==
  {type[u]} \cup {r.type : r \in {s \in regions : u \in Span(s.base, s.length)}}

LEMMA InsertedTypes ==
  ASSUME MapTypes, NEW regions, InsertRegions(regions),
         \A r \in regions : r.type \in DOMAIN Availability \ {"none"}
  PROVE  /\ type' \in [AllUnits -> DOMAIN Availability]
         /\ \A u \in AllUnits :
              /\ type'[u] \in Meet(regions, u)
              /\ \A t \in Meet(regions, u) : Availability[t] <= Availability[type'[u]]
         /\ \A u, v \in AllUnits : Meet(regions, u) = Meet(regions, v) => type'[u] = type'[v]
<1> DEFINE best(S) == CHOOSE t \in DOMAIN Availability :
                        t \in S /\ \A other \in S : Availability[other] <= Availability[t]
<1>1. type' = [u \in AllUnits |-> best(Meet(regions, u))]
  BY DEF InsertRegions, Meet, MapTypes
<1>2. ASSUME NEW u \in AllUnits
      PROVE  Meet(regions, u) \in SUBSET DOMAIN Availability /\ Meet(regions, u) # {}
  BY DEF Meet, MapTypes
<1>3. ASSUME NEW S \in SUBSET DOMAIN Availability, S # {}
      PROVE  /\ best(S) \in DOMAIN Availability /\ best(S) \in S
             /\ \A t \in S : Availability[t] <= Availability[best(S)]
  BY <1>3, LeastAvailable
<1> HIDE DEF best
<1> QED
  BY <1>1, <1>2, <1>3

LEMMA Inserted ==
  ASSUME MapTypes, NEW regions, InsertRegions(regions),
         \A r \in regions : r.type \in DOMAIN Availability \ {"none"}
  PROVE  /\ type' \in [AllUnits -> DOMAIN Availability]
         /\ \A u \in AllUnits :
              /\ type'[u] = "available" <=>
                   /\ \/ type[u] = "available"
                      \/ type[u] = "none" /\ \E r \in regions : u \in Span(r.base, r.length)
                   /\ \A r \in regions : u \in Span(r.base, r.length) => r.type = "available"
              /\ type'[u] = "none" <=>
                   type[u] = "none" /\ \A r \in regions : u \notin Span(r.base, r.length)
<1>1. /\ type' \in [AllUnits -> DOMAIN Availability]
      /\ \A u \in AllUnits :
              /\ type'[u] \in Meet(regions, u)
              /\ \A t \in Meet(regions, u) : Availability[t] <= Availability[type'[u]]
  BY InsertedTypes
<1> SUFFICES ASSUME NEW u \in AllUnits
             PROVE  /\ type'[u] = "available" <=>
                         /\ \/ type[u] = "available"
                            \/ type[u] = "none" /\ \E r \in regions : u \in Span(r.base, r.length)
                         /\ \A r \in regions : u \in Span(r.base, r.length) => r.type = "available"
                    /\ type'[u] = "none" <=>
                         type[u] = "none" /\ \A r \in regions : u \notin Span(r.base, r.length)
  BY <1>1
<1> DEFINE over == {r \in regions : u \in Span(r.base, r.length)}
<1>2. /\ type[u] \in DOMAIN Availability /\ type'[u] \in DOMAIN Availability
      /\ Availability[type[u]] <= Availability[type'[u]]
      /\ \A r \in over : Availability[r.type] <= Availability[type'[u]]
      /\ type'[u] = type[u] \/ \E r \in over : type'[u] = r.type
      /\ \A r \in over : r.type \in DOMAIN Availability \ {"none"}
  BY <1>1 DEF Meet, MapTypes
<1> HIDE DEF over
<1>3. /\ type'[u] = "available" <=>
           /\ \/ type[u] = "available"
              \/ type[u] = "none" /\ over # {}
           /\ \A r \in over : r.type = "available"
      /\ type'[u] = "none" <=> type[u] = "none" /\ over = {}
  BY <1>2, Kinds
<1> QED
  BY <1>3 DEF over

LEMMA InsertedCuts ==
  ASSUME MapTypes, CutInv, NEW regions, InsertRegions(regions),
         \A r \in regions : /\ r.type \in DOMAIN Availability \ {"none"}
                            /\ r.base \in Nat /\ r.length \in Nat /\ r.base + r.length <= Units
  PROVE  /\ MapTypes' /\ CutInv'
         /\ \A c \in cuts' : c \in cuts \/ \E r \in regions : c \in {r.base, r.base + r.length}
         /\ ~merges => cuts \subseteq cuts'
         /\ ~merges => \A r \in regions : r.base \in cuts' /\ r.base + r.length \in cuts'
<1>1. /\ cuts' = {c \in cuts \cup {r.base : r \in regions} \cup {r.base + r.length : r \in regions} :
                merges /\ c \notin {0, Units} => type'[c - 1] # type'[c]}
      /\ merges' = merges
  BY DEF InsertRegions
<1>2. type' \in [AllUnits -> DOMAIN Availability]
  BY Inserted
<1>3. \A c \in cuts' : c \in cuts \/ \E r \in regions : c \in {r.base, r.base + r.length}
  BY <1>1
<1>4. MapTypes'
  <2>1. 0 \in cuts' /\ Units \in cuts'
    BY <1>1 DEF MapTypes
  <2>2. \A r \in regions : r.base \in 0..Units /\ r.base + r.length \in 0..Units
    BY Parameters
  <2>3. cuts' \in SUBSET (0..Units)
    BY <1>3, <2>2 DEF MapTypes
  <2> QED
    BY <1>2, <2>1, <2>3 DEF MapTypes
<1>5. ASSUME NEW c \in AllUnits, c > 0, type'[c - 1] # type'[c]
      PROVE  c \in cuts'
  <2>1. c \in Nat /\ c - 1 \in AllUnits /\ c # 0 /\ c # Units
    BY <1>5, Parameters DEF AllUnits
  <2>2. Meet(regions, c - 1) # Meet(regions, c)
    BY <1>5, <2>1, InsertedTypes
  <2>3. CASE type[c - 1] # type[c]
    <3>1. c \in cuts
      BY <1>5, <2>3 DEF CutInv
    <3> QED
      BY <1>1, <1>5, <3>1
  <2>4. CASE \E r \in regions : (c - 1 \in Span(r.base, r.length)) # (c \in Span(r.base, r.length))
    <3>1. PICK r \in regions : (c - 1 \in Span(r.base, r.length)) # (c \in Span(r.base, r.length))
      BY <2>4
    <3>2. PICK b \in Nat, l \in Nat : b = r.base /\ l = r.length
      OBVIOUS
    <3>3. (c - 1 \in b..(b + l - 1)) # (c \in b..(b + l - 1))
      BY <3>1, <3>2 DEF Span
    <3>4. c = b \/ c = b + l
      BY <2>1, <3>3
    <3> QED
      BY <1>1, <1>5, <3>2, <3>4
  <2>5. CASE /\ type[c - 1] = type[c]
             /\ \A r \in regions : (c - 1 \in Span(r.base, r.length)) <=> (c \in Span(r.base, r.length))
    BY <2>2, <2>5 DEF Meet
  <2> QED
    BY <2>3, <2>4, <2>5
<1>6. CutInv'
  BY <1>5 DEF CutInv
<1> QED
  BY <1>1, <1>3, <1>4, <1>6

(***************************************************************************)
(* The inductive invariant                                                 *)
(***************************************************************************)

\* The loader calls the unit available.
Given(u) ==
  /\ \E e \in Range(loader.entries) : u \in Span(e.base, e.length)
  /\ \A e \in Range(loader.entries) : u \in Span(e.base, e.length) => e.type = 1

InModules(u) == \E m \in Range(modules) : u \in Span(m.start, RoundUp(m.end - m.start))
InKernel(u) == u \in Span(kernel_pstart, kernel_pend - kernel_pstart)
InBitmap(u) == \E n \in 0..pages_mapped - 1 : u \in PageOf(linear[KernelPages + n])

BootTypes ==
  /\ step \in {"read", "bitmap", "ready", "fault"}
  /\ loader \in Loaders /\ tags \in SUBSET (0..Len(loader.modules))
  /\ modules \in Seq(Modules) /\ Range(modules) \subseteq Range(loader.modules)
  /\ linear \in [LinearPages -> Nat]
  /\ i \in Nat /\ i >= 1 /\ location \in Nat /\ region_end \in Nat
  /\ pages_mapped \in Nat /\ pages_needed \in Nat
  /\ page_map \in SUBSET Frames

\* What is available is what the loader says, without the modules, the kernel
\* and the frames of the bitmap.
AvailableInv ==
  \A u \in AllUnits :
    /\ 0 \notin tags => (type[u] = "available" <=>
         Given(u) /\ ~InModules(u) /\ ~(step # "read" /\ InKernel(u)) /\ ~InBitmap(u))
    /\ 0 \in tags => type[u] # "available" /\ (type[u] = "none" <=> ~InModules(u))

StepInv ==
  /\ step = "read" => /\ start_paging /\ page_map = {} /\ region_end = 0 /\ i = 1
                      /\ pages_mapped = 0 /\ pages_needed = 0
  /\ step # "read" => /\ tags = {} /\ pages_needed <= MaxNeeded
                      /\ \A n \in LinearPages : n >= KernelPages + pages_mapped => linear[n] = NULL
  /\ pages_mapped <= pages_needed
  /\ step # "ready" => page_map = {}
  /\ region_end # 0 => step = "bitmap"

\* The frames of the bitmap differ and hold nothing else.
BitmapInv ==
  \A n \in 0..pages_mapped - 1 :
    /\ linear[KernelPages + n] \in Frames
    /\ \A u \in PageOf(linear[KernelPages + n]) : u \notin Reserved
    /\ \A m \in 0..pages_mapped - 1 : linear[KernelPages + m] = linear[KernelPages + n] => m = n

\* What is left of the region is available.
RegionInv ==
  region_end # 0 =>
    /\ region_end <= Units /\ location % page_size = 0
    /\ \A u \in AllUnits : location <= u /\ u < region_end => type[u] = "available"

FreeInv == \A f \in page_map : \A u \in PageOf(f) : type[u] = "available"

BInv ==
  /\ BootTypes /\ MapTypes /\ CutInv
  /\ AvailableInv /\ StepInv /\ BitmapInv /\ RegionInv /\ FreeInv

\* Bounds of regions are those of the loader's or of pages.
BoundsInv ==
  \A c \in cuts : \/ c % page_size = 0 \/ c = Units
                  \/ \E e \in Range(loader.entries) : c \in {e.base, e.base + e.length}

\* As long as regions are not joined, the usable frames not taken yet lie
\* ahead.
ScanInv ==
  ~merges /\ step # "read" /\ pages_mapped < pages_needed =>
    /\ region_end # 0 => /\ region_end \in cuts
                         /\ \E b \in Starts : b < region_end /\ Rank(b) >= i
    /\ \A f \in Usable : \/ f \in Backing
                         \/ region_end = 0 /\ Rank(f) >= i
                         \/ region_end # 0 /\ f >= location
    /\ step # "bitmap" => region_end = 0 /\ i > Cardinality(Starts)

EndInv == step = "fault" => pages_mapped < pages_needed

SInv == BInv /\ BoundsInv /\ ScanInv /\ EndInv

(***************************************************************************)
(* The steps                                                               *)
(***************************************************************************)

\* Part of memory is taken out of the map.
LEMMA InsertUnavailable ==
  ASSUME MapTypes, CutInv, NEW base \in Nat, NEW length \in Nat, base + length <= Units,
         memmap_insert_region(base, length, "unavailable")
  PROVE  /\ MapTypes' /\ CutInv' /\ merges' = merges
         /\ \A u \in AllUnits :
              /\ type'[u] = "available" <=> type[u] = "available" /\ u \notin Span(base, length)
              /\ type'[u] = "none" <=> type[u] = "none" /\ u \notin Span(base, length)
         /\ \A c \in cuts' : c \in cuts \/ c \in {base, base + length}
         /\ ~merges => cuts \subseteq cuts'
<1> DEFINE regions == {[base |-> base, length |-> length, type |-> "unavailable"]}
<1>1. InsertRegions(regions) /\ merges' = merges
  BY DEF memmap_insert_region, InsertRegions
<1>2. \A r \in regions : /\ r.type = "unavailable" /\ r.base = base /\ r.length = length
                         /\ r.type \in DOMAIN Availability \ {"none"}
  BY Kinds
<1>3. \E r \in regions : r.base = base /\ r.length = length
  OBVIOUS
<1> HIDE DEF regions
<1>4. /\ MapTypes' /\ CutInv'
      /\ \A c \in cuts' : c \in cuts \/ \E r \in regions : c \in {r.base, r.base + r.length}
      /\ ~merges => cuts \subseteq cuts'
  BY <1>1, <1>2, InsertedCuts
<1>5. \A u \in AllUnits :
              /\ type'[u] = "available" <=>
                   /\ \/ type[u] = "available"
                      \/ type[u] = "none" /\ \E r \in regions : u \in Span(r.base, r.length)
                   /\ \A r \in regions : u \in Span(r.base, r.length) => r.type = "available"
              /\ type'[u] = "none" <=>
                   type[u] = "none" /\ \A r \in regions : u \notin Span(r.base, r.length)
  BY <1>1, <1>2, Inserted
<1>6. ASSUME NEW u \in AllUnits
      PROVE  /\ type'[u] = "available" <=> type[u] = "available" /\ u \notin Span(base, length)
             /\ type'[u] = "none" <=> type[u] = "none" /\ u \notin Span(base, length)
  <2>1. (\E r \in regions : u \in Span(r.base, r.length)) <=> u \in Span(base, length)
    BY <1>2, <1>3
  <2>2. (\A r \in regions : u \in Span(r.base, r.length) => r.type = "available")
          <=> u \notin Span(base, length)
    BY <1>2, <1>3
  <2> QED
    BY <1>5, <2>1, <2>2
<1> QED
  BY <1>1, <1>2, <1>4, <1>6

LEMMA LoaderTypes ==
  ASSUME loader \in Loaders
  PROVE  /\ loader.info_end \in Nat /\ loader.modules \in Seq(Modules)
         /\ \A e \in Range(loader.entries) :
              /\ e.base \in Nat /\ e.length \in Nat /\ e.type \in Nat
              /\ e.base + e.length <= Units
         /\ \A m \in Range(loader.modules) :
              /\ m \in Modules /\ m.start \in Nat /\ m.end \in Nat
              /\ m.start % page_size = 0 /\ m.start <= m.end
              /\ m.start + RoundUp(m.end - m.start) <= Units
<1>1. loader \in [entries : Seq(Entries), modules : Seq(Modules), info_end : Nat]
  BY BootAssumption
<1>2. \A s \in Seq(Entries) : \A e \in Range(s) : e \in Entries
  BY DEF Range
<1>3. \A s \in Seq(Modules) : \A m \in Range(s) : m \in Modules
  BY DEF Range
<1>4. \A e \in Range(loader.entries) : e \in Entries
  BY <1>1, <1>2
<1>5. \A m \in Range(loader.modules) : m \in Modules
  BY <1>1, <1>3
<1> QED
  BY <1>1, <1>4, <1>5, BootAssumption DEF Entries, Modules

\* Entries that end below 2^32 are read as they are.
LEMMA ReadAsGiven ==
  ASSUME loader \in Loaders
  PROVE  {[base |-> physaddr_t(e.base), length |-> physaddr_t(e.length),
           type |-> EntryType(e.type)] : e \in Range(loader.entries)}
         = {[base |-> e.base, length |-> e.length, type |-> EntryType(e.type)] :
              e \in Range(loader.entries)}
<1>1. \A n \in Nat : n < Word => n % Word = n
  <2>1. Word \in Nat
    BY BootAssumption
  <2>2. ASSUME NEW n \in Nat, NEW w \in Nat, n < w
        PROVE  n % w = n
    BY ONLY <2>2
  <2> QED
    BY <2>1, <2>2
<1>2. \A e \in Range(loader.entries) :
        /\ e.base \in Nat /\ e.length \in Nat
        /\ e.base < Word /\ e.length < Word
  <2> SUFFICES ASSUME NEW e \in Range(loader.entries)
               PROVE  /\ e.base \in Nat /\ e.length \in Nat
                      /\ e.base < Word /\ e.length < Word
    OBVIOUS
  <2>1. e.base \in Nat /\ e.length \in Nat /\ e.base + e.length <= Units
    BY LoaderTypes
  <2> QED
    BY <2>1, BootAssumption
<1>3. \A e \in Range(loader.entries) :
        physaddr_t(e.base) = e.base /\ physaddr_t(e.length) = e.length
  BY <1>1, <1>2 DEF physaddr_t
<1> QED
  BY <1>3

LEMMA InitBInv ==
  ASSUME Init
  PROVE  BInv
<1>1. MapTypes
  BY Kinds, Parameters DEF Init, MapTypes, AllUnits
<1>2. BootTypes
  <2>1. \A n \in LinearPages : n \in Nat /\ kernel_pstart + n * page_size \in Nat
    BY Parameters, KernelPagesType DEF LinearPages
  <2>2. linear \in [LinearPages -> Nat]
    BY <2>1, Parameters DEF Init, start_paging, NULL
  <2>3. modules \in Seq(Modules) /\ Range(modules) = {}
    BY DEF Init, Range
  <2> QED
    BY <2>2, <2>3 DEF Init, BootTypes
<1>3. CutInv
  <2>1. \A c \in AllUnits : c > 0 => c - 1 \in AllUnits
    BY Parameters DEF AllUnits
  <2> QED
    BY <2>1 DEF Init, CutInv, AllUnits
<1>4. AvailableInv
  <2>1. 0 \in tags
    BY <1>2, LoaderTypes DEF Init, BootTypes
  <2>2. \A u \in AllUnits : type[u] = "none"
    BY DEF Init, AllUnits
  <2>3. \A u : ~InModules(u)
    BY DEF Init, InModules, Range
  <2> QED
    BY <2>1, <2>2, <2>3 DEF AvailableInv
<1>5. StepInv
  BY Parameters DEF Init, StepInv
<1> QED
  BY <1>1, <1>2, <1>3, <1>4, <1>5 DEF BInv, BitmapInv, RegionInv, FreeInv, Init

\* Before initialize_page_map.
LEMMA ReadingKeeps ==
  ASSUME BootTypes', StepInv', pages_mapped' = 0, region_end' = 0, page_map' = {}
  PROVE  BitmapInv' /\ RegionInv' /\ FreeInv'
BY DEF BitmapInv, RegionInv, FreeInv

LEMMA ReadMapStep ==
  ASSUME BInv, ReadMap
  PROVE  BInv'
<1>0. /\ step = "read" /\ 0 \in tags /\ pages_mapped = 0 /\ region_end = 0 /\ page_map = {}
      /\ loader \in Loaders
      /\ UNCHANGED <<step, loader, modules, linear, i, location, region_end, pages_mapped,
                     pages_needed, page_map>>
      /\ tags' = tags \ {0}
  BY DEF ReadMap, BInv, BootTypes, StepInv, loop
<1> DEFINE regions == {[base |-> e.base, length |-> e.length, type |-> EntryType(e.type)] :
                         e \in Range(loader.entries)}
<1>1. InsertRegions(regions)
  BY <1>0, ReadAsGiven DEF ReadMap
<1>2. \A t \in Nat : /\ EntryType(t) \in DOMAIN Availability \ {"none"}
                     /\ EntryType(t) = "available" <=> t = 1
  BY Kinds DEF EntryType
<1>3. \A r \in regions : \E e \in Range(loader.entries) :
        r.base = e.base /\ r.length = e.length /\ r.type = EntryType(e.type)
  OBVIOUS
<1>4. \A e \in Range(loader.entries) : \E r \in regions :
        r.base = e.base /\ r.length = e.length /\ r.type = EntryType(e.type)
  <2> SUFFICES ASSUME NEW e \in Range(loader.entries)
               PROVE  \E r \in regions :
                        r.base = e.base /\ r.length = e.length /\ r.type = EntryType(e.type)
    OBVIOUS
  <2>1. [base |-> e.base, length |-> e.length, type |-> EntryType(e.type)] \in regions
    OBVIOUS
  <2> HIDE DEF regions
  <2> QED
    BY <2>1
<1> HIDE DEF regions
<1>5. \A r \in regions : /\ r.type \in DOMAIN Availability \ {"none"}
                         /\ r.base \in Nat /\ r.length \in Nat /\ r.base + r.length <= Units
  BY <1>0, <1>2, <1>3, LoaderTypes
<1>6. MapTypes' /\ CutInv'
  BY <1>1, <1>5, InsertedCuts DEF BInv
<1>7. \A u \in AllUnits :
              /\ type'[u] = "available" <=>
                   /\ \/ type[u] = "available"
                      \/ type[u] = "none" /\ \E r \in regions : u \in Span(r.base, r.length)
                   /\ \A r \in regions : u \in Span(r.base, r.length) => r.type = "available"
  BY <1>1, <1>5, Inserted DEF BInv
<1>8. AvailableInv'
  <2> SUFFICES ASSUME NEW u \in AllUnits
               PROVE  type'[u] = "available" <=> Given(u) /\ ~InModules(u)
    BY <1>0 DEF AvailableInv, InBitmap, InModules, Given, InKernel
  <2>1. type[u] # "available" /\ (type[u] = "none" <=> ~InModules(u))
    BY <1>0 DEF BInv, AvailableInv
  <2>2. (\E r \in regions : u \in Span(r.base, r.length)) <=>
          \E e \in Range(loader.entries) : u \in Span(e.base, e.length)
    BY <1>3, <1>4
  <2>3. (\A r \in regions : u \in Span(r.base, r.length) => r.type = "available") <=>
          \A e \in Range(loader.entries) : u \in Span(e.base, e.length) => e.type = 1
    <3>1. \A e \in Range(loader.entries) : EntryType(e.type) = "available" <=> e.type = 1
      BY <1>0, <1>2, LoaderTypes
    <3>2. ASSUME \A r \in regions : u \in Span(r.base, r.length) => r.type = "available",
                 NEW e \in Range(loader.entries), u \in Span(e.base, e.length)
          PROVE  e.type = 1
      BY <1>4, <3>1, <3>2
    <3>3. ASSUME \A e \in Range(loader.entries) : u \in Span(e.base, e.length) => e.type = 1,
                 NEW r \in regions, u \in Span(r.base, r.length)
          PROVE  r.type = "available"
      BY <1>3, <3>1, <3>3
    <3> QED
      BY <3>2, <3>3
  <2> QED
    BY <1>7, <2>1, <2>2, <2>3 DEF Given
<1>9. BootTypes' /\ StepInv'
  BY <1>0 DEF BInv, BootTypes, StepInv, start_paging
<1> QED
  BY <1>0, <1>6, <1>8, <1>9, ReadingKeeps DEF BInv

LEMMA ReadModuleStep ==
  ASSUME BInv, ReadModule
  PROVE  BInv'
<1>0. /\ step = "read" /\ pages_mapped = 0 /\ region_end = 0 /\ page_map = {}
      /\ loader \in Loaders /\ modules \in Seq(Modules)
      /\ Range(modules) \subseteq Range(loader.modules)
      /\ tags \in SUBSET (0..Len(loader.modules))
      /\ UNCHANGED <<step, loader, linear, i, location, region_end, pages_mapped,
                     pages_needed, page_map>>
  BY DEF ReadModule, BInv, BootTypes, StepInv, loop
<1>1. PICK n \in tags \ {0} :
        /\ tags' = tags \ {n}
        /\ \/ /\ modules' = Append(modules, loader.modules[n])
              /\ memmap_insert_region(loader.modules[n].start,
                   RoundUp(loader.modules[n].end - loader.modules[n].start), "unavailable")
           \/ UNCHANGED <<type, cuts, merges, modules>>
  BY DEF ReadModule, map
<1>2. PICK m \in Range(loader.modules) : m = loader.modules[n]
  <2>1. n \in 1..Len(loader.modules)
    BY <1>0, LoaderTypes
  <2> QED
    BY <1>0, <2>1, LoaderTypes DEF Range
<1>3. m \in Modules /\ m.start \in Nat /\ m.end - m.start \in Nat
        /\ m.start + RoundUp(m.end - m.start) <= Units
  BY <1>0, LoaderTypes
<1>4. CASE /\ modules' = Append(modules, m)
           /\ memmap_insert_region(m.start, RoundUp(m.end - m.start), "unavailable")
  <2>1. PICK length \in Nat : length = RoundUp(m.end - m.start)
    BY <1>3, RoundedUp
  <2>2. /\ MapTypes' /\ CutInv'
        /\ \A u \in AllUnits :
             /\ type'[u] = "available" <=> type[u] = "available" /\ u \notin Span(m.start, length)
             /\ type'[u] = "none" <=> type[u] = "none" /\ u \notin Span(m.start, length)
    BY <1>3, <1>4, <2>1, InsertUnavailable DEF BInv
  <2>3. modules' \in Seq(Modules) /\ Range(modules') = Range(modules) \cup {m}
    <3>1. \A s \in Seq(Modules) : Range(Append(s, m)) = Range(s) \cup {m}
      <4> SUFFICES ASSUME NEW s \in Seq(Modules)
                   PROVE  Range(Append(s, m)) = Range(s) \cup {m}
        OBVIOUS
      <4>1. /\ DOMAIN Append(s, m) = 1..Len(s) + 1 /\ DOMAIN s = 1..Len(s) /\ Len(s) \in Nat
            /\ \A j \in 1..Len(s) : Append(s, m)[j] = s[j]
            /\ Append(s, m)[Len(s) + 1] = m
        BY <1>3
      <4>2. 1..Len(s) + 1 = 1..Len(s) \cup {Len(s) + 1}
        BY <4>1
      <4> QED
        BY <4>1, <4>2 DEF Range
    <3> QED
      BY <1>0, <1>3, <1>4, <3>1
  <2>4. \A u : InModules(u)' <=> InModules(u) \/ u \in Span(m.start, length)
    BY <2>1, <2>3 DEF InModules
  <2>5. 0 \in tags' <=> 0 \in tags
    BY <1>1
  <2>6. AvailableInv'
    <3> SUFFICES ASSUME NEW u \in AllUnits
                 PROVE  /\ 0 \notin tags => (type'[u] = "available" <=> Given(u) /\ ~InModules(u)')
                        /\ 0 \in tags => /\ type'[u] # "available"
                                         /\ type'[u] = "none" <=> ~InModules(u)'
      BY <1>0, <2>5 DEF AvailableInv, Given, InBitmap
    <3>1. /\ 0 \notin tags => (type[u] = "available" <=> Given(u) /\ ~InModules(u))
          /\ 0 \in tags => type[u] # "available" /\ (type[u] = "none" <=> ~InModules(u))
      BY <1>0 DEF BInv, AvailableInv, InBitmap
    <3> QED
      BY <2>2, <2>4, <3>1
  <2>7. BootTypes' /\ StepInv'
    BY <1>0, <1>1, <2>3 DEF BInv, BootTypes, StepInv, start_paging
  <2> QED
    BY <1>0, <2>2, <2>6, <2>7, ReadingKeeps DEF BInv
<1>5. CASE UNCHANGED <<type, cuts, merges, modules>>
  <2>1. BootTypes' /\ StepInv'
    BY <1>0, <1>1, <1>5 DEF BInv, BootTypes, StepInv, start_paging
  <2>2. MapTypes' /\ CutInv'
    BY <1>5 DEF BInv, MapTypes, CutInv
  <2>3. AvailableInv'
    BY <1>0, <1>1, <1>5 DEF BInv, AvailableInv, Given, InModules, InBitmap
  <2> QED
    BY <1>0, <2>1, <2>2, <2>3, ReadingKeeps DEF BInv
<1> QED
  BY <1>1, <1>2, <1>4, <1>5

LEMMA StartupStep ==
  ASSUME BInv, x86_startup
  PROVE  BInv'
<1>0. /\ step = "read" /\ tags = {} /\ pages_mapped = 0 /\ region_end = 0 /\ page_map = {}
      /\ linear = [n \in LinearPages |->
                     IF kernel_pstart + n * page_size < loader.info_end
                     THEN kernel_pstart + n * page_size ELSE NULL]
      /\ linear \in [LinearPages -> Nat]
      /\ UNCHANGED <<loader, tags, modules, i, location, region_end, pages_mapped, page_map>>
      /\ step' = "bitmap" /\ pages_needed' \in 1..MaxNeeded
  BY DEF x86_startup, BInv, BootTypes, StepInv, start_paging
<1>1. linear' = [n \in LinearPages |-> IF n \in UnmappedPages THEN NULL ELSE linear[n]]
  BY DEF x86_startup
<1>2. linear' \in [LinearPages -> Nat]
  BY <1>0, <1>1, Parameters DEF NULL
<1>3. \A n \in LinearPages : n >= KernelPages + pages_mapped => linear'[n] = NULL
  <2>1. \A n \in LinearPages : n >= KernelPages => linear'[n] = NULL
    BY <1>0, <1>1 DEF UnmappedPages
  <2> QED
    BY <1>0, <2>1, KernelPagesType
<1>4. /\ MapTypes' /\ CutInv'
      /\ \A u \in AllUnits : type'[u] = "available" <=> type[u] = "available" /\ ~InKernel(u)
  <2>1. PICK b \in Nat, l \in Nat :
          b = kernel_pstart /\ l = kernel_pend - kernel_pstart /\ b + l <= Units
    BY Parameters
  <2>2. memmap_insert_region(b, l, "unavailable")
    BY <2>1 DEF x86_startup
  <2>3. /\ MapTypes' /\ CutInv'
        /\ \A u \in AllUnits : type'[u] = "available" <=> type[u] = "available" /\ u \notin Span(b, l)
    BY <2>1, <2>2, InsertUnavailable DEF BInv
  <2> QED
    BY <2>1, <2>3 DEF InKernel
<1>5. AvailableInv'
  <2> SUFFICES ASSUME NEW u \in AllUnits
               PROVE  type'[u] = "available" <=> Given(u) /\ ~InModules(u) /\ ~InKernel(u)
    BY <1>0 DEF AvailableInv, Given, InModules, InBitmap, InKernel
  <2>1. type[u] = "available" <=> Given(u) /\ ~InModules(u)
    BY <1>0 DEF BInv, AvailableInv, InBitmap
  <2> QED
    BY <1>4, <2>1
<1>6. BootTypes'
  BY <1>0, <1>2, Parameters DEF BInv, BootTypes
<1>7. StepInv'
  BY <1>0, <1>3, Parameters DEF StepInv
<1> QED
  BY <1>0, <1>4, <1>5, <1>6, <1>7, ReadingKeeps DEF BInv

\* What is available is not reserved.
LEMMA NotReserved ==
  ASSUME BInv, step # "read", NEW x \in AllUnits, type[x] = "available"
  PROVE  x \notin Reserved
<1>1. Given(x) /\ ~InModules(x) /\ ~InKernel(x)
  BY DEF BInv, AvailableInv, StepInv
<1>2. ASSUME NEW m \in Range(modules)
      PROVE  x \notin Span(m.start, m.end - m.start)
  <2>1. PICK s \in Nat, l \in Nat : s = m.start /\ l = m.end - m.start
    BY LoaderTypes DEF BInv, BootTypes
  <2>2. RoundUp(l) \in Nat /\ RoundUp(l) >= l
    BY RoundedUp
  <2>3. x \notin Span(s, RoundUp(l))
    BY <1>1, <2>1 DEF InModules
  <2>4. x \notin Span(s, l)
    BY <2>2, <2>3, Parameters DEF Span, AllUnits
  <2> QED
    BY <2>1, <2>4
<1> DEFINE K == Span(kernel_pstart, kernel_pend - kernel_pstart)
           M == UNION {Span(m.start, m.end - m.start) : m \in Range(modules)}
           L == {u \in 0..Units - 1 :
                  \/ ~\E e \in Range(loader.entries) : u \in Span(e.base, e.length)
                  \/ \E e \in Range(loader.entries) : u \in Span(e.base, e.length) /\ e.type # 1}
<1>4. x \notin L
  BY <1>1 DEF Given
<1>5. x \notin K
  BY <1>1 DEF InKernel
<1>6. Reserved = K \cup M \cup L
  BY DEF Reserved
<1>7. x \notin M
  BY <1>2
<1> HIDE DEF K, L, M
<1> QED
  BY <1>4, <1>5, <1>6, <1>7

\* The memory map and the bitmap stay.
LEMMA MapStays ==
  ASSUME BInv, UNCHANGED <<loader, tags, type, cuts, modules, linear, pages_mapped, pages_needed>>,
         step # "read", step' # "read"
  PROVE  MapTypes' /\ CutInv' /\ AvailableInv' /\ BitmapInv'
<1>1. MapTypes' /\ CutInv'
  BY DEF BInv, MapTypes, CutInv
<1>2. AvailableInv'
  BY DEF BInv, AvailableInv, Given, InModules, InKernel, InBitmap
<1>3. Reserved' = Reserved
  BY DEF Reserved
<1>4. BitmapInv'
  BY <1>3 DEF BInv, BitmapInv
<1> QED
  BY <1>1, <1>2, <1>4

LEMMA SkipRegionStep ==
  ASSUME BInv, SkipRegion
  PROVE  BInv'
<1>0. /\ step = "bitmap" /\ region_end = 0 /\ i' = i + 1
      /\ UNCHANGED <<step, loader, tags, type, cuts, modules, linear, location, region_end,
                     pages_mapped, pages_needed, page_map>>
  BY DEF SkipRegion, Searching, PassRegion, map
<1>1. MapTypes' /\ CutInv' /\ AvailableInv' /\ BitmapInv'
  BY <1>0, MapStays
<1>2. BootTypes' /\ StepInv' /\ RegionInv' /\ FreeInv'
  BY <1>0 DEF BInv, BootTypes, StepInv, RegionInv, FreeInv
<1> QED
  BY <1>1, <1>2 DEF BInv

LEMMA EnterRegionStep ==
  ASSUME BInv, EnterRegion
  PROVE  BInv'
<1>0. /\ step = "bitmap" /\ region_end = 0 /\ i \in 1..Cardinality(Starts)
      /\ UNCHANGED <<step, loader, tags, type, cuts, modules, linear, i,
                     pages_mapped, pages_needed, page_map>>
  BY StartsFinite DEF EnterRegion, Searching, MoreRegions, map, BInv, BootTypes
<1>1. PICK n \in 1..Cardinality(Starts) : n = i
  BY <1>0
<1>2. PICK b \in Starts : b = RegionBase(n)
  BY <1>1, RegionFound DEF BInv
<1>3. PICK e \in cuts : e = RegionEnd(n)
  BY RegionExtent DEF BInv
<1>4. /\ b \in Nat /\ e \in Nat /\ b < e /\ e <= Units
      /\ \A u \in AllUnits : b <= u /\ u < e => type[u] = "available"
  <2>1. b \in Nat /\ e \in Nat
    BY <1>2, <1>3, StartsFinite, Parameters DEF BInv, MapTypes, AllUnits
  <2>2. type[b] = "available"
    BY <1>1, <1>2 DEF EnterRegion
  <2> QED
    BY <1>2, <1>3, <2>1, <2>2, RegionExtent DEF BInv
<1>5. location' = RoundUp(b) /\ region_end' = e
  BY <1>1, <1>2, <1>3 DEF EnterRegion, FirstPage
<1>6. location' \in Nat /\ location' >= b /\ location' % page_size = 0
  BY <1>4, <1>5, RoundedUp
<1>7. RegionInv'
  <2>1. \A u \in AllUnits : location' <= u /\ u < e => b <= u
    BY <1>4, <1>6, Parameters DEF AllUnits
  <2> QED
    BY <1>0, <1>4, <1>5, <1>6, <2>1 DEF RegionInv
<1>8. MapTypes' /\ CutInv' /\ AvailableInv' /\ BitmapInv'
  BY <1>0, MapStays
<1>9. BootTypes' /\ StepInv' /\ FreeInv'
  BY <1>0, <1>4, <1>5, <1>6 DEF BInv, BootTypes, StepInv, FreeInv
<1> QED
  BY <1>7, <1>8, <1>9 DEF BInv

LEMMA LeaveRegionStep ==
  ASSUME BInv, LeaveRegion
  PROVE  BInv'
<1>0. /\ step = "bitmap" /\ region_end' = 0 /\ i' = i + 1
      /\ UNCHANGED <<step, loader, tags, type, cuts, modules, linear, location,
                     pages_mapped, pages_needed, page_map>>
  BY DEF LeaveRegion, map
<1>1. MapTypes' /\ CutInv' /\ AvailableInv' /\ BitmapInv'
  BY <1>0, MapStays
<1>2. BootTypes' /\ StepInv' /\ RegionInv' /\ FreeInv'
  BY <1>0 DEF BInv, BootTypes, StepInv, RegionInv, FreeInv
<1> QED
  BY <1>1, <1>2 DEF BInv

LEMMA InitializeHeapStep ==
  ASSUME BInv, InitializeHeap
  PROVE  BInv'
<1>0. /\ step = "bitmap" /\ region_end = 0 /\ step' \in {"fault", "ready"}
      /\ step' = "fault" => page_map' = page_map
      /\ step' = "ready" =>
           page_map' = {f \in Frames : \A u \in PageOf(f) : type[u] = "available"}
      /\ UNCHANGED <<loader, tags, type, cuts, modules, linear, i, location, region_end,
                     pages_mapped, pages_needed>>
  BY DEF InitializeHeap, map, loop
<1>1. MapTypes' /\ CutInv' /\ AvailableInv' /\ BitmapInv'
  BY <1>0, MapStays
<1>2. BootTypes' /\ StepInv' /\ RegionInv'
  BY <1>0 DEF BInv, BootTypes, StepInv, RegionInv
<1>3. FreeInv'
  BY <1>0 DEF BInv, FreeInv
<1> QED
  BY <1>1, <1>2, <1>3 DEF BInv

LEMMA MapBitmapPageStep ==
  ASSUME BInv, MapBitmapPage
  PROVE  BInv' /\ Backing' = Backing \cup {location} /\ location \notin Backing
<1>0. /\ step = "bitmap" /\ region_end # 0 /\ location + page_size <= region_end
      /\ pages_mapped < pages_needed /\ region_end <= Units /\ location % page_size = 0
      /\ location \in Nat /\ region_end \in Nat /\ pages_mapped \in Nat /\ pages_needed \in Nat
      /\ pages_needed <= MaxNeeded /\ tags = {}
      /\ linear \in [LinearPages -> Nat]
      /\ UNCHANGED <<step, loader, tags, modules, i, region_end, pages_needed, page_map>>
      /\ pages_mapped' = pages_mapped + 1 /\ location' = location + page_size
  BY DEF MapBitmapPage, Inside, BInv, BootTypes, StepInv, RegionInv
<1>1. PICK k \in LinearPages : k = KernelPages + pages_mapped
  BY <1>0, Parameters, KernelPagesType DEF LinearPages
<1>2. /\ linear' = [linear EXCEPT ![k] = location]
      /\ \A n \in LinearPages : n >= k => linear[n] = NULL
  BY <1>0, <1>1 DEF MapBitmapPage, BInv, StepInv
<1>3. PICK f \in Frames : f = location
  BY <1>0, Parameters DEF Frames
<1>4. f \in Nat /\ f + page_size <= Units /\ \A u \in PageOf(f) : u \in AllUnits /\ u < region_end
                                                                /\ f <= u
  BY <1>0, <1>3, Parameters DEF PageOf, Span, AllUnits
<1>5. \A u \in PageOf(f) : u \in AllUnits /\ type[u] = "available"
  BY <1>0, <1>3, <1>4 DEF BInv, RegionInv
<1>6. /\ MapTypes' /\ CutInv'
      /\ \A u \in AllUnits : type'[u] = "available" <=> type[u] = "available" /\ u \notin PageOf(f)
  <2>1. memmap_insert_region(f, page_size, "unavailable")
    BY <1>3 DEF MapBitmapPage, TakeFrame
  <2> QED
    BY <1>4, <2>1, Parameters, InsertUnavailable DEF BInv, PageOf
<1>7. /\ linear' \in [LinearPages -> Nat] /\ linear'[k] = f
      /\ \A n \in LinearPages : n # k => linear'[n] = linear[n]
  BY <1>0, <1>2, <1>3
<1>8. /\ 0..pages_mapped' - 1 = 0..pages_mapped - 1 \cup {pages_mapped}
      /\ \A n \in 0..pages_mapped - 1 :
           KernelPages + n \in LinearPages /\ KernelPages + n # k
  BY <1>0, <1>1, KernelPagesType, Parameters DEF LinearPages
<1>9. \A u : InBitmap(u)' <=> InBitmap(u) \/ u \in PageOf(f)
  BY <1>1, <1>7, <1>8 DEF InBitmap
<1>10. AvailableInv'
  <2> SUFFICES ASSUME NEW u \in AllUnits
               PROVE  type'[u] = "available" <=>
                        Given(u) /\ ~InModules(u) /\ ~InKernel(u) /\ ~InBitmap(u)'
    BY <1>0 DEF AvailableInv, Given, InModules, InKernel
  <2>1. type[u] = "available" <=> Given(u) /\ ~InModules(u) /\ ~InKernel(u) /\ ~InBitmap(u)
    BY <1>0 DEF BInv, AvailableInv
  <2> QED
    BY <1>6, <1>9, <2>1
<1>11. Reserved' = Reserved
  BY <1>0 DEF Reserved
<1>12. f \in PageOf(f)
  BY <1>4, Parameters DEF PageOf, Span
<1>13. ~InBitmap(f)
  BY <1>0, <1>5, <1>12 DEF BInv, AvailableInv
<1>14. \A n \in 0..pages_mapped - 1 : linear[KernelPages + n] # f
  BY <1>12, <1>13 DEF InBitmap
<1>15. BitmapInv'
  <2>1. \A u \in PageOf(f) : u \notin Reserved
    BY <1>0, <1>5, NotReserved
  <2>2. ASSUME NEW n \in 0..pages_mapped
        PROVE  /\ linear'[KernelPages + n] \in Frames
               /\ \A u \in PageOf(linear'[KernelPages + n]) : u \notin Reserved
               /\ \A m \in 0..pages_mapped :
                    linear'[KernelPages + m] = linear'[KernelPages + n] => m = n
    <3>2. \A m \in 0..pages_mapped : m # pages_mapped => m \in 0..pages_mapped - 1
      BY <1>0
    <3>1. \A m \in 0..pages_mapped :
            linear'[KernelPages + m] = IF m = pages_mapped THEN f ELSE linear[KernelPages + m]
      <4> SUFFICES ASSUME NEW m \in 0..pages_mapped
                   PROVE  linear'[KernelPages + m] =
                            IF m = pages_mapped THEN f ELSE linear[KernelPages + m]
        OBVIOUS
      <4>1. CASE m = pages_mapped
        BY <1>1, <1>7, <4>1
      <4>2. CASE m # pages_mapped
        BY <1>7, <1>8, <3>2, <4>2
      <4> QED
        BY <4>1, <4>2
    <3>3. n # pages_mapped =>
            /\ linear[KernelPages + n] \in Frames
            /\ \A u \in PageOf(linear[KernelPages + n]) : u \notin Reserved
      BY <3>2 DEF BInv, BitmapInv
    <3>4. \A m \in 0..pages_mapped :
            linear'[KernelPages + m] = linear'[KernelPages + n] => m = n
      <4> SUFFICES ASSUME NEW m \in 0..pages_mapped,
                          linear'[KernelPages + m] = linear'[KernelPages + n]
                   PROVE  m = n
        OBVIOUS
      <4>1. CASE m # pages_mapped /\ n # pages_mapped
        BY <3>1, <3>2, <4>1 DEF BInv, BitmapInv
      <4>2. CASE m = pages_mapped \/ n = pages_mapped
        BY <1>14, <3>1, <3>2, <4>2
      <4> QED
        BY <4>1, <4>2
    <3> QED
      BY <2>1, <3>1, <3>3, <3>4
  <2>3. 0..pages_mapped' - 1 = 0..pages_mapped
    BY <1>0
  <2> QED
    BY <1>11, <2>2, <2>3 DEF BitmapInv
<1>16. RegionInv'
  <2>1. location' % page_size = 0
    BY <1>0, Parameters, NextMultiple
  <2>2. ASSUME NEW u \in AllUnits, location' <= u, u < region_end
        PROVE  type'[u] = "available"
    <3>1. location <= u /\ u \notin PageOf(f)
      BY <1>0, <1>3, <2>2, Parameters DEF AllUnits, PageOf, Span
    <3>2. type[u] = "available"
      BY <1>0, <2>2, <3>1 DEF BInv, RegionInv
    <3> QED
      BY <1>6, <3>1, <3>2
  <2> QED
    BY <1>0, <2>1, <2>2 DEF RegionInv
<1>17. StepInv'
  <2>1. \A n \in LinearPages : n >= KernelPages + pages_mapped' => linear'[n] = NULL
    BY <1>0, <1>1, <1>2, <1>7, KernelPagesType DEF LinearPages
  <2> QED
    BY <1>0, <2>1 DEF BInv, StepInv
<1>18. BootTypes' /\ FreeInv'
  BY <1>0, <1>7, Parameters DEF BInv, BootTypes, StepInv, FreeInv
<1>19. Backing' = Backing \cup {f} /\ f \notin Backing
  BY <1>1, <1>7, <1>8, <1>14 DEF Backing
<1> QED
  BY <1>3, <1>6, <1>10, <1>15, <1>16, <1>17, <1>18, <1>19 DEF BInv

LEMMA BootStays ==
  ASSUME BInv, UNCHANGED vars
  PROVE  BInv'
<1>1. UNCHANGED <<step, loader, tags, type, cuts, merges, modules, linear, i, location,
                  region_end, pages_mapped, pages_needed, page_map>>
  BY DEF vars, map, loop
<1>2. MapTypes' /\ CutInv' /\ BootTypes' /\ RegionInv' /\ FreeInv'
  BY <1>1 DEF BInv, MapTypes, CutInv, BootTypes, RegionInv, FreeInv
<1>3. StepInv' /\ AvailableInv'
  BY <1>1 DEF BInv, StepInv, start_paging, AvailableInv, Given, InModules, InKernel, InBitmap
<1>4. Reserved' = Reserved
  BY <1>1 DEF Reserved
<1>5. BitmapInv'
  BY <1>1, <1>4 DEF BInv, BitmapInv
<1> QED
  BY <1>2, <1>3, <1>5 DEF BInv

LEMMA NextBInv ==
  ASSUME BInv, [Next]_vars
  PROVE  BInv'
<1>1. CASE UNCHANGED vars
  BY <1>1, BootStays
<1>2. CASE Ended
  BY <1>2, BootStays DEF Ended
<1> QED
  BY <1>1, <1>2, ReadMapStep, ReadModuleStep, StartupStep, SkipRegionStep, EnterRegionStep,
     MapBitmapPageStep, LeaveRegionStep, InitializeHeapStep
  DEF Next

(***************************************************************************)
(* The search overlooks no usable frame                                    *)
(***************************************************************************)

LEMMA Multiples ==
  ASSUME NEW p \in Nat, p > 0, NEW a \in Nat, NEW b \in Nat, a % p = 0, b % p = 0
  PROVE  (a + b) % p = 0 /\ (a <= b => (b - a) % p = 0)
<1>1. PICK q \in Nat : q = a \div p /\ a = p * q
  BY Division
<1>2. PICK r \in Nat : r = b \div p /\ b = p * r
  BY Division
<1>3. (a + b) % p = 0
  <2>1. p * q + p * r = p * (q + r)
    OBVIOUS
  <2> QED
    BY <1>1, <1>2, <2>1, Multiple
<1>4. ASSUME a <= b
      PROVE  (b - a) % p = 0
  <2>1. q <= r
    <3>1. r < q => r + 1 <= q
      OBVIOUS
    <3>2. r + 1 <= q => p * (r + 1) <= p * q
      BY Monotone
    <3>3. p * (r + 1) = p * r + p
      OBVIOUS
    <3> QED
      BY <1>1, <1>2, <1>4, <3>1, <3>2, <3>3
  <2>2. PICK s \in Nat : r = q + s
    <3>1. r - q \in Nat /\ r = q + (r - q)
      BY <2>1
    <3> QED
      BY <3>1
  <2>3. p * (q + s) = p * q + p * s /\ p * s \in Nat
    BY Multiple
  <2>4. b - a = p * s
    BY <1>1, <1>2, <2>2, <2>3
  <2> QED
    BY <2>4, Multiple
<1> QED
  BY <1>3, <1>4

\* Two frames that overlap are one.
LEMMA FramesApart ==
  ASSUME NEW f \in Frames, NEW g \in Frames, NEW u, u \in PageOf(f), u \in PageOf(g)
  PROVE  f = g
<1>1. /\ f \in Nat /\ g \in Nat /\ f % page_size = 0 /\ g % page_size = 0
      /\ u \in Int /\ f <= u /\ u < f + page_size /\ g <= u /\ u < g + page_size
  BY Parameters DEF Frames, PageOf, Span
<1>2. f < g => f + page_size <= g
  BY <1>1, Parameters, Apart
<1>3. g < f => g + page_size <= f
  BY <1>1, Parameters, Apart
<1> QED
  BY <1>1, <1>2, <1>3, Parameters

\* A usable frame is available as long as it is not taken.
LEMMA UsableAvailable ==
  ASSUME BInv, step # "read", NEW f \in Usable, f \notin Backing
  PROVE  /\ f \in Frames
         /\ \A u \in PageOf(f) : u \in AllUnits /\ type[u] = "available"
<1>1. /\ f \in Frames /\ PageOf(f) \cap Reserved = {}
      /\ f \in Nat /\ f % page_size = 0 /\ f + page_size <= Units
  BY Parameters DEF Usable, Frames
<1> SUFFICES ASSUME NEW x \in PageOf(f)
             PROVE  x \in AllUnits /\ type[x] = "available"
  BY <1>1
<1>2. x \in AllUnits /\ x \in Nat /\ f <= x /\ x < f + page_size
  BY <1>1, Parameters DEF PageOf, Span, AllUnits
<1>3. x \notin Reserved /\ f \notin Reserved
  <2>1. f \in PageOf(f)
    BY <1>1, Parameters DEF PageOf, Span
  <2> QED
    BY <1>1, <2>1
<1> DEFINE K == Span(kernel_pstart, kernel_pend - kernel_pstart)
           M == UNION {Span(m.start, m.end - m.start) : m \in Range(modules)}
           L == {u \in 0..Units - 1 :
                  \/ ~\E e \in Range(loader.entries) : u \in Span(e.base, e.length)
                  \/ \E e \in Range(loader.entries) : u \in Span(e.base, e.length) /\ e.type # 1}
<1>4. Reserved = K \cup M \cup L
  BY DEF Reserved
<1>5. f \notin M => \A m \in Range(modules) : f \notin Span(m.start, m.end - m.start)
  OBVIOUS
<1>6. x \notin L => Given(x)
  BY <1>2 DEF Given, AllUnits
<1>7. x \notin K => ~InKernel(x)
  BY DEF InKernel
<1> HIDE DEF K, L, M
<1>8. Given(x) /\ ~InKernel(x) /\ \A m \in Range(modules) : f \notin Span(m.start, m.end - m.start)
  BY <1>3, <1>4, <1>5, <1>6, <1>7
<1>9. ASSUME NEW m \in Range(modules)
      PROVE  x \notin Span(m.start, RoundUp(m.end - m.start))
  <2>1. PICK s \in Nat, l \in Nat : s = m.start /\ l = m.end - m.start /\ s % page_size = 0
    BY LoaderTypes DEF BInv, BootTypes
  <2>2. PICK r \in Nat : r = RoundUp(l)
    BY RoundedUp
  <2>3. f \notin s..(s + l - 1)
    BY <1>8, <2>1 DEF Span
  <2>4. f < s => f + page_size <= s
    BY <1>1, <2>1, Parameters, Apart
  <2>5. ASSUME s <= f, l <= f - s
        PROVE  r <= f - s
    <3>1. f - s \in Nat
      BY <1>1, <2>1, <2>5
    <3>2. (f - s) % page_size = 0
      BY <1>1, <2>1, <2>5, Parameters, Multiples
    <3> QED
      BY <2>2, <2>5, <3>1, <3>2, RoundedUp
  <2>6. x \notin s..(s + r - 1)
    BY <1>1, <1>2, <2>3, <2>4, <2>5, Parameters
  <2> QED
    BY <2>1, <2>2, <2>6 DEF Span
<1>10. ~InModules(x)
  BY <1>9 DEF InModules
<1>11. ~InBitmap(x)
  <2> SUFFICES ASSUME NEW n \in 0..pages_mapped - 1, x \in PageOf(linear[KernelPages + n])
               PROVE  FALSE
    BY DEF InBitmap
  <2>1. linear[KernelPages + n] \in Frames
    BY DEF BInv, BitmapInv
  <2>2. linear[KernelPages + n] = f
    BY <1>1, <2>1, FramesApart
  <2> QED
    BY <2>2 DEF Backing
<1> QED
  BY <1>2, <1>8, <1>10, <1>11 DEF BInv, AvailableInv, StepInv

\* Each such frame lies in one region, and no region begins or ends in it.
Ahead ==
  \A f \in Usable : f \notin Backing =>
    /\ f \in AllUnits /\ f % page_size = 0
    /\ \A d \in cuts : ~(f < d /\ d < f + page_size)
    /\ \E c \in Starts : /\ c <= f /\ type[c] = "available"
                         /\ \A d \in cuts : ~(c < d /\ d <= f)
    /\ Rank(f) >= 1

LEMMA UsableAhead == BInv /\ BoundsInv /\ step # "read" => Ahead
<1> SUFFICES ASSUME BInv, BoundsInv, step # "read", NEW f \in Usable, f \notin Backing
             PROVE  /\ f \in AllUnits /\ f % page_size = 0
                    /\ \A d \in cuts : ~(f < d /\ d < f + page_size)
                    /\ \E c \in Starts : /\ c <= f /\ type[c] = "available"
                                         /\ \A d \in cuts : ~(c < d /\ d <= f)
                    /\ Rank(f) >= 1
  BY DEF Ahead
<1>1. /\ f \in Frames /\ f \in Nat /\ f \in AllUnits
      /\ f % page_size = 0 /\ f + page_size <= Units
      /\ type[f] = "available"
  <2>1. f \in Frames /\ \A u \in PageOf(f) : u \in AllUnits /\ type[u] = "available"
    BY UsableAvailable
  <2>2. f \in PageOf(f) /\ f \in Nat /\ f % page_size = 0 /\ f + page_size <= Units
    BY <2>1, Parameters DEF PageOf, Span, Frames
  <2> QED
    BY <2>1, <2>2
<1>2. \A d \in cuts : d \in Nat /\ d <= Units
  BY Parameters DEF BInv, MapTypes
<1>3. ASSUME NEW d \in cuts, f < d, d < f + page_size
      PROVE  FALSE
  <2>1. d \in PageOf(f) \ {f}
    BY <1>1, <1>2, <1>3, Parameters DEF PageOf, Span
  <2>2. \A e \in Range(loader.entries) : d \notin {e.base, e.base + e.length}
    BY <2>1 DEF Usable
  <2>3. d # Units
    BY <1>1, <1>2, <1>3, Parameters
  <2>4. d % page_size = 0
    BY <2>2, <2>3 DEF BoundsInv
  <2>5. f + page_size <= d
    BY <1>1, <1>2, <1>3, <2>4, Parameters, Apart
  <2> QED
    BY <1>1, <1>2, <1>3, <2>5, Parameters
<1>4. PICK c \in cuts : c <= f /\ \A d \in cuts : ~(c < d /\ d <= f)
  <2> DEFINE T == {n \in Nat : n <= f /\ f - n \in cuts}
  <2>1. f \in T
    BY <1>1 DEF BInv, MapTypes
  <2>2. PICK n \in T : \A m \in T : n <= m
    BY <2>1, LeastNumber
  <2>3. f - n \in cuts /\ f - n <= f
    BY <1>1, <2>2
  <2>4. ASSUME NEW d \in cuts, f - n < d, d <= f
        PROVE  FALSE
    <3>1. f - d \in Nat /\ f - d <= f /\ f - (f - d) = d
      BY <1>1, <1>2, <2>4
    <3>2. n <= f - d
      BY <2>2, <2>4, <3>1
    <3> QED
      BY <1>1, <1>2, <2>2, <2>4, <3>2
  <2> QED
    BY <2>3, <2>4
<1>5. c \in AllUnits /\ c \in Nat
  BY <1>1, <1>2, <1>4, Parameters DEF AllUnits
<1>6. type[c] = "available"
  BY <1>1, <1>4, <1>5, Uniform DEF BInv
<1>7. c \in Starts
  BY <1>5, <1>6, Parameters DEF Starts, AllUnits
<1>8. Rank(f) >= 1
  <2>1. IsFiniteSet({d \in Starts : d <= f})
    BY StartsFinite, FS_Subset DEF BInv
  <2>2. Rank(f) # 0
    BY <1>4, <1>7, <2>1, FS_EmptySet DEF Rank
  <2>3. Rank(f) \in Nat
    BY <1>1, StartsFinite DEF BInv
  <2> QED
    BY <2>2, <2>3
<1> QED
  BY <1>1, <1>3, <1>4, <1>6, <1>7, <1>8

LEMMA UsableAheadNext == (BInv /\ BoundsInv /\ step # "read")' => Ahead'
BY UsableAhead, PTL

LEMMA RankGrows ==
  ASSUME MapTypes, MapTypes', Starts \subseteq Starts', NEW u \in AllUnits
  PROVE  Rank(u) <= Rank(u)'
<1> DEFINE A == {d \in Starts : d <= u}
           B == {d \in Starts' : d <= u}
<1>1. A \in SUBSET B
  OBVIOUS
<1>2. Starts' \subseteq AllUnits
  <2> SUFFICES ASSUME NEW c \in Starts'
               PROVE  c \in AllUnits
    OBVIOUS
  <2>1. c \in 0..Units /\ c # Units
    BY DEF Starts, MapTypes
  <2> QED
    BY <2>1, Parameters DEF AllUnits
<1>3. IsFiniteSet(B)
  <2>1. IsFiniteSet(AllUnits)
    BY Parameters, FS_Interval DEF AllUnits
  <2>2. B \in SUBSET AllUnits
    BY <1>2
  <2> QED
    BY <2>1, <2>2, FS_Subset
<1>4. Cardinality(A) <= Cardinality(B)
  BY <1>1, <1>3, FS_Subset
<1> QED
  BY <1>4 DEF Rank

\* The bounds that each step adds.
LEMMA BoundsStep ==
  ASSUME BInv, BoundsInv, [Next]_vars
  PROVE  BoundsInv'
<1>0. page_size \in Nat /\ page_size > 0
  BY Parameters
<1>1. CASE cuts' = cuts /\ loader' = loader
  BY <1>1 DEF BoundsInv
<1>2. ASSUME loader' = loader,
             \A c \in cuts' : c \in cuts \/ c % page_size = 0
      PROVE  BoundsInv'
  BY <1>2 DEF BoundsInv
<1>3. ASSUME NEW base \in Nat, NEW length \in Nat, base + length <= Units,
             base % page_size = 0, length % page_size = 0, loader' = loader,
             memmap_insert_region(base, length, "unavailable")
      PROVE  BoundsInv'
  <2>1. (base + length) % page_size = 0
    BY <1>0, <1>3, Multiples
  <2>2. \A c \in cuts' : c \in cuts \/ c \in {base, base + length}
    BY <1>3, InsertUnavailable DEF BInv
  <2> QED
    BY <1>2, <1>3, <2>1, <2>2
<1>4. CASE ReadMap
  <2>1. loader' = loader /\ loader \in Loaders
    BY <1>4 DEF ReadMap, BInv, BootTypes
  <2> DEFINE regions == {[base |-> e.base, length |-> e.length, type |-> EntryType(e.type)] :
                           e \in Range(loader.entries)}
  <2>2. cuts' \subseteq cuts \cup {r.base : r \in regions} \cup {r.base + r.length : r \in regions}
    BY <1>4, <2>1, ReadAsGiven DEF ReadMap, InsertRegions
  <2>3. \A r \in regions : \E e \in Range(loader.entries) : r.base = e.base /\ r.length = e.length
    OBVIOUS
  <2> HIDE DEF regions
  <2>4. \A c \in cuts' : c \in cuts \/ \E e \in Range(loader.entries) : c \in {e.base, e.base + e.length}
    BY <2>2, <2>3
  <2> QED
    BY <2>1, <2>4 DEF BoundsInv
<1>5. CASE ReadModule
  <2>1. PICK n \in tags \ {0} :
          \/ memmap_insert_region(loader.modules[n].start,
                 RoundUp(loader.modules[n].end - loader.modules[n].start), "unavailable")
          \/ UNCHANGED cuts
    BY <1>5 DEF ReadModule, map
  <2>2. loader' = loader /\ loader \in Loaders
    BY <1>5 DEF ReadModule, BInv, BootTypes
  <2>3. PICK m \in Range(loader.modules) : m = loader.modules[n]
    <3>1. n \in 1..Len(loader.modules)
      BY <2>2, LoaderTypes DEF BInv, BootTypes
    <3> QED
      BY <2>2, <3>1, LoaderTypes DEF Range
  <2>4. PICK s \in Nat, l \in Nat :
          s = m.start /\ l = m.end - m.start /\ s % page_size = 0 /\ s + RoundUp(l) <= Units
    BY <2>2, LoaderTypes
  <2>5. RoundUp(l) \in Nat /\ RoundUp(l) % page_size = 0
    BY RoundedUp
  <2> QED
    BY <1>1, <1>3, <2>1, <2>2, <2>3, <2>4, <2>5
<1>6. CASE x86_startup
  <2>1. PICK b \in Nat, l \in Nat :
          /\ b = kernel_pstart /\ l = kernel_pend - kernel_pstart /\ b + l <= Units
          /\ b % page_size = 0
    BY BootAssumption
  <2>2. PICK k \in Nat : k = kernel_pend /\ k % page_size = 0
    BY BootAssumption
  <2>3. b <= k /\ l = k - b
    <3>1. kernel_pstart < kernel_pend
      BY BootAssumption
    <3> QED
      BY <2>1, <2>2, <3>1
  <2>4. l % page_size = 0
    <3>1. b % page_size = 0 /\ k % page_size = 0 /\ b <= k
      BY <2>1, <2>2, <2>3
    <3>2. (k - b) % page_size = 0
      BY ONLY <1>0, <3>1, b \in Nat, k \in Nat, Multiples
    <3> QED
      BY <2>3, <3>2
  <2> QED
    BY <1>3, <1>6, <2>1, <2>4 DEF x86_startup
<1>7. CASE MapBitmapPage
  <2>1. /\ location \in Nat /\ location + page_size <= Units /\ location % page_size = 0
        /\ loader' = loader
    <3>1. /\ location \in Nat /\ region_end \in Nat /\ region_end <= Units
          /\ location + page_size <= region_end /\ location % page_size = 0
      BY <1>7 DEF BInv, BootTypes, RegionInv, MapBitmapPage, Inside
    <3> QED
      BY <1>0, <1>7, <3>1, Parameters DEF MapBitmapPage
  <2>2. page_size % page_size = 0
    BY <1>0, NextMultiple
  <2> QED
    BY <1>0, <1>3, <1>7, <2>1, <2>2 DEF MapBitmapPage, TakeFrame
<1>8. CASE SkipRegion \/ EnterRegion \/ LeaveRegion \/ InitializeHeap \/ Ended \/ UNCHANGED vars
  BY <1>1, <1>8 DEF SkipRegion, EnterRegion, LeaveRegion, InitializeHeap, Ended, vars, map
<1> QED
  BY <1>4, <1>5, <1>6, <1>7, <1>8 DEF Next

\* Steps that leave the loader's information and the modules alone.
LEMMA UsableStays ==
  ASSUME UNCHANGED <<loader, modules>>
  PROVE  Usable' = Usable
<1>1. Reserved' = Reserved
  BY DEF Reserved
<1> QED
  BY <1>1 DEF Usable

LEMMA ScanStays ==
  ASSUME BInv, ScanInv,
         UNCHANGED <<loader, modules, type, cuts, merges, linear, i, location, region_end,
                     pages_mapped, pages_needed>>,
         step # "read",
         step' = step \/ (pages_mapped < pages_needed => region_end = 0 /\ i > Cardinality(Starts))
  PROVE  ScanInv'
<1>1. Usable' = Usable /\ Backing' = Backing /\ Starts' = Starts
  BY UsableStays DEF Backing, Starts
<1>2. \A u : Rank(u)' = Rank(u)
  BY <1>1 DEF Rank
<1> QED
  BY <1>1, <1>2 DEF ScanInv

LEMMA ScanStep ==
  ASSUME SInv, BInv', BoundsInv', [Next]_vars
  PROVE  ScanInv' /\ EndInv'
<1>0. /\ page_size \in Nat /\ page_size > 0 /\ Units \in Nat
      /\ i \in Nat /\ i >= 1 /\ Cardinality(Starts) \in Nat
      /\ \A u \in AllUnits : u \in Nat /\ Rank(u) \in Nat /\ Rank(u) <= Cardinality(Starts)
      /\ Starts \subseteq AllUnits /\ Starts \subseteq cuts
      /\ location \in Nat /\ region_end \in Nat
  <2>1. \A u \in AllUnits : u \in Nat
    BY Parameters DEF AllUnits
  <2>2. Starts \subseteq cuts
    BY DEF Starts
  <2> QED
    BY <2>1, <2>2, Parameters, StartsFinite DEF SInv, BInv, BootTypes
<1>1. CASE step' = "read"
  BY <1>1 DEF ScanInv, EndInv
<1>2. CASE x86_startup
  <2>1. Ahead' /\ step' = "bitmap" /\ region_end' = 0 /\ i' = 1
    <3>1. step = "read" /\ step' = "bitmap" /\ region_end' = region_end /\ i' = i
      BY <1>2 DEF x86_startup
    <3> QED
      BY <3>1, UsableAheadNext DEF SInv, BInv, StepInv
  <2>2. \A f \in Usable' : f \in Backing' \/ Rank(f)' >= i'
    BY <2>1 DEF Ahead
  <2> QED
    BY <2>1, <2>2 DEF ScanInv, EndInv
<1>3. CASE step # "read" /\ [Next]_vars
  <2>0. Ahead
    BY <1>3, UsableAhead DEF SInv
  <2>1. CASE SkipRegion
    <3>1. /\ step = "bitmap" /\ region_end = 0 /\ pages_mapped < pages_needed
          /\ i' = i + 1 /\ i \in 1..Cardinality(Starts)
          /\ type[RegionBase(i)] # "available"
          /\ UNCHANGED <<step, loader, modules, type, cuts, merges, linear, location, region_end,
                         pages_mapped, pages_needed>>
      BY <1>0, <2>1 DEF SkipRegion, Searching, MoreRegions, PassRegion, map
    <3>2. PICK b \in Starts : b = RegionBase(i) /\ Rank(b) = i
      BY <3>1, RegionFound DEF SInv, BInv
    <3>3. ASSUME ~merges, NEW f \in Usable, f \notin Backing
          PROVE  Rank(f) >= i + 1
      <4>1. f \in AllUnits /\ Rank(f) >= i
        BY <2>0, <3>1, <3>3 DEF Ahead, SInv, ScanInv
      <4>2. PICK c \in Starts : /\ c <= f /\ type[c] = "available"
                                /\ \A d \in cuts : ~(c < d /\ d <= f)
        BY <2>0, <3>3 DEF Ahead
      <4>3. b \in AllUnits /\ c \in AllUnits /\ b \in Nat /\ c \in Nat /\ f \in Nat /\ b \in cuts
              /\ Rank(f) \in Nat /\ Rank(c) \in Nat
        BY <1>0, <4>1
      <4>4. b <= f
        <5>1. f < b => Rank(f) < Rank(b)
          BY <4>1, <4>3, RankOrder DEF SInv, BInv
        <5> QED
          BY <1>0, <3>2, <4>1, <4>3, <5>1
      <4>5. b < c
        BY <3>1, <3>2, <4>2, <4>3, <4>4
      <4>6. Rank(b) < Rank(c) /\ Rank(c) <= Rank(f)
        BY <4>1, <4>2, <4>3, <4>5, RankOrder DEF SInv, BInv
      <4> QED
        BY <1>0, <3>2, <4>3, <4>6
    <3>4. Usable' = Usable /\ Backing' = Backing /\ \A u : Rank(u)' = Rank(u)
      BY <3>1, UsableStays DEF Backing, Rank, Starts
    <3> QED
      BY <3>1, <3>3, <3>4 DEF ScanInv, EndInv
  <2>2. CASE EnterRegion
    <3>1. /\ step = "bitmap" /\ region_end = 0 /\ pages_mapped < pages_needed
          /\ i \in 1..Cardinality(Starts)
          /\ location' = RoundUp(RegionBase(i)) /\ region_end' = RegionEnd(i)
          /\ UNCHANGED <<step, loader, modules, type, cuts, merges, linear, i,
                         pages_mapped, pages_needed>>
      BY <1>0, <2>2 DEF EnterRegion, Searching, MoreRegions, FirstPage, map
    <3>2. PICK b \in Starts : b = RegionBase(i) /\ Rank(b) = i
      BY <3>1, RegionFound DEF SInv, BInv
    <3>3. region_end' \in cuts /\ b < region_end'
      BY <3>1, <3>2, RegionExtent DEF SInv, BInv
    <3>4. ASSUME ~merges, NEW f \in Usable, f \notin Backing
          PROVE  f >= location'
      <4>1. f \in AllUnits /\ Rank(f) >= i /\ f % page_size = 0
        BY <2>0, <3>1, <3>4 DEF Ahead, SInv, ScanInv
      <4>2. b \in AllUnits /\ b \in Nat /\ f \in Nat /\ Rank(f) \in Nat
        BY <1>0, <4>1
      <4>3. b <= f
        <5>1. f < b => Rank(f) < Rank(b)
          BY <4>1, <4>2, RankOrder DEF SInv, BInv
        <5> QED
          BY <1>0, <3>2, <4>1, <4>2, <5>1
      <4> QED
        BY <3>1, <3>2, <4>1, <4>2, <4>3, RoundedUp
    <3>5. region_end' # 0
      BY <1>0, <3>3
    <3>6. /\ Usable' = Usable /\ Backing' = Backing /\ Starts' = Starts
          /\ \A u : Rank(u)' = Rank(u)
      BY <3>1, UsableStays DEF Backing, Rank, Starts
    <3>7. Rank(b) >= i
      BY <1>0, <3>2
    <3> QED
      BY <3>1, <3>3, <3>4, <3>5, <3>6, <3>7 DEF ScanInv, EndInv
  <2>3. CASE MapBitmapPage
    <3>1. /\ step = "bitmap" /\ region_end # 0 /\ pages_mapped < pages_needed
          /\ location' = location + page_size /\ location + page_size <= region_end
          /\ location % page_size = 0
          /\ region_end <= Units
          /\ UNCHANGED <<step, loader, modules, i, region_end, pages_needed>>
          /\ memmap_insert_region(location, page_size, "unavailable")
      BY <2>3 DEF MapBitmapPage, Inside, TakeFrame, SInv, BInv, RegionInv
    <3>2. Backing' = Backing \cup {location}
      BY <2>3, MapBitmapPageStep DEF SInv
    <3>3. /\ merges' = merges
          /\ ~merges => cuts \subseteq cuts'
          /\ \A u \in AllUnits :
              type'[u] = "none" <=> type[u] = "none" /\ u \notin Span(location, page_size)
      <4>1. location + page_size <= Units
        BY <1>0, <3>1
      <4> QED
        BY <1>0, <3>1, <4>1, InsertUnavailable DEF SInv, BInv
    <3>4. ~merges => Starts \subseteq Starts'
      <4>1. \A c \in Starts : c \in AllUnits /\ c \in cuts \ {Units} /\ type[c] # "none"
        BY <1>0 DEF Starts
      <4> QED
        BY <3>3, <4>1 DEF Starts
    <3>5. ASSUME ~merges, NEW f \in Usable, f \notin Backing'
          PROVE  f >= location'
      <4>1. f \in AllUnits /\ f >= location /\ f % page_size = 0 /\ f # location
        BY <2>0, <3>1, <3>2, <3>5 DEF Ahead, SInv, ScanInv
      <4>2. location < f /\ f \in Nat
        BY <1>0, <4>1
      <4> QED
        BY <1>0, <3>1, <4>1, <4>2, Apart
    <3>6. ASSUME ~merges
          PROVE  region_end \in cuts' /\ \E b \in Starts' : b < region_end /\ Rank(b)' >= i
      <4>1. region_end \in cuts
        BY <3>1, <3>6 DEF SInv, ScanInv
      <4>2. PICK b \in Starts : b < region_end /\ Rank(b) >= i
        BY <3>1, <3>6 DEF SInv, ScanInv
      <4>3. b \in AllUnits /\ Rank(b) \in Nat
        BY <1>0
      <4>4. Rank(b) <= Rank(b)'
        BY <3>4, <3>6, <4>3, RankGrows DEF SInv, BInv
      <4>5. Rank(b)' \in Nat
        <5>1. \A S : IsFiniteSet(S) => Cardinality(S) \in Nat
          BY FS_CardinalityType
        <5>2. IsFiniteSet({d \in Starts : d <= b})'
          <6>1. Starts' \subseteq AllUnits
            <7> SUFFICES ASSUME NEW c \in Starts'
                         PROVE  c \in AllUnits
              OBVIOUS
            <7>1. c \in 0..Units /\ c # Units
              BY DEF Starts, BInv, MapTypes
            <7> QED
              BY <7>1, Parameters DEF AllUnits
          <6>2. IsFiniteSet(AllUnits)
            BY Parameters, FS_Interval DEF AllUnits
          <6>3. {d \in Starts' : d <= b} \in SUBSET AllUnits
            BY <6>1
          <6> QED
            BY <6>2, <6>3, FS_Subset
        <5> QED
          BY <5>1, <5>2 DEF Rank
      <4>6. Rank(b)' >= i
        BY <1>0, <4>2, <4>3, <4>4, <4>5
      <4> QED
        BY <3>3, <3>4, <3>6, <4>1, <4>2, <4>6
    <3>7. Usable' = Usable
      BY <3>1, UsableStays
    <3> QED
      BY <3>1, <3>3, <3>5, <3>6, <3>7 DEF ScanInv, EndInv
  <2>4. CASE LeaveRegion
    <3>1. /\ step = "bitmap" /\ region_end # 0 /\ region_end' = 0 /\ i' = i + 1
          /\ ~(location + page_size <= region_end /\ pages_mapped < pages_needed)
          /\ UNCHANGED <<step, loader, modules, type, cuts, merges, linear, location,
                         pages_mapped, pages_needed>>
      BY <2>4 DEF LeaveRegion, Inside, map
    <3>2. ASSUME ~merges, pages_mapped < pages_needed, NEW f \in Usable, f \notin Backing
          PROVE  Rank(f) >= i + 1
      <4>1. region_end \in cuts
        BY <3>1, <3>2 DEF SInv, ScanInv
      <4>2. PICK b \in Starts : b < region_end /\ Rank(b) >= i
        BY <3>1, <3>2 DEF SInv, ScanInv
      <4>3. /\ f \in AllUnits /\ f >= location
            /\ \A d \in cuts : ~(f < d /\ d < f + page_size)
        BY <2>0, <3>1, <3>2 DEF Ahead, SInv, ScanInv
      <4>4. PICK c \in Starts : c <= f /\ \A d \in cuts : ~(c < d /\ d <= f)
        BY <2>0, <3>2 DEF Ahead
      <4>5. b \in AllUnits /\ c \in AllUnits /\ b \in Nat /\ c \in Nat /\ f \in Nat
              /\ Rank(f) \in Nat /\ Rank(c) \in Nat /\ Rank(b) \in Nat
        BY <1>0, <4>3
      <4>6. region_end <= f
        BY <1>0, <3>1, <3>2, <4>1, <4>3, <4>5
      <4>7. b < c
        BY <1>0, <4>1, <4>2, <4>4, <4>5, <4>6
      <4>8. Rank(b) < Rank(c) /\ Rank(c) <= Rank(f)
        BY <4>3, <4>4, <4>5, <4>7, RankOrder DEF SInv, BInv
      <4> QED
        BY <1>0, <4>2, <4>5, <4>8
    <3>3. Usable' = Usable /\ Backing' = Backing /\ \A u : Rank(u)' = Rank(u)
      BY <3>1, UsableStays DEF Backing, Rank, Starts
    <3> QED
      BY <3>1, <3>2, <3>3 DEF ScanInv, EndInv
  <2>5. CASE InitializeHeap
    <3>1. /\ step = "bitmap" /\ region_end = 0
          /\ UNCHANGED <<loader, modules, type, cuts, merges, linear, i, location, region_end,
                         pages_mapped, pages_needed>>
          /\ pages_mapped < pages_needed => i > Cardinality(Starts)
          /\ step' = "fault" => pages_mapped < pages_needed
      <4>1. step' = "fault" => pages_mapped < pages_needed
        BY <2>5 DEF InitializeHeap
      <4>2. pages_mapped < pages_needed => ~MoreRegions
        BY <2>5 DEF InitializeHeap, Searching
      <4>3. ~MoreRegions => i > Cardinality(Starts)
        BY <1>0 DEF MoreRegions
      <4> QED
        BY <2>5, <4>1, <4>2, <4>3 DEF InitializeHeap, map, loop
    <3>2. ScanInv'
      BY <1>3, <3>1, ScanStays DEF SInv
    <3> QED
      BY <3>1, <3>2 DEF EndInv
  <2>6. CASE Ended \/ UNCHANGED vars
    <3>1. UNCHANGED <<step, loader, tags, type, cuts, merges, modules, linear, i, location,
                      region_end, pages_mapped, pages_needed, page_map>>
      BY <2>6 DEF Ended, vars, map, loop
    <3>2. ScanInv'
      BY <1>3, <3>1, ScanStays DEF SInv
    <3> QED
      BY <3>1, <3>2 DEF SInv, EndInv
  <2> QED
    BY <1>3, <2>1, <2>2, <2>3, <2>4, <2>5, <2>6 DEF Next, ReadMap, ReadModule, x86_startup
<1>4. step = "read" => step' = "read" \/ x86_startup
  <2>1. ReadMap \/ ReadModule => step' = step
    BY DEF ReadMap, ReadModule
  <2>2. step = "read" => ~(SkipRegion \/ EnterRegion \/ MapBitmapPage \/ LeaveRegion
                           \/ InitializeHeap \/ Ended)
    BY DEF SkipRegion, EnterRegion, MapBitmapPage, LeaveRegion, InitializeHeap, Ended, Searching
  <2>3. UNCHANGED vars => step' = step
    BY DEF vars
  <2> QED
    BY <2>1, <2>2, <2>3 DEF Next
<1> QED
  BY <1>1, <1>2, <1>3, <1>4

LEMMA InitSInv ==
  ASSUME Init
  PROVE  SInv
<1>1. BInv
  BY InitBInv
<1>2. BoundsInv
  <2>1. page_size * 0 = 0 /\ (page_size * 0) % page_size = 0
    BY Parameters, Multiple
  <2> QED
    BY <2>1 DEF Init, BoundsInv
<1> QED
  BY <1>1, <1>2 DEF SInv, ScanInv, EndInv, Init

LEMMA NextSInv ==
  ASSUME SInv, [Next]_vars
  PROVE  SInv'
<1>1. BInv'
  BY NextBInv DEF SInv
<1>2. BoundsInv'
  BY BoundsStep DEF SInv
<1>3. ScanInv' /\ EndInv'
  BY <1>1, <1>2, ScanStep
<1> QED
  BY <1>1, <1>2, <1>3 DEF SInv

(***************************************************************************)
(* The theorems                                                            *)
(***************************************************************************)

\* The inductive invariant: the map says what the loader said without what
\* was taken, and the search has left no usable frame behind.
THEOREM BootInvariance == Spec => []SInv
<1>1. Init => SInv
  BY InitSInv
<1>2. SInv /\ [Next]_vars => SInv'
  BY NextSInv
<1> QED
  BY <1>1, <1>2, PTL DEF Spec

\* As many frames as pages of the bitmap.
LEMMA BackingSize ==
  ASSUME BInv
  PROVE  IsFiniteSet(Backing) /\ Cardinality(Backing) = pages_mapped
<1> DEFINE S == 0..pages_mapped - 1
           b == [n \in S |-> linear[KernelPages + n]]
<1>1. pages_mapped \in Nat
  BY DEF BInv, BootTypes
<1>2. IsFiniteSet(S) /\ Cardinality(S) = pages_mapped
  BY <1>1, FS_Interval
<1>3. \A m, n \in S : linear[KernelPages + m] = linear[KernelPages + n] => m = n
  BY DEF BInv, BitmapInv
<1>4. Backing = {linear[KernelPages + n] : n \in S}
  BY DEF Backing
<1> HIDE DEF S
<1>5. b \in [S -> Backing]
  BY <1>4
<1>6. \A m, n \in S : b[m] = b[n] => m = n
  BY <1>3
<1>7. \A f \in Backing : \E n \in S : b[n] = f
  BY <1>4
<1> HIDE DEF b
<1>8. b \in Bijection(S, Backing)
  BY <1>5, <1>6, <1>7 DEF Bijection, Injection, Surjection, IsInjective
<1>9. ExistsBijection(S, Backing)
  BY <1>8 DEF ExistsBijection
<1> QED
  BY <1>2, <1>9, FS_Bijection

\* initialize_page_map gives each page of the bitmap a frame of its own, in
\* which neither the kernel, nor a module, nor anything that the loader does
\* not call available lies, though it changes the map while it walks over it.
THEOREM BitmapInOwnFrames == Spec => []BitmapBacked
<1>1. SInv => BitmapBacked
  <2> SUFFICES ASSUME BInv
               PROVE  BitmapBacked
    BY DEF SInv
  <2>1. Cardinality(Backing) = pages_mapped
    BY BackingSize
  <2>2. \A f \in Backing : \A u \in PageOf(f) : u \notin Reserved
    BY DEF BInv, BitmapInv, Backing
  <2> QED
    BY <2>1, <2>2 DEF BitmapBacked
<1> QED
  BY <1>1, BootInvariance, PTL

\* The frames that the allocator starts with hold nothing that must be kept,
\* the bitmap that records them included.
THEOREM FreeFramesHoldNothing == Spec => []FreeFramesSafe
<1>1. SInv => FreeFramesSafe
  <2> SUFFICES ASSUME BInv, NEW f \in page_map
               PROVE  PageOf(f) \cap Reserved = {} /\ f \notin Backing
    BY DEF SInv, FreeFramesSafe
  <2>1. step # "read" /\ f \in Frames /\ tags = {}
    BY DEF BInv, BootTypes, StepInv
  <2>2. PageOf(f) \subseteq AllUnits /\ f \in PageOf(f)
    BY <2>1, Parameters DEF Frames, PageOf, Span, AllUnits
  <2>3. \A u \in PageOf(f) : type[u] = "available"
    BY DEF BInv, FreeInv
  <2>4. PageOf(f) \cap Reserved = {}
    BY <2>1, <2>2, <2>3, NotReserved
  <2>5. ~InBitmap(f)
    BY <2>1, <2>2, <2>3 DEF BInv, AvailableInv
  <2>6. \A n \in 0..pages_mapped - 1 : linear[KernelPages + n] # f
    BY <2>2, <2>5 DEF InBitmap
  <2> QED
    BY <2>4, <2>6 DEF Backing
<1> QED
  BY <1>1, BootInvariance, PTL

\* The search of initialize_page_map finds every usable frame as long as the
\* map does not join regions: if the boot fails there were fewer of them than
\* the bitmap has pages.
THEOREM NoUsableFrameOverlooked == Spec => []FailsOnlyIfShort
<1>1. SInv => FailsOnlyIfShort
  <2> SUFFICES ASSUME SInv, step = "fault", ~merges
               PROVE  Cardinality(Usable) < pages_needed
    BY DEF FailsOnlyIfShort
  <2>1. /\ pages_mapped < pages_needed /\ pages_mapped \in Nat /\ pages_needed \in Nat
        /\ region_end = 0 /\ i > Cardinality(Starts) /\ i \in Nat
    BY DEF SInv, EndInv, ScanInv, BInv, BootTypes
  <2>2. Usable \in SUBSET Backing
    <3> SUFFICES ASSUME NEW f \in Usable, f \notin Backing
                 PROVE  FALSE
      OBVIOUS
    <3>1. Rank(f) >= i
      BY <2>1 DEF SInv, ScanInv
    <3>2. f \in AllUnits
      BY UsableAhead DEF SInv, Ahead
    <3>3. Rank(f) \in Nat /\ Cardinality(Starts) \in Nat /\ Rank(f) <= Cardinality(Starts)
      BY <3>2, StartsFinite DEF SInv, BInv
    <3> QED
      BY <2>1, <3>1, <3>3
  <2>3. IsFiniteSet(Backing) /\ Cardinality(Backing) = pages_mapped
    BY BackingSize DEF SInv
  <2>4. Cardinality(Usable) <= pages_mapped /\ IsFiniteSet(Usable)
    BY <2>2, <2>3, FS_Subset
  <2> QED
    BY <2>1, <2>4, FS_CardinalityType
<1> QED
  BY <1>1, BootInvariance, PTL

=============================================================================
