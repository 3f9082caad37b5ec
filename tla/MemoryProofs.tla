---------------------------- MODULE MemoryProofs ----------------------------
(***************************************************************************)
(* Proofs about Memory, for every number of page frames, modules and page  *)
(* table entries, and whichever free frame reserve_region returns.         *)
(***************************************************************************)
EXTENDS Memory, FiniteSetTheorems, SequenceTheorems, TLAPS

\* What page tables and page_map look like.
Memories == Frames \cup BootFrames

TypeInv ==
  /\ page_map \in SUBSET Frames
  /\ pde \in [Memories -> [Slots -> Memories \cup {NULL}]]
  /\ pte \in [Memories -> [Indices -> Memories \cup {NULL}]]
  /\ cr3 \in Frames \cup {boot_directory}
  /\ Directories \in SUBSET Frames
  /\ \A d \in Directories : spaces[d] \in Programs
  /\ objects \in SUBSET HeapPages

IsTable(t) == t # NULL /\ \E d \in InUse, s \in Slots : pde[d][s] = t

\* A directory in use is not free, a table is a frame with no other use, the
\* kernel's own or that of the identity map.
DirectoryInv ==
  /\ InUse \cap page_map = {}
  /\ \A d \in InUse, s \in Slots :
       /\ pde[d][s] \in (Frames \ (page_map \cup InUse)) \cup {NULL, kernel_table, identity_table}
       /\ pde[d][s] = kernel_table <=> s = ImageSlot
       /\ pde[d][s] = identity_table <=> d = boot_directory /\ s = FirstSlot

\* Directories share the tables of kernel slots only.
SharingInv ==
  \A d, e \in InUse : \A s, r \in Slots :
    pde[d][s] = pde[e][r] /\ pde[d][s] # NULL => s = r /\ (d = e \/ s \in KernelSlots)

\* A page is a frame with no other use, or the image of a module.
PageInv ==
  \A t \in Memories : IsTable(t) =>
    \A i \in Indices :
      /\ pte[t][i] \in (Frames \ (page_map \cup InUse)) \cup {NULL, Image}
      /\ ~IsTable(pte[t][i])

UniqueInv ==
  \A t, u \in Memories : IsTable(t) /\ IsTable(u) =>
    \A i, j \in Indices :
      pte[t][i] = pte[u][j] /\ pte[t][i] \in Frames => t = u /\ i = j

TreeInv == DirectoryInv /\ SharingInv /\ PageInv /\ UniqueInv

\* The stages of kernel_load_module once it has a new address space.
Filling == {"image", "program", "unmap", "process", "context", "stack", "node", "ready"}
Loaded == {"unmap", "process", "context", "stack", "node", "ready"}

\* Where the kernel is, and with which address space.
StageInv ==
  /\ doing \in {"kminit", "queue", "create", "idle", "mmap"} \cup Filling
  /\ doing \in {"kminit", "queue"} => cr3 = boot_directory /\ Directories = {}
  /\ doing = "kminit" => todo \in Seq({ImageSlot} \X Indices)
  /\ doing = "create" => cr3 \in Directories \cup {boot_directory}
  /\ doing \in {"idle", "mmap"} => cr3 \in Directories
  /\ doing \in Filling => cr3 \notin Directories \cup {boot_directory} /\ request \in Programs
  /\ doing \in {"image", "unmap"} =>
       todo \in Seq(UserPages) /\ \A j \in DOMAIN todo : todo[j] \in ImageRange
  /\ doing = "program" => todo \in Seq(Segments)
  /\ doing = "mmap" => /\ request \in Seq(UserPages) /\ todo \in Seq(UserPages)
                       /\ todo # <<>> => request # <<>>
  /\ mode = "boot" => doing \in {"kminit", "queue", "create"} \cup Filling
  /\ mode = "running" => doing \in {"idle", "mmap"}

\* What the loops have mapped so far.
LoopInv ==
  /\ doing \in {"kminit", "mmap"} =>
       Distinct(todo) /\ \A j \in DOMAIN todo : Entry(cr3, todo[j]) = NULL
  /\ doing = "image" =>
       /\ \A q \in UserPages : Entry(cr3, q) \in {NULL, Image}
       /\ \A q \in ImageRange : Entry(cr3, q) = Image \/ \E j \in DOMAIN todo : todo[j] = q
  /\ doing = "program" =>
       /\ \A q \in ImageRange : Entry(cr3, q) = Image
       /\ Bytes(todo) \subseteq Bytes(request)
       /\ \A a \in Bytes(request) : Entry(cr3, PageOf(a)) # NULL \/ a \in Bytes(todo)
  /\ doing = "unmap" => \A q \in ImageRange : Entry(cr3, q) \in {NULL, Image}
  /\ doing \in Loaded => \A q \in ProgramPages(request) : Entry(cr3, q) # NULL
  /\ doing \in {"image", "program", "unmap", "process", "context", "stack"} =>
       Entry(cr3, StackPage) = NULL
  /\ doing \in {"node", "ready"} => Entry(cr3, StackPage) # NULL \/ page_map = {}

HeapInv ==
  \A page \in objects : page[1] = ImageSlot => Entry(boot_directory, page) # NULL

IInv ==
  /\ TypeInv /\ TreeInv /\ StageInv /\ LoopInv /\ HeapInv
  /\ SpaceComplete /\ WindowMissing

LEMMA BootFramesDiffer ==
  /\ boot_directory # identity_table /\ boot_directory # kernel_table /\ boot_directory # Image
  /\ identity_table # kernel_table /\ identity_table # Image /\ kernel_table # Image
<1>1. ASSUME NEW a, NEW b, NEW c
      PROVE  Cardinality({a, b, c}) # 4
  <2>1. IsFiniteSet({a}) /\ Cardinality({a}) = 1
    BY FS_Singleton
  <2>2. IsFiniteSet({a} \cup {b}) /\ Cardinality({a} \cup {b}) \in {1, 2}
    BY <2>1, FS_AddElement
  <2>3. Cardinality(({a} \cup {b}) \cup {c}) \in {1, 2, 3}
    BY <2>2, FS_AddElement
  <2>4. {a, b, c} = ({a} \cup {b}) \cup {c}
    OBVIOUS
  <2> QED
    BY <2>3, <2>4
<1>2. Cardinality({boot_directory, identity_table, kernel_table, Image}) = 4
  BY MemoryAssumption DEF BootFrames
<1> DEFINE four == {boot_directory, identity_table, kernel_table, Image}
<1>3. boot_directory = identity_table => four = {boot_directory, kernel_table, Image}
  OBVIOUS
<1>4. boot_directory = kernel_table => four = {boot_directory, identity_table, Image}
  OBVIOUS
<1>5. boot_directory = Image => four = {boot_directory, identity_table, kernel_table}
  OBVIOUS
<1>6. identity_table = kernel_table => four = {boot_directory, kernel_table, Image}
  OBVIOUS
<1>7. identity_table = Image => four = {boot_directory, identity_table, kernel_table}
  OBVIOUS
<1>8. kernel_table = Image => four = {boot_directory, identity_table, kernel_table}
  OBVIOUS
<1> QED
  BY <1>1, <1>2, <1>3, <1>4, <1>5, <1>6, <1>7, <1>8

\* The frames of the kernel's image are no others.
LEMMA FrameKinds ==
  /\ NULL \notin Memories
  /\ boot_directory \in Memories \ Frames /\ identity_table \in Memories \ Frames
  /\ kernel_table \in Memories \ Frames /\ Image \in Memories \ Frames
  /\ FirstSlot \in Slots /\ ImageSlot \in Slots /\ FirstSlot # ImageSlot
  /\ \A s \in UserSlots : s \in Slots /\ s # ImageSlot /\ s \notin KernelSlots
BY MemoryAssumption DEF Memories, BootFrames, Slots

LEMMA PickFree ==
  ASSUME NEW free \in SUBSET Frames
  PROVE  /\ reserve_page(free) \subseteq free
         /\ free # {} => reserve_page(free) # {}
BY MemoryAssumption DEF reserve_page

LEMMA InUseType ==
  ASSUME TypeInv
  PROVE  InUse \subseteq Memories /\ cr3 \in InUse /\ boot_directory \in InUse
BY FrameKinds DEF TypeInv, InUse, Memories

(***************************************************************************)
(* What map_page and unmap_page do to the page tables                      *)
(***************************************************************************)

TableTypes ==
  /\ page_map \in SUBSET Frames
  /\ pde \in [Memories -> [Slots -> Memories \cup {NULL}]]
  /\ pte \in [Memories -> [Indices -> Memories \cup {NULL}]]

Mapped(f) == \E t \in Memories : IsTable(t) /\ \E i \in Indices : pte[t][i] = f

Used(f) == f \in InUse \/ IsTable(f) \/ Mapped(f)

\* One page, that of the loaded directory, gets another frame; others that
\* share the table see it too.
PageStep(page, frame) ==
  /\ TableTypes' /\ TreeInv'
  /\ page_map' \subseteq page_map
  /\ \A d \in InUse, q \in Pages :
       \/ Entry(d, q)' = Entry(d, q)
       \/ /\ q = page /\ (d = cr3 \/ page[1] \in KernelSlots)
          /\ Entry(d, q)' = frame
  /\ \A d \in InUse, q \in Pages : d = cr3 /\ q = page => Entry(d, q)' = frame
  /\ \A f \in Frames : Used(f) => Used(f)' \/ f = Entry(cr3, page)
  /\ \A d \in InUse, s \in Slots : pde[d][s] # NULL => pde'[d][s] # NULL

LEMMA InUseKept ==
  ASSUME UNCHANGED <<cr3, spaces>>
  PROVE  InUse' = InUse /\ Directories' = Directories
BY DEF InUse, Directories

LEMMA TableKinds ==
  ASSUME TypeInv, TreeInv, NEW t, IsTable(t)
  PROVE  /\ t \in Memories /\ t \notin page_map /\ t \notin InUse /\ t # NULL
         /\ pte[t] \in [Indices -> Memories \cup {NULL}]
         /\ \A i \in Indices : pte[t][i] \notin page_map
<1>1. PICK d \in InUse, s \in Slots : pde[d][s] = t /\ t # NULL
  BY DEF IsTable
<1>2. t \in (Frames \ (page_map \cup InUse)) \cup {kernel_table, identity_table}
  BY <1>1 DEF TreeInv, DirectoryInv
<1>3. t \in Memories /\ t \notin page_map /\ t \notin InUse
  BY <1>2, FrameKinds, BootFramesDiffer DEF Memories, TypeInv, InUse
<1>4. \A i \in Indices : pte[t][i] \notin page_map
  BY <1>3, FrameKinds DEF TreeInv, PageInv, TypeInv, Memories
<1> QED
  BY <1>1, <1>3, <1>4 DEF TypeInv

LEMMA SetEntry ==
  ASSUME TypeInv, TreeInv, NEW page \in Pages, NEW frame,
         frame \in page_map \cup {Image, NULL},
         page_map' \subseteq page_map \ {frame},
         pde[cr3][page[1]] # NULL,
         pte' = set_pte(pde[cr3][page[1]], page[2], frame),
         UNCHANGED <<pde, cr3, spaces>>
  PROVE  PageStep(page, frame) /\ (frame \in Frames => Used(frame)')
<1>00. PICK i \in Indices : i = page[2]
  BY DEF Pages
<1>0. PICK t : t = pde[cr3][page[1]] /\ i = page[2]
  BY <1>00
<1>1. /\ page[1] \in Slots /\ page = <<page[1], i>>
      /\ cr3 \in InUse
  BY <1>0, InUseType DEF Pages
<1>2. IsTable(t)
  BY <1>0, <1>1 DEF IsTable
<1>3. t \in Memories /\ t \notin page_map /\ t \notin InUse
  BY <1>2, TableKinds
<1>4. InUse' = InUse /\ \A u : IsTable(u)' <=> IsTable(u)
  BY InUseKept DEF IsTable
<1>5. /\ pte' = [pte EXCEPT ![t][i] = frame]
      /\ pte \in [Memories -> [Indices -> Memories \cup {NULL}]]
      /\ pde \in [Memories -> [Slots -> Memories \cup {NULL}]]
      /\ page_map \in SUBSET Frames
  BY <1>0 DEF set_pte, TypeInv
<1>6. \A u \in Memories, j \in Indices :
        pte'[u][j] = IF u = t /\ j = i THEN frame ELSE pte[u][j]
  BY <1>3, <1>5
<1>7. frame \in Memories \cup {NULL}
  BY <1>5, FrameKinds DEF Memories
<1>8. TableTypes'
  BY <1>3, <1>5, <1>7 DEF TableTypes
<1>9. DirectoryInv' /\ SharingInv'
  BY <1>4 DEF TreeInv, DirectoryInv, SharingInv
<1>10. /\ frame \in (Frames \ (page_map' \cup InUse)) \cup {NULL, Image}
       /\ ~IsTable(frame)
       /\ frame \in Frames => ~Mapped(frame)
  <2>1. CASE frame \in page_map
    <3>1. frame \in Frames /\ frame \notin page_map' /\ frame \notin InUse
      BY <1>5, <2>1 DEF TreeInv, DirectoryInv
    <3>2. ~IsTable(frame)
      BY <2>1, TableKinds
    <3>3. ~Mapped(frame)
      BY <2>1, TableKinds DEF Mapped
    <3> QED
      BY <3>1, <3>2, <3>3
  <2>2. CASE frame = NULL
    BY <2>2, FrameKinds DEF IsTable, Memories
  <2>3. CASE frame = Image
    <3>1. ~IsTable(Image)
      BY FrameKinds, BootFramesDiffer DEF IsTable, TreeInv, DirectoryInv
    <3> QED
      BY <2>3, <3>1, FrameKinds
  <2> QED
    BY <2>1, <2>2, <2>3
<1>11. PageInv'
  BY <1>4, <1>6, <1>10 DEF TreeInv, PageInv
<1>12. UniqueInv'
  BY <1>2, <1>3, <1>4, <1>6, <1>10 DEF TreeInv, UniqueInv, Mapped
<1>13. ASSUME NEW d \in InUse, NEW q \in Pages
       PROVE  /\ \/ Entry(d, q)' = Entry(d, q)
                 \/ /\ q = page /\ (d = cr3 \/ page[1] \in KernelSlots)
                    /\ Entry(d, q)' = frame
              /\ d = cr3 /\ q = page => Entry(d, q)' = frame
  <2>1. q[1] \in Slots /\ q[2] \in Indices /\ q = <<q[1], q[2]>>
    BY DEF Pages
  <2>2. CASE pde[d][q[1]] = NULL
    BY <1>0, <2>2 DEF Entry
  <2>3. CASE pde[d][q[1]] # NULL
    <3>1. pde[d][q[1]] \in Memories
      BY <1>5, <2>1, <2>3, InUseType
    <3>2. /\ Entry(d, q) = pte[pde[d][q[1]]][q[2]]
          /\ Entry(d, q)' = pte'[pde[d][q[1]]][q[2]]
      BY <2>3 DEF Entry
    <3>3. pde[d][q[1]] = t /\ q[2] = i => q = page /\ (d = cr3 \/ page[1] \in KernelSlots)
      BY <1>0, <1>1, <2>1, <2>3 DEF TreeInv, SharingInv
    <3> QED
      BY <1>0, <1>6, <2>1, <3>1, <3>2, <3>3
  <2> QED
    BY <2>2, <2>3
<1>14. ASSUME NEW f \in Frames, Used(f)
       PROVE  Used(f)' \/ f = Entry(cr3, page)
  <2>1. CASE f \in InUse \/ IsTable(f)
    BY <1>4, <2>1 DEF Used
  <2>2. CASE Mapped(f)
    <3>1. PICK u \in Memories, j \in Indices : IsTable(u) /\ pte[u][j] = f
      BY <2>2 DEF Mapped
    <3>2. CASE u = t /\ j = i
      BY <1>0, <3>1, <3>2 DEF Entry
    <3>3. CASE ~(u = t /\ j = i)
      BY <1>4, <1>6, <3>1, <3>3 DEF Used, Mapped
    <3> QED
      BY <3>2, <3>3
  <2> QED
    BY <1>14, <2>1, <2>2 DEF Used
<1>15. Mapped(frame)'
  BY <1>2, <1>3, <1>4, <1>6 DEF Mapped
<1> QED
  BY <1>8, <1>9, <1>11, <1>12, <1>13, <1>14, <1>15 DEF PageStep, TreeInv, Used

LEMMA NewTable ==
  ASSUME TypeInv, TreeInv, NEW page \in Pages, NEW frame,
         frame \in page_map \cup {Image},
         NEW new \in page_map \ {frame},
         page_map' \subseteq page_map \ {frame, new},
         pde[cr3][page[1]] = NULL,
         pde' = [pde EXCEPT ![cr3][page[1]] = new],
         pte' = [pte EXCEPT ![new] = [wipe_page_table(new) EXCEPT ![page[2]] = frame]],
         UNCHANGED <<cr3, spaces>>
  PROVE  PageStep(page, frame) /\ (frame \in Frames => Used(frame)') /\ Used(new)'
<1>1. PICK i \in Indices : i = page[2]
  BY DEF Pages
<1>2. PICK slot \in Slots : slot = page[1]
  BY DEF Pages
<1>3. PICK c \in InUse : c = cr3
  BY InUseType
<1>4. /\ pte \in [Memories -> [Indices -> Memories \cup {NULL}]]
      /\ pde \in [Memories -> [Slots -> Memories \cup {NULL}]]
      /\ page_map \in SUBSET Frames /\ c \in Memories /\ new \in Memories /\ new \in Frames
      /\ InUse \subseteq Memories
  BY <1>3, InUseType DEF TypeInv, Memories
<1>5. \A d \in Memories, s \in Slots :
        pde'[d][s] = IF d = c /\ s = slot THEN new ELSE pde[d][s]
  BY <1>2, <1>3, <1>4
<1>6. /\ new \notin InUse /\ ~IsTable(new) /\ ~Mapped(new) /\ new # NULL
  BY <1>4, TableKinds, FrameKinds DEF TreeInv, DirectoryInv, Mapped, Memories
<1>7. InUse' = InUse
  BY InUseKept
<1>8. \A u : IsTable(u)' <=> IsTable(u) \/ u = new
  <2>1. ASSUME NEW u, IsTable(u)
        PROVE  IsTable(u)'
    <3>1. PICK d \in InUse, s \in Slots : pde[d][s] = u /\ u # NULL
      BY <2>1 DEF IsTable
    <3>2. pde'[d][s] = u
      BY <1>2, <1>3, <1>4, <1>5, <3>1
    <3> QED
      BY <1>7, <3>1, <3>2 DEF IsTable
  <2>2. IsTable(new)'
    BY <1>4, <1>5, <1>6, <1>7 DEF IsTable
  <2>3. ASSUME NEW u, IsTable(u)', u # new
        PROVE  IsTable(u)
    <3>1. PICK d \in InUse, s \in Slots : pde'[d][s] = u /\ u # NULL
      BY <1>7, <2>3 DEF IsTable
    <3>2. pde[d][s] = u
      BY <1>4, <1>5, <2>3, <3>1
    <3> QED
      BY <3>1, <3>2 DEF IsTable
  <2> QED
    BY <2>1, <2>2, <2>3
<1>9. \A u \in Memories, j \in Indices :
        pte'[u][j] = IF u # new THEN pte[u][j] ELSE IF j = i THEN frame ELSE NULL
  BY <1>1, <1>4 DEF wipe_page_table, NoEntries
<1>10. frame \in Memories
  BY <1>4, FrameKinds DEF Memories
<1>11. TableTypes'
  <2>1. [wipe_page_table(new) EXCEPT ![i] = frame] \in [Indices -> Memories \cup {NULL}]
    BY <1>10 DEF wipe_page_table, NoEntries
  <2> QED
    BY <1>1, <1>2, <1>3, <1>4, <2>1 DEF TableTypes
<1>12. /\ frame \in (Frames \ (page_map' \cup InUse)) \cup {Image}
       /\ ~IsTable(frame) /\ frame # new
       /\ frame \in Frames => ~Mapped(frame)
  <2>1. CASE frame \in page_map
    <3>1. frame \in Frames /\ frame \notin page_map' /\ frame \notin InUse
      BY <1>4, <2>1 DEF TreeInv, DirectoryInv
    <3>2. ~IsTable(frame)
      BY <2>1, TableKinds
    <3>3. ~Mapped(frame)
      BY <2>1, TableKinds DEF Mapped
    <3> QED
      BY <3>1, <3>2, <3>3
  <2>2. CASE frame = Image
    <3>1. ~IsTable(Image)
      BY FrameKinds, BootFramesDiffer DEF IsTable, TreeInv, DirectoryInv
    <3> QED
      BY <2>2, <3>1, FrameKinds
  <2> QED
    BY <2>1, <2>2
<1>13. DirectoryInv'
  <2>1. slot # ImageSlot /\ ~(c = boot_directory /\ slot = FirstSlot)
    BY <1>2, <1>3, FrameKinds DEF TreeInv, DirectoryInv
  <2>2. new \notin {kernel_table, identity_table}
    BY <1>4, FrameKinds
  <2>3. new \notin page_map' /\ page_map' \subseteq page_map
    OBVIOUS
  <2>4. InUse \cap page_map' = {}
    BY <2>3 DEF TreeInv, DirectoryInv
  <2> SUFFICES ASSUME NEW d \in InUse, NEW s \in Slots
               PROVE  /\ pde'[d][s] \in (Frames \ (page_map' \cup InUse))
                                          \cup {NULL, kernel_table, identity_table}
                      /\ pde'[d][s] = kernel_table <=> s = ImageSlot
                      /\ pde'[d][s] = identity_table <=> d = boot_directory /\ s = FirstSlot
    BY <1>7, <2>4 DEF DirectoryInv
  <2>5. /\ pde[d][s] \in (Frames \ (page_map' \cup InUse)) \cup {NULL, kernel_table, identity_table}
        /\ pde[d][s] = kernel_table <=> s = ImageSlot
        /\ pde[d][s] = identity_table <=> d = boot_directory /\ s = FirstSlot
    BY <2>3 DEF TreeInv, DirectoryInv
  <2>6. d \in Memories
    BY <1>4
  <2> QED
    BY <1>4, <1>5, <1>6, <2>1, <2>2, <2>3, <2>5, <2>6
<1>14. SharingInv'
  <2> SUFFICES ASSUME NEW d \in InUse, NEW e \in InUse, NEW s \in Slots, NEW r \in Slots,
                      pde'[d][s] = pde'[e][r], pde'[d][s] # NULL
               PROVE  s = r /\ (d = e \/ s \in KernelSlots)
    BY <1>7 DEF SharingInv
  <2>1. pde[d][s] # new /\ pde[e][r] # new
    BY <1>6 DEF IsTable
  <2> QED
    BY <1>4, <1>5, <2>1 DEF TreeInv, SharingInv
<1>15. PageInv'
  <2> SUFFICES ASSUME NEW u \in Memories, IsTable(u)', NEW j \in Indices
               PROVE  /\ pte'[u][j] \in (Frames \ (page_map' \cup InUse)) \cup {NULL, Image}
                      /\ ~IsTable(pte'[u][j]) /\ pte'[u][j] # new
    BY <1>7, <1>8 DEF PageInv
  <2>1. CASE u = new
    BY <1>6, <1>9, <1>12, <2>1 DEF IsTable
  <2>2. CASE u # new
    <3>1. IsTable(u) /\ pte'[u][j] = pte[u][j]
      BY <1>8, <1>9, <2>2
    <3>2. /\ pte[u][j] \in (Frames \ (page_map \cup InUse)) \cup {NULL, Image}
          /\ ~IsTable(pte[u][j])
      BY <3>1 DEF TreeInv, PageInv
    <3> QED
      BY <1>6, <3>1, <3>2 DEF Mapped
  <2> QED
    BY <2>1, <2>2
<1>16. UniqueInv'
  <2> SUFFICES ASSUME NEW t \in Memories, NEW u \in Memories, IsTable(t)', IsTable(u)',
                      NEW j \in Indices, NEW k \in Indices,
                      pte'[t][j] = pte'[u][k], pte'[t][j] \in Frames
               PROVE  t = u /\ j = k
    BY DEF UniqueInv
  <2>1. NULL \notin Frames
    BY FrameKinds DEF Memories
  <2>2. CASE t = new /\ u = new
    BY <1>9, <2>1, <2>2
  <2>3. CASE t # new /\ u # new
    BY <1>8, <1>9, <2>3 DEF TreeInv, UniqueInv
  <2>4. CASE (t = new) # (u = new)
    BY <1>8, <1>9, <1>12, <2>1, <2>4 DEF Mapped
  <2> QED
    BY <2>2, <2>3, <2>4
<1>17. ASSUME NEW d \in InUse, NEW q \in Pages
       PROVE  /\ \/ Entry(d, q)' = Entry(d, q)
                 \/ /\ q = page /\ (d = cr3 \/ page[1] \in KernelSlots)
                    /\ Entry(d, q)' = frame
              /\ d = cr3 /\ q = page => Entry(d, q)' = frame
  <2>1. /\ q[1] \in Slots /\ q[2] \in Indices /\ q = <<q[1], q[2]>>
        /\ page = <<slot, i>> /\ d \in Memories
    BY <1>1, <1>2, <1>4 DEF Pages
  <2>2. CASE d = c /\ q[1] = slot
    <3>1. pde'[d][q[1]] = new
      BY <1>5, <2>1, <2>2
    <3>2. Entry(d, q)' = IF q[2] = i THEN frame ELSE NULL
      BY <1>4, <1>6, <1>9, <2>1, <3>1 DEF Entry
    <3>3. Entry(d, q) = NULL
      BY <1>2, <1>3, <2>2 DEF Entry
    <3> QED
      BY <1>3, <2>1, <2>2, <3>2, <3>3
  <2>3. CASE ~(d = c /\ q[1] = slot)
    <3>1. pde'[d][q[1]] = pde[d][q[1]]
      BY <1>5, <2>1, <2>3
    <3>2. pde[d][q[1]] # NULL =>
            /\ pde[d][q[1]] \in Memories /\ pde[d][q[1]] # new
      BY <1>4, <1>6, <2>1 DEF IsTable
    <3>3. Entry(d, q)' = Entry(d, q)
      BY <1>9, <2>1, <3>1, <3>2 DEF Entry
    <3> QED
      BY <1>2, <1>3, <2>3, <3>3
  <2> QED
    BY <2>2, <2>3
<1>18. ASSUME NEW f \in Frames, Used(f)
       PROVE  Used(f)'
  <2>1. CASE f \in InUse \/ IsTable(f)
    BY <1>7, <1>8, <2>1 DEF Used
  <2>2. CASE Mapped(f)
    <3>1. PICK u \in Memories, j \in Indices : IsTable(u) /\ pte[u][j] = f
      BY <2>2 DEF Mapped
    <3>2. u # new
      BY <1>6, <3>1
    <3> QED
      BY <1>8, <1>9, <3>1, <3>2 DEF Used, Mapped
  <2> QED
    BY <1>18, <2>1, <2>2 DEF Used
<1>19. Mapped(frame)' /\ Used(new)'
  BY <1>4, <1>8, <1>9 DEF Mapped, Used
<1>20. \A d \in InUse, s \in Slots : pde[d][s] # NULL => pde'[d][s] # NULL
  BY <1>4, <1>5, <1>6
<1>21. page_map' \subseteq page_map
  OBVIOUS
<1>22. TreeInv'
  BY <1>13, <1>14, <1>15, <1>16 DEF TreeInv
<1> QED
  BY <1>11, <1>17, <1>18, <1>19, <1>20, <1>21, <1>22 DEF PageStep, Used

\* map_page of a free frame, or of the image.  Frames that it takes are used.
LEMMA MapPage ==
  ASSUME TypeInv, TreeInv, NEW page \in Pages, NEW frame,
         frame \in page_map \cup {Image},
         NEW left \in SUBSET page_map, frame \notin left,
         map_page(page, frame, left),
         UNCHANGED <<cr3, spaces>>
  PROVE  /\ PageStep(page, frame)
         /\ \A f \in left \ page_map' : Used(f)'
         /\ frame \in Frames => Used(frame)'
<1>0. page_map \in SUBSET Frames
  BY DEF TypeInv
<1>1. CASE pde[cr3][page[1]] # NULL
  <2>1. /\ pte' = set_pte(pde[cr3][page[1]], page[2], frame)
        /\ page_map' = left /\ UNCHANGED pde
    BY <1>1 DEF map_page
  <2>2. PageStep(page, frame) /\ (frame \in Frames => Used(frame)')
    BY <1>1, <2>1, SetEntry
  <2> QED
    BY <2>1, <2>2
<1>2. CASE pde[cr3][page[1]] = NULL
  <2>1. PICK new \in reserve_page(left) :
          /\ page_map' = left \ {new}
          /\ pde' = [pde EXCEPT ![cr3][page[1]] = new]
          /\ pte' = [pte EXCEPT ![new] = [wipe_page_table(new) EXCEPT ![page[2]] = frame]]
    BY <1>2 DEF map_page
  <2>2. new \in left
    BY <1>0, <2>1, PickFree
  <2>3. new \in page_map \ {frame} /\ page_map' \subseteq page_map \ {frame, new}
    BY <2>1, <2>2
  <2>4. PageStep(page, frame) /\ (frame \in Frames => Used(frame)') /\ Used(new)'
    BY <1>2, <2>1, <2>3, NewTable
  <2> QED
    BY <2>1, <2>2, <2>4
<1> QED
  BY <1>1, <1>2

\* The tables and the directories in use stay, or one more directory is in
\* use, while page_map loses frames.
QuietStep ==
  /\ TableTypes' /\ TreeInv'
  /\ page_map' \subseteq page_map
  /\ \A d \in InUse, q \in Pages : Entry(d, q)' = Entry(d, q)
  /\ \A f \in Frames : Used(f) => Used(f)'

LEMMA FramesLost ==
  ASSUME TypeInv, TreeInv, page_map' \subseteq page_map, InUse' = InUse, UNCHANGED <<pde, pte>>
  PROVE  QuietStep
<1>1. \A u : IsTable(u)' <=> IsTable(u)
  BY DEF IsTable
<1>2. DirectoryInv' /\ SharingInv'
  BY DEF TreeInv, DirectoryInv, SharingInv
<1>3. PageInv' /\ UniqueInv'
  BY <1>1 DEF TreeInv, PageInv, UniqueInv
<1>4. TableTypes'
  BY DEF TypeInv, TableTypes
<1>5. \A f \in Frames : Used(f) => Used(f)'
  BY <1>1 DEF Used, Mapped
<1>6. \A d \in InUse, q \in Pages : Entry(d, q)' = Entry(d, q)
  BY DEF Entry
<1> QED
  BY <1>2, <1>3, <1>4, <1>5, <1>6 DEF QuietStep, TreeInv

\* unmap_page, the loaded directory's page being one of a user slot.
LEMMA UnmapPage ==
  ASSUME TypeInv, TreeInv, NEW page \in UserPages, unmap_page(page),
         UNCHANGED <<cr3, spaces>>
  PROVE  PageStep(page, NULL)
<1>1. page \in Pages /\ page[1] \in UserSlots /\ page[1] \in Slots
  BY DEF UserPages, Pages, Slots
<1>2. CASE Entry(cr3, page) # NULL
  <2>1. pde[cr3][page[1]] # NULL
    BY <1>2 DEF Entry
  <2>2. /\ pte' = set_pte(pde[cr3][page[1]], page[2], NULL)
        /\ UNCHANGED <<page_map, pde>>
    BY <1>2 DEF unmap_page, page_type
  <2>3. page_map' \subseteq page_map \ {NULL}
    BY <2>2, FrameKinds DEF TypeInv, Memories
  <2> QED
    BY <1>1, <2>1, <2>2, <2>3, SetEntry
<1>3. CASE Entry(cr3, page) = NULL
  <2>1. UNCHANGED <<page_map, pde, pte>>
    BY <1>3 DEF unmap_page, page_type
  <2>2. QuietStep
    BY <2>1, InUseKept, FramesLost
  <2>3. \A d \in InUse, q \in Pages : d = cr3 /\ q = page => Entry(d, q)' = NULL
    BY <1>3, <2>2 DEF QuietStep
  <2> QED
    BY <2>1, <2>2, <2>3 DEF QuietStep, PageStep
<1> QED
  BY <1>2, <1>3

\* A new directory shares the tables of kernel slots with the loaded one.
LEMMA NewDirectory ==
  ASSUME TypeInv, TreeInv, NEW table \in page_map,
         page_map' = page_map \ {table},
         pde' = paging_init_top_table(table),
         cr3' = table, cr3 \in Directories \cup {boot_directory},
         UNCHANGED <<pte, spaces>>
  PROVE  /\ QuietStep /\ Used(table)'
         /\ InUse' = InUse \cup {table} /\ table \notin InUse /\ table \in Frames
         /\ \A s \in UserSlots : pde'[table][s] = NULL
<1>1. /\ table \in Frames /\ table \in Memories
      /\ pde \in [Memories -> [Slots -> Memories \cup {NULL}]]
      /\ pte \in [Memories -> [Indices -> Memories \cup {NULL}]]
      /\ InUse \subseteq Memories /\ cr3 \in InUse
  BY InUseType DEF TypeInv, Memories
<1>2. InUse' = InUse \cup {table}
  BY DEF InUse, Directories
<1>3. table \notin InUse /\ ~IsTable(table) /\ ~Mapped(table) /\ table # boot_directory
  BY <1>1, TableKinds, FrameKinds DEF TreeInv, DirectoryInv, Mapped
<1>4. /\ \A d \in InUse : pde'[d] = pde[d]
      /\ \A s \in Slots : pde'[table][s] = IF s \in KernelSlots THEN pde[cr3][s] ELSE NULL
      /\ pde' \in [Memories -> [Slots -> Memories \cup {NULL}]]
  <2>1. [s \in Slots |-> IF s \in KernelSlots THEN pde[cr3][s] ELSE NULL]
          \in [Slots -> Memories \cup {NULL}]
    BY <1>1
  <2> QED
    BY <1>1, <1>3, <2>1 DEF paging_init_top_table
<1>5. \A u : IsTable(u)' <=> IsTable(u)
  <2>1. ASSUME NEW u, IsTable(u)'
        PROVE  IsTable(u)
    <3>1. PICK d \in InUse', s \in Slots : pde'[d][s] = u /\ u # NULL
      BY <2>1 DEF IsTable
    <3> QED
      BY <1>1, <1>2, <1>4, <3>1 DEF IsTable
  <2>2. ASSUME NEW u, IsTable(u)
        PROVE  IsTable(u)'
    BY <1>2, <1>4, <2>2 DEF IsTable
  <2> QED
    BY <2>1, <2>2
<1>6. DirectoryInv'
  <2>1. InUse' \cap page_map' = {}
    BY <1>2 DEF TreeInv, DirectoryInv
  <2> SUFFICES ASSUME NEW d \in InUse', NEW s \in Slots
               PROVE  /\ pde'[d][s] \in (Frames \ (page_map' \cup InUse'))
                                          \cup {NULL, kernel_table, identity_table}
                      /\ pde'[d][s] = kernel_table <=> s = ImageSlot
                      /\ pde'[d][s] = identity_table <=> d = boot_directory /\ s = FirstSlot
    BY <2>1 DEF DirectoryInv
  <2>2. \A e \in InUse :
          /\ pde[e][s] \in (Frames \ (page_map \cup InUse)) \cup {NULL, kernel_table, identity_table}
          /\ pde[e][s] # table
          /\ pde[e][s] = kernel_table <=> s = ImageSlot
          /\ pde[e][s] = identity_table <=> e = boot_directory /\ s = FirstSlot
    BY <1>1, <1>3, FrameKinds DEF TreeInv, DirectoryInv, IsTable
  <2>3. CASE d \in InUse
    BY <1>2, <1>4, <2>2, <2>3
  <2>4. CASE d = table
    <3>1. FirstSlot \notin KernelSlots /\ ImageSlot \in KernelSlots /\ NULL # kernel_table
            /\ NULL # identity_table
      BY MemoryAssumption, FrameKinds
    <3> QED
      BY <1>1, <1>2, <1>3, <1>4, <2>2, <2>4, <3>1
  <2> QED
    BY <1>2, <2>3, <2>4
<1>7. SharingInv'
  <2> SUFFICES ASSUME NEW d \in InUse', NEW e \in InUse', NEW s \in Slots, NEW r \in Slots,
                      pde'[d][s] = pde'[e][r], pde'[d][s] # NULL
               PROVE  s = r /\ (d = e \/ s \in KernelSlots)
    BY DEF SharingInv
  <2>1. \E d1 \in InUse : pde[d1][s] = pde'[d][s] /\ (d1 = d \/ s \in KernelSlots)
    BY <1>1, <1>2, <1>4
  <2>2. \E e1 \in InUse : pde[e1][r] = pde'[e][r] /\ (e1 = e \/ r \in KernelSlots)
    BY <1>1, <1>2, <1>4
  <2> QED
    BY <2>1, <2>2 DEF TreeInv, SharingInv
<1>8. PageInv' /\ UniqueInv'
  <2>1. PageInv'
    <3> SUFFICES ASSUME NEW u \in Memories, IsTable(u), NEW j \in Indices
                 PROVE  /\ pte[u][j] \in (Frames \ (page_map' \cup InUse')) \cup {NULL, Image}
                        /\ ~IsTable(pte[u][j])
      BY <1>5 DEF PageInv
    <3>1. pte[u][j] # table
      BY <1>3 DEF Mapped
    <3> QED
      BY <1>2, <3>1 DEF TreeInv, PageInv
  <2> QED
    BY <1>5, <2>1 DEF TreeInv, UniqueInv
<1>9. TableTypes'
  BY <1>1, <1>4 DEF TableTypes, TypeInv
<1>10. \A d \in InUse, q \in Pages : Entry(d, q)' = Entry(d, q)
  BY <1>4 DEF Entry
<1>11. Used(table)' /\ \A f \in Frames : Used(f) => Used(f)'
  BY <1>2, <1>5 DEF Used, Mapped
<1>12. \A s \in UserSlots : pde'[table][s] = NULL
  BY <1>4, FrameKinds
<1> QED
  BY <1>1, <1>2, <1>3, <1>6, <1>7, <1>8, <1>9, <1>10, <1>11, <1>12 DEF QuietStep, TreeInv

(***************************************************************************)
(* Frames that have no use                                                 *)
(***************************************************************************)

UsedExactly == \A f \in Frames : (Uses(f) = {}) <=> ~Used(f)

LEMMA UsesOf == TypeInv => UsedExactly
<1> SUFFICES ASSUME TypeInv, NEW f \in Frames
             PROVE  Uses(f) = {} <=> ~Used(f)
  BY DEF UsedExactly
<1>0. f # NULL
  BY FrameKinds DEF Memories
<1>1. \A t : t \in Tables <=> IsTable(t)
  BY DEF Tables, IsTable
<1>2. \A t : IsTable(t) => t \in Memories
  BY InUseType DEF IsTable, TypeInv
<1>3. IsTable(f) <=> \E ds \in InUse \X Slots : pde[ds[1]][ds[2]] = f
  <2>1. ASSUME IsTable(f)
        PROVE  \E ds \in InUse \X Slots : pde[ds[1]][ds[2]] = f
    <3>1. PICK d \in InUse, s \in Slots : pde[d][s] = f
      BY <2>1 DEF IsTable
    <3>2. <<d, s>> \in InUse \X Slots
      BY <3>1
    <3> QED
      BY <3>1, <3>2
  <2>2. ASSUME NEW ds \in InUse \X Slots, pde[ds[1]][ds[2]] = f
        PROVE  IsTable(f)
    BY <1>0, <2>2 DEF IsTable
  <2> QED
    BY <2>1, <2>2
<1>4. Mapped(f) <=> \E x \in Tables \X Indices : pte[x[1]][x[2]] = f
  <2>1. ASSUME Mapped(f)
        PROVE  \E x \in Tables \X Indices : pte[x[1]][x[2]] = f
    <3>1. PICK t \in Memories, i \in Indices : IsTable(t) /\ pte[t][i] = f
      BY <2>1 DEF Mapped
    <3>2. <<t, i>> \in Tables \X Indices
      BY <1>1, <3>1
    <3> QED
      BY <3>1, <3>2
  <2>2. ASSUME NEW x \in Tables \X Indices, pte[x[1]][x[2]] = f
        PROVE  Mapped(f)
    BY <1>1, <1>2, <2>2 DEF Mapped
  <2> QED
    BY <2>1, <2>2
<1> DEFINE A == {<<"directory", d>> : d \in InUse \cap {f}}
           C == {ds \in InUse \X Slots : pde[ds[1]][ds[2]] = f}
           B == {<<"table", IF us[2] \in KernelSlots THEN NULL ELSE us[1], us[2]>> : us \in C}
           E == {x \in Tables \X Indices : pte[x[1]][x[2]] = f}
           G == {<<"page", ti[1], ti[2]>> : ti \in E}
<1>5. Uses(f) = A \cup B \cup G
  BY DEF Uses
<1>6. A = {} <=> f \notin InUse
  OBVIOUS
<1>7. B = {} <=> C = {}
  OBVIOUS
<1>8. G = {} <=> E = {}
  OBVIOUS
<1>9. C = {} <=> ~IsTable(f)
  BY <1>3
<1>10. E = {} <=> ~Mapped(f)
  BY <1>4
<1> HIDE DEF A, B, C, E, G
<1> QED
  BY <1>5, <1>6, <1>7, <1>8, <1>9, <1>10 DEF Used

LEMMA UsesOfNext == TypeInv' => UsedExactly'
BY UsesOf, PTL

LEMMA NewlyForgotten ==
  ASSUME TypeInv, TypeInv', NEW f \in Forgotten' \ Forgotten
  PROVE  /\ f \in Frames /\ f \notin page_map' /\ ~Used(f)'
         /\ f \in page_map \/ Used(f)
<1>1. UsedExactly /\ UsedExactly'
  BY UsesOf, UsesOfNext
<1>2. f \in Frames /\ f \notin page_map' /\ Uses(f)' = {}
  BY DEF Forgotten
<1>3. f \in page_map \/ Uses(f) # {}
  BY <1>2 DEF Forgotten
<1> QED
  BY <1>1, <1>2, <1>3 DEF UsedExactly

LEMMA PageForgets ==
  ASSUME TypeInv, TypeInv', NEW page, NEW frame, PageStep(page, frame),
         NEW f \in Forgotten' \ Forgotten
  PROVE  f \in Frames /\ (f = Entry(cr3, page) \/ (f \in page_map \ page_map' /\ ~Used(f)'))
BY NewlyForgotten DEF PageStep

LEMMA QuietForgets ==
  ASSUME TypeInv, TypeInv', QuietStep, NEW f \in Forgotten' \ Forgotten
  PROVE  f \in Frames /\ f \in page_map \ page_map' /\ ~Used(f)'
BY NewlyForgotten DEF QuietStep

\* The invariant about the tables leaves each frame one use at most.
LEMMA TreeOneUse ==
  ASSUME TypeInv, TreeInv
  PROVE  OneUse
<1> SUFFICES ASSUME NEW f \in Frames
             PROVE  Cardinality(Uses(f)) <= 1 /\ (f \in page_map => Uses(f) = {})
  BY DEF OneUse
<1>0. f # NULL /\ f # Image
  BY FrameKinds DEF Memories
<1>1. f \in page_map => Uses(f) = {}
  <2>1. f \in page_map => ~Used(f)
    BY TableKinds DEF Used, Mapped, TreeInv, DirectoryInv
  <2> QED
    BY <2>1, UsesOf DEF UsedExactly
<1>2. \A t : t \in Tables <=> IsTable(t)
  BY DEF Tables, IsTable
<1> DEFINE A == {<<"directory", d>> : d \in InUse \cap {f}}
           C == {ds \in InUse \X Slots : pde[ds[1]][ds[2]] = f}
           B == {<<"table", IF us[2] \in KernelSlots THEN NULL ELSE us[1], us[2]>> : us \in C}
           E == {x \in Tables \X Indices : pte[x[1]][x[2]] = f}
           G == {<<"page", ti[1], ti[2]>> : ti \in E}
<1>3. Uses(f) = A \cup B \cup G
  BY DEF Uses
<1>4. A = {} \/ A = {<<"directory", f>>}
  OBVIOUS
<1>5. ASSUME B # {}
      PROVE  \E u : B = {u}
  <2>1. PICK us \in C : TRUE
    BY <1>5
  <2>2. PICK d \in InUse, s \in Slots : us = <<d, s>> /\ pde[d][s] = f
    BY <2>1
  <2>3. \A vs \in C : vs[1] \in InUse /\ vs[2] \in Slots /\ pde[vs[1]][vs[2]] = f
    OBVIOUS
  <2>4. \A vs \in C : vs[2] = s /\ (vs[1] = d \/ s \in KernelSlots)
    BY <1>0, <2>2, <2>3 DEF TreeInv, SharingInv
  <2>5. \A vs \in C :
          <<"table", IF vs[2] \in KernelSlots THEN NULL ELSE vs[1], vs[2]>> =
          <<"table", IF s \in KernelSlots THEN NULL ELSE d, s>>
    BY <2>4
  <2>6. B = {<<"table", IF s \in KernelSlots THEN NULL ELSE d, s>>}
    BY <2>1, <2>5
  <2> QED
    BY <2>6
<1>6. ASSUME G # {}
      PROVE  \E u : G = {u}
  <2>1. PICK x \in E : TRUE
    BY <1>6
  <2>2. \A y \in E : y[1] \in Tables /\ y[2] \in Indices /\ pte[y[1]][y[2]] = f
    OBVIOUS
  <2>3. \A y \in E : IsTable(y[1]) /\ y[1] \in Memories
    BY <1>2, <2>2, TableKinds
  <2>4. \A y \in E : y[1] = x[1] /\ y[2] = x[2]
    BY <2>1, <2>2, <2>3 DEF TreeInv, UniqueInv
  <2>5. G = {<<"page", x[1], x[2]>>}
    BY <2>1, <2>4
  <2> QED
    BY <2>5
<1>7. B # {} => A = {} /\ G = {}
  <2>1. B # {} => IsTable(f)
    BY <1>0 DEF IsTable
  <2>2. IsTable(f) => f \notin InUse
    BY TableKinds
  <2>3. IsTable(f) => ~Mapped(f)
    BY DEF Mapped, TreeInv, PageInv
  <2>4. G # {} => Mapped(f)
    <3>1. ASSUME NEW y \in E
          PROVE  Mapped(f)
      <4>1. y[1] \in Tables /\ y[2] \in Indices /\ pte[y[1]][y[2]] = f
        OBVIOUS
      <4> QED
        BY <1>2, <4>1, TableKinds DEF Mapped
    <3> QED
      BY <3>1
  <2> QED
    BY <2>1, <2>2, <2>3, <2>4
<1>8. G # {} => A = {}
  <2>1. ASSUME NEW y \in E
        PROVE  f \notin InUse
    <3>1. IsTable(y[1]) /\ y[2] \in Indices /\ pte[y[1]][y[2]] = f
      BY <1>2
    <3>2. y[1] \in Memories
      BY <3>1, TableKinds
    <3> QED
      BY <1>0, <3>1, <3>2 DEF TreeInv, PageInv
  <2> QED
    BY <2>1
<1> HIDE DEF A, B, C, E, G
<1>9. Uses(f) = {} \/ \E u : Uses(f) = {u}
  <2>1. CASE B # {}
    <3>1. Uses(f) = B
      BY <1>3, <1>7, <2>1
    <3> QED
      BY <1>5, <2>1, <3>1
  <2>2. CASE B = {} /\ G # {}
    <3>1. Uses(f) = G
      BY <1>3, <1>8, <2>2
    <3> QED
      BY <1>6, <2>2, <3>1
  <2>3. CASE B = {} /\ G = {}
    <3>1. Uses(f) = A
      BY <1>3, <2>3
    <3> QED
      BY <1>4, <3>1
  <2> QED
    BY <2>1, <2>2, <2>3
<1>10. Cardinality(Uses(f)) <= 1
  <2>1. Uses(f) = {} => Cardinality(Uses(f)) = 0
    BY FS_EmptySet
  <2>2. ASSUME NEW u, Uses(f) = {u}
        PROVE  Cardinality(Uses(f)) = 1
    BY <2>2, FS_Singleton
  <2>3. Cardinality(Uses(f)) \in {0, 1}
    BY <1>9, <2>1, <2>2
  <2> QED
    BY <2>3
<1> QED
  BY <1>1, <1>10

\* All directories have the same table of the kernel's image.
LEMMA HeapInvShared ==
  ASSUME TypeInv, TreeInv, HeapInv
  PROVE  HeapShared
<1> SUFFICES ASSUME NEW d \in InUse, NEW page \in objects, page[1] = ImageSlot
             PROVE  Entry(d, page) # NULL /\ Entry(d, page) = Entry(cr3, page)
  BY DEF HeapShared
<1>1. \A e \in InUse : pde[e][ImageSlot] = kernel_table
  BY FrameKinds DEF TreeInv, DirectoryInv
<1>2. \A e \in InUse : Entry(e, page) = pte[kernel_table][page[2]]
  BY <1>1, FrameKinds DEF Entry
<1> QED
  BY <1>2, InUseType DEF HeapInv

(***************************************************************************)
(* What the steps have in common                                           *)
(***************************************************************************)

LEMMA PagesKnown ==
  ASSUME TypeInv, StageInv
  PROVE  /\ UserPages \subseteq Pages /\ HeapPages \subseteq Pages
         /\ ImageRange \subseteq UserPages /\ StackPage \in Pages
         /\ \A d \in Directories : ProgramPages(spaces[d]) \subseteq Pages
         /\ doing \in Filling => ProgramPages(request) \subseteq Pages
         /\ doing \in {"kminit", "mmap"} => \A j \in DOMAIN todo : todo[j] \in Pages
<1>1. UserPages \subseteq Pages /\ HeapPages \subseteq Pages /\ {ImageSlot} \X Indices \subseteq Pages
  BY MemoryAssumption DEF UserPages, Pages, Slots
<1>2. ImageRange \subseteq UserPages /\ StackPage \in Pages
  BY <1>1, MemoryAssumption DEF ImageRange
<1>3. \A p \in Programs : ProgramPages(p) \subseteq Pages
  BY <1>1, RangeAssumption
<1>4. doing \in {"kminit", "mmap"} =>
        todo \in Seq({ImageSlot} \X Indices) \/ todo \in Seq(UserPages)
  BY DEF StageInv
<1>5. \A S \in {{ImageSlot} \X Indices, UserPages} : \A q \in Seq(S) :
        \A j \in DOMAIN q : q[j] \in S
  OBVIOUS
<1>6. doing \in {"kminit", "mmap"} => \A j \in DOMAIN todo : todo[j] \in Pages
  BY <1>1, <1>4, <1>5
<1> QED
  BY <1>1, <1>2, <1>3, <1>6 DEF StageInv, TypeInv

\* No page gets lost.
Grows ==
  /\ page_map' \subseteq page_map
  /\ \A d \in InUse, q \in Pages : Entry(d, q) # NULL => Entry(d, q)' # NULL

LEMMA PageGrows ==
  ASSUME NEW page, NEW frame, PageStep(page, frame), frame # NULL
  PROVE  Grows
BY DEF PageStep, Grows

LEMMA QuietGrows ==
  ASSUME QuietStep
  PROVE  Grows
BY DEF QuietStep, Grows

LEMMA GrowthKeeps ==
  ASSUME TypeInv, StageInv, HeapInv, SpaceComplete, Grows,
         UNCHANGED spaces, mode' = "hung" \/ mode # "hung",
         \A page \in objects' \ objects :
           page[1] = ImageSlot => Entry(boot_directory, page)' # NULL
  PROVE  HeapInv' /\ SpaceComplete'
<1>1. objects \subseteq Pages /\ boot_directory \in InUse /\ Directories \subseteq InUse
  BY PagesKnown DEF TypeInv, InUse
<1>2. HeapInv'
  BY <1>1 DEF HeapInv, Grows
<1>3. SpaceComplete'
  <2> SUFFICES ASSUME mode' # "hung", NEW d \in Directories
               PROVE  /\ \A q \in ProgramPages(spaces[d]) : Entry(d, q)' # NULL
                      /\ Entry(d, StackPage)' # NULL \/ page_map' = {}
    BY DEF SpaceComplete, Directories
  <2>1. /\ \A q \in ProgramPages(spaces[d]) : Entry(d, q) # NULL
        /\ Entry(d, StackPage) # NULL \/ page_map = {}
    BY DEF SpaceComplete
  <2>2. ProgramPages(spaces[d]) \subseteq Pages
    BY PagesKnown
  <2> QED
    BY <1>1, <2>1, <2>2, PagesKnown DEF Grows
<1> QED
  BY <1>2, <1>3

\* The properties of steps
KeptStep ==
  \A f \in Forgotten' \ Forgotten :
    /\ Forgotten' \ Forgotten = {f}
    /\ \/ doing = "kminit"
       \/ doing = "program" /\ f = Entry(cr3, PageOf(Head(todo).vaddr))
       \/ page_map = {f} /\ page_map' = {} /\ doing # "mmap"
       \/ mode' = "hung" /\ \E page \in UserPages : f = Entry(cr3, page)

OthersStep ==
  \A d \in Directories \ {cr3} : \A page \in UserPages :
    Entry(d, page)' = Entry(d, page)

LEMMA QuietOthers ==
  ASSUME TypeInv, QuietStep
  PROVE  OthersStep
BY DEF QuietStep, OthersStep, InUse, UserPages, Pages, Slots

LEMMA PageOthers ==
  ASSUME TypeInv, NEW page \in Pages, NEW frame, PageStep(page, frame)
  PROVE  OthersStep
<1>1. \A q \in UserPages : q \in Pages /\ q[1] \notin KernelSlots
  BY FrameKinds DEF UserPages, Pages, Slots
<1> QED
  BY <1>1 DEF PageStep, OthersStep, InUse

\* Nothing is forgotten.
LEMMA NoneForgotten ==
  ASSUME Forgotten' \subseteq Forgotten
  PROVE  KeptStep
BY DEF KeptStep

StepOK == IInv' /\ KeptStep /\ OthersStep

LEMMA TailPages ==
  ASSUME NEW S, NEW s \in Seq(S), s # <<>>
  PROVE  /\ Head(s) \in S /\ Tail(s) \in Seq(S)
         /\ 1 \in DOMAIN s /\ Head(s) = s[1]
         /\ \A j \in DOMAIN Tail(s) : j + 1 \in DOMAIN s /\ Tail(s)[j] = s[j + 1]
         /\ \A k \in DOMAIN s : k = 1 \/ \E j \in DOMAIN Tail(s) : Tail(s)[j] = s[k]
<1>1. /\ Len(s) \in Nat \ {0} /\ DOMAIN s = 1..Len(s) /\ Head(s) = s[1]
      /\ Tail(s) \in Seq(S) /\ Len(Tail(s)) = Len(s) - 1
      /\ DOMAIN Tail(s) = 1..Len(s) - 1
      /\ \A j \in 1..Len(s) - 1 : Tail(s)[j] = s[j + 1]
  OBVIOUS
<1>2. \A k \in DOMAIN s : k # 1 => k - 1 \in DOMAIN Tail(s) /\ (k - 1) + 1 = k
  BY <1>1
<1>3. \A j \in DOMAIN Tail(s) : j + 1 \in DOMAIN s /\ Tail(s)[j] = s[j + 1]
  BY <1>1
<1>4. \A k \in DOMAIN s : k # 1 => Tail(s)[k - 1] = s[k]
  BY <1>2, <1>3
<1> QED
  BY <1>1, <1>2, <1>3, <1>4

LEMMA TailDistinct ==
  ASSUME NEW S, NEW s \in Seq(S), s # <<>>, Distinct(s)
  PROVE  Distinct(Tail(s)) /\ \A j \in DOMAIN Tail(s) : Tail(s)[j] # Head(s)
<1>1. /\ 1 \in DOMAIN s /\ Head(s) = s[1]
      /\ \A j \in DOMAIN Tail(s) : j \in Nat \ {0} /\ j + 1 \in DOMAIN s /\ Tail(s)[j] = s[j + 1]
  BY TailPages
<1>2. \A i, j \in DOMAIN s : s[i] = s[j] => i = j
  BY DEF Distinct
<1>3. \A j \in DOMAIN Tail(s) : Tail(s)[j] # Head(s)
  BY <1>1, <1>2
<1>4. \A i, j \in DOMAIN Tail(s) : Tail(s)[i] = Tail(s)[j] => i = j
  <2> SUFFICES ASSUME NEW i \in DOMAIN Tail(s), NEW j \in DOMAIN Tail(s),
                      Tail(s)[i] = Tail(s)[j]
               PROVE  i = j
    OBVIOUS
  <2>1. i + 1 = j + 1
    BY <1>1, <1>2
  <2> QED
    BY <1>1, <2>1
<1> QED
  BY <1>3, <1>4 DEF Distinct

\* The kernel halts, or returns an error, having at most lost free frames.
LEMMA QuietKeeps ==
  ASSUME IInv, page_map' \subseteq page_map,
         UNCHANGED <<pde, pte, cr3, spaces, doing, todo, request, objects>>,
         mode' \in {mode, "panic", "fault"}, mode' = mode \/ mode # "hung",
         mode' = "fault" /\ doing = "create" => WindowMissing'
  PROVE  IInv' /\ QuietStep
<1>1. QuietStep
  BY FramesLost, InUseKept DEF IInv
<1>2. TypeInv' /\ TreeInv'
  BY <1>1 DEF IInv, TypeInv, QuietStep, TableTypes, Directories
<1>3. HeapInv' /\ SpaceComplete'
  BY <1>1, QuietGrows, GrowthKeeps DEF IInv
<1>4. StageInv'
  BY DEF IInv, StageInv, Directories, Filling
<1>5. LoopInv'
  BY DEF IInv, LoopInv, Entry
<1>6. WindowMissing'
  BY DEF IInv, WindowMissing
<1> QED
  BY <1>1, <1>2, <1>3, <1>4, <1>5, <1>6 DEF IInv

LEMMA NothingLost ==
  ASSUME IInv, page_map' = page_map,
         UNCHANGED <<pde, pte, cr3, spaces, doing, todo, request, objects>>,
         mode' \in {mode, "panic", "fault"}, mode' = mode \/ mode # "hung",
         mode' = "fault" /\ doing = "create" => WindowMissing'
  PROVE  StepOK
<1>1. IInv' /\ QuietStep
  BY QuietKeeps
<1>2. Forgotten' \subseteq Forgotten
  <2> SUFFICES ASSUME NEW f \in Forgotten' \ Forgotten
               PROVE  FALSE
    OBVIOUS
  <2> QED
    BY <1>1, QuietForgets DEF IInv
<1> QED
  BY <1>1, <1>2, NoneForgotten, QuietOthers DEF StepOK, IInv

\* map_page has no frame for a page table: the one for the page is lost.
LEMMA LastLost ==
  ASSUME IInv, NEW frame, page_map = {frame}, page_map' = {}, doing # "mmap",
         UNCHANGED <<pde, pte, cr3, spaces, doing, todo, request, objects>>,
         mode' \in {mode, "panic", "fault"}, mode # "hung", doing # "create"
  PROVE  StepOK
<1>1. IInv' /\ QuietStep
  BY QuietKeeps
<1>2. \A f \in Forgotten' \ Forgotten : f = frame
  BY <1>1, QuietForgets DEF IInv
<1>3. KeptStep
  BY <1>2 DEF KeptStep
<1> QED
  BY <1>1, <1>3, QuietOthers DEF StepOK, IInv

\* A page is mapped, and the frames that this takes are used.
LEMMA MapKeeps ==
  ASSUME IInv, NEW page \in Pages, NEW frame, frame # NULL, PageStep(page, frame),
         UNCHANGED <<spaces, cr3>>,
         objects' \in SUBSET HeapPages,
         \A q \in objects' \ objects :
           q[1] = ImageSlot => Entry(boot_directory, q)' # NULL,
         mode # "hung", ~(mode' = "fault" /\ doing' = "create"),
         StageInv', LoopInv'
  PROVE  IInv' /\ OthersStep
<1>1. TypeInv' /\ TreeInv'
  BY DEF IInv, TypeInv, PageStep, TableTypes, Directories
<1>2. HeapInv' /\ SpaceComplete'
  BY PageGrows, GrowthKeeps DEF IInv
<1>3. WindowMissing'
  BY DEF WindowMissing
<1>4. OthersStep
  BY PageOthers DEF IInv
<1> QED
  BY <1>1, <1>2, <1>3, <1>4 DEF IInv

(***************************************************************************)
(* The steps                                                               *)
(***************************************************************************)

LEMMA LoopTail ==
  ASSUME TypeInv, NEW S \in SUBSET Pages, todo \in Seq(S), todo # <<>>, todo' = Tail(todo),
         Distinct(todo), \A j \in DOMAIN todo : Entry(cr3, todo[j]) = NULL,
         NEW page, page = Head(todo), NEW frame, PageStep(page, frame), UNCHANGED cr3
  PROVE  Distinct(todo)' /\ (\A j \in DOMAIN todo : Entry(cr3, todo[j]) = NULL)'
<1>1. /\ Distinct(todo')
      /\ \A j \in DOMAIN todo' : todo'[j] \in Pages /\ todo'[j] # page
                                /\ Entry(cr3, todo'[j]) = NULL
  <2>1. PICK s \in Seq(S) : s = todo
    OBVIOUS
  <2>2. \A i \in DOMAIN s : s[i] \in S
    OBVIOUS
  <2> QED
    BY <2>1, <2>2, TailPages, TailDistinct
<1>2. \A j \in DOMAIN todo' : \A q \in Pages, d \in InUse :
        q = todo'[j] /\ d = cr3 => Entry(d, q)' = NULL
  BY <1>1 DEF PageStep
<1>3. (\A j \in DOMAIN todo : Entry(cr3, todo[j]) = NULL)'
  BY <1>1, <1>2, InUseType
<1> QED
  BY <1>1, <1>3

LEMMA BitmapStep ==
  ASSUME IInv, mmap_callback
  PROVE  StepOK
<1>0. mode = "boot" /\ doing = "kminit" /\ todo # <<>> /\ page_map \in SUBSET Frames
  BY DEF mmap_callback, IInv, TypeInv
<1>1. CASE Halt("panic")
  BY <1>0, <1>1, NothingLost DEF Halt, tables
<1>2. CASE ~Halt("panic")
  <2>1. PICK lost \in reserve_page(page_map) : \E frame \in reserve_page(page_map \ {lost}) :
          /\ map_page(Head(todo), frame, page_map \ {lost, frame})
          /\ Continue("kminit", Tail(todo))
          /\ UNCHANGED <<mode, spaces, request, cr3, objects>>
    BY <1>2 DEF mmap_callback
  <2>2. PICK frame \in reserve_page(page_map \ {lost}) :
          /\ map_page(Head(todo), frame, page_map \ {lost, frame})
          /\ Continue("kminit", Tail(todo))
          /\ UNCHANGED <<mode, spaces, request, cr3, objects>>
    BY <2>1
  <2>3. lost \in page_map /\ frame \in page_map /\ frame # NULL
    BY <1>0, <2>1, <2>2, PickFree, FrameKinds DEF Memories
  <2>4. PICK page : page = Head(todo)
    OBVIOUS
  <2>5. /\ todo \in Seq({ImageSlot} \X Indices) /\ cr3 = boot_directory /\ Directories = {}
        /\ Distinct(todo) /\ \A j \in DOMAIN todo : Entry(cr3, todo[j]) = NULL
        /\ \A j \in DOMAIN todo : todo[j] \in Pages
    BY <1>0, PagesKnown DEF IInv, StageInv, LoopInv
  <2>6. /\ page \in Pages /\ Entry(cr3, page) = NULL
        /\ todo' = Tail(todo) /\ doing' = "kminit"
        /\ todo' \in Seq({ImageSlot} \X Indices) /\ Distinct(todo')
        /\ \A j \in DOMAIN todo' :
             /\ todo'[j] \in Pages /\ todo'[j] # page /\ Entry(cr3, todo'[j]) = NULL
    BY <1>0, <2>2, <2>4, <2>5, TailPages, TailDistinct DEF Continue
  <2>7. /\ PageStep(page, frame)
        /\ \A f \in (page_map \ {lost, frame}) \ page_map' : Used(f)'
        /\ frame \in Frames => Used(frame)'
    BY <2>2, <2>3, <2>4, <2>6, MapPage DEF IInv
  <2>8. StageInv'
    BY <1>0, <2>2, <2>5, <2>6 DEF StageInv, IInv, Filling, Directories
  <2>9. LoopInv'
    <3>1. {ImageSlot} \X Indices \in SUBSET Pages
      BY MemoryAssumption DEF Pages, Slots
    <3>2. Distinct(todo)' /\ (\A j \in DOMAIN todo : Entry(cr3, todo[j]) = NULL)'
      BY <1>0, <2>2, <2>4, <2>5, <2>6, <2>7, <3>1, LoopTail DEF IInv
    <3> QED
      BY <2>6, <3>2 DEF LoopInv, Loaded
  <2>10. IInv' /\ OthersStep
    BY <1>0, <2>2, <2>3, <2>6, <2>7, <2>8, <2>9, MapKeeps DEF IInv, TypeInv
  <2>11. \A f \in Forgotten' \ Forgotten : f = lost
    <3> SUFFICES ASSUME NEW f \in Forgotten' \ Forgotten
                 PROVE  f = lost
      OBVIOUS
    <3>1. f \in Frames /\ (f = Entry(cr3, page) \/ (f \in page_map \ page_map' /\ ~Used(f)'))
      BY <2>7, <2>10, PageForgets DEF IInv
    <3> QED
      BY <2>6, <2>7, <3>1, FrameKinds DEF Memories
  <2>12. KeptStep
    BY <1>0, <2>11 DEF KeptStep
  <2> QED
    BY <2>10, <2>12 DEF StepOK
<1> QED
  BY <1>1, <1>2

\* With no table in entry 0 of the loaded directory this faults, which
\* happens only if the module loaded before has no page there.
LEMMA CreateFaults ==
  ASSUME IInv, mode = "boot", doing = "create", pde[cr3][FirstSlot] = NULL, Halt("fault")
  PROVE  StepOK
<1>1. cr3 # boot_directory
  BY FrameKinds, InUseType DEF IInv, TreeInv, DirectoryInv
<1>2. cr3 \in Directories
  BY <1>1 DEF IInv, StageInv
<1>3. \A q \in ProgramPages(spaces[cr3]) : q[1] # FirstSlot
  BY <1>2 DEF IInv, SpaceComplete, Entry
<1>4. WindowMissing'
  BY <1>2, <1>3 DEF WindowMissing, Halt, Directories
<1> QED
  BY <1>4, NothingLost DEF Halt, tables

LEMMA CreateStep ==
  ASSUME IInv, create_address_space
  PROVE  StepOK
<1>0. mode = "boot" /\ doing = "create" /\ cr3 \in Directories \cup {boot_directory}
  BY DEF create_address_space, Loading, IInv, StageInv
<1>1. CASE Halt("panic")
  BY <1>0, <1>1, NothingLost DEF Halt, tables
<1>2. CASE pde[cr3][FirstSlot] = NULL /\ Halt("fault")
  BY <1>0, <1>2, CreateFaults
<1>3. CASE \E table \in reserve_page(page_map) :
             /\ page_map' = page_map \ {table}
             /\ pde' = paging_init_top_table(table)
             /\ cr3' = table
             /\ \E p \in Programs : request' = p
             /\ Continue("image", ImagePages)
             /\ UNCHANGED <<mode, spaces, pte, objects>>
  <2>1. PICK table \in reserve_page(page_map) :
             /\ page_map' = page_map \ {table}
             /\ pde' = paging_init_top_table(table)
             /\ cr3' = table
             /\ request' \in Programs
             /\ doing' = "image" /\ todo' = ImagePages
             /\ UNCHANGED <<mode, spaces, pte, objects>>
    BY <1>3 DEF Continue
  <2>2. table \in page_map
    BY <2>1, PickFree DEF IInv, TypeInv
  <2>3. /\ QuietStep /\ Used(table)'
        /\ InUse' = InUse \cup {table} /\ table \notin InUse /\ table \in Frames
        /\ \A s \in UserSlots : pde'[table][s] = NULL
    BY <1>0, <2>1, <2>2, NewDirectory DEF IInv
  <2>4. TypeInv' /\ TreeInv'
    BY <2>1, <2>3 DEF IInv, TypeInv, QuietStep, TableTypes, Directories
  <2>5. HeapInv' /\ SpaceComplete'
    BY <1>0, <2>1, <2>3, QuietGrows, GrowthKeeps DEF IInv
  <2>6. StageInv'
    <3>1. ImagePages \in Seq(UserPages) /\ \A j \in DOMAIN ImagePages : ImagePages[j] \in ImageRange
      BY MemoryAssumption DEF ImageRange
    <3> QED
      BY <1>0, <2>1, <2>3, <3>1 DEF StageInv, Filling, Directories, InUse
  <2>7. LoopInv'
    <3>1. \A q \in UserPages : Entry(cr3, q)' = NULL
      BY <2>1, <2>3 DEF Entry, UserPages
    <3>2. Entry(cr3, StackPage)' = NULL
      BY <3>1, MemoryAssumption
    <3>3. \A q \in ImageRange : \E j \in DOMAIN ImagePages : ImagePages[j] = q
      BY DEF ImageRange
    <3> QED
      BY <2>1, <3>1, <3>2, <3>3 DEF LoopInv, Loaded
  <2>8. WindowMissing'
    BY <1>0, <2>1 DEF WindowMissing
  <2>9. IInv'
    BY <2>4, <2>5, <2>6, <2>7, <2>8 DEF IInv
  <2>10. Forgotten' \subseteq Forgotten
    <3> SUFFICES ASSUME NEW f \in Forgotten' \ Forgotten
                 PROVE  FALSE
      OBVIOUS
    <3>1. f \in page_map \ page_map' /\ ~Used(f)'
      BY <2>3, <2>9, QuietForgets DEF IInv
    <3> QED
      BY <2>1, <2>3, <3>1
  <2> QED
    BY <2>3, <2>9, <2>10, NoneForgotten, QuietOthers DEF StepOK, IInv
<1> QED
  BY <1>1, <1>2, <1>3 DEF create_address_space

\* A page of the loaded directory that a step does not map stays as it is.
LEMMA PageKept ==
  ASSUME TypeInv, NEW page, NEW frame, PageStep(page, frame), UNCHANGED cr3,
         NEW q \in Pages, q # page
  PROVE  Entry(cr3, q)' = Entry(cr3, q)
BY InUseType DEF PageStep

LEMMA PageSet ==
  ASSUME TypeInv, NEW page \in Pages, NEW frame, PageStep(page, frame), UNCHANGED cr3
  PROVE  Entry(cr3, page)' = frame
BY InUseType DEF PageStep

LEMMA PageStays ==
  ASSUME TypeInv, Grows, UNCHANGED cr3, NEW q \in Pages, Entry(cr3, q) # NULL
  PROVE  Entry(cr3, q)' # NULL
BY InUseType DEF Grows

\* The tables stay and so does the set of directories in use.
LEMMA TablesStay ==
  ASSUME IInv, InUse' = InUse, UNCHANGED <<page_map, pde, pte, objects>>,
         cr3' \in InUse, Directories' \in SUBSET Frames,
         \A d \in Directories' : spaces'[d] \in Programs,
         StageInv', LoopInv', SpaceComplete', WindowMissing'
  PROVE  StepOK
<1>1. QuietStep
  BY FramesLost DEF IInv
<1>2. TypeInv' /\ TreeInv'
  BY <1>1 DEF IInv, TypeInv, QuietStep, TableTypes, InUse
<1>3. HeapInv'
  BY DEF IInv, HeapInv, Entry
<1>4. IInv'
  BY <1>2, <1>3 DEF IInv
<1>5. Forgotten' \subseteq Forgotten
  <2> SUFFICES ASSUME NEW f \in Forgotten' \ Forgotten
               PROVE  FALSE
    OBVIOUS
  <2> QED
    BY <1>1, <1>4, QuietForgets DEF IInv
<1> QED
  BY <1>1, <1>4, <1>5, NoneForgotten, QuietOthers DEF StepOK, IInv

LEMMA ImageStep ==
  ASSUME IInv, MapImage
  PROVE  StepOK
<1>0. /\ mode = "boot" /\ doing = "image" /\ todo # <<>> /\ page_map \in SUBSET Frames
      /\ request \in Programs /\ cr3 \notin Directories \cup {boot_directory}
      /\ todo \in Seq(UserPages) /\ \A j \in DOMAIN todo : todo[j] \in ImageRange
      /\ StackPage \in Pages /\ UserPages \subseteq Pages /\ ImageRange \subseteq UserPages
      /\ Entry(cr3, StackPage) = NULL
      /\ \A q \in UserPages : Entry(cr3, q) \in {NULL, Image}
      /\ \A q \in ImageRange : Entry(cr3, q) = Image \/ \E j \in DOMAIN todo : todo[j] = q
  BY PagesKnown DEF MapImage, Loading, IInv, TypeInv, StageInv, LoopInv, Filling
<1>1. CASE MapFails(Head(todo), page_map) /\ Panic
  BY <1>0, <1>1, NothingLost DEF MapFails, Panic
<1>2. CASE /\ map_page(Head(todo), Image, page_map)
           /\ Continue("image", Tail(todo))
           /\ UNCHANGED <<mode, spaces, request, cr3, objects>>
  <2>1. Image # NULL /\ Image \notin page_map
    BY <1>0, FrameKinds
  <2>2. PICK page : page = Head(todo)
    OBVIOUS
  <2>3. /\ page \in ImageRange /\ page \in UserPages /\ page \in Pages /\ page # StackPage
        /\ todo' = Tail(todo) /\ doing' = "image" /\ todo' \in Seq(UserPages)
        /\ \A j \in DOMAIN todo' : todo'[j] \in ImageRange
        /\ \A k \in DOMAIN todo : todo[k] = page \/ \E j \in DOMAIN todo' : todo'[j] = todo[k]
    BY <1>0, <1>2, <2>2, TailPages, RangeAssumption DEF Continue
  <2>4. PageStep(page, Image) /\ \A f \in page_map \ page_map' : Used(f)'
    BY <1>0, <1>2, <2>1, <2>2, <2>3, MapPage DEF IInv
  <2>5. StageInv'
    BY <1>0, <1>2, <2>3 DEF StageInv, Filling, Directories
  <2>6. LoopInv'
    <3>1. Entry(cr3, page)' = Image
      BY <1>2, <2>3, <2>4, PageSet DEF IInv
    <3>2. \A q \in Pages : q # page => Entry(cr3, q)' = Entry(cr3, q)
      BY <1>2, <2>4, PageKept DEF IInv
    <3>3. Entry(cr3, StackPage)' = NULL
      BY <1>0, <2>3, <3>2
    <3>4. \A q \in UserPages : Entry(cr3, q)' \in {NULL, Image}
      BY <1>0, <3>1, <3>2
    <3>5. \A q \in ImageRange :
            Entry(cr3, q)' = Image \/ \E j \in DOMAIN todo' : todo'[j] = q
      <4> SUFFICES ASSUME NEW q \in ImageRange
                   PROVE  Entry(cr3, q)' = Image \/ \E j \in DOMAIN todo' : todo'[j] = q
        OBVIOUS
      <4>1. CASE q = page
        BY <3>1, <4>1
      <4>2. CASE q # page /\ Entry(cr3, q) = Image
        BY <1>0, <3>2, <4>2
      <4>3. CASE q # page /\ \E j \in DOMAIN todo : todo[j] = q
        BY <2>3, <4>3
      <4> QED
        BY <1>0, <4>1, <4>2, <4>3
    <3> QED
      BY <2>3, <3>3, <3>4, <3>5 DEF LoopInv, Loaded
  <2>7. IInv' /\ OthersStep
    BY <1>0, <1>2, <2>1, <2>3, <2>4, <2>5, <2>6, MapKeeps DEF IInv, TypeInv
  <2>8. Forgotten' \subseteq Forgotten
    <3> SUFFICES ASSUME NEW f \in Forgotten' \ Forgotten
                 PROVE  FALSE
      OBVIOUS
    <3>1. /\ f \in Frames
          /\ f = Entry(cr3, page) \/ (f \in page_map \ page_map' /\ ~Used(f)')
      BY <2>3, <2>4, <2>7, PageForgets DEF IInv
    <3> QED
      BY <1>0, <2>3, <2>4, <3>1, FrameKinds DEF Memories
  <2> QED
    BY <2>7, <2>8, NoneForgotten DEF StepOK
<1> QED
  BY <1>1, <1>2 DEF MapImage

\* What is left of a sequence of segments without its first.
LEMMA TailBytes ==
  ASSUME NEW q \in Seq(Segments), q # <<>>
  PROVE  /\ Tail(q) \in Seq(Segments) /\ Head(q) \in Segments
         /\ Bytes(Tail(q)) \subseteq Bytes(q)
         /\ Head(q).vaddr..Head(q).vaddr + Head(q).memsize - 1 \subseteq Bytes(q)
         /\ \A a \in Bytes(q) :
              \/ a \in Bytes(Tail(q))
              \/ a \in Head(q).vaddr..Head(q).vaddr + Head(q).memsize - 1
<1>1. /\ Head(q) \in Segments /\ Tail(q) \in Seq(Segments)
      /\ 1 \in DOMAIN q /\ Head(q) = q[1]
      /\ \A j \in DOMAIN Tail(q) : j + 1 \in DOMAIN q /\ Tail(q)[j] = q[j + 1]
      /\ \A k \in DOMAIN q : k = 1 \/ \E j \in DOMAIN Tail(q) : Tail(q)[j] = q[k]
  BY TailPages
<1> DEFINE Span(s) == s.vaddr..s.vaddr + s.memsize - 1
<1>2. \A a : a \in Bytes(q) <=> \E k \in DOMAIN q : a \in Span(q[k])
  BY DEF Bytes
<1>3. \A a : a \in Bytes(Tail(q)) <=> \E k \in DOMAIN Tail(q) : a \in Span(Tail(q)[k])
  BY DEF Bytes
<1> HIDE DEF Span
<1>4. Bytes(Tail(q)) \subseteq Bytes(q)
  BY <1>1, <1>2, <1>3
<1>5. Span(Head(q)) \subseteq Bytes(q)
  BY <1>1, <1>2
<1>6. \A a \in Bytes(q) : a \in Bytes(Tail(q)) \/ a \in Span(Head(q))
  BY <1>1, <1>2, <1>3
<1> QED
  BY <1>1, <1>4, <1>5, <1>6 DEF Span

\* A round of the loop leaves what it does not copy.
LEMMA RestBytes ==
  ASSUME NEW q \in Seq(Segments), q # <<>>, Head(q).memsize > 0
  PROVE  /\ Rest(q) \in Seq(Segments)
         /\ Bytes(Rest(q)) \subseteq Bytes(q)
         /\ Head(q).vaddr \in Bytes(q) /\ LastCopied(Head(q)) \in Bytes(q)
         /\ LastCopied(Head(q)) < Head(q).vaddr + page_size
         /\ \A a \in Bytes(q) :
              a \in Bytes(Rest(q)) \/ (Head(q).vaddr <= a /\ a <= LastCopied(Head(q)))
<1> DEFINE s == Head(q)
           more == [vaddr |-> s.vaddr + page_size, memsize |-> s.memsize - page_size]
<1>1. /\ Tail(q) \in Seq(Segments) /\ s \in Segments
      /\ Bytes(Tail(q)) \subseteq Bytes(q)
      /\ s.vaddr..s.vaddr + s.memsize - 1 \subseteq Bytes(q)
      /\ \A a \in Bytes(q) :
           a \in Bytes(Tail(q)) \/ a \in s.vaddr..s.vaddr + s.memsize - 1
  BY TailBytes
<1>2. s.vaddr \in Nat /\ s.memsize \in Nat /\ s.memsize > 0 /\ page_size \in Nat \ {0}
  BY <1>1, AddressAssumption DEF Segments
<1> HIDE DEF s
<1>3. /\ s.vaddr \in Bytes(q) /\ LastCopied(s) \in Bytes(q)
      /\ LastCopied(s) < s.vaddr + page_size
  <2>1. /\ s.vaddr \in s.vaddr..s.vaddr + s.memsize - 1
        /\ LastCopied(s) \in s.vaddr..s.vaddr + s.memsize - 1
        /\ LastCopied(s) < s.vaddr + page_size
    BY <1>2 DEF LastCopied
  <2> QED
    BY <1>1, <2>1
<1>4. CASE s.memsize > page_size
  <2>1. Rest(q) = <<more>> \o Tail(q)
    BY <1>4 DEF Rest, s
  <2>2. more \in Segments
    BY <1>2, <1>4 DEF Segments
  <2>3. /\ Rest(q) \in Seq(Segments) /\ Rest(q) # <<>>
        /\ Head(Rest(q)) = more /\ Tail(Rest(q)) = Tail(q)
    <3> HIDE DEF more
    <3> QED
      BY <1>1, <2>1, <2>2
  <2>4. /\ Bytes(Tail(q)) \subseteq Bytes(Rest(q))
        /\ more.vaddr..more.vaddr + more.memsize - 1 \subseteq Bytes(Rest(q))
        /\ \A a \in Bytes(Rest(q)) :
             a \in Bytes(Tail(q)) \/ a \in more.vaddr..more.vaddr + more.memsize - 1
    <3> HIDE DEF more
    <3> QED
      BY <2>3, TailBytes
  <2>5. \A a : a \in more.vaddr..more.vaddr + more.memsize - 1 =>
               a \in s.vaddr..s.vaddr + s.memsize - 1
    BY <1>2, <1>4
  <2>6. \A a \in s.vaddr..s.vaddr + s.memsize - 1 :
          \/ a \in more.vaddr..more.vaddr + more.memsize - 1
          \/ s.vaddr <= a /\ a <= LastCopied(s)
    BY <1>2, <1>4 DEF LastCopied
  <2> HIDE DEF more
  <2> QED
    BY <1>1, <1>3, <2>3, <2>4, <2>5, <2>6 DEF s
<1>5. CASE ~(s.memsize > page_size)
  <2>1. Rest(q) = Tail(q)
    BY <1>5 DEF Rest, s
  <2>2. \A a \in s.vaddr..s.vaddr + s.memsize - 1 : s.vaddr <= a /\ a <= LastCopied(s)
    BY <1>2, <1>5 DEF LastCopied
  <2> QED
    BY <1>1, <1>3, <2>1, <2>2 DEF s
<1> QED
  BY <1>4, <1>5

LEMMA ProgramStep ==
  ASSUME IInv, load_program
  PROVE  StepOK
<1>0. /\ mode = "boot" /\ doing = "program" /\ todo # <<>> /\ page_map \in SUBSET Frames
      /\ request \in Programs /\ cr3 \notin Directories \cup {boot_directory}
      /\ todo \in Seq(Segments)
      /\ ImageRange \subseteq Pages /\ StackPage \in Pages /\ UserPages \subseteq Pages
      /\ \A q \in ImageRange : Entry(cr3, q) = Image
      /\ Bytes(todo) \subseteq Bytes(request)
      /\ \A a \in Bytes(request) : Entry(cr3, PageOf(a)) # NULL \/ a \in Bytes(todo)
      /\ Entry(cr3, StackPage) = NULL
  BY PagesKnown DEF load_program, Loading, IInv, TypeInv, StageInv, LoopInv, Filling
<1>1. PICK s : s = Head(todo)
  OBVIOUS
<1>2. \A a \in Bytes(request) :
        /\ PageOf(a) \in UserPages /\ PageOf(a) \in Pages
        /\ PageOf(a) \notin ImageRange /\ PageOf(a) # StackPage /\ a \in Addresses
  BY <1>0, RangeAssumption DEF ProgramPages
<1>3. CASE /\ s.memsize = 0
           /\ Continue("program", Tail(todo))
           /\ UNCHANGED <<mode, spaces, request, tables, cr3, objects>>
  <2>1. /\ doing' = "program" /\ todo' = Tail(todo)
        /\ UNCHANGED <<mode, spaces, request, page_map, pde, pte, cr3, objects>>
    BY <1>3 DEF Continue, tables
  <2>2. /\ todo' \in Seq(Segments) /\ s \in Segments
        /\ Bytes(todo') \subseteq Bytes(todo)
        /\ \A a \in Bytes(todo) : a \in Bytes(todo') \/ a \in s.vaddr..s.vaddr + s.memsize - 1
    BY <1>0, <1>1, <2>1, TailBytes
  <2>3. s.vaddr..s.vaddr + s.memsize - 1 = {}
    <3>1. s.vaddr \in Nat /\ s.memsize = 0
      BY <1>3, <2>2 DEF Segments
    <3> QED
      BY <3>1
  <2>4. InUse' = InUse /\ Directories' = Directories /\ cr3' \in InUse
    BY <2>1, InUseKept, InUseType DEF IInv
  <2>5. \A d, q : Entry(d, q)' = Entry(d, q)
    BY <2>1 DEF Entry
  <2>6. StageInv'
    BY <1>0, <2>1, <2>2, <2>4 DEF StageInv, Filling
  <2>7. LoopInv'
    <3>1. \A q : Entry(cr3, q)' = Entry(cr3, q)
      BY <2>1 DEF Entry
    <3>2. \A a \in Bytes(request) : Entry(cr3, PageOf(a))' # NULL \/ a \in Bytes(todo')
      BY <1>0, <2>2, <2>3, <3>1
    <3> QED
      BY <1>0, <2>1, <2>2, <3>1, <3>2 DEF LoopInv, Loaded
  <2>8. SpaceComplete' /\ WindowMissing'
    BY <2>1, <2>4, <2>5 DEF IInv, SpaceComplete, WindowMissing
  <2> QED
    BY <2>1, <2>4, <2>6, <2>7, <2>8, TablesStay DEF IInv, TypeInv
<1>4. CASE Halt("panic")
  BY <1>0, <1>4, NothingLost DEF Halt, tables
<1>5. CASE \E frame \in reserve_page(page_map) :
             MapFails(PageOf(s.vaddr), page_map \ {frame}) /\ Panic
  <2>1. PICK frame \in page_map : MapFails(PageOf(s.vaddr), page_map \ {frame}) /\ Panic
    BY <1>0, <1>5, PickFree
  <2>2. page_map = {frame} /\ page_map' = {}
    BY <2>1 DEF MapFails
  <2> QED
    BY <1>0, <2>1, <2>2, LastLost DEF MapFails, Panic
<1>6. CASE /\ s.memsize > 0
           /\ \E frame \in reserve_page(page_map) :
                /\ map_page(PageOf(s.vaddr), frame, page_map \ {frame})
                /\ \/ CopyReaches(s) /\ Continue("program", Rest(todo)) /\ UNCHANGED mode
                   \/ ~CopyReaches(s) /\ mode' = "fault" /\ UNCHANGED <<doing, todo>>
                /\ UNCHANGED <<spaces, request, cr3, objects>>
  <2>1. PICK frame \in page_map :
          /\ map_page(PageOf(s.vaddr), frame, page_map \ {frame})
          /\ doing' = "program" /\ mode' \in {"boot", "fault"}
          /\ todo' = todo \/ (todo' = Rest(todo) /\ CopyReaches(s))
          /\ UNCHANGED <<spaces, request, cr3, objects>>
    BY <1>0, <1>6, PickFree DEF Continue
  <2>2. /\ Rest(todo) \in Seq(Segments)
        /\ Bytes(Rest(todo)) \subseteq Bytes(todo)
        /\ s.vaddr \in Bytes(todo) /\ LastCopied(s) \in Bytes(todo)
        /\ LastCopied(s) < s.vaddr + page_size
        /\ \A a \in Bytes(todo) :
             a \in Bytes(Rest(todo)) \/ (s.vaddr <= a /\ a <= LastCopied(s))
    BY <1>0, <1>1, <1>6, RestBytes
  <2>3. PICK page : page = PageOf(s.vaddr)
    OBVIOUS
  <2>4. /\ page \in Pages /\ page \notin ImageRange /\ page # StackPage
        /\ frame # NULL /\ frame \in Frames
    BY <1>0, <1>2, <2>1, <2>2, <2>3, FrameKinds DEF Memories
  <2>5. /\ PageStep(page, frame) /\ Used(frame)'
        /\ \A f \in (page_map \ {frame}) \ page_map' : Used(f)'
    BY <1>0, <2>1, <2>3, <2>4, MapPage DEF IInv
  <2>6. todo' \in Seq(Segments) /\ Bytes(todo') \subseteq Bytes(todo)
    BY <1>0, <2>1, <2>2
  <2>7. StageInv'
    BY <1>0, <2>1, <2>6 DEF StageInv, Filling, Directories
  <2>8. \A a \in Bytes(todo) :
          a \in Bytes(todo') \/ PageOf(a) = page \/ Entry(cr3, PageOf(a)) # NULL
    <3>1. CASE todo' = todo
      BY <3>1
    <3>2. CASE todo' = Rest(todo) /\ CopyReaches(s)
      <4> SUFFICES ASSUME NEW a \in Bytes(todo), a \notin Bytes(todo')
                   PROVE  PageOf(a) = page \/ Entry(cr3, PageOf(a)) # NULL
        OBVIOUS
      <4>1. s.vaddr <= a /\ a <= LastCopied(s)
        BY <2>2, <3>2
      <4>2. a \in Addresses /\ s.vaddr \in Addresses /\ LastCopied(s) \in Addresses
        BY <1>0, <1>2, <2>2
      <4>3. PageOf(a) \in {PageOf(s.vaddr), PageOf(LastCopied(s))}
        BY <2>2, <4>1, <4>2, AddressAssumption
      <4>4. PageOf(LastCopied(s)) = page \/ Entry(cr3, PageOf(LastCopied(s))) # NULL
        BY <2>3, <3>2 DEF CopyReaches, page_type
      <4> QED
        BY <2>3, <4>3, <4>4
    <3> QED
      BY <2>1, <3>1, <3>2
  <2>9. LoopInv'
    <3>1. \A q \in Pages : q # page => Entry(cr3, q)' = Entry(cr3, q)
      BY <2>1, <2>5, PageKept DEF IInv
    <3>2. Entry(cr3, page)' = frame
      BY <2>1, <2>4, <2>5, PageSet DEF IInv
    <3>3. \A q \in ImageRange : Entry(cr3, q)' = Image
      BY <1>0, <2>4, <3>1
    <3>4. Entry(cr3, StackPage)' = NULL
      BY <1>0, <2>4, <3>1
    <3>5. ASSUME NEW a \in Bytes(request)
          PROVE  Entry(cr3, PageOf(a))' # NULL \/ a \in Bytes(todo')
      <4>1. PICK q \in Pages : q = PageOf(a)
        BY <1>2
      <4>2. Entry(cr3, q) # NULL \/ q = page \/ a \in Bytes(todo')
        BY <1>0, <2>8, <4>1
      <4>3. Entry(cr3, q)' # NULL \/ a \in Bytes(todo')
        BY <2>4, <3>1, <3>2, <4>2
      <4> QED
        BY <2>1, <4>1, <4>3
    <3>6. Bytes(todo') \subseteq Bytes(request)
      BY <1>0, <2>6
    <3> QED
      BY <2>1, <3>3, <3>4, <3>5, <3>6 DEF LoopInv, Loaded
  <2>10. IInv' /\ OthersStep
    BY <1>0, <2>1, <2>4, <2>5, <2>7, <2>9, MapKeeps DEF IInv, TypeInv
  <2>11. \A f \in Forgotten' \ Forgotten : f = Entry(cr3, page)
    <3> SUFFICES ASSUME NEW f \in Forgotten' \ Forgotten
                 PROVE  f = Entry(cr3, page)
      OBVIOUS
    <3>1. /\ f \in Frames
          /\ f = Entry(cr3, page) \/ (f \in page_map \ page_map' /\ ~Used(f)')
      BY <2>4, <2>5, <2>10, PageForgets DEF IInv
    <3> QED
      BY <2>5, <3>1
  <2>12. KeptStep
    BY <1>0, <1>1, <2>3, <2>11 DEF KeptStep
  <2> QED
    BY <2>10, <2>12 DEF StepOK
<1> QED
  BY <1>1, <1>3, <1>4, <1>5, <1>6 DEF load_program

\* A user page that changes is nobody else's.
LEMMA UserPageChanges ==
  ASSUME TypeInv, NEW page \in UserPages, NEW frame, PageStep(page, frame),
         NEW d \in InUse, d # cr3, NEW q \in Pages
  PROVE  Entry(d, q)' = Entry(d, q)
<1>1. page[1] \notin KernelSlots
  BY FrameKinds DEF UserPages
<1> QED
  BY <1>1 DEF PageStep

LEMMA HeapStays ==
  ASSUME TypeInv, StageInv, HeapInv, NEW page \in UserPages, NEW frame,
         PageStep(page, frame), cr3 # boot_directory, UNCHANGED objects
  PROVE  HeapInv'
<1>1. objects \subseteq Pages /\ boot_directory \in InUse
  BY PagesKnown DEF TypeInv, InUse
<1>2. \A q \in objects : Entry(boot_directory, q)' = Entry(boot_directory, q)
  BY <1>1, UserPageChanges
<1> QED
  BY <1>2 DEF HeapInv

LEMMA UnmapImageStep ==
  ASSUME IInv, UnmapImage
  PROVE  StepOK
<1>0. /\ mode = "boot" /\ doing = "unmap" /\ todo # <<>> /\ page_map \in SUBSET Frames
      /\ request \in Programs /\ cr3 \notin Directories \cup {boot_directory}
      /\ todo \in Seq(UserPages) /\ \A j \in DOMAIN todo : todo[j] \in ImageRange
      /\ StackPage \in Pages /\ UserPages \subseteq Pages /\ ImageRange \subseteq UserPages
      /\ ProgramPages(request) \subseteq Pages
      /\ ProgramPages(request) \cap ImageRange = {} /\ StackPage \notin ImageRange
      /\ Directories \subseteq InUse
  BY PagesKnown, RangeAssumption
  DEF UnmapImage, Loading, IInv, TypeInv, StageInv, Filling, InUse
<1>1. PICK page : page = Head(todo)
  OBVIOUS
<1>2. /\ unmap_page(page) /\ doing' = "unmap" /\ todo' = Tail(todo)
      /\ UNCHANGED <<mode, spaces, request, cr3, objects, page_map>>
  BY <1>1 DEF UnmapImage, Continue, unmap_page
<1>3. /\ page \in ImageRange /\ page \in UserPages /\ page \in Pages
      /\ todo' \in Seq(UserPages) /\ \A j \in DOMAIN todo' : todo'[j] \in ImageRange
  BY <1>0, <1>1, <1>2, TailPages
<1>4. PageStep(page, NULL)
  BY <1>2, <1>3, UnmapPage DEF IInv
<1>5. TypeInv' /\ TreeInv'
  BY <1>2, <1>4 DEF IInv, TypeInv, PageStep, TableTypes, Directories
<1>6. StageInv'
  BY <1>0, <1>2, <1>3 DEF StageInv, Filling, Directories
<1>7. /\ Entry(cr3, StackPage) = NULL
      /\ \A q \in ImageRange : Entry(cr3, q) \in {NULL, Image}
      /\ \A q \in ProgramPages(request) : Entry(cr3, q) # NULL
  BY <1>0 DEF IInv, LoopInv, Loaded
<1>8. LoopInv'
  <2>1. \A q \in Pages : q # page => Entry(cr3, q)' = Entry(cr3, q)
    BY <1>2, <1>4, PageKept DEF IInv
  <2>2. Entry(cr3, page)' = NULL
    BY <1>2, <1>3, <1>4, PageSet DEF IInv
  <2>3. Entry(cr3, StackPage)' = NULL
    BY <1>0, <1>3, <1>7, <2>1
  <2>4. \A q \in ImageRange : Entry(cr3, q)' \in {NULL, Image}
    BY <1>0, <1>7, <2>1, <2>2
  <2>5. \A q \in ProgramPages(request) : Entry(cr3, q)' # NULL
    BY <1>0, <1>3, <1>7, <2>1
  <2> QED
    BY <1>2, <2>3, <2>4, <2>5 DEF LoopInv, Loaded
<1>9. HeapInv'
  BY <1>0, <1>2, <1>3, <1>4, HeapStays DEF IInv
<1>10. SpaceComplete'
  <2>1. \A d \in Directories : \A q \in Pages : Entry(d, q)' = Entry(d, q)
    BY <1>0, <1>3, <1>4, UserPageChanges DEF IInv
  <2>2. \A d \in Directories : ProgramPages(spaces[d]) \subseteq Pages
    BY PagesKnown DEF IInv
  <2>3. \A d \in Directories : /\ \A q \in ProgramPages(spaces[d]) : Entry(d, q)' # NULL
                               /\ Entry(d, StackPage)' # NULL \/ page_map' = {}
    BY <1>0, <1>2, <2>1, <2>2 DEF IInv, SpaceComplete
  <2> QED
    BY <1>2, <2>3 DEF SpaceComplete, Directories
<1>11. IInv'
  BY <1>0, <1>2, <1>5, <1>6, <1>8, <1>9, <1>10 DEF IInv, WindowMissing
<1>12. Forgotten' \subseteq Forgotten
  <2> SUFFICES ASSUME NEW f \in Forgotten' \ Forgotten
               PROVE  FALSE
    OBVIOUS
  <2>1. /\ f \in Frames
        /\ f = Entry(cr3, page) \/ (f \in page_map \ page_map' /\ ~Used(f)')
    BY <1>3, <1>4, <1>11, PageForgets DEF IInv
  <2> QED
    BY <1>2, <1>3, <1>7, <2>1, FrameKinds DEF Memories
<1> QED
  BY <1>3, <1>4, <1>11, <1>12, NoneForgotten, PageOthers DEF StepOK, IInv

\* kmalloc leaves the loaded directory's user pages alone.
LEMMA Kmalloc ==
  ASSUME IInv, NEW page \in HeapPages, kmalloc(page), UNCHANGED <<cr3, spaces, mode>>,
         mode # "hung", mode # "fault", StageInv', LoopInv'
  PROVE  StepOK
<1>0. page \in Pages /\ page_map \in SUBSET Frames
  BY PagesKnown DEF IInv, TypeInv
<1>1. objects' = objects \cup {page} /\ objects' \in SUBSET HeapPages
  BY DEF kmalloc, IInv, TypeInv
<1>2. ASSUME NEW e, e = cr3, e \in InUse, Entry(e, page)' # NULL, TableTypes', TreeInv'
      PROVE  \A q \in objects' \ objects :
               q[1] = ImageSlot => Entry(boot_directory, q)' # NULL
  <2>1. page[1] = ImageSlot => Entry(boot_directory, page)' = Entry(e, page)'
    <3>1. e \in InUse' /\ boot_directory \in InUse'
      BY <1>2, InUseKept, InUseType DEF IInv
    <3>2. pde'[e][ImageSlot] = kernel_table /\ pde'[boot_directory][ImageSlot] = kernel_table
      BY <1>2, <3>1, FrameKinds DEF TreeInv, DirectoryInv
    <3> QED
      BY <3>2, FrameKinds DEF Entry
  <2> QED
    BY <1>1, <1>2, <2>1
<1>3. PICK e \in InUse : e = cr3
  BY InUseType DEF IInv
<1>4. CASE Entry(cr3, page) # NULL
  <2>1. UNCHANGED <<page_map, pde, pte>>
    BY <1>4 DEF kmalloc, page_type, tables
  <2>2. QuietStep
    BY <2>1, FramesLost, InUseKept DEF IInv
  <2>3. Entry(e, page)' # NULL
    BY <1>0, <1>3, <1>4, <2>2 DEF QuietStep
  <2>4. TypeInv' /\ TreeInv'
    BY <1>1, <2>2 DEF IInv, TypeInv, QuietStep, TableTypes, Directories
  <2>5. \A q \in objects' \ objects :
               q[1] = ImageSlot => Entry(boot_directory, q)' # NULL
    BY <1>2, <1>3, <2>2, <2>3 DEF QuietStep
  <2>6. HeapInv' /\ SpaceComplete'
    BY <2>2, <2>5, QuietGrows, GrowthKeeps DEF IInv
  <2>7. IInv'
    BY <2>4, <2>6 DEF IInv, WindowMissing
  <2>8. Forgotten' \subseteq Forgotten
    <3> SUFFICES ASSUME NEW f \in Forgotten' \ Forgotten
                 PROVE  FALSE
      OBVIOUS
    <3> QED
      BY <2>1, <2>2, <2>7, QuietForgets DEF IInv
  <2> QED
    BY <2>2, <2>7, <2>8, NoneForgotten, QuietOthers DEF StepOK, IInv
<1>5. CASE Entry(cr3, page) = NULL
  <2>1. PICK frame \in page_map : map_page(page, frame, page_map \ {frame})
    BY <1>0, <1>5, PickFree DEF kmalloc, page_type
  <2>2. frame # NULL /\ frame \in Frames
    BY <1>0, FrameKinds DEF Memories
  <2>3. /\ PageStep(page, frame) /\ Used(frame)'
        /\ \A f \in (page_map \ {frame}) \ page_map' : Used(f)'
    BY <1>0, <2>1, <2>2, MapPage DEF IInv
  <2>4. Entry(e, page)' # NULL
    BY <1>0, <1>3, <2>2, <2>3 DEF PageStep
  <2>5. \A q \in objects' \ objects :
               q[1] = ImageSlot => Entry(boot_directory, q)' # NULL
    BY <1>2, <1>3, <2>3, <2>4 DEF PageStep
  <2>6. IInv' /\ OthersStep
    BY <1>0, <1>1, <2>2, <2>3, <2>5, MapKeeps
  <2>7. Forgotten' \subseteq Forgotten
    <3> SUFFICES ASSUME NEW f \in Forgotten' \ Forgotten
                 PROVE  FALSE
      OBVIOUS
    <3>1. /\ f \in Frames
          /\ f = Entry(cr3, page) \/ (f \in page_map \ page_map' /\ ~Used(f)')
      BY <2>3, <2>6, PageForgets DEF IInv
    <3> QED
      BY <1>5, <2>3, <3>1, FrameKinds DEF Memories
  <2> QED
    BY <2>6, <2>7, NoneForgotten DEF StepOK
<1> QED
  BY <1>4, <1>5

LEMMA KmallocUserPages ==
  ASSUME IInv, NEW page \in HeapPages, kmalloc(page), UNCHANGED <<cr3, spaces>>,
         NEW q \in UserPages
  PROVE  Entry(cr3, q)' = Entry(cr3, q) /\ page_map' \subseteq page_map
<1>0. page \in Pages /\ page_map \in SUBSET Frames /\ q \in Pages /\ q # page
  BY PagesKnown, MemoryAssumption, FrameKinds DEF IInv, TypeInv, UserPages
<1>1. CASE Entry(cr3, page) # NULL
  BY <1>1 DEF kmalloc, page_type, tables, Entry
<1>2. CASE Entry(cr3, page) = NULL
  <2>1. PICK frame \in page_map : map_page(page, frame, page_map \ {frame})
    BY <1>0, <1>2, PickFree DEF kmalloc, page_type
  <2>2. PageStep(page, frame)
    BY <1>0, <2>1, MapPage DEF IInv
  <2> QED
    BY <1>0, <2>2, PageKept DEF IInv, PageStep
<1> QED
  BY <1>1, <1>2

\* kmalloc fails, and its caller goes on, panics, or uses the NULL it got.
LEMMA KmallocFailsStep ==
  ASSUME IInv, NEW page \in HeapPages, KmallocFails(page),
         UNCHANGED <<cr3, spaces, doing, todo, request, objects>>,
         doing \notin {"mmap", "create"}, mode # "hung", mode' \in {mode, "panic", "fault"}
  PROVE  StepOK
<1>0. page_map \in SUBSET Frames
  BY DEF IInv, TypeInv
<1>1. CASE page_map = {} /\ UNCHANGED tables
  BY <1>1, NothingLost DEF tables
<1>2. CASE \E frame \in reserve_page(page_map) : MapFails(page, page_map \ {frame})
  <2>1. PICK frame \in page_map : MapFails(page, page_map \ {frame})
    BY <1>0, <1>2, PickFree
  <2>2. page_map = {frame} /\ page_map' = {} /\ UNCHANGED <<pde, pte>>
    BY <2>1 DEF MapFails
  <2> QED
    BY <2>2, LastLost
<1> QED
  BY <1>1, <1>2 DEF KmallocFails

LEMMA AllocateBlockStep ==
  ASSUME IInv, AllocateBlock
  PROVE  StepOK
<1>0. mode = "boot" /\ doing \in {"queue", "process", "context", "node"}
  BY DEF AllocateBlock, AfterBlock
<1>1. PICK page \in HeapPages :
       \/ /\ KmallocFails(page)
          /\ mode' = IF doing = "node" THEN "fault" ELSE "panic"
          /\ UNCHANGED <<spaces, doing, todo, request, cr3, objects>>
       \/ /\ kmalloc(page)
          /\ Continue(AfterBlock[doing], <<>>)
          /\ UNCHANGED <<mode, spaces, request, cr3>>
  BY DEF AllocateBlock
<1>2. CASE /\ KmallocFails(page)
           /\ mode' = IF doing = "node" THEN "fault" ELSE "panic"
           /\ UNCHANGED <<spaces, doing, todo, request, cr3, objects>>
  BY <1>0, <1>2, KmallocFailsStep
<1>3. CASE /\ kmalloc(page)
           /\ Continue(AfterBlock[doing], <<>>)
           /\ UNCHANGED <<mode, spaces, request, cr3>>
  <2>1. \/ doing = "queue" /\ doing' = "create"
        \/ doing = "process" /\ doing' = "context"
        \/ doing = "context" /\ doing' = "stack"
        \/ doing = "node" /\ doing' = "ready"
    BY <1>0, <1>3 DEF Continue, AfterBlock
  <2>2. CASE doing = "queue"
    <3>1. StageInv'
      BY <1>0, <1>3, <2>1, <2>2 DEF IInv, StageInv, Filling, Directories
    <3>2. LoopInv'
      BY <2>1, <2>2 DEF LoopInv, Loaded
    <3> QED
      BY <1>0, <1>3, <3>1, <3>2, Kmalloc
  <2>3. CASE doing # "queue"
    <3>1. /\ request \in Programs /\ cr3 \notin Directories \cup {boot_directory}
          /\ \A q \in ProgramPages(request) : Entry(cr3, q) # NULL
          /\ doing # "node" => Entry(cr3, StackPage) = NULL
          /\ doing = "node" => Entry(cr3, StackPage) # NULL \/ page_map = {}
      BY <1>0, <2>3 DEF IInv, StageInv, LoopInv, Filling, Loaded
    <3>2. StageInv'
      BY <1>0, <1>3, <2>1, <2>3, <3>1 DEF StageInv, Filling, Directories
    <3>3. \A q \in UserPages : Entry(cr3, q)' = Entry(cr3, q) /\ page_map' \subseteq page_map
      BY <1>3, KmallocUserPages
    <3>4. Entry(cr3, StackPage)' = Entry(cr3, StackPage) /\ page_map' \subseteq page_map
      BY <3>3, MemoryAssumption
    <3>5. ProgramPages(request) \subseteq UserPages
      BY <3>1, RangeAssumption
    <3>6. \A q \in ProgramPages(request) : Entry(cr3, q)' # NULL
      BY <3>1, <3>3, <3>5
    <3>7. LoopInv'
      BY <1>3, <2>1, <2>3, <3>1, <3>4, <3>6 DEF LoopInv, Loaded
    <3> QED
      BY <1>0, <1>3, <3>2, <3>7, Kmalloc
  <2> QED
    BY <2>2, <2>3
<1> QED
  BY <1>1, <1>2, <1>3

LEMMA KernelAllocatesStep ==
  ASSUME IInv, KernelAllocates
  PROVE  StepOK
<1>0. /\ mode = "running" /\ doing = "idle"
      /\ UNCHANGED <<mode, spaces, doing, todo, request, cr3>>
  BY DEF KernelAllocates, Idle, kernel
<1>1. PICK page \in HeapPages : kmalloc(page) \/ (KmallocFails(page) /\ UNCHANGED objects)
  BY DEF KernelAllocates
<1>2. CASE kmalloc(page)
  <2>1. StageInv'
    BY <1>0 DEF IInv, StageInv, Directories, Filling
  <2>2. LoopInv'
    BY <1>0 DEF LoopInv, Loaded
  <2> QED
    BY <1>0, <1>2, <2>1, <2>2, Kmalloc
<1>3. CASE KmallocFails(page) /\ UNCHANGED objects
  BY <1>0, <1>3, KmallocFailsStep
<1> QED
  BY <1>1, <1>2, <1>3

\* kernel_spawn_process does not look at the result of map_page.
LEMMA StackStep ==
  ASSUME IInv, MapStack
  PROVE  StepOK
<1>0. /\ mode = "boot" /\ doing = "stack" /\ page_map \in SUBSET Frames
      /\ request \in Programs /\ cr3 \notin Directories \cup {boot_directory}
      /\ StackPage \in Pages
      /\ Entry(cr3, StackPage) = NULL
      /\ \A q \in ProgramPages(request) : Entry(cr3, q) # NULL
      /\ ProgramPages(request) \subseteq Pages
      /\ objects \in SUBSET HeapPages
  BY PagesKnown DEF MapStack, Loading, IInv, TypeInv, StageInv, LoopInv, Filling, Loaded
<1>1. CASE Halt("panic")
  BY <1>0, <1>1, NothingLost DEF Halt, tables
<1>2. CASE ~Halt("panic")
  <2>1. PICK frame \in page_map :
          /\ \/ map_page(StackPage, frame, page_map \ {frame})
             \/ MapFails(StackPage, page_map \ {frame})
          /\ doing' = "node" /\ todo' = <<>>
          /\ UNCHANGED <<mode, spaces, request, cr3, objects>>
    BY <1>0, <1>2, PickFree DEF MapStack, Continue
  <2>2. StageInv'
    BY <1>0, <2>1 DEF StageInv, Filling, Directories
  <2>3. CASE map_page(StackPage, frame, page_map \ {frame})
    <3>1. frame # NULL /\ frame \in Frames
      BY <1>0, FrameKinds DEF Memories
    <3>2. /\ PageStep(StackPage, frame) /\ Used(frame)'
          /\ \A f \in (page_map \ {frame}) \ page_map' : Used(f)'
      BY <1>0, <2>1, <2>3, <3>1, MapPage DEF IInv
    <3>3. Entry(cr3, StackPage)' # NULL
      BY <1>0, <2>1, <3>1, <3>2, PageSet DEF IInv
    <3>4. \A q \in ProgramPages(request) : Entry(cr3, q)' # NULL
      <4>1. \A q \in Pages : Entry(cr3, q) # NULL => Entry(cr3, q)' # NULL
        BY <2>1, <3>1, <3>2, PageGrows, PageStays DEF IInv
      <4> QED
        BY <1>0, <4>1
    <3>5. LoopInv'
      BY <2>1, <3>3, <3>4 DEF LoopInv, Loaded
    <3>6. IInv' /\ OthersStep
      BY <1>0, <2>1, <2>2, <3>1, <3>2, <3>5, MapKeeps
    <3>7. Forgotten' \subseteq Forgotten
      <4> SUFFICES ASSUME NEW f \in Forgotten' \ Forgotten
                   PROVE  FALSE
        OBVIOUS
      <4>1. /\ f \in Frames
            /\ f = Entry(cr3, StackPage) \/ (f \in page_map \ page_map' /\ ~Used(f)')
        BY <3>2, <3>6, PageForgets DEF IInv
      <4> QED
        BY <1>0, <3>2, <4>1, FrameKinds DEF Memories
    <3> QED
      BY <3>6, <3>7, NoneForgotten DEF StepOK
  <2>4. CASE MapFails(StackPage, page_map \ {frame})
    <3>1. page_map = {frame} /\ page_map' = {} /\ UNCHANGED <<pde, pte>>
      BY <2>1, <2>4 DEF MapFails
    <3>2. QuietStep
      BY <2>1, <3>1, FramesLost, InUseKept DEF IInv
    <3>3. TypeInv' /\ TreeInv'
      BY <2>1, <3>2 DEF IInv, TypeInv, QuietStep, TableTypes, Directories
    <3>4. HeapInv' /\ SpaceComplete'
      BY <1>0, <2>1, <3>2, QuietGrows, GrowthKeeps DEF IInv
    <3>5. LoopInv'
      BY <1>0, <2>1, <3>1 DEF LoopInv, Loaded, Entry
    <3>6. IInv'
      BY <1>0, <2>1, <2>2, <3>3, <3>4, <3>5 DEF IInv, WindowMissing
    <3>7. \A f \in Forgotten' \ Forgotten : f = frame
      BY <3>1, <3>2, <3>6, QuietForgets DEF IInv
    <3>8. KeptStep
      BY <1>0, <3>1, <3>7 DEF KeptStep
    <3> QED
      BY <3>2, <3>6, <3>8, QuietOthers DEF StepOK, IInv
  <2> QED
    BY <2>1, <2>3, <2>4
<1> QED
  BY <1>1, <1>2

LEMMA LoopEndsStep ==
  ASSUME IInv, LoopEnds
  PROVE  StepOK
<1>1. /\ mode = "boot" /\ todo = <<>> /\ doing \in {"kminit", "image", "program", "unmap"}
      /\ UNCHANGED <<mode, spaces, request, page_map, pde, pte, cr3, objects>>
  BY DEF LoopEnds, AfterLoop, tables
<1>2. /\ doing = "kminit" => doing' = "queue"
      /\ doing = "image" => doing' = "program" /\ todo' = request
      /\ doing = "program" => doing' = "unmap" /\ todo' = ImagePages
      /\ doing = "unmap" => doing' = "process"
  BY DEF LoopEnds, AfterLoop, Continue
<1>3. InUse' = InUse /\ Directories' = Directories /\ cr3' \in InUse
  BY <1>1, InUseKept, InUseType DEF IInv
<1>4. doing # "kminit" => request \in Programs /\ request \in Seq(Segments)
  BY <1>1, MemoryAssumption DEF IInv, StageInv, Filling
<1>5. ImagePages \in Seq(UserPages) /\ \A j \in DOMAIN ImagePages : ImagePages[j] \in ImageRange
  BY MemoryAssumption DEF ImageRange
<1>6. StageInv'
  BY <1>1, <1>2, <1>3, <1>4, <1>5 DEF IInv, StageInv, Filling
<1>7. DOMAIN todo = {} /\ Bytes(todo) = {}
  <2>1. DOMAIN <<>> = {}
    OBVIOUS
  <2> QED
    BY <1>1, <2>1 DEF Bytes
<1>8. \A d, q : Entry(d, q)' = Entry(d, q)
  BY <1>1 DEF Entry
<1>9. LoopInv'
  <2>1. CASE doing = "kminit"
    BY <1>2, <2>1 DEF LoopInv, Loaded
  <2>2. CASE doing = "image"
    BY <1>1, <1>2, <1>7, <1>8, <2>2 DEF IInv, LoopInv, Loaded
  <2>3. CASE doing = "program"
    <3>1. \A q \in ProgramPages(request) : Entry(cr3, q) # NULL
      BY <1>7, <2>3 DEF IInv, LoopInv, ProgramPages
    <3> QED
      BY <1>1, <1>2, <1>8, <2>3, <3>1 DEF IInv, LoopInv, Loaded
  <2>4. CASE doing = "unmap"
    BY <1>1, <1>2, <1>8, <2>4 DEF IInv, LoopInv, Loaded
  <2> QED
    BY <1>1, <2>1, <2>2, <2>3, <2>4
<1>10. SpaceComplete' /\ WindowMissing'
  BY <1>1, <1>3, <1>8 DEF IInv, SpaceComplete, WindowMissing
<1> QED
  BY <1>1, <1>3, <1>6, <1>9, <1>10, TablesStay DEF IInv, TypeInv

LEMMA SpawnedStep ==
  ASSUME IInv, Spawned
  PROVE  StepOK
<1>0. /\ mode = "boot" /\ doing = "ready" /\ request \in Programs
      /\ cr3 \notin Directories \cup {boot_directory} /\ cr3 \in Frames
      /\ \A q \in ProgramPages(request) : Entry(cr3, q) # NULL
      /\ Entry(cr3, StackPage) # NULL \/ page_map = {}
      /\ Directories \in SUBSET Frames /\ \A d \in Directories : spaces[d] \in Programs
  BY DEF Spawned, Loading, IInv, TypeInv, StageInv, LoopInv, Filling, Loaded
<1>1. /\ spaces' = [d \in Directories \cup {cr3} |-> IF d = cr3 THEN request ELSE spaces[d]]
      /\ doing' = "create" /\ todo' = <<>>
      /\ UNCHANGED <<mode, request, page_map, pde, pte, cr3, objects>>
  BY DEF Spawned, Continue, tables
<1>2. /\ Directories' = Directories \cup {cr3}
      /\ \A d \in Directories : spaces'[d] = spaces[d]
      /\ spaces'[cr3] = request
  BY <1>0, <1>1 DEF Directories
<1>3. InUse' = InUse /\ cr3' \in InUse
  BY <1>1, <1>2 DEF InUse
<1>4. StageInv'
  BY <1>0, <1>1, <1>2 DEF StageInv, Filling
<1>5. LoopInv'
  BY <1>1 DEF LoopInv, Loaded
<1>6. WindowMissing'
  BY <1>0, <1>1 DEF WindowMissing
<1>7. SpaceComplete'
  <2> SUFFICES ASSUME NEW d \in Directories'
               PROVE  /\ \A q \in ProgramPages(spaces'[d]) : Entry(d, q)' # NULL
                      /\ Entry(d, StackPage)' # NULL \/ page_map' = {}
    BY DEF SpaceComplete
  <2>1. CASE d = cr3
    BY <1>0, <1>1, <1>2, <2>1 DEF Entry
  <2>2. CASE d \in Directories
    <3>1. /\ \A q \in ProgramPages(spaces[d]) : Entry(d, q) # NULL
          /\ Entry(d, StackPage) # NULL \/ page_map = {}
      BY <1>0, <2>2 DEF IInv, SpaceComplete
    <3> QED
      BY <1>1, <1>2, <2>2, <3>1 DEF Entry
  <2> QED
    BY <1>2, <2>1, <2>2
<1> QED
  BY <1>0, <1>1, <1>2, <1>3, <1>4, <1>5, <1>6, <1>7, TablesStay

LEMMA SwitchStep ==
  ASSUME IInv, paging_load_address_space
  PROVE  StepOK
<1>0. /\ cr3 \in Directories \cup {boot_directory} /\ mode # "hung"
  BY DEF paging_load_address_space, Loading, Idle, IInv, StageInv
<1>1. PICK d \in Directories : cr3' = d
  BY DEF paging_load_address_space
<1>2. /\ mode' = "running" /\ doing' = "idle" /\ todo' = <<>>
      /\ UNCHANGED <<spaces, request, page_map, pde, pte, objects>>
  BY DEF paging_load_address_space, Continue, tables
<1>3. InUse' = InUse /\ cr3' \in InUse /\ Directories' = Directories
  BY <1>0, <1>1, <1>2 DEF InUse, Directories
<1>4. StageInv' /\ LoopInv' /\ WindowMissing'
  BY <1>1, <1>2, <1>3 DEF StageInv, LoopInv, WindowMissing, Filling, Loaded
<1>5. SpaceComplete'
  BY <1>0, <1>2, <1>3 DEF IInv, SpaceComplete, Entry
<1> QED
  BY <1>2, <1>3, <1>4, <1>5, TablesStay DEF IInv, TypeInv

LEMMA StutterStep ==
  ASSUME IInv, UNCHANGED vars
  PROVE  StepOK
<1>1. UNCHANGED <<mode, spaces, doing, todo, request, page_map, pde, pte, cr3, objects>>
  BY DEF vars, kernel, tables
<1>2. WindowMissing'
  BY <1>1 DEF IInv, WindowMissing, Directories
<1> QED
  BY <1>1, <1>2, NothingLost

\* munmap unmaps the first page of the range, and is never heard of again.
LEMMA MunmapRange ==
  ASSUME IInv, NEW range \in Seq(UserPages), range # <<>>, munmap(range),
         mode = "running"
  PROVE  StepOK
<1>0. /\ doing \in {"idle", "mmap"} /\ cr3 \in Directories /\ cr3 # boot_directory
      /\ cr3 \in InUse
  BY FrameKinds DEF IInv, StageInv, TypeInv, InUse
<1>1. PICK page \in UserPages : page = Head(range)
  BY TailPages
<1>2. /\ mode' = "hung" /\ unmap_page(page)
      /\ UNCHANGED <<spaces, doing, todo, request, cr3, objects, page_map>>
  BY <1>1 DEF munmap, unmap_page
<1>3. PageStep(page, NULL) /\ page \in Pages
  BY <1>2, UnmapPage, PagesKnown DEF IInv
<1>4. TypeInv' /\ TreeInv'
  BY <1>2, <1>3 DEF IInv, TypeInv, PageStep, TableTypes, Directories
<1>5. StageInv'
  BY <1>0, <1>2 DEF IInv, StageInv, Directories, Filling
<1>6. ASSUME doing = "mmap", NEW j \in DOMAIN todo
      PROVE  Entry(cr3, todo[j])' = NULL
  <2>1. PICK q \in Pages : q = todo[j]
    BY <1>6, PagesKnown DEF IInv
  <2>2. Entry(cr3, q) = NULL
    BY <1>6, <2>1 DEF IInv, LoopInv
  <2>3. Entry(cr3, q)' = NULL
    BY <1>2, <1>3, <2>2, PageSet, PageKept DEF IInv
  <2> QED
    BY <1>2, <2>1, <2>3
<1>7. LoopInv'
  BY <1>0, <1>2, <1>6 DEF IInv, LoopInv, Loaded
<1>8. HeapInv'
  BY <1>0, <1>2, <1>3, HeapStays DEF IInv
<1>9. IInv'
  BY <1>2, <1>4, <1>5, <1>7, <1>8 DEF IInv, SpaceComplete, WindowMissing
<1>10. \A f \in Forgotten' \ Forgotten : f = Entry(cr3, page)
  <2> SUFFICES ASSUME NEW f \in Forgotten' \ Forgotten
               PROVE  f = Entry(cr3, page)
    OBVIOUS
  <2>1. f = Entry(cr3, page) \/ (f \in page_map \ page_map' /\ ~Used(f)')
    BY <1>3, <1>9, PageForgets DEF IInv
  <2> QED
    BY <1>2, <2>1
<1>11. KeptStep
  BY <1>2, <1>10 DEF KeptStep
<1> QED
  BY <1>3, <1>9, <1>11, PageOthers DEF StepOK, IInv

LEMMA MunmapStep ==
  ASSUME IInv, Munmap
  PROVE  StepOK
<1>1. PICK range \in MmapRanges : IF range = <<>> THEN UNCHANGED vars ELSE munmap(range)
  BY DEF Munmap
<1>2. mode = "running" /\ range \in Seq(UserPages)
  BY MemoryAssumption DEF Munmap, Idle
<1>3. CASE range = <<>>
  BY <1>1, <1>3, StutterStep
<1>4. CASE range # <<>>
  BY <1>1, <1>2, <1>4, MunmapRange
<1> QED
  BY <1>3, <1>4

LEMMA MmapStep ==
  ASSUME IInv, mmap
  PROVE  StepOK
<1>0. mode = "running" /\ doing = "idle" /\ cr3 \in Directories
  BY DEF mmap, Idle, IInv, StageInv
<1>1. CASE UNCHANGED vars
  BY <1>1, StutterStep
<1>2. CASE ~UNCHANGED vars
  <2>1. PICK range \in MmapRanges :
          /\ \A i \in DOMAIN range : page_type(range[i]) = "absent"
          /\ request' = range
          /\ Continue("mmap", range)
          /\ UNCHANGED <<mode, spaces, tables, cr3, objects>>
    BY <1>2 DEF mmap
  <2>2. /\ request' = range /\ todo' = range /\ doing' = "mmap"
        /\ UNCHANGED <<mode, spaces, page_map, pde, pte, cr3, objects>>
    BY <2>1 DEF Continue, tables
  <2>3. range \in Seq(UserPages) /\ Distinct(range)
    BY MemoryAssumption, RangeAssumption
  <2>4. StageInv'
    BY <1>0, <2>2, <2>3 DEF StageInv, Filling, Directories
  <2>5. \A i \in DOMAIN range : Entry(cr3, range[i]) = NULL
    BY <2>1 DEF page_type
  <2>6. LoopInv'
    BY <2>2, <2>3, <2>5 DEF LoopInv, Loaded, Entry
  <2>7. InUse' = InUse /\ Directories' = Directories /\ cr3' \in InUse
    BY <2>2, InUseKept, InUseType DEF IInv
  <2>8. SpaceComplete'
    BY <2>2, <2>7 DEF IInv, SpaceComplete, Entry
  <2>9. WindowMissing'
    BY <2>2 DEF WindowMissing
  <2> QED
    BY <2>2, <2>4, <2>6, <2>7, <2>8, <2>9, TablesStay DEF IInv, TypeInv
<1> QED
  BY <1>1, <1>2

LEMMA MmapPageStep ==
  ASSUME IInv, MmapPage
  PROVE  StepOK
<1>0. /\ mode = "running" /\ doing = "mmap" /\ todo # <<>> /\ page_map \in SUBSET Frames
      /\ cr3 \in Directories
      /\ request \in Seq(UserPages) /\ request # <<>> /\ todo \in Seq(UserPages)
      /\ Distinct(todo) /\ \A j \in DOMAIN todo : Entry(cr3, todo[j]) = NULL
      /\ objects \in SUBSET HeapPages /\ UserPages \in SUBSET Pages
  BY PagesKnown DEF MmapPage, IInv, TypeInv, StageInv, LoopInv
<1>1. CASE munmap(request)
  BY <1>0, <1>1, MunmapRange
<1>2. CASE ~munmap(request)
  <2>1. PICK frame \in page_map :
          /\ map_page(Head(todo), frame, page_map \ {frame})
          /\ doing' = "mmap" /\ todo' = Tail(todo)
          /\ UNCHANGED <<mode, spaces, request, cr3, objects>>
    BY <1>0, <1>2, PickFree DEF MmapPage, Continue
  <2>2. PICK page \in UserPages : page = Head(todo)
    BY <1>0, TailPages
  <2>3. /\ page \in Pages /\ Entry(cr3, page) = NULL /\ todo' \in Seq(UserPages)
        /\ frame # NULL /\ frame \in Frames
    BY <1>0, <2>1, <2>2, TailPages, FrameKinds DEF Memories
  <2>4. /\ PageStep(page, frame) /\ Used(frame)'
        /\ \A f \in (page_map \ {frame}) \ page_map' : Used(f)'
    BY <1>0, <2>1, <2>2, <2>3, MapPage DEF IInv
  <2>5. StageInv'
    BY <1>0, <2>1, <2>3 DEF StageInv, Filling, Directories
  <2>6. LoopInv'
    <3>1. Distinct(todo)' /\ (\A j \in DOMAIN todo : Entry(cr3, todo[j]) = NULL)'
      BY <1>0, <2>1, <2>2, <2>4, LoopTail DEF IInv
    <3> QED
      BY <2>1, <3>1 DEF LoopInv, Loaded
  <2>7. IInv' /\ OthersStep
    BY <1>0, <2>1, <2>3, <2>4, <2>5, <2>6, MapKeeps
  <2>8. Forgotten' \subseteq Forgotten
    <3> SUFFICES ASSUME NEW f \in Forgotten' \ Forgotten
                 PROVE  FALSE
      OBVIOUS
    <3>1. /\ f \in Frames
          /\ f = Entry(cr3, page) \/ (f \in page_map \ page_map' /\ ~Used(f)')
      BY <2>4, <2>7, PageForgets DEF IInv
    <3> QED
      BY <2>3, <2>4, <3>1, FrameKinds DEF Memories
  <2> QED
    BY <2>7, <2>8, NoneForgotten DEF StepOK
<1> QED
  BY <1>1, <1>2

LEMMA MmapReturnsStep ==
  ASSUME IInv, MmapReturns
  PROVE  StepOK
<1>0. /\ mode = "running" /\ doing = "mmap" /\ cr3 \in Directories
      /\ doing' = "idle" /\ todo' = <<>>
      /\ UNCHANGED <<mode, spaces, request, page_map, pde, pte, cr3, objects>>
  BY DEF MmapReturns, Continue, tables, IInv, StageInv
<1>1. InUse' = InUse /\ Directories' = Directories /\ cr3' \in InUse
  BY <1>0, InUseKept, InUseType DEF IInv
<1>2. StageInv' /\ LoopInv' /\ WindowMissing'
  BY <1>0, <1>1 DEF StageInv, LoopInv, WindowMissing, Filling, Loaded
<1>3. SpaceComplete'
  BY <1>0, <1>1 DEF IInv, SpaceComplete, Entry
<1> QED
  BY <1>0, <1>1, <1>2, <1>3, TablesStay DEF IInv, TypeInv

(***************************************************************************)
(* Results                                                                 *)
(***************************************************************************)

LEMMA InitIInv ==
  ASSUME Init
  PROVE  IInv
<1>1. /\ page_map \in SUBSET Frames /\ cr3 = boot_directory /\ Directories = {}
      /\ mode = "boot" /\ doing = "kminit" /\ todo = BitmapPages /\ objects = {}
      /\ InUse = {boot_directory}
  BY MemoryAssumption DEF Init, start_paging, initialize_page_map, Directories, InUse
<1>2. pde = [f \in Memories |->
               IF f = boot_directory
               THEN [NoTables EXCEPT ![FirstSlot] = identity_table, ![ImageSlot] = kernel_table]
               ELSE [s \in Slots |-> f]]
  BY DEF Init, start_paging, Memories
<1>3. pte = [f \in Memories |-> IF f \in Frames THEN [i \in Indices |-> f] ELSE NoEntries]
  BY DEF Init, start_paging, Memories
<1>4. \A s \in Slots :
        pde[boot_directory][s] = IF s = ImageSlot THEN kernel_table
                                 ELSE IF s = FirstSlot THEN identity_table ELSE NULL
  BY <1>2, FrameKinds DEF NoTables
<1>5. \A t \in {kernel_table, identity_table}, i \in Indices : pte[t][i] = NULL
  BY <1>3, FrameKinds DEF NoEntries
<1>6. TypeInv
  <2>1. [NoTables EXCEPT ![FirstSlot] = identity_table, ![ImageSlot] = kernel_table]
          \in [Slots -> Memories \cup {NULL}]
    BY FrameKinds DEF NoTables
  <2>2. pde \in [Memories -> [Slots -> Memories \cup {NULL}]]
    BY <1>2, <2>1
  <2>3. pte \in [Memories -> [Indices -> Memories \cup {NULL}]]
    BY <1>3 DEF NoEntries
  <2> QED
    BY <1>1, <2>2, <2>3 DEF TypeInv
<1>7. \A t : IsTable(t) => t \in {kernel_table, identity_table}
  BY <1>1, <1>4 DEF IsTable
<1>8. TreeInv
  <2>1. DirectoryInv
    BY <1>1, <1>4, FrameKinds, BootFramesDiffer DEF DirectoryInv
  <2>2. SharingInv
    BY <1>1, <1>4, BootFramesDiffer DEF SharingInv
  <2>3. PageInv
    BY <1>5, <1>7, FrameKinds DEF PageInv, IsTable
  <2>4. UniqueInv
    BY <1>5, <1>7, FrameKinds DEF UniqueInv, Memories
  <2> QED
    BY <2>1, <2>2, <2>3, <2>4 DEF TreeInv
<1>9. StageInv
  BY <1>1, MemoryAssumption DEF StageInv, Filling
<1>10. LoopInv
  <2>1. \A j \in DOMAIN BitmapPages : BitmapPages[j] \in {ImageSlot} \X Indices
    BY MemoryAssumption
  <2>2. \A j \in DOMAIN BitmapPages : Entry(cr3, BitmapPages[j]) = NULL
    BY <1>1, <1>4, <1>5, <2>1, FrameKinds DEF Entry
  <2> QED
    BY <1>1, <2>2, RangeAssumption DEF LoopInv, Loaded
<1> QED
  BY <1>1, <1>6, <1>8, <1>9, <1>10 DEF IInv, HeapInv, SpaceComplete, WindowMissing

LEMMA NextStepOK ==
  ASSUME IInv, [Next]_vars
  PROVE  StepOK
<1>1. CASE UNCHANGED vars
  BY <1>1, StutterStep
<1>2. CASE Stopped
  BY <1>2, StutterStep DEF Stopped
<1> QED
  BY <1>1, <1>2, BitmapStep, LoopEndsStep, CreateStep, ImageStep, ProgramStep,
     UnmapImageStep, AllocateBlockStep, StackStep, SpawnedStep, SwitchStep,
     KernelAllocatesStep, MunmapStep, MmapStep, MmapPageStep, MmapReturnsStep
  DEF Next

\* The invariant that the other results rest on: the page tables in use form a
\* tree with shared kernel tables, and each loop of the loader has mapped what
\* it went through.
THEOREM MemoryInvariance == Spec => []IInv
<1>1. Init => IInv
  BY InitIInv
<1>2. IInv /\ [Next]_vars => IInv'
  BY NextStepOK DEF StepOK
<1> QED
  BY <1>1, <1>2, PTL DEF Spec

\* No frame serves two purposes, and no free frame serves any, whatever
\* map_page, create_address_space, kmalloc and mmap take frames for.
THEOREM FramesUsedOnce == Spec => []OneUse
<1>1. IInv => OneUse
  BY TreeOneUse DEF IInv
<1> QED
  BY <1>1, MemoryInvariance, PTL

\* Every spawned process finds each byte of its segments mapped, however they lie
\* in their pages, and its stack unless the free frames are used up.
THEOREM SpacesComplete == Spec => []SpaceComplete
<1>1. IInv => SpaceComplete
  BY DEF IInv
<1> QED
  BY <1>1, MemoryInvariance, PTL

\* Objects below the heap's first page table limit are seen alike from every
\* address space, those made earlier included.
THEOREM HeapSeenByAll == Spec => []HeapShared
<1>1. IInv => HeapShared
  BY HeapInvShared DEF IInv
<1> QED
  BY <1>1, MemoryInvariance, PTL

\* create_address_space faults only after a module without a page in entry 0.
THEOREM FaultExplained == Spec => []WindowMissing
<1>1. IInv => WindowMissing
  BY DEF IInv
<1> QED
  BY <1>1, MemoryInvariance, PTL

\* A step forgets at most one frame, and only in the four places that
\* FramesKept names.
THEOREM ForgetsKnown == Spec => FramesKept
<1>1. IInv /\ [Next]_vars => KeptStep
  BY NextStepOK DEF StepOK
<1>2. Spec => [][KeptStep]_vars
  BY <1>1, MemoryInvariance, PTL DEF Spec
<1>3. [][KeptStep]_vars => FramesKept
  BY PTL DEF KeptStep, FramesKept
<1> QED
  BY <1>2, <1>3, PTL

\* Nothing that is mapped or unmapped in one address space shows in the user
\* pages of another.
THEOREM SpacesSeparate == Spec => OthersUntouched
<1>1. IInv /\ [Next]_vars => OthersStep
  BY NextStepOK DEF StepOK
<1>2. Spec => [][OthersStep]_vars
  BY <1>1, MemoryInvariance, PTL DEF Spec
<1>3. [][OthersStep]_vars => OthersUntouched
  BY PTL DEF OthersStep, OthersUntouched
<1> QED
  BY <1>2, <1>3, PTL
=============================================================================
