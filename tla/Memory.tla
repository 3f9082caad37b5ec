------------------------------- MODULE Memory -------------------------------
(***************************************************************************)
(* Page frames, page tables and address spaces: src/mmgr.c and             *)
(* src/x86/paging.c, with the callers that build address spaces            *)
(* (kernel_load_module, load_program, kernel_spawn_process), grow the      *)
(* kernel heap (src/heap.c) and serve mmap and munmap (src/syscalls.c).    *)
(*                                                                         *)
(* A page is a pair <<slot, index>>: its entry in the page directory and   *)
(* the one in the page table found there.  An address space is known by    *)
(* the frame of its directory.  Loops over pages take one step per page;   *)
(* as the kernel runs with interrupts disabled nothing else happens        *)
(* between two of them.  Entries are present or NULL: the other flag bits  *)
(* decide nothing in this code.                                            *)
(***************************************************************************)
EXTENDS Naturals, Sequences, FiniteSets

CONSTANTS
  Frames,         \* the page frames that page_map manages
  FreeAtBoot,     \* the sets of frames that the memory map may leave available
  Pick(_),        \* the free frames of which reserve_region returns one
  UserSlots,      \* directory entries below the kernel
  KernelSlots,    \* directory entries from the kernel to 0xFFC00000
  Indices,        \* entries of a page table
  Addresses,      \* the addresses that modules are linked at
  page_size,
  PageOf(_),      \* the page that an address is in
  Programs,       \* the program headers of type ELF_LOAD of each kind of module
  BitmapPages,    \* pages that initialize_heap maps for the heap's bitmap
  HeapPages,      \* pages in which the system heap has blocks
  ImagePages,     \* the pages from 0x80000000 on where a module is mapped while
                  \* it is loaded
  StackPage,      \* the page below the kernel, a process's stack
  MmapRanges,     \* the page ranges, not at address 0, given to mmap and munmap
  MaxSpaces,      \* Bound: number of modules
  FirstSlot,      \* entry 0 of a directory
  ImageSlot,      \* the kernel slot of the kernel's own image, present at boot
  boot_directory, identity_table, kernel_table,  \* frames in the kernel's image
  Image,          \* any frame of a module, kept out of page_map
  NULL

Slots == UserSlots \cup KernelSlots
Pages == Slots \X Indices
UserPages == UserSlots \X Indices
BootFrames == {boot_directory, identity_table, kernel_table, Image}
Segments == [vaddr : Nat, memsize : Nat]

ASSUME MemoryAssumption ==
  /\ IsFiniteSet(Frames)
  /\ FreeAtBoot \subseteq SUBSET Frames
  /\ \A S \in SUBSET Frames : Pick(S) \subseteq S /\ (S # {} => Pick(S) # {})
  /\ UserSlots \cap KernelSlots = {}
  /\ FirstSlot \in UserSlots /\ ImageSlot \in KernelSlots
  /\ Programs \subseteq Seq(Segments)
  /\ BitmapPages \in Seq({ImageSlot} \X Indices)
  /\ HeapPages \subseteq KernelSlots \X Indices
  /\ ImagePages \in Seq(UserPages) /\ StackPage \in UserPages
  /\ MmapRanges \subseteq Seq(UserPages)
  /\ MaxSpaces \in Nat
  /\ NULL \notin Frames \cup BootFrames
  /\ Frames \cap BootFrames = {}
  /\ Cardinality(BootFrames) = 4

Distinct(pages) == \A i, j \in DOMAIN pages : pages[i] = pages[j] => i = j

Bytes(program) ==
  UNION {program[i].vaddr..program[i].vaddr + program[i].memsize - 1 : i \in DOMAIN program}

ProgramPages(program) == {PageOf(a) : a \in Bytes(program)}

ImageRange == {ImagePages[i] : i \in DOMAIN ImagePages}

\* A range of addresses has each of its pages once.  Modules are linked
\* elsewhere than at the pages that the loader itself maps; load_program does
\* not check it.
ASSUME RangeAssumption ==
  /\ Distinct(BitmapPages)
  /\ \A range \in MmapRanges : Distinct(range)
  /\ StackPage \notin ImageRange
  /\ \A p \in Programs :
       /\ Bytes(p) \subseteq Addresses
       /\ ProgramPages(p) \subseteq UserPages \ (ImageRange \cup {StackPage})

\* What is no longer than a page lies in the pages of its first and its last
\* address.
ASSUME AddressAssumption ==
  /\ page_size \in Nat \ {0}
  /\ Addresses \subseteq Nat
  /\ \A a, b, c \in Addresses :
       a <= c /\ c <= b /\ b < a + page_size => PageOf(c) \in {PageOf(a), PageOf(b)}

VARIABLES
  mode,      \* what the CPU is doing: booting, running, hung or halted
  page_map,  \* the free frames
  pde,       \* the contents of each frame, read as a page directory
  pte,       \* the contents of each frame, read as a page table
  cr3,       \* the directory that is loaded
  spaces,    \* directories of the spawned processes, with their programs
  doing,     \* the loop or call that the kernel is in
  todo,      \* the pages or segments that this loop has still to map
  request,   \* the program being loaded, or the range given to mmap
  objects    \* the heap pages in which the kernel has allocated blocks

kernel == <<mode, spaces, doing, todo, request>>
tables == <<page_map, pde, pte>>
vars == <<kernel, tables, cr3, objects>>

Directories == DOMAIN spaces
NoEntries == [i \in Indices |-> NULL]
NoTables == [s \in Slots |-> NULL]

\* Mutant: directory[0] is not set.
NoIdentityMap ==
  /\ pde = [f \in Frames \cup BootFrames |->
              IF f = boot_directory
              THEN [NoTables EXCEPT ![ImageSlot] = kernel_table]
              ELSE [s \in Slots |-> f]]
  /\ pte = [f \in Frames \cup BootFrames |->
              IF f \in Frames THEN [i \in Indices |-> f] ELSE NoEntries]
  /\ cr3 = boot_directory

\* start_paging and initialize_page_map: the kernel's image and the identity
\* map have tables; frames never used hold anything, here entries that look
\* present.
start_paging ==
  /\ pde = [f \in Frames \cup BootFrames |->
              IF f = boot_directory
              THEN [NoTables EXCEPT ![FirstSlot] = identity_table,
                                    ![ImageSlot] = kernel_table]
              ELSE [s \in Slots |-> f]]
  /\ pte = [f \in Frames \cup BootFrames |->
              IF f \in Frames THEN [i \in Indices |-> f] ELSE NoEntries]
  /\ cr3 = boot_directory

\* What the memory map has available, without the frames of the bitmap.
initialize_page_map == page_map \in FreeAtBoot

Init ==
  /\ start_paging
  /\ initialize_page_map
  /\ mode = "boot"
  /\ spaces = <<>>
  /\ doing = "kminit"
  /\ todo = BitmapPages
  /\ request = <<>>
  /\ objects = {}
-----------------------------------------------------------------------------
(* src/x86/paging.c and src/mmgr.c                                         *)

\* get_pte_pointer of both levels, in the directory d: the frame that the
\* page is mapped to.
Entry(d, page) == IF pde[d][page[1]] = NULL THEN NULL ELSE pte[pde[d][page[1]]][page[2]]

page_type(page) == IF Entry(cr3, page) = NULL THEN "absent" ELSE "present"

\* Mutant: the new table keeps what its frame held.
KeepContents(t) == pte[t]

wipe_page_table(t) == NoEntries

\* The frames of which reserve_page may return one; with none free it returns
\* ENOMEM.
reserve_page(free) == Pick(free)

\* Entry i of the page table t is given its frame, or NULL, and its flags.
set_pte(t, i, frame) == [pte EXCEPT ![t][i] = frame]

\* Mutant: a frame for the table is reserved before the look whether there is
\* one.
ReserveFirst(page, frame, left) ==
  LET t == pde[cr3][page[1]]
  IN \/ /\ t # NULL
        /\ pte' = set_pte(t, page[2], frame)
        /\ page_map' \in IF left = {} THEN {left} ELSE {left \ {new} : new \in reserve_page(left)}
        /\ UNCHANGED pde
     \/ /\ t = NULL
        /\ \E new \in reserve_page(left) :
             /\ page_map' = left \ {new}
             /\ pde' = [pde EXCEPT ![cr3][page[1]] = new]
             /\ pte' = [pte EXCEPT ![new] = [wipe_page_table(new) EXCEPT ![page[2]] = frame]]

\* map_page when it succeeds, with left the free frames it can take the
\* missing table from.
map_page(page, frame, left) ==
  LET t == pde[cr3][page[1]]
  IN \/ /\ t # NULL
        /\ pte' = set_pte(t, page[2], frame)
        /\ page_map' = left
        /\ UNCHANGED pde
     \/ /\ t = NULL
        /\ \E new \in reserve_page(left) :
             /\ page_map' = left \ {new}
             /\ pde' = [pde EXCEPT ![cr3][page[1]] = new]
             /\ pte' = [pte EXCEPT ![new] = [wipe_page_table(new) EXCEPT ![page[2]] = frame]]

\* map_page returns ENOMEM; it has changed nothing.
MapFails(page, left) ==
  /\ pde[cr3][page[1]] = NULL
  /\ left = {}
  /\ page_map' = left
  /\ UNCHANGED <<pde, pte>>

\* unmap_page and the frame that is not freed
unmap_page(page) ==
  /\ pte' = IF page_type(page) = "present"
            THEN set_pte(pde[cr3][page[1]], page[2], NULL)
            ELSE pte
  /\ UNCHANGED <<page_map, pde>>

\* Mutant: all entries of the loaded directory are copied.
CopyAll(table) == [pde EXCEPT ![table] = pde[cr3]]

\* Mutant: the copy begins one entry too late.
CopyLate(table) ==
  [pde EXCEPT ![table] = [s \in Slots |-> IF s \in KernelSlots \ {ImageSlot}
                                         THEN pde[cr3][s] ELSE NULL]]

\* Cleared, with the kernel's entries copied from the loaded directory, in
\* which the new one is reached through entry 0.
paging_init_top_table(table) ==
  [pde EXCEPT ![table] = [s \in Slots |-> IF s \in KernelSlots THEN pde[cr3][s] ELSE NULL]]

Continue(stage, pages) == doing' = stage /\ todo' = pages

Halt(how) ==
  /\ mode' = how
  /\ UNCHANGED <<spaces, doing, todo, request, tables, cr3, objects>>

\* A step fails after it has changed the page tables: panic.
Panic ==
  /\ mode' = "panic"
  /\ UNCHANGED <<spaces, doing, todo, request, cr3, objects>>
-----------------------------------------------------------------------------
(* src/heap.c                                                              *)

\* mmap_callback: each page of the bitmap takes two frames, one of them for
\* nothing.
mmap_callback ==
  /\ mode = "boot" /\ doing = "kminit" /\ todo # <<>>
  /\ \/ Cardinality(page_map) < 2 /\ Halt("panic")
     \/ \E lost \in reserve_page(page_map) : \E frame \in reserve_page(page_map \ {lost}) :
          /\ map_page(Head(todo), frame, page_map \ {lost, frame})
          /\ Continue("kminit", Tail(todo))
          /\ UNCHANGED <<mode, spaces, request, cr3, objects>>

\* kmalloc of a block in the page: map_block maps it unless it is present in
\* the address space that is loaded.
kmalloc(page) ==
  /\ \/ page_type(page) = "present" /\ UNCHANGED tables
     \/ /\ page_type(page) = "absent"
        /\ \E frame \in reserve_page(page_map) : map_page(page, frame, page_map \ {frame})
  /\ objects' = objects \cup {page}

\* kmalloc returns NULL: no frame for the page, or none for its table, in
\* which case the page's own is lost.
KmallocFails(page) ==
  /\ page_type(page) = "absent"
  /\ \/ page_map = {} /\ UNCHANGED tables
     \/ \E frame \in reserve_page(page_map) : MapFails(page, page_map \ {frame})
-----------------------------------------------------------------------------
(* kernel_load_module                                                      *)

Loading(stage) == mode = "boot" /\ doing = stage

\* create_address_space and paging_load_address_space.  With no page table in
\* entry 0 of the loaded directory, the window through which the new one is
\* written is a page fault.
create_address_space ==
  /\ Loading("create")
  /\ Cardinality(Directories) < MaxSpaces
  /\ \/ page_map = {} /\ Halt("panic")
     \/ page_map # {} /\ pde[cr3][FirstSlot] = NULL /\ Halt("fault")
     \/ /\ pde[cr3][FirstSlot] # NULL
        /\ \E table \in reserve_page(page_map) :
             /\ page_map' = page_map \ {table}
             /\ pde' = paging_init_top_table(table)
             /\ cr3' = table
        /\ \E p \in Programs : request' = p
        /\ Continue("image", ImagePages)
        /\ UNCHANGED <<mode, spaces, pte, objects>>

\* The module is mapped at load_base.
MapImage ==
  /\ Loading("image") /\ todo # <<>>
  /\ \/ MapFails(Head(todo), page_map) /\ Panic
     \/ /\ map_page(Head(todo), Image, page_map)
        /\ Continue("image", Tail(todo))
        /\ UNCHANGED <<mode, spaces, request, cr3, objects>>

\* Mutant: the loop over a segment stops before a last page that is not full.
FullPages(segments) ==
  LET s == Head(segments)
  IN IF s.memsize >= 2 * page_size
     THEN <<[vaddr |-> s.vaddr + page_size, memsize |-> s.memsize - page_size]>>
            \o Tail(segments)
     ELSE Tail(segments)

\* The segments without the first page_size bytes of the first.
Rest(segments) ==
  LET s == Head(segments)
  IN IF s.memsize > page_size
     THEN <<[vaddr |-> s.vaddr + page_size, memsize |-> s.memsize - page_size]>>
            \o Tail(segments)
     ELSE Tail(segments)

LastCopied(s) == s.vaddr + (IF s.memsize > page_size THEN page_size ELSE s.memsize) - 1

\* memcpy of up to page_size bytes to s.vaddr, whose page has been mapped: if
\* this is not the start of the page they may reach into the next one.
CopyReaches(s) ==
  \/ PageOf(LastCopied(s)) = PageOf(s.vaddr)
  \/ page_type(PageOf(LastCopied(s))) = "present"

\* One page of a segment; a page that two segments share is mapped twice.
\* Where the copy reaches a page that is not mapped, it is a page fault.
load_program ==
  /\ Loading("program") /\ todo # <<>>
  /\ LET s == Head(todo)
     IN \/ /\ s.memsize = 0
           /\ Continue("program", Tail(todo))
           /\ UNCHANGED <<mode, spaces, request, tables, cr3, objects>>
        \/ s.memsize > 0 /\ page_map = {} /\ Halt("panic")
        \/ /\ s.memsize > 0
           /\ \E frame \in reserve_page(page_map) :
                \/ MapFails(PageOf(s.vaddr), page_map \ {frame}) /\ Panic
                \/ /\ map_page(PageOf(s.vaddr), frame, page_map \ {frame})
                   /\ \/ CopyReaches(s) /\ Continue("program", Rest(todo)) /\ UNCHANGED mode
                      \/ ~CopyReaches(s) /\ mode' = "fault" /\ UNCHANGED <<doing, todo>>
                   /\ UNCHANGED <<spaces, request, cr3, objects>>

\* The module is unmapped again; its page table stays.
UnmapImage ==
  /\ Loading("unmap") /\ todo # <<>>
  /\ unmap_page(Head(todo))
  /\ Continue("unmap", Tail(todo))
  /\ UNCHANGED <<mode, spaces, request, cr3, objects>>

\* What comes after the loop of kminit and those of kernel_load_module.
AfterLoop ==
  [kminit  |-> [stage |-> "queue", pages |-> <<>>],
   image   |-> [stage |-> "program", pages |-> request],
   program |-> [stage |-> "unmap", pages |-> ImagePages],
   unmap   |-> [stage |-> "process", pages |-> <<>>]]

LoopEnds ==
  /\ mode = "boot" /\ doing \in DOMAIN AfterLoop /\ todo = <<>>
  /\ Continue(AfterLoop[doing].stage, AfterLoop[doing].pages)
  /\ UNCHANGED <<mode, spaces, request, tables, cr3, objects>>

\* construct_priority_queue allocates its array before the modules are loaded,
\* kernel_spawn_process process_t, the context, and after the stack the table
\* node; only the last is not checked.
AfterBlock == [queue |-> "create", process |-> "context", context |-> "stack",
               node |-> "ready"]

AllocateBlock ==
  /\ mode = "boot" /\ doing \in DOMAIN AfterBlock
  /\ \E page \in HeapPages :
       \/ /\ KmallocFails(page)
          /\ mode' = IF doing = "node" THEN "fault" ELSE "panic"
          /\ UNCHANGED <<spaces, doing, todo, request, cr3, objects>>
       \/ /\ kmalloc(page)
          /\ Continue(AfterBlock[doing], <<>>)
          /\ UNCHANGED <<mode, spaces, request, cr3>>

\* The result of map_page is ignored.
MapStack ==
  /\ Loading("stack")
  /\ \/ page_map = {} /\ Halt("panic")
     \/ \E frame \in reserve_page(page_map) :
          /\ \/ map_page(StackPage, frame, page_map \ {frame})
             \/ MapFails(StackPage, page_map \ {frame})
          /\ Continue("node", <<>>)
          /\ UNCHANGED <<mode, spaces, request, cr3, objects>>

Spawned ==
  /\ Loading("ready")
  /\ spaces' = [d \in Directories \cup {cr3} |->
                  IF d = cr3 THEN request ELSE spaces[d]]
  /\ Continue("create", <<>>)
  /\ UNCHANGED <<mode, request, tables, cr3, objects>>
-----------------------------------------------------------------------------
(* Processes at work                                                       *)

Idle == mode = "running" /\ doing = "idle"

\* kernel_advance_scheduler and send load the address space of a process.
paging_load_address_space ==
  /\ \/ Loading("create")
     \/ Idle
  /\ \E d \in Directories : cr3' = d
  /\ mode' = "running"
  /\ Continue("idle", <<>>)
  /\ UNCHANGED <<spaces, request, tables, objects>>

\* A message or a port needs blocks of the heap.
KernelAllocates ==
  /\ Idle
  /\ \E page \in HeapPages :
       \/ kmalloc(page)
       \/ KmallocFails(page) /\ UNCHANGED objects
  /\ UNCHANGED <<kernel, cr3>>

\* The loop of munmap never gets past its first page, which it unmaps.
munmap(range) ==
  /\ mode' = "hung"
  /\ unmap_page(Head(range))
  /\ UNCHANGED <<spaces, doing, todo, request, cr3, objects>>

Munmap ==
  /\ Idle
  /\ \E range \in MmapRanges : IF range = <<>> THEN UNCHANGED vars ELSE munmap(range)

\* The check that no page of the range is present.
mmap ==
  /\ Idle
  /\ \E range \in MmapRanges :
       \/ /\ \E i \in DOMAIN range : page_type(range[i]) = "present"
          /\ UNCHANGED vars
       \/ /\ \A i \in DOMAIN range : page_type(range[i]) = "absent"
          /\ request' = range
          /\ Continue("mmap", range)
          /\ UNCHANGED <<mode, spaces, tables, cr3, objects>>

\* One page of the range.  On failure the frame is freed and munmap called
\* with the whole range.
MmapPage ==
  /\ mode = "running" /\ doing = "mmap" /\ todo # <<>>
  /\ \/ page_map = {} /\ munmap(request)
     \/ \E frame \in reserve_page(page_map) :
          \/ /\ pde[cr3][Head(todo)[1]] = NULL
             /\ page_map = {frame}
             /\ munmap(request)
          \/ /\ map_page(Head(todo), frame, page_map \ {frame})
             /\ Continue("mmap", Tail(todo))
             /\ UNCHANGED <<mode, spaces, request, cr3, objects>>

MmapReturns ==
  /\ mode = "running" /\ doing = "mmap" /\ todo = <<>>
  /\ Continue("idle", <<>>)
  /\ UNCHANGED <<mode, spaces, request, tables, cr3, objects>>

Stopped == mode \in {"panic", "fault", "hung"} /\ UNCHANGED vars

Next ==
  \/ mmap_callback \/ LoopEnds
  \/ create_address_space \/ MapImage \/ load_program \/ UnmapImage
  \/ AllocateBlock \/ MapStack \/ Spawned
  \/ paging_load_address_space \/ KernelAllocates
  \/ Munmap \/ mmap \/ MmapPage \/ MmapReturns
  \/ Stopped

Spec == Init /\ [][Next]_vars
-----------------------------------------------------------------------------
(* Correctness                                                             *)

\* The directories in use, the one being filled included.
InUse == Directories \cup {boot_directory, cr3}

\* What a frame f serves as: a directory, a table of a directory (a kernel
\* slot counts once, whoever shares it), a page of a table.
Tables == {pde[d][s] : d \in InUse, s \in Slots} \ {NULL}
Uses(f) ==
  {<<"directory", d>> : d \in InUse \cap {f}}
    \cup {<<"table", IF us[2] \in KernelSlots THEN NULL ELSE us[1], us[2]>> :
            us \in {ds \in InUse \X Slots : pde[ds[1]][ds[2]] = f}}
    \cup {<<"page", ti[1], ti[2]>> :
            ti \in {x \in Tables \X Indices : pte[x[1]][x[2]] = f}}

\* No frame is handed out twice: each one is free, or serves as one directory,
\* one table or one page.  Processes share no memory, no page is also a page
\* table, and a new table brings no entries of its frame's past.
OneUse ==
  \A f \in Frames : /\ Cardinality(Uses(f)) <= 1
                    /\ f \in page_map => Uses(f) = {}

Forgotten == {f \in Frames \ page_map : Uses(f) = {}}

\* Frames are never given back, but a step forgets one only where the code
\* drops it: the first of the two that mmap_callback reserves, the one under a
\* page that a second segment maps again, the last free one when map_page
\* finds none for the table, and the one munmap unmaps.
FramesKept ==
  [][\A f \in Forgotten' \ Forgotten :
       /\ Forgotten' \ Forgotten = {f}
       /\ \/ doing = "kminit"
          \/ doing = "program" /\ f = Entry(cr3, PageOf(Head(todo).vaddr))
          \/ page_map = {f} /\ page_map' = {} /\ doing # "mmap"
          \/ mode' = "hung" /\ \E page \in UserPages : f = Entry(cr3, page)]_vars

\* create_address_space writes the new directory through entry 0 of the loaded
\* one.  It is a page fault only after a module that has no page there; the
\* first module, loaded from the boot directory, never meets it.
WindowMissing ==
  mode = "fault" /\ doing = "create" =>
    /\ cr3 \in Directories
    /\ \A page \in ProgramPages(spaces[cr3]) : page[1] # FirstSlot

\* A process that was spawned finds every byte of its segments mapped, wherever
\* in a page they begin and whatever pages they share, although the loader goes
\* by steps of a page and makes tables on the way; and its stack, unless the
\* last frame went to the stack when map_page needed one more for the table, an
\* error kernel_spawn_process does not look at.
SpaceComplete ==
  mode # "hung" =>
    \A d \in Directories :
      /\ \A page \in ProgramPages(spaces[d]) : Entry(d, page) # NULL
      /\ Entry(d, StackPage) # NULL \/ page_map = {}

\* What a step in one address space does to page tables leaves the user pages
\* of all others as they are, although every table is edited through the same
\* window at 0xFFC00000.
OthersUntouched ==
  [][\A d \in Directories \ {cr3} : \A page \in UserPages :
       Entry(d, page)' = Entry(d, page)]_vars

\* An object that the kernel allocates below the heap's first page table
\* limit can be reached whatever address space is loaded, also in those made
\* before its page was mapped.
HeapShared ==
  \A d \in InUse : \A page \in objects :
    page[1] = ImageSlot => Entry(d, page) # NULL /\ Entry(d, page) = Entry(cr3, page)

\* "Create a new top-level page table and map the kernel in it": in every
\* address space the kernel finds all objects of its heap.
KernelMapped == \A d \in Directories : \A page \in objects : Entry(d, page) # NULL
=============================================================================
