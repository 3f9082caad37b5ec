-------------------------------- MODULE Boot --------------------------------
(***************************************************************************)
(* From the boot loader's tables to the first free page frames:            *)
(* start_paging (src/x86/paging.c), read_multiboot_table                   *)
(* (src/x86/multiboot2.c), x86_startup (src/x86/quark_x86.c), the          *)
(* beginning of kernel_initialize (src/kernel.c) and initialize_page_map   *)
(* (src/mmgr.c).  What Memory takes for granted, that the frames free at   *)
(* boot hold neither the kernel, nor a module, nor the bitmap of free      *)
(* frames itself, is established here.                                     *)
(*                                                                         *)
(* Addresses count units of which page_size make a page, so that regions   *)
(* of memory may begin and end inside pages.  The memory map is the        *)
(* libmalloc array of regions, known only from its use: it is sorted,      *)
(* where regions overlap the less available type prevails, and adjacent    *)
(* regions of one type may or may not be merged.                           *)
(***************************************************************************)
EXTENDS Naturals, Sequences, FiniteSets, FiniteSetsExt, Functions

CONSTANTS
  Word,          \* addresses and lengths of the kernel are modulo Word
  Units,         \* the size of physical memory
  page_size,
  kernel_pstart, \* _kernel_pstart and _kernel_pend, the kernel's image
  kernel_pend,
  Loaders,       \* what the boot loader may pass: entries, modules, info_end
  module_limit,
  MaxNeeded      \* Bound: pages that the bitmap may need

Span(base, length) == base..(base + length - 1)
PageOf(n) == Span(n, page_size)
RoundUp(n) == ((n + page_size - 1) \div page_size) * page_size

Entries == [base : Nat, length : Nat, type : Nat]
Modules == [start : Nat, end : Nat]

\* What the loader passes lies in memory, and the modules begin at pages.  The
\* loader's 64-bit entries end below 2^32: memory above would appear in the map
\* at the address modulo 2^32.
ASSUME BootAssumption ==
  /\ Word \in Nat /\ Units < Word
  /\ {Units, page_size, kernel_pstart, kernel_pend, module_limit, MaxNeeded} \subseteq Nat
  /\ page_size > 0
  /\ kernel_pstart % page_size = 0 /\ kernel_pend % page_size = 0
  /\ kernel_pstart < kernel_pend /\ kernel_pend <= Units
  /\ Loaders \subseteq [entries : Seq(Entries), modules : Seq(Modules), info_end : Nat]
  /\ \A l \in Loaders :
       /\ l.info_end \in kernel_pend..Units
       /\ \A e \in Range(l.entries) : e.base + e.length <= Units
       /\ \A m \in Range(l.modules) :
            /\ m.start % page_size = 0 /\ m.start <= m.end
            /\ m.start + RoundUp(m.end - m.start) <= Units

VARIABLES
  step,         \* what comes next, or how the boot ended
  loader,       \* the loader's information
  tags,         \* the tags not yet read: indices of modules, and 0 for the map
  type,         \* the memory map: the type of each unit,
  cuts,         \* the bounds of its regions,
  merges,       \* and whether it joins regions
  modules,      \* boot_info.modules
  linear,       \* frames of the pages from _kernel_start on, by their number
  i,            \* initialize_page_map: the region looked at,
  location,     \* the next frame in it
  region_end,   \* and its end; 0 between regions
  pages_mapped, pages_needed,
  page_map      \* the free frames at the end

map == <<type, cuts, merges>>
loop == <<i, location, region_end, pages_mapped, pages_needed>>
vars == <<step, loader, tags, map, modules, linear, loop, page_map>>

NULL == Units
Frames == {f \in 0..Units - 1 : f % page_size = 0 /\ f + page_size <= Units}

KernelPages == (kernel_pend - kernel_pstart) \div page_size
LinearPages == 0..(Units \div page_size + MaxNeeded)
-----------------------------------------------------------------------------
(* The memory map of libmalloc                                             *)

Availability == [none |-> 0, available |-> 1, unavailable |-> 2, defective |-> 3]

\* The map after some regions were inserted, in any order.
InsertRegions(regions) ==
  /\ type' = [u \in DOMAIN type |->
                CHOOSE t \in DOMAIN Availability :
                  LET all == {type[u]} \cup
                        {r.type : r \in {s \in regions : u \in Span(s.base, s.length)}}
                  IN t \in all /\ \A other \in all : Availability[other] <= Availability[t]]
  /\ cuts' = {c \in cuts \cup {r.base : r \in regions} \cup {r.base + r.length : r \in regions} :
                merges /\ c \notin {0, Units} => type'[c - 1] # type'[c]}
  /\ UNCHANGED merges

memmap_insert_region(base, length, new) ==
  InsertRegions({[base |-> base, length |-> length, type |-> new]})

\* map->array: the regions in ascending order, each from its first unit to
\* the next bound
Starts == {c \in cuts \ {Units} : type[c] # "none"}
RegionBase(n) == CHOOSE c \in Starts : Cardinality({d \in Starts : d <= c}) = n
RegionEnd(n) == Min({c \in cuts : c > RegionBase(n)})
-----------------------------------------------------------------------------
\* start_paging has mapped the kernel, and what lies behind it up to the end
\* of the loader's information, from _kernel_start on.  _start goes on only if
\* that information lies above the kernel.
start_paging ==
  linear = [n \in LinearPages |->
              IF kernel_pstart + n * page_size < loader.info_end
              THEN kernel_pstart + n * page_size ELSE NULL]

Init ==
  /\ step = "read"
  /\ loader \in Loaders
  /\ start_paging
  /\ tags = 0..Len(loader.modules)
  /\ type = [u \in 0..Units - 1 |-> "none"]
  /\ cuts = {0, Units}
  /\ merges \in BOOLEAN
  /\ modules = <<>>
  /\ i = 1 /\ location = 0 /\ region_end = 0
  /\ pages_mapped = 0 /\ pages_needed = 0
  /\ page_map = {}

-----------------------------------------------------------------------------
(* read_multiboot_table: the tags come in any order                        *)

\* The 64-bit fields of an entry become arguments of 32 bits.
physaddr_t(n) == n % Word

EntryType(t) == CASE t = 1 -> "available" [] t = 5 -> "defective" [] OTHER -> "unavailable"

ReadMap ==
  /\ step = "read" /\ 0 \in tags
  /\ InsertRegions({[base |-> physaddr_t(e.base), length |-> physaddr_t(e.length),
                       type |-> EntryType(e.type)] : e \in Range(loader.entries)})
  /\ tags' = tags \ {0}
  /\ UNCHANGED <<step, loader, modules, linear, loop, page_map>>

\* Modules are listed in the order of their tags; those that do not fit are
\* passed over, and their memory stays available.
ReadModule ==
  /\ step = "read"
  /\ \E n \in tags \ {0} :
       /\ \A other \in tags \ {0} : n <= other
       /\ tags' = tags \ {n}
       /\ \/ /\ Len(modules) < module_limit
             /\ modules' = Append(modules, loader.modules[n])
             /\ memmap_insert_region(loader.modules[n].start,
                  RoundUp(loader.modules[n].end - loader.modules[n].start), "unavailable")
          \/ Len(modules) >= module_limit /\ UNCHANGED <<map, modules>>
  /\ UNCHANGED <<step, loader, linear, loop, page_map>>

\* Mutant: the last page is left mapped.
UnmapAllButLast == {n \in LinearPages : n >= KernelPages /\ kernel_pstart + (n + 1) * page_size < loader.info_end}

\* The pages from _kernel_end to the end of the loader's information
UnmappedPages == {n \in LinearPages : n >= KernelPages /\ kernel_pstart + n * page_size < loader.info_end}

\* The rest of x86_startup, and kernel_initialize up to initialize_page_map,
\* which asks for the size of the bitmap.
x86_startup ==
  /\ step = "read" /\ tags = {}
  /\ linear' = [n \in LinearPages |-> IF n \in UnmappedPages THEN NULL ELSE linear[n]]
  /\ memmap_insert_region(kernel_pstart, kernel_pend - kernel_pstart, "unavailable")
  /\ pages_needed' \in 1..MaxNeeded
  /\ step' = "bitmap"
  /\ UNCHANGED <<loader, tags, modules, i, location, region_end, pages_mapped, page_map>>
-----------------------------------------------------------------------------
(* initialize_page_map                                                     *)

\* Mutant: the search ends before the last region.
MoreButLast == i < Cardinality(Starts)

MoreRegions == i <= Cardinality(Starts)

Searching == step = "bitmap" /\ region_end = 0 /\ MoreRegions /\ pages_mapped < pages_needed

\* Mutant: a region that is not available is looked at again.
PassNone == i

PassRegion == i + 1

SkipRegion ==
  /\ Searching
  /\ type[RegionBase(i)] # "available"
  /\ i' = PassRegion
  /\ UNCHANGED <<step, loader, tags, map, modules, linear, location, region_end,
                 pages_mapped, pages_needed, page_map>>

FirstPage(base) == RoundUp(base)

EnterRegion ==
  /\ Searching
  /\ type[RegionBase(i)] = "available"
  /\ location' = FirstPage(RegionBase(i))
  /\ region_end' = RegionEnd(i)
  /\ UNCHANGED <<step, loader, tags, map, modules, linear, i, pages_mapped,
                 pages_needed, page_map>>

\* Mutant: the frame of the bitmap stays available.
KeepFrame(frame) == UNCHANGED map

TakeFrame(frame) == memmap_insert_region(frame, page_size, "unavailable")

Inside == location + page_size <= region_end /\ pages_mapped < pages_needed

\* The page of the bitmap is mapped unless it is present, and the frame taken
\* out of the map, whose regions move under the loop.  The directory entry of
\* the kernel is present for as much memory as a bitmap can describe.
MapBitmapPage ==
  /\ step = "bitmap" /\ region_end # 0 /\ Inside
  /\ linear' = IF linear[KernelPages + pages_mapped] = NULL
               THEN [linear EXCEPT ![KernelPages + pages_mapped] = location]
               ELSE linear
  /\ pages_mapped' = pages_mapped + 1
  /\ TakeFrame(location)
  /\ location' = location + page_size
  /\ UNCHANGED <<step, loader, tags, modules, i, region_end, pages_needed, page_map>>

LeaveRegion ==
  /\ step = "bitmap" /\ region_end # 0 /\ ~Inside
  /\ i' = i + 1
  /\ region_end' = 0
  /\ UNCHANGED <<step, loader, tags, map, modules, linear, location, pages_mapped,
                 pages_needed, page_map>>

\* initialize_heap of libmalloc writes the bitmap: a page that could not be
\* mapped, for which nobody has looked, is a page fault.  Else the frames
\* that are available as a whole become free.
InitializeHeap ==
  /\ step = "bitmap" /\ region_end = 0 /\ ~Searching
  /\ \/ /\ pages_mapped < pages_needed
        /\ step' = "fault"
        /\ UNCHANGED page_map
     \/ /\ pages_mapped = pages_needed
        /\ step' = "ready"
        /\ page_map' = {f \in Frames : \A u \in PageOf(f) : type[u] = "available"}
  /\ UNCHANGED <<loader, tags, map, modules, linear, loop>>

Ended == step \in {"ready", "fault"} /\ UNCHANGED vars

Next ==
  \/ ReadMap \/ ReadModule \/ x86_startup
  \/ SkipRegion \/ EnterRegion \/ MapBitmapPage \/ LeaveRegion
  \/ InitializeHeap
  \/ Ended

\* The CPU executes the boot code without waiting for anything.
Spec == Init /\ [][Next]_vars /\ WF_vars(Next)
-----------------------------------------------------------------------------
(* Correctness                                                             *)

\* What must not be given to anyone: the image of the kernel, the modules that
\* will be loaded, and whatever the loader does not call available.
Reserved ==
  Span(kernel_pstart, kernel_pend - kernel_pstart)
    \cup (UNION {Span(m.start, m.end - m.start) : m \in Range(modules)})
    \cup {u \in 0..Units - 1 :
            \/ ~\E e \in Range(loader.entries) : u \in Span(e.base, e.length)
            \/ \E e \in Range(loader.entries) : u \in Span(e.base, e.length) /\ e.type # 1}

Backing == {linear[KernelPages + n] : n \in 0..pages_mapped - 1}

\* Each page of the bitmap has a frame of its own, and none of them is
\* reserved, whatever the order of the tags, though regions are split and
\* joined while the loop walks over them.
BitmapBacked ==
  /\ Cardinality(Backing) = pages_mapped
  /\ \A f \in Backing : PageOf(f) \cap Reserved = {}

\* The frames free at the end are not reserved, and the bitmap that records
\* them is not kept in one of them.
FreeFramesSafe ==
  \A f \in page_map : PageOf(f) \cap Reserved = {} /\ f \notin Backing

\* The frames in which nothing is reserved and none of the loader's regions
\* begins or ends; one that two available regions share is never found.
Usable ==
  {f \in Frames :
     /\ PageOf(f) \cap Reserved = {}
     /\ \A e \in Range(loader.entries) :
          {e.base, e.base + e.length} \cap (PageOf(f) \ {f}) = {}}

\* If the map does not join regions the search for frames overlooks none of
\* the usable ones: the boot fails only where memory is really short.
FailsOnlyIfShort ==
  step = "fault" /\ ~merges => Cardinality(Usable) < pages_needed

\* The boot comes to an end.
BootEnds == <>(step \in {"ready", "fault"})
=============================================================================
