------------------------------ MODULE MCMemory ------------------------------
(***************************************************************************)
(* Memory for TLC.  Frames are handed out in ascending order: which frame  *)
(* is returned makes no difference, as none is ever returned to page_map.  *)
(***************************************************************************)
EXTENDS Memory, FiniteSetsExt

CONSTANT FrameCount  \* Bound: free frames

MCFrames == 1..FrameCount
MCFreeAtBoot == {1..n : n \in 0..FrameCount}
Lowest(S) == IF S = {} THEN {} ELSE {Min(S)}

\* Entry 0, the entry of 0x80000000 and of the stack, the kernel's two.
MCUserSlots == {"first", "image", "stack"}
MCKernelSlots == {"kernel", "heap"}

P(slot, i) == <<slot, i>>

\* Addresses 0 to 3 are in the first entry's two pages, 4 and 5 in the stack's
\* entry.
MCAddresses == 0..5
PageAt(a) == <<P("first", 0), P("first", 1), P("stack", 0)>>[a \div 2 + 1]

Segment(vaddr, memsize) == [vaddr |-> vaddr, memsize |-> memsize]

\* A program in the first entry, whose last page is not full; one elsewhere,
\* with an empty segment; one with segments that share a page; one whose second
\* segment begins within a page and is copied into a page the first one has;
\* and one for which that page is missing.
MCPrograms == {<<Segment(0, 3)>>,
               <<Segment(0, 0), Segment(4, 2)>>,
               <<Segment(0, 1), Segment(1, 1), Segment(4, 2)>>,
               <<Segment(2, 2), Segment(1, 3)>>,
               <<Segment(1, 3)>>}
MCBitmapPages == <<P("kernel", 0)>>
MCHeapPages == {P("kernel", 0), P("kernel", 1), P("heap", 0)}
MCImagePages == <<P("image", 0), P("image", 1)>>
MCStackPage == P("stack", 1)
MCMmapRanges == {<<>>, <<P("first", 1)>>, <<P("image", 0), P("image", 1)>>}
=============================================================================
