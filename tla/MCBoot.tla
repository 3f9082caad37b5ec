------------------------------- MODULE MCBoot -------------------------------
(***************************************************************************)
(* Boot with eight pages of two units.  Memory below the kernel, with an   *)
(* end inside a page, a hole or reserved memory before it, and memory      *)
(* above it with a reserved or defective part, or in two regions that meet *)
(* inside a page.                                                          *)
(***************************************************************************)
EXTENDS Boot

Entry(base, end, t) == [base |-> base, length |-> end - base, type |-> t]

Maps ==
  { <<Entry(0, 3, 1), Entry(3, 4, 2), Entry(4, 16, 1)>>,
    <<Entry(0, 3, 1), Entry(4, 16, 1)>>,
    <<Entry(1, 2, 1), Entry(2, 4, 2), Entry(4, 11, 1), Entry(11, 16, 5)>>,
    <<Entry(1, 4, 1), Entry(4, 10, 1), Entry(10, 11, 3), Entry(11, 16, 1)>>,
    <<Entry(0, 16, 1), Entry(9, 12, 2)>>,
    <<Entry(4, 8, 1)>>,
    <<Entry(2, 9, 1), Entry(9, 14, 1)>> }

Module(start, end) == [start |-> start, end |-> end]

ModuleLists ==
  { <<>>, <<Module(8, 9)>>, <<Module(8, 10), Module(12, 14)>>,
    <<Module(12, 13), Module(10, 12), Module(8, 9)>> }

AllLoaders ==
  { [entries |-> e, modules |-> m, info_end |-> end] :
      e \in Maps, m \in ModuleLists, end \in {8, 11, 16} }
=============================================================================
