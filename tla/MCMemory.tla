------------------------------ MODULE MCMemory ------------------------------
(***************************************************************************)
(* Three programs: one whose segments are apart, one with two segments     *)
(* that share a page, one with a segment on its stack; two regions of RAM  *)
(* of which the first lies under the programs' addresses;                  *)
(* and a heap with two slabs and room for four large blocks.               *)
(***************************************************************************)
EXTENDS Memory

TheSymmetry == Permutations(Procs)
TheRegions == <<[start |-> 1, pages |-> 7], [start |-> 12, pages |-> 14]>>
TheReserved == {14, 15, 16}
Item(page, perm, from, to, stack) ==
  [page |-> page, perm |-> perm, seg |-> Vma(from, to), stack |-> stack]
ThePrograms ==
  {<<Item(1, {"x"}, 1, 2, FALSE), Item(2, {"w"}, 2, 3, TRUE)>>,
   <<Item(0, {"x"}, 0, 1, FALSE), Item(0, {"w"}, 0, 2, FALSE), Item(1, {"w"}, 0, 2, FALSE),
     Item(3, {"w"}, 3, 4, TRUE)>>,
   <<Item(2, {"x"}, 2, 3, FALSE), Item(2, {"w"}, 2, 3, TRUE)>>}
TheCode == <<0, 2, 4>>
TheBudgets ==
  {[creations |-> 2, maps |-> 1], [creations |-> 1, maps |-> 3]}
TheSlabs == <<8, 16>>
TheLayouts ==
  {[size |-> 5, align |-> 1], [size |-> 16, align |-> 2], [size |-> 17, align |-> 1],
   [size |-> 22, align |-> 1], [size |-> 18, align |-> 8]}
=============================================================================
