------------------------------- MODULE Memory -------------------------------
(***************************************************************************)
(* The kernel's memory: the frames and address spaces, and the heap, whose *)
(* frames paging::init() takes out of the frame allocator.  The two share  *)
(* nothing after that, so a behaviour follows one of them and leaves the   *)
(* other as it is at boot.                                                 *)
(***************************************************************************)
EXTENDS AddressSpace, Heap

VARIABLE part

vars == <<spaceVars, heapVars, part>>

Init ==
  /\ SpaceInit
  /\ HeapInit
  /\ part \in {"frames", "heap"}
  /\ part = "heap" => tables = KernelMap(FALSE) /\ budget = CHOOSE b \in Budgets : TRUE

Next ==
  /\ UNCHANGED part
  /\ \/ part = "frames" /\ SpaceStep /\ UNCHANGED heapVars
     \/ part = "heap" /\ HeapStep /\ UNCHANGED spaceVars

Spec == Init /\ [][Next]_vars
=============================================================================
