------------------------------ MODULE MCHandles ------------------------------
(* Handles with a shell and one child.                                     *)
EXTENDS Handles
=============================================================================
