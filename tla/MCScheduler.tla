----------------------------- MODULE MCScheduler -----------------------------
(* Scheduler on a small task table.                                        *)
EXTENDS Scheduler
=============================================================================
