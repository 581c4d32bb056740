-------------------------------- MODULE MCIpc --------------------------------
(* Ipc with one receiver and two senders, one of them a thread of the      *)
(* other's process.                                                        *)
EXTENDS Ipc
=============================================================================
