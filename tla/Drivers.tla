------------------------------ MODULE Drivers ------------------------------
(***************************************************************************)
(* The device drivers.  They share no state (each device has a lock of its *)
(* own), so a behaviour follows one of them and leaves the others as they  *)
(* are at boot.                                                            *)
(***************************************************************************)
EXTENDS BlockDevices, NetCards, NineP, Sound

VARIABLE device

driversVars == <<blkVars, netVars, p9Vars, sndVars, device>>

DriversInit ==
  /\ BlkInit /\ NetInit /\ P9Init /\ SndInit
  /\ device \in {"disk", "card", "9p", "sound"}
  /\ device # "disk" => kind = "virtio"
  /\ device # "card" => card = "virtio"

DriversNext ==
  /\ UNCHANGED device
  /\ \/ device = "disk" /\ BlkStep /\ UNCHANGED <<netVars, p9Vars, sndVars>>
     \/ device = "card" /\ NetStep /\ UNCHANGED <<blkVars, p9Vars, sndVars>>
     \/ device = "9p" /\ P9Step /\ UNCHANGED <<blkVars, netVars, sndVars>>
     \/ device = "sound" /\ SndStep /\ UNCHANGED <<blkVars, netVars, p9Vars>>

-----------------------------------------------------------------------------
\* A driver reports success only for what has been done: at the step in which a call
\* returns it, the sector is read or written, the frame is on the wire, the file is
\* whole, whatever timed out, was answered late or failed within the call.  AHCI and
\* e1000e keep this always; virtio and NVMe, which do not look whose answer they
\* see, for the calls that begin with no answer outstanding.  An attempt that times
\* out leaves one behind, also when the retry after it succeeds.
OkMeansDone == [][DoneWhenOk /\ SentWhenOk /\ WholeWhenOk]_driversVars

\* What is shared with a device comes back from it in order and is never changed
\* while the device has it: received frames, the server's fids, the sound buffers.
RingsSound == ReceivedInOrder /\ FidsReturned /\ BuffersOwned
=============================================================================
