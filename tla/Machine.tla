------------------------------ MODULE Machine -------------------------------
(***************************************************************************)
(* The two ends of the system in one specification: the devices below the  *)
(* kernel, as the drivers take them over at boot and as they use them, and *)
(* the user programs above it.  They meet only through the kernel parts    *)
(* that have modules of their own, so a behaviour follows one of the three *)
(* and leaves the others as they start.                                    *)
(***************************************************************************)
EXTENDS Bringup, Drivers, Userland

VARIABLE end

vars == <<bringupVars, driversVars, userVars, end>>

Init ==
  /\ end \in {"boot", "devices", "user"}
  /\ BringupInit /\ DriversInit /\ UserInit
  /\ end # "boot" => driver = "ac97"
  /\ end # "devices" => device = "sound"
  /\ end # "user" => topic = "entry"

\* init() of one driver after the other: the kernel's part of the bring-up.
Boot == end = "boot" /\ DriverStep /\ UNCHANGED <<driversVars, userVars, end>>

Next ==
  \/ Boot
  \/ end = "boot" /\ DeviceStep /\ UNCHANGED <<driversVars, userVars, end>>
  \/ end = "devices" /\ DriversNext /\ UNCHANGED <<bringupVars, userVars, end>>
  \/ end = "user" /\ UserNext /\ UNCHANGED <<bringupVars, driversVars, end>>

\* The driver's code runs on; of the devices nothing is assumed.
Spec == Init /\ [][Next]_vars /\ WF_vars(Boot)

-----------------------------------------------------------------------------
=============================================================================
