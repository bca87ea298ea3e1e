------------------------------- MODULE Drivers -------------------------------
(***************************************************************************)
(* The userspace drivers and the kernel that launches, feeds, stops and    *)
(* restarts them.  A behaviour follows the driver dev and its device.      *)
(***************************************************************************)
EXTENDS NicMailbox, AudioMailbox, DiskMailbox, HidMailbox, GopMailbox, InputPath

vars == <<serviceVars, box>>

Init == ServicesInit /\ (NicInit \/ AudioInit \/ DiskInit \/ HidInit \/ GopInit \/ InputInit)

Next ==
    \/ ServicesNext /\ UNCHANGED box
    \/ NicNext
    \/ AudioNext
    \/ DiskNext
    \/ HidNext
    \/ GopNext
    \/ InputNext

Spec == Init /\ [][Next]_vars
=============================================================================
