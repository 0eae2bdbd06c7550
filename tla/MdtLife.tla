------------------------------- MODULE MdtLife -------------------------------
(***************************************************************************)
(* What the daemon states promise a client: one MDT at a time, loaded      *)
(* before it is selected or started, started before it runs, and unloaded  *)
(* before the daemon is idle again.  The commands of Lifecycle implement   *)
(* this as long as one client at a time talks to the daemon.               *)
(***************************************************************************)
CONSTANTS Mdts, None

VARIABLES
    mode,   \* the daemon state
    mdt     \* the MDT loaded, None when there is none

Init == mode = "IDLE" /\ mdt = None

(* createmdt occupies an idle daemon.                                       *)
Create ==
    /\ mdt = None
    /\ \/ mode = "IDLE" /\ mode' = "CREATING"
       \/ mode = "CREATING" /\ mode' = "IDLE"
    /\ UNCHANGED mdt

(* select announces itself; run loads the MDT while the daemon still says   *)
(* that it is idle.                                                         *)
Announce == mode = "IDLE" /\ mdt = None /\ mode' = "SELECTING" /\ UNCHANGED mdt

Load(m) ==
    /\ mode \in {"IDLE", "SELECTING"} /\ mdt = None
    /\ mdt' = m
    /\ UNCHANGED mode

(* With the MDT loaded the states follow in this order.                     *)
Advance ==
    /\ mdt # None
    /\ \/ mode = "SELECTING" /\ mode' = "SELECTED"
       \/ mode \in {"IDLE", "SELECTED"} /\ mode' = "STARTING"
       \/ mode = "STARTING" /\ mode' = "RUNNING"
    /\ UNCHANGED mdt

(* The shutdown command announces itself; the end of the daemon does not.   *)
Unload ==
    /\ mdt # None /\ mdt' = None
    /\ \/ mode \in {"SELECTED", "RUNNING"} /\ mode' = "SHUTTING_DOWN"
       \/ mode \in {"SELECTED", "STARTING", "RUNNING"} /\ UNCHANGED mode

Idle ==
    /\ mdt = None /\ mode \notin {"CREATING", "SELECTING"}
    /\ mode' = "IDLE"
    /\ UNCHANGED mdt

Next == Create \/ Announce \/ (\E m \in Mdts : Load(m)) \/ Advance \/ Unload \/ Idle

Spec == Init /\ [][Next]_<<mode, mdt>>
=============================================================================
