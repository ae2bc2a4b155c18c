----------------------------- MODULE DaemonLife -----------------------------
(***************************************************************************)
(* What the SSH hook promises about the daemon of one container: it is     *)
(* started at most once, while the container lives; one that has ended     *)
(* never comes back; and a stop is reported to have succeeded only when    *)
(* the container has stopped and its daemon has ended.                     *)
(***************************************************************************)
VARIABLES daemon,    \* "none" (yet), "running" or "ended"
          lives,     \* the container has not stopped
          reported   \* the last stop of the daemon has reported success

vars == <<daemon, lives, reported>>

Init == daemon = "none" /\ lives /\ ~reported

Start == /\ daemon = "none"
         /\ lives
         /\ daemon' = "running"
         /\ UNCHANGED <<lives, reported>>

(* The daemon ends, whatever the reason, or will not be started at all.    *)
Finish == /\ daemon # "ended"
          /\ daemon' = "ended"
          /\ UNCHANGED <<lives, reported>>

(* Only a container that has been set up stops; its daemon may live in its *)
(* pid namespace and end with it.                                          *)
ContainerStops == /\ lives
                  /\ daemon # "none"
                  /\ lives' = FALSE
                  /\ daemon' \in {daemon, "ended"}
                  /\ UNCHANGED reported

Report == /\ ~lives
          /\ daemon # "none"
          /\ ~reported
          /\ daemon' = "ended"
          /\ reported' = TRUE
          /\ UNCHANGED lives

(* The engine stops the daemon once more.                                  *)
StopAgain == /\ reported
             /\ reported' = FALSE
             /\ UNCHANGED <<daemon, lives>>

Next == Start \/ Finish \/ ContainerStops \/ Report \/ StopAgain

Spec == Init /\ [][Next]_vars
=============================================================================
