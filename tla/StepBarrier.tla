---------------------------- MODULE StepBarrier ----------------------------
(***************************************************************************)
(* What the Slurm global synchronization hook promises to one job step     *)
(* whose tasks each start one container: no task's container goes on       *)
(* before the containers of all tasks have arrived, and the directory the  *)
(* tasks meet in is swept only after all of them have gone through.  A     *)
(* task may be lost at any time; what it did before still counts.          *)
(***************************************************************************)
CONSTANT Procs

VARIABLES arrived,  \* tasks that have signalled their arrival
          passed,   \* tasks that were let through
          swept,    \* the meeting place has been (or is being) removed
          lost      \* tasks that will not take another step

vars == <<arrived, passed, swept, lost>>

TypeOK == /\ arrived \in SUBSET Procs
          /\ passed \in SUBSET Procs
          /\ swept \in BOOLEAN
          /\ lost \in SUBSET Procs

Init == /\ arrived = {}
        /\ passed = {}
        /\ swept = FALSE
        /\ lost = {}

Arrive(p) == /\ p \notin arrived \cup lost
             /\ arrived' = arrived \cup {p}
             /\ UNCHANGED <<passed, swept, lost>>

Pass(p) == /\ arrived = Procs
           /\ p \notin passed \cup lost
           /\ passed' = passed \cup {p}
           /\ UNCHANGED <<arrived, swept, lost>>

Sweep == /\ passed = Procs
         /\ ~swept
         /\ swept' = TRUE
         /\ UNCHANGED <<arrived, passed, lost>>

Lose(p) == /\ p \notin lost
           /\ lost' = lost \cup {p}
           /\ UNCHANGED <<arrived, passed, swept>>

Next == \/ \E p \in Procs : Arrive(p) \/ Pass(p) \/ Lose(p)
        \/ Sweep

Spec == Init /\ [][Next]_vars
=============================================================================
