------------------------- MODULE MCSlurmGlobalSync -------------------------
(* Instances of SlurmGlobalSync for TLC. *)
EXTENDS SlurmGlobalSync, TLC

CONSTANTS t0, t1, t2, t3

TwoTasks == {t0, t1}
ThreeTasks == {t0, t1, t2}
FourTasks == {t0, t1, t2, t3}
Nobody == {}
LastTask == {t2}
SizeOfStep == Cardinality(Procs)

(* The tasks other than procid 0 are interchangeable. *)
NonRootSymmetry == Permutations(Procs \ {Root})
=============================================================================
