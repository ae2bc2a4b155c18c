CONSTANTS
  t0 = t0
  t1 = t1
  t2 = t2
  t3 = t3
  Procs <- ThreeTasks
  Root = t0
  NTasks <- SizeOfStep
  Unconfigured <- Nobody
  Killable <- ThreeTasks
  MaxLaunches = 2
SPECIFICATION Spec
INVARIANT NobodyPassesUnseen
INVARIANT CleanupAfterAllDeparted
SYMMETRY NonRootSymmetry
CHECK_DEADLOCK FALSE
