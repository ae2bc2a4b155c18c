CONSTANTS
  t0 = t0
  t1 = t1
  t2 = t2
  t3 = t3
  Procs <- TwoTasks
  Root = t0
  NTasks <- SizeOfStep
  Unconfigured <- Nobody
  Killable <- Nobody
  MaxLaunches = 2
SPECIFICATION Spec
INVARIANT NobodyPassesEarly
CHECK_DEADLOCK FALSE
