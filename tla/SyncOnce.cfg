CONSTANTS
  t0 = t0
  t1 = t1
  t2 = t2
  t3 = t3
  Procs <- FourTasks
  Root = t0
  NTasks <- SizeOfStep
  Unconfigured <- LastTask
  Killable <- FourTasks
  MaxLaunches = 1
SPECIFICATION FairSpec
INVARIANT TypeOK
INVARIANT NoHookFails
INVARIANT NoCommonWait
INVARIANT SuccessLeavesNoTree
PROPERTY WaitersLoseNoFile
PROPERTY ImplementsBarrier
PROPERTY EveryTaskSucceeds
PROPERTY DisabledPeerHangsAll
CHECK_DEADLOCK FALSE
