CONSTANTS
  c1 = c1
  c2 = c2
  p1 = p1
  p2 = p2
  p3 = p3
  f1 = f1
  f2 = f2
  Containers <- OneContainer
  Joining <- Nobody
  Pids <- TwoPids
  None = None
  ServerPort = 22
  DefaultPort = None
  AnnotatedPort = None
  HostPaths <- Paths
  PidfileHost <- NobodyIsAnnotated
  OldHostfiles <- NoOldFile
  InnerPid <- InnerPids
  Garbage <- AnyGarbage
  FailingSteps <- NoStepFails
  Mortal <- OneContainer
  Slow <- Nobody
  Stale <- Nobody
  Killable <- Nobody
  OthersMayRun = TRUE
  MaxStops = 1
SPECIFICATION Spec
INVARIANT StopSignalsOnlyItsDaemon
CHECK_DEADLOCK FALSE
