CONSTANTS
  c1 = c1
  c2 = c2
  p1 = p1
  p2 = p2
  p3 = p3
  f1 = f1
  f2 = f2
  Containers <- TwoContainers
  Joining <- SecondContainer
  Pids <- ThreePids
  None = None
  ServerPort = 22
  DefaultPort = 15263
  AnnotatedPort = 70000
  HostPaths <- Paths
  PidfileHost <- FirstIsAnnotated
  OldHostfiles <- NoOldFile
  InnerPid <- InnerPids
  Garbage <- AnyGarbage
  FailingSteps <- SomeStepsFail
  Mortal <- Nobody
  Slow <- Nobody
  Stale <- TwoContainers
  Killable <- Nobody
  OthersMayRun = TRUE
  MaxStops = 1
SPECIFICATION FairSpec
INVARIANT TypeOK
INVARIANT StopSignalsOnlyItsDaemon
INVARIANT HostPidfileNamesDaemon
PROPERTY NoDaemonOutlivesItsContainer
CHECK_DEADLOCK FALSE
