CONSTANTS
  c1 = c1
  c2 = c2
  p1 = p1
  p2 = p2
  p3 = p3
  f1 = f1
  f2 = f2
  Containers <- TwoContainers
  Joining <- Nobody
  Pids <- TwoPids
  None = None
  ServerPort = None
  DefaultPort = None
  AnnotatedPort = None
  HostPaths <- Paths
  PidfileHost <- SecondIsAnnotated
  OldHostfiles <- OldFileOfSecond
  InnerPid <- InnerPids
  Garbage <- AnyGarbage
  FailingSteps <- NoStepFails
  Mortal <- TwoContainers
  Slow <- OneContainer
  Stale <- Nobody
  Killable <- TwoContainers
  OthersMayRun = TRUE
  MaxStops = 2
SPECIFICATION Spec
PROPERTY ImplementsDaemonLife
CHECK_DEADLOCK FALSE
