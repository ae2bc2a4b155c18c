SPECIFICATION Spec
CONSTANTS
  Name = libfoo
  Numbers = {0, 1}
  MaxCandidates = 2
INVARIANTS
  NoOlderMajorIsPicked
CHECK_DEADLOCK FALSE
