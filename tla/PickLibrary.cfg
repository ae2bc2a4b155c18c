SPECIFICATION Spec
CONSTANTS
  Name = libfoo
  Numbers = {0, 1}
  MaxCandidates = 3
INVARIANTS
  FullyCompatibleIsPicked
  OldestNewerIsPicked
  NewestOlderIsPicked
CHECK_DEADLOCK FALSE
