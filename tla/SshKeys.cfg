CONSTANTS
  k1 = k1
  k2 = k2
  k3 = k3
  h1 = h1
  h2 = h2
  UserKey = UserKey
  NoOwner = NoOwner
  Keygens <- ThreeKeygens
  Overwriting <- OneKeygen
  Failing <- TwoKeygens
  Hooks <- OneHook
  WithUserKey <- OneHook
  Killable <- TwoKeygensAndHook
SPECIFICATION FairSpec
INVARIANT TypeOK
INVARIANT RestingKeysAreWhole
INVARIANT UndisturbedCopyIsWhole
INVARIANT UndisturbedCopyMatches
INVARIANT CheckedLaunchSucceeds
PROPERTY WithoutOverwriteKeysStay
PROPERTY ImplementsKeySet
PROPERTY UserEndsUpWithKeys
CHECK_DEADLOCK FALSE
