CONSTANTS
  k1 = k1
  k2 = k2
  k3 = k3
  h1 = h1
  h2 = h2
  UserKey = UserKey
  NoOwner = NoOwner
  Keygens <- TwoKeygens
  Overwriting <- Nobody
  Failing <- Nobody
  Hooks <- OneHook
  WithUserKey <- Nobody
  Killable <- TwoKeygens
SPECIFICATION Spec
PROPERTY RefusalMeansWhole
CHECK_DEADLOCK FALSE
