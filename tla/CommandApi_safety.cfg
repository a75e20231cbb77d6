SPECIFICATION Spec
CONSTANTS
  Request = {r1,r2,r3}
  Key = {k1}
  NoKey = NoKey
  NoRequest = NoRequest
  Lifetime = 2
  KeyWindow = 3
  Cooldown = 1
  Timeout = 1
  PurgeLag = 1
  Horizon = 3
  LostResponses = TRUE
SYMMETRY MCSymmetry
INVARIANTS
  TypeOK
  OneCommandPerKey
  PublishedInTime
  NoRepublishOnceMarked
PROPERTIES
  ImplementsRemoteCommands
CHECK_DEADLOCK FALSE
