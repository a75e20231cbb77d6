SPECIFICATION Spec
CONSTANTS
  Request = {r1, r2}
  Key = {k1}
  NoKey = NoKey
  NoRequest = NoRequest
  Lifetime = 2
  KeyWindow = 3
  Cooldown = 1
  Timeout = 1
  PurgeLag = 1
  Horizon = 2
  LostResponses = FALSE
SYMMETRY MCSymmetry
INVARIANT RetryNeverFails
CHECK_DEADLOCK FALSE
