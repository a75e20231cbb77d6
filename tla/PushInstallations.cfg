SPECIFICATION FairSpec
CONSTANTS
  Request = {r1,r2}
  User = {u1,u2}
  Installation = {i1,i2}
  Token = {t1,t2}
  MaxAttempts = 2
  NoItem = NoItem
INVARIANTS
  TypeOK
  Consistent
PROPERTIES
  RemovalSparesLiveTokens
  ImplementsPushRegistry
  EveryRequestAnswered
CHECK_DEADLOCK FALSE
