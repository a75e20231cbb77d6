SPECIFICATION FairSpec
CONSTANTS
  None = None
  Invalid = Invalid
  utc = utc
  porch = porch
  ana = ana
  bia = bia
  Zone = {utc}
  DayLength = 3
  Rename = Rename
  Show = Show
  Name = {porch}
  Request = {ana, bia}
  Patch <- Patches
  Damaged <- Damages
  MaxAttempts = 2
  Horizon = 1
  LostResponses = TRUE
INVARIANTS
  TypeOK
  RingAsPreferred
  ConflictIsContention
PROPERTIES
  
  EveryRequestAnswered
CHECK_DEADLOCK FALSE
