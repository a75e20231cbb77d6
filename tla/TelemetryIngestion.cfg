SPECIFICATION FairSpec
CONSTANTS
  Delivery = {d1, d2}
  Message <- MCTelemetry
  Command = {"c1"}
  Polled = {"c1"}
  Unstamped = Unstamped
  NoJob = NoJob
  PushConfigured = TRUE
  DetailLimit = 1
  HourLength = 1
  Skew = 0
  Expiry = 1
  MaxTries = 2
  Horizon = 1
  MaxResends = 1
INVARIANTS
  TypeOK
  DetailsReserved
  CountersAgree
  RingPushedOnceRecorded
  StateIsNewest
  ProjectionCoversResponses
PROPERTIES
  ToldOutcomeStands
  DeliverySettles
CHECK_DEADLOCK FALSE
