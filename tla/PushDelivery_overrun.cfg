SPECIFICATION FairSpec
CONSTANTS
  Delivery = {d1, d2}
  Installation = {i1}
  LeaseSeconds = 2
  RetentionSeconds = 12
  Timeout = 3
  MaxTries = 2
  RetryDelay = 2
  QueueDelay = 1
  ArrivalHorizon = 1
  Skew = 0
  OccurredAt = 0
  TimestampSource = "device"
  PushMaxAge = 7
  FutureTolerance = 1
  LostResponses = FALSE
INVARIANTS
  NoSilentLoss
PROPERTIES
  CompletedIsFinal
  RingEventuallyResolved
CHECK_DEADLOCK FALSE
