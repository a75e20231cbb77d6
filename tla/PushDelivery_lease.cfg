SPECIFICATION Spec
CONSTANTS
  Delivery = {d1, d2}
  Installation = {i1, i2}
  LeaseSeconds = 4
  RetentionSeconds = 9
  Timeout = 1
  MaxTries = 2
  RetryDelay = 6
  QueueDelay = 0
  ArrivalHorizon = 2
  Skew = 1
  OccurredAt = 1
  TimestampSource = "device"
  PushMaxAge = 5
  FutureTolerance = 1
  LostResponses = TRUE
SYMMETRY MCSymmetry
INVARIANTS
  TypeOK
  SingleSender
  RepeatOnlyAfterFailure
  LossIsVisible
PROPERTIES
  RingsAreTimely
  ImplementsRingDelivery
CHECK_DEADLOCK FALSE
