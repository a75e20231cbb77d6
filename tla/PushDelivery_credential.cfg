SPECIFICATION Spec
CONSTANTS
  Delivery = {d1, d2}
  Installation = {i1}
  LeaseSeconds = 3
  RetentionSeconds = 9
  Timeout = 2
  MaxTries = 2
  RetryDelay = 4
  QueueDelay = 1
  ArrivalHorizon = 3
  Skew = 0
  OccurredAt = 0
  TimestampSource = "device"
  PushMaxAge = 5
  FutureTolerance = 1
  LostResponses = FALSE
SYMMETRY MCSymmetry
PROPERTIES
  FirebaseFailureReleasesLease
CHECK_DEADLOCK FALSE
