CONSTANTS
  Workers = {w1}
  Boot = TRUE
  Creare = TRUE
  Polls = 1
  MaxRequests = 2
  rx = rx
  none = none
SPECIFICATION Spec
INVARIANT OwnSuccessStored
PROPERTIES
  PairsKept
  DetectionReturns
  RequestAnswered
CHECK_DEADLOCK FALSE
