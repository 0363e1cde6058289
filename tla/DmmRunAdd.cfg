CONSTANTS
  Workers = {w1}
  Boot = FALSE
  Creare = FALSE
  Polls = 2
  MaxRequests = 1
  rx = rx
  none = none
SPECIFICATION Spec
INVARIANT AddedMeansStored
CHECK_DEADLOCK FALSE
