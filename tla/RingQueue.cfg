SPECIFICATION Spec
CONSTANTS
  Readers = {0, 1}
  Timed = {0}
  count = 2
  MaxWrites = 5
  MaxWakes = 2
INVARIANTS
  TypeOK
  PositionInQueue
  NoLostWakeup
PROPERTIES
  TimedReadReturns
  ImplementsLossyFifo
