SPECIFICATION Spec
CONSTANTS
  Limit = 2
  LoadRounds = 2
  ReadRounds = 8
  Middle = 1
  Pictures = 2
  MaxFaults = 2
INVARIANTS
  TypeOK
  NoTimeoutIndex
  RestartPending
PROPERTIES
  ConfiguredModelRuns
  ComesUp
  HangEnds
