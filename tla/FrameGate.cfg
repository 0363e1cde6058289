SPECIFICATION Spec
CONSTANTS
  Channels = {c0, c1}
  Queue = 2
  NoFrame = NoFrame
INVARIANTS
  TypeOK
  WholeFrame
  SecondIFrame
PROPERTIES
  MismatchEnds
  GateOpens
