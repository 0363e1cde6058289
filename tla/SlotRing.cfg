SPECIFICATION Spec
CONSTANTS
  Slots = 3
  MayReject = TRUE
  MaxFrames = 9
INVARIANTS
  TypeOK
  OneFrame
PROPERTY FramesInOrder
CHECK_DEADLOCK FALSE
