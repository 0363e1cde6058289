SPECIFICATION Spec
CONSTANTS
  BufNum = 3
  MaxFrames = 8
INVARIANTS
  TypeOK
  AnnouncedIntact
  CopyOfOneFrame
CHECK_DEADLOCK FALSE
