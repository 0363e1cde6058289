SPECIFICATION Spec
CONSTANTS
  HoldTicks = 2
  OffFrames = 2
  FlagMod = 4
  CntMod = 4
  Trigger = "up"
  Updates = {"up", "down"}
  FTC = TRUE
INVARIANTS
  TypeOK
  OffAlwaysPending
PROPERTIES
  OutputEnds
