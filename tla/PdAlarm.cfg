SPECIFICATION Spec
CONSTANTS
  Top = 2
  Channels = {c1, c2}
  Jobs = {j1, j2}
  Intervals = {0, 1}
  MaxPending = 1
  Overwritten = Overwritten
INVARIANTS
  TypeOK
  PlayerFreed
  
PROPERTIES
  DroppedForReason
SYMMETRY Symmetry
