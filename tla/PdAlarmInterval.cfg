SPECIFICATION Spec
CONSTANTS
  Top = 2
  Channels = {c1}
  Jobs = {j1}
  Intervals = {0, 1}
  MaxPending = 1
  Overwritten = Overwritten
PROPERTIES
  PostedAgain
