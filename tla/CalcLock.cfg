CONSTANTS
  Algs = {dmm, adas, apc}
  Pd = {pd}
  Leaky = {dmm}
  Quitters = {apc}
SPECIFICATION Spec
INVARIANTS
  TypeOK
  PictureKept
PROPERTIES
  LockReleased
  MediaReleased
