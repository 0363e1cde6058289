SPECIFICATION Spec
CONSTANTS
  Names = {n1, n2, n3}
  Adders = {a1, a2}
  rx = rx
  Max = 2
  Radix = 1
  OldNumbers = {1}
  none = none
INVARIANT TypeOK
PROPERTIES
  FreeNumber
  Durable
SYMMETRY Symmetry
