\* Three positions: a job can be removed before, between and after others. Two
\* fields: a patch may set one, both or none.
SPECIFICATION Spec
CONSTANTS
  Ids = {a, b, c}
  Fields = {"State", "Attempts"}
  Values = {v, w}
  Filters <- ByState
  None = None
  MaxClock = 1
SYMMETRY IdSymmetry
INVARIANTS
  TypeOK
  IndexSound
PROPERTIES
  OrderKept
  Implements
