\* A failed run leaves a .part file behind, a retry goes on with it.
SPECIFICATION Spec
CONSTANTS
  j1 = j1
  j2 = j2
  i1 = i1
  i2 = i2
  Jobs = {j1, j2}
  Items = {i1, i2}
  Wanted <- Shared
  MaxRuns = 2
  MaxSig = 2
INVARIANTS
  TypeOK
  OwnFilesClaimed
  OthersOnlyIfConcurrent
\* The runs are used up.
CHECK_DEADLOCK FALSE
