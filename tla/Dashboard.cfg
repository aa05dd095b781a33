\* The channel is full after one job and has room for one row.
SPECIFICATION DrainSpec
CONSTANTS
  Jobs = {j1, j2}
  MaxParallel = 1
  Cap = 2
  MaxRows = 1
INVARIANTS
  TypeOK
  ScreenCatchesUp
  OutcomeIsTrue
  RowsHaveURL
  ExitCodeIsRight
PROPERTY ProgramEnds
\* The program exits.
CHECK_DEADLOCK FALSE
