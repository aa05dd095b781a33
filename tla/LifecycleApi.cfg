\* Every exported method, two overlapping errgroups, interrupts.
SPECIFICATION DrainSpec
CONSTANTS
  Jobs = {j1, j2}
  MaxParallel = 1
  MaxCalls = 2
  LaterOps <- AllOps
INVARIANTS
  TypeOK
  OneRunnerPerJob
  CancelReachesRunner
  NoOrphanDownload
  QuietWhenDone
PROPERTY InterruptDrains
\* Everything may be finished and no call left.
CHECK_DEADLOCK FALSE
