\* main.go: one StartQueued, no other method afterwards.
SPECIFICATION FairSpec
CONSTANTS
  Jobs = {j1, j2, j3}
  MaxParallel = 2
  MaxCalls = 1
  LaterOps = {}
PROPERTIES
  RunsOnce
  EveryJobEnds
\* The jobs end and the front end exits.
CHECK_DEADLOCK FALSE
