SPECIFICATION DrainSpec
CONSTANTS
  NBlocks = 3
  MaxCalls = 3
  MaxVersion = 2
INVARIANTS
  TypeOK
  PartIsPrefix
  SuccessIsWhole
  RefusedIsComplete
PROPERTY
  SilenceEnds
  ImplementsDownload
\* The calls are used up.
CHECK_DEADLOCK FALSE
