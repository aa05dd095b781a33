SPECIFICATION DrainSpec
CONSTANTS
  NChunks = 3
  MinWorkers = 1
  MaxWorkers = 3
  MaxCalls = 3
  MaxVersion = 2
INVARIANTS
  TypeOK
  ResumeSound
  NoDoubleFetch
  CanceledOnlyByCaller
PROPERTIES
  CancelReturns
  ImplementsDownload
\* The calls are used up.
CHECK_DEADLOCK FALSE
