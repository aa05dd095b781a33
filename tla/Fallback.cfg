\* Three slots are the smallest limit that leaves one for a worker, three chunks more
\* than the channel holds. Two calls: one path, then the same or the other.
SPECIFICATION FFairSpec
CONSTANTS
  NChunks = 3
  MinWorkers = 1
  MaxWorkers = 3
  MaxCalls = 2
  MaxVersion = 2
INVARIANTS
  FTypeOK
  MixedSuccessIsRight
  MixedResumeSound
PROPERTIES
  ImplementsMixed
  FetchesEverything
  SingleEnds
\* The calls are used up.
CHECK_DEADLOCK FALSE
