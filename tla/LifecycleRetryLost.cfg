\* A RetryFailed that overtakes the clean-up of the failed run.
SPECIFICATION FairSpec
CONSTANTS
  Jobs = {j1}
  MaxParallel = 1
  MaxCalls = 2
  LaterOps <- OnlyRetry
PROPERTY QueuedJobsBegin
CHECK_DEADLOCK FALSE
