SPECIFICATION FairSpec
CONSTANTS
  NChunks = 2
  MinWorkers = 2
  MaxWorkers = 3
  MaxCalls = 1
  MaxVersion = 1
PROPERTY CompleteDownloadReturns
CHECK_DEADLOCK FALSE
