CONSTANTS
  N = 4
  Concurrency = 2
SPECIFICATION FairSpec
PROPERTIES Returns ImplementsBatch
