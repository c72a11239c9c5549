\* The run in the path; five events in pages of two; three faults anywhere.
SPECIFICATION StreamFairSpec
CONSTANTS
  Pinned = TRUE
  MaximumPageSize = 2
  MaxEvents = 5
  MaxChain = 2
  MaxFaults = 3
INVARIANTS TellsTheRun
PROPERTIES ComesToRest
CHECK_DEADLOCK FALSE
