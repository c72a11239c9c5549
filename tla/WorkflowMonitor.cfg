\* One step per run, pages of two events, chains of two runs, three failures in a row.
SPECIFICATION MonitorFairSpec
CONSTANTS
  Spans = {s1}
  PageSize = 2
  MaxConsecutiveErrors = 3
  MaxRuns = 2
INVARIANTS TellsTheHistory
PROPERTIES LeavesInTime EndsWithTheWorkflow
CHECK_DEADLOCK FALSE
