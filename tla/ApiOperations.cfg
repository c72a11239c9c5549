SPECIFICATION Spec
CONSTANTS
    any = any
    other = other
    Requests <- MCRequests
    Ops <- MCOps
    MaxRuns = 3
INVARIANTS AboutOneRun DroppedOnlyAfterGrace
PROPERTY ShutdownEnds
CHECK_DEADLOCK FALSE
