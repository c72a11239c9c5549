SPECIFICATION Spec
CONSTANT MaxSteps = 3
INVARIANTS BilledInFull ClosesItsTrace
PROPERTIES FailureEnds
CHECK_DEADLOCK FALSE
