SPECIFICATION Spec
CONSTANTS
    Steps = {"step"}
    Waits = {"w1", "w2"}
    Programs <- MCPrograms
    MaxAttempts <- MCMaxAttempts
    MaxFeedback = 2
    MaxFaults = 1
INVARIANTS AttemptsApart TraceTellsOutcome ResumesWithItsFeedback FileIsCurrent
PROPERTY ActivitiesSettle
CHECK_DEADLOCK FALSE
