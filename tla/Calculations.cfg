SPECIFICATION Spec
CONSTANTS
    Calls <- MCCalls
    Reports <- MCReports
    Histories <- MCHistories
    Projects <- MCProjects
    Failures <- MCFailures
    Builds <- MCBuilds
    Resets <- MCResets
    Requests <- MCRequests
    Runs <- MCRuns
    Secrets <- MCSecrets
    Judge <- MCJudge
INVARIANTS
    BillsByTheRequest
    ReportsEachChargeOnce
    WaterfallDrawsWhatHappened
    TestsTellOfTheirCases
    FailuresAreTold
    CallsWhatItImports
    ResetsKeepTheStep
    
    CommandsEndAsTheyDid
    SecretsAreKept
CHECK_DEADLOCK FALSE
