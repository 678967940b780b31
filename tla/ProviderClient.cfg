SPECIFICATION FairSpec
CONSTANTS
    Backoffs <- MCBackoffs
    RetryAfters <- MCRetryAfters
    MetaTimeout = 2
    MetaSlack = 1
    Requests <- MCRequests
CHECK_DEADLOCK FALSE
INVARIANTS
    TypeOK
    RetriesRested
    RestFitsDeadline
PROPERTIES
    LookUpKeepsAnswer
    FinishedContextReturns
    ImplementsLoopRequest
