CONSTANTS
    r1 = r1
    r2 = r2
    r3 = r3
    Requests = {r1, r2, r3}
    Owner <- TwoOwners
    Body <- OneBody
    Choices = {{r1, r2, r3}, {r1, r2}}
    MaxConcurrent = 1
    MaxQueueSize = 1
    None = None
SPECIFICATION FairSpec
CHECK_DEADLOCK FALSE
INVARIANTS PermitsCoverCalls AnswersInScope
PROPERTIES CancelledComesToNothing UsesLimiter RequestsEnd
