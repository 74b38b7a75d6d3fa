CONSTANTS
    Requests = {r1, r2, r3}
    Mapped = {r1}
    Streams = {r1}
    Abortable = {r1, r2}
    Primary = primary
    Fallback = fallback
    Circuits = {primary, fallback}
    FailureThreshold = 2
    ResetTimeout = 1
    PastFailures <- OneFailure
    MaxTime = 1
SPECIFICATION FairSpec
CHECK_DEADLOCK FALSE
INVARIANTS SingleProbe OneModelPerAnswer
PROPERTIES OpenUntilCooldown AbandonedCallsDoNotCount ProbeEnds
