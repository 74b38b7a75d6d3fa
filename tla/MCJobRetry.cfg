CONSTANTS
    primary = primary
    fallback = fallback
    Requests = {j1, j2}
    MaxAttempts = 2
    Mapped = {j1}
    Streams = {}
    Abortable = {}
    Primary = primary
    Fallback = fallback
    Circuits = {primary, fallback}
    RequestTimeout <- Timeouts
    FailureThreshold = 1
    ResetTimeout = 3
    PastFailures <- NoFailure
    None = None
    Margin = 2
    Delay = 1
    Backoff = 1
    MaxBackoff = 1
    MaxCrashes = 1
    MaxTime = 8
SPECIFICATION JobSpec
CHECK_DEADLOCK FALSE
INVARIANTS LeaseOutlastsAttempt RetryOutlastsCooldown
