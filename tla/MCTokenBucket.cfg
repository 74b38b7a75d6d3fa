CONSTANTS
    Capacity = 2
    Unit = 8
    PerTick = 3
    Second = 2
    Rounding = 1
    None = None
    MaxTime = 13
    MaxFaults = 2
    MaxErrors = 2
SPECIFICATION BucketSpec
CHECK_DEADLOCK FALSE
INVARIANTS RateBounded RetryAfterSound ExpiryUnnoticed
