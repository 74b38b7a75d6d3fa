CONSTANTS
    Callers = {c1, c2, c3, c4, c5}
    MaxConcurrent = 2
    MaxQueueSize = 2
SPECIFICATION FairSpec
CHECK_DEADLOCK FALSE
INVARIANTS LimiterSound
PROPERTIES FirstComeFirstServed WaitersServed
