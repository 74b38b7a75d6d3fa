CONSTANTS
    Requests = {r1, r2}
    Scrapers = {s1, s2}
    NaN = NaN
SPECIFICATION FairSpec
CHECK_DEADLOCK FALSE
INVARIANTS ShutdownSparesClients MetricsTruthful
PROPERTIES ShutdownEnds
