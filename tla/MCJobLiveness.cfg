CONSTANTS
    Jobs = {j1}
    Keys = {k1}
    Payloads = {p1}
    MaxAttempts = 2
    None = None
    Workers = {w1}
    Copies = {c1, c2, c3}
    Slots = {s1}
    Gateways = {g1}
    MaxFaults = 1
SPECIFICATION FairSpec
PROPERTIES JobsEnd DrainEnds
