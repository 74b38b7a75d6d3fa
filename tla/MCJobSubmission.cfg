CONSTANTS
    Jobs = {j1, j2}
    Keys = {k1}
    Payloads = {p1, p2}
    MaxAttempts = 1
    None = None
    Workers = {w1}
    Copies = {c1}
    Slots = {s1}
    Gateways = {g1, g2}
    MaxFaults = 0
SPECIFICATION Spec
INVARIANTS ReceiptsFaithful
