CONSTANTS
    Jobs = {j1}
    Keys = {k1}
    Payloads = {p1}
    MaxAttempts = 2
    None = None
    Workers = {w1, w2}
    Copies = {c1, c2}
    Slots = {s1}
    Gateways = {g1}
    MaxFaults = 2
SPECIFICATION Spec
SYMMETRY Symmetric
PROPERTY ImplementsContract
INVARIANTS NoLostJob AttemptExecutedOnce ResultOfLastAttempt
    HandoverRunsOneConsumer DeadLettersFailed
