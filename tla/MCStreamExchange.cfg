CONSTANTS
    MaxDeltas = 3
    MaxEvents = 3
    Sent = {"text", "finish", "[DONE]", "text+done", "bad"}
    Mapped = TRUE
SPECIFICATION ExchangeSpec
CHECK_DEADLOCK FALSE
INVARIANTS StreamWellFormed OutcomeTruthful DoneMeansWholeAnswer
PROPERTIES NothingBehindBlockedWrite ImplementsRoute NothingLeftBehind
