CONSTANTS
    Calls = {call}
    Sent = {"text", "role", "finish", "text+finish", "text+bad", "usage", "[DONE]",
            "empty", "blank", "done", "text+done", "bad"}
    MaxEvents = 4
SPECIFICATION FairSpec
CHECK_DEADLOCK FALSE
INVARIANTS AnswersComplete
PROPERTIES SilentAfterReturn CallsEnd
