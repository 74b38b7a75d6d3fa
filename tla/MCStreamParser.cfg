CONSTANTS MaxFrame = 2 MaxBody = 6 MaxChunk = 3
SPECIFICATION Spec
CHECK_DEADLOCK FALSE
INVARIANTS ChunkingInvisible
