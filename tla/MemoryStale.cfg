\* Two agents share the memories; three calls.
SPECIFICATION MemorySpec
CONSTANTS
    MaxCalls = 3
    Provider = {p1, p2}
PROPERTY MemoriesAreFound
CHECK_DEADLOCK FALSE
