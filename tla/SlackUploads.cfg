\* A message in each of two threads, files named relative to the workspace.
SPECIFICATION Spec
CONSTANTS
    User = {"ann"}
    Gated = {}
    Groups <- MCGroups
    Rules <- NoRules
    Thread = {"t1", "t2"}
    FileName = {"report"}
    Nowhere = nowhere
    RelativePaths = TRUE
    Delivery <- TwoThreads
    RequireMention = FALSE
    Chunks = 1
    NoAnswer = noanswer
    MaxStops = 0
    AskAlone = TRUE
INVARIANT UploadsReachTheirThread
CHECK_DEADLOCK FALSE
