\* The parts beside executor and channels, one at a time.  Memory: 3 calls of
\* 2 agents; tools: 2 calls; forks: 2 commands; references: 3 agents.
SPECIFICATION HomeSpec
CONSTANTS
    MaxCalls = 3
    Provider = {p1, p2}
    ToolCall = {t1, t2}
    MaxVersion = 4
    Fork = {f1, f2}
    ForkPoints = {1, 2, 3}
    MaxMessages = 3
    Channels <- TwoChannels
    Agent = {researcher, architect, sre}
    MaxText = 7
    MaxLens = {1, 2, 3}
    MaxRecords = 5
INVARIANTS HomeTypeOK AcknowledgedStays DeletesAreReal SuccessIsApplied NothingTwice
    BranchesAreClean OneForkCopies StopsComeLast OutcomesAreTrue DepthIsBounded
    ChunksAreTheText TornWritesCostTwo
PROPERTY ServiceEnds
CHECK_DEADLOCK FALSE
