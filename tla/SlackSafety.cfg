\* One message that arrives twice, in one thread: two tasks, two gated tools.
SPECIFICATION FairSpec
CONSTANTS
    User = {"ann", "bob"}
    Gated = {"deploy", "shell"}
    Groups <- MCGroups
    Rules <- MCRules
    Thread = {"t1"}
    FileName = {"report"}
    Nowhere = nowhere
    RelativePaths = FALSE
    Delivery <- OneThread
    RequireMention = FALSE
    Chunks = 2
    NoAnswer = noanswer
    MaxStops = 2
    AskAlone = TRUE
INVARIANTS TypeOK RepliesAreWhole ResolutionsAreTrue ContextsAreLive
PROPERTIES RepliesStay ApproversDecide MessagesAreAnswered
CHECK_DEADLOCK FALSE
