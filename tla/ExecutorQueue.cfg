\* One worker, so that three tasks overflow the queue of two; ids are reused and
\* the process restarts once.
SPECIFICATION Spec
CONSTANTS
    Worker = {w1}
    Session = {}
    NoSession = none
    Lock = {1}
    NoLock = 0
    MaxPoolSize = 1
    BuildMayFail = FALSE
    Client = {c1, c2}
    NoWorker = noworker
    NoRecord = norecord
    MaxRetries = 1
    MaxHistory = 1
    ReuseIds = TRUE
    MaxSubmits = 3
    MaxReplay = 1
    MaxAsks = 1
    MaxCrashes = 1
SYMMETRY Symmetry
INVARIANTS LiveTasksTracked AnswersReachTheirTask CallersAreOwed RecordsAreUnanswered
PROPERTIES TerminalIsFinal
CHECK_DEADLOCK FALSE
