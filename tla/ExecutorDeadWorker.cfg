\* build_agent may raise.
SPECIFICATION FairSpec
CONSTANTS
    Worker = {w1}
    Session = {s1}
    NoSession = none
    Lock = {1, 2, 3}
    NoLock = 0
    MaxPoolSize = 1
    BuildMayFail = TRUE
    Client = {c1, c2, c3, c4}
    NoWorker = noworker
    NoRecord = norecord
    MaxRetries = 0
    MaxHistory = 4
    ReuseIds = FALSE
    MaxSubmits = 1
    MaxReplay = 1
    MaxAsks = 0
    MaxCrashes = 0
PROPERTIES AcceptedTasksEnd
CHECK_DEADLOCK FALSE
