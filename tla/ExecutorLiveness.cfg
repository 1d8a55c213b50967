\* Two workers and the shared agent, which all tasks want; the event loop is fair.
SPECIFICATION FairSpec
CONSTANTS
    Worker = {w1, w2}
    Session = {}
    NoSession = none
    Lock = {1}
    NoLock = 0
    MaxPoolSize = 1
    BuildMayFail = FALSE
    Client = {c1, c2}
    NoWorker = noworker
    NoRecord = norecord
    MaxRetries = 1
    MaxHistory = 3
    ReuseIds = FALSE
    MaxSubmits = 3
    MaxReplay = 1
    MaxAsks = 1
    MaxCrashes = 0
PROPERTIES AcceptedTasksEnd CallersReturn MutexFairness
CHECK_DEADLOCK FALSE
