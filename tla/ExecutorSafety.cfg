\* Two workers, three tasks of one session and of none, approvals and replays.
SPECIFICATION Spec
CONSTANTS
    Worker = {w1, w2}
    Session = {s1}
    NoSession = none
    Lock = {1, 2, 3, 4}
    NoLock = 0
    MaxPoolSize = 1
    BuildMayFail = FALSE
    Client = {c1, c2, c3}
    NoWorker = noworker
    NoRecord = norecord
    MaxRetries = 0
    MaxHistory = 2
    ReuseIds = FALSE
    MaxSubmits = 3
    MaxReplay = 1
    MaxAsks = 1
    MaxCrashes = 0
SYMMETRY Symmetry
INVARIANTS TypeOK LiveTasksTracked AnswersReachTheirTask CallersAreOwed ResultsAreKept
    RecordsAreUnanswered
PROPERTIES MutexSafety ImplementsLifecycle
CHECK_DEADLOCK FALSE
