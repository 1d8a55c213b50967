\* Three sessions, two of which fit: evictions happen, and agents may fail to
\* build.
SPECIFICATION PoolSpec
CONSTANTS
    Worker = {w1, w2, w3}
    Session = {s1, s2, s3}
    NoSession = none
    Lock = {1, 2, 3, 4, 5, 6, 7}
    NoLock = 0
    MaxPoolSize = 2
    BuildMayFail = TRUE
SYMMETRY Symmetry
INVARIANTS SharedAgentSerial CacheBounded
CHECK_DEADLOCK FALSE
