\* One session fits in the pool, two are in use.
SPECIFICATION PoolSpec
CONSTANTS
    Worker = {w1, w2, w3}
    Session = {s1, s2}
    NoSession = none
    Lock = {1, 2, 3, 4, 5, 6}
    NoLock = 0
    MaxPoolSize = 1
    BuildMayFail = FALSE
SYMMETRY Symmetry
INVARIANTS SessionsSerial
