\* Three tasks, two gated tools, one session and the shared agent.
SPECIFICATION Spec
CONSTANTS
    Id = {i1, i2, i3}
    Session = {s1}
    NoSession = none
    a = a
    b = b
    Tool <- MCTool
    NoTool = notool
    NoRecord = norecord
    Within <- MCWithin
SYMMETRY Symmetry
INVARIANTS RunsArePaid
CHECK_DEADLOCK FALSE
