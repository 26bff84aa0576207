CONSTANTS
    c1 = c1
    c2 = c2
    g1 = g1
    Consumer = {c1, c2}
    Group = {g1}
    group = g1
    MaxMember = 2
    Timeout = {2}
    PartitionCount = {1}
    MaxGeneration = 20
    MaxDeletes = 0
    HeartbeatEvery = 1
    MaxAttempts = 2
    MaxOffset = 2
    MaxStarts = 2
    MaxStalls = 1
    MaxRestarts = 0
SPECIFICATION Spec
INVARIANTS
    OneCommitter
    ViewsExact
    NothingSkipped
PROPERTIES
    CommitsAdvance
    TakeOver
CHECK_DEADLOCK FALSE
