CONSTANTS
    c1 = c1
    c2 = c2
    g1 = g1
    Consumer = {c1, c2}
    Group = {g1}
    group = g1
    MaxMember = 2
    Timeout = {2}
    PartitionCount = {2}
    MaxGeneration = 20
    MaxDeletes = 0
    HeartbeatEvery = 1
    MaxAttempts = 2
    MaxOffset = 1
    MaxStarts = 2
    MaxStalls = 0
    MaxRestarts = 1
SPECIFICATION RestartSpec
INVARIANT NoStaleCommitter
CHECK_DEADLOCK FALSE
