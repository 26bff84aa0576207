\* Four initial directories on each side, batches of one or two records.
CONSTANTS
    a = a
    b = b
    Value = {a, b}
    InitialLogs <- MCInitialLogs
    MaxOffset = 4
    MaxBatch = 2
SPECIFICATION FairSpec
INVARIANTS
    FollowerCopies
    AllReplicated
PROPERTY CallsReturn
