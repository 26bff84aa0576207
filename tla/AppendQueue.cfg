CONSTANTS
    w1 = w1
    w2 = w2
    Worker = {w1, w2}
    Partitions = 2
    QueueDepth = 2
    BatchRecords = 2
    MaxJobs = 3
SPECIFICATION Spec
INVARIANTS
    OneAppender
    OrderKept
    StopDrains
PROPERTIES
    NoWriteAfterRemoval
    JobsAnswered
CHECK_DEADLOCK FALSE
