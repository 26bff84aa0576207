CONSTANTS
    s1 = s1
    s2 = s2
    s3 = s3
    Session = {s1, s2, s3}
    Partition = {1}
    MaxWaiters = 2
    MaxRecords = 1
    Id = {1, 2, 3}
SPECIFICATION Spec
INVARIANTS
    WaitersCounted
    MissesOnlyLate
PROPERTIES
    AnsweredOnce
    FetchesAnswered
CHECK_DEADLOCK FALSE
