CONSTANTS
    short = short
    long = long
    Value = {short, long}
    RecordBytes <- MCRecordBytes
    BatchBytes = {1, 3}
    FetchBytes = {0, 2}
    MaxSegmentBytes = 2
    SegmentMaxAge = 2
    RetentionMaxAge = 2
    RetentionMaxBytes = 3
    MaxOffset = 3
    MaxBatch = 2
    MaxTime = 2
SPECIFICATION Spec
INVARIANTS
    TrimsPrefix
    RetentionDone
    IInv
