CONSTANTS
    short = short
    long = long
    Value = {short, long}
    RecordBytes <- MCRecordBytes
    BatchBytes = {1, 3}
    FetchBytes = {0, 2}
    MaxSegmentBytes = 2
    SegmentMaxAge = 0
    RetentionMaxAge = 0
    RetentionMaxBytes = 2
    MaxOffset = 4
    MaxBatch = 2
    MaxTime = 0
SPECIFICATION Spec
INVARIANTS
    IndexDense
    IndexReadable
    AckedSurvives
    HighWatermarkKept
    FetchServed
PROPERTIES
    ImplementsCommitLog
