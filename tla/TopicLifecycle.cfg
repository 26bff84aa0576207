CONSTANTS
    t1 = t1
    c1 = c1
    c2 = c2
    Name = {t1}
    Client = {c1, c2}
    MaxPartitions = 2
    MaxLives = 2
    MaxCrashes = 1
    MaxFaults = 1
SPECIFICATION Spec
INVARIANTS
    CreatedStays
    DeletedGone
    NoMemberOfDeleted
SYMMETRY ClientSymmetry
CHECK_DEADLOCK FALSE
