CONSTANTS
    t1 = t1
    c1 = c1
    c2 = c2
    Name = {t1}
    Client = {c1, c2}
    MaxPartitions = 1
    MaxLives = 2
    MaxCrashes = 0
    MaxFaults = 0
SPECIFICATION Spec
SYMMETRY ClientSymmetry
CHECK_DEADLOCK FALSE
INVARIANT CreatedServed
