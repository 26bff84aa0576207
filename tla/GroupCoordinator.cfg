CONSTANTS
    g1 = g1
    g2 = g2
    Group = {g1, g2}
    MaxMember = 3
    Timeout = {2}
    PartitionCount = {1, 4}
    MaxGeneration = 3
    MaxDeletes = 1
SYMMETRY GroupSymmetry
SPECIFICATION CoordSpec
INVARIANTS
    OwnersDisjoint
    PartitionsCovered
    CoordIInv
PROPERTIES
    GenerationFences
