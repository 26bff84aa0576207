CONSTANTS
    g1 = g1
    g2 = g2
    t1 = t1
    t2 = t2
    Group = {g1, g2}
    Topic = {t1, t2}
    Partition = {0}
    MaxOffset = 1
    MaxLines = 2
    MaxHurt = 1
SPECIFICATION Spec
INVARIANTS
    MemoryOnDisk
PROPERTIES
    HealthyResumes
SYMMETRY GroupSymmetry
