CONSTANTS
    Commands = {c1, c2}
    Pids = {p1, p2, p3, p4}
    NoPid = NoPid
    MaxBorn = 4
    MaxFaults = 2
SPECIFICATION Spec
SYMMETRY MCSymmetry
INVARIANTS NoOrphans
PROPERTIES EarlierProcessesSpared
