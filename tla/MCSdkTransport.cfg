CONSTANTS
    r1 = r1
    r2 = r2
    r3 = r3
    Records <- MCRecords
    QueueSize = 2
    Workers = 2
    MaxAttempts = 1
SPECIFICATION Spec
SYMMETRY MCSymmetry
INVARIANTS CapacityIsExact CountsAddUp FlushCoversEarlierRecords
