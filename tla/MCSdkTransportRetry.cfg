CONSTANTS
    r1 = r1
    r2 = r2
    r3 = r3
    Records <- MCTwoRecords
    QueueSize = 1
    Workers = 1
    MaxAttempts = 3
SPECIFICATION Spec
INVARIANTS SentIsStored
PROPERTIES EverySubmissionSettles
