CONSTANTS
    Batches = {1, 2, 3}
    Executions = {1, 2}
    ExecutionsOf <- MCExecutionsOf
    Limit = 1
    MaxAttempts = 2
    MaxFaults = 1
    MaxRebuilds = 1
SPECIFICATION Spec
INVARIANTS ReadyIsQueryable
PROPERTIES EvidenceNeverShrinks HandoffBeforeReady RetriesAreBounded
