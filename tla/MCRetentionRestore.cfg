CONSTANTS
    Batches = {1, 2, 3, 4}
    Old = {1, 2}
    Executions = {1, 2}
    ExecutionsOf <- MCExecutionsOf
    MaxFaults = 1
SPECIFICATION Spec
INVARIANTS FailedPruneRestores
