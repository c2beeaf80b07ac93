CONSTANTS
    Batches = {1, 2, 3, 4}
    Old = {1, 2}
    Executions = {1, 2}
    ExecutionsOf <- MCExecutionsOf
    MaxFaults = 2
SPECIFICATION Spec
INVARIANTS PrunedIsGone RetainedIsServed
PROPERTIES RetainedIsUntouched PruneEnds
