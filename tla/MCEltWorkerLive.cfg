CONSTANTS
    Batches = {1, 2}
    Executions = {1, 2}
    ExecutionsOf <- MCPairExecutionsOf
    Limit = 1
    MaxAttempts = 2
    MaxFaults = 2
    MaxRebuilds = 1
SPECIFICATION Spec
PROPERTIES EveryBatchSettles
