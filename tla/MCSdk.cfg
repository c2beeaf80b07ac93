CONSTANTS
    Clients = {c1, c2}
    Tasks = {t1, t2}
    Endpoints = {e1, e2}
    Keys = {}
    Given = {g1}
    None = None
    MaxExecutions = 1
    MaxNesting = 2
    Workloads = {w1, w2}
    MaxAttempts = 3
    OrderedLogs = TRUE
SPECIFICATION MCSpec
SYMMETRY MCSymmetry
INVARIANTS EndpointOfInnermost CompletedAsStarted DefinedFirst CallbackWhileHeld FlushCoversTheWorkload OneSpanPerAttempt
CHECK_DEADLOCK FALSE
