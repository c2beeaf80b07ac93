SPECIFICATION MCSpec
CONSTANTS
    x1 = x1
    x2 = x2
    a0 = a0
    a1 = a1
    b1 = b1
    None = None
    Executions <- MCExecutions
    Templates <- MCTemplates
    WorkflowOf <- MCWorkflowOf
    Named <- MCNamed
    Readable = {a1, b1}
    Sends <- MCSends
    MaxArrivals <- MCMaxArrivals
    MaxDisturbances = 2
    Keys = {k1, k2}
    Threads = {t1, t2}
    Slots = {s1, s2}
    FreshSeconds = 0
    StaleSeconds = 1
    MaxEntries = 1
    Nothing = Nothing
    MaxVersion = 2
    MaxTime = 2
INVARIANTS FactsFollowRows ReadyIsProjected LinksLead OneRefreshPerKey
PROPERTIES AnswersNeverGoBack
CHECK_DEADLOCK FALSE
