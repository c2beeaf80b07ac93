CONSTANTS
    Batches = {1, 2, 3, 4}
    Executions = {1, 2, 3}
    Nodes = {1, 2, 3}
    Names = {1, 2, 3, 4, 5}
    Limits = {512000, 272000, 256000, 200000, 128000}
    Tiers = {"standard", "flex", "other"}
    Observations <- MCObservations
    SpanLists <- MCSpanLists
    BuiltIn <- MCBuiltIn
    Forms <- MCForms
    Files <- MCFiles
    Tables <- MCTables
    Usages <- MCUsages
    Histories <- MCHistories
SPECIFICATION Spec
INVARIANTS ReturnsTheWindow AcceptedDefinitionsCompile NearestStepOwnsModel WallSecondsAreTheUnion ResolvedNameIsPriced EveryTokenPricedOnce RepetitionsAreFound
CHECK_DEADLOCK FALSE
