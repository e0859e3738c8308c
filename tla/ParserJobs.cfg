SPECIFICATION JobsFairSpec
CONSTANTS
    RequestIds = {1}
    ScheduledIds = {2, 3}
    SourceOrder <- MCSourceOrder
    ConfiguredSources = {"habr", "vc"}
    Toggled = {"habr"}
    Finds <- MCFinds
    Relevance <- MCRelevance
    Queries <- MCQueries
    Scheduled <- MCScheduled
    MaxOverlap = 0
    MaxFailures = 1
INVARIANT FailureIsolated
PROPERTIES ImplementsJobContract JobEnds ScheduledIsSearched
CHECK_DEADLOCK FALSE
