SPECIFICATION WebSpec
CONSTANTS
    Articles <- MCArticles
    Jobs <- MCJobs
    Finished = "old"
    PageSize = 1
    MaxClicks = 3
INVARIANTS NoDuplicateCards OnePollTimer
PROPERTY FinishedJobIsShown
CHECK_DEADLOCK FALSE
