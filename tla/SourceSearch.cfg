SPECIFICATION SearchFairSpec
CONSTANTS
    SourceOrder <- MCSourceOrder
    Kind <- MCKind
    EnabledSources = {"habr", "vc", "dzen", "vc_rss"}
    Providers = {"discovery", "web", "none"}
    Queries <- MCQueries
    Urls <- MCUrls
    Titles <- MCTitles
    Page <- MCPage
    Feeds <- MCFeeds
    DiscoveryPages <- MCDiscoveryPages
    WebAnswers <- MCWebAnswers
    MaxLinks = 3
    DzenPages <- MCDzenPages
    ArticlePaths = {"a/1", "a/2", "a/3", "a/4"}
    LongTitles = {"a long common title"}
    OldDate = 1
    MaxAttempts = 3
    MaxSearchPages = 2
    TargetSlack = 2
    MaxWorkers = 3
INVARIANTS SearchTypeOK RequestsBounded PoolIsSequential StatsAddUp NoTwoAlike SourcesTakeTurns
PROPERTIES SearchEnds
CHECK_DEADLOCK FALSE
