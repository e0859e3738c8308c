SPECIFICATION RankingFairSpec
CONSTANTS
    Groups <- MCGroups
    Topics <- MCTopics
    TopicOf <- MCTopicOf
    ProcessOf <- MCProcessOf
    Partitions = {0}
    Messages <- MCMessages
    Poison <- MCPoison
    MaxLog = 4
    MaxFailures = 1
    Articles <- MCArticles
    Sources <- MCSources
    SourceOf <- MCSourceOf
    Tags = {"go"}
    Boosted <- MCBoosted
    Freshness = {0}
    ReactionTypes <- MCReactionTypes
    MaxDiscovered = 2
    MaxReactions = 1
INVARIANTS RankingTypeOK AcceptedIsScored FeedShowsLatest CountsOncePerPass ShownReactionsCount
PROPERTIES ImplementsLoops DiscoveredIsShown
CHECK_DEADLOCK FALSE
