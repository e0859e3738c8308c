SPECIFICATION GatewaySpec
CONSTANTS
    Users = {ann, bob}
    Articles <- MCArticles
    StoredFirst <- MCStoredFirst
    SourceOf <- MCSourceOf
    Versions <- MCVersions
    FirstVersion <- MCFirstVersion
    Scored = {"a", "b"}
    ScoreOf <- MCScoreOf
    DateOf <- MCDateOf
    Types = {"dislike", "like"}
    Limit = 1
    TTL = 1
    MaxTime = 2
    MaxRequests = 3
    MaxStores = 1
    MaxReacted = 1
    MaxFailures = 0
SYMMETRY Symmetry
INVARIANT SessionUserDecides
CHECK_DEADLOCK FALSE
