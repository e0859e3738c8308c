SPECIFICATION IngestFairSpec
CONSTANTS
    Groups <- MCGroups
    Topics <- MCTopics
    TopicOf <- MCTopicOf
    ProcessOf <- MCProcessOf
    Partitions = {0}
    Messages <- MCMessages
    Poison <- MCPoison
    MaxLog = 3
    MaxFailures = 2
    Ids <- MCIds
    Urls <- MCUrls
    Versions = {1, 2}
INVARIANTS OneArticlePerUrl AcceptedIsStored TableShowsLatest
PROPERTY StoredUnlessClash
CHECK_DEADLOCK FALSE
