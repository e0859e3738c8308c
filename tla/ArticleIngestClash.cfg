\* Two sources publish one URL under two ids, and a third source has other news.
SPECIFICATION IngestFairSpec
CONSTANTS
    Groups <- MCGroups
    Topics <- MCTopics
    TopicOf <- MCTopicOf
    ProcessOf <- MCProcessOf
    Partitions = {0}
    Messages <- MCMessages
    Poison <- MCPoison
    MaxLog = 3
    MaxFailures = 0
    Ids = {"vc:1", "vc_rss:1", "habr:1"}
    Urls <- MCUrls
    Versions = {1}
PROPERTY PublishedIsStored
CHECK_DEADLOCK FALSE
