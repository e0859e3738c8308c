\* One partition per topic, as the repository creates them.
SPECIFICATION FairSpec
CONSTANTS
    Groups <- MCGroups
    Topics <- MCTopics
    TopicOf <- MCTopicOf
    ProcessOf <- MCProcessOf
    Partitions = {0}
    Messages <- MCMessages
    Poison <- MCPoison
    MaxLog = 2
    MaxFailures = 2
INVARIANTS TypeOK CommitsOnlyHandled NothingPassedOver
PROPERTIES ImplementsContract EventuallyHandled
CHECK_DEADLOCK FALSE
