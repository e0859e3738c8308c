SPECIFICATION UserFairSpec
CONSTANTS
    Groups <- MCGroups
    Topics <- MCTopics
    TopicOf <- MCTopicOf
    ProcessOf <- MCProcessOf
    Partitions = {0}
    Messages <- MCMessages
    Poison <- MCPoison
    MaxLog = 3
    MaxFailures = 2
    Users = {"reader"}
    Articles = {"habr:1"}
    ReactionTypes = {"like", "save"}
    Times = {1, 2}
    Emails = {"mail"}
    Interests = {"go"}
INVARIANTS ReactionHasProfile AcceptedIsRecorded TimesShowLatest
PROPERTIES UserImplementsLoop ProfilesKept
CHECK_DEADLOCK FALSE
