SPECIFICATION UserFairSpec
CONSTANTS
    Groups <- MCGroups
    Topics <- MCTopics
    TopicOf <- MCTopicOf
    ProcessOf <- MCProcessOf
    Partitions = {0}
    Messages <- MCMessages
    Poison <- MCPoison
    MaxLog = 2
    MaxFailures = 2
    Users = {"reader"}
    Articles = {"habr:1"}
    ReactionTypes = {"like", "save"}
    Times = {1, 2}
    Emails = {"mail"}
    Interests = {"go"}
PROPERTY InterestsKept
CHECK_DEADLOCK FALSE
