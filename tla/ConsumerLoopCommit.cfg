\* No process ever stops: two messages are enough to see what a commit stores.
SPECIFICATION Spec
CONSTANTS
    Groups <- MCGroups
    Topics <- MCTopics
    TopicOf <- MCTopicOf
    ProcessOf <- MCProcessOf
    Partitions = {0}
    Messages <- MCMessages
    Poison <- MCPoison
    MaxLog = 2
    MaxFailures = 0
INVARIANT HandledIsCommitted
CHECK_DEADLOCK FALSE
