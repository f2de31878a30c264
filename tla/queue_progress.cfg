SPECIFICATION FairSpec
CONSTANTS
    w1 = w1
    w2 = w2
    c1 = c1
    Workers <- TwoWorkers
    Clients <- OneClient
    Priorities <- OnePriority
    MaxOps = 2
    MaxResults = 1
    MaxAfter = 1
    MaxPosts = 1
    MaxDepth = 1
    EarlyQuit = FALSE
PROPERTIES EveryTaskFinishes WorkersEnd WaitersAnswered
CHECK_DEADLOCK FALSE
