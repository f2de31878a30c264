SPECIFICATION Spec
CONSTANTS
    w1 = w1
    w2 = w2
    c1 = c1
    Workers <- TwoWorkers
    Clients <- OneClient
    Priorities <- OnePriority
    MaxOps = 2
    MaxResults = 2
    MaxAfter = 1
    MaxPosts = 1
    MaxDepth = 2
    EarlyQuit = TRUE
SYMMETRY Symmetry
INVARIANTS NoTaskLeftBehind AnswersHold
CHECK_DEADLOCK FALSE
