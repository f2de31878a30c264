SPECIFICATION Spec
CONSTANTS
    w1 = w1
    w2 = w2
    c1 = c1
    Workers <- TwoWorkers
    Clients <- NoClient
    Priorities <- TwoPriorities
    MaxOps = 3
    MaxResults = 3
    MaxAfter = 2
    MaxPosts = 0
    MaxDepth = 1
    EarlyQuit = FALSE
SYMMETRY Symmetry
INVARIANTS TypeOK OneHome DependenciesHold
PROPERTIES StartsInOrder ImplementsLifecycle
CHECK_DEADLOCK FALSE
