SPECIFICATION Spec
CONSTANTS
    main = main
    a = a
    b = b
    id1 = id1
    id2 = id2
    NoId = NoId
    Os <- ThreeThreads
    Main = main
    NativeIds <- TwoIds
    MainId = id1
    MaxRecords = 3
    MaxCalls = 2
INVARIANTS IsCurrentNamesCaller
CHECK_DEADLOCK FALSE
