SPECIFICATION Spec
CONSTANTS
    ChunkBits = 8
    MaxExpanded = 6
    MaxExponentDigits = 1
    Int64Max = 63
    Error = Error
    Pieces <- SomePieces
    Most <- SomeMost
INVARIANTS WritesBack ScalarsFollowToml Utf8IsExact LinesStandAlone
CHECK_DEADLOCK FALSE
