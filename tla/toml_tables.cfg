SPECIFICATION Spec
CONSTANTS
    KeyBefore <- Alphabetic
    Statements <- SomeStatements
    MaxLines = 4
    Error = Error
INVARIANTS AcceptsExactlyToml HoldsWhatIsClaimed WritesWhatItReads
CHECK_DEADLOCK FALSE
