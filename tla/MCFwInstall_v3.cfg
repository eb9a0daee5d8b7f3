SPECIFICATION FairSpec
CONSTANTS
    Data <- MCData
    Torn = Torn
    NotPresent = NotPresent
    NumBlocks = 3
    Archive <- MCArchive
    Factory <- OldArchive
    NoArchive = NoArchive
    Options <- VerifyOptions
    Platform = "v3"
    Faults <- BadWrites
    MaxIndex = 3
INVARIANTS TypeOK BootSafe NeverWriteRunning CommitTakesEffect
PROPERTIES HubComesBack ImplementsAtomicUpdate
CHECK_DEADLOCK FALSE
