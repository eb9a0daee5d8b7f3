SPECIFICATION Spec
CONSTANTS
    Data <- MCData
    Torn = Torn
    NotPresent = NotPresent
    NumBlocks = 2
    Archive <- MCSmallArchive
    Factory <- OldArchive
    NoArchive = NoArchive
    Options <- AllOptions
    Platform = "v2"
    Faults <- AllFaults
    MaxIndex = 2
INVARIANTS CompleteBeforeCommit RunningWrittenOnlyBlind RadioMarkerTruthful RadiosBeforeCommit
PROPERTIES OperatorObeyed
