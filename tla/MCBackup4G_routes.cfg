SPECIFICATION FairSpec
CONSTANTS
    PriIf = {"eth0"}
    MaxRestarts = 1
INVARIANTS
    TypeOK
    BelievesBackup
PROPERTIES
    FallsBack
    ReturnsToPrimary
    AgentNotified
