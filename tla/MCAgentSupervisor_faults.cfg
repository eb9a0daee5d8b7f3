SPECIFICATION Spec
CONSTANTS
    Lib <- TwoLibs
    WriteBack = FALSE
    Dongle = TRUE
    Operator = TRUE
    Failures = TRUE
    MaxCrashes = 1
INVARIANTS
    TypeOK
    ResetNeedsCause
    LibNeverLost
