SPECIFICATION FairSpec
CONSTANTS
    Lib <- TwoLibs
    WriteBack = TRUE
    Dongle = FALSE
    Operator = FALSE
    Failures = FALSE
    MaxCrashes = 2
PROPERTIES
    MarkedHubRecovers
