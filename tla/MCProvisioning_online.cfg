SPECIFICATION FairSpec
CONSTANTS
    MAX_WIFI_STATUS_CHECKS = 1
    MaxCrashes = 1
INVARIANTS
    TypeOK
PROPERTIES
    SavedUnlessNewer
    ReentryEnds
    GivesUp
    CanTryAgain
