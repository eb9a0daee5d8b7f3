SPECIFICATION FairSpec
CONSTANTS
    BUTTON_REBOOT_HOLD = 1
    BUTTON_SOFT_RESET_HOLD = 3
    BUTTON_FACTORY_DEFAULT_HOLD = 4
    UMOUNT_RETRIES = 3
    MaxCrashes = 3
INVARIANTS
    TypeOK
    MarkerTruthful
    ReformatAlone
PROPERTIES
    FirmwareWaitEnds
    PressEnds
    DefaultEnds
