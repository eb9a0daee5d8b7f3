SPECIFICATION FairSpec
CONSTANTS
    PriIf = {"eth0"}
    MaxRestarts = 0
PROPERTIES
    ResolverFollows
