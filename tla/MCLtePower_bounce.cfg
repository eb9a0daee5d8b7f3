SPECIFICATION FairSpec
CONSTANTS
    MaxRestarts = 1
INVARIANTS
    TypeOK
    
PROPERTIES
    ImplementsMailbox
    Reconnects
    PortReturns
