CONSTANTS
    Handler = handler
    Cleaner = cleaner
    None = None
    N = 4
SPECIFICATION FairSpec
INVARIANTS
    PoolTypeOK
    Exclusive
PROPERTIES
    Served
    LockReleased
    ImplementsHolders
