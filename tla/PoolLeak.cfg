CONSTANTS
    Handler = handler
    Cleaner = cleaner
    None = None
    N = 3
SPECIFICATION FairSpec
PROPERTIES
    EveryCallReturns
