SPECIFICATION FairSpec
CONSTANTS
    sub = sub
    fast = fast
    slow = slow
    Readers <- MCReaders
    SubReader = sub
    MaxVersion = 2
    Plan <- MCPlan
    MaxBackoff = 3
    MaxOutages = 3
INVARIANTS
    ReadersBelong
    ReturnsClean
    NothingMissed
    OwnsItsSession
PROPERTIES
    EndsWhenTold
    FaultsAreRepaired
    CollectsAllOrWaits
CHECK_DEADLOCK FALSE
