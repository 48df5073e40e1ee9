SPECIFICATION FairSpec
CONSTANTS
    task = task
    reader = reader
    other = other
    Publishers <- MCPublishers
    Owner <- MCOwner
    Count <- MCFew
    Capacity = 2
    Subscriptions = 1
    MaxOutages = 2
INVARIANTS
    RegistrationFirst
    NothingLost
PROPERTIES
    OutageSurvived
    LoopStops
CHECK_DEADLOCK FALSE
