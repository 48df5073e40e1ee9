SPECIFICATION FairSpec
CONSTANTS
    task = task
    reader = reader
    other = other
    Publishers <- MCPublishers
    Owner <- MCOwner
    Count <- MCFew
    Capacity = 1
    Subscriptions = 1
    MaxOutages = 1
PROPERTIES
    OutageNotFatal
CHECK_DEADLOCK FALSE
