SPECIFICATION FairSpec
CONSTANTS
    n1 = n1
    n2 = n2
    NodeOrder <- MCNodeOrder
    ActionsOf <- MCActionsOf
    LevelsOf <- MCLevelsOf
    ChannelCapacity = 2
    FlushMaxSeries = 2
    Capacity = 1
    MaxChanges = 3
    MaxGenerations = 2
INVARIANTS
    KeptUntilTheEnd
PROPERTIES
    PublishedOnce
    Follows
    AlarmsFollow
CHECK_DEADLOCK FALSE
