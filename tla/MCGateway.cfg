\* The process over a crash, an outage and restarts with other configurations.
SPECIFICATION FairSpec
CONSTANTS
    Servers = {"s1"}
    Addressees = {"s1"}
    Configs <- MCConfigs
    Capacity = 1
    IncomingCapacity = 1
INVARIANT
    ParentsFirst
PROPERTY
    HealthFollows
    Answered
    StopsUnaided
