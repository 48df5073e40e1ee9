SPECIFICATION FairSpec
CONSTANTS
    s1 = s1
    s2 = s2
    old = old
    new = new
    Servers <- MCServers
    Configs <- MCConfigs
    Unusable = Unusable
    Strangers <- MCStrangers
    PageSize = 1
    MaxPages = 2
    MaxGateways = 2
    MaxEdits = 3
    MaxOutages = 1
INVARIANTS
    OneDevicePerServerOnline
PROPERTIES
    NothingStale
    KeepsKnownServersOnline
    Follows
CHECK_DEADLOCK FALSE
