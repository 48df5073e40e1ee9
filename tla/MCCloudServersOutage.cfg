SPECIFICATION Spec
CONSTANTS
    s1 = s1
    s2 = s2
    old = old
    new = new
    Servers <- MCServers
    Configs <- OneConfig
    Unusable = Unusable
    Strangers <- NoStrangers
    PageSize = 2
    MaxPages = 2
    MaxGateways = 1
    MaxEdits = 2
    MaxOutages = 1
PROPERTIES
    KeepsKnownServers
CHECK_DEADLOCK FALSE
