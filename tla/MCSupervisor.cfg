SPECIFICATION FairSpec
CONSTANTS
    plc = plc
    s1 = s1
    s2 = s2
    old = old
    new = new
    h1 = h1
    h2 = h2
    h3 = h3
    Ids <- MCIds
    Configs <- MCConfigs
    Local <- MCLocal
    Handles <- MCHandles
    None = None
    MaxPublishes = 2
INVARIANTS
    OneTaskPerServer
    SettledWhenIdle
    DeviceWins
    RetiredForCause
PROPERTIES
    ImplementsPool
    KeepsPoolPromises
CHECK_DEADLOCK FALSE
