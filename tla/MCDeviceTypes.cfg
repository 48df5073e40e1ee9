SPECIFICATION FairSpec
CONSTANTS
    type1 = type1
    type2 = type2
    file1 = file1
    file2 = file2
    NoType = NoType
    Types <- MCTypes
    Files <- MCFiles
    TypeOrder <- MCTypeOrder
    FileOrder <- MCFileOrder
    Tenant <- MCTypes
    Shipped <- MCShipped
    DeviceTypeIds <- MCDeviceTypeIds
    PageSize = 1
    MaxPages = 2
    MaxEdits = 2
    MaxFaults = 1
INVARIANTS
    FetchedIsServed
    PushWins
PROPERTIES
    NothingStale
    Follows
    EndsWhenTold
CHECK_DEADLOCK FALSE
