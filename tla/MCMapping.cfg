SPECIFICATION ResolveSpec
CONSTANTS
    Catalogs <- MCCatalogs
    Tables <- MCTables
    Space <- MCSpace
    Numeral <- MCNumeral
    Server = "me"
    KnownIds <- MCKnownIds
    AllowLists <- MCAllowLists
    ValidParameters <- MCValidParameters
    NoText = NoText
    NoId = NoId
INVARIANTS
    AsAuthored
    CollectedOnce
CHECK_DEADLOCK FALSE
