SPECIFICATION SessionSpec
CONSTANTS
    CaseFold <- MCCaseFold
    config <- MCConfig
    LongNames <- MCLongNames
    Frequencies <- MCFrequencies
    Codes = {0, 1}
    Ids = {id1}
    NoId = NoId
    NoField = NoField
    SequenceModulus = 3
    SavedResponses = 1
INVARIANTS
    TypeOK
    ReadyIsJustified
    ReadyIsNotStale
    ObserveIsPassive
    ArmedInterlockIsRemoved
PROPERTIES
    InterlockOrder
    ImplementsGuard
