SPECIFICATION SystemSpec
CONSTANTS
    CaseFold <- MCCaseFold
    config <- MCConfig
    LongNames = {}
    Frequencies <- MCFrequencies
    Codes = {0, 1}
    Ids = {id1}
    NoId = NoId
    NoField = NoField
    SequenceModulus = 16
    SavedResponses = 2
    MaxEvents = 3
INVARIANTS
    ContextAgrees
    WithdrawalUnderWay
    ConfirmedRemovalIsReal
    CacheHoldsOne
