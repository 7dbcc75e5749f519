SPECIFICATION SystemSpec
CONSTANTS
    CaseFold <- MCCaseFold
    config <- MCConfig
    LongNames = {}
    Frequencies <- MCFrequencies
    Codes = {0}
    Ids = {id1}
    NoId = NoId
    NoField = NoField
    SequenceModulus = 16
    SavedResponses = 2
    MaxEvents = 0
INVARIANTS
    StopRemovesInterlock
