SPECIFICATION FairSessionSpec
CONSTANTS
    CaseFold <- SmallCaseFold
    config <- SmallConfig
    LongNames = {}
    Frequencies <- SmallFrequencies
    Codes = {0, 1}
    Ids = {id1}
    NoId = NoId
    NoField = NoField
    SequenceModulus = 2
    SavedResponses = 1
PROPERTIES
    StopEndsSession
    UnjustifiedReadyIsWithdrawn
