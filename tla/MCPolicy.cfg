SPECIFICATION CallSpec
CONSTANTS
    CaseFold <- MCCaseFold
    CallConfigs <- SomeConfigs
    CallFrequencies <- SomeFrequencies
INVARIANTS
    DecisionMatchesMatrix
CHECK_DEADLOCK FALSE
