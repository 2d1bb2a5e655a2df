CONSTANTS
    opus = opus
    haiku = haiku
    Keys <- MCKeys
    Threshold = 3
    Timeout = 3
SPECIFICATION BreakerSpec
INVARIANTS
    BreakerTypeOK
    StateMatchesCount
PROPERTY ImplementsPolicy
