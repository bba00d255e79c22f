SPECIFICATION FairSpec
CONSTANTS
    m1 = m1
    m2 = m2
    yes = yes
    no = no
    none = none
    Markets <- MCMarkets
    Expected <- MCExpected
    Announced <- MCAnnounced
    Results <- MCResults
    FirstResults <- MCFirst
    NoResult = none
    LOOKBACK = 3
    LIMIT = 1
    MAX_BATCHES = 1
    LAST = 3
    MAX_ERRORS = 1
    CORRECTIONS = 1
INVARIANTS
    RecordIsFinal
    NoneSlipsOut
PROPERTIES
    NoHindsight
    GradingCatchesUp
