SPECIFICATION FairSpec
CONSTANTS
    m1 = m1
    w1 = w1
    w2 = w2
    Matches = {m1}
    Workers = {w1}
    Delays = {1}
    Grace = 1
    MaxTime = 4
INVARIANTS
    EvTrackNeverInvents
    MarkerBehindLedger
PROPERTIES
    ImplementsLifecycle
    OpenPositionsSettle
