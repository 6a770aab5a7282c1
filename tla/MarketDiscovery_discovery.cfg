SPECIFICATION MCSpec
CONSTANTS
    Markets = {a, b}
    Matches = {m}
    Texts = {t, u}
    None = None
    Fits <- BothFit
    MaxEdits = 3
    MaxFaults = 1
    Levels = {x, y}
    MaxMoves = 2
    Quoted = {1, 2}
    Order <- MCOrder
    Routed = {1}
    Linked = {1}
    Cap = 1
    RealtimeFresh = 0
    SnapshotFresh = 1
    MaxTime = 2
SYMMETRY Symmetry
INVARIANTS
    RulesAreCurrent
    HotIsTheVenues
    ShownIsFresh
PROPERTIES
    ActsOnlyOnFirstRules
    RowGoesForward
