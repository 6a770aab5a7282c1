SPECIFICATION MCSpec
CONSTANTS
    Markets = {a, b}
    Matches = {m}
    Texts = {t, u}
    None = None
    Fits <- BothFit
    MaxEdits = 0
    MaxFaults = 0
    Levels = {x, y}
    MaxMoves = 0
    Quoted = {1, 2}
    Order <- MCOrder
    Routed = {1}
    Linked = {1}
    Cap = 1
    RealtimeFresh = 0
    SnapshotFresh = 1
    MaxTime = 0
INVARIANTS
    LinkFollowsIntent
