CONSTANTS
    m1 = m1
    m2 = m2
    None = None
    Matches <- MCMatches
    Durable <- MCDurable
    Pages <- MCPages
    MaxLive = 1
    Final <- Mixed
    QueueBound = 1
    ApiWrites = 1
    Crashes = 1
SPECIFICATION Spec
CHECK_DEADLOCK FALSE
INVARIANTS HotIsCommitted ReadersRun
PROPERTY OnlyTheApiGoesBack
