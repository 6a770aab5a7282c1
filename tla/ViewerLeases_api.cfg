SPECIFICATION MCSpec
CONSTANTS
    None = None
    m1 = m1
    v1 = v1
    v2 = v2
    Matches = {m1}
    Viewers = {v1, v2}
    MatchOf <- OneMatch
    LeaseTtl = 2
    RenewEvery = 1
    GraceTime = 2
    Offers <- MCOffers
    Histories <- MCHistories
    Topics <- MCTopics
    MaxPerTurn = 2
    MaxCalls = 4
    MaxBatch = 2
    MaxRounds = 3
    MaxReplans = 1
    MaxVersion = 1
    Keys = {"a", "b"}
    Loads <- MCLoads
    Requests = {r1, r2}
    MaxEntries = 1
    MaxTime = 5
    Standings <- MCStandings
    Keep = 2
    MaxDay = 3
    MaxDecisions = 4
INVARIANTS
    FactsOfOneSnapshot
    ContextIsCovered
    AnswersAreRecent
    MovementIsDayOverDay
    StatusIsExplained
    RowsAreComplete
PROPERTIES
    SeenViewerStays
    AbandonedMatchIsDropped
CHECK_DEADLOCK FALSE
