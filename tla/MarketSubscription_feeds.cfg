SPECIFICATION MCSpec
CONSTANTS
    QueueSize = 2
    Identities = {1, 2, 3}
    Contents = {"ace", "fault"}
    Payloads <- MCPayloads
    MaxVersion = 3
    None = None
    NoScore = NoScore
    Markets = {1, 2, 3}
    Max = 2
INVARIANTS
    LossIsFlagged
    GatedWhileFailing
    PointsAreNumbered
    RowsHoldTheSnapshot
PROPERTIES
    LossIsReconciled
    HotBookReturns
    CorrectionIsARevision
    TurnsAreTaken
CHECK_DEADLOCK FALSE
