SPECIFICATION MCSpec
CONSTANTS
    QueueSize = 2
    MaxBook = 3
    MaxVersion = 3
    Inputs <- MCInputs
    None = None
    Stake = 150
    One = 10
    FeeRate = 3
    FeeScale = 11
    Exponent = 1
    MinOrder = 8
    BuyEdge = 1
    BuyGap = 2
    SellEdge = 1
    Launchers = {l1, l2}
    Services = {postgres}
    Roles <- MCRoles
    MaxSpawns = 3
    MaxIds = 1
    MaxFaults = 1
    OldHead = OldHead
    NewHead = NewHead
    NoHead = NoHead
SYMMETRY Symmetry
INVARIANTS
    ActionIsTraceable
    CapIsSafe
    NoRoundTrip
    ForeignIsSpared
    UpMeansReady
PROPERTY ImplementsDecisionLog
