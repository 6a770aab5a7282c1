SPECIFICATION Spec
CONSTANTS
    a = a
    b = b
    p1 = p1
    p2 = p2
    t = t
    None = None
    Order <- MCOrder
    Sides <- MCSides
    Event <- MCEvent
    Pages = {b}
    Silent = {a}
    LiveMaxAge = 0
    StaleLimit = 1
    Targets = 1
    MaxExtras = 1
CHECK_DEADLOCK FALSE
PROPERTIES SyncGoesForward StaleLiveIsCalibrated FinishedLeavesTheList
