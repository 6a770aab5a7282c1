SPECIFICATION Spec
CONSTANTS
    a = a
    b = b
    Markets = {a, b}
    Order <- MCOrder
    Linked = {a}
    Budget = 1
    MaxFaults = 1
PROPERTIES OrdersNeedReconcile PositionsSettle OrdersAreDecided
