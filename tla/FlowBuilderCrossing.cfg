SPECIFICATION Spec
CONSTANTS
    Segments <- MCSegments
    Apps = {}
    Orders <- MCOrders
    LeafKinds = {"operation"}
    Size = 4
    ForkedRoutes = TRUE
    Crossing = TRUE
INVARIANTS
    EveryConnectionMade
CHECK_DEADLOCK FALSE
