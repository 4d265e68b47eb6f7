SPECIFICATION Spec
CONSTANTS
    Segments <- MCSegments
    Apps <- MCApps
    Orders <- MCOrders
    LeafKinds = {"operation", "reference", "halt"}
    Size = 4
    ForkedRoutes = TRUE
    Crossing = FALSE
INVARIANTS
    EveryConnectionMade
    JoinsWaitForEveryInput
    HaltsHeardOncePerPath
    InitializedAfterUsed
CHECK_DEADLOCK FALSE
