SPECIFICATION Spec
CONSTANTS
    Flows <- MCFlows
    Orders = {"ascending"}
    LeafKinds = {"operation", "halt"}
    Size = 3
    ForkedRoutes = FALSE
    Crossing = FALSE
INVARIANTS
    NotCalledWhenDone
CHECK_DEADLOCK FALSE
