SPECIFICATION Spec
CONSTANTS
    Flows <- MCFlows
    Orders = {"ascending"}
    LeafKinds = {"operation"}
    Size = 4
    ForkedRoutes = TRUE
    Crossing = FALSE
INVARIANTS
    ChangesAreKept
CHECK_DEADLOCK FALSE
