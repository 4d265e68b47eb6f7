SPECIFICATION Spec
CONSTANTS
    Flows <- MCAllFlows
    Orders = {"ascending"}
    LeafKinds = {"operation", "reference"}
    Size = 4
    ForkedRoutes = FALSE
    Crossing = FALSE
INVARIANTS
    TypeOK
    NoExtraInput
    NoActionAfterDone
    BranchesKeepApart
    AccountedWhenIdle
PROPERTIES
    JoinDecidesOnce
    FulfilsContract
    ErrorsAreTold
CHECK_DEADLOCK FALSE
