SPECIFICATION Spec
CONSTANTS
    a = a  b = b
    Ops = {1, 2, 3, 4}
    Paths = {a, b}
    Kept = 1
    Settings <- MCSettings
INVARIANTS
    OnlyDeployedRun
    StatusOfDeployed
    RestartsAlike
PROPERTIES
    VersionsIncrease
    EveryDeployAnswered
CHECK_DEADLOCK FALSE
