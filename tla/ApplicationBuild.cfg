SPECIFICATION Spec
CONSTANTS
    Settings <- MCSettings
    MaxAgain = 2
INVARIANTS
    BuildTypeOK
    TestedBeforeServed
PROPERTIES
    FulfilsBuildContract
    BuildAnswered
CHECK_DEADLOCK FALSE
