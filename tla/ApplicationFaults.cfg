SPECIFICATION Spec
CONSTANTS
    a = a
    Ops = {1, 2, 3}
    Paths = {a}
    Kept = 1
    Settings <- MCFaults
INVARIANTS
    TypeOK
    OneTurn
    AnsweredOnce
    NothingLeftPaused
CHECK_DEADLOCK FALSE
