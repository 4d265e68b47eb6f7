SPECIFICATION Spec
CONSTANTS
    None = None
    Requests = {r1, r2, r3}
    MaxProcesses = 2
    MaxStarts = 2
    Settings <- MCSettings
INVARIANTS
    ProcessTypeOK
    GivenOnce
    NoStrayProcess
    ShutdownEnds
PROPERTIES
    FulfilsRequestReply
    DeadAreReplaced
    EveryoneServed
CHECK_DEADLOCK FALSE
