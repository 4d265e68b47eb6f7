\* two applications, eleven configurations, four deployments
SPECIFICATION NetSpec
CONSTANTS
    Apps = {app1, app2}
    Configs <- MCConfigs
    MaxBuilds = 4
    BindFails = TRUE
INVARIANTS NetTypeOK ConflictsAreOwn HandlersAreUsed ServesItsComponents
PROPERTY AddressesAreKept
CHECK_DEADLOCK FALSE
