\* two applications that share a port, two connections, three deployments
SPECIFICATION Spec
CONSTANTS
    Apps = {app1, app2}
    Conns = {conn1, conn2}
    Configs <- MCConfigs
    MaxBuilds = 3
    BindFails = TRUE
SYMMETRY Symmetric
INVARIANTS TypeOK
PROPERTIES NobodyTurnedAway ServedByDeployed
CHECK_DEADLOCK FALSE
