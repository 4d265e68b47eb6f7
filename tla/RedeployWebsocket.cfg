\* one application with one websocket, one connection, one redeploy
SPECIFICATION Spec
CONSTANTS
    Apps = {app1}
    Conns = {conn1}
    Configs <- MCWebsocket
    MaxBuilds = 2
    BindFails = FALSE
INVARIANT NothingWaits
CHECK_DEADLOCK FALSE
