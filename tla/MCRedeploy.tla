------------------------------ MODULE MCRedeploy ------------------------------
(* Settings that share a port: hosts, websockets on one of them, a socket     *)
(* that replaces them all.                                                    *)
EXTENDS Redeploy, TLC

Setting(type, port, host) == [type |-> type, port |-> port, host |-> host, tls |-> "none"]

Http   == Setting("HTTP", 80, "x")
Other  == Setting("HTTP", 80, "y")
Ws     == Setting("WEBSOCKET", 80, "x")
Socket == Setting("SOCKET", 80, NoHost)

MCConfigs == { <<Http>>, <<Ws, Http>>, <<Other>>, <<Socket>> }

MCWebsocket == { <<Ws>> }

Symmetric == Permutations(Conns) \cup Permutations(Apps)
=============================================================================
