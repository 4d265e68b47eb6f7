----------------------------- MODULE MCNetManager -----------------------------
(* Settings on two ports, two hosts, with and without tls: every two that can *)
(* get in each other's way.                                                   *)
EXTENDS NetManager

Setting(type, port, host, tls) == [type |-> type, port |-> port, host |-> host, tls |-> tls]

Http   == Setting("HTTP", 80, "x", "none")
Https  == Setting("HTTP", 80, "x", "cert")
Other  == Setting("HTTP", 80, "y", "none")
Ws     == Setting("WEBSOCKET", 80, "x", "none")
Socket == Setting("SOCKET", 80, NoHost, "none")
Ssl    == Setting("SOCKET", 80, NoHost, "cert")
Second == Setting("SOCKET", 81, NoHost, "none")

MCConfigs == { <<Http>>, <<Other>>, <<Ws>>, <<Http, Ws>>, <<Https>>, <<Http, Http>>,
               <<Socket>>, <<Ssl>>, <<Socket, Second>>, <<Second, Http>>, <<Second, Socket>> }
=============================================================================
