------------------------------ MODULE NetManager ------------------------------
(***************************************************************************)
(* The ports, hosts and sockets of all applications (NetManager), as the    *)
(* application manager uses it: one deployment or undeployment at a time.   *)
(* A deployment checks that what it needs is available, registers a         *)
(* component per address and, when all are registered, undeploys the        *)
(* components of the version before.  An address that both versions have is *)
(* handed over in place: registering counts a version up, and the old       *)
(* component, of a lower version, leaves the address alone.                 *)
(***************************************************************************)
EXTENDS Integers, Sequences, FiniteSets, SequencesExt

CONSTANTS Apps,
          Configs,      \* what an application may be deployed with: the settings
                        \* of its components, in order
          MaxBuilds,    \* number of deployments
          BindFails     \* TRUE: a port may be in use by another program

NoHost == "none"

Types == {"HTTP", "WEBSOCKET", "SOCKET"}

ASSUME NetAssumption ==
    /\ "none" \notin Apps
    /\ MaxBuilds \in Nat /\ BindFails \in BOOLEAN
    /\ \A config \in Configs : config \in Seq(Range(config))
    /\ \A config \in Configs : \A s \in Range(config) :
          /\ s = [type |-> s.type, port |-> s.port, host |-> s.host, tls |-> s.tls]
          /\ s.type \in Types /\ (s.type = "SOCKET" <=> s.host = NoHost)

\* NetSettings: type, port, host and tls.  Its hash is the settings themselves.
Settings == UNION { Range(config) : config \in Configs }
Ports    == { s.port : s \in Settings }

\* what a connection asks for; a port handler has one SocketFlows and a map of
\* hosts for http and for websockets each
Address(s) == [type |-> s.type, port |-> s.port, host |-> s.host]
Addresses  == { Address(s) : s \in Settings }

\* the flows a build registers; the build tells whose they are
Flows(app, build) == [app |-> app, build |-> build]
NoFlows == Flows("none", 0)

\* mutant of Kind: every port handler is of the kind that has hosts
AlwaysHttp(type) == "HTTP"

\* PortHandler.supports
Kind(type) == IF type = "SOCKET" THEN "socket" ELSE "http"

Handler(kind, tls, open, since) == [kind |-> kind, tls |-> tls, open |-> open, since |-> since]
NoHandler == Handler("none", "none", FALSE, 0)

VARIABLES handlers,     \* port handlers; since is the build that made it
          flows,        \* the flows at an address
          deployed,     \* versions of the settings of an application, 0 for none
          components,   \* of the deployed applications
          turn,         \* what the application manager is doing
          builds,       \* deployments so far
          spoiled       \* applications with a deployment that failed after it had
                        \* registered something (history)

netVars == <<handlers, flows, deployed, components, turn, builds, spoiled>>

Component(s, version, build) == [settings |-> s, version |-> version, build |-> build]

\* todo has settings, made and leaving have components
Turn(stage, app, todo, made, leaving) ==
    [stage |-> stage, app |-> app, todo |-> todo, made |-> made, leaving |-> leaving]
NoTurn == Turn("idle", "none", <<>>, <<>>, <<>>)

NetInit ==
    /\ handlers = [p \in Ports |-> NoHandler]
    /\ flows = [r \in Addresses |-> NoFlows]
    /\ deployed = [a \in Apps |-> [s \in Settings |-> 0]]
    /\ components = [a \in Apps |-> <<>>]
    /\ turn = NoTurn
    /\ builds = 0
    /\ spoiled = {}

-----------------------------------------------------------------------------
\* DeployApplication.run
Begin(a) ==
    /\ turn = NoTurn
    /\ builds < MaxBuilds
    /\ builds' = builds + 1
    /\ \E config \in Configs : turn' = Turn("checking", a, config, <<>>, <<>>)
    /\ UNCHANGED <<handlers, flows, deployed, components, spoiled>>

\* mutants of Available: sockets are not checked; hosts are not compared
AvailableToSockets(a, s) ==
    s.host = NoHost \/
    \A other \in Apps \ {a}, t \in Settings :
        deployed[other][t] > 0 /\ t.port = s.port => t.host \notin {s.host, NoHost}
AvailableToHosts(a, s) ==
    \A other \in Apps \ {a}, t \in Settings :
        deployed[other][t] > 0 /\ t.port = s.port => s.host # NoHost /\ t.host # NoHost

\* isAvailable: nobody else has the port, or all who have it have other hosts
Available(a, s) ==
    \A other \in Apps \ {a}, t \in Settings :
        deployed[other][t] > 0 /\ t.port = s.port =>
            s.host # NoHost /\ t.host \notin {s.host, NoHost}

\* ApplicationConfigurer.runPortCheckers
Check ==
    /\ turn.stage = "checking"
    /\ turn' = [turn EXCEPT !.stage =
                   IF \A s \in Range(turn.todo) : Available(turn.app, s)
                   THEN "registering" ELSE "resuming"]
    /\ UNCHANGED <<handlers, flows, deployed, components, builds, spoiled>>

\* ensurePortHandler throws
Conflict(s) ==
    LET h == handlers[s.port]
    IN  h # NoHandler /\ (h.kind # Kind(s.type) \/ h.tls # s.tls)

\* mutant of Add: the flows that are there stay
AddIfAbsent(r, new) == IF flows[r] = NoFlows THEN [flows EXCEPT ![r] = new] ELSE flows

\* HttpChannelSetup.add, WebsocketChannelSetup.add, SocketFlowHandler.setFlows
Add(r, new) == [flows EXCEPT ![r] = new]

\* saveSettingsAndIncrementVersion
Increment(a, s) == deployed' = [deployed EXCEPT ![a][s] = @ + 1]

\* ensurePortHandler, and start, which opens the port if it is not open yet
Started(s, open) ==
    handlers' = [handlers EXCEPT ![s.port] =
                    IF @ = NoHandler THEN Handler(Kind(s.type), s.tls, open, builds)
                    ELSE [@ EXCEPT !.open = open]]

\* deployHttp and its siblings, and registerComponent
Register ==
    /\ turn.stage = "registering" /\ turn.todo # <<>>
    /\ LET s    == Head(turn.todo)
           a    == turn.app
           made == Component(s, deployed[a][s] + 1, builds)
       IN  /\ ~Conflict(s)
           /\ Increment(a, s)
           /\ flows' = Add(Address(s), Flows(a, builds))
           /\ Started(s, TRUE)
           /\ turn' = Turn("registering", a, Tail(turn.todo), Append(turn.made, made), <<>>)
    /\ UNCHANGED <<components, builds, spoiled>>

\* a port handler with certificates that can not be read; like a port in use, it is a
\* matter of the machine
Unreadable(s) == BindFails /\ handlers[s.port] = NoHandler /\ s.tls # "none"

\* ... which throws: nothing that is registered is taken back
RegisterFails ==
    /\ turn.stage = "registering" /\ turn.todo # <<>>
    /\ LET s == Head(turn.todo)
           a == turn.app
       IN  \/ /\ Conflict(s) \/ Unreadable(s)
              /\ spoiled' = IF turn.made # <<>> THEN spoiled \cup {a} ELSE spoiled
              /\ UNCHANGED <<handlers, flows, deployed>>
           \/ /\ BindFails /\ ~Conflict(s) /\ ~handlers[s.port].open
              /\ Increment(a, s)
              /\ flows' = Add(Address(s), Flows(a, builds))
              /\ Started(s, FALSE)
              /\ spoiled' = spoiled \cup {a}
    /\ turn' = Turn("resuming", turn.app, <<>>, <<>>, <<>>)
    /\ UNCHANGED <<components, builds>>

\* applications.put, then Application.undeploy of the previous
Publish ==
    /\ turn.stage = "registering" /\ turn.todo = <<>>
    /\ components' = [components EXCEPT ![turn.app] = turn.made]
    /\ turn' = Turn("leaving", turn.app, <<>>, <<>>, components[turn.app])
    /\ UNCHANGED <<handlers, flows, deployed, builds, spoiled>>

\* UndeployApplication.run
UndeployApplication(a) ==
    /\ turn = NoTurn
    /\ components[a] # <<>>
    /\ components' = [components EXCEPT ![a] = <<>>]
    /\ turn' = Turn("leaving", a, <<>>, <<>>, components[a])
    /\ UNCHANGED <<handlers, flows, deployed, builds, spoiled>>

\* mutant of Superseded: the version is not compared
NeverSuperseded(a, c) == FALSE

\* "not undeploying as the version has incremented"
Superseded(a, c) == deployed[a][c.settings] # c.version

\* the remove of a component; a socket is only unset if it has these flows still
Removed(a, c) ==
    LET r == Address(c.settings)
    IN  IF r.type = "SOCKET" /\ flows[r] # Flows(a, c.build) THEN flows
        ELSE [flows EXCEPT ![r] = NoFlows]

\* mutant of IsEmpty: websockets are forgotten
NoHttpLeft(port, rs) == \A r \in Addresses : r.port = port /\ r.type # "WEBSOCKET" => rs[r] = NoFlows

\* PortHandler.isEmpty
IsEmpty(port, rs) == \A r \in Addresses : r.port = port => rs[r] = NoFlows

\* NetApplicationComponent.undeploy
Leave ==
    /\ turn.stage = "leaving" /\ turn.leaving # <<>>
    /\ LET c    == Head(turn.leaving)
           a    == turn.app
           port == c.settings.port
       IN  IF handlers[port] = NoHandler \/ Superseded(a, c)
           THEN UNCHANGED <<handlers, flows, deployed>>
           ELSE /\ flows' = Removed(a, c)
                /\ handlers' = IF IsEmpty(port, flows')
                               THEN [handlers EXCEPT ![port] = NoHandler] ELSE handlers
                /\ deployed' = [deployed EXCEPT ![a][c.settings] = 0]
    /\ turn' = [turn EXCEPT !.leaving = Tail(@)]
    /\ UNCHANGED <<components, builds, spoiled>>

\* the turn is given back
Done ==
    /\ turn.stage = "resuming" \/ (turn.stage = "leaving" /\ turn.leaving = <<>>)
    /\ turn' = NoTurn
    /\ UNCHANGED <<handlers, flows, deployed, components, builds, spoiled>>

NetNext == \/ \E a \in Apps : Begin(a) \/ UndeployApplication(a)
           \/ Check \/ Register \/ RegisterFails \/ Publish \/ Leave \/ Done

NetSpec == NetInit /\ [][NetNext]_netVars

-----------------------------------------------------------------------------
Components == [settings : Settings, version : Nat, build : Nat]

NetTypeOK ==
    /\ handlers \in [Ports -> [kind : {"none", "http", "socket"}, tls : { s.tls : s \in Settings } \cup {"none"},
                               open : BOOLEAN, since : Nat]]
    /\ flows \in [Addresses -> [app : Apps \cup {"none"}, build : Nat]]
    /\ deployed \in [Apps -> [Settings -> Nat]]
    /\ components \in [Apps -> Seq(Components)]
    /\ turn \in [stage : {"idle", "checking", "registering", "leaving", "resuming"},
                 app : Apps \cup {"none"}, todo : Seq(Settings), made : Seq(Components),
                 leaving : Seq(Components)]
    /\ builds \in Nat
    /\ spoiled \subseteq Apps

(* No deployment takes an address from another application: the checkers saw  *)
(* all that is registered, and the turn keeps what they saw true.             *)
AddressesAreKept ==
    [][\A r \in Addresses :
          flows[r] # NoFlows /\ flows'[r] # NoFlows => flows'[r].app = flows[r].app]_netVars

(* A deployment that passed the checkers meets a handler of the wrong kind on *)
(* a port only if the port is its own: nobody else's http port is in the way  *)
(* of a socket, and nobody else's socket in the way of a host.                *)
ConflictsAreOwn ==
    turn.stage = "registering" /\ turn.todo # <<>> =>
        LET s == Head(turn.todo)
        IN  handlers[s.port] # NoHandler /\ handlers[s.port].kind # Kind(s.type) =>
                \A r \in Addresses :
                    r.port = s.port /\ flows[r] # NoFlows => flows[r].app = turn.app

(* A port has a handler exactly as long as something is served on it,         *)
(* whichever deployments replaced each other on it or failed.                 *)
HandlersAreUsed ==
    \A p \in Ports :
        handlers[p] = NoHandler <=> \A r \in Addresses : r.port = p => flows[r] = NoFlows

Serves(a) == { r \in Addresses : flows[r].build > 0 /\ flows[r].app = a }

(* Between deployments an application serves the addresses of its components  *)
(* with the flows of the build they are from, and no other address: an old    *)
(* version neither keeps an address nor takes it away from the new one.       *)
ServesItsComponents ==
    turn = NoTurn => \A a \in Apps \ spoiled :
        /\ Serves(a) = { Address(c.settings) : c \in Range(components[a]) }
        /\ \A c \in Range(components[a]) : flows[Address(c.settings)] = Flows(a, c.build)
=============================================================================
