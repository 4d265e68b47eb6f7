------------------------------- MODULE Redeploy -------------------------------
(***************************************************************************)
(* Requests that meet a redeploy: the channel setups of a port              *)
(* (HttpChannelSetup, WebsocketChannelSetup) composed with NetManager.      *)
(* Every new connection brings a request, http or an upgrade, whose event   *)
(* loop goes through channelRead a statement at a time.  A deployment       *)
(* pauses the addresses of the deployed version when it begins: requests    *)
(* for them are put in a list, and set up when the deployment resumes them, *)
(* on the thread of the deployment.                                         *)
(***************************************************************************)
EXTENDS NetManager

CONSTANT Conns      \* connections

VARIABLES paused,   \* the list of an address, by port handler: the build that
                    \* paused it, 0 if it is not paused
          lists,    \* the lists made by each build
          unpause,  \* what the deployment has still to resume, NoSetup for nothing
          walk,     \* the list it is setting up
          conns     \* what became of each connection's request

channelVars == <<paused, lists, unpause, walk, conns>>
vars == <<netVars, channelVars>>

HostAddresses == { r \in Addresses : r.type # "SOCKET" }
Builds == 1 .. MaxBuilds

\* an address as a port handler knows it: a new handler on the port has new setups
Setup(r, since) == [address |-> r, since |-> since]
NoSetup == <<>>
Setups == [address : HostAddresses, since : Builds]

NoWalk == [setup |-> NoSetup, list |-> 0, size |-> 0, at |-> 0]

Conn(pc, setup, list, flow) == [pc |-> pc, setup |-> setup, list |-> list, flows |-> flow]

Init ==
    /\ NetInit
    /\ paused = [u \in Setups |-> 0]
    /\ lists = [u \in Setups |-> [b \in Builds |-> <<>>]]
    /\ unpause = <<>>
    /\ walk = NoWalk
    /\ conns = [c \in Conns |-> Conn("new", NoSetup, 0, NoFlows)]

-----------------------------------------------------------------------------
(* The deployment.                                                          *)

\* NetApplicationComponent.pause: what its Runnable resumes, if anything
Here(c) == Setup(Address(c.settings), handlers[c.settings.port].since)
Pause(c) == IF handlers[c.settings.port] = NoHandler \/ c.settings.type = "SOCKET"
            THEN NoSetup ELSE Here(c)

\* mutant of PausedBy: a socket is paused like the others
PausedWithSockets(a) == [i \in DOMAIN components[a] |-> Here(components[a][i])]

\* Application.pause: the Runnables of its components, in order
PausedBy(a) == [i \in DOMAIN components[a] |-> Pause(components[a][i])]

BeginAndPause(a) ==
    /\ Begin(a)
    /\ unpause' = PausedBy(a)
    /\ paused' = [u \in Setups |->
                     IF u \in Range(unpause') /\ paused[u] = 0 THEN builds' ELSE paused[u]]
    /\ UNCHANGED <<lists, walk, conns>>

Deploying == /\ \/ Check \/ Register \/ RegisterFails \/ Publish \/ Leave
                \/ \E a \in Apps : UndeployApplication(a)
             /\ UNCHANGED channelVars

Resuming == turn.stage = "resuming" \/ (turn.stage = "leaving" /\ turn.leaving = <<>>)

\* the flows a setup sees: those of an old handler of the port are gone
Seen(u) == IF handlers[u.address.port].since = u.since THEN flows[u.address] ELSE NoFlows

\* setup(ctx, host, req)
SetUp(c, u) ==
    conns' = [conns EXCEPT ![c] = IF Seen(u) = NoFlows THEN Conn("closed", u, 0, NoFlows)
                                  ELSE Conn("served", u, 0, Seen(u))]

\* resume: http takes the list away, websockets leave it where it is
Resume ==
    /\ Resuming /\ walk = NoWalk /\ unpause # <<>>
    /\ LET u == Head(unpause)
           b == IF u = NoSetup THEN 0 ELSE paused[u]
       IN  IF b = 0 THEN UNCHANGED <<paused, walk>>
           ELSE /\ walk' = [setup |-> u, list |-> b, size |-> Len(lists[u][b]), at |-> 1]
                /\ paused' = IF u.address.type = "HTTP" THEN [paused EXCEPT ![u] = 0] ELSE paused
    /\ unpause' = Tail(unpause)
    /\ UNCHANGED <<netVars, lists, conns>>

Walked == lists[walk.setup][walk.list]

\* ArrayList.forEach: each connection is set up
ResumeNext ==
    /\ walk.list > 0
    /\ walk.at <= walk.size /\ Len(Walked) = walk.size
    /\ conns[Walked[walk.at]].pc = "held"
    /\ SetUp(Walked[walk.at], walk.setup)
    /\ walk' = [walk EXCEPT !.at = @ + 1]
    /\ UNCHANGED <<netVars, paused, lists, unpause>>

\* ... unless the list was added to meanwhile, or one was set up before: an exception
\* leaves the finally block of the deployment, and the turn is never given back
Throws == /\ walk.list > 0
          /\ \/ Len(Walked) # walk.size
             \/ walk.at <= walk.size /\ conns[Walked[walk.at]].pc # "held"

Resumed ==
    /\ walk.list > 0
    /\ walk.at > walk.size /\ ~Throws
    /\ walk' = NoWalk
    /\ UNCHANGED <<netVars, paused, lists, unpause, conns>>

EndTurn == /\ unpause = <<>> /\ walk = NoWalk
           /\ Done
           /\ UNCHANGED channelVars

Deployment == \/ \E a \in Apps : BeginAndPause(a)
              \/ Deploying \/ Resume \/ ResumeNext \/ Resumed \/ EndTurn

-----------------------------------------------------------------------------
(* The event loop of a connection: channelRead.                             *)

At(c, pc) == conns[c].pc = pc
Goes(c, pc) == conns' = [conns EXCEPT ![c].pc = pc]

\* flows.containsKey(host)
Receive(c) ==
    /\ At(c, "new")
    /\ \E r \in HostAddresses :
          LET h == handlers[r.port]
              u == Setup(r, h.since)
          IN  /\ h.open /\ h.kind = "http"
              /\ conns' = [conns EXCEPT ![c] =
                              IF flows[r] = NoFlows THEN Conn("closed", u, 0, NoFlows)
                              ELSE Conn("found", u, 0, flows[r])]
    /\ UNCHANGED <<netVars, paused, lists, unpause, walk>>

\* paused.containsKey(host)
SeePaused(c) ==
    /\ At(c, "found")
    /\ Goes(c, IF paused[conns[c].setup] = 0 THEN "clear" ELSE "waiting")
    /\ UNCHANGED <<netVars, paused, lists, unpause, walk>>

\* paused.get(host), which may be null by now: the request is lost
GetList(c) ==
    /\ At(c, "waiting")
    /\ LET b == paused[conns[c].setup]
       IN  conns' = [conns EXCEPT ![c].pc = IF b = 0 THEN "lost" ELSE "adding", ![c].list = b]
    /\ UNCHANGED <<netVars, paused, lists, unpause, walk>>

\* add, to an ArrayList: of two that add at the same time one may be overwritten
AddToList(c) ==
    /\ At(c, "adding")
    /\ LET u == conns[c].setup
           b == conns[c].list
       IN  \/ lists' = [lists EXCEPT ![u][b] = Append(@, c)] /\ Goes(c, "held")
           \/ /\ \E d \in Conns \ {c} : At(d, "adding") /\ conns[d].setup = u /\ conns[d].list = b
              /\ Goes(c, "lost") /\ UNCHANGED lists
    /\ UNCHANGED <<netVars, paused, unpause, walk>>

SetUpNow(c) ==
    /\ At(c, "clear")
    /\ SetUp(c, conns[c].setup)
    /\ UNCHANGED <<netVars, paused, lists, unpause, walk>>

ChannelRead == \E c \in Conns : Receive(c) \/ SeePaused(c) \/ GetList(c) \/ AddToList(c) \/ SetUpNow(c)

Next == Deployment \/ ChannelRead

Spec == Init /\ [][Next]_vars

-----------------------------------------------------------------------------
TypeOK ==
    /\ NetTypeOK
    /\ paused \in [Setups -> {0} \cup Builds]
    /\ lists \in [Setups -> [Builds -> Seq(Conns)]]
    /\ unpause \in Seq(Setups \cup {NoSetup})
    /\ walk \in [setup : Setups \cup {NoSetup}, list : {0} \cup Builds, size : Nat, at : Nat]
    /\ conns \in [Conns -> [pc : {"new", "found", "waiting", "adding", "held", "clear",
                                  "served", "closed", "lost"},
                            setup : Setups \cup {NoSetup}, list : {0} \cup Builds,
                            flows : [app : Apps \cup {"none"}, build : Nat]]]

\* a deployed application has a component at the address
HasApplication(r) == \E a \in Apps : \E c \in Range(components[a]) : Address(c.settings) = r

Ends(c, pc) == conns[c].pc # pc /\ conns'[c].pc = pc

(* "No downtime redeploys" (README): a request is only turned away when no    *)
(* deployed application has its address, or the port was closed since; never  *)
(* because one version has left and the next has not arrived.                 *)
NobodyTurnedAway ==
    [][\A c \in Conns : Ends(c, "closed") =>
          LET u == conns'[c].setup
          IN  ~HasApplication(u.address) \/ handlers[u.address.port].since # u.since]_vars

(* A request for the address of a deployed application is served by that      *)
(* application, with flows at least as new as the deployed version's, also    *)
(* when it was received before that version was deployed.                     *)
ServedByDeployed ==
    [][\A c \in Conns : Ends(c, "served") =>
          \A a \in Apps : \A d \in Range(components[a]) :
              Address(d.settings) = conns'[c].setup.address =>
                  conns'[c].flows.app = a /\ conns'[c].flows.build >= d.build]_vars

(* Between deployments no request is kept waiting: "no downtime redeploys for *)
(* network protocols" (README).                                               *)
NothingWaits == turn = NoTurn => \A c \in Conns : ~At(c, "held")
=============================================================================
