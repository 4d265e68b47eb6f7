--------------------------- MODULE NetManagerProofs ---------------------------
(***************************************************************************)
(* What NetManager keeps for every set of applications, every set of        *)
(* configurations and every number of deployments.                          *)
(*                                                                          *)
(* The argument: a deployed setting has a port handler of its kind and      *)
(* certificate, and the flows at its address are the application's          *)
(* (Backed).  So two deployed settings with one address are one setting of   *)
(* one application, and a component that is removed at its current version  *)
(* removes its own flows and nobody else's.  Conversely flows belong to a   *)
(* deployed setting (Owned), which is what the checkers look at.            *)
(***************************************************************************)
EXTENDS Redeploy, TLAPS

\* components of an application that may still be undeployed
Live(a) == Range(components[a]) \cup
           (IF turn.app = a THEN Range(turn.made) \cup Range(turn.leaving) ELSE {})

TurnOK == /\ turn.stage # "idle" => turn.app \in Apps
          /\ turn.stage = "leaving" => turn.made = <<>>

Backed ==
    \A a \in Apps, s \in Settings : deployed[a][s] > 0 =>
        /\ flows[Address(s)].app = a
        /\ handlers[s.port].kind = Kind(s.type)
        /\ handlers[s.port].tls = s.tls

Owned ==
    \A r \in Addresses : flows[r] # NoFlows =>
        \E a \in Apps, s \in Settings : Address(s) = r /\ deployed[a][s] > 0

\* a component has been counted, and serves as long as it is the last that was
Counted(a, c) ==
    /\ 0 < c.version /\ c.version <= deployed[a][c.settings]
    /\ c.version = deployed[a][c.settings] => flows[Address(c.settings)] = Flows(a, c.build)

AllCounted == \A a \in Apps : \A c \in Live(a) : Counted(a, c)

Before(c, d) == c.settings = d.settings => c.version < d.version

Increasing(cs) == \A i, j \in DOMAIN cs : i < j => Before(cs[i], cs[j])

Ordered ==
    /\ \A a \in Apps : Increasing(components[a])
    /\ Increasing(turn.made) /\ Increasing(turn.leaving)
    /\ turn.app \in Apps => \A c \in Range(components[turn.app]) :
          /\ \A d \in Range(turn.made) : Before(c, d)
          /\ \A d \in Range(turn.leaving) : Before(d, c)

Checked == turn.stage = "registering" => \A s \in Range(turn.todo) : Available(turn.app, s)

IInv == NetTypeOK /\ TurnOK /\ Backed /\ Owned /\ AllCounted /\ Ordered /\ Checked /\ HandlersAreUsed

-----------------------------------------------------------------------------
(* Settings, addresses and sequences.                                       *)

LEMMA SettingFacts ==
    ASSUME NEW s \in Settings
    PROVE  /\ s = [type |-> s.type, port |-> s.port, host |-> s.host, tls |-> s.tls]
           /\ s.type \in Types /\ (s.type = "SOCKET" <=> s.host = NoHost)
           /\ s.port \in Ports /\ Address(s) \in Addresses
           /\ Address(s).port = s.port /\ Address(s).type = s.type /\ Address(s).host = s.host
<1>1. PICK config \in Configs : s \in Range(config)
  BY DEF Settings
<1> QED
  BY <1>1, NetAssumption DEF Ports, Address, Addresses

\* one address and one certificate are one setting
LEMMA SameSetting ==
    ASSUME NEW s \in Settings, NEW t \in Settings, Address(s) = Address(t), s.tls = t.tls
    PROVE  s = t
<1>1. s.port = t.port /\ s.type = t.type /\ s.host = t.host
  BY SettingFacts
<1> QED
  BY <1>1, SettingFacts

LEMMA AppFlows ==
    ASSUME NEW a \in Apps, NEW build
    PROVE  /\ Flows(a, build).app = a /\ Flows(a, build).build = build
           /\ Flows(a, build) # NoFlows /\ NoFlows.app = "none" /\ NoFlows.app # a
BY NetAssumption DEF Flows, NoFlows

LEMMA Sequences ==
    ASSUME NEW S, NEW q \in Seq(S), NEW e \in S
    PROVE  /\ Range(q) \subseteq S
           /\ Append(q, e) \in Seq(S) /\ Range(Append(q, e)) = Range(q) \cup {e}
           /\ q # <<>> => /\ Head(q) \in Range(q) /\ Head(q) \in S
                          /\ Tail(q) \in Seq(S) /\ Range(Tail(q)) \subseteq Range(q)
<1>1. Range(q) \subseteq S
  BY DEF Range
<1>2. Append(q, e) \in Seq(S) /\ Range(Append(q, e)) = Range(q) \cup {e}
  <2>1. /\ Append(q, e) \in Seq(S)
        /\ DOMAIN Append(q, e) = DOMAIN q \cup {Len(q) + 1}
        /\ Append(q, e)[Len(q) + 1] = e
        /\ \A i \in DOMAIN q : Append(q, e)[i] = q[i]
    OBVIOUS
  <2> QED
    BY <2>1 DEF Range
<1>3. ASSUME q # <<>>
      PROVE  /\ Head(q) \in Range(q) /\ Head(q) \in S
             /\ Tail(q) \in Seq(S) /\ Range(Tail(q)) \subseteq Range(q)
  <2>1. Len(q) > 0 /\ 1 \in DOMAIN q /\ Head(q) = q[1]
    BY <1>3
  <2>2. Tail(q) \in Seq(S) /\ \A i \in DOMAIN Tail(q) : i + 1 \in DOMAIN q /\ Tail(q)[i] = q[i + 1]
    BY <1>3
  <2> QED
    BY <1>1, <2>1, <2>2 DEF Range
<1> QED
  BY <1>1, <1>2, <1>3

LEMMA IncreasingTail ==
    ASSUME NEW S, NEW q \in Seq(S), Increasing(q), q # <<>>
    PROVE  Increasing(Tail(q)) /\ \A d \in Range(Tail(q)) : Before(Head(q), d)
<1>1. 1 \in DOMAIN q /\ Head(q) = q[1]
  BY DEF Increasing
<1>2. \A i \in DOMAIN Tail(q) : i \in Nat \ {0} /\ i + 1 \in DOMAIN q /\ Tail(q)[i] = q[i + 1]
  BY DEF Increasing
<1>3. \A i \in DOMAIN Tail(q) : Before(q[1], q[i + 1])
  BY <1>1, <1>2 DEF Increasing
<1>4. ASSUME NEW i \in DOMAIN Tail(q), NEW j \in DOMAIN Tail(q), i < j
      PROVE  Before(Tail(q)[i], Tail(q)[j])
  <2>1. i + 1 < j + 1
    BY <1>2, <1>4
  <2> QED
    BY <1>2, <2>1 DEF Increasing
<1> QED
  BY <1>1, <1>2, <1>3, <1>4 DEF Increasing, Range

LEMMA IncreasingAppend ==
    ASSUME NEW S, NEW q \in Seq(S), NEW e \in S, Increasing(q), \A d \in Range(q) : Before(d, e)
    PROVE  Increasing(Append(q, e))
<1>1. /\ DOMAIN Append(q, e) = DOMAIN q \cup {Len(q) + 1}
      /\ Append(q, e)[Len(q) + 1] = e
      /\ \A i \in DOMAIN q : Append(q, e)[i] = q[i] /\ q[i] \in Range(q)
      /\ \A i \in DOMAIN q : i \in Nat /\ i < Len(q) + 1
  BY DEF Range
<1> QED
  BY <1>1 DEF Increasing

\* two deployed settings with one address are the same setting of one application
LEMMA OneBacked ==
    ASSUME Backed, NEW a \in Apps, NEW b \in Apps, NEW s \in Settings, NEW t \in Settings,
           deployed[a][s] > 0, deployed[b][t] > 0, Address(s) = Address(t)
    PROVE  a = b /\ s = t
<1>1. a = b
  BY DEF Backed
<1>2. s.port = t.port
  BY SettingFacts
<1>3. s.tls = t.tls
  BY <1>2 DEF Backed
<1> QED
  BY <1>1, <1>3, SameSetting

-----------------------------------------------------------------------------
(* What registering does, whether or not the port can be opened.            *)

\* whoever has the address of what is registered is the application itself, with
\* the same setting: others fail the checkers, other certificates the handler
LEMMA OwnAddress ==
    ASSUME NetTypeOK, Backed, NEW a \in Apps, NEW s \in Settings, Available(a, s), ~Conflict(s),
           NEW b \in Apps, NEW t \in Settings, deployed[b][t] > 0, Address(t) = Address(s)
    PROVE  b = a /\ t = s
<1>1. t.port = s.port /\ t.host = s.host
  BY SettingFacts
<1>2. b = a
  BY <1>1 DEF Available
<1>3. handlers[s.port].tls = t.tls /\ handlers[s.port].kind = Kind(t.type)
  BY <1>1 DEF Backed
<1>4. handlers[s.port] # NoHandler
  BY <1>3 DEF Kind, NoHandler, Handler
<1>5. t.tls = s.tls
  BY <1>3, <1>4 DEF Conflict
<1> QED
  BY <1>2, <1>5, SameSetting

LEMMA Registered ==
    ASSUME NetTypeOK, Backed, Owned, HandlersAreUsed,
           NEW a \in Apps, NEW s \in Settings, NEW open \in BOOLEAN,
           Available(a, s), ~Conflict(s),
           Increment(a, s), flows' = Add(Address(s), Flows(a, builds)), Started(s, open)
    PROVE  /\ Backed' /\ Owned' /\ HandlersAreUsed'
           /\ \A b \in Apps : \A c \in Components : Counted(b, c) => Counted(b, c)'
           /\ \A c \in Components : c = Component(s, deployed[a][s] + 1, builds) => Counted(a, c)'
           /\ \A b \in Apps \ {a} : \A t \in Settings : deployed'[b][t] = deployed[b][t]
           /\ \A r \in Addresses : flows[r] # NoFlows => flows'[r].app = flows[r].app
<1>1. \A b \in Apps : \A t \in Settings :
          /\ deployed[b][t] \in Nat
          /\ deployed'[b][t] = IF b = a /\ t = s THEN deployed[a][s] + 1 ELSE deployed[b][t]
  BY DEF NetTypeOK, Increment
<1>2. Address(s) \in Addresses /\ Address(s).port = s.port /\ s.port \in Ports
  BY SettingFacts
<1>3. \A r \in Addresses : flows'[r] = IF r = Address(s) THEN Flows(a, builds) ELSE flows[r]
  BY DEF NetTypeOK, Add
<1>4. /\ \A p \in Ports \ {s.port} : handlers'[p] = handlers[p]
      /\ handlers'[s.port].kind = Kind(s.type) /\ handlers'[s.port].tls = s.tls
      /\ handlers'[s.port] # NoHandler
      /\ handlers[s.port] # NoHandler =>
             handlers[s.port].kind = Kind(s.type) /\ handlers[s.port].tls = s.tls
  <2>1. \A p \in Ports \ {s.port} : handlers'[p] = handlers[p]
    BY DEF NetTypeOK, Started
  <2>2. handlers'[s.port] = IF handlers[s.port] = NoHandler
                            THEN Handler(Kind(s.type), s.tls, open, builds)
                            ELSE [handlers[s.port] EXCEPT !.open = open]
    BY <1>2 DEF NetTypeOK, Started
  <2>3. handlers[s.port] # NoHandler =>
             handlers[s.port].kind = Kind(s.type) /\ handlers[s.port].tls = s.tls
    BY DEF Conflict
  <2>4. handlers'[s.port].kind = Kind(s.type) /\ handlers'[s.port].tls = s.tls
    <3>1. CASE handlers[s.port] = NoHandler
      BY <2>2, <3>1 DEF Handler
    <3>2. CASE handlers[s.port] # NoHandler
      <4>1. handlers[s.port] \in [kind : {"none", "http", "socket"},
                                  tls : { t.tls : t \in Settings } \cup {"none"},
                                  open : BOOLEAN, since : Nat]
        BY <1>2 DEF NetTypeOK
      <4>2. /\ [handlers[s.port] EXCEPT !.open = open].kind = handlers[s.port].kind
            /\ [handlers[s.port] EXCEPT !.open = open].tls = handlers[s.port].tls
        BY <4>1
      <4> QED
        BY <2>2, <2>3, <3>2, <4>2
    <3> QED
      BY <3>1, <3>2
  <2>5. handlers'[s.port] # NoHandler
    BY <2>4 DEF Kind, NoHandler, Handler
  <2> QED
    BY <2>1, <2>3, <2>4, <2>5
<1>5. ASSUME NEW b \in Apps, NEW t \in Settings, deployed'[b][t] > 0
      PROVE  /\ flows'[Address(t)].app = b
             /\ handlers'[t.port].kind = Kind(t.type) /\ handlers'[t.port].tls = t.tls
  <2>1. CASE b = a /\ t = s
    BY <2>1, <1>2, <1>3, <1>4, AppFlows
  <2>2. CASE ~(b = a /\ t = s)
    <3>1. deployed[b][t] > 0
      BY <1>1, <1>5, <2>2
    <3>2. Address(t) # Address(s)
      BY <2>2, <3>1, OwnAddress
    <3>3. Address(t) \in Addresses /\ t.port \in Ports
      BY SettingFacts
    <3>4. flows'[Address(t)].app = b
      BY <1>3, <3>1, <3>2, <3>3 DEF Backed
    <3>5. handlers[t.port].kind = Kind(t.type) /\ handlers[t.port].tls = t.tls
      BY <3>1 DEF Backed
    <3>6. handlers[t.port] # NoHandler
      BY <3>5 DEF Kind, NoHandler, Handler
    <3> QED
      BY <1>4, <3>3, <3>4, <3>5, <3>6
  <2> QED
    BY <2>1, <2>2
<1>6. Backed'
  BY <1>5 DEF Backed
<1>7. Owned'
  <2> SUFFICES ASSUME NEW r \in Addresses, flows'[r] # NoFlows
               PROVE  \E b \in Apps, t \in Settings : Address(t) = r /\ deployed'[b][t] > 0
    BY DEF Owned
  <2>1. CASE r = Address(s)
    BY <1>1, <2>1
  <2>2. CASE r # Address(s)
    <3>1. PICK b \in Apps, t \in Settings : Address(t) = r /\ deployed[b][t] > 0
      BY <1>3, <2>2 DEF Owned
    <3> QED
      BY <1>1, <3>1
  <2> QED
    BY <2>1, <2>2
<1>8. HandlersAreUsed'
  <2> SUFFICES ASSUME NEW p \in Ports
               PROVE  handlers'[p] = NoHandler <=>
                          \A r \in Addresses : r.port = p => flows'[r] = NoFlows
    BY DEF HandlersAreUsed
  <2>1. CASE p = s.port
    BY <1>2, <1>3, <1>4, <2>1, AppFlows
  <2>2. CASE p # s.port
    BY <1>2, <1>3, <1>4, <2>2 DEF HandlersAreUsed
  <2> QED
    BY <2>1, <2>2
<1>9. ASSUME NEW b \in Apps, NEW c \in Components, Counted(b, c)
      PROVE  Counted(b, c)'
  <2>1. c.settings \in Settings /\ c.version \in Nat
    BY DEF Components
  <2>2. CASE b = a /\ c.settings = s
    BY <1>1, <1>9, <2>1, <2>2 DEF Counted
  <2>3. CASE ~(b = a /\ c.settings = s)
    <3>1. deployed'[b][c.settings] = deployed[b][c.settings] /\ deployed[b][c.settings] > 0
      BY <1>1, <1>9, <2>1, <2>3 DEF Counted
    <3>2. Address(c.settings) # Address(s)
      BY <2>1, <2>3, <3>1, OwnAddress
    <3>3. flows'[Address(c.settings)] = flows[Address(c.settings)]
      BY <1>3, <2>1, <3>2, SettingFacts
    <3> QED
      BY <1>9, <3>1, <3>3 DEF Counted
  <2> QED
    BY <2>2, <2>3
<1>10. ASSUME NEW c \in Components, c = Component(s, deployed[a][s] + 1, builds)
       PROVE  Counted(a, c)'
  <2>1. c.settings = s /\ c.version = deployed[a][s] + 1 /\ c.build = builds
    BY <1>10 DEF Component
  <2>2. deployed'[a][s] = deployed[a][s] + 1 /\ deployed[a][s] \in Nat
    BY <1>1
  <2>3. flows'[Address(s)] = Flows(a, builds)
    BY <1>2, <1>3
  <2> QED
    BY <2>1, <2>2, <2>3 DEF Counted
<1>11. \A r \in Addresses : flows[r] # NoFlows => flows'[r].app = flows[r].app
  <2> SUFFICES ASSUME NEW r \in Addresses, flows[r] # NoFlows
               PROVE  flows'[r].app = flows[r].app
    OBVIOUS
  <2>1. PICK b \in Apps, t \in Settings : Address(t) = r /\ deployed[b][t] > 0
    BY DEF Owned
  <2>2. flows[r].app = b
    BY <2>1 DEF Backed
  <2>3. CASE r = Address(s)
    BY <1>3, <2>1, <2>2, <2>3, OwnAddress, AppFlows
  <2>4. CASE r # Address(s)
    BY <1>3, <2>4
  <2> QED
    BY <2>3, <2>4
<1> QED
  BY <1>1, <1>6, <1>7, <1>8, <1>9, <1>10, <1>11

-----------------------------------------------------------------------------
(* What undeploying a component at its current version does.                *)

LEMMA Unregistered ==
    ASSUME NetTypeOK, Backed, Owned, HandlersAreUsed,
           NEW a \in Apps, NEW c \in Components, Counted(a, c), ~Superseded(a, c),
           flows' = Removed(a, c),
           handlers' = IF IsEmpty(c.settings.port, flows')
                       THEN [handlers EXCEPT ![c.settings.port] = NoHandler] ELSE handlers,
           deployed' = [deployed EXCEPT ![a][c.settings] = 0]
    PROVE  /\ Backed' /\ Owned' /\ HandlersAreUsed'
           /\ \A b \in Apps : \A d \in Components :
                  Counted(b, d) /\ (b # a \/ Before(c, d)) => Counted(b, d)'
           /\ \A r \in Addresses : flows'[r] # NoFlows => flows'[r] = flows[r]
<1> DEFINE s == c.settings
           r0 == Address(s)
<1>1. /\ s \in Settings /\ c.version \in Nat /\ r0 \in Addresses /\ r0.port = s.port
      /\ s.port \in Ports
  BY SettingFacts DEF Components
<1>2. deployed[a][s] = c.version /\ deployed[a][s] > 0
  BY <1>1 DEF Counted, Superseded
<1>3. flows[r0] = Flows(a, c.build)
  BY <1>2 DEF Counted
<1>4. \A b \in Apps : \A t \in Settings :
          /\ deployed[b][t] \in Nat
          /\ deployed'[b][t] = IF b = a /\ t = s THEN 0 ELSE deployed[b][t]
  <2>1. deployed \in [Apps -> [Settings -> Nat]]
    BY DEF NetTypeOK
  <2>2. deployed' = [deployed EXCEPT ![a][s] = 0]
    OBVIOUS
  <2> USE ONLY <2>1, <2>2, <1>1
  <2> HIDE DEF s, r0
  <2> QED
    OBVIOUS
<1>5. \A r \in Addresses : flows'[r] = IF r = r0 THEN NoFlows ELSE flows[r]
  BY <1>1, <1>3 DEF NetTypeOK, Removed
<1> HIDE DEF r0
<1>6. ASSUME NEW b \in Apps, NEW t \in Settings, deployed[b][t] > 0, ~(b = a /\ t = s)
      PROVE  /\ Address(t) # r0 /\ flows'[Address(t)] = flows[Address(t)]
             /\ flows'[Address(t)].app = b /\ flows'[Address(t)] # NoFlows
  <2>1. Address(t) # r0
    BY <1>1, <1>2, <1>6, OneBacked DEF r0
  <2>2. flows'[Address(t)] = flows[Address(t)]
    BY <1>5, <2>1, SettingFacts
  <2>3. flows'[Address(t)].app = b
    BY <1>6, <2>2 DEF Backed
  <2> QED
    BY <2>1, <2>2, <2>3, AppFlows
<1>7. ASSUME NEW b \in Apps, NEW t \in Settings, deployed'[b][t] > 0
      PROVE  /\ flows'[Address(t)].app = b
             /\ handlers'[t.port].kind = Kind(t.type) /\ handlers'[t.port].tls = t.tls
  <2>1. deployed[b][t] > 0 /\ ~(b = a /\ t = s)
    BY <1>4, <1>7
  <2>2. flows'[Address(t)].app = b /\ flows'[Address(t)] # NoFlows
    BY <1>6, <2>1
  <2>3. Address(t) \in Addresses /\ Address(t).port = t.port /\ t.port \in Ports
    BY SettingFacts
  <2>4. handlers'[t.port] = handlers[t.port]
    <3>1. CASE IsEmpty(s.port, flows')
      <4>1. t.port # s.port
        BY <2>2, <2>3, <3>1 DEF IsEmpty
      <4> QED
        BY <2>3, <3>1, <4>1 DEF NetTypeOK
    <3>2. CASE ~IsEmpty(s.port, flows')
      BY <3>2
    <3> QED
      BY <3>1, <3>2
  <2> QED
    BY <2>1, <2>2, <2>4 DEF Backed
<1>8. Backed'
  BY <1>7 DEF Backed
<1>9. Owned'
  <2> SUFFICES ASSUME NEW r \in Addresses, flows'[r] # NoFlows
               PROVE  \E b \in Apps, t \in Settings : Address(t) = r /\ deployed'[b][t] > 0
    BY DEF Owned
  <2>1. r # r0 /\ flows[r] # NoFlows
    BY <1>5
  <2>2. PICK b \in Apps, t \in Settings : Address(t) = r /\ deployed[b][t] > 0
    BY <2>1 DEF Owned
  <2>3. ~(b = a /\ t = s)
    BY <2>1, <2>2 DEF r0
  <2> QED
    BY <1>4, <2>2, <2>3
<1>10. HandlersAreUsed'
  <2> SUFFICES ASSUME NEW p \in Ports
               PROVE  handlers'[p] = NoHandler <=>
                          \A r \in Addresses : r.port = p => flows'[r] = NoFlows
    BY DEF HandlersAreUsed
  <2>1. CASE p # s.port
    <3>1. handlers'[p] = handlers[p]
      BY <2>1 DEF NetTypeOK
    <3>2. \A r \in Addresses : r.port = p => flows'[r] = flows[r]
      BY <1>1, <1>5, <2>1
    <3> QED
      BY <3>1, <3>2 DEF HandlersAreUsed
  <2>2. CASE p = s.port /\ IsEmpty(s.port, flows')
    BY <1>1, <2>2 DEF NetTypeOK, IsEmpty
  <2>3. CASE p = s.port /\ ~IsEmpty(s.port, flows')
    <3>1. handlers[s.port] # NoHandler
      BY <1>1, <1>2 DEF Backed, Kind, NoHandler, Handler
    <3> QED
      BY <2>3, <3>1 DEF IsEmpty
  <2> QED
    BY <2>1, <2>2, <2>3
<1>11. ASSUME NEW b \in Apps, NEW d \in Components, Counted(b, d), b # a \/ Before(c, d)
       PROVE  Counted(b, d)'
  <2>1. d.settings \in Settings /\ d.version \in Nat /\ deployed[b][d.settings] > 0
    BY <1>4, <1>11 DEF Components, Counted
  <2>2. ~(b = a /\ d.settings = s)
    BY <1>1, <1>2, <1>11, <2>1 DEF Before, Counted
  <2>3. deployed'[b][d.settings] = deployed[b][d.settings]
    BY <1>4, <2>1, <2>2
  <2>4. flows'[Address(d.settings)] = flows[Address(d.settings)]
    BY <1>6, <2>1, <2>2
  <2> QED
    BY <1>11, <2>3, <2>4 DEF Counted
<1>12. \A r \in Addresses : flows'[r] # NoFlows => flows'[r] = flows[r]
  BY <1>5
<1> QED
  BY <1>8, <1>9, <1>10, <1>11, <1>12

-----------------------------------------------------------------------------
(* The turn.                                                                *)

TurnType == [stage : {"idle", "checking", "registering", "leaving", "resuming"},
             app : Apps \cup {"none"}, todo : Seq(Settings), made : Seq(Components),
             leaving : Seq(Components)]

LEMMA TurnFields ==
    ASSUME NEW stage, NEW app, NEW todo, NEW made, NEW leaving
    PROVE  LET t == Turn(stage, app, todo, made, leaving)
           IN  t.stage = stage /\ t.app = app /\ t.todo = todo /\ t.made = made /\ t.leaving = leaving
BY DEF Turn

LEMMA TurnUpdates ==
    ASSUME NEW t \in TurnType, NEW x \in {"registering", "resuming"}, NEW cs \in Seq(Components)
    PROVE  /\ [t EXCEPT !.stage = x] = Turn(x, t.app, t.todo, t.made, t.leaving)
           /\ [t EXCEPT !.leaving = cs] = Turn(t.stage, t.app, t.todo, t.made, cs)
<1> t = [stage |-> t.stage, app |-> t.app, todo |-> t.todo, made |-> t.made, leaving |-> t.leaving]
  BY DEF TurnType
<1>1. [t EXCEPT !.stage = x] = Turn(x, t.app, t.todo, t.made, t.leaving)
  BY DEF Turn
<1>2. [t EXCEPT !.leaving = cs] = Turn(t.stage, t.app, t.todo, t.made, cs)
  BY DEF Turn
<1> QED
  BY <1>1, <1>2

\* stages of the turn that are steps of one deployment or undeployment
LEMMA TurnTyped ==
    ASSUME NEW stage \in {"idle", "checking", "registering", "leaving", "resuming"},
           NEW app \in Apps \cup {"none"}, NEW todo \in Seq(Settings),
           NEW made \in Seq(Components), NEW leaving \in Seq(Components)
    PROVE  Turn(stage, app, todo, made, leaving) \in TurnType
BY DEF Turn, TurnType

LEMMA Empty ==
    /\ <<>> \in Seq(Settings) /\ <<>> \in Seq(Components)
    /\ Range(<<>>) = {} /\ Increasing(<<>>)
BY DEF Range, Increasing

-----------------------------------------------------------------------------
(* Each action keeps the invariant.                                         *)

\* the step of AddressesAreKept
Kept == \A r \in Addresses :
            flows[r] # NoFlows /\ flows'[r] # NoFlows => flows'[r].app = flows[r].app

LEMMA Frame ==
    ASSUME Backed, Owned, HandlersAreUsed, UNCHANGED <<handlers, flows, deployed>>
    PROVE  /\ Backed' /\ Owned' /\ HandlersAreUsed' /\ Kept
           /\ \A a \in Apps : \A c \in Components : Counted(a, c) => Counted(a, c)'
           /\ \A a \in Apps : \A s \in Settings : Available(a, s) => Available(a, s)'
<1>1. handlers' = handlers /\ flows' = flows /\ deployed' = deployed
  OBVIOUS
<1>2. Backed'
  BY <1>1 DEF Backed
<1>3. Owned'
  BY <1>1 DEF Owned
<1>4. HandlersAreUsed'
  BY <1>1 DEF HandlersAreUsed
<1>5. Kept
  BY <1>1 DEF Kept
<1>6. \A a \in Apps : \A c \in Components : Counted(a, c) => Counted(a, c)'
  BY <1>1 DEF Counted
<1>7. \A a \in Apps : \A s \in Settings : Available(a, s) => Available(a, s)'
  BY <1>1 DEF Available
<1> QED
  BY <1>2, <1>3, <1>4, <1>5, <1>6, <1>7

LEMMA TurnParts ==
    ASSUME NetTypeOK
    PROVE  /\ turn \in TurnType /\ turn.todo \in Seq(Settings)
           /\ turn.made \in Seq(Components) /\ turn.leaving \in Seq(Components)
           /\ \A a \in Apps : components[a] \in Seq(Components) /\ Range(components[a]) \subseteq Components
           /\ Range(turn.made) \subseteq Components /\ Range(turn.leaving) \subseteq Components
           /\ \A a \in Apps : Live(a) \subseteq Components
<1>1. turn \in TurnType
  BY DEF NetTypeOK, TurnType
<1>2. turn.todo \in Seq(Settings) /\ turn.made \in Seq(Components) /\ turn.leaving \in Seq(Components)
  BY <1>1 DEF TurnType
<1>3. \A a \in Apps : components[a] \in Seq(Components)
  BY DEF NetTypeOK
<1>4. \A q \in Seq(Components) : Range(q) \subseteq Components
  BY DEF Range
<1> QED
  BY <1>1, <1>2, <1>3, <1>4 DEF Live

LEMMA ConfigTyped ==
    ASSUME NEW config \in Configs
    PROVE  config \in Seq(Settings)
<1>1. config \in Seq(Range(config)) /\ Range(config) \subseteq Settings
  BY NetAssumption DEF Settings
<1> QED
  BY <1>1

LEMMA BeginKeeps ==
    ASSUME IInv, NEW a \in Apps, Begin(a)
    PROVE  IInv' /\ Kept
<1>1. PICK config \in Configs : turn' = Turn("checking", a, config, <<>>, <<>>)
  BY DEF Begin
<1>2. /\ turn'.stage = "checking" /\ turn'.app = a /\ turn'.made = <<>> /\ turn'.leaving = <<>>
      /\ turn' \in TurnType
  <2>1. /\ turn'.stage = "checking" /\ turn'.app = a
        /\ turn'.made = <<>> /\ turn'.leaving = <<>>
    BY <1>1, TurnFields
  <2>2. turn' \in TurnType
    BY <1>1, ConfigTyped, TurnTyped, Empty
  <2> QED
    BY <2>1, <2>2
<1>3. /\ UNCHANGED <<handlers, flows, deployed>> /\ components' = components
      /\ builds' = builds + 1 /\ spoiled' = spoiled
  BY DEF Begin
<1>4. NetTypeOK'
  BY <1>2, <1>3 DEF IInv, NetTypeOK, TurnType
<1>5. Backed' /\ Owned' /\ HandlersAreUsed' /\ Kept
  BY <1>3, Frame DEF IInv
<1>6. AllCounted'
  <2>1. \A b \in Apps : Live(b)' \subseteq Live(b)
    BY <1>2, <1>3, Empty DEF Live
  <2> QED
    BY <1>3, <2>1, Frame, TurnParts DEF IInv, AllCounted
<1>7. Ordered'
  BY <1>2, <1>3, Empty DEF IInv, Ordered
<1>8. TurnOK' /\ Checked'
  BY <1>2 DEF TurnOK, Checked
<1> QED
  BY <1>4, <1>5, <1>6, <1>7, <1>8 DEF IInv

LEMMA CheckKeeps ==
    ASSUME IInv, Check
    PROVE  IInv' /\ Kept
<1> DEFINE next == IF \A s \in Range(turn.todo) : Available(turn.app, s)
                   THEN "registering" ELSE "resuming"
<1>1. next \in {"registering", "resuming"} /\ turn' = [turn EXCEPT !.stage = next]
  BY DEF Check
<1>2. next = "registering" => \A s \in Range(turn.todo) : Available(turn.app, s)
  OBVIOUS
<1> HIDE DEF next
<1>3. turn' = Turn(next, turn.app, turn.todo, turn.made, turn.leaving)
  BY <1>1, TurnUpdates, TurnParts, Empty DEF IInv
<1>4. /\ turn'.stage = next /\ turn'.app = turn.app /\ turn'.todo = turn.todo
      /\ turn'.made = turn.made /\ turn'.leaving = turn.leaving
  BY <1>3, TurnFields
<1>5. turn.app \in Apps
  BY DEF IInv, TurnOK, Check
<1>6. turn' \in TurnType
  <2>1. turn.todo \in Seq(Settings) /\ turn.made \in Seq(Components) /\ turn.leaving \in Seq(Components)
    BY TurnParts DEF IInv
  <2>2. /\ next \in {"idle", "checking", "registering", "leaving", "resuming"}
        /\ turn.app \in Apps \cup {"none"}
    BY <1>1, <1>5
  <2>3. Turn(next, turn.app, turn.todo, turn.made, turn.leaving) \in TurnType
    BY <2>1, <2>2, TurnTyped, Zenon
  <2> QED
    BY <1>3, <2>3
<1>7. /\ UNCHANGED <<handlers, flows, deployed>> /\ components' = components
      /\ builds' = builds /\ spoiled' = spoiled
  BY DEF Check
<1>8. NetTypeOK'
  BY <1>6, <1>7 DEF IInv, NetTypeOK, TurnType
<1>9. Backed' /\ Owned' /\ HandlersAreUsed' /\ Kept
  BY <1>7, Frame DEF IInv
<1>10. AllCounted'
  <2>1. \A b \in Apps : Live(b)' = Live(b)
    BY <1>4, <1>7 DEF Live
  <2> QED
    BY <1>7, <2>1, Frame, TurnParts DEF IInv, AllCounted
<1>11. Ordered'
  BY <1>4, <1>7 DEF IInv, Ordered
<1>12. TurnOK'
  BY <1>1, <1>4, <1>5 DEF TurnOK
<1>13. Checked'
  BY <1>2, <1>4, <1>5, <1>7, Frame, TurnParts, SettingFacts DEF IInv, Checked, Available
<1> QED
  BY <1>8, <1>9, <1>10, <1>11, <1>12, <1>13 DEF IInv

LEMMA DoneKeeps ==
    ASSUME IInv, Done
    PROVE  IInv' /\ Kept
<1>1. /\ turn'.stage = "idle" /\ turn'.app = "none" /\ turn'.made = <<>> /\ turn'.leaving = <<>>
      /\ turn' \in TurnType
  <2>1. turn' = Turn("idle", "none", <<>>, <<>>, <<>>)
    BY DEF Done, NoTurn
  <2>2. /\ turn'.stage = "idle" /\ turn'.app = "none"
        /\ turn'.made = <<>> /\ turn'.leaving = <<>>
    BY <2>1, TurnFields
  <2>3. turn' \in TurnType
    BY <2>1, TurnTyped, Empty
  <2> QED
    BY <2>2, <2>3
<1>2. /\ UNCHANGED <<handlers, flows, deployed>> /\ components' = components
      /\ builds' = builds /\ spoiled' = spoiled
  BY DEF Done
<1>3. NetTypeOK'
  BY <1>1, <1>2 DEF IInv, NetTypeOK, TurnType
<1>4. Backed' /\ Owned' /\ HandlersAreUsed' /\ Kept
  BY <1>2, Frame DEF IInv
<1>5. AllCounted'
  <2>1. \A b \in Apps : Live(b)' \subseteq Live(b)
    BY <1>1, <1>2, Empty DEF Live
  <2> QED
    BY <1>2, <2>1, Frame, TurnParts DEF IInv, AllCounted
<1>6. Ordered'
  BY <1>1, <1>2, Empty DEF IInv, Ordered
<1>7. TurnOK' /\ Checked'
  BY <1>1 DEF TurnOK, Checked
<1> QED
  BY <1>3, <1>4, <1>5, <1>6, <1>7 DEF IInv

LEMMA StartedTyped ==
    ASSUME NetTypeOK, NEW s \in Settings, NEW open \in BOOLEAN, Started(s, open)
    PROVE  handlers' \in [Ports -> [kind : {"none", "http", "socket"},
                                    tls : { t.tls : t \in Settings } \cup {"none"},
                                    open : BOOLEAN, since : Nat]]
<1> DEFINE H == [kind : {"none", "http", "socket"}, tls : { t.tls : t \in Settings } \cup {"none"},
                 open : BOOLEAN, since : Nat]
<1>1. handlers \in [Ports -> H] /\ builds \in Nat /\ s.port \in Ports
  BY SettingFacts DEF NetTypeOK
<1>2. Handler(Kind(s.type), s.tls, open, builds) \in H
  BY <1>1 DEF Handler, Kind
<1>3. \A h \in H : [h EXCEPT !.open = open] \in H
  OBVIOUS
<1> HIDE DEF H
<1>4. handlers' = [handlers EXCEPT ![s.port] =
                      IF handlers[s.port] = NoHandler THEN Handler(Kind(s.type), s.tls, open, builds)
                      ELSE [handlers[s.port] EXCEPT !.open = open]]
  BY DEF Started
<1>5. handlers' \in [Ports -> H]
  BY <1>1, <1>2, <1>3, <1>4
<1> QED
  BY <1>5 DEF H

LEMMA RegisterKeeps ==
    ASSUME IInv, Register
    PROVE  IInv' /\ Kept
<1>1. /\ turn.stage = "registering" /\ turn.todo # <<>>
      /\ components' = components /\ builds' = builds /\ spoiled' = spoiled
  BY DEF Register
<1>2. /\ turn.app \in Apps /\ builds \in Nat
      /\ Head(turn.todo) \in Settings /\ Head(turn.todo) \in Range(turn.todo)
      /\ Tail(turn.todo) \in Seq(Settings) /\ Range(Tail(turn.todo)) \subseteq Range(turn.todo)
  <2>1. turn.app \in Apps /\ builds \in Nat
    BY <1>1 DEF IInv, TurnOK, NetTypeOK
  <2>2. turn.todo \in Seq(Settings)
    BY TurnParts DEF IInv
  <2>3. Head(turn.todo) \in Settings
    BY <1>1, <2>2
  <2> QED
    BY <1>1, <2>1, <2>2, <2>3, Sequences
<1>3. PICK a \in Apps, s \in Settings : a = turn.app /\ s = Head(turn.todo)
  BY <1>2
<1>4. deployed[a][s] \in Nat
  BY DEF IInv, NetTypeOK
<1>5. PICK made \in Components : made = Component(s, deployed[a][s] + 1, builds)
  <2>1. Component(s, deployed[a][s] + 1, builds) \in Components
    BY <1>2, <1>4 DEF Component, Components
  <2> QED
    BY <2>1, Zenon
<1>6. made.settings = s /\ made.version = deployed[a][s] + 1
  BY <1>5 DEF Component
<1>7. /\ ~Conflict(s) /\ Increment(a, s) /\ flows' = Add(Address(s), Flows(a, builds))
      /\ Started(s, TRUE)
      /\ turn' = Turn("registering", a, Tail(turn.todo), Append(turn.made, made), <<>>)
  BY <1>3, <1>5 DEF Register
<1>8. Available(a, s)
  BY <1>1, <1>2, <1>3 DEF IInv, Checked
<1>9. /\ Backed' /\ Owned' /\ HandlersAreUsed'
      /\ \A b \in Apps : \A c \in Components : Counted(b, c) => Counted(b, c)'
      /\ \A c \in Components : c = made => Counted(a, c)'
      /\ \A b \in Apps \ {a} : \A t \in Settings : deployed'[b][t] = deployed[b][t]
      /\ \A r \in Addresses : flows[r] # NoFlows => flows'[r].app = flows[r].app
  BY <1>5, <1>7, <1>8, Registered DEF IInv
<1>10. turn.made \in Seq(Components) /\ Append(turn.made, made) \in Seq(Components)
      /\ Range(Append(turn.made, made)) = Range(turn.made) \cup {made}
  BY TurnParts, Sequences DEF IInv
<1>11. /\ turn'.stage = "registering" /\ turn'.app = a /\ turn'.todo = Tail(turn.todo)
      /\ turn'.made = Append(turn.made, made) /\ turn'.leaving = <<>>
  <2>1. turn' = Turn("registering", a, Tail(turn.todo), Append(turn.made, made), <<>>)
    BY <1>7
  <2> DEFINE todo == Tail(turn.todo)
             more == Append(turn.made, made)
  <2>2. turn' = Turn("registering", a, todo, more, <<>>)
    BY <2>1
  <2> HIDE DEF todo, more
  <2>3. /\ turn'.stage = "registering" /\ turn'.app = a /\ turn'.todo = todo
        /\ turn'.made = more /\ turn'.leaving = <<>>
    BY <2>2 DEF Turn
  <2> QED
    BY <2>3 DEF todo, more
<1>12. turn' \in TurnType
  BY <1>2, <1>7, <1>10, TurnTyped, Empty
<1>13. NetTypeOK'
  <2>1. flows' \in [Addresses -> [app : Apps \cup {"none"}, build : Nat]]
    <3>1. Flows(a, builds) \in [app : Apps \cup {"none"}, build : Nat]
      BY <1>2 DEF Flows
    <3> QED
      BY <1>7, <3>1 DEF IInv, NetTypeOK, Add
  <2>2. deployed' \in [Apps -> [Settings -> Nat]]
    BY <1>4, <1>7 DEF IInv, NetTypeOK, Increment
  <2>3. handlers' \in [Ports -> [kind : {"none", "http", "socket"},
                                 tls : { t.tls : t \in Settings } \cup {"none"},
                                 open : BOOLEAN, since : Nat]]
    BY <1>7, StartedTyped DEF IInv
  <2> QED
    BY <1>1, <1>12, <2>1, <2>2, <2>3 DEF IInv, NetTypeOK, TurnType
<1>14. AllCounted'
  <2> SUFFICES ASSUME NEW b \in Apps, NEW c \in Live(b)'
               PROVE  Counted(b, c)'
    BY DEF AllCounted
  <2>1. CASE b = a /\ c = made
    BY <1>9, <2>1
  <2>2. CASE ~(b = a /\ c = made)
    <3>1. c \in Live(b)
      BY <1>1, <1>3, <1>10, <1>11, <2>2, Empty DEF Live
    <3> QED
      BY <1>9, <3>1, TurnParts DEF IInv, AllCounted
  <2> QED
    BY <2>1, <2>2
<1>15. Ordered'
  <2>1. \A c \in Live(a) : Before(c, made)
    <3> SUFFICES ASSUME NEW c \in Live(a), c.settings = s
                 PROVE  c.version < made.version
      BY <1>6 DEF Before
    <3>1. c.version <= deployed[a][s] /\ c.version \in Nat
      BY TurnParts DEF IInv, AllCounted, Counted, Components
    <3> QED
      BY <1>4, <1>6, <3>1
  <2>2. Range(turn.made) \subseteq Live(a) /\ Range(components[a]) \subseteq Live(a)
    BY <1>3 DEF Live
  <2>3. Increasing(turn'.made)
    BY <1>10, <1>11, <2>1, <2>2, IncreasingAppend DEF IInv, Ordered
  <2>4. \A c \in Range(components[a]) : \A d \in Range(turn'.made) : Before(c, d)
    BY <1>3, <1>10, <1>11, <2>1, <2>2 DEF IInv, Ordered
  <2> QED
    BY <1>1, <1>11, <2>3, <2>4, Empty DEF IInv, Ordered
<1>16. TurnOK'
  BY <1>11 DEF TurnOK
<1>17. Checked'
  <2> SUFFICES ASSUME NEW t \in Range(turn'.todo)
               PROVE  Available(a, t)'
    BY <1>11 DEF Checked
  <2>1. Available(a, t)
    BY <1>1, <1>2, <1>3, <1>11 DEF IInv, Checked
  <2> QED
    BY <1>9, <2>1 DEF Available
<1>18. Kept
  BY <1>9 DEF Kept
<1> QED
  BY <1>9, <1>13, <1>14, <1>15, <1>16, <1>17, <1>18 DEF IInv

LEMMA RegisterFailsKeeps ==
    ASSUME IInv, RegisterFails
    PROVE  IInv' /\ Kept
<1> DEFINE s == Head(turn.todo)
           a == turn.app
<1>1. /\ turn.stage = "registering" /\ turn.todo # <<>>
      /\ turn' = Turn("resuming", a, <<>>, <<>>, <<>>)
      /\ components' = components /\ builds' = builds
  BY DEF RegisterFails
<1>2. a \in Apps /\ s \in Settings /\ s \in Range(turn.todo) /\ builds \in Nat
  <2>1. turn.app \in Apps /\ builds \in Nat
    BY <1>1 DEF IInv, TurnOK, NetTypeOK
  <2>2. turn.todo \in Seq(Settings)
    BY TurnParts DEF IInv
  <2>3. Head(turn.todo) \in Settings
    BY <1>1, <2>2
  <2> QED
    BY <1>1, <2>1, <2>2, <2>3, Sequences
<1>3. Available(a, s)
  BY <1>1, <1>2 DEF IInv, Checked
<1>4. /\ turn'.stage = "resuming" /\ turn'.app = a /\ turn'.made = <<>> /\ turn'.leaving = <<>>
  BY <1>1, TurnFields
<1>5. turn' \in TurnType
  BY <1>1, <1>2, TurnTyped, Empty
<1>6. /\ Backed' /\ Owned' /\ HandlersAreUsed' /\ Kept
      /\ \A b \in Apps : \A c \in Components : Counted(b, c) => Counted(b, c)'
      /\ flows' \in [Addresses -> [app : Apps \cup {"none"}, build : Nat]]
      /\ deployed' \in [Apps -> [Settings -> Nat]]
      /\ handlers' \in [Ports -> [kind : {"none", "http", "socket"},
                                  tls : { t.tls : t \in Settings } \cup {"none"},
                                  open : BOOLEAN, since : Nat]]
      /\ spoiled' \subseteq Apps
  <2>1. CASE /\ UNCHANGED <<handlers, flows, deployed>>
             /\ spoiled' = IF turn.made # <<>> THEN spoiled \cup {a} ELSE spoiled
    <3>1. /\ UNCHANGED <<handlers, flows, deployed>>
          /\ spoiled' = IF turn.made # <<>> THEN spoiled \cup {a} ELSE spoiled
      BY <2>1
    <3>2. spoiled' \subseteq Apps
      BY <1>2, <3>1 DEF IInv, NetTypeOK
    <3> QED
      BY <3>1, <3>2, Frame DEF IInv, NetTypeOK
  <2>2. CASE /\ ~Conflict(s) /\ Increment(a, s)
             /\ flows' = Add(Address(s), Flows(a, builds)) /\ Started(s, FALSE)
             /\ spoiled' = spoiled \cup {a}
    <3>1. /\ Increment(a, s) /\ flows' = Add(Address(s), Flows(a, builds)) /\ Started(s, FALSE)
          /\ spoiled' = spoiled \cup {a}
      BY <2>2
    <3>2. /\ Backed' /\ Owned' /\ HandlersAreUsed'
          /\ \A b \in Apps : \A c \in Components : Counted(b, c) => Counted(b, c)'
          /\ \A r \in Addresses : flows[r] # NoFlows => flows'[r].app = flows[r].app
      BY <1>2, <1>3, <2>2, <3>1, Registered DEF IInv
    <3>3. flows' \in [Addresses -> [app : Apps \cup {"none"}, build : Nat]]
      <4>1. Flows(a, builds) \in [app : Apps \cup {"none"}, build : Nat]
        BY <1>2 DEF Flows
      <4> QED
        BY <3>1, <4>1 DEF IInv, NetTypeOK, Add
    <3>4. deployed' \in [Apps -> [Settings -> Nat]]
      BY <1>2, <3>1 DEF IInv, NetTypeOK, Increment
    <3>5. handlers' \in [Ports -> [kind : {"none", "http", "socket"},
                                   tls : { t.tls : t \in Settings } \cup {"none"},
                                   open : BOOLEAN, since : Nat]]
      BY <1>2, <3>1, StartedTyped DEF IInv
    <3>6. spoiled' \subseteq Apps
      BY <1>2, <3>1 DEF IInv, NetTypeOK
    <3>7. Kept
      BY <3>2 DEF Kept
    <3> QED
      BY <3>2, <3>3, <3>4, <3>5, <3>6, <3>7
  <2> QED
    BY <2>1, <2>2 DEF RegisterFails
<1> HIDE DEF s, a
<1>7. NetTypeOK'
  BY <1>1, <1>5, <1>6 DEF IInv, NetTypeOK, TurnType
<1>8. AllCounted'
  <2>1. \A b \in Apps : Live(b)' \subseteq Live(b)
    BY <1>1, <1>4, Empty DEF Live
  <2> QED
    BY <1>6, <2>1, TurnParts DEF IInv, AllCounted
<1>9. Ordered'
  BY <1>1, <1>4, Empty DEF IInv, Ordered
<1>10. TurnOK' /\ Checked'
  BY <1>2, <1>4 DEF TurnOK, Checked
<1> QED
  BY <1>6, <1>7, <1>8, <1>9, <1>10 DEF IInv

LEMMA PublishKeeps ==
    ASSUME IInv, Publish
    PROVE  IInv' /\ Kept
<1>1. PICK a \in Apps : a = turn.app
  BY DEF IInv, TurnOK, Publish
<1>2. /\ components' = [components EXCEPT ![a] = turn.made]
      /\ turn' = Turn("leaving", a, <<>>, <<>>, components[a])
      /\ UNCHANGED <<handlers, flows, deployed>> /\ builds' = builds /\ spoiled' = spoiled
  BY <1>1 DEF Publish
<1>3. /\ turn'.stage = "leaving" /\ turn'.app = a /\ turn'.made = <<>>
      /\ turn'.leaving = components[a]
  BY <1>2, TurnFields
<1>4. turn' \in TurnType
  BY <1>2, TurnParts, TurnTyped, Empty DEF IInv
<1>5. /\ components' \in [Apps -> Seq(Components)] /\ components'[a] = turn.made
      /\ \A b \in Apps \ {a} : components'[b] = components[b]
  BY <1>2, TurnParts DEF IInv, NetTypeOK
<1>6. NetTypeOK'
  BY <1>2, <1>4, <1>5 DEF IInv, NetTypeOK, TurnType
<1>7. Backed' /\ Owned' /\ HandlersAreUsed' /\ Kept
  BY <1>2, Frame DEF IInv
<1>8. AllCounted'
  <2>1. \A b \in Apps : Live(b)' \subseteq Live(b)
    BY <1>1, <1>3, <1>5, Empty DEF Live
  <2> QED
    BY <1>2, <2>1, Frame, TurnParts DEF IInv, AllCounted
<1>9. Ordered'
  <2>1. \A b \in Apps : Increasing(components'[b])
    BY <1>5 DEF IInv, Ordered
  <2>2. \A c \in Range(components'[a]) : \A d \in Range(turn'.leaving) : Before(d, c)
    BY <1>1, <1>3, <1>5 DEF IInv, Ordered
  <2> QED
    BY <1>3, <2>1, <2>2, Empty DEF IInv, Ordered
<1>10. TurnOK' /\ Checked'
  BY <1>3 DEF TurnOK, Checked
<1> QED
  BY <1>6, <1>7, <1>8, <1>9, <1>10 DEF IInv

LEMMA UndeployApplicationKeeps ==
    ASSUME IInv, NEW a \in Apps, UndeployApplication(a)
    PROVE  IInv' /\ Kept
<1>1. /\ components' = [components EXCEPT ![a] = <<>>]
      /\ turn' = Turn("leaving", a, <<>>, <<>>, components[a])
      /\ UNCHANGED <<handlers, flows, deployed>> /\ builds' = builds /\ spoiled' = spoiled
  BY DEF UndeployApplication
<1>2. /\ turn'.stage = "leaving" /\ turn'.app = a /\ turn'.made = <<>>
      /\ turn'.leaving = components[a]
  BY <1>1, TurnFields
<1>3. turn' \in TurnType
  BY <1>1, TurnParts, TurnTyped, Empty DEF IInv
<1>4. /\ components' \in [Apps -> Seq(Components)] /\ components'[a] = <<>>
      /\ \A b \in Apps \ {a} : components'[b] = components[b]
  BY <1>1, Empty DEF IInv, NetTypeOK
<1>5. NetTypeOK'
  BY <1>1, <1>3, <1>4 DEF IInv, NetTypeOK, TurnType
<1>6. Backed' /\ Owned' /\ HandlersAreUsed' /\ Kept
  BY <1>1, Frame DEF IInv
<1>7. AllCounted'
  <2>1. \A b \in Apps : Live(b)' \subseteq Live(b)
    BY <1>2, <1>4, Empty DEF Live
  <2> QED
    BY <1>1, <2>1, Frame, TurnParts DEF IInv, AllCounted
<1>8. Ordered'
  BY <1>2, <1>4, Empty DEF IInv, Ordered
<1>9. TurnOK' /\ Checked'
  BY <1>2 DEF TurnOK, Checked
<1> QED
  BY <1>5, <1>6, <1>7, <1>8, <1>9 DEF IInv

LEMMA LeaveKeeps ==
    ASSUME IInv, Leave
    PROVE  IInv' /\ Kept
<1>1. /\ turn.stage = "leaving" /\ turn.leaving # <<>> /\ turn.made = <<>>
      /\ turn' = [turn EXCEPT !.leaving = Tail(turn.leaving)]
      /\ components' = components /\ builds' = builds /\ spoiled' = spoiled
  BY DEF Leave, IInv, TurnOK
<1>2. PICK a \in Apps : a = turn.app
  BY <1>1 DEF IInv, TurnOK
<1>3. turn.leaving \in Seq(Components)
  BY TurnParts DEF IInv
<1>4. PICK c \in Components : c = Head(turn.leaving)
  BY <1>1, <1>3
<1>5. /\ c \in Range(turn.leaving) /\ Tail(turn.leaving) \in Seq(Components)
      /\ Range(Tail(turn.leaving)) \subseteq Range(turn.leaving)
  BY <1>1, <1>3, <1>4, Sequences
<1>6. Increasing(Tail(turn.leaving)) /\ \A d \in Range(Tail(turn.leaving)) : Before(c, d)
  BY <1>1, <1>3, <1>4, IncreasingTail DEF IInv, Ordered
<1>7. /\ turn'.stage = "leaving" /\ turn'.app = a /\ turn'.made = <<>>
      /\ turn'.leaving = Tail(turn.leaving) /\ turn' \in TurnType
  <2> DEFINE rest == Tail(turn.leaving)
  <2>1. rest \in Seq(Components) /\ turn' = [turn EXCEPT !.leaving = rest]
    BY <1>1, <1>5
  <2> HIDE DEF rest
  <2>2. turn' = Turn(turn.stage, turn.app, turn.todo, turn.made, rest)
    BY <2>1, TurnUpdates, TurnParts DEF IInv
  <2>3. /\ turn'.stage = turn.stage /\ turn'.app = turn.app /\ turn'.made = turn.made
        /\ turn'.leaving = rest
    BY <2>2 DEF Turn
  <2>4. turn' \in TurnType
    <3>1. turn' = Turn("leaving", a, turn.todo, <<>>, rest)
      BY <1>1, <1>2, <2>2
    <3>2. turn.todo \in Seq(Settings)
      BY TurnParts DEF IInv
    <3>3. rest \in Seq(Components)
      BY <2>1
    <3>4. Turn("leaving", a, turn.todo, <<>>, rest) \in TurnType
      BY <3>2, <3>3, TurnTyped, Empty
    <3> QED
      BY <3>1, <3>4
  <2> QED
    BY <1>1, <1>2, <2>3, <2>4 DEF rest
<1>8. /\ Backed' /\ Owned' /\ HandlersAreUsed' /\ Kept
      /\ \A b \in Apps : \A d \in Components :
             Counted(b, d) /\ (b # a \/ Before(c, d)) => Counted(b, d)'
      /\ flows' \in [Addresses -> [app : Apps \cup {"none"}, build : Nat]]
      /\ deployed' \in [Apps -> [Settings -> Nat]]
      /\ handlers' \in [Ports -> [kind : {"none", "http", "socket"},
                                  tls : { t.tls : t \in Settings } \cup {"none"},
                                  open : BOOLEAN, since : Nat]]
  <2>1. CASE handlers[c.settings.port] = NoHandler \/ Superseded(a, c)
    <3>1. UNCHANGED <<handlers, flows, deployed>>
      BY <1>2, <1>4, <2>1 DEF Leave
    <3> QED
      BY <3>1, Frame DEF IInv, NetTypeOK
  <2>2. CASE ~(handlers[c.settings.port] = NoHandler \/ Superseded(a, c))
    <3>1. /\ flows' = Removed(a, c)
          /\ handlers' = IF IsEmpty(c.settings.port, flows')
                         THEN [handlers EXCEPT ![c.settings.port] = NoHandler] ELSE handlers
          /\ deployed' = [deployed EXCEPT ![a][c.settings] = 0]
      BY <1>2, <1>4, <2>2 DEF Leave
    <3>2. Counted(a, c)
      BY <1>2, <1>5 DEF IInv, AllCounted, Live
    <3>3. /\ Backed' /\ Owned' /\ HandlersAreUsed'
          /\ \A b \in Apps : \A d \in Components :
                 Counted(b, d) /\ (b # a \/ Before(c, d)) => Counted(b, d)'
          /\ \A r \in Addresses : flows'[r] # NoFlows => flows'[r] = flows[r]
      BY <2>2, <3>1, <3>2, Unregistered DEF IInv
    <3>4. flows' \in [Addresses -> [app : Apps \cup {"none"}, build : Nat]]
      <4>1. NoFlows \in [app : Apps \cup {"none"}, build : Nat]
        BY DEF NoFlows, Flows
      <4> QED
        BY <3>1, <4>1 DEF IInv, NetTypeOK, Removed
    <3>5. deployed' \in [Apps -> [Settings -> Nat]]
      BY <3>1 DEF IInv, NetTypeOK, Components
    <3>6. handlers' \in [Ports -> [kind : {"none", "http", "socket"},
                                   tls : { t.tls : t \in Settings } \cup {"none"},
                                   open : BOOLEAN, since : Nat]]
      <4>1. NoHandler \in [kind : {"none", "http", "socket"},
                           tls : { t.tls : t \in Settings } \cup {"none"},
                           open : BOOLEAN, since : Nat]
        BY DEF NoHandler, Handler
      <4> QED
        BY <3>1, <4>1 DEF IInv, NetTypeOK
    <3> QED
      BY <3>3, <3>4, <3>5, <3>6 DEF Kept
  <2> QED
    BY <2>1, <2>2
<1>9. NetTypeOK'
  BY <1>1, <1>7, <1>8 DEF IInv, NetTypeOK, TurnType
<1>10. AllCounted'
  <2> SUFFICES ASSUME NEW b \in Apps, NEW d \in Live(b)'
               PROVE  Counted(b, d)'
    BY DEF AllCounted
  <2>1. d \in Live(b) /\ Counted(b, d) /\ d \in Components
    BY <1>1, <1>2, <1>5, <1>7, Empty, TurnParts DEF IInv, AllCounted, Live
  <2>2. b # a \/ Before(c, d)
    <3> SUFFICES ASSUME b = a
                 PROVE  Before(c, d)
      OBVIOUS
    <3>1. CASE d \in Range(Tail(turn.leaving))
      BY <1>6, <3>1
    <3>2. CASE d \in Range(components[a])
      BY <1>2, <1>5, <3>2 DEF IInv, Ordered
    <3> QED
      BY <1>1, <1>7, <3>1, <3>2, Empty DEF Live
  <2> QED
    BY <1>8, <2>1, <2>2
<1>11. Ordered'
  BY <1>1, <1>2, <1>5, <1>6, <1>7, Empty DEF IInv, Ordered
<1>12. TurnOK' /\ Checked'
  BY <1>7 DEF TurnOK, Checked
<1> QED
  BY <1>8, <1>9, <1>10, <1>11, <1>12 DEF IInv

-----------------------------------------------------------------------------
LEMMA InitHolds ==
    ASSUME NetInit
    PROVE  IInv
<1>1. /\ turn \in TurnType /\ turn.stage = "idle" /\ turn.app = "none"
      /\ turn.made = <<>> /\ turn.leaving = <<>>
  <2>1. turn = Turn("idle", "none", <<>>, <<>>, <<>>)
    BY DEF NetInit, NoTurn
  <2>2. turn \in TurnType
    BY <2>1, TurnTyped, Empty
  <2> QED
    BY <2>1, <2>2, TurnFields
<1>2. /\ NoHandler \in [kind : {"none", "http", "socket"},
                        tls : { t.tls : t \in Settings } \cup {"none"},
                        open : BOOLEAN, since : Nat]
      /\ NoFlows \in [app : Apps \cup {"none"}, build : Nat]
  BY DEF NoHandler, Handler, NoFlows, Flows
<1>3. NetTypeOK
  BY <1>1, <1>2, Empty DEF NetInit, NetTypeOK, TurnType
<1>4. Backed /\ Owned
  BY DEF NetInit, Backed, Owned
<1>5. HandlersAreUsed
  BY DEF NetInit, HandlersAreUsed
<1>6. AllCounted
  BY <1>1, Empty DEF NetInit, AllCounted, Live
<1>7. Ordered
  BY <1>1, Empty, NetAssumption DEF NetInit, Ordered
<1>8. TurnOK /\ Checked
  BY <1>1 DEF TurnOK, Checked
<1> QED
  BY <1>3, <1>4, <1>5, <1>6, <1>7, <1>8 DEF IInv

LEMMA StepKeeps ==
    ASSUME IInv, NetNext
    PROVE  IInv' /\ Kept
<1>1. CASE \E a \in Apps : Begin(a)
  BY <1>1, BeginKeeps
<1>2. CASE \E a \in Apps : UndeployApplication(a)
  BY <1>2, UndeployApplicationKeeps
<1>3. CASE Check
  BY <1>3, CheckKeeps
<1>4. CASE Register
  BY <1>4, RegisterKeeps
<1>5. CASE RegisterFails
  BY <1>5, RegisterFailsKeeps
<1>6. CASE Publish
  BY <1>6, PublishKeeps
<1>7. CASE Leave
  BY <1>7, LeaveKeeps
<1>8. CASE Done
  BY <1>8, DoneKeeps
<1> QED
  BY <1>1, <1>2, <1>3, <1>4, <1>5, <1>6, <1>7, <1>8 DEF NetNext

LEMMA StutterKeeps ==
    ASSUME IInv, UNCHANGED netVars
    PROVE  IInv'
<1>1. /\ UNCHANGED <<handlers, flows, deployed, components, turn, builds, spoiled>>
  BY DEF netVars
<1>2. NetTypeOK'
  BY <1>1 DEF IInv, NetTypeOK
<1>3. Backed' /\ Owned' /\ HandlersAreUsed'
  BY <1>1, Frame DEF IInv
<1>4. AllCounted'
  BY <1>1 DEF IInv, AllCounted, Live, Counted
<1>5. Ordered' /\ TurnOK'
  BY <1>1 DEF IInv, Ordered, TurnOK
<1>6. Checked'
  BY <1>1 DEF IInv, Checked, Available
<1> QED
  BY <1>2, <1>3, <1>4, <1>5, <1>6 DEF IInv

(* The inductive invariant: deployed settings are backed by a handler and by  *)
(* the application's flows, flows belong to deployed settings, and what the   *)
(* checkers found stays true until the deployment has registered its last.    *)
THEOREM Invariance == NetSpec => []IInv
<1>1. NetInit => IInv
  BY InitHolds
<1>2. IInv /\ [NetNext]_netVars => IInv'
  BY StepKeeps, StutterKeeps
<1> QED
  BY <1>1, <1>2, PTL DEF NetSpec

(* Every reachable state has its type.                                        *)
THEOREM TypeCorrect == NetSpec => []NetTypeOK
<1>1. IInv => NetTypeOK
  BY DEF IInv
<1> QED
  BY <1>1, Invariance, PTL

(* A port has a handler exactly as long as something is served on it, for     *)
(* every sequence of deployments, failures to bind included: no handler that  *)
(* nobody uses keeps a port open, and none is taken away while in use.        *)
THEOREM HandlersInUse == NetSpec => []HandlersAreUsed
<1>1. IInv => HandlersAreUsed
  BY DEF IInv
<1> QED
  BY <1>1, Invariance, PTL

(* No deployment takes an address from another application.                   *)
THEOREM AddressesKept == NetSpec => AddressesAreKept
<1>1. IInv /\ [NetNext]_netVars =>
          [\A r \in Addresses :
              flows[r] # NoFlows /\ flows'[r] # NoFlows => flows'[r].app = flows[r].app]_netVars
  BY StepKeeps DEF Kept
<1> QED
  BY <1>1, Invariance, PTL DEF NetSpec, AddressesAreKept

\* whoever else is on a port has a handler of the kind that takes hosts, and so has
\* what the checkers let pass
LEMMA OwnConflict ==
    ASSUME IInv
    PROVE  ConflictsAreOwn
<1> SUFFICES ASSUME turn.stage = "registering", turn.todo # <<>>,
                    handlers[Head(turn.todo).port].kind # Kind(Head(turn.todo).type),
                    NEW r \in Addresses, r.port = Head(turn.todo).port, flows[r] # NoFlows,
                    flows[r].app # turn.app
             PROVE  FALSE
  BY DEF ConflictsAreOwn
<1>1. turn.todo \in Seq(Settings)
  BY TurnParts DEF IInv
<1>2. PICK s \in Settings : s = Head(turn.todo) /\ s \in Range(turn.todo)
  BY <1>1, Sequences
<1>3. Available(turn.app, s)
  BY <1>2 DEF IInv, Checked
<1>4. PICK b \in Apps, t \in Settings : Address(t) = r /\ deployed[b][t] > 0
  BY DEF IInv, Owned
<1>5. b = flows[r].app /\ handlers[t.port].kind = Kind(t.type)
  BY <1>4 DEF IInv, Backed
<1>6. t.port = s.port
  BY <1>2, <1>4, SettingFacts
<1>7. s.host # NoHost /\ t.host # NoHost
  BY <1>3, <1>4, <1>5, <1>6 DEF Available
<1>8. Kind(s.type) = "http" /\ Kind(t.type) = "http"
  BY <1>7, SettingFacts DEF Kind
<1> QED
  BY <1>2, <1>5, <1>6, <1>8

(* A deployment that passed the checkers meets a handler of the wrong kind    *)
(* only on a port that is its own.                                            *)
THEOREM OwnConflicts == NetSpec => []ConflictsAreOwn
<1>1. IInv => ConflictsAreOwn
  BY OwnConflict
<1> QED
  BY <1>1, Invariance, PTL

-----------------------------------------------------------------------------
(* What an application serves.  Between deployments an application whose      *)
(* deployments did not fail half way serves exactly what its components say.  *)
(* To IInv this adds where the deployed settings of an application come from: *)
(* each is that of a component which is deployed, was just made or has not    *)
(* left yet (Accounted), so that none is left when the last has left; and     *)
(* what is made, then deployed, serves and is not disturbed by what leaves.   *)

Serving(a, c) == /\ deployed[a][c.settings] > 0 /\ c.build > 0
                 /\ flows[Address(c.settings)] = Flows(a, c.build)

Accounted(a) == \A s \in Settings : deployed[a][s] > 0 =>
                   \E c \in Live(a) : c.settings = s /\ c.version = deployed[a][s]

\* from the first component that is registered the old ones may be superseded
Replacing(a) == turn.app = a /\ turn.made # <<>>

TurnHas ==
    /\ turn.stage # "leaving" => turn.leaving = <<>>
    /\ turn.stage # "registering" => turn.made = <<>>
    /\ turn.stage \in {"checking", "registering"} => builds > 0
    /\ \A c \in Range(turn.made) : c.build = builds

Whole(a) == /\ Accounted(a)
            /\ ~Replacing(a) => \A c \in Range(components[a]) : Serving(a, c)
            /\ turn.app = a => \A c \in Range(turn.made) : Serving(a, c)

ServingInv == IInv /\ TurnHas /\ \A a \in Apps \ spoiled : Whole(a)

-----------------------------------------------------------------------------
\* an application whose settings, flows and components nobody touched
LEMMA WholeStays ==
    ASSUME NEW a \in Apps, Whole(a), components'[a] = components[a],
           \A s \in Settings : deployed'[a][s] = deployed[a][s],
           \A s \in Settings : deployed[a][s] > 0 => flows'[Address(s)] = flows[Address(s)],
           Live(a) \subseteq Components, NetTypeOK,
           Live(a)' = Live(a), turn.app = a <=> turn'.app = a,
           turn.app = a => turn'.made = turn.made
    PROVE  Whole(a)'
<1>1. Accounted(a)'
  BY DEF Whole, Accounted
<1>2. \A c \in Live(a) : c.settings \in Settings
  BY DEF Components
<1>3. \A c \in Live(a) : Serving(a, c) => Serving(a, c)'
  BY <1>2 DEF Serving
<1>4. Replacing(a)' <=> Replacing(a)
  BY DEF Replacing
<1>5. Range(components[a]) \subseteq Live(a) /\ (turn.app = a => Range(turn.made) \subseteq Live(a))
  BY DEF Live
<1> QED
  BY <1>1, <1>3, <1>4, <1>5 DEF Whole

\* steps that only change the turn, between stages with the same components at hand
LEMMA TurnMoves ==
    ASSUME ServingInv, UNCHANGED <<handlers, flows, deployed, components, spoiled>>,
           turn'.made = <<>>, turn.made = <<>>, turn'.leaving = <<>>, turn.leaving = <<>>
    PROVE  \A a \in Apps \ spoiled' : Whole(a)'
<1> SUFFICES ASSUME NEW a \in Apps \ spoiled PROVE Whole(a)'
  OBVIOUS
<1>1. Whole(a) /\ Live(a) = Range(components[a]) /\ Live(a)' = Range(components[a])
  BY Empty DEF ServingInv, Live
<1>2. ~Replacing(a) /\ ~Replacing(a)'
  BY DEF Replacing
<1>3. Accounted(a)'
  BY <1>1 DEF Whole, Accounted
<1>4. \A c \in Range(components[a]) : Serving(a, c) => Serving(a, c)'
  BY DEF Serving
<1> QED
  BY <1>1, <1>2, <1>3, <1>4, Empty DEF Whole

LEMMA BeginServes ==
    ASSUME ServingInv, NEW a \in Apps, Begin(a)
    PROVE  TurnHas' /\ \A b \in Apps \ spoiled' : Whole(b)'
<1>1. PICK config \in Configs : turn' = Turn("checking", a, config, <<>>, <<>>)
  BY DEF Begin
<1>2. turn'.stage = "checking" /\ turn'.made = <<>> /\ turn'.leaving = <<>>
  BY <1>1, TurnFields
<1>3. turn.made = <<>> /\ turn.leaving = <<>>
  BY TurnFields DEF Begin, NoTurn
<1>4. builds \in Nat /\ builds' = builds + 1 /\ UNCHANGED <<handlers, flows, deployed, components, spoiled>>
  BY DEF Begin, ServingInv, IInv, NetTypeOK
<1>5. TurnHas'
  BY <1>2, <1>4, Empty DEF TurnHas
<1> QED
  BY <1>2, <1>3, <1>4, <1>5, TurnMoves

LEMMA CheckServes ==
    ASSUME ServingInv, Check
    PROVE  TurnHas' /\ \A b \in Apps \ spoiled' : Whole(b)'
<1>1. PICK stage \in {"registering", "resuming"} : turn' = [turn EXCEPT !.stage = stage]
  BY DEF Check
<1>2. turn' = Turn(stage, turn.app, turn.todo, turn.made, turn.leaving)
  BY <1>1, TurnParts, TurnUpdates, Empty DEF ServingInv, IInv
<1>3. turn'.stage = stage /\ turn'.made = turn.made /\ turn'.leaving = turn.leaving
  BY <1>2, TurnFields
<1>4. turn.stage = "checking" /\ turn.made = <<>> /\ turn.leaving = <<>> /\ builds > 0
  BY DEF Check, ServingInv, TurnHas
<1>5. UNCHANGED <<handlers, flows, deployed, components, spoiled, builds>>
  BY DEF Check
<1>6. TurnHas'
  BY <1>3, <1>4, <1>5, Empty DEF TurnHas
<1> QED
  BY <1>3, <1>4, <1>5, <1>6, TurnMoves

LEMMA DoneServes ==
    ASSUME ServingInv, Done
    PROVE  TurnHas' /\ \A b \in Apps \ spoiled' : Whole(b)'
<1>1. turn'.stage = "idle" /\ turn'.made = <<>> /\ turn'.leaving = <<>>
  BY TurnFields DEF Done, NoTurn
<1>2. turn.made = <<>> /\ turn.leaving = <<>>
  BY DEF Done, ServingInv, TurnHas
<1>3. UNCHANGED <<handlers, flows, deployed, components, spoiled, builds>>
  BY DEF Done
<1>4. TurnHas'
  BY <1>1, Empty DEF TurnHas
<1> QED
  BY <1>1, <1>2, <1>3, <1>4, TurnMoves

\* what a deployment registers leaves others alone
LEMMA OthersStay ==
    ASSUME ServingInv, NEW a \in Apps, NEW s \in Settings, Available(a, s), ~Conflict(s),
           Increment(a, s), flows' = Add(Address(s), Flows(a, builds)), components' = components,
           NEW b \in Apps \ spoiled, b # a, turn.app = a, turn'.app = a
    PROVE  Whole(b)'
<1>1. /\ NetTypeOK /\ Backed /\ Whole(b) /\ Live(b) \subseteq Components
  BY TurnParts DEF ServingInv, IInv
<1>2. \A t \in Settings : deployed'[b][t] = deployed[b][t]
  BY <1>1 DEF NetTypeOK, Increment
<1>3. ASSUME NEW t \in Settings, deployed[b][t] > 0 PROVE flows'[Address(t)] = flows[Address(t)]
  <2>1. Address(t) # Address(s)
    BY <1>1, <1>3, OwnAddress
  <2> QED
    BY <1>1, <2>1, SettingFacts DEF NetTypeOK, Add
<1>4. Live(b)' = Live(b)
  BY DEF Live
<1> QED
  BY <1>1, <1>2, <1>3, <1>4, WholeStays

LEMMA RegisterServes ==
    ASSUME ServingInv, Register
    PROVE  TurnHas' /\ \A b \in Apps \ spoiled' : Whole(b)'
<1>1. /\ turn.stage = "registering" /\ turn.todo # <<>> /\ turn.leaving = <<>> /\ builds > 0
      /\ components' = components /\ builds' = builds /\ spoiled' = spoiled
      /\ NetTypeOK /\ Backed
  BY DEF Register, ServingInv, TurnHas, IInv
<1>2. PICK a \in Apps : a = turn.app
  BY <1>1 DEF ServingInv, IInv, TurnOK
<1>3. turn.todo \in Seq(Settings) /\ turn.made \in Seq(Components)
  BY <1>1, TurnParts
<1>4. PICK s \in Settings : s = Head(turn.todo) /\ s \in Range(turn.todo)
  BY <1>1, <1>3, Sequences
<1>5. deployed[a][s] \in Nat /\ builds \in Nat
  BY <1>1 DEF NetTypeOK
<1>6. PICK made \in Components : made = Component(s, deployed[a][s] + 1, builds)
  <2>1. Component(s, deployed[a][s] + 1, builds) \in Components
    BY <1>5 DEF Component, Components
  <2> QED
    BY <2>1, Zenon
<1>7. made.settings = s /\ made.version = deployed[a][s] + 1 /\ made.build = builds
  BY <1>6 DEF Component
<1>8. /\ ~Conflict(s) /\ Increment(a, s) /\ flows' = Add(Address(s), Flows(a, builds))
      /\ turn' = Turn("registering", a, Tail(turn.todo), Append(turn.made, made), <<>>)
  BY <1>2, <1>4, <1>6 DEF Register
<1>9. Available(a, s)
  BY <1>1, <1>2, <1>4 DEF ServingInv, IInv, Checked
<1>10. /\ Append(turn.made, made) # <<>> /\ Range(Append(turn.made, made)) = Range(turn.made) \cup {made}
       /\ Range(turn.made) \subseteq Components
  BY <1>3, Sequences
<1>11. /\ turn'.stage = "registering" /\ turn'.app = a /\ turn'.leaving = <<>>
       /\ turn'.made = Append(turn.made, made)
  <2> DEFINE todo == Tail(turn.todo)
             more == Append(turn.made, made)
  <2>1. turn' = Turn("registering", a, todo, more, <<>>)
    BY <1>8
  <2> HIDE DEF todo, more
  <2>2. /\ turn'.stage = "registering" /\ turn'.app = a /\ turn'.leaving = <<>>
        /\ turn'.made = more
    BY <2>1 DEF Turn
  <2> QED
    BY <2>2 DEF more
<1>12. TurnHas'
  BY <1>1, <1>7, <1>10, <1>11 DEF ServingInv, TurnHas
<1>13. \A b \in Apps \ spoiled : b # a => Whole(b)'
  BY <1>1, <1>2, <1>8, <1>9, <1>11, OthersStay
<1>14. ASSUME a \notin spoiled PROVE Whole(a)'
  <2>1. /\ Whole(a) /\ Address(s) \in Addresses
        /\ \A t \in Settings : deployed'[a][t] = IF t = s THEN deployed[a][s] + 1 ELSE deployed[a][t]
        /\ \A r \in Addresses : flows'[r] = IF r = Address(s) THEN Flows(a, builds) ELSE flows[r]
    BY <1>1, <1>8, <1>14, SettingFacts DEF ServingInv, NetTypeOK, Increment, Add
  <2>2. Live(a)' = Live(a) \cup {made}
    BY <1>1, <1>2, <1>10, <1>11, Empty DEF Live
  <2>3. Accounted(a)'
    <3> SUFFICES ASSUME NEW t \in Settings, deployed'[a][t] > 0
                 PROVE  \E c \in Live(a)' : c.settings = t /\ c.version = deployed'[a][t]
      BY DEF Accounted
    <3>1. CASE t = s
      BY <1>7, <2>1, <2>2, <3>1
    <3>2. CASE t # s
      BY <2>1, <2>2, <3>2 DEF Whole, Accounted
    <3> QED
      BY <3>1, <3>2
  <2>4. Replacing(a)'
    BY <1>10, <1>11 DEF Replacing
  <2>5. Serving(a, made)'
    BY <1>1, <1>5, <1>7, <2>1 DEF Serving
  <2>6. ASSUME NEW c \in Range(turn.made) PROVE Serving(a, c)'
    <3>1. c.settings \in Settings /\ c.build = builds /\ Serving(a, c)
      BY <1>2, <1>10, <2>1 DEF Components, ServingInv, TurnHas, Whole
    <3>2. CASE c.settings = s
      BY <1>5, <2>1, <3>1, <3>2 DEF Serving
    <3>3. CASE c.settings # s
      <4>1. Address(c.settings) # Address(s)
        BY <1>1, <1>8, <1>9, <3>1, <3>3, OwnAddress DEF Serving
      <4>2. Address(c.settings) \in Addresses
        BY <3>1, SettingFacts
      <4> QED
        BY <2>1, <3>1, <3>3, <4>1, <4>2 DEF Serving
    <3> QED
      BY <3>2, <3>3
  <2> QED
    BY <1>10, <1>11, <2>3, <2>4, <2>5, <2>6 DEF Whole
<1> QED
  BY <1>1, <1>12, <1>13, <1>14

LEMMA RegisterFailsServes ==
    ASSUME ServingInv, RegisterFails
    PROVE  TurnHas' /\ \A b \in Apps \ spoiled' : Whole(b)'
<1>1. /\ turn.stage = "registering" /\ turn.todo # <<>> /\ turn.leaving = <<>>
      /\ turn' = Turn("resuming", turn.app, <<>>, <<>>, <<>>)
      /\ components' = components /\ NetTypeOK /\ Backed
  BY DEF RegisterFails, ServingInv, TurnHas, IInv
<1>2. PICK a \in Apps : a = turn.app
  BY <1>1 DEF ServingInv, IInv, TurnOK
<1>3. PICK s \in Settings : s = Head(turn.todo) /\ s \in Range(turn.todo)
  BY <1>1, TurnParts, Sequences
<1>4. Available(a, s)
  BY <1>1, <1>2, <1>3 DEF ServingInv, IInv, Checked
<1>5. turn'.stage = "resuming" /\ turn'.app = a /\ turn'.made = <<>> /\ turn'.leaving = <<>>
  BY <1>1, <1>2, TurnFields
<1>6. TurnHas'
  BY <1>5, Empty DEF TurnHas
<1>7. CASE /\ UNCHANGED <<handlers, flows, deployed>>
           /\ spoiled' = IF turn.made # <<>> THEN spoiled \cup {a} ELSE spoiled
  <2>1. /\ UNCHANGED <<handlers, flows, deployed>>
        /\ spoiled' = IF turn.made # <<>> THEN spoiled \cup {a} ELSE spoiled
    BY <1>7
  <2>2. CASE turn.made = <<>>
    BY <1>1, <1>5, <1>6, <2>1, <2>2, TurnMoves
  <2>3. CASE turn.made # <<>>
    <3> SUFFICES ASSUME NEW b \in Apps \ spoiled, b # a
                 PROVE  Whole(b)'
      BY <1>6, <2>1, <2>3
    <3>1. Live(b)' = Live(b) /\ Live(b) \subseteq Components
      BY <1>1, <1>2, <1>5, TurnParts DEF Live
    <3> QED
      BY <1>1, <1>2, <1>5, <2>1, <3>1, WholeStays DEF ServingInv
  <2> QED
    BY <2>2, <2>3
<1>8. CASE /\ ~Conflict(s) /\ Increment(a, s)
           /\ flows' = Add(Address(s), Flows(a, builds))
           /\ spoiled' = spoiled \cup {a}
  <2>1. /\ Increment(a, s) /\ flows' = Add(Address(s), Flows(a, builds))
        /\ spoiled' = spoiled \cup {a}
    BY <1>8
  <2> QED
    BY <1>1, <1>2, <1>4, <1>5, <1>6, <1>8, <2>1, OthersStay
<1> QED
  BY <1>2, <1>3, <1>7, <1>8 DEF RegisterFails

LEMMA PublishServes ==
    ASSUME ServingInv, Publish
    PROVE  TurnHas' /\ \A b \in Apps \ spoiled' : Whole(b)'
<1>1. PICK a \in Apps : a = turn.app
  BY DEF ServingInv, IInv, TurnOK, Publish
<1>2. /\ components' = [components EXCEPT ![a] = turn.made]
      /\ turn' = Turn("leaving", a, <<>>, <<>>, components[a])
      /\ UNCHANGED <<handlers, flows, deployed>> /\ builds' = builds /\ spoiled' = spoiled
      /\ turn.leaving = <<>> /\ NetTypeOK
  BY <1>1 DEF Publish, ServingInv, TurnHas, IInv
<1>3. /\ turn'.stage = "leaving" /\ turn'.app = a /\ turn'.made = <<>>
      /\ turn'.leaving = components[a]
  BY <1>2, TurnFields
<1>4. components'[a] = turn.made /\ \A b \in Apps \ {a} : components'[b] = components[b]
  BY <1>2 DEF NetTypeOK
<1>5. TurnHas'
  BY <1>3, Empty DEF TurnHas
<1>6. ASSUME NEW b \in Apps \ spoiled, b # a
      PROVE  Whole(b)'
  <2>1. Live(b)' = Live(b) /\ Live(b) \subseteq Components
    BY <1>1, <1>3, <1>4, <1>6, <1>2, TurnParts DEF Live
  <2> QED
    BY <1>1, <1>2, <1>3, <1>4, <1>6, <2>1, WholeStays DEF ServingInv
<1>7. ASSUME a \notin spoiled
      PROVE  Whole(a)'
  <2>1. Whole(a) /\ Live(a)' = Live(a)
    BY <1>1, <1>2, <1>3, <1>4, <1>7, Empty DEF ServingInv, Live
  <2>2. Accounted(a)'
    BY <1>2, <2>1 DEF Whole, Accounted
  <2>3. \A c \in Range(turn.made) : Serving(a, c)'
    BY <1>1, <1>2, <2>1 DEF Whole, Serving
  <2> QED
    BY <1>3, <1>4, <2>2, <2>3, Empty DEF Whole
<1> QED
  BY <1>2, <1>5, <1>6, <1>7

LEMMA UndeployApplicationServes ==
    ASSUME ServingInv, NEW a \in Apps, UndeployApplication(a)
    PROVE  TurnHas' /\ \A b \in Apps \ spoiled' : Whole(b)'
<1>1. /\ components' = [components EXCEPT ![a] = <<>>]
      /\ turn' = Turn("leaving", a, <<>>, <<>>, components[a])
      /\ UNCHANGED <<handlers, flows, deployed>> /\ builds' = builds /\ spoiled' = spoiled
      /\ NetTypeOK
  BY DEF UndeployApplication, ServingInv, IInv
<1>2. turn.app = "none" /\ turn.app \notin Apps
  BY TurnFields, NetAssumption DEF UndeployApplication, NoTurn
<1>3. /\ turn'.stage = "leaving" /\ turn'.app = a /\ turn'.made = <<>>
      /\ turn'.leaving = components[a]
  BY <1>1, TurnFields
<1>4. components'[a] = <<>> /\ \A b \in Apps \ {a} : components'[b] = components[b]
  BY <1>1 DEF NetTypeOK
<1>5. TurnHas'
  BY <1>3, Empty DEF TurnHas
<1>6. ASSUME NEW b \in Apps \ spoiled, b # a
      PROVE  Whole(b)'
  <2>1. Live(b)' = Live(b) /\ Live(b) \subseteq Components
    BY <1>1, <1>2, <1>3, <1>4, <1>6, TurnParts DEF Live
  <2> QED
    BY <1>1, <1>2, <1>3, <1>4, <1>6, <2>1, WholeStays DEF ServingInv
<1>7. ASSUME a \notin spoiled
      PROVE  Whole(a)'
  <2>1. Whole(a) /\ Live(a)' = Live(a)
    BY <1>2, <1>3, <1>4, <1>7, Empty DEF ServingInv, Live
  <2>2. Accounted(a)'
    BY <1>1, <2>1 DEF Whole, Accounted
  <2> QED
    BY <1>3, <1>4, <2>2, Empty DEF Whole
<1> QED
  BY <1>1, <1>5, <1>6, <1>7

LEMMA HeadOrTail ==
    ASSUME NEW S, NEW q \in Seq(S), q # <<>>, NEW d \in Range(q), d # Head(q)
    PROVE  d \in Range(Tail(q))
<1>1. PICK i \in DOMAIN q : d = q[i]
  BY DEF Range
<1>2. i \in 1 .. Len(q) /\ i # 1
  BY <1>1
<1>3. i - 1 \in DOMAIN Tail(q) /\ Tail(q)[i - 1] = q[i]
  BY <1>2
<1> QED
  BY <1>1, <1>3 DEF Range

LEMMA LeaveServes ==
    ASSUME ServingInv, Leave
    PROVE  TurnHas' /\ \A b \in Apps \ spoiled' : Whole(b)'
<1>1. /\ turn.stage = "leaving" /\ turn.leaving # <<>> /\ turn.made = <<>>
      /\ turn' = [turn EXCEPT !.leaving = Tail(turn.leaving)]
      /\ components' = components /\ builds' = builds /\ spoiled' = spoiled
      /\ NetTypeOK /\ Backed
  BY DEF Leave, ServingInv, TurnHas, IInv
<1>2. PICK a \in Apps : a = turn.app
  BY <1>1 DEF ServingInv, IInv, TurnOK
<1>3. turn.leaving \in Seq(Components)
  BY <1>1, TurnParts
<1>4. PICK c \in Components : c = Head(turn.leaving) /\ c \in Range(turn.leaving)
  BY <1>1, <1>3, Sequences
<1>5. turn'.stage = "leaving" /\ turn'.app = a /\ turn'.made = <<>> /\ turn'.leaving = Tail(turn.leaving)
  <2> DEFINE rest == Tail(turn.leaving)
  <2>1. rest \in Seq(Components) /\ turn' = [turn EXCEPT !.leaving = rest]
    BY <1>1, <1>3, Sequences
  <2> HIDE DEF rest
  <2>2. turn' = Turn(turn.stage, turn.app, turn.todo, turn.made, rest)
    BY <1>1, <2>1, TurnUpdates, TurnParts
  <2>3. /\ turn'.stage = turn.stage /\ turn'.app = turn.app /\ turn'.made = turn.made
        /\ turn'.leaving = rest
    BY <2>2 DEF Turn
  <2> QED
    BY <1>1, <1>2, <2>3 DEF rest
<1>6. TurnHas'
  BY <1>5, Empty DEF TurnHas
<1>7. Counted(a, c) /\ c.settings \in Settings /\ c.version \in Nat /\ deployed[a][c.settings] \in Nat
  <2>1. Counted(a, c)
    BY <1>2, <1>4 DEF ServingInv, IInv, AllCounted, Live
  <2>2. c.settings \in Settings /\ c.version \in Nat
    BY DEF Components
  <2> QED
    BY <1>1, <2>1, <2>2 DEF NetTypeOK
<1>8. deployed[a][c.settings] > 0
  BY <1>7 DEF Counted
<1>9. handlers[c.settings.port] # NoHandler
  BY <1>1, <1>7, <1>8 DEF Backed, Kind, NoHandler, Handler
<1>10. \A b \in Apps : Live(b) \subseteq Components
  BY <1>1, TurnParts
<1>11. \A b \in Apps \ {a} : Live(b)' = Live(b)
  BY <1>1, <1>2, <1>5 DEF Live
<1>12. \A d \in Live(a) \ {c} : d \in Live(a)'
  BY <1>1, <1>2, <1>3, <1>4, <1>5, HeadOrTail, Empty DEF Live
<1>13. ~Replacing(a) /\ ~Replacing(a)'
  BY <1>1, <1>5, Empty DEF Replacing
<1>14. CASE Superseded(a, c)
  <2>1. UNCHANGED <<handlers, flows, deployed>>
    BY <1>2, <1>4, <1>14 DEF Leave
  <2>2. ASSUME NEW b \in Apps \ spoiled, b # a
        PROVE  Whole(b)'
    BY <1>1, <1>2, <1>5, <1>10, <1>11, <2>1, <2>2, WholeStays DEF ServingInv
  <2>3. ASSUME a \notin spoiled
        PROVE  Whole(a)'
    <3>1. Whole(a)
      BY <2>3 DEF ServingInv
    <3>2. Accounted(a)'
      <4> SUFFICES ASSUME NEW s \in Settings, deployed[a][s] > 0
                   PROVE  \E d \in Live(a)' : d.settings = s /\ d.version = deployed[a][s]
        BY <2>1 DEF Accounted
      <4>1. PICK d \in Live(a) : d.settings = s /\ d.version = deployed[a][s]
        BY <3>1 DEF Whole, Accounted
      <4>2. d # c
        BY <1>14, <4>1 DEF Superseded
      <4> QED
        BY <1>12, <4>1, <4>2
    <3>3. \A d \in Range(components[a]) : Serving(a, d)'
      BY <1>13, <2>1, <3>1 DEF Whole, Serving
    <3> QED
      BY <1>1, <1>5, <3>2, <3>3, Empty DEF Whole
  <2> QED
    BY <1>1, <1>6, <2>2, <2>3
<1>15. CASE ~Superseded(a, c)
  <2>1. flows' = Removed(a, c) /\ deployed' = [deployed EXCEPT ![a][c.settings] = 0]
    BY <1>2, <1>4, <1>9, <1>15 DEF Leave
  <2>2. \A b \in Apps : \A s \in Settings :
            deployed'[b][s] = IF b = a /\ s = c.settings THEN 0 ELSE deployed[b][s]
    BY <1>1, <1>7, <2>1 DEF NetTypeOK
  <2>3. \A r \in Addresses : r # Address(c.settings) => flows'[r] = flows[r]
    BY <1>1, <2>1 DEF NetTypeOK, Removed
  <2>4. ASSUME NEW b \in Apps, NEW s \in Settings, deployed[b][s] > 0, ~(b = a /\ s = c.settings)
        PROVE  flows'[Address(s)] = flows[Address(s)]
    <3>1. Address(s) # Address(c.settings)
      BY <1>1, <1>7, <1>8, <2>4, OneBacked
    <3> QED
      BY <2>3, <3>1, SettingFacts
  <2>5. ASSUME NEW b \in Apps \ spoiled, b # a
        PROVE  Whole(b)'
    BY <1>1, <1>2, <1>5, <1>10, <1>11, <2>2, <2>4, <2>5, WholeStays DEF ServingInv
  <2>6. ASSUME a \notin spoiled
        PROVE  Whole(a)'
    <3>1. Whole(a)
      BY <2>6 DEF ServingInv
    <3>2. Accounted(a)'
      <4> SUFFICES ASSUME NEW s \in Settings, deployed'[a][s] > 0
                   PROVE  \E d \in Live(a)' : d.settings = s /\ d.version = deployed'[a][s]
        BY DEF Accounted
      <4>1. s # c.settings /\ deployed'[a][s] = deployed[a][s]
        BY <2>2
      <4>2. PICK d \in Live(a) : d.settings = s /\ d.version = deployed[a][s]
        BY <3>1, <4>1 DEF Whole, Accounted
      <4> QED
        BY <1>12, <4>1, <4>2
    <3>3. ASSUME NEW d \in Range(components[a])
          PROVE  Serving(a, d)'
      <4>1. Serving(a, d) /\ Before(c, d) /\ d \in Live(a) /\ Counted(a, d)
        BY <1>2, <1>4, <1>13, <3>1 DEF Whole, ServingInv, IInv, Ordered, AllCounted, Live
      <4>2. d.settings \in Settings /\ d.version \in Nat
        BY <1>10, <4>1 DEF Components
      <4>3. d.settings # c.settings
        BY <1>7, <1>15, <4>1, <4>2 DEF Before, Counted, Superseded
      <4> QED
        BY <2>2, <2>4, <4>1, <4>2, <4>3 DEF Serving
    <3> QED
      BY <1>1, <1>5, <3>2, <3>3, Empty DEF Whole
  <2> QED
    BY <1>1, <1>6, <2>5, <2>6
<1> QED
  BY <1>14, <1>15

-----------------------------------------------------------------------------
LEMMA ServingInit ==
    ASSUME NetInit
    PROVE  ServingInv
<1>1. turn.stage = "idle" /\ turn.app = "none" /\ turn.made = <<>> /\ turn.leaving = <<>>
  BY TurnFields DEF NetInit, NoTurn
<1>2. TurnHas
  BY <1>1, Empty DEF TurnHas
<1>3. \A a \in Apps : Whole(a)
  BY <1>1, Empty, NetAssumption DEF NetInit, Whole, Accounted
<1> QED
  BY <1>2, <1>3, InitHolds DEF ServingInv

LEMMA ServingStep ==
    ASSUME ServingInv, NetNext
    PROVE  TurnHas' /\ \A b \in Apps \ spoiled' : Whole(b)'
<1>1. CASE \E a \in Apps : Begin(a)
  BY <1>1, BeginServes
<1>2. CASE \E a \in Apps : UndeployApplication(a)
  BY <1>2, UndeployApplicationServes
<1>3. CASE Check
  BY <1>3, CheckServes
<1>4. CASE Register
  BY <1>4, RegisterServes
<1>5. CASE RegisterFails
  BY <1>5, RegisterFailsServes
<1>6. CASE Publish
  BY <1>6, PublishServes
<1>7. CASE Leave
  BY <1>7, LeaveServes
<1>8. CASE Done
  BY <1>8, DoneServes
<1> QED
  BY <1>1, <1>2, <1>3, <1>4, <1>5, <1>6, <1>7, <1>8 DEF NetNext

LEMMA ServingStutter ==
    ASSUME ServingInv, UNCHANGED netVars
    PROVE  TurnHas' /\ \A b \in Apps \ spoiled' : Whole(b)'
<1>1. UNCHANGED <<handlers, flows, deployed, components, turn, builds, spoiled>>
  BY DEF netVars
<1>2. TurnHas'
  BY <1>1 DEF ServingInv, TurnHas
<1> QED
  BY <1>1, <1>2 DEF ServingInv, Whole, Accounted, Serving, Replacing, Live

\* between deployments only the components are at hand
LEMMA ServesThem ==
    ASSUME ServingInv
    PROVE  ServesItsComponents
<1> SUFFICES ASSUME turn = NoTurn, NEW a \in Apps \ spoiled
             PROVE  /\ Serves(a) = { Address(c.settings) : c \in Range(components[a]) }
                    /\ \A c \in Range(components[a]) : flows[Address(c.settings)] = Flows(a, c.build)
  BY DEF ServesItsComponents
<1>1. turn.app = "none" /\ turn.app # a
  BY TurnFields, NetAssumption DEF NoTurn
<1>2. Live(a) = Range(components[a]) /\ Range(components[a]) \subseteq Components /\ Accounted(a)
  BY <1>1, TurnParts DEF Live, ServingInv, IInv, Whole
<1>3. \A c \in Range(components[a]) : Serving(a, c)
  BY <1>1 DEF ServingInv, Whole, Replacing
<1>4. ASSUME NEW c \in Range(components[a])
      PROVE  Address(c.settings) \in Serves(a)
  <2>1. c.settings \in Settings /\ Address(c.settings) \in Addresses
    BY <1>2, SettingFacts DEF Components
  <2> QED
    BY <1>3, <2>1, AppFlows DEF Serves, Serving
<1>5. ASSUME NEW r \in Serves(a)
      PROVE  \E c \in Range(components[a]) : r = Address(c.settings)
  <2>1. r \in Addresses /\ flows[r].build > 0 /\ flows[r].app = a
    BY DEF Serves
  <2>2. flows[r] # NoFlows
    BY <2>1, AppFlows
  <2>3. PICK b \in Apps, s \in Settings : Address(s) = r /\ deployed[b][s] > 0
    BY <2>1, <2>2 DEF ServingInv, IInv, Owned
  <2>4. b = a
    BY <2>1, <2>3 DEF ServingInv, IInv, Backed
  <2> QED
    BY <1>2, <2>3, <2>4 DEF Accounted
<1> QED
  BY <1>3, <1>4, <1>5 DEF Serving

(* Between deployments an application serves the addresses of its components  *)
(* with the flows of the build they are from, and no other address, for every *)
(* sequence of deployments and undeployments in which none of its own failed  *)
(* after it had registered something.                                         *)
THEOREM ComponentsServed == NetSpec => []ServesItsComponents
<1>1. NetInit => ServingInv
  BY ServingInit
<1>2. ServingInv /\ [NetNext]_netVars => ServingInv'
  BY ServingStep, ServingStutter, StepKeeps, StutterKeeps DEF ServingInv
<1>3. ServingInv => ServesItsComponents
  BY ServesThem
<1> QED
  BY <1>1, <1>2, <1>3, PTL DEF NetSpec

-----------------------------------------------------------------------------
(***************************************************************************)
(* Requests that meet any redeploys, on any number of connections.  A       *)
(* deployment with its pauses and requests is a deployment of NetManager    *)
(* (KeepsNetManager), so all that is proved above holds here.  To that this *)
(* adds that what serves the address of a component is not of an older      *)
(* build than the component (Newest); and a request is set up with what     *)
(* serves its address at that time, if the port was not closed since.       *)
(***************************************************************************)

Newest == \A a \in Apps : \A c \in Live(a) :
             c.build <= builds /\ c.build <= flows[Address(c.settings)].build

\* deployments are numbered, and handlers by the deployment that made them
Numbered == /\ builds <= MaxBuilds
            /\ \A p \in Ports : handlers[p] # NoHandler => handlers[p].since \in 1 .. builds

NetInv == ServingInv /\ Newest /\ Numbered

-----------------------------------------------------------------------------
(* What serves the address of a component.                                    *)

Served(a, c) == /\ c \in Components /\ c.settings \in Settings /\ c.build \in Nat
                /\ Address(c.settings) \in Addresses
                /\ flows[Address(c.settings)].app = a
                /\ flows[Address(c.settings)] # NoFlows
                /\ flows[Address(c.settings)].build \in Nat

LEMMA AllServed == IInv => \A a \in Apps : \A c \in Live(a) : Served(a, c)
<1> SUFFICES ASSUME IInv, NEW a \in Apps, NEW c \in Live(a) PROVE Served(a, c)
  OBVIOUS
<1>1. c \in Components /\ c.settings \in Settings /\ c.build \in Nat
  BY TurnParts DEF IInv, Components
<1>2. Address(c.settings) \in Addresses
  BY <1>1, SettingFacts
<1>3. deployed[a][c.settings] > 0
  <2>1. Counted(a, c) /\ deployed[a][c.settings] \in Nat /\ c.version \in Nat
    BY <1>1 DEF IInv, AllCounted, NetTypeOK, Components
  <2> QED
    BY <2>1 DEF Counted
<1>4. flows[Address(c.settings)].app = a
  BY <1>1, <1>3 DEF IInv, Backed
<1>5. flows[Address(c.settings)] # NoFlows
  BY <1>4, AppFlows
<1>6. flows[Address(c.settings)].build \in Nat
  BY <1>2 DEF IInv, NetTypeOK
<1> QED
  BY <1>1, <1>2, <1>4, <1>5, <1>6 DEF Served

LEMMA AllServedNext == IInv' => (\A a \in Apps : \A c \in Live(a) : Served(a, c))'
BY AllServed, PTL

\* no address gets flows of an older build, and no component comes that was there before
LEMMA NewestStays ==
    ASSUME IInv, IInv', Newest, builds' >= builds,
           \A a \in Apps : Live(a)' \subseteq Live(a),
           \A r \in Addresses : flows'[r] # NoFlows => flows'[r].build >= flows[r].build
    PROVE  Newest'
<1> SUFFICES ASSUME NEW a \in Apps, NEW c \in Live(a)'
             PROVE  c.build <= builds' /\ c.build <= flows'[Address(c.settings)].build
  BY DEF Newest
<1>1. c \in Live(a) /\ Served(a, c)
  BY AllServed
<1>2. flows'[Address(c.settings)] # NoFlows /\ flows'[Address(c.settings)].build \in Nat
  BY AllServedNext DEF Served
<1>3. c.build <= builds /\ c.build <= flows[Address(c.settings)].build
  BY <1>1 DEF Newest
<1>4. flows'[Address(c.settings)].build >= flows[Address(c.settings)].build
  BY <1>1, <1>2 DEF Served
<1>5. builds \in Nat /\ builds' \in Nat
  BY DEF IInv, NetTypeOK
<1> QED
  BY <1>1, <1>2, <1>3, <1>4, <1>5 DEF Served

\* a step that leaves the flows and the handlers as they are
LEMMA NothingRegistered ==
    ASSUME NetInv, IInv', UNCHANGED <<handlers, flows>>,
           builds <= builds', builds' <= MaxBuilds, builds' \in Nat,
           \A a \in Apps : Live(a)' \subseteq Live(a)
    PROVE  Newest' /\ Numbered'
<1>1. IInv /\ Newest /\ Numbered /\ builds \in Nat /\ MaxBuilds \in Nat
  BY NetAssumption DEF NetInv, ServingInv, IInv, NetTypeOK
<1>2. builds' >= builds
  BY <1>1
<1>3. \A r \in Addresses : flows'[r].build >= flows[r].build
  BY <1>1 DEF IInv, NetTypeOK
<1>4. Newest'
  BY <1>1, <1>2, <1>3, NewestStays
<1>5. Numbered'
  BY <1>1 DEF Numbered
<1> QED
  BY <1>4, <1>5

\* ... nor the number of deployments
LEMMA OnlyTurn ==
    ASSUME NetInv, IInv', UNCHANGED <<handlers, flows, builds>>,
           \A a \in Apps : Live(a)' \subseteq Live(a)
    PROVE  Newest' /\ Numbered'
<1>1. builds' = builds /\ builds \in Nat /\ builds <= MaxBuilds /\ MaxBuilds \in Nat
  BY NetAssumption DEF NetInv, Numbered, ServingInv, IInv, NetTypeOK
<1>2. builds <= builds' /\ builds' <= MaxBuilds /\ builds' \in Nat
  BY <1>1
<1> QED
  BY <1>2, NothingRegistered

LEMMA BeginNewest ==
    ASSUME NetInv, IInv', NEW a \in Apps, Begin(a)
    PROVE  Newest' /\ Numbered'
<1>1. PICK config \in Configs : turn' = Turn("checking", a, config, <<>>, <<>>)
  BY DEF Begin
<1>2. turn'.made = <<>> /\ turn'.leaving = <<>>
  BY <1>1, TurnFields
<1>3. /\ UNCHANGED <<handlers, flows>> /\ components' = components
      /\ builds < MaxBuilds /\ builds' = builds + 1
  BY DEF Begin
<1>4. builds <= builds' /\ builds' <= MaxBuilds /\ builds' \in Nat
  BY <1>3, NetAssumption DEF NetInv, ServingInv, IInv, NetTypeOK
<1>5. \A b \in Apps : Live(b)' \subseteq Live(b)
  BY <1>2, <1>3, Empty DEF Live
<1> QED
  BY <1>3, <1>4, <1>5, NothingRegistered

LEMMA CheckNewest ==
    ASSUME NetInv, IInv', Check
    PROVE  Newest' /\ Numbered'
<1>1. PICK stage \in {"registering", "resuming"} : turn' = [turn EXCEPT !.stage = stage]
  BY DEF Check
<1>2. turn' = Turn(stage, turn.app, turn.todo, turn.made, turn.leaving)
  BY <1>1, TurnParts, TurnUpdates, Empty DEF NetInv, ServingInv, IInv
<1>3. turn'.app = turn.app /\ turn'.made = turn.made /\ turn'.leaving = turn.leaving
  BY <1>2, TurnFields
<1>4. UNCHANGED <<handlers, flows, builds>> /\ components' = components
  BY DEF Check
<1>5. \A b \in Apps : Live(b)' \subseteq Live(b)
  BY <1>3, <1>4 DEF Live
<1> QED
  BY <1>4, <1>5, OnlyTurn

LEMMA PublishNewest ==
    ASSUME NetInv, IInv', Publish
    PROVE  Newest' /\ Numbered'
<1>1. PICK a \in Apps : a = turn.app
  BY DEF NetInv, ServingInv, IInv, TurnOK, Publish
<1>2. /\ components' = [components EXCEPT ![a] = turn.made]
      /\ turn' = Turn("leaving", a, <<>>, <<>>, components[a])
      /\ UNCHANGED <<handlers, flows, builds>> /\ NetTypeOK
  BY <1>1 DEF Publish, NetInv, ServingInv, IInv
<1>3. turn'.app = a /\ turn'.made = <<>> /\ turn'.leaving = components[a]
  BY <1>2, TurnFields
<1>4. components'[a] = turn.made /\ \A b \in Apps \ {a} : components'[b] = components[b]
  BY <1>2 DEF NetTypeOK
<1>5. \A b \in Apps : Live(b)' \subseteq Live(b)
  BY <1>1, <1>3, <1>4, Empty DEF Live
<1> QED
  BY <1>2, <1>5, OnlyTurn

LEMMA UndeployNewest ==
    ASSUME NetInv, IInv', NEW a \in Apps, UndeployApplication(a)
    PROVE  Newest' /\ Numbered'
<1>1. /\ components' = [components EXCEPT ![a] = <<>>]
      /\ turn' = Turn("leaving", a, <<>>, <<>>, components[a])
      /\ UNCHANGED <<handlers, flows, builds>> /\ NetTypeOK
  BY DEF UndeployApplication, NetInv, ServingInv, IInv
<1>2. turn'.app = a /\ turn'.made = <<>> /\ turn'.leaving = components[a]
  BY <1>1, TurnFields
<1>3. components'[a] = <<>> /\ \A b \in Apps \ {a} : components'[b] = components[b]
  BY <1>1 DEF NetTypeOK
<1>4. \A b \in Apps : Live(b)' \subseteq Live(b)
  BY <1>2, <1>3, Empty DEF Live
<1> QED
  BY <1>1, <1>4, OnlyTurn

LEMMA DoneNewest ==
    ASSUME NetInv, IInv', Done
    PROVE  Newest' /\ Numbered'
<1>1. turn'.made = <<>> /\ turn'.leaving = <<>>
  BY TurnFields DEF Done, NoTurn
<1>2. UNCHANGED <<handlers, flows, builds>> /\ components' = components
  BY DEF Done
<1>3. \A b \in Apps : Live(b)' \subseteq Live(b)
  BY <1>1, <1>2, Empty DEF Live
<1> QED
  BY <1>2, <1>3, OnlyTurn

-----------------------------------------------------------------------------
(* Registering and leaving.                                                   *)

\* a handler that is made has the number of this deployment
LEMMA StartedNumbered ==
    ASSUME NetInv, builds > 0, builds' = builds, NEW s \in Settings, NEW open \in BOOLEAN,
           Started(s, open)
    PROVE  Numbered'
<1>1. Numbered /\ NetTypeOK /\ builds \in Nat
  BY DEF NetInv, ServingInv, IInv, NetTypeOK
<1> SUFFICES ASSUME NEW p \in Ports, handlers'[p] # NoHandler
             PROVE  handlers'[p].since \in 1 .. builds
  BY <1>1 DEF Numbered
<1>2. CASE p # s.port
  BY <1>1, <1>2 DEF Started, Numbered, NetTypeOK
<1>3. CASE p = s.port /\ handlers[p] = NoHandler
  <2>1. handlers'[p] = Handler(Kind(s.type), s.tls, open, builds)
    BY <1>1, <1>3 DEF Started, NetTypeOK
  <2>2. handlers'[p].since = builds
    BY <2>1 DEF Handler
  <2> QED
    BY <1>1, <2>2
<1>4. CASE p = s.port /\ handlers[p] # NoHandler
  <2>1. handlers'[p] = [handlers[p] EXCEPT !.open = open]
    BY <1>1, <1>4 DEF Started, NetTypeOK
  <2>2. handlers'[p].since = handlers[p].since
    BY <1>1, <2>1 DEF NetTypeOK
  <2> QED
    BY <1>1, <1>4, <2>2 DEF Numbered
<1> QED
  BY <1>2, <1>3, <1>4

\* registering puts the newest flows there are at an address
LEMMA AddNewer ==
    ASSUME IInv, IInv', Newest, NEW a \in Apps, NEW s \in Settings, builds' = builds,
           flows' = Add(Address(s), Flows(a, builds)),
           \A b \in Apps : \A c \in Live(b)' : c \in Live(b) \/ (c.settings = s /\ c.build = builds)
    PROVE  Newest'
<1>1. builds \in Nat /\ NetTypeOK /\ Address(s) \in Addresses
  BY SettingFacts DEF IInv, NetTypeOK
<1>2. \A r \in Addresses : flows'[r] = IF r = Address(s) THEN Flows(a, builds) ELSE flows[r]
  BY <1>1 DEF Add, NetTypeOK
<1>3. flows'[Address(s)].build = builds
  BY <1>1, <1>2, AppFlows
<1> SUFFICES ASSUME NEW b \in Apps, NEW c \in Live(b)'
             PROVE  c.build <= builds /\ c.build <= flows'[Address(c.settings)].build
  BY DEF Newest
<1>4. CASE c \in Live(b)
  <2>1. c.build <= builds /\ c.build <= flows[Address(c.settings)].build /\ Served(b, c)
    BY <1>4, AllServed DEF Newest
  <2>2. Address(c.settings) \in Addresses
    BY <2>1 DEF Served
  <2>3. CASE Address(c.settings) = Address(s)
    BY <1>3, <2>1, <2>3
  <2>4. CASE Address(c.settings) # Address(s)
    BY <1>2, <2>1, <2>2, <2>4
  <2> QED
    BY <2>3, <2>4
<1>5. CASE c.settings = s /\ c.build = builds
  BY <1>1, <1>3, <1>5
<1> QED
  BY <1>4, <1>5

LEMMA RegisterNewest ==
    ASSUME NetInv, IInv', Register
    PROVE  Newest' /\ Numbered'
<1>1. /\ turn.stage = "registering" /\ turn.todo # <<>> /\ turn.leaving = <<>> /\ builds > 0
      /\ components' = components /\ builds' = builds /\ IInv /\ Newest
  BY DEF Register, NetInv, ServingInv, TurnHas
<1>2. PICK a \in Apps : a = turn.app
  BY <1>1 DEF IInv, TurnOK
<1>3. turn.todo \in Seq(Settings) /\ turn.made \in Seq(Components) /\ NetTypeOK
  BY <1>1, TurnParts DEF IInv
<1>4. PICK s \in Settings : s = Head(turn.todo)
  BY <1>1, <1>3, Sequences
<1>5. deployed[a][s] \in Nat /\ builds \in Nat
  BY <1>3 DEF NetTypeOK
<1>6. PICK made \in Components : made = Component(s, deployed[a][s] + 1, builds)
  <2>1. Component(s, deployed[a][s] + 1, builds) \in Components
    BY <1>5 DEF Component, Components
  <2> QED
    BY <2>1, Zenon
<1>7. made.settings = s /\ made.build = builds
  BY <1>6 DEF Component
<1>8. /\ flows' = Add(Address(s), Flows(a, builds)) /\ Started(s, TRUE)
      /\ turn' = Turn("registering", a, Tail(turn.todo), Append(turn.made, made), <<>>)
  BY <1>2, <1>4, <1>6 DEF Register
<1>9. turn'.app = a /\ turn'.made = Append(turn.made, made) /\ turn'.leaving = <<>>
  BY <1>8 DEF Turn
<1>10. Range(Append(turn.made, made)) = Range(turn.made) \cup {made}
  BY <1>3, Sequences
<1>11. \A b \in Apps : \A c \in Live(b)' : c \in Live(b) \/ (c.settings = s /\ c.build = builds)
  <2>1. \A b \in Apps : Live(b)' \subseteq Live(b) \cup {made}
    BY <1>1, <1>2, <1>9, <1>10, Empty DEF Live
  <2> QED
    BY <1>7, <2>1
<1>12. Newest'
  BY <1>1, <1>8, <1>11, AddNewer
<1>13. Numbered'
  BY <1>1, <1>8, StartedNumbered
<1> QED
  BY <1>12, <1>13

LEMMA RegisterFailsNewest ==
    ASSUME NetInv, IInv', RegisterFails
    PROVE  Newest' /\ Numbered'
<1>1. /\ turn.stage = "registering" /\ turn.todo # <<>> /\ builds > 0
      /\ components' = components /\ builds' = builds /\ IInv /\ Newest
      /\ turn' = Turn("resuming", turn.app, <<>>, <<>>, <<>>)
  BY DEF RegisterFails, NetInv, ServingInv, TurnHas
<1>2. PICK a \in Apps : a = turn.app
  BY <1>1 DEF IInv, TurnOK
<1>3. PICK s \in Settings : s = Head(turn.todo)
  BY <1>1, TurnParts, Sequences DEF IInv
<1>4. turn'.app = a /\ turn'.made = <<>> /\ turn'.leaving = <<>>
  BY <1>1, <1>2, TurnFields
<1>5. \A b \in Apps : Live(b)' \subseteq Live(b)
  BY <1>1, <1>4, Empty DEF Live
<1>6. CASE UNCHANGED <<handlers, flows>>
  <2>1. UNCHANGED <<handlers, flows, builds>>
    BY <1>1, <1>6
  <2> QED
    BY <1>1, <1>5, <2>1, OnlyTurn
<1>7. CASE flows' = Add(Address(s), Flows(a, builds)) /\ Started(s, FALSE)
  <2>1. \A b \in Apps : \A c \in Live(b)' : c \in Live(b) \/ (c.settings = s /\ c.build = builds)
    BY <1>5
  <2>2. Newest'
    BY <1>1, <1>7, <2>1, AddNewer
  <2>3. Numbered'
    BY <1>1, <1>7, StartedNumbered
  <2> QED
    BY <2>2, <2>3
<1> QED
  BY <1>2, <1>3, <1>6, <1>7 DEF RegisterFails

\* what leaves takes its own flows away and brings none
LEMMA LeaveNewest ==
    ASSUME NetInv, IInv', Leave
    PROVE  Newest' /\ Numbered'
<1>1. /\ turn.stage = "leaving" /\ turn.leaving # <<>>
      /\ turn' = [turn EXCEPT !.leaving = Tail(turn.leaving)]
      /\ components' = components /\ builds' = builds /\ IInv /\ Newest /\ Numbered
  BY DEF Leave, NetInv, ServingInv
<1>2. NetTypeOK /\ turn \in TurnType /\ turn.leaving \in Seq(Components) /\ builds \in Nat
  BY <1>1, TurnParts DEF IInv, NetTypeOK
<1>3. /\ turn'.app = turn.app /\ turn'.made = turn.made
      /\ turn'.leaving = Tail(turn.leaving)
  BY <1>1, <1>2 DEF TurnType
<1>4. PICK c \in Components : c = Head(turn.leaving)
  BY <1>1, <1>2, Sequences
<1>5. Range(Tail(turn.leaving)) \subseteq Range(turn.leaving)
  BY <1>1, <1>2, <1>4, Sequences
<1>6. \A b \in Apps : Live(b)' \subseteq Live(b)
  BY <1>1, <1>3, <1>5 DEF Live
<1>7. \A r \in Addresses : flows'[r] # NoFlows => flows'[r] = flows[r]
  BY <1>2, <1>4 DEF Leave, Removed, NetTypeOK
<1>8. \A p \in Ports : handlers'[p] # NoHandler => handlers'[p] = handlers[p]
  BY <1>2, <1>4 DEF Leave, NetTypeOK
<1>9. Newest'
  <2>1. \A r \in Addresses : flows[r].build \in Nat
    BY <1>2 DEF NetTypeOK
  <2>2. \A r \in Addresses : flows'[r] # NoFlows => flows'[r].build >= flows[r].build
    BY <1>7, <2>1
  <2> QED
    BY <1>1, <1>2, <1>6, <2>2, NewestStays
<1>10. Numbered'
  BY <1>1, <1>8 DEF Numbered
<1> QED
  BY <1>9, <1>10

LEMMA NetInvStep ==
    ASSUME NetInv, [NetNext]_netVars
    PROVE  NetInv'
<1>1. CASE UNCHANGED netVars
  <2>1. ServingInv'
    BY <1>1, ServingStutter, StutterKeeps DEF NetInv, ServingInv
  <2>2. Newest' /\ Numbered'
    BY <1>1 DEF NetInv, netVars, Newest, Numbered, Live
  <2> QED
    BY <2>1, <2>2 DEF NetInv
<1>2. CASE NetNext
  <2>1. ServingInv' /\ IInv'
    BY <1>2, ServingStep, StepKeeps DEF NetInv, ServingInv
  <2>2. Newest' /\ Numbered'
    BY <1>2, <2>1, BeginNewest, CheckNewest, RegisterNewest, RegisterFailsNewest,
       PublishNewest, LeaveNewest, UndeployNewest, DoneNewest DEF NetNext
  <2> QED
    BY <2>1, <2>2 DEF NetInv
<1> QED
  BY <1>1, <1>2

LEMMA NetInvInit ==
    ASSUME NetInit
    PROVE  NetInv
<1>1. ServingInv
  BY ServingInit
<1>2. turn.app = "none" /\ "none" \notin Apps /\ \A a \in Apps : components[a] = <<>>
  BY TurnFields, NetAssumption DEF NetInit, NoTurn
<1>3. Newest
  BY <1>2, Empty DEF Newest, Live
<1>4. Numbered
  BY NetAssumption DEF NetInit, Numbered
<1> QED
  BY <1>1, <1>3, <1>4 DEF NetInv

-----------------------------------------------------------------------------
(* The composition: what is added to NetManager does not touch it.            *)

LEMMA NetSteps ==
    ASSUME [Next]_vars
    PROVE  [NetNext]_netVars
<1>1. CASE Next
  <2>1. CASE \E a \in Apps : BeginAndPause(a)
    BY <2>1 DEF BeginAndPause, NetNext
  <2>2. CASE Deploying
    BY <2>2 DEF Deploying, NetNext
  <2>3. CASE Resume \/ ResumeNext \/ Resumed
    BY <2>3 DEF Resume, ResumeNext, Resumed
  <2>4. CASE EndTurn
    BY <2>4 DEF EndTurn, NetNext
  <2>5. CASE ChannelRead
    BY <2>5 DEF ChannelRead, Receive, SeePaused, GetList, AddToList, SetUpNow
  <2> QED
    BY <1>1, <2>1, <2>2, <2>3, <2>4, <2>5 DEF Next, Deployment
<1>2. CASE UNCHANGED vars
  BY <1>2 DEF vars
<1> QED
  BY <1>1, <1>2

(* A deployment that pauses and resumes, with requests at any of its points,  *)
(* is a deployment of NetManager: its addresses are kept, its handlers are in *)
(* use and its applications serve their components here, too.                 *)
THEOREM KeepsNetManager == Spec => NetSpec
<1>1. Init => NetInit
  BY DEF Init
<1>2. [Next]_vars => [NetNext]_netVars
  BY NetSteps
<1> QED
  BY <1>1, <1>2, PTL DEF Spec, NetSpec

-----------------------------------------------------------------------------
(* Types.                                                                     *)

FlowsType == [app : Apps \cup {"none"}, build : Nat]
ConnType  == [pc : {"new", "found", "waiting", "adding", "held", "clear", "served", "closed", "lost"},
              setup : Setups \cup {NoSetup}, list : {0} \cup Builds, flows : FlowsType]
WalkType  == [setup : Setups \cup {NoSetup}, list : {0} \cup Builds, size : Nat, at : Nat]

\* a request that was received has a setup, and so has a list that is gone through
SetupsKnown == /\ \A c \in Conns : conns[c].pc # "new" => conns[c].setup \in Setups
               /\ walk.list > 0 => walk.setup \in Setups

ChannelType == /\ paused \in [Setups -> {0} \cup Builds]
               /\ lists \in [Setups -> [Builds -> Seq(Conns)]]
               /\ unpause \in Seq(Setups \cup {NoSetup})
               /\ walk \in WalkType
               /\ conns \in [Conns -> ConnType]

RInv == NetInv /\ ChannelType /\ SetupsKnown

LEMMA TypeParts == RInv => TypeOK
BY DEF RInv, NetInv, ServingInv, IInv, ChannelType, TypeOK, ConnType, WalkType, FlowsType

LEMMA SeenTyped ==
    ASSUME RInv, NEW u \in Setups
    PROVE  Seen(u) \in FlowsType
<1>1. u.address \in Addresses
  BY DEF Setups, HostAddresses
<1>2. flows[u.address] \in FlowsType
  BY <1>1 DEF RInv, NetInv, ServingInv, IInv, NetTypeOK, FlowsType
<1>3. NoFlows \in FlowsType
  BY DEF NoFlows, Flows, FlowsType
<1> QED
  BY <1>2, <1>3 DEF Seen

LEMMA ConnTyped ==
    ASSUME NEW pc \in {"found", "served", "closed"}, NEW u \in Setups, NEW flow \in FlowsType
    PROVE  /\ Conn(pc, u, 0, flow) \in ConnType
           /\ Conn(pc, u, 0, flow).pc = pc /\ Conn(pc, u, 0, flow).setup = u
           /\ Conn(pc, u, 0, flow).flows = flow
BY DEF Conn, ConnType

\* a step of one connection
LEMMA OneConn ==
    ASSUME ChannelType, SetupsKnown, NEW c, NEW new \in ConnType, new.setup \in Setups,
           conns' = [conns EXCEPT ![c] = new]
    PROVE  /\ conns' \in [Conns -> ConnType]
           /\ \A d \in Conns : conns'[d].pc # "new" => conns'[d].setup \in Setups
BY DEF ChannelType, SetupsKnown

LEMMA SetUpTyped ==
    ASSUME RInv, NEW c, NEW u \in Setups, SetUp(c, u)
    PROVE  /\ conns' \in [Conns -> ConnType]
           /\ \A d \in Conns : conns'[d].pc # "new" => conns'[d].setup \in Setups
<1>1. NoFlows \in FlowsType /\ Seen(u) \in FlowsType
  BY SeenTyped DEF NoFlows, Flows, FlowsType
<1>2. PICK new : /\ conns' = [conns EXCEPT ![c] = new]
                 /\ new \in {Conn("closed", u, 0, NoFlows), Conn("served", u, 0, Seen(u))}
  BY DEF SetUp
<1>3. new \in ConnType /\ new.setup \in Setups
  BY <1>1, <1>2, ConnTyped
<1> QED
  BY <1>2, <1>3, OneConn DEF RInv

\* the setup of a component that is paused
LEMMA PauseTyped ==
    ASSUME NetInv, NEW a \in Apps
    PROVE  PausedBy(a) \in Seq(Setups \cup {NoSetup})
<1>1. components[a] \in Seq(Components)
  BY DEF NetInv, ServingInv, IInv, NetTypeOK
<1>2. ASSUME NEW c \in Components, handlers[c.settings.port] # NoHandler,
             c.settings.type # "SOCKET"
      PROVE  Here(c) \in Setups
  <2>1. c.settings \in Settings
    BY DEF Components
  <2>2. /\ Address(c.settings) \in HostAddresses /\ c.settings.port \in Ports
    BY <1>2, <2>1, SettingFacts DEF HostAddresses
  <2>3. handlers[c.settings.port].since \in 1 .. builds /\ builds \in Nat /\ builds <= MaxBuilds
    BY <1>2, <2>2 DEF NetInv, Numbered, ServingInv, IInv, NetTypeOK
  <2>4. handlers[c.settings.port].since \in Builds
    BY <2>3, NetAssumption DEF Builds
  <2> QED
    BY <2>2, <2>4 DEF Here, Setup, Setups
<1>3. \A c \in Components : Pause(c) \in Setups \cup {NoSetup}
  BY <1>2 DEF Pause
<1> QED
  BY <1>1, <1>3 DEF PausedBy

\* steps that leave the channel setups alone
LEMMA ChannelStays ==
    ASSUME ChannelType, SetupsKnown, UNCHANGED channelVars
    PROVE  ChannelType' /\ SetupsKnown'
BY DEF ChannelType, SetupsKnown, channelVars

LEMMA BeginTyped ==
    ASSUME RInv, NEW a \in Apps, BeginAndPause(a)
    PROVE  ChannelType' /\ SetupsKnown'
<1>1. /\ unpause' = PausedBy(a)
      /\ paused' = [u \in Setups |->
                       IF u \in Range(unpause') /\ paused[u] = 0 THEN builds' ELSE paused[u]]
      /\ UNCHANGED <<lists, walk, conns>>
      /\ builds < MaxBuilds /\ builds' = builds + 1 /\ builds \in Nat
  BY DEF BeginAndPause, Begin, RInv, NetInv, ServingInv, IInv, NetTypeOK
<1>2. builds' \in Builds
  BY <1>1, NetAssumption DEF Builds
<1>3. unpause' \in Seq(Setups \cup {NoSetup})
  BY <1>1, PauseTyped DEF RInv
<1>4. paused' \in [Setups -> {0} \cup Builds]
  BY <1>1, <1>2 DEF RInv, ChannelType
<1> QED
  BY <1>1, <1>3, <1>4 DEF RInv, ChannelType, SetupsKnown

LEMMA ResumeTyped ==
    ASSUME RInv, Resume
    PROVE  ChannelType' /\ SetupsKnown'
<1>1. /\ unpause # <<>> /\ unpause \in Seq(Setups \cup {NoSetup})
      /\ unpause' = Tail(unpause) /\ UNCHANGED <<lists, conns>>
      /\ ChannelType /\ SetupsKnown
  BY DEF Resume, RInv, ChannelType
<1>2. unpause' \in Seq(Setups \cup {NoSetup})
  BY <1>1
<1>3. PICK u \in Setups \cup {NoSetup} : u = Head(unpause)
  BY <1>1
<1>4. CASE UNCHANGED <<paused, walk>>
  BY <1>1, <1>2, <1>4 DEF ChannelType, SetupsKnown
<1>5. CASE u # NoSetup /\ paused[u] # 0
  <2>1. u \in Setups /\ paused[u] \in Builds /\ paused[u] \in {0} \cup Builds
    BY <1>1, <1>5 DEF ChannelType
  <2>2. Len(lists[u][paused[u]]) \in Nat
    BY <1>1, <2>1 DEF ChannelType
  <2>3. walk' = [setup |-> u, list |-> paused[u], size |-> Len(lists[u][paused[u]]), at |-> 1]
    BY <1>3, <1>5 DEF Resume
  <2>4. walk' \in WalkType /\ walk'.setup = u
    BY <2>1, <2>2, <2>3 DEF WalkType
  <2>5. paused' = IF u.address.type = "HTTP" THEN [paused EXCEPT ![u] = 0] ELSE paused
    BY <1>3, <1>5 DEF Resume
  <2>6. paused' \in [Setups -> {0} \cup Builds]
    BY <1>1, <2>5 DEF ChannelType
  <2> QED
    BY <1>1, <1>2, <2>1, <2>4, <2>6 DEF ChannelType, SetupsKnown
<1> QED
  BY <1>3, <1>4, <1>5 DEF Resume

LEMMA ResumeNextTyped ==
    ASSUME RInv, ResumeNext
    PROVE  ChannelType' /\ SetupsKnown'
<1>1. /\ walk.list > 0 /\ walk' = [walk EXCEPT !.at = walk.at + 1]
      /\ UNCHANGED <<paused, lists, unpause>> /\ ChannelType /\ SetupsKnown /\ walk \in WalkType
  BY DEF ResumeNext, RInv, ChannelType
<1>2. PICK u \in Setups : u = walk.setup
  BY <1>1 DEF SetupsKnown
<1>3. /\ conns' \in [Conns -> ConnType]
      /\ \A d \in Conns : conns'[d].pc # "new" => conns'[d].setup \in Setups
  <2>1. \E c : SetUp(c, u)
    BY <1>2 DEF ResumeNext
  <2> QED
    BY <2>1, SetUpTyped
<1>4. walk' \in WalkType /\ walk'.setup = u
  BY <1>1, <1>2 DEF WalkType
<1> QED
  BY <1>1, <1>3, <1>4 DEF ChannelType, SetupsKnown

LEMMA ResumedTyped ==
    ASSUME RInv, Resumed
    PROVE  ChannelType' /\ SetupsKnown'
<1>1. NoWalk \in WalkType /\ NoWalk.list = 0
  BY DEF NoWalk, WalkType
<1> QED
  BY <1>1 DEF Resumed, RInv, ChannelType, SetupsKnown

LEMMA ReceiveTyped ==
    ASSUME RInv, NEW c \in Conns, Receive(c)
    PROVE  ChannelType' /\ SetupsKnown'
<1>1. UNCHANGED <<paused, lists, unpause, walk>> /\ ChannelType /\ SetupsKnown
  BY DEF Receive, RInv
<1>2. PICK r \in HostAddresses :
          /\ handlers[r.port].open
          /\ conns' = [conns EXCEPT ![c] =
                          IF flows[r] = NoFlows THEN Conn("closed", Setup(r, handlers[r.port].since), 0, NoFlows)
                          ELSE Conn("found", Setup(r, handlers[r.port].since), 0, flows[r])]
  BY DEF Receive
<1>3. r \in Addresses /\ r.port \in Ports /\ flows[r] \in FlowsType /\ NoFlows \in FlowsType
  <2>1. r \in Addresses
    BY DEF HostAddresses
  <2>2. PICK s \in Settings : r = Address(s)
    BY <2>1 DEF Addresses
  <2>3. r.port \in Ports
    BY <2>2, SettingFacts
  <2>4. flows[r] \in FlowsType
    BY <2>1 DEF RInv, NetInv, ServingInv, IInv, NetTypeOK, FlowsType
  <2>5. NoFlows \in FlowsType
    BY DEF NoFlows, Flows, FlowsType
  <2> QED
    BY <2>1, <2>3, <2>4, <2>5
<1>4. PICK u : u = Setup(r, handlers[r.port].since)
  OBVIOUS
<1>5. u \in Setups
  <2>1. handlers[r.port] # NoHandler
    BY <1>2 DEF NoHandler, Handler
  <2>2. handlers[r.port].since \in 1 .. builds /\ builds \in Nat /\ builds <= MaxBuilds
    BY <1>3, <2>1 DEF RInv, NetInv, Numbered, ServingInv, IInv, NetTypeOK
  <2>3. handlers[r.port].since \in Builds
    BY <2>2, NetAssumption DEF Builds
  <2> QED
    BY <1>4, <2>3 DEF Setup, Setups
<1>6. PICK new : /\ conns' = [conns EXCEPT ![c] = new]
                 /\ new \in {Conn("closed", u, 0, NoFlows), Conn("found", u, 0, flows[r])}
  BY <1>2, <1>4
<1>7. new \in ConnType /\ new.setup \in Setups
  BY <1>3, <1>5, <1>6, ConnTyped
<1>8. /\ conns' \in [Conns -> ConnType]
      /\ \A d \in Conns : conns'[d].pc # "new" => conns'[d].setup \in Setups
  BY <1>1, <1>6, <1>7, OneConn
<1> QED
  BY <1>1, <1>8 DEF ChannelType, SetupsKnown

LEMMA SetUpNowTyped ==
    ASSUME RInv, NEW c \in Conns, SetUpNow(c)
    PROVE  ChannelType' /\ SetupsKnown'
<1>1. UNCHANGED <<paused, lists, unpause, walk>> /\ ChannelType /\ SetupsKnown
  BY DEF SetUpNow, RInv
<1>2. PICK u \in Setups : u = conns[c].setup
  BY <1>1 DEF SetupsKnown, SetUpNow, At
<1>3. /\ conns' \in [Conns -> ConnType]
      /\ \A d \in Conns : conns'[d].pc # "new" => conns'[d].setup \in Setups
  BY <1>2, SetUpTyped DEF SetUpNow
<1> QED
  BY <1>1, <1>3 DEF ChannelType, SetupsKnown

\* steps of a request that was received
LEMMA WaitingTyped ==
    ASSUME RInv, NEW c \in Conns, SeePaused(c) \/ GetList(c) \/ AddToList(c)
    PROVE  ChannelType' /\ SetupsKnown'
<1>1. /\ UNCHANGED <<paused, unpause, walk>> /\ ChannelType /\ SetupsKnown
      /\ conns[c].pc # "new" /\ conns[c] \in ConnType
  BY DEF SeePaused, GetList, AddToList, At, RInv, ChannelType
<1>2. PICK u \in Setups : u = conns[c].setup
  BY <1>1 DEF SetupsKnown
<1>3. PICK pc \in {"waiting", "adding", "held", "clear", "lost"}, list \in {0} \cup Builds :
          conns' = [conns EXCEPT ![c] = [conns[c] EXCEPT !.pc = pc, !.list = list]]
  <2>1. conns[c].list \in {0} \cup Builds /\ paused[u] \in {0} \cup Builds
    BY <1>1 DEF ConnType, ChannelType
  <2>2. \A x : [conns[c] EXCEPT !.pc = x] = [conns[c] EXCEPT !.pc = x, !.list = conns[c].list]
    BY <1>1 DEF ConnType
  <2>3. ASSUME NEW x \in {"waiting", "adding", "held", "clear", "lost"}, Goes(c, x)
        PROVE  conns' = [conns EXCEPT ![c] = [conns[c] EXCEPT !.pc = x, !.list = conns[c].list]]
    BY <1>1, <2>2, <2>3 DEF Goes, ChannelType
  <2>4. CASE SeePaused(c)
    BY <2>1, <2>3, <2>4 DEF SeePaused
  <2>5. CASE AddToList(c)
    BY <2>1, <2>3, <2>5 DEF AddToList
  <2>6. CASE GetList(c)
    <3>1. conns' = [conns EXCEPT ![c] = [conns[c] EXCEPT !.pc = IF paused[u] = 0 THEN "lost" ELSE "adding",
                                                         !.list = paused[u]]]
      BY <1>1, <1>2, <2>6 DEF GetList, ChannelType
    <3> QED
      BY <2>1, <3>1
  <2> QED
    BY <2>4, <2>5, <2>6
<1>4. [conns[c] EXCEPT !.pc = pc, !.list = list] \in ConnType
  BY <1>1 DEF ConnType
<1>5. [conns[c] EXCEPT !.pc = pc, !.list = list].setup \in Setups
  BY <1>1, <1>2 DEF ConnType
<1>6. /\ conns' \in [Conns -> ConnType]
      /\ \A d \in Conns : conns'[d].pc # "new" => conns'[d].setup \in Setups
  BY <1>1, <1>3, <1>4, <1>5, OneConn
<1>7. lists' \in [Setups -> [Builds -> Seq(Conns)]]
  <2>1. CASE UNCHANGED lists
    BY <1>1, <2>1 DEF ChannelType
  <2>2. CASE lists' = [lists EXCEPT ![u][conns[c].list] = Append(@, c)]
    <3>1. PICK b \in {0} \cup Builds : b = conns[c].list
      BY <1>1 DEF ConnType
    <3>2. lists[u] \in [Builds -> Seq(Conns)]
      BY <1>1 DEF ChannelType
    <3>3. [lists[u] EXCEPT ![b] = Append(lists[u][b], c)] \in [Builds -> Seq(Conns)]
      <4>1. CASE b \in Builds
        <5>1. Append(lists[u][b], c) \in Seq(Conns)
          BY <3>2, <4>1
        <5> QED
          BY <3>2, <5>1
      <4>2. CASE b \notin Builds
        BY <3>2, <4>2
      <4> QED
        BY <4>1, <4>2
    <3>4. lists' = [lists EXCEPT ![u] = [lists[u] EXCEPT ![b] = Append(lists[u][b], c)]]
      BY <2>2, <3>1
    <3> QED
      BY <1>1, <3>3, <3>4 DEF ChannelType
  <2> QED
    BY <1>2, <2>1, <2>2 DEF SeePaused, GetList, AddToList
<1> QED
  BY <1>1, <1>6, <1>7 DEF ChannelType, SetupsKnown

LEMMA RInvStep ==
    ASSUME RInv, [Next]_vars
    PROVE  RInv'
<1>1. NetInv'
  BY NetSteps, NetInvStep DEF RInv
<1>2. ChannelType' /\ SetupsKnown'
  <2>1. CASE UNCHANGED channelVars
    BY <2>1, ChannelStays DEF RInv
  <2>2. CASE \E a \in Apps : BeginAndPause(a)
    BY <2>2, BeginTyped
  <2>3. CASE Resume
    BY <2>3, ResumeTyped
  <2>4. CASE ResumeNext
    BY <2>4, ResumeNextTyped
  <2>5. CASE Resumed
    BY <2>5, ResumedTyped
  <2>6. CASE ChannelRead
    BY <2>6, ReceiveTyped, SetUpNowTyped, WaitingTyped DEF ChannelRead
  <2>7. Deploying \/ EndTurn \/ UNCHANGED vars => UNCHANGED channelVars
    BY DEF Deploying, EndTurn, vars
  <2> QED
    BY <2>1, <2>2, <2>3, <2>4, <2>5, <2>6, <2>7 DEF Next, Deployment
<1> QED
  BY <1>1, <1>2 DEF RInv

LEMMA RInvInit ==
    ASSUME Init
    PROVE  RInv
<1>1. NetInv
  BY NetInvInit DEF Init
<1>2. NoFlows \in FlowsType /\ NoWalk \in WalkType /\ NoWalk.list = 0
  BY DEF NoFlows, Flows, FlowsType, NoWalk, WalkType
<1>3. Conn("new", NoSetup, 0, NoFlows) \in ConnType /\ Conn("new", NoSetup, 0, NoFlows).pc = "new"
  BY <1>2 DEF Conn, ConnType
<1>4. ChannelType /\ SetupsKnown
  BY <1>2, <1>3 DEF Init, ChannelType, SetupsKnown
<1> QED
  BY <1>1, <1>4 DEF RInv

-----------------------------------------------------------------------------
(* The ends of a request.                                                     *)

\* what a request that is set up ends as
LEMMA SetUpEnds ==
    ASSUME RInv, NEW d, NEW u \in Setups, SetUp(d, u), NEW c \in Conns,
           NEW pc \in {"served", "closed"}, Ends(c, pc)
    PROVE  /\ conns'[c].setup = u
           /\ pc = "served" => conns'[c].flows = Seen(u) /\ Seen(u) # NoFlows
           /\ pc = "closed" => Seen(u) = NoFlows
<1>1. conns \in [Conns -> ConnType] /\ NoFlows \in FlowsType /\ Seen(u) \in FlowsType
  BY SeenTyped DEF RInv, ChannelType, NoFlows, Flows, FlowsType
<1>2. PICK new : /\ conns' = [conns EXCEPT ![d] = new]
                 /\ new = IF Seen(u) = NoFlows THEN Conn("closed", u, 0, NoFlows)
                           ELSE Conn("served", u, 0, Seen(u))
  BY DEF SetUp
<1>3. conns'[c] = new
  BY <1>1, <1>2 DEF Ends
<1>4. new.pc = pc
  BY <1>3 DEF Ends
<1>5. CASE Seen(u) = NoFlows
  <2>1. new.pc = "closed" /\ new.setup = u
    BY <1>1, <1>2, <1>5, ConnTyped
  <2> QED
    BY <1>3, <1>4, <1>5, <2>1
<1>6. CASE Seen(u) # NoFlows
  <2>1. new.pc = "served" /\ new.setup = u /\ new.flows = Seen(u)
    BY <1>1, <1>2, <1>6, ConnTyped
  <2> QED
    BY <1>3, <1>4, <1>6, <2>1
<1> QED
  BY <1>5, <1>6

\* a request that is turned away when it is received had nothing to serve it
LEMMA ReceiveEnds ==
    ASSUME RInv, NEW d \in Conns, Receive(d), NEW c \in Conns,
           NEW pc \in {"served", "closed"}, Ends(c, pc)
    PROVE  pc = "closed" /\ conns'[c].setup \in Setups /\ Seen(conns'[c].setup) = NoFlows
<1>1. conns \in [Conns -> ConnType] /\ NoFlows \in FlowsType
  BY DEF RInv, ChannelType, NoFlows, Flows, FlowsType
<1>2. PICK r \in HostAddresses :
          conns' = [conns EXCEPT ![d] =
                       IF flows[r] = NoFlows THEN Conn("closed", Setup(r, handlers[r.port].since), 0, NoFlows)
                       ELSE Conn("found", Setup(r, handlers[r.port].since), 0, flows[r])]
  BY DEF Receive
<1>3. PICK u : u = Setup(r, handlers[r.port].since)
  OBVIOUS
<1>4. PICK new : /\ conns' = [conns EXCEPT ![d] = new]
                 /\ new = IF flows[r] = NoFlows THEN Conn("closed", u, 0, NoFlows)
                           ELSE Conn("found", u, 0, flows[r])
  BY <1>2, <1>3
<1>5. conns'[c] = new /\ new.pc = pc
  BY <1>1, <1>4 DEF Ends
<1>6. flows[r] = NoFlows /\ new.setup = u
  BY <1>4, <1>5 DEF Conn
<1>7. pc = "closed"
  BY <1>4, <1>5, <1>6 DEF Conn
<1>8. u \in Setups
  <2>1. conns'[c].pc # "new"
    BY DEF Ends
  <2>2. conns'[c].setup \in Setups
    BY <2>1, ReceiveTyped DEF SetupsKnown
  <2> QED
    BY <1>5, <1>6, <2>2
<1>9. u.address = r
  BY <1>3 DEF Setup
<1>10. Seen(u) = NoFlows
  BY <1>6, <1>9 DEF Seen
<1> QED
  BY <1>5, <1>6, <1>7, <1>8, <1>10

\* the other steps of a request do not end it
LEMMA WaitingGoesOn ==
    ASSUME RInv, NEW d \in Conns, SeePaused(d) \/ GetList(d) \/ AddToList(d), NEW c \in Conns,
           NEW pc \in {"served", "closed"}
    PROVE  ~Ends(c, pc)
<1>1. conns \in [Conns -> ConnType]
  BY DEF RInv, ChannelType
<1>2. \A x : Goes(d, x) => conns'[c].pc \in {conns[c].pc, x}
  BY <1>1 DEF Goes, ConnType
<1>3. CASE SeePaused(d)
  BY <1>2, <1>3 DEF SeePaused, Ends
<1>4. CASE AddToList(d)
  BY <1>2, <1>4 DEF AddToList, Ends
<1>5. CASE GetList(d)
  <2>1. conns'[c].pc \in {conns[c].pc, "lost", "adding"}
    BY <1>1, <1>5 DEF GetList, ConnType
  <2> QED
    BY <2>1 DEF Ends
<1> QED
  BY <1>3, <1>4, <1>5

LEMMA Endings ==
    ASSUME RInv, [Next]_vars, NEW c \in Conns, NEW pc \in {"served", "closed"}, Ends(c, pc)
    PROVE  /\ conns'[c].setup \in Setups
           /\ pc = "served" => /\ conns'[c].flows = Seen(conns'[c].setup)
                               /\ Seen(conns'[c].setup) # NoFlows
           /\ pc = "closed" => Seen(conns'[c].setup) = NoFlows
<1>1. conns' # conns
  BY DEF Ends
<1>2. ~(UNCHANGED channelVars \/ UNCHANGED vars)
  BY <1>1 DEF vars, channelVars
<1>3. ~(Deploying \/ Resume \/ Resumed \/ EndTurn \/ \E a \in Apps : BeginAndPause(a))
  BY <1>1, <1>2 DEF Deploying, Resume, Resumed, EndTurn, BeginAndPause
<1>4. CASE ResumeNext
  <2>1. PICK u \in Setups : u = walk.setup
    BY <1>4 DEF ResumeNext, RInv, SetupsKnown
  <2>2. \E d : SetUp(d, u)
    BY <1>4, <2>1 DEF ResumeNext
  <2> QED
    BY <2>2, SetUpEnds
<1>5. ASSUME NEW d \in Conns, SetUpNow(d)
      PROVE  \E u \in Setups : SetUp(d, u)
  BY <1>5 DEF SetUpNow, At, RInv, SetupsKnown
<1>6. CASE \E d \in Conns : SetUpNow(d)
  <2>1. \E d : \E u \in Setups : SetUp(d, u)
    BY <1>5, <1>6
  <2> QED
    BY <2>1, SetUpEnds
<1>7. CASE \E d \in Conns : Receive(d)
  BY <1>7, ReceiveEnds
<1>8. CASE \E d \in Conns : SeePaused(d) \/ GetList(d) \/ AddToList(d)
  BY <1>8, WaitingGoesOn
<1> QED
  BY <1>2, <1>3, <1>4, <1>6, <1>7, <1>8 DEF Next, Deployment, ChannelRead

-----------------------------------------------------------------------------
(* A deployment keeps the addresses of the port handlers up to date, and what  *)
(* waits for it known, whatever requests do meanwhile.                         *)
THEOREM RedeployInvariance == Spec => []RInv
<1>1. Init => RInv
  BY RInvInit
<1>2. RInv /\ [Next]_vars => RInv'
  BY RInvStep
<1> QED
  BY <1>1, <1>2, PTL DEF Spec

(* Every request has the setup of an address that an application has           *)
(* registered on a port handler that was made, and what is kept waiting is     *)
(* kept in a list of a build that paused the address.                          *)
THEOREM RedeployTyped == Spec => []TypeOK
<1>1. RInv => TypeOK
  BY TypeParts
<1> QED
  BY <1>1, RedeployInvariance, PTL

\* what serves the address of a component of a deployed application
LEMMA DeployedServes ==
    ASSUME RInv, NEW a \in Apps, NEW d \in Range(components[a]), NEW u \in Setups,
           Address(d.settings) = u.address
    PROVE  /\ flows[u.address].app = a /\ flows[u.address] # NoFlows
           /\ flows[u.address].build >= d.build
<1>1. d \in Live(a)
  BY DEF Live
<1>2. Served(a, d)
  BY <1>1, AllServed DEF RInv, NetInv, ServingInv
<1>3. d.build <= flows[u.address].build
  BY <1>1 DEF RInv, NetInv, Newest
<1>4. d.build \in Nat /\ flows[u.address].build \in Nat
  BY <1>2 DEF Served
<1> QED
  BY <1>2, <1>3, <1>4 DEF Served

(* However many deployments a request meets, it is turned away only when no    *)
(* deployed application has its address or the port was closed in between.     *)
THEOREM NobodyIsTurnedAway == Spec => NobodyTurnedAway
<1> DEFINE Away == \A c \in Conns : Ends(c, "closed") =>
                      LET u == conns'[c].setup
                      IN  ~HasApplication(u.address) \/ handlers[u.address.port].since # u.since
<1>1. ASSUME RInv, [Next]_vars
      PROVE  Away
  <2> SUFFICES ASSUME NEW c \in Conns, Ends(c, "closed"),
                      HasApplication(conns'[c].setup.address)
               PROVE  handlers[conns'[c].setup.address.port].since # conns'[c].setup.since
    OBVIOUS
  <2>1. PICK u \in Setups : u = conns'[c].setup
    BY <1>1, Endings
  <2>2. Seen(u) = NoFlows
    BY <1>1, <2>1, Endings
  <2>3. PICK a \in Apps : \E d \in Range(components[a]) : Address(d.settings) = u.address
    BY <2>1 DEF HasApplication
  <2>4. flows[u.address] # NoFlows
    BY <1>1, <2>3, DeployedServes
  <2>5. handlers[u.address.port].since # u.since
    BY <2>2, <2>4 DEF Seen
  <2> QED
    BY <2>1, <2>5
<1>2. RInv /\ [Next]_vars => [Away]_vars
  BY <1>1
<1> QED
  BY <1>2, RedeployInvariance, PTL DEF Spec, NobodyTurnedAway

(* A request for an address of a deployed application is served by it, with    *)
(* flows that are not of an older build, also when the request came before     *)
(* that version was deployed and was kept while it was.                        *)
THEOREM DeployedServe == Spec => ServedByDeployed
<1> DEFINE ByDeployed == \A c \in Conns : Ends(c, "served") =>
                 \A a \in Apps : \A d \in Range(components[a]) :
                     Address(d.settings) = conns'[c].setup.address =>
                         conns'[c].flows.app = a /\ conns'[c].flows.build >= d.build
<1>1. ASSUME RInv, [Next]_vars
      PROVE  ByDeployed
  <2> SUFFICES ASSUME NEW c \in Conns, Ends(c, "served"), NEW a \in Apps,
                      NEW d \in Range(components[a]),
                      Address(d.settings) = conns'[c].setup.address
               PROVE  conns'[c].flows.app = a /\ conns'[c].flows.build >= d.build
    OBVIOUS
  <2>1. PICK u \in Setups : u = conns'[c].setup
    BY <1>1, Endings
  <2>2. conns'[c].flows = Seen(u) /\ Seen(u) # NoFlows
    BY <1>1, <2>1, Endings
  <2>3. Seen(u) = flows[u.address]
    BY <2>2 DEF Seen
  <2>4. flows[u.address].app = a /\ flows[u.address].build >= d.build
    BY <1>1, <2>1, DeployedServes
  <2> QED
    BY <2>2, <2>3, <2>4
<1>2. RInv /\ [Next]_vars => [ByDeployed]_vars
  BY <1>1
<1> QED
  BY <1>2, RedeployInvariance, PTL DEF Spec, ServedByDeployed
=============================================================================
