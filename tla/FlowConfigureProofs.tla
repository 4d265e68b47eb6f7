-------------------------- MODULE FlowConfigureProofs --------------------------
(***************************************************************************)
(* What configure makes of every graph whose nodes are all behind its head. *)
(*                                                                         *)
(* The walk has made the calls behind some nodes, the done ones.  A path    *)
(* that has come to t, one that a call still to make will bring, and one    *)
(* from a node that is not done yet add up to all paths to t, whatever the  *)
(* order of the calls (Balance).  Paths are counted in two ways: of one     *)
(* connection, for the number of calls a node gets, and between joins, for  *)
(* the inputs and the halts of the runtime.                                 *)
(***************************************************************************)
EXTENDS FlowConfigure, FlowPathsProofs, TLAPS

Joining(g) == { n \in g.nodes : Multiple(g, n) }

AheadOf(g, w) == [n \in g.nodes |-> PathsBehind(g.children, w, n)]

\* w[n] is the number of paths from n to t that pass no node of J before t
CountsPaths(g, J, t, w) ==
    /\ w \in [g.nodes -> Nat]
    /\ \A n \in g.nodes : w[n] = IF n = t THEN 1 ELSE IF n \in J THEN 0 ELSE PathsBehind(g.children, w, n)

\* the paths that the calls with a trigger of T bring
Arriving(g, w, T) == [c \in CallsOf(g) |-> IF c.trigger \in T THEN w[c.node] ELSE 0]

Anyone(g) == g.nodes \cup {NoNode}

\* one connection, and up to a join
Single(g)    == [t \in g.nodes |-> [n \in g.nodes |-> IF n = t THEN 1 ELSE 0]]
PathsIn(g)   == [t \in g.nodes |-> PathsTo(t, g.nodes, g.children, Joining(g))]

Came(g, s, done, n) == IF Multiple(g, n) THEN s.counter[n] ELSE IF n \in done THEN 1 ELSE 0

Balance(g, s, done, J, W) ==
    \A t \in g.nodes :
        Came(g, s, done, t) + Worth(Arriving(g, W[t], Anyone(g)), s.calls)
            + Total(J \ done, AheadOf(g, W[t])) = W[t][g.head] + Total(J, AheadOf(g, W[t]))

\* a join is done when it has been counted for all its inputs, and only then
CountsFit(g, s, done) ==
    \A n \in g.nodes :
        IF Multiple(g, n) THEN n \in done <=> s.counter[n] = g.parents[n]
        ELSE s.counter[n] <= 1 /\ (n \notin done => s.counter[n] = 0)

CountInv(g, s, done) ==
    /\ done \subseteq g.nodes
    /\ CountsFit(g, s, done)
    /\ Balance(g, s, done, g.nodes, Single(g))
    /\ Balance(g, s, done, Joining(g), PathsIn(g))

\* what the call at the head of the calls does
Now(s)         == Head(s.calls)
NewCount(g, s) == IF Counts(g, Now(s)) THEN s.counter[Now(s).node] + 1 ELSE s.counter[Now(s).node]
Tells(g, s)    == s.isTrigger[Now(s).node] \/ NotifiesBehind(g, Now(s))
Goes(g, s)     == ProcessesChildren(g, Now(s).node, NewCount(g, s))
Onto(g, s)     == IF Tells(g, s) THEN Now(s).node ELSE Now(s).trigger
Made(g, s)     == IF Goes(g, s) THEN CallsBehind(g, Now(s).node, Onto(g, s)) ELSE <<>>
DoneThen(g, s, done) == IF Goes(g, s) THEN done \cup {Now(s).node} ELSE done

-----------------------------------------------------------------------------
(* Graphs.                                                                    *)

LEMMA GraphParts ==
    ASSUME NEW g, IsGraph(g)
    PROVE  /\ IsFiniteSet(g.nodes) /\ g.nodes \subseteq Nat /\ NoNode \notin g.nodes
           /\ g.head \in g.nodes /\ g.parents[g.head] = 0
           /\ \A n \in g.nodes : /\ g.children[n] \in Seq([node : g.nodes, key : Nat])
                                 /\ g.parents[n] = ParentCount(g, n)
                                 /\ IsFiniteSet(DOMAIN g.children[n])
                                 /\ \A i \in DOMAIN g.children[n] : g.children[n][i].node \in g.nodes
<1>1. /\ IsFiniteSet(g.nodes) /\ g.nodes \subseteq Nat
      /\ g.head \in g.nodes /\ g.parents[g.head] = 0
  BY DEF IsGraph
<1>2. NoNode \notin g.nodes
  BY <1>1 DEF NoNode
<1>3. ASSUME NEW n \in g.nodes
      PROVE  /\ g.children[n] \in Seq([node : g.nodes, key : Nat])
             /\ g.parents[n] = ParentCount(g, n)
             /\ IsFiniteSet(DOMAIN g.children[n])
             /\ \A i \in DOMAIN g.children[n] : g.children[n][i].node \in g.nodes
  <2>1. g.children[n] \in Seq([node : g.nodes, key : Nat])
    BY DEF IsGraph
  <2>2. g.parents[n] = ParentCount(g, n)
    <3>1. g.parents = [k \in g.nodes |-> ParentCount(g, k)]
      BY DEF IsGraph
    <3> QED
      BY <3>1
  <2>3. Len(g.children[n]) \in Nat /\ DOMAIN g.children[n] = 1 .. Len(g.children[n])
    BY <2>1
  <2>4. \A i \in DOMAIN g.children[n] : g.children[n][i] \in [node : g.nodes, key : Nat]
    BY <2>1, SeqElement
  <2> QED
    BY <2>1, <2>2, <2>3, <2>4, IntervalFinite
<1> QED
  BY <1>1, <1>2, <1>3

LEMMA GraphRank ==
    ASSUME NEW g, IsGraph(g)
    PROVE  \E m \in Nat : \E rank \in [g.nodes -> 1 .. m] :
              \A n \in g.nodes : \A i \in DOMAIN g.children[n] :
                  rank[n] < rank[g.children[n][i].node]
<1>1. Cardinality(g.nodes) \in Nat
  BY GraphParts, FS_CardinalityType
<1>2. \E rank \in [g.nodes -> 1 .. Cardinality(g.nodes)] :
              \A n \in g.nodes : \A i \in DOMAIN g.children[n] :
                  rank[n] < rank[g.children[n][i].node]
  <2>1. IsFiniteSet(g.nodes) /\ Acyclic(g)
    BY DEF IsGraph
  <2>2. \A n \in g.nodes : \A i \in DOMAIN g.children[n] : g.children[n][i].node \in g.nodes
    BY GraphParts
  <2> QED
    BY <2>1, <2>2, Ranked
<1> QED
  BY <1>1, <1>2

LEMMA AheadType ==
    ASSUME NEW g, IsGraph(g), NEW w \in [g.nodes -> Nat], NEW n \in g.nodes
    PROVE  PathsBehind(g.children, w, n) \in Nat
<1> DEFINE v == [i \in DOMAIN g.children[n] |-> w[g.children[n][i].node]]
<1>1. \A i \in DOMAIN g.children[n] : v[i] \in Nat
  BY GraphParts
<1>2. IsFiniteSet(DOMAIN g.children[n])
  BY GraphParts
<1> HIDE DEF v
<1>3. Total(DOMAIN g.children[n], v) \in Nat
  BY <1>1, <1>2, UnitsFinite
<1> QED
  BY <1>3 DEF PathsBehind, v

LEMMA AheadOfType ==
    ASSUME NEW g, IsGraph(g), NEW w \in [g.nodes -> Nat], NEW S \in SUBSET g.nodes
    PROVE  /\ IsFiniteSet(S) /\ \A n \in g.nodes : AheadOf(g, w)[n] = PathsBehind(g.children, w, n)
           /\ \A n \in S : AheadOf(g, w)[n] \in Nat
           /\ Total(S, AheadOf(g, w)) \in Nat
<1>1. IsFiniteSet(S)
  BY GraphParts, FS_Subset
<1>2. \A n \in g.nodes : AheadOf(g, w)[n] = PathsBehind(g.children, w, n)
  BY DEF AheadOf
<1>3. \A n \in S : AheadOf(g, w)[n] \in Nat
  BY <1>2, AheadType
<1> QED
  BY <1>1, <1>2, <1>3, UnitsFinite

LEMMA SinglePaths ==
    ASSUME NEW g, IsGraph(g), NEW t \in g.nodes
    PROVE  CountsPaths(g, g.nodes, t, Single(g)[t])
BY DEF CountsPaths, Single

LEMMA PathsInPaths ==
    ASSUME NEW g, IsGraph(g), NEW t \in g.nodes
    PROVE  CountsPaths(g, Joining(g), t, PathsIn(g)[t])
<1>1. HasRanks(g.nodes, g.children)
  BY GraphRank, GraphParts DEF HasRanks
<1> DEFINE p == PathsTo(t, g.nodes, g.children, Joining(g))
<1>2. /\ p \in [g.nodes -> Nat]
      /\ \A n \in g.nodes : p[n] = IF n = t THEN 1 ELSE IF n \in Joining(g) THEN 0
                                   ELSE PathsBehind(g.children, p, n)
  BY <1>1, PathsToFacts
<1>3. PathsIn(g)[t] = p
  BY DEF PathsIn
<1> HIDE DEF p
<1> QED
  BY <1>2, <1>3 DEF CountsPaths

\* there is no path from a node back to itself
LEMMA NoWayBack ==
    ASSUME NEW g, IsGraph(g), NEW J, NEW t \in g.nodes, NEW w, CountsPaths(g, J, t, w)
    PROVE  PathsBehind(g.children, w, t) = 0
<1>1. PICK m \in Nat : \E rank \in [g.nodes -> 1 .. m] :
              \A n \in g.nodes : \A i \in DOMAIN g.children[n] :
                  rank[n] < rank[g.children[n][i].node]
  BY GraphRank
<1>2. PICK rank \in [g.nodes -> 1 .. m] :
              \A n \in g.nodes : \A i \in DOMAIN g.children[n] :
                  rank[n] < rank[g.children[n][i].node]
  BY <1>1
<1> DEFINE After == { n \in g.nodes : rank[t] < rank[n] /\ w[n] # 0 }
<1>3. w \in [g.nodes -> Nat] /\ \A n \in g.nodes : rank[n] \in Nat
  <2>1. \A n \in g.nodes : rank[n] \in 1 .. m
    OBVIOUS
  <2> QED
    BY <2>1 DEF CountsPaths
<1>4. ASSUME After # {} PROVE FALSE
  <2>1. PICK n \in After : \A k \in After : rank[k] <= rank[n]
    <3>1. After \in SUBSET g.nodes
      OBVIOUS
    <3> HIDE DEF After
    <3> QED
      BY <1>4, <3>1, HighestRank
  <2>2. n \in g.nodes /\ rank[t] < rank[n] /\ w[n] # 0 /\ n # t
    BY <1>3, <2>1
  <2> DEFINE v == [i \in DOMAIN g.children[n] |-> w[g.children[n][i].node]]
  <2>3. ASSUME NEW i \in DOMAIN g.children[n] PROVE v[i] = 0
    <3> DEFINE c == g.children[n][i].node
    <3>1. c \in g.nodes /\ rank[n] < rank[c]
      BY <1>2, <2>2, GraphParts
    <3>2. rank[n] \in Nat /\ rank[c] \in Nat /\ rank[t] \in Nat
      BY <1>3, <2>2, <3>1
    <3>3. rank[t] < rank[c] /\ ~ (rank[c] <= rank[n])
      BY <2>2, <3>1, <3>2
    <3> HIDE DEF c
    <3>4. w[c] = 0
      BY <2>1, <3>1, <3>3
    <3> QED
      BY <3>4 DEF c
  <2> HIDE DEF v
  <2>4. Total(DOMAIN g.children[n], v) = 0
    BY <2>3, TotalZero
  <2>5. PathsBehind(g.children, w, n) = 0
    BY <2>4 DEF PathsBehind, v
  <2> QED
    BY <2>2, <2>5 DEF CountsPaths
<1> DEFINE v == [i \in DOMAIN g.children[t] |-> w[g.children[t][i].node]]
<1>5. ASSUME NEW i \in DOMAIN g.children[t] PROVE v[i] = 0
  BY <1>2, <1>4, GraphParts
<1> HIDE DEF v
<1>6. Total(DOMAIN g.children[t], v) = 0
  BY <1>5, TotalZero
<1> QED
  BY <1>6 DEF PathsBehind, v

\* who is connected to t, as paths of one connection
LEMMA ParentsAsPaths ==
    ASSUME NEW g, IsGraph(g), NEW t \in g.nodes
    PROVE  g.parents[t] = Total(g.nodes, AheadOf(g, Single(g)[t]))
<1> DEFINE to(m)  == { i \in DOMAIN g.children[m] : g.children[m][i].node = t }
           counts == [m \in g.nodes |-> Cardinality(to(m))]
<1>1. g.parents[t] = Total(g.nodes, counts)
  BY GraphParts DEF ParentCount
<1>2. ASSUME NEW m \in g.nodes PROVE counts[m] = AheadOf(g, Single(g)[t])[m]
  <2> DEFINE v == [i \in DOMAIN g.children[m] |-> Single(g)[t][g.children[m][i].node]]
  <2>1. \A i \in DOMAIN g.children[m] : v[i] = IF i \in to(m) THEN 1 ELSE 0
    BY GraphParts DEF Single
  <2>2. IsFiniteSet(DOMAIN g.children[m]) /\ to(m) \in SUBSET DOMAIN g.children[m]
    BY GraphParts
  <2> DEFINE A == to(m)
             D == DOMAIN g.children[m]
  <2> HIDE DEF v, A
  <2>3. \A i \in D : v[i] = IF i \in A THEN 1 ELSE 0
    BY <2>1 DEF A
  <2>4. IsFiniteSet(D) /\ A \in SUBSET D
    BY <2>2 DEF A
  <2> HIDE DEF D
  <2>5. Total(D, v) = Cardinality(A)
    BY <2>3, <2>4, TotalCounts
  <2> QED
    BY <2>5 DEF AheadOf, PathsBehind, v, A, D
<1> HIDE DEF counts
<1> QED
  BY <1>1, <1>2, TotalSame

-----------------------------------------------------------------------------
(* Calls.                                                                     *)

LEMMA CallParts ==
    ASSUME NEW n, NEW b, NEW t
    PROVE  CallTo(n, b, t).node = n /\ CallTo(n, b, t).optional = b /\ CallTo(n, b, t).trigger = t
BY DEF CallTo

LEMMA CallType ==
    ASSUME NEW g, NEW n \in g.nodes, NEW b \in BOOLEAN, NEW t \in Anyone(g)
    PROVE  CallTo(n, b, t) \in CallsOf(g)
BY DEF CallTo, CallsOf, Anyone

LEMMA ArrivingType ==
    ASSUME NEW g, NEW w \in [g.nodes -> Nat], NEW T
    PROVE  HasWeights(Arriving(g, w, T), CallsOf(g))
BY DEF HasWeights, Arriving, CallsOf

\* the calls behind n bring the paths on from n
LEMMA BehindType ==
    ASSUME NEW g, IsGraph(g), NEW n \in g.nodes, NEW trigger \in Anyone(g)
    PROVE  /\ CallsBehind(g, n, trigger) \in Seq(CallsOf(g))
           /\ DOMAIN CallsBehind(g, n, trigger) = DOMAIN g.children[n]
           /\ \A i \in DOMAIN g.children[n] :
                 CallsBehind(g, n, trigger)[i] =
                     CallTo(g.children[n][i].node, g.kind[n] = "router", trigger)
<1> DEFINE c == CallsBehind(g, n, trigger)
<1>1. /\ c = [i \in DOMAIN g.children[n] |-> c[i]]
      /\ \A i \in DOMAIN g.children[n] :
            c[i] = CallTo(g.children[n][i].node, g.kind[n] = "router", trigger)
  BY DEF CallsBehind
<1>2. ASSUME NEW i \in DOMAIN g.children[n] PROVE c[i] \in CallsOf(g)
  <2>1. g.children[n][i].node \in g.nodes /\ (g.kind[n] = "router") \in BOOLEAN
    BY GraphParts
  <2> QED
    BY <1>1, <2>1, CallType
<1> DEFINE t == g.children[n]
           K == [node : g.nodes, key : Nat]
<1>3. t \in Seq(K) /\ c = [i \in DOMAIN t |-> c[i]] /\ \A i \in DOMAIN t : c[i] \in CallsOf(g)
  BY <1>1, <1>2, GraphParts
<1> HIDE DEF c, t, K
<1>4. c \in Seq(CallsOf(g))
  BY <1>3, SeqOfFunction
<1>5. DOMAIN c = DOMAIN g.children[n]
  BY <1>1
<1> QED
  BY <1>1, <1>4, <1>5 DEF c

LEMMA BehindWorth ==
    ASSUME NEW g, IsGraph(g), NEW n \in g.nodes, NEW trigger \in Anyone(g),
           NEW w \in [g.nodes -> Nat], NEW T
    PROVE  Worth(Arriving(g, w, T), CallsBehind(g, n, trigger)) =
               IF trigger \in T THEN PathsBehind(g.children, w, n) ELSE 0
<1> DEFINE c == CallsBehind(g, n, trigger)
           D == DOMAIN g.children[n]
           u == [i \in DOMAIN c |-> Arriving(g, w, T)[c[i]]]
           v == [i \in D |-> w[g.children[n][i].node]]
<1>1. /\ c \in Seq(CallsOf(g)) /\ DOMAIN c = D
      /\ \A i \in D : c[i] = CallTo(g.children[n][i].node, g.kind[n] = "router", trigger)
  BY BehindType
<1>2. ASSUME NEW i \in D PROVE u[i] = IF trigger \in T THEN v[i] ELSE 0
  <2>1. c[i] \in CallsOf(g) /\ c[i].node = g.children[n][i].node /\ c[i].trigger = trigger
    <3>1. c[i] \in CallsOf(g)
      BY <1>1, SeqElement
    <3> HIDE DEF c
    <3> QED
      BY <1>1, <3>1, CallParts
  <2> HIDE DEF c
  <2>2. u[i] = IF c[i].trigger \in T THEN w[c[i].node] ELSE 0
    BY <1>1, <2>1 DEF Arriving
  <2> QED
    BY <2>1, <2>2
<1>3. Worth(Arriving(g, w, T), c) = Total(D, u)
  BY <1>1 DEF Worth
<1>4. PathsBehind(g.children, w, n) = Total(D, v)
  BY DEF PathsBehind
<1> HIDE DEF c, u, v, D
<1>5. CASE trigger \in T
  BY <1>2, <1>3, <1>4, <1>5, TotalSame DEF c
<1>6. CASE trigger \notin T
  BY <1>2, <1>3, <1>6, TotalZero DEF c
<1> QED
  BY <1>5, <1>6

LEMMA WalkParts ==
    ASSUME NEW g, NEW s \in WalksOf(g)
    PROVE  /\ s.calls \in Seq(CallsOf(g))
           /\ s.counter \in [g.nodes -> Nat]
           /\ s.isTrigger \in [g.nodes -> BOOLEAN]
           /\ s.listeners \in [g.nodes -> Seq(g.nodes)]
BY DEF WalksOf

\* the parts of a step of the walk
LEMMA StepParts ==
    ASSUME NEW g, IsGraph(g), NEW s \in WalksOf(g), s.calls # <<>>
    PROVE  /\ Now(s) \in CallsOf(g) /\ Tail(s.calls) \in Seq(CallsOf(g))
           /\ Now(s).node \in g.nodes /\ Now(s).optional \in BOOLEAN /\ Now(s).trigger \in Anyone(g)
           /\ NewCount(g, s) \in Nat /\ Tells(g, s) \in BOOLEAN /\ Onto(g, s) \in Anyone(g)
           /\ Made(g, s) \in Seq(CallsOf(g))
<1>1. Now(s) \in CallsOf(g) /\ Tail(s.calls) \in Seq(CallsOf(g))
  BY WalkParts, SeqTail DEF Now
<1>2. Now(s).node \in g.nodes /\ Now(s).optional \in BOOLEAN /\ Now(s).trigger \in Anyone(g)
  BY <1>1 DEF CallsOf, Anyone
<1>3. s.counter[Now(s).node] \in Nat /\ s.isTrigger[Now(s).node] \in BOOLEAN
  BY <1>2, WalkParts
<1>4. NewCount(g, s) \in Nat
  BY <1>3 DEF NewCount
<1>5. Tells(g, s) \in BOOLEAN
  BY <1>3 DEF Tells, NotifiesBehind
<1>6. Onto(g, s) \in Anyone(g)
  BY <1>2 DEF Onto, Anyone
<1>7. Made(g, s) \in Seq(CallsOf(g))
  BY <1>2, <1>6, BehindType DEF Made
<1> QED
  BY <1>1, <1>2, <1>4, <1>5, <1>6, <1>7

LEMMA StepFields ==
    ASSUME NEW g, IsGraph(g), NEW s \in WalksOf(g), s.calls # <<>>
    PROVE  /\ NextCall(g, s).counter = [s.counter EXCEPT ![Now(s).node] = NewCount(g, s)]
           /\ NextCall(g, s).isTrigger = [s.isTrigger EXCEPT ![Now(s).node] = Tells(g, s)]
           /\ NextCall(g, s).listeners =
                 IF Now(s).trigger # NoNode /\ Tells(g, s)
                 THEN [s.listeners EXCEPT ![Now(s).trigger] = Append(@, Now(s).node)]
                 ELSE s.listeners
           /\ NextCall(g, s).calls = Made(g, s) \o Tail(s.calls)
BY DEF NextCall, Now, NewCount, Tells, Goes, Onto, Made

LEMMA StepTyped ==
    ASSUME NEW g, IsGraph(g), NEW s \in WalksOf(g), s.calls # <<>>
    PROVE  NextCall(g, s) \in WalksOf(g)
<1> DEFINE next == NextCall(g, s)
<1>1. /\ next.counter = [s.counter EXCEPT ![Now(s).node] = NewCount(g, s)]
      /\ next.isTrigger = [s.isTrigger EXCEPT ![Now(s).node] = Tells(g, s)]
      /\ next.listeners =
            IF Now(s).trigger # NoNode /\ Tells(g, s)
            THEN [s.listeners EXCEPT ![Now(s).trigger] = Append(@, Now(s).node)]
            ELSE s.listeners
      /\ next.calls = Made(g, s) \o Tail(s.calls)
  BY StepFields
<1>2. /\ Now(s).node \in g.nodes /\ Now(s).trigger \in Anyone(g)
      /\ NewCount(g, s) \in Nat /\ Tells(g, s) \in BOOLEAN
      /\ Made(g, s) \in Seq(CallsOf(g)) /\ Tail(s.calls) \in Seq(CallsOf(g))
  BY StepParts
<1>3. /\ s.counter \in [g.nodes -> Nat] /\ s.isTrigger \in [g.nodes -> BOOLEAN]
      /\ s.listeners \in [g.nodes -> Seq(g.nodes)]
  BY WalkParts
<1>4. next = [counter |-> next.counter, isTrigger |-> next.isTrigger,
              listeners |-> next.listeners, calls |-> next.calls]
  BY DEF NextCall
<1> HIDE DEF next
<1>5. next.counter \in [g.nodes -> Nat] /\ next.isTrigger \in [g.nodes -> BOOLEAN]
  BY <1>1, <1>2, <1>3
<1>6. next.listeners \in [g.nodes -> Seq(g.nodes)]
  <2>1. CASE Now(s).trigger # NoNode /\ Tells(g, s)
    <3>1. Now(s).trigger \in g.nodes
      BY <1>2, <2>1 DEF Anyone
    <3>2. Append(s.listeners[Now(s).trigger], Now(s).node) \in Seq(g.nodes)
      BY <1>2, <1>3, <3>1, SeqAppend
    <3> QED
      BY <1>1, <1>3, <2>1, <3>1, <3>2
  <2>2. CASE ~ (Now(s).trigger # NoNode /\ Tells(g, s))
    BY <1>1, <1>3, <2>2
  <2> QED
    BY <2>1, <2>2
<1>7. next.calls \in Seq(CallsOf(g))
  BY <1>1, <1>2, SeqConcat
<1>8. next \in WalksOf(g)
  BY <1>4, <1>5, <1>6, <1>7 DEF WalksOf
<1> QED
  BY <1>8 DEF next

\* the calls after a step
LEMMA StepWorth ==
    ASSUME NEW g, IsGraph(g), NEW s \in WalksOf(g), s.calls # <<>>,
           NEW w \in [g.nodes -> Nat], NEW T
    PROVE  LET arriving == Arriving(g, w, T) IN
           /\ Worth(arriving, Tail(s.calls)) \in Nat
           /\ Worth(arriving, s.calls) = (IF Now(s).trigger \in T THEN w[Now(s).node] ELSE 0)
                                           + Worth(arriving, Tail(s.calls))
           /\ Worth(arriving, NextCall(g, s).calls) =
                 (IF Goes(g, s) /\ Onto(g, s) \in T THEN PathsBehind(g.children, w, Now(s).node) ELSE 0)
                    + Worth(arriving, Tail(s.calls))
<1> DEFINE a == Arriving(g, w, T)
<1>1. /\ Now(s) \in CallsOf(g) /\ Now(s).node \in g.nodes /\ Onto(g, s) \in Anyone(g)
      /\ Made(g, s) \in Seq(CallsOf(g)) /\ Tail(s.calls) \in Seq(CallsOf(g))
  BY StepParts
<1>2. HasWeights(a, CallsOf(g)) /\ s.calls \in Seq(CallsOf(g))
  BY ArrivingType, WalkParts
<1>3. a[Now(s)] = IF Now(s).trigger \in T THEN w[Now(s).node] ELSE 0
  BY <1>1 DEF Arriving
<1>4. NextCall(g, s).calls = Made(g, s) \o Tail(s.calls)
  BY StepFields
<1>5. Worth(a, Made(g, s)) =
        IF Goes(g, s) /\ Onto(g, s) \in T THEN PathsBehind(g.children, w, Now(s).node) ELSE 0
  <2>1. CASE Goes(g, s)
    <3>1. Worth(a, CallsBehind(g, Now(s).node, Onto(g, s))) =
            IF Onto(g, s) \in T THEN PathsBehind(g.children, w, Now(s).node) ELSE 0
      BY <1>1, BehindWorth
    <3> QED
      BY <2>1, <3>1 DEF Made
  <2>2. CASE ~ Goes(g, s)
    BY <2>2, WorthEmpty DEF Made
  <2> QED
    BY <2>1, <2>2
<1> HIDE DEF a
<1>6. Worth(a, s.calls) = a[Now(s)] + Worth(a, Tail(s.calls))
  BY <1>2, WorthTail DEF Now
<1>7. Worth(a, Made(g, s) \o Tail(s.calls)) = Worth(a, Made(g, s)) + Worth(a, Tail(s.calls))
  <2> DEFINE C == CallsOf(g)
             x == Made(g, s)
             y == Tail(s.calls)
  <2>1. x \in Seq(C) /\ y \in Seq(C) /\ HasWeights(a, C)
    BY <1>1, <1>2
  <2> HIDE DEF C, x, y
  <2>2. Worth(a, x \o y) = Worth(a, x) + Worth(a, y)
    BY <2>1, WorthConcat
  <2> QED
    BY <2>2 DEF x, y
<1>8. Worth(a, Tail(s.calls)) \in Nat
  BY <1>1, <1>2, WorthType
<1> QED
  BY <1>3, <1>4, <1>5, <1>6, <1>7, <1>8 DEF a

-----------------------------------------------------------------------------
(* Every step keeps the balance of the paths to each node.                    *)

\* a node waits for this call, or it goes on
LEMMA CameOnce ==
    ASSUME NEW g, IsGraph(g), NEW s \in WalksOf(g), s.calls # <<>>,
           NEW done \in SUBSET g.nodes, Now(s).node \notin done, NEW t \in g.nodes
    PROVE  /\ Came(g, s, done, t) \in Nat
           /\ Came(g, NextCall(g, s), DoneThen(g, s, done), t) =
                 Came(g, s, done, t) + (IF t = Now(s).node THEN 1 ELSE 0)
           /\ ~ Goes(g, s) => Multiple(g, Now(s).node)
<1> DEFINE n     == Now(s).node
           next  == NextCall(g, s)
           after == DoneThen(g, s, done)
<1>1. /\ n \in g.nodes /\ NewCount(g, s) \in Nat
      /\ s.counter \in [g.nodes -> Nat]
      /\ next.counter = [s.counter EXCEPT ![n] = NewCount(g, s)]
  BY StepParts, StepFields, WalkParts
<1>2. ~ Goes(g, s) => Multiple(g, n)
  BY DEF Goes, ProcessesChildren
<1>3. after = IF Goes(g, s) THEN done \cup {n} ELSE done
  BY DEF DoneThen
<1>4. Multiple(g, n) => NewCount(g, s) = s.counter[n] + 1
  BY DEF NewCount, Counts
<1>5. s.counter[t] \in Nat /\ Came(g, s, done, t) \in Nat
  BY <1>1 DEF Came
<1> HIDE DEF n, next, after
<1>6. CASE t = n
  BY <1>1, <1>2, <1>3, <1>4, <1>5, <1>6 DEF Came, n, next, after
<1>7. CASE t # n
  BY <1>1, <1>2, <1>3, <1>5, <1>7 DEF Came, n, next, after
<1> QED
  BY <1>2, <1>5, <1>6, <1>7 DEF n

LEMMA BalanceKept ==
    ASSUME NEW g, IsGraph(g), NEW s \in WalksOf(g), s.calls # <<>>,
           NEW done \in SUBSET g.nodes, Now(s).node \notin done,
           NEW J \in SUBSET g.nodes, Joining(g) \subseteq J,
           NEW W, \A t \in g.nodes : CountsPaths(g, J, t, W[t]),
           Balance(g, s, done, J, W)
    PROVE  Balance(g, NextCall(g, s), DoneThen(g, s, done), J, W)
<1> SUFFICES ASSUME NEW t \in g.nodes
             PROVE  Came(g, NextCall(g, s), DoneThen(g, s, done), t)
                       + Worth(Arriving(g, W[t], Anyone(g)), NextCall(g, s).calls)
                       + Total(J \ DoneThen(g, s, done), AheadOf(g, W[t]))
                    = W[t][g.head] + Total(J, AheadOf(g, W[t]))
  BY DEF Balance
<1> DEFINE w     == W[t]
           n     == Now(s).node
           on    == PathsBehind(g.children, w, n)
           after == DoneThen(g, s, done)
           a     == Arriving(g, w, Anyone(g))
           rest  == Worth(a, Tail(s.calls))
           left  == Total(J \ done, AheadOf(g, w))
<1>1. /\ w \in [g.nodes -> Nat]
      /\ n \in g.nodes
      /\ w[n] = IF n = t THEN 1 ELSE IF n \in J THEN 0 ELSE on
  BY StepParts DEF CountsPaths
<1>2. on \in Nat /\ (n = t => on = 0)
  BY <1>1, AheadType, NoWayBack
<1>3. /\ rest \in Nat
      /\ Worth(a, s.calls) = w[n] + rest
      /\ Worth(a, NextCall(g, s).calls) = (IF Goes(g, s) THEN on ELSE 0) + rest
  <2>1. Now(s).trigger \in Anyone(g) /\ Onto(g, s) \in Anyone(g)
    BY StepParts
  <2>2. /\ Worth(a, Tail(s.calls)) \in Nat
        /\ Worth(a, s.calls) = (IF Now(s).trigger \in Anyone(g) THEN w[n] ELSE 0)
                                 + Worth(a, Tail(s.calls))
        /\ Worth(a, NextCall(g, s).calls) =
              (IF Goes(g, s) /\ Onto(g, s) \in Anyone(g) THEN on ELSE 0) + Worth(a, Tail(s.calls))
    BY <1>1, StepWorth
  <2> HIDE DEF a, on, w, n
  <2> QED
    BY <2>1, <2>2
<1>4. /\ left \in Nat
      /\ Total(J \ after, AheadOf(g, w)) = IF Goes(g, s) /\ n \in J THEN left - on ELSE left
  <2> DEFINE S == J \ done
             v == AheadOf(g, w)
  <2>1. /\ IsFiniteSet(S) /\ \A k \in S : v[k] \in Nat
        /\ Total(S, v) \in Nat
        /\ v[n] = on
    BY <1>1, AheadOfType
  <2>2. J \ after = IF Goes(g, s) /\ n \in J THEN S \ {n} ELSE S
    BY DEF DoneThen
  <2>3. n \in J => n \in S
    OBVIOUS
  <2>4. ASSUME n \in J PROVE Total(S, v) = Total(S \ {n}, v) + v[n] /\ Total(S \ {n}, v) \in Nat
    <3> HIDE DEF S, v, n
    <3>1. n \in S
      BY <2>3, <2>4
    <3>2. IsFiniteSet(S \ {n}) /\ \A k \in S \ {n} : v[k] \in Nat
      BY <2>1, FS_RemoveElement
    <3> QED
      BY <2>1, <3>1, <3>2, TotalRemove, UnitsFinite
  <2> HIDE DEF S, v, n, on, after, w
  <2>5. left = Total(S, v)
    BY DEF left, S, v
  <2> HIDE DEF left
  <2>6. CASE Goes(g, s) /\ n \in J
    <3>1. J \ after = S \ {n}
      BY <2>2, <2>6
    <3>2. Total(S, v) = Total(S \ {n}, v) + v[n] /\ Total(S \ {n}, v) \in Nat
      BY <2>4, <2>6
    <3>3. Total(S \ {n}, v) = left - on
      BY <1>2, <2>1, <2>5, <3>2
    <3> QED
      BY <2>1, <2>5, <2>6, <3>1, <3>3 DEF v
  <2>7. CASE ~ (Goes(g, s) /\ n \in J)
    <3>1. J \ after = S
      BY <2>2, <2>7
    <3> QED
      BY <2>1, <2>5, <2>7, <3>1 DEF v
  <2> QED
    BY <2>6, <2>7
<1>5. /\ Came(g, s, done, t) \in Nat
      /\ Came(g, NextCall(g, s), after, t) = Came(g, s, done, t) + (IF t = n THEN 1 ELSE 0)
      /\ ~ Goes(g, s) => n \in J
  BY <1>1, CameOnce DEF Joining
<1>6. Came(g, s, done, t) + Worth(a, s.calls) + left = w[g.head] + Total(J, AheadOf(g, w))
  BY DEF Balance
<1> HIDE DEF w, n, on, after, a, rest, left
<1>7. Came(g, NextCall(g, s), after, t) + Worth(a, NextCall(g, s).calls)
        + Total(J \ after, AheadOf(g, w))
      = Came(g, s, done, t) + Worth(a, s.calls) + left
  <2> DEFINE came == Came(g, s, done, t)
  <2>1. came \in Nat
    BY <1>5
  <2> HIDE DEF came
  <2>2. CASE t = n
    BY <1>1, <1>2, <1>3, <1>4, <1>5, <2>1, <2>2 DEF came
  <2>3. CASE t # n
    BY <1>1, <1>2, <1>3, <1>4, <1>5, <2>1, <2>3 DEF came
  <2> QED
    BY <2>2, <2>3
<1> QED
  BY <1>6, <1>7 DEF w, after, a

LEMMA BalanceFirst ==
    ASSUME NEW g, IsGraph(g), NEW J \in SUBSET g.nodes,
           NEW W, \A t \in g.nodes : CountsPaths(g, J, t, W[t])
    PROVE  Balance(g, FirstCall(g), {}, J, W)
<1> SUFFICES ASSUME NEW t \in g.nodes
             PROVE  Came(g, FirstCall(g), {}, t)
                       + Worth(Arriving(g, W[t], Anyone(g)), FirstCall(g).calls)
                       + Total(J \ {}, AheadOf(g, W[t]))
                    = W[t][g.head] + Total(J, AheadOf(g, W[t]))
  BY DEF Balance
<1> DEFINE c == CallTo(g.head, FALSE, NoNode)
           a == Arriving(g, W[t], Anyone(g))
<1>1. W[t] \in [g.nodes -> Nat] /\ g.head \in g.nodes
  BY GraphParts DEF CountsPaths
<1>2. FirstCall(g).calls = <<c>> /\ Came(g, FirstCall(g), {}, t) = 0
  BY DEF FirstCall, Came
<1>3. c \in CallsOf(g) /\ c.node = g.head /\ c.trigger = NoNode
  <2>1. c \in CallsOf(g)
    BY <1>1, CallType DEF Anyone
  <2>2. c.node = g.head /\ c.trigger = NoNode
    BY DEF CallTo
  <2> QED
    BY <2>1, <2>2
<1>4. a[c] = W[t][g.head] /\ a[c] \in Nat
  BY <1>1, <1>3 DEF Arriving, Anyone
<1>5. Total(J, AheadOf(g, W[t])) \in Nat /\ J \ {} = J
  BY <1>1, AheadOfType
<1> HIDE DEF a, c
<1>6. Worth(a, <<c>>) = a[c]
  BY <1>4, WorthOne
<1> QED
  BY <1>2, <1>4, <1>5, <1>6 DEF a

LEMMA FirstCounts ==
    ASSUME NEW g, IsGraph(g)
    PROVE  FirstCall(g) \in WalksOf(g) /\ CountInv(g, FirstCall(g), {})
<1>1. FirstCall(g) \in WalksOf(g)
  <2>1. CallTo(g.head, FALSE, NoNode) \in CallsOf(g)
    BY GraphParts, CallType DEF Anyone
  <2> QED
    <3> DEFINE c == CallTo(g.head, FALSE, NoNode)
    <3>1. <<c>> \in Seq(CallsOf(g))
      BY <2>1, SeqOfOne
    <3>2. [n \in g.nodes |-> <<>>] \in [g.nodes -> Seq(g.nodes)]
      OBVIOUS
    <3>3. FirstCall(g) = [calls |-> <<c>>, counter |-> [n \in g.nodes |-> 0],
                          isTrigger |-> [n \in g.nodes |-> FALSE],
                          listeners |-> [n \in g.nodes |-> <<>>]]
      BY DEF FirstCall
    <3> HIDE DEF c
    <3> QED
      BY <3>1, <3>2, <3>3 DEF WalksOf
<1>2. CountsFit(g, FirstCall(g), {})
  BY DEF CountsFit, FirstCall, Multiple
<1>3. Balance(g, FirstCall(g), {}, g.nodes, Single(g))
  BY SinglePaths, BalanceFirst
<1>4. Balance(g, FirstCall(g), {}, Joining(g), PathsIn(g))
  BY PathsInPaths, BalanceFirst DEF Joining
<1> QED
  BY <1>1, <1>2, <1>3, <1>4 DEF CountInv

\* a node gets a call along every connection that leads to it, and the head the first one
LEMMA CallsInAll ==
    ASSUME NEW g, IsGraph(g), NEW s, NEW done, CountInv(g, s, done), NEW t \in g.nodes
    PROVE  /\ g.parents[t] \in Nat
           /\ Came(g, s, done, t) + Worth(Arriving(g, Single(g)[t], Anyone(g)), s.calls)
                 + Total(g.nodes \ done, AheadOf(g, Single(g)[t]))
              = (IF t = g.head THEN 1 ELSE 0) + g.parents[t]
<1>1. Balance(g, s, done, g.nodes, Single(g))
  BY DEF CountInv
<1>2. Single(g)[t][g.head] = (IF t = g.head THEN 1 ELSE 0) /\ Single(g)[t] \in [g.nodes -> Nat]
  BY GraphParts DEF Single
<1>3. g.parents[t] = Total(g.nodes, AheadOf(g, Single(g)[t]))
  BY ParentsAsPaths
<1>4. g.parents[t] \in Nat
  BY <1>2, <1>3, AheadOfType
<1> QED
  BY <1>1, <1>2, <1>3, <1>4 DEF Balance

LEMMA NotDoneYet ==
    ASSUME NEW g, IsGraph(g), NEW s \in WalksOf(g), s.calls # <<>>,
           NEW done, CountInv(g, s, done)
    PROVE  /\ Now(s).node \in g.nodes \ done
           /\ Multiple(g, Now(s).node) => s.counter[Now(s).node] < g.parents[Now(s).node]
<1> DEFINE n     == Now(s).node
           w     == Single(g)[n]
           came  == Came(g, s, done, n)
           left  == Total(g.nodes \ done, AheadOf(g, w))
           calls == Worth(Arriving(g, w, Anyone(g)), s.calls)
           rest  == Worth(Arriving(g, w, Anyone(g)), Tail(s.calls))
<1>1. n \in g.nodes /\ Now(s).trigger \in Anyone(g)
  BY StepParts
<1>2. w \in [g.nodes -> Nat] /\ w[n] = 1
  BY <1>1 DEF Single
<1>3. rest \in Nat /\ calls = 1 + rest
  BY <1>1, <1>2, StepWorth
<1>4. left \in Nat
  BY <1>2, AheadOfType
<1>5. s.counter[n] \in Nat /\ came \in Nat
  BY <1>1, WalkParts DEF Came
<1>6. g.parents[n] \in Nat /\ came + calls + left = (IF n = g.head THEN 1 ELSE 0) + g.parents[n]
  <2>1. \A t \in g.nodes :
           /\ g.parents[t] \in Nat
           /\ Came(g, s, done, t) + Worth(Arriving(g, Single(g)[t], Anyone(g)), s.calls)
                 + Total(g.nodes \ done, AheadOf(g, Single(g)[t]))
                = (IF t = g.head THEN 1 ELSE 0) + g.parents[t]
    BY CallsInAll
  <2> HIDE DEF n
  <2> QED
    BY <1>1, <2>1, Zenon
<1>7. g.parents[g.head] = 0
  BY GraphParts
<1> HIDE DEF n, w, came, left, calls, rest
<1>8. CASE Multiple(g, n)
  <2>1. n # g.head /\ came = s.counter[n]
    BY <1>7, <1>8 DEF Multiple, came, Came, n
  <2>2. s.counter[n] < g.parents[n]
    BY <1>3, <1>4, <1>5, <1>6, <2>1
  <2>3. n \notin done
    BY <1>1, <1>5, <1>6, <1>8, <2>2 DEF CountInv, CountsFit
  <2> QED
    BY <1>1, <2>2, <2>3 DEF n
<1>9. CASE ~ Multiple(g, n)
  <2>1. g.parents[n] <= 1
    BY <1>6, <1>9 DEF Multiple
  <2>2. came = 0
    BY <1>3, <1>4, <1>5, <1>6, <1>7, <2>1
  <2>3. n \notin done
    BY <1>9, <2>2 DEF came, Came, n
  <2> QED
    BY <1>1, <1>9, <2>3 DEF n
<1> QED
  BY <1>8, <1>9

LEMMA CountsKept ==
    ASSUME NEW g, IsGraph(g), NEW s \in WalksOf(g), s.calls # <<>>,
           NEW done, CountInv(g, s, done)
    PROVE  CountInv(g, NextCall(g, s), DoneThen(g, s, done))
<1> DEFINE n     == Now(s).node
           next  == NextCall(g, s)
           after == DoneThen(g, s, done)
<1>1. n \in g.nodes \ done /\ (Multiple(g, n) => s.counter[n] < g.parents[n])
  BY NotDoneYet
<1>2. done \in SUBSET g.nodes /\ after \in SUBSET g.nodes
  BY <1>1 DEF CountInv, DoneThen
<1>3. Balance(g, next, after, g.nodes, Single(g))
  <2>1. Balance(g, s, done, g.nodes, Single(g)) /\ Joining(g) \subseteq g.nodes
    BY DEF CountInv, Joining
  <2>2. \A t \in g.nodes : CountsPaths(g, g.nodes, t, Single(g)[t])
    BY SinglePaths
  <2> QED
    BY <1>1, <1>2, <2>1, <2>2, BalanceKept
<1>4. Balance(g, next, after, Joining(g), PathsIn(g))
  <2>1. Balance(g, s, done, Joining(g), PathsIn(g)) /\ Joining(g) \in SUBSET g.nodes
    BY DEF CountInv, Joining
  <2>2. \A t \in g.nodes : CountsPaths(g, Joining(g), t, PathsIn(g)[t])
    BY PathsInPaths
  <2> QED
    BY <1>1, <1>2, <2>1, <2>2, BalanceKept
<1>5. CountsFit(g, next, after)
  <2>1. /\ next.counter = [s.counter EXCEPT ![n] = NewCount(g, s)]
        /\ s.counter \in [g.nodes -> Nat]
    BY StepFields, WalkParts
  <2>2. CountsFit(g, s, done)
    BY DEF CountInv
  <2>3. after = IF Goes(g, s) THEN done \cup {n} ELSE done
    BY DEF DoneThen
  <2>4. NewCount(g, s) = IF Counts(g, Now(s)) THEN s.counter[n] + 1 ELSE s.counter[n]
    BY DEF NewCount
  <2>5. Goes(g, s) <=> (~ Multiple(g, n) \/ g.parents[n] = NewCount(g, s))
    BY DEF Goes, ProcessesChildren
  <2> HIDE DEF n, next, after
  <2> SUFFICES ASSUME NEW t \in g.nodes
               PROVE  IF Multiple(g, t) THEN t \in after <=> next.counter[t] = g.parents[t]
                      ELSE next.counter[t] <= 1 /\ (t \notin after => next.counter[t] = 0)
    BY DEF CountsFit
  <2>6. CASE t # n
    <3>1. next.counter[t] = s.counter[t] /\ (t \in after <=> t \in done)
      BY <1>1, <2>1, <2>3, <2>6
    <3> QED
      BY <2>2, <3>1 DEF CountsFit
  <2>7. CASE t = n
    <3>1. next.counter[n] = NewCount(g, s) /\ (n \in after <=> Goes(g, s))
      BY <1>1, <2>1, <2>3
    <3>2. CASE Multiple(g, n)
      BY <2>5, <2>7, <3>1, <3>2
    <3>3. CASE ~ Multiple(g, n)
      <4>1. s.counter[n] = 0
        BY <1>1, <2>2, <3>3 DEF CountsFit
      <4>2. NewCount(g, s) <= 1
        BY <2>4, <4>1
      <4> QED
        BY <2>5, <2>7, <3>1, <3>3, <4>2
    <3> QED
      BY <3>2, <3>3
  <2> QED
    BY <2>6, <2>7
<1> QED
  BY <1>2, <1>3, <1>4, <1>5 DEF CountInv

-----------------------------------------------------------------------------
(* In the end all nodes are done: of those that are not, take one that none   *)
(* of the others leads to.                                                    *)

Over(s) == s.calls = <<>>

LEMMA AllDone ==
    ASSUME NEW g, IsGraph(g), Rooted(g), NEW s \in WalksOf(g), Over(s),
           NEW done, CountInv(g, s, done)
    PROVE  done = g.nodes
<1>1. \A t \in g.nodes :
        /\ g.parents[t] \in Nat
        /\ Came(g, s, done, t) + Worth(Arriving(g, Single(g)[t], Anyone(g)), s.calls)
              + Total(g.nodes \ done, AheadOf(g, Single(g)[t]))
             = (IF t = g.head THEN 1 ELSE 0) + g.parents[t]
  BY CallsInAll
<1>2. PICK m \in Nat : \E rank \in [g.nodes -> 1 .. m] :
              \A n \in g.nodes : \A i \in DOMAIN g.children[n] :
                  rank[n] < rank[g.children[n][i].node]
  BY GraphRank
<1>3. PICK rank \in [g.nodes -> 1 .. m] :
              \A n \in g.nodes : \A i \in DOMAIN g.children[n] :
                  rank[n] < rank[g.children[n][i].node]
  BY <1>2
<1> DEFINE left == g.nodes \ done
<1>4. ASSUME left # {} PROVE FALSE
  <2>1. PICK t \in left : \A k \in left : rank[t] <= rank[k]
    <3>1. left \in SUBSET g.nodes
      OBVIOUS
    <3> HIDE DEF left
    <3> QED
      BY <1>4, <3>1, LowestRank
  <2> DEFINE w == Single(g)[t]
             v == AheadOf(g, w)
  <2>2. t \in g.nodes /\ t \notin done
    BY <2>1
  <2>3. ASSUME NEW k \in left PROVE v[k] = 0
    <3> DEFINE u == [i \in DOMAIN g.children[k] |-> w[g.children[k][i].node]]
    <3>1. ASSUME NEW i \in DOMAIN g.children[k] PROVE u[i] = 0
      <4> DEFINE c == g.children[k][i].node
      <4>1. c \in g.nodes /\ rank[k] < rank[c] /\ rank[t] <= rank[k]
        BY <1>3, <2>1, GraphParts
      <4>2. rank[k] \in 1 .. m /\ rank[c] \in 1 .. m /\ rank[t] \in 1 .. m
        BY <2>2, <4>1
      <4>3. c # t
        BY <4>1, <4>2
      <4> QED
        BY <2>2, <4>1, <4>3 DEF Single
    <3> HIDE DEF u
    <3>2. Total(DOMAIN g.children[k], u) = 0
      BY <3>1, TotalZero
    <3> QED
      BY <3>2 DEF AheadOf, PathsBehind, u
  <2> HIDE DEF v
  <2>4. Total(left, v) = 0
    BY <2>3, TotalZero
  <2>5. Worth(Arriving(g, w, Anyone(g)), s.calls) = 0
    BY WorthEmpty DEF Over
  <2>6. /\ g.parents[t] \in Nat
        /\ Came(g, s, done, t) + 0 + 0 = (IF t = g.head THEN 1 ELSE 0) + g.parents[t]
    <3> HIDE DEF left, w
    <3>1. /\ g.parents[t] \in Nat
          /\ Came(g, s, done, t) + Worth(Arriving(g, Single(g)[t], Anyone(g)), s.calls)
                + Total(g.nodes \ done, AheadOf(g, Single(g)[t]))
               = (IF t = g.head THEN 1 ELSE 0) + g.parents[t]
      BY <1>1, <2>2
    <3>2. left = g.nodes \ done /\ w = Single(g)[t]
      BY DEF left, w
    <3>3. v = AheadOf(g, w)
      BY DEF v
    <3>4. /\ g.parents[t] \in Nat
          /\ Came(g, s, done, t) + Worth(Arriving(g, w, Anyone(g)), s.calls) + Total(left, v)
               = (IF t = g.head THEN 1 ELSE 0) + g.parents[t]
      BY <3>1, <3>2, <3>3
    <3> QED
      BY <2>4, <2>5, <3>4
  <2>7. Came(g, s, done, t) \in Nat
    BY <2>2, WalkParts DEF Came
  <2>8. CASE Multiple(g, t)
    <3>1. g.parents[g.head] = 0 /\ g.parents[t] > 1
      BY <2>8, GraphParts DEF Multiple
    <3>2. s.counter[t] = g.parents[t]
      BY <2>6, <2>7, <2>8, <3>1 DEF Came
    <3> QED
      BY <2>2, <2>8, <3>2 DEF CountInv, CountsFit
  <2>9. CASE ~ Multiple(g, t)
    <3>1. Came(g, s, done, t) = 0
      BY <2>2, <2>9 DEF Came
    <3>2. t # g.head => g.parents[t] > 0
      BY <2>2 DEF Rooted
    <3> QED
      BY <2>6, <3>1, <3>2
  <2> QED
    BY <2>8, <2>9
<1>5. done \subseteq g.nodes
  BY DEF CountInv
<1> QED
  BY <1>4, <1>5

\* so the joins wait for what comes, and every other node gets one input
LEMMA InEnd ==
    ASSUME NEW g, IsGraph(g), Rooted(g), NEW s \in WalksOf(g), Over(s),
           NEW done, CountInv(g, s, done)
    PROVE  /\ \A n \in g.nodes : IF Multiple(g, n) THEN s.counter[n] = g.parents[n]
                                 ELSE s.counter[n] <= 1
           /\ Joins(Built(g, s)) = Joining(g)
           /\ PathsOf(Built(g, s)) = PathsIn(g)
           /\ \A t \in g.nodes : Entries(Built(g, s), PathsIn(g), t) =
                                     IF Multiple(g, t) THEN s.counter[t] ELSE 1
<1> DEFINE f == Built(g, s)
<1>1. done = g.nodes
  BY AllDone
<1>2. \A n \in g.nodes : IF Multiple(g, n) THEN s.counter[n] = g.parents[n]
                         ELSE s.counter[n] <= 1
  BY <1>1 DEF CountInv, CountsFit
<1>3. /\ f.nodes = g.nodes /\ f.head = g.head /\ f.kind = g.kind /\ f.children = g.children
      /\ f.counter = s.counter /\ f.listeners = s.listeners
  BY DEF Built
<1> HIDE DEF f
<1>4. Joins(f) = Joining(g)
  <2>1. \A n \in g.nodes : s.counter[n] \in Nat
    BY WalkParts
  <2>2. \A n \in g.nodes : g.parents[n] \in Nat
    BY CallsInAll
  <2>3. ASSUME NEW n \in g.nodes PROVE s.counter[n] > 1 <=> Multiple(g, n)
    BY <1>2, <2>1, <2>2 DEF Multiple
  <2> QED
    BY <1>3, <2>3 DEF Joins, Joining
<1>5. PathsOf(f) = PathsIn(g)
  BY <1>3, <1>4 DEF PathsOf, PathsIn
<1>6. ASSUME NEW t \in g.nodes
      PROVE  Entries(f, PathsIn(g), t) = IF Multiple(g, t) THEN s.counter[t] ELSE 1
  <2> DEFINE w == PathsIn(g)[t]
             on == [n \in Joining(g) |-> Onward(f, PathsIn(g), t, n)]
  <2>1. w \in [g.nodes -> Nat] /\ g.head \in g.nodes
    BY PathsInPaths, GraphParts DEF CountsPaths
  <2>2. ASSUME NEW n \in Joining(g) PROVE on[n] = AheadOf(g, w)[n]
    BY <1>3 DEF Onward, AheadOf, PathsBehind, Joining
  <2> HIDE DEF on
  <2>3. Total(Joining(g), on) = Total(Joining(g), AheadOf(g, w))
    BY <2>2, TotalSame
  <2>4. Entries(f, PathsIn(g), t) = w[g.head] + Total(Joining(g), AheadOf(g, w))
    BY <1>3, <1>4, <2>3 DEF Entries, on
  <2>5. Came(g, s, done, t) + Worth(Arriving(g, w, Anyone(g)), s.calls)
          + Total(Joining(g) \ done, AheadOf(g, w)) = w[g.head] + Total(Joining(g), AheadOf(g, w))
    BY DEF CountInv, Balance
  <2>6. Worth(Arriving(g, w, Anyone(g)), s.calls) = 0 /\ Total(Joining(g) \ done, AheadOf(g, w)) = 0
    <3>1. Joining(g) \ done = {}
      BY <1>1 DEF Joining
    <3> QED
      BY <3>1, WorthEmpty, TotalEmpty DEF Over
  <2>7. Came(g, s, done, t) = IF Multiple(g, t) THEN s.counter[t] ELSE 1
    BY <1>1 DEF Came
  <2>8. Came(g, s, done, t) \in Nat
    BY <2>7, WalkParts
  <2> HIDE DEF w
  <2> QED
    BY <2>4, <2>5, <2>6, <2>7, <2>8
<1> QED
  BY <1>2, <1>4, <1>5, <1>6 DEF f

-----------------------------------------------------------------------------
(* Who is told of a halt.  A done node that has to tell others is the trigger *)
(* of the calls behind it: what its listeners stand for and what the calls    *)
(* with this trigger will still bring are the paths on from it.               *)

TriggersTell(s, done) ==
    \A i \in DOMAIN s.calls : LET trigger == s.calls[i].trigger
                             IN  trigger # NoNode => trigger \in done /\ s.isTrigger[trigger]

ListenersTell(g, s, done) ==
    \A n \in g.nodes : /\ n \notin done => s.listeners[n] = <<>>
                       /\ \A i \in DOMAIN s.listeners[n] : s.isTrigger[s.listeners[n][i]]

ReferencesTell(g, s, done) == \A n \in done : g.kind[n] = "reference" => s.isTrigger[n]

\* the call that will make n one that tells others
Optional(s, n) == \E k \in DOMAIN s.calls : s.calls[k].node = n /\ s.calls[k].optional

RoutesTell(g, s, done) ==
    \A m \in done : g.kind[m] = "router" =>
        \A i \in DOMAIN g.children[m] :
            s.isTrigger[g.children[m][i].node] \/ Optional(s, g.children[m][i].node)

\* what is heard from n, and what the calls behind n are still to bring
Heeded(g, s, n, t) == Worth(PathsIn(g)[t], s.listeners[n])
                      + Worth(Arriving(g, PathsIn(g)[t], {n}), s.calls)

Gathering(g, t) == Multiple(g, t) \/ g.kind[t] = "end"

HaltsReach(g, s, done) ==
    \A n \in done, t \in g.nodes : s.isTrigger[n] =>
        LET on == PathsBehind(g.children, PathsIn(g)[t], n)
        IN  Heeded(g, s, n, t) <= on /\ (Gathering(g, t) => Heeded(g, s, n, t) = on)

HaltInv(g, s, done) ==
    /\ TriggersTell(s, done)
    /\ ListenersTell(g, s, done)
    /\ ReferencesTell(g, s, done)
    /\ RoutesTell(g, s, done)
    /\ HaltsReach(g, s, done)

LEMMA FirstHalts ==
    ASSUME NEW g, IsGraph(g)
    PROVE  HaltInv(g, FirstCall(g), {})
<1>1. TriggersTell(FirstCall(g), {})
  <2> DEFINE c == CallTo(g.head, FALSE, NoNode)
  <2>1. FirstCall(g).calls = <<c>> /\ c.trigger = NoNode
    BY DEF FirstCall, CallTo
  <2> HIDE DEF c
  <2>2. \A i \in DOMAIN <<c>> : <<c>>[i] = c
    OBVIOUS
  <2> QED
    BY <2>1, <2>2 DEF TriggersTell
<1>2. ListenersTell(g, FirstCall(g), {})
  BY DEF ListenersTell, FirstCall
<1> QED
  BY <1>1, <1>2 DEF HaltInv, ReferencesTell, RoutesTell, HaltsReach

\* the calls after a step: those behind the node, and those that were there
LEMMA StepCalls ==
    ASSUME NEW g, IsGraph(g), NEW s \in WalksOf(g), s.calls # <<>>,
           NEW i \in DOMAIN NextCall(g, s).calls
    PROVE  \/ /\ Goes(g, s)
              /\ \E k \in DOMAIN g.children[Now(s).node] : NextCall(g, s).calls[i] =
                    CallTo(g.children[Now(s).node][k].node, g.kind[Now(s).node] = "router", Onto(g, s))
           \/ \E k \in DOMAIN s.calls : NextCall(g, s).calls[i] = s.calls[k]
<1> DEFINE x == Made(g, s)
           y == Tail(s.calls)
           n == Now(s).node
<1>1. x \in Seq(CallsOf(g)) /\ y \in Seq(CallsOf(g)) /\ NextCall(g, s).calls = x \o y
  BY StepParts, StepFields
<1>2. s.calls \in Seq(CallsOf(g))
  BY WalkParts
<1>3. \A k \in 1 .. Len(y) : k + 1 \in DOMAIN s.calls /\ y[k] = s.calls[k + 1]
  BY <1>2
<1>4. n \in g.nodes /\ Onto(g, s) \in Anyone(g)
  BY StepParts
<1>5. x # <<>> => Goes(g, s)
  BY DEF Made
<1>6. Goes(g, s) => DOMAIN x = DOMAIN g.children[n] /\ \A k \in DOMAIN x :
         x[k] = CallTo(g.children[n][k].node, g.kind[n] = "router", Onto(g, s))
  BY <1>4, BehindType DEF Made
<1> HIDE DEF x, y, n
<1>7. CASE i \in 1 .. Len(x)
  <2>1. (x \o y)[i] = x[i] /\ i \in DOMAIN x /\ x # <<>>
    BY <1>1, <1>7
  <2> QED
    BY <1>1, <1>5, <1>6, <2>1 DEF n
<1>8. CASE i \notin 1 .. Len(x)
  <2>1. i - Len(x) \in 1 .. Len(y) /\ (x \o y)[i] = y[i - Len(x)]
    BY <1>1, <1>8
  <2> QED
    BY <1>1, <1>3, <2>1
<1> QED
  BY <1>7, <1>8

\* and the other way round
LEMMA CallsStay ==
    ASSUME NEW g, IsGraph(g), NEW s \in WalksOf(g), s.calls # <<>>
    PROVE  /\ \A k \in DOMAIN s.calls : \/ s.calls[k] = Now(s)
                                        \/ \E i \in DOMAIN NextCall(g, s).calls :
                                              NextCall(g, s).calls[i] = s.calls[k]
           /\ Goes(g, s) => \A k \in DOMAIN g.children[Now(s).node] :
                 \E i \in DOMAIN NextCall(g, s).calls : NextCall(g, s).calls[i] =
                    CallTo(g.children[Now(s).node][k].node, g.kind[Now(s).node] = "router", Onto(g, s))
<1> DEFINE x == Made(g, s)
           y == Tail(s.calls)
           n == Now(s).node
<1>1. x \in Seq(CallsOf(g)) /\ y \in Seq(CallsOf(g)) /\ NextCall(g, s).calls = x \o y
  BY StepParts, StepFields
<1>2. s.calls \in Seq(CallsOf(g))
  BY WalkParts
<1>3. \A k \in DOMAIN s.calls : \/ s.calls[k] = Now(s)
                                \/ k - 1 \in 1 .. Len(y) /\ y[k - 1] = s.calls[k]
  <2> TAKE k \in DOMAIN s.calls
  <2>1. k \in 1 .. Len(s.calls) /\ Len(s.calls) \in Nat
    BY <1>2
  <2>2. CASE k = 1
    <3>1. s.calls[1] = Head(s.calls)
      BY <1>2
    <3> QED
      BY <2>2, <3>1 DEF Now
  <2>3. CASE k # 1
    <3>1. k - 1 \in 1 .. Len(s.calls) - 1 /\ Len(y) = Len(s.calls) - 1
      BY <1>2, <2>1, <2>3
    <3> QED
      BY <1>2, <2>1, <3>1
  <2> QED
    BY <2>2, <2>3
<1>4. n \in g.nodes /\ Onto(g, s) \in Anyone(g)
  BY StepParts
<1>5. Goes(g, s) => DOMAIN x = DOMAIN g.children[n] /\ \A k \in DOMAIN x :
         x[k] = CallTo(g.children[n][k].node, g.kind[n] = "router", Onto(g, s))
  BY <1>4, BehindType DEF Made
<1> HIDE DEF x, y, n
<1>6. \A k \in 1 .. Len(y) : Len(x) + k \in DOMAIN (x \o y) /\ (x \o y)[Len(x) + k] = y[k]
  BY <1>1
<1>7. \A k \in DOMAIN x : k \in DOMAIN (x \o y) /\ (x \o y)[k] = x[k]
  BY <1>1
<1>8. \A k \in DOMAIN s.calls : \/ s.calls[k] = Now(s)
                                \/ \E i \in DOMAIN (x \o y) : (x \o y)[i] = s.calls[k]
  BY <1>3, <1>6
<1>9. Goes(g, s) => \A k \in DOMAIN g.children[n] : \E i \in DOMAIN (x \o y) : (x \o y)[i] =
                    CallTo(g.children[n][k].node, g.kind[n] = "router", Onto(g, s))
  BY <1>5, <1>7
<1> QED
  BY <1>1, <1>8, <1>9 DEF n

\* what a step does to who tells whom
LEMMA StepTells ==
    ASSUME NEW g, IsGraph(g), NEW s \in WalksOf(g), s.calls # <<>>
    PROVE  /\ \A n \in g.nodes : NextCall(g, s).isTrigger[n] =
                 IF n = Now(s).node THEN Tells(g, s) ELSE s.isTrigger[n]
           /\ \A n \in g.nodes : s.isTrigger[n] => NextCall(g, s).isTrigger[n]
           /\ Now(s).optional => Tells(g, s)
           /\ g.kind[Now(s).node] \in {"reference", "end"} => Tells(g, s)
           /\ Now(s).trigger # NoNode /\ Multiple(g, Now(s).node) => Tells(g, s)
<1>1. /\ NextCall(g, s).isTrigger = [s.isTrigger EXCEPT ![Now(s).node] = Tells(g, s)]
      /\ Now(s).node \in g.nodes
      /\ s.isTrigger \in [g.nodes -> BOOLEAN]
  BY StepFields, StepParts, WalkParts
<1>2. \A n \in g.nodes : NextCall(g, s).isTrigger[n] =
                 IF n = Now(s).node THEN Tells(g, s) ELSE s.isTrigger[n]
  BY <1>1
<1>3. s.isTrigger[Now(s).node] => Tells(g, s)
  BY DEF Tells
<1>4. /\ Now(s).optional => Tells(g, s)
      /\ g.kind[Now(s).node] \in {"reference", "end"} => Tells(g, s)
      /\ Now(s).trigger # NoNode /\ Multiple(g, Now(s).node) => Tells(g, s)
  BY DEF Tells, NotifiesBehind
<1> QED
  BY <1>2, <1>3, <1>4

\* the trigger of the call, if there is one, is another node than the one it comes to
LEMMA TriggerIsDone ==
    ASSUME NEW g, IsGraph(g), NEW s \in WalksOf(g), s.calls # <<>>,
           NEW done \in SUBSET g.nodes, TriggersTell(s, done), Now(s).node \notin done
    PROVE  Now(s).trigger # NoNode => /\ Now(s).trigger \in done /\ s.isTrigger[Now(s).trigger]
                                      /\ Now(s).trigger # Now(s).node
<1>1. 1 \in DOMAIN s.calls /\ s.calls[1] = Now(s)
  <2>1. s.calls \in Seq(CallsOf(g))
    BY WalkParts
  <2> QED
    BY <2>1 DEF Now
<1> QED
  BY <1>1 DEF TriggersTell

LEMMA TriggersKept ==
    ASSUME NEW g, IsGraph(g), NEW s \in WalksOf(g), s.calls # <<>>,
           NEW done \in SUBSET g.nodes, TriggersTell(s, done), Now(s).node \notin done
    PROVE  TriggersTell(NextCall(g, s), DoneThen(g, s, done))
<1> DEFINE next == NextCall(g, s)
           n    == Now(s).node
<1> SUFFICES ASSUME NEW i \in DOMAIN next.calls, next.calls[i].trigger # NoNode
             PROVE  /\ next.calls[i].trigger \in DoneThen(g, s, done)
                    /\ next.isTrigger[next.calls[i].trigger]
  BY DEF TriggersTell
<1>1. n \in g.nodes /\ (n \in DoneThen(g, s, done) <=> Goes(g, s))
      /\ done \subseteq DoneThen(g, s, done)
  BY StepParts DEF DoneThen
<1>2. /\ next.isTrigger[n] = Tells(g, s)
      /\ \A m \in done : s.isTrigger[m] => next.isTrigger[m]
  BY <1>1, StepTells
<1>3. ASSUME Goes(g, s), NEW k \in DOMAIN g.children[n],
             next.calls[i] = CallTo(g.children[n][k].node, g.kind[n] = "router", Onto(g, s))
      PROVE  next.calls[i].trigger \in DoneThen(g, s, done) /\ next.isTrigger[next.calls[i].trigger]
  <2>1. next.calls[i].trigger = Onto(g, s)
    BY <1>3 DEF CallTo
  <2>2. CASE Tells(g, s)
    BY <1>1, <1>2, <1>3, <2>1, <2>2 DEF Onto
  <2>3. CASE ~ Tells(g, s)
    <3>1. next.calls[i].trigger = Now(s).trigger
      BY <2>1, <2>3 DEF Onto
    <3>2. Now(s).trigger \in done /\ s.isTrigger[Now(s).trigger]
      BY <3>1, TriggerIsDone
    <3> QED
      BY <1>1, <1>2, <3>1, <3>2
  <2> QED
    BY <2>2, <2>3
<1>4. ASSUME NEW k \in DOMAIN s.calls, next.calls[i] = s.calls[k]
      PROVE  next.calls[i].trigger \in DoneThen(g, s, done) /\ next.isTrigger[next.calls[i].trigger]
  <2>1. s.calls[k].trigger \in done /\ s.isTrigger[s.calls[k].trigger]
    BY <1>4 DEF TriggersTell
  <2> QED
    BY <1>1, <1>2, <1>4, <2>1
<1> QED
  BY <1>3, <1>4, StepCalls

LEMMA ListenersKept ==
    ASSUME NEW g, IsGraph(g), NEW s \in WalksOf(g), s.calls # <<>>,
           NEW done \in SUBSET g.nodes, TriggersTell(s, done), Now(s).node \notin done,
           ListenersTell(g, s, done)
    PROVE  ListenersTell(g, NextCall(g, s), DoneThen(g, s, done))
<1> DEFINE next  == NextCall(g, s)
           n     == Now(s).node
           after == DoneThen(g, s, done)
<1> SUFFICES ASSUME NEW m \in g.nodes
             PROVE  /\ m \notin after => next.listeners[m] = <<>>
                    /\ \A i \in DOMAIN next.listeners[m] : next.isTrigger[next.listeners[m][i]]
  BY DEF ListenersTell
<1>1. n \in g.nodes /\ done \subseteq after
  BY StepParts DEF DoneThen
<1>2. s.listeners \in [g.nodes -> Seq(g.nodes)] /\ s.listeners[m] \in Seq(g.nodes)
  BY WalkParts
<1>3. /\ next.isTrigger[n] = Tells(g, s)
      /\ \A k \in g.nodes : s.isTrigger[k] => next.isTrigger[k]
  BY <1>1, StepTells
<1>4. next.listeners = IF Now(s).trigger # NoNode /\ Tells(g, s)
                       THEN [s.listeners EXCEPT ![Now(s).trigger] = Append(@, n)]
                       ELSE s.listeners
  BY StepFields
<1>5. /\ m \notin done => s.listeners[m] = <<>>
      /\ \A i \in DOMAIN s.listeners[m] : s.isTrigger[s.listeners[m][i]]
  BY DEF ListenersTell
<1>6. \A i \in DOMAIN s.listeners[m] : next.isTrigger[s.listeners[m][i]]
  BY <1>2, <1>3, <1>5, SeqElement
<1> HIDE DEF next, n, after
<1>7. CASE Now(s).trigger = m /\ Tells(g, s)
  <2>1. Now(s).trigger # NoNode
    BY <1>7, GraphParts
  <2>2. m \in done
    BY <1>7, <2>1, TriggerIsDone
  <2>3. next.listeners[m] = Append(s.listeners[m], n)
    BY <1>2, <1>4, <1>7, <2>1
  <2>4. \A i \in DOMAIN Append(s.listeners[m], n) :
            \/ i \in DOMAIN s.listeners[m] /\ Append(s.listeners[m], n)[i] = s.listeners[m][i]
            \/ Append(s.listeners[m], n)[i] = n
    <3> DEFINE l == s.listeners[m]
    <3>1. l \in Seq(g.nodes)
      BY <1>2
    <3> HIDE DEF l
    <3>2. \A i \in DOMAIN Append(l, n) : \/ i \in DOMAIN l /\ Append(l, n)[i] = l[i]
                                         \/ Append(l, n)[i] = n
      BY <3>1
    <3> QED
      BY <3>2 DEF l
  <2>5. \A i \in DOMAIN next.listeners[m] : next.isTrigger[next.listeners[m][i]]
    <3> SUFFICES ASSUME NEW i \in DOMAIN Append(s.listeners[m], n)
                 PROVE  next.isTrigger[Append(s.listeners[m], n)[i]]
      BY <2>3
    <3>1. CASE i \in DOMAIN s.listeners[m] /\ Append(s.listeners[m], n)[i] = s.listeners[m][i]
      BY <1>6, <3>1
    <3>2. CASE Append(s.listeners[m], n)[i] = n
      BY <1>3, <1>7, <3>2
    <3> QED
      BY <2>4, <3>1, <3>2
  <2> QED
    BY <1>1, <2>2, <2>5
<1>8. CASE ~ (Now(s).trigger = m /\ Tells(g, s))
  <2>1. next.listeners[m] = s.listeners[m]
    BY <1>2, <1>4, <1>8
  <2> QED
    BY <1>1, <1>5, <1>6, <2>1
<1> QED
  BY <1>7, <1>8

LEMMA ReferencesKept ==
    ASSUME NEW g, IsGraph(g), NEW s \in WalksOf(g), s.calls # <<>>,
           NEW done \in SUBSET g.nodes, ReferencesTell(g, s, done)
    PROVE  ReferencesTell(g, NextCall(g, s), DoneThen(g, s, done))
<1> SUFFICES ASSUME NEW n \in DoneThen(g, s, done), g.kind[n] = "reference"
             PROVE  NextCall(g, s).isTrigger[n]
  BY DEF ReferencesTell
<1>1. CASE n = Now(s).node
  BY <1>1, StepTells, StepParts
<1>2. CASE n # Now(s).node
  <2>1. n \in done
    BY <1>2 DEF DoneThen
  <2> QED
    BY <2>1, StepTells DEF ReferencesTell
<1> QED
  BY <1>1, <1>2

LEMMA RoutesKept ==
    ASSUME NEW g, IsGraph(g), NEW s \in WalksOf(g), s.calls # <<>>,
           NEW done \in SUBSET g.nodes, RoutesTell(g, s, done)
    PROVE  RoutesTell(g, NextCall(g, s), DoneThen(g, s, done))
<1> DEFINE next == NextCall(g, s)
           n    == Now(s).node
<1> SUFFICES ASSUME NEW m \in DoneThen(g, s, done), g.kind[m] = "router",
                    NEW i \in DOMAIN g.children[m]
             PROVE  next.isTrigger[g.children[m][i].node] \/ Optional(next, g.children[m][i].node)
  BY DEF RoutesTell
<1> DEFINE c == g.children[m][i].node
<1>1. n \in g.nodes /\ m \in g.nodes /\ c \in g.nodes
  <2>1. n \in g.nodes /\ m \in g.nodes
    BY StepParts DEF DoneThen
  <2> QED
    BY <2>1, GraphParts
<1>2. CASE m \in done
  <2>1. s.isTrigger[c] \/ Optional(s, c)
    BY <1>2 DEF RoutesTell
  <2>2. CASE s.isTrigger[c]
    BY <1>1, <2>2, StepTells
  <2>3. CASE Optional(s, c)
    <3>1. PICK k \in DOMAIN s.calls : s.calls[k].node = c /\ s.calls[k].optional
      BY <2>3 DEF Optional
    <3>2. CASE s.calls[k] = Now(s)
      <4>1. n = c /\ Tells(g, s)
        BY <3>1, <3>2, StepTells
      <4>2. next.isTrigger[n] = Tells(g, s)
        BY <1>1, StepTells
      <4> QED
        BY <4>1, <4>2
    <3>3. CASE \E j \in DOMAIN next.calls : next.calls[j] = s.calls[k]
      BY <3>1, <3>3 DEF Optional
    <3> QED
      BY <3>2, <3>3, CallsStay
  <2> QED
    BY <2>1, <2>2, <2>3
<1>3. CASE m \notin done
  <2>1. m = n /\ Goes(g, s)
    BY <1>3 DEF DoneThen
  <2>2. PICK j \in DOMAIN next.calls : next.calls[j] = CallTo(c, g.kind[n] = "router", Onto(g, s))
    BY <2>1, CallsStay
  <2>3. next.calls[j].node = c /\ next.calls[j].optional
    <3> HIDE DEF next, c
    <3>1. next.calls[j].node = c /\ next.calls[j].optional = (g.kind[n] = "router")
      BY <2>2 DEF CallTo
    <3>2. g.kind[n] = "router"
      BY <2>1
    <3> QED
      BY <3>1, <3>2
  <2> QED
    BY <2>3 DEF Optional
<1> QED
  BY <1>2, <1>3

\* no call has a node as its trigger that is not done
LEMMA NoneBehind ==
    ASSUME NEW g, IsGraph(g), NEW s \in WalksOf(g), NEW done, TriggersTell(s, done),
           NEW n \in g.nodes, n \notin done, NEW w \in [g.nodes -> Nat]
    PROVE  Worth(Arriving(g, w, {n}), s.calls) = 0
<1> DEFINE a == Arriving(g, w, {n})
           v == [i \in DOMAIN s.calls |-> a[s.calls[i]]]
<1>1. ASSUME NEW i \in DOMAIN s.calls PROVE v[i] = 0
  <2>1. s.calls[i] \in CallsOf(g)
    BY WalkParts, SeqElement
  <2>2. s.calls[i].trigger # n
    <3>1. n # NoNode
      BY GraphParts
    <3>2. s.calls[i].trigger # NoNode => s.calls[i].trigger \in done
      BY DEF TriggersTell
    <3> QED
      BY <3>1, <3>2
  <2> QED
    BY <2>1, <2>2 DEF Arriving
<1> HIDE DEF v
<1>2. Total(DOMAIN s.calls, v) = 0
  BY <1>1, TotalZero
<1> QED
  BY <1>2 DEF Worth, v

\* a node that becomes done: all its paths are still to come
LEMMA HaltStarts ==
    ASSUME NEW g, IsGraph(g), NEW s \in WalksOf(g), s.calls # <<>>,
           NEW done \in SUBSET g.nodes, Now(s).node \notin done,
           TriggersTell(s, done), ListenersTell(g, s, done),
           Goes(g, s), Tells(g, s), NEW t \in g.nodes
    PROVE  Heeded(g, NextCall(g, s), Now(s).node, t) =
               PathsBehind(g.children, PathsIn(g)[t], Now(s).node)
<1> DEFINE n  == Now(s).node
           w  == PathsIn(g)[t]
           on == PathsBehind(g.children, w, n)
           a  == Arriving(g, w, {n})
<1>1. n \in g.nodes /\ Onto(g, s) = n
  BY StepParts DEF Onto
<1>2. w \in [g.nodes -> Nat] /\ on \in Nat
  BY <1>1, PathsInPaths, AheadType DEF CountsPaths
<1>3. NextCall(g, s).listeners[n] = <<>>
  <2>1. s.listeners \in [g.nodes -> Seq(g.nodes)] /\ s.listeners[n] = <<>>
    BY <1>1, WalkParts DEF ListenersTell
  <2>2. Now(s).trigger # NoNode => Now(s).trigger # n
    BY TriggerIsDone
  <2>3. NextCall(g, s).listeners = IF Now(s).trigger # NoNode /\ Tells(g, s)
                                   THEN [s.listeners EXCEPT ![Now(s).trigger] = Append(@, n)]
                                   ELSE s.listeners
    BY StepFields
  <2> QED
    BY <1>1, <2>1, <2>2, <2>3
<1>4. Worth(a, s.calls) = 0
  BY <1>1, <1>2, NoneBehind
<1>5. /\ Worth(a, Tail(s.calls)) \in Nat
      /\ Worth(a, s.calls) = (IF Now(s).trigger \in {n} THEN w[n] ELSE 0) + Worth(a, Tail(s.calls))
      /\ Worth(a, NextCall(g, s).calls) =
            (IF Goes(g, s) /\ Onto(g, s) \in {n} THEN on ELSE 0) + Worth(a, Tail(s.calls))
  BY <1>2, StepWorth
<1>6. w[n] \in Nat
  BY <1>1, <1>2
<1>7. Heeded(g, NextCall(g, s), n, t) = 0 + Worth(a, NextCall(g, s).calls)
  BY <1>3, WorthEmpty DEF Heeded
<1> HIDE DEF n, w, on, a
<1>8. Worth(a, Tail(s.calls)) = 0 /\ Worth(a, NextCall(g, s).calls) = on
  BY <1>1, <1>2, <1>4, <1>5, <1>6
<1> QED
  BY <1>2, <1>7, <1>8 DEF n, w, on

\* a node that is done: a call it triggered makes a listener, or goes on in its name
LEMMA HaltGoesOn ==
    ASSUME NEW g, IsGraph(g), NEW s \in WalksOf(g), s.calls # <<>>,
           NEW done \in SUBSET g.nodes, Now(s).node \notin done,
           NEW m \in done, NEW t \in g.nodes
    PROVE  /\ Heeded(g, s, m, t) \in Nat
           /\ Heeded(g, NextCall(g, s), m, t) \in Nat
           /\ Heeded(g, NextCall(g, s), m, t) <= Heeded(g, s, m, t)
           /\ Gathering(g, t) => Heeded(g, NextCall(g, s), m, t) = Heeded(g, s, m, t)
<1> DEFINE n     == Now(s).node
           w     == PathsIn(g)[t]
           on    == PathsBehind(g.children, w, n)
           a     == Arriving(g, w, {m})
           rest  == Worth(a, Tail(s.calls))
           heard == Worth(w, s.listeners[m])
<1>1. n \in g.nodes /\ m \in g.nodes /\ m # n
  BY StepParts
<1>2. /\ w \in [g.nodes -> Nat]
      /\ w[n] = IF n = t THEN 1 ELSE IF Multiple(g, n) THEN 0 ELSE on
      /\ on \in Nat /\ (n = t => on = 0)
  <2>1. CountsPaths(g, Joining(g), t, w)
    BY PathsInPaths
  <2>2. w \in [g.nodes -> Nat] /\ on \in Nat /\ (n = t => on = 0)
    <3>1. w \in [g.nodes -> Nat]
      BY <2>1 DEF CountsPaths
    <3>2. PathsBehind(g.children, w, t) = 0
      BY <2>1, NoWayBack
    <3>3. on \in Nat
      BY <1>1, <3>1, AheadType
    <3> QED
      BY <3>1, <3>2, <3>3
  <2> QED
    BY <1>1, <2>1, <2>2 DEF CountsPaths, Joining
<1>3. /\ rest \in Nat
      /\ Worth(a, s.calls) = (IF Now(s).trigger \in {m} THEN w[n] ELSE 0) + rest
      /\ Worth(a, NextCall(g, s).calls) =
            (IF Goes(g, s) /\ Onto(g, s) \in {m} THEN on ELSE 0) + rest
  BY <1>2, StepWorth
<1>4. s.listeners \in [g.nodes -> Seq(g.nodes)] /\ s.listeners[m] \in Seq(g.nodes)
  BY <1>1, WalkParts
<1>5. heard \in Nat /\ w[n] \in Nat
  <2>1. HasWeights(w, g.nodes)
    BY <1>2 DEF HasWeights
  <2> QED
    BY <1>1, <1>4, <2>1, WorthType DEF HasWeights
<1>6. Worth(w, Append(s.listeners[m], n)) = heard + w[n]
  <2> DEFINE l == s.listeners[m]
             N == g.nodes
  <2>1. l \in Seq(N) /\ <<n>> \in Seq(N) /\ HasWeights(w, N) /\ Append(l, n) = l \o <<n>>
    <3>1. l \in Seq(N) /\ n \in N
      BY <1>1, <1>4
    <3>2. HasWeights(w, N)
      BY <1>2 DEF HasWeights
    <3> HIDE DEF l, N, n
    <3>3. <<n>> \in Seq(N) /\ Append(l, n) = l \o <<n>>
      BY <3>1
    <3> QED
      BY <3>1, <3>2, <3>3
  <2> HIDE DEF l, N, w, n
  <2>2. Worth(w, l \o <<n>>) = Worth(w, l) + Worth(w, <<n>>)
    BY <2>1, WorthConcat
  <2>3. Worth(w, <<n>>) = w[n]
    BY <1>5, WorthOne
  <2> QED
    BY <2>1, <2>2, <2>3 DEF l
<1>7. NextCall(g, s).listeners[m] = IF Now(s).trigger = m /\ Tells(g, s)
                                    THEN Append(s.listeners[m], n) ELSE s.listeners[m]
  <2>1. NextCall(g, s).listeners = IF Now(s).trigger # NoNode /\ Tells(g, s)
                                   THEN [s.listeners EXCEPT ![Now(s).trigger] = Append(@, n)]
                                   ELSE s.listeners
    BY StepFields
  <2>2. m # NoNode
    BY <1>1, GraphParts
  <2> QED
    BY <1>1, <1>4, <2>1, <2>2
<1>8. /\ Tells(g, s) => Onto(g, s) = n
      /\ ~ Tells(g, s) => Onto(g, s) = Now(s).trigger
  BY DEF Onto
<1>9. Now(s).trigger = m /\ ~ Tells(g, s) =>
        Goes(g, s) /\ ~ Multiple(g, n) /\ g.kind[n] # "end"
  <2>1. m # NoNode
    BY <1>1, GraphParts
  <2>2. Now(s).trigger = m /\ ~ Tells(g, s) => ~ Multiple(g, n) /\ g.kind[n] # "end"
    BY <2>1, StepTells
  <2> QED
    BY <2>2 DEF Goes, ProcessesChildren
<1>10. /\ Heeded(g, s, m, t) = heard + Worth(a, s.calls)
       /\ Heeded(g, NextCall(g, s), m, t) =
             Worth(w, NextCall(g, s).listeners[m]) + Worth(a, NextCall(g, s).calls)
  BY DEF Heeded
<1> HIDE DEF n, w, on, a, rest, heard
<1>11. CASE Now(s).trigger # m
  <2>1. Onto(g, s) # m
    BY <1>1, <1>8, <1>11
  <2>2. Worth(w, NextCall(g, s).listeners[m]) = heard
    BY <1>7, <1>11 DEF heard
  <2> QED
    BY <1>3, <1>5, <1>10, <1>11, <2>1, <2>2
<1>12. CASE Now(s).trigger = m /\ Tells(g, s)
  <2>1. Onto(g, s) # m
    BY <1>1, <1>8, <1>12
  <2>2. Worth(w, NextCall(g, s).listeners[m]) = heard + w[n]
    BY <1>6, <1>7, <1>12
  <2> QED
    BY <1>3, <1>5, <1>10, <1>12, <2>1, <2>2
<1>13. CASE Now(s).trigger = m /\ ~ Tells(g, s)
  <2>1. Onto(g, s) = m /\ Goes(g, s)
    BY <1>8, <1>9, <1>13
  <2>2. Worth(w, NextCall(g, s).listeners[m]) = heard
    BY <1>7, <1>13 DEF heard
  <2>3. on <= w[n] /\ (Gathering(g, t) => on = w[n])
    <3>1. CASE n = t
      BY <1>2, <1>9, <1>13, <3>1 DEF Gathering
    <3>2. CASE n # t
      BY <1>2, <1>9, <1>13, <3>2
    <3> QED
      BY <3>1, <3>2
  <2>4. /\ Worth(a, s.calls) = w[n] + rest
        /\ Worth(a, NextCall(g, s).calls) = on + rest
    BY <1>3, <1>13, <2>1
  <2> QED
    BY <1>2, <1>3, <1>5, <1>10, <2>2, <2>3, <2>4
<1> QED
  BY <1>11, <1>12, <1>13

LEMMA HaltsKept ==
    ASSUME NEW g, IsGraph(g), NEW s \in WalksOf(g), s.calls # <<>>,
           NEW done \in SUBSET g.nodes, Now(s).node \notin done,
           HaltInv(g, s, done)
    PROVE  HaltInv(g, NextCall(g, s), DoneThen(g, s, done))
<1>1. /\ TriggersTell(s, done) /\ ListenersTell(g, s, done) /\ ReferencesTell(g, s, done)
      /\ RoutesTell(g, s, done) /\ HaltsReach(g, s, done)
  BY DEF HaltInv
<1>2. HaltsReach(g, NextCall(g, s), DoneThen(g, s, done))
  <2> SUFFICES ASSUME NEW m \in DoneThen(g, s, done), NEW t \in g.nodes,
                      NextCall(g, s).isTrigger[m]
               PROVE  LET on == PathsBehind(g.children, PathsIn(g)[t], m)
                      IN  /\ Heeded(g, NextCall(g, s), m, t) <= on
                          /\ Gathering(g, t) => Heeded(g, NextCall(g, s), m, t) = on
    BY DEF HaltsReach
  <2> DEFINE on == PathsBehind(g.children, PathsIn(g)[t], m)
  <2>1. m \in g.nodes
    BY StepParts DEF DoneThen
  <2>2. on \in Nat
    BY <2>1, PathsInPaths, AheadType DEF CountsPaths
  <2>3. CASE m \in done
    <3>1. s.isTrigger[m]
      BY <2>1, <2>3, StepTells
    <3>2. Heeded(g, s, m, t) <= on /\ (Gathering(g, t) => Heeded(g, s, m, t) = on)
      BY <1>1, <2>3, <3>1 DEF HaltsReach
    <3>3. /\ Heeded(g, s, m, t) \in Nat
          /\ Heeded(g, NextCall(g, s), m, t) \in Nat
          /\ Heeded(g, NextCall(g, s), m, t) <= Heeded(g, s, m, t)
          /\ Gathering(g, t) => Heeded(g, NextCall(g, s), m, t) = Heeded(g, s, m, t)
      BY <2>3, HaltGoesOn
    <3> HIDE DEF on
    <3> QED
      BY <2>2, <3>2, <3>3 DEF on
  <2>4. CASE m \notin done
    <3>1. m = Now(s).node /\ Goes(g, s)
      BY <2>4 DEF DoneThen
    <3>2. Tells(g, s)
      BY <2>1, <3>1, StepTells
    <3>3. Heeded(g, NextCall(g, s), m, t) = on
      BY <1>1, <3>1, <3>2, HaltStarts
    <3> HIDE DEF on
    <3> QED
      BY <2>2, <3>3 DEF on
  <2> QED
    BY <2>3, <2>4
<1>3. /\ TriggersTell(NextCall(g, s), DoneThen(g, s, done))
      /\ ListenersTell(g, NextCall(g, s), DoneThen(g, s, done))
  BY <1>1, TriggersKept, ListenersKept
<1>4. /\ ReferencesTell(g, NextCall(g, s), DoneThen(g, s, done))
      /\ RoutesTell(g, NextCall(g, s), DoneThen(g, s, done))
  BY <1>1, ReferencesKept, RoutesKept
<1> QED
  BY <1>2, <1>3, <1>4 DEF HaltInv

-----------------------------------------------------------------------------
(* What is built in the end.                                                  *)

\* who may be halted tells others
LEMMA WhoTells ==
    ASSUME NEW g, IsGraph(g), NEW s \in WalksOf(g), Over(s),
           HaltInv(g, s, g.nodes), NEW n \in MayHalt(Built(g, s))
    PROVE  n \in g.nodes /\ s.isTrigger[n]
<1> DEFINE f == Built(g, s)
<1>1. /\ f.nodes = g.nodes /\ f.kind = g.kind /\ f.children = g.children
      /\ f.listeners = s.listeners
  BY DEF Built
<1> HIDE DEF f
<1>2. n \in g.nodes
  BY <1>1 DEF MayHalt, f
<1>3. CASE g.kind[n] = "reference"
  BY <1>2, <1>3 DEF HaltInv, ReferencesTell
<1>4. ASSUME NEW m \in g.nodes, g.kind[m] = "router",
             NEW i \in DOMAIN g.children[m], g.children[m][i].node = n
      PROVE  s.isTrigger[n]
  <2>1. s.isTrigger[n] \/ Optional(s, n)
    BY <1>4 DEF HaltInv, RoutesTell
  <2>2. ~ Optional(s, n)
    <3>1. DOMAIN s.calls = {}
      BY DEF Over
    <3> QED
      BY <3>1 DEF Optional
  <2> QED
    BY <2>1, <2>2
<1>5. ASSUME NEW m \in g.nodes, n \in Range(s.listeners[m]) PROVE s.isTrigger[n]
  <2>1. PICK i \in DOMAIN s.listeners[m] : n = s.listeners[m][i]
    BY <1>5 DEF Range
  <2> QED
    BY <2>1 DEF HaltInv, ListenersTell
<1>6. \/ g.kind[n] = "reference"
      \/ \E m \in g.nodes : \/ /\ g.kind[m] = "router"
                              /\ \E i \in DOMAIN g.children[m] : g.children[m][i].node = n
                           \/ n \in Range(s.listeners[m])
  <2>1. n \in MayHalt(f)
    BY DEF f
  <2> QED
    BY <1>1, <2>1 DEF MayHalt
<1> QED
  BY <1>2, <1>3, <1>4, <1>5, <1>6

LEMMA BuiltHaltsFit ==
    ASSUME NEW g, IsGraph(g), Rooted(g), NEW s \in WalksOf(g), Over(s),
           NEW done, CountInv(g, s, done), HaltInv(g, s, done)
    PROVE  HaltsFit(Built(g, s), PathsOf(Built(g, s)))
<1> DEFINE f == Built(g, s)
           P == PathsIn(g)
<1>1. done = g.nodes
  BY AllDone
<1>2. /\ f.nodes = g.nodes /\ f.kind = g.kind /\ f.children = g.children
      /\ f.listeners = s.listeners
  BY DEF Built
<1>3. Joins(f) = Joining(g) /\ PathsOf(f) = P
  BY InEnd
<1>4. ASSUME NEW n \in MayHalt(f) PROVE n \in g.nodes /\ s.isTrigger[n]
  BY <1>1, <1>4, WhoTells
<1> HIDE DEF f, P
<1> SUFFICES ASSUME NEW n \in MayHalt(f), NEW t \in f.nodes
             PROVE  /\ Heard(f, P, t, n) <= Onward(f, P, t, n)
                    /\ t \in Gathers(f) => Heard(f, P, t, n) = Onward(f, P, t, n)
  BY <1>3 DEF HaltsFit, f
<1> DEFINE on == PathsBehind(g.children, P[t], n)
<1>5. n \in g.nodes /\ s.isTrigger[n] /\ t \in g.nodes
  BY <1>2, <1>4
<1>6. Onward(f, P, t, n) = on
  BY <1>2 DEF Onward, PathsBehind
<1>7. Heard(f, P, t, n) = Worth(P[t], s.listeners[n])
  BY <1>2 DEF Heard, Worth
<1>8. Worth(P[t], s.listeners[n]) \in Nat
  <2>1. CountsPaths(g, Joining(g), t, P[t])
    BY <1>5, PathsInPaths DEF P
  <2>2. HasWeights(P[t], g.nodes)
    BY <2>1 DEF CountsPaths, HasWeights
  <2>3. s.listeners[n] \in Seq(g.nodes)
    BY <1>5, WalkParts
  <2> QED
    BY <2>2, <2>3, WorthType
<1>9. Heeded(g, s, n, t) = Worth(P[t], s.listeners[n])
  <2>1. Worth(Arriving(g, P[t], {n}), s.calls) = 0
    BY WorthEmpty DEF Over
  <2> QED
    BY <1>8, <2>1 DEF Heeded, P
<1>10. Heeded(g, s, n, t) <= on /\ (Gathering(g, t) => Heeded(g, s, n, t) = on)
  BY <1>1, <1>5 DEF HaltInv, HaltsReach, P
<1>11. t \in Gathers(f) => Gathering(g, t)
  BY <1>2, <1>3 DEF Gathers, Ends, Joining, Gathering
<1> QED
  BY <1>6, <1>7, <1>9, <1>10, <1>11

LEMMA BuiltBalanced ==
    ASSUME NEW g, IsGraph(g), Rooted(g), OneEnd(g), NEW s \in WalksOf(g), Over(s),
           NEW done, CountInv(g, s, done), HaltInv(g, s, done)
    PROVE  WellFormed(Built(g, s))
<1> DEFINE f == Built(g, s)
           P == PathsIn(g)
<1>1. /\ f.nodes = g.nodes /\ f.kind = g.kind /\ f.children = g.children
      /\ f.counter = s.counter
  BY DEF Built
<1>2. Joins(f) = Joining(g) /\ PathsOf(f) = P
  BY InEnd
<1>3. \A t \in g.nodes : Entries(f, P, t) = IF Multiple(g, t) THEN s.counter[t] ELSE 1
  BY InEnd
<1>4. HaltsFit(f, P)
  BY <1>2, BuiltHaltsFit
<1> HIDE DEF f
<1>5. IsFiniteSet(f.nodes) /\ Acyclic(f)
  <2>1. IsFiniteSet(g.nodes) /\ Acyclic(g)
    BY DEF IsGraph
  <2>2. Acyclic(g) => Acyclic(f)
    BY <1>1 DEF Acyclic
  <2> QED
    BY <1>1, <2>1, <2>2
<1>6. OneEnd(f)
  BY <1>1 DEF OneEnd, Ends
<1>7. InputsFit(f, P)
  <2> HIDE DEF P
  <2> SUFFICES ASSUME NEW t \in g.nodes
               PROVE  IF t \in Joins(f) THEN f.counter[t] = Entries(f, P, t)
                      ELSE /\ Entries(f, P, t) <= 1
                           /\ t \in Ends(f) => Entries(f, P, t) = 1
    BY <1>1 DEF InputsFit
  <2>1. t \in Joins(f) <=> Multiple(g, t)
    BY <1>2 DEF Joining
  <2> QED
    BY <1>1, <1>3, <2>1
<1>8. ArePaths(f, P)
  <2>1. ASSUME NEW t \in g.nodes
        PROVE  /\ P[t] \in [g.nodes -> Nat]
               /\ \A n \in g.nodes : P[t][n] = IF n = t THEN 1 ELSE IF n \in Joins(f) THEN 0
                                               ELSE Onward(f, P, t, n)
    <3>1. CountsPaths(g, Joining(g), t, P[t])
      BY PathsInPaths
    <3>2. ASSUME NEW n \in g.nodes PROVE Onward(f, P, t, n) = PathsBehind(g.children, P[t], n)
      BY <1>1 DEF Onward, PathsBehind
    <3> HIDE DEF P
    <3> QED
      BY <1>2, <3>1, <3>2 DEF CountsPaths
  <2>2. P = [t \in g.nodes |-> P[t]]
    BY DEF PathsIn
  <2> HIDE DEF P
  <2>3. P \in [g.nodes -> [g.nodes -> Nat]]
    BY <2>1, <2>2
  <2> QED
    BY <1>1, <2>1, <2>3 DEF ArePaths
<1>9. Balanced(f, P)
  BY <1>4, <1>6, <1>7, <1>8 DEF Balanced
<1>10. WellFormed(f)
  <2>1. PathsOf(f) = P
    BY <1>2
  <2> HIDE DEF P
  <2> QED
    BY <1>5, <1>9, <2>1 DEF WellFormed
<1> QED
  BY <1>10 DEF f

-----------------------------------------------------------------------------
(* The theorems.                                                              *)

WalkInv == /\ IsGraph(graph) /\ walk \in WalksOf(graph)
           /\ \E done \in SUBSET graph.nodes : CountInv(graph, walk, done) /\ HaltInv(graph, walk, done)

LEMMA InitWalk == ConfigureInit => WalkInv
<1> SUFFICES ASSUME ConfigureInit PROVE WalkInv
  OBVIOUS
<1>1. IsGraph(graph) /\ walk = FirstCall(graph)
  BY DEF ConfigureInit
<1>2. walk \in WalksOf(graph) /\ CountInv(graph, walk, {}) /\ HaltInv(graph, walk, {})
  BY <1>1, FirstCounts, FirstHalts
<1>3. {} \in SUBSET graph.nodes
  OBVIOUS
<1> QED
  BY <1>1, <1>2, <1>3 DEF WalkInv

LEMMA StepWalk == WalkInv /\ [Configure]_configureVars => WalkInv'
<1> SUFFICES ASSUME WalkInv, [Configure]_configureVars PROVE WalkInv'
  OBVIOUS
<1>1. IsGraph(graph) /\ walk \in WalksOf(graph)
  BY DEF WalkInv
<1>2. PICK done \in SUBSET graph.nodes : CountInv(graph, walk, done) /\ HaltInv(graph, walk, done)
  BY DEF WalkInv
<1>3. CASE Configure
  <2>1. walk.calls # <<>> /\ walk' = NextCall(graph, walk) /\ graph' = graph
    BY <1>3 DEF Configure
  <2> DEFINE after == DoneThen(graph, walk, done)
  <2>2. Now(walk).node \in graph.nodes \ done
    BY <1>1, <1>2, <2>1, NotDoneYet
  <2>3. after \in SUBSET graph.nodes
    BY <2>2 DEF DoneThen
  <2>4. CountInv(graph, NextCall(graph, walk), after)
    BY <1>1, <1>2, <2>1, CountsKept
  <2>5. HaltInv(graph, NextCall(graph, walk), after)
    BY <1>1, <1>2, <2>1, <2>2, HaltsKept
  <2>6. NextCall(graph, walk) \in WalksOf(graph)
    BY <1>1, <2>1, StepTyped
  <2> HIDE DEF after
  <2> QED
    BY <1>1, <2>1, <2>3, <2>4, <2>5, <2>6 DEF WalkInv
<1>4. CASE UNCHANGED configureVars
  BY <1>4 DEF WalkInv, configureVars
<1> QED
  BY <1>3, <1>4

LEMMA AlwaysWalk == ConfigureSpec => []WalkInv
BY InitWalk, StepWalk, PTL DEF ConfigureSpec

(* The builders keep their types: what a call refers to is a node, and the       *)
(* triggers and listeners of configure are builders of this graph.               *)
THEOREM ConfigureTyped == ConfigureSpec => []ConfigureTypeOK
<1>1. WalkInv => ConfigureTypeOK
  BY DEF WalkInv, ConfigureTypeOK
<1> QED
  BY <1>1, AlwaysWalk, PTL

(* configure comes to every node along every connection that leads to it, though *)
(* the children of a join are configured only once: for every graph without       *)
(* cycles whose nodes are behind its head, a join has been counted for all its    *)
(* inputs in the end, and no other node waits for more than its one input.        *)
THEOREM JoinsComplete == ConfigureSpec => []JoinsWaitForEveryInput
<1>1. WalkInv => JoinsWaitForEveryInput
  <2> SUFFICES ASSUME WalkInv, Finished, Rooted(graph)
               PROVE  \A n \in graph.nodes : IF graph.parents[n] > 1
                        THEN walk.counter[n] = graph.parents[n] ELSE walk.counter[n] <= 1
    BY DEF JoinsWaitForEveryInput
  <2>1. IsGraph(graph) /\ walk \in WalksOf(graph) /\ Over(walk)
    BY DEF WalkInv, Finished, Over
  <2>2. PICK done : CountInv(graph, walk, done)
    BY DEF WalkInv
  <2>3. \A n \in graph.nodes : IF Multiple(graph, n) THEN walk.counter[n] = graph.parents[n]
                               ELSE walk.counter[n] <= 1
    BY <2>1, <2>2, InEnd
  <2> QED
    BY <2>3 DEF Multiple
<1> QED
  BY <1>1, AlwaysWalk, PTL

(* Whatever the order of the calls, with a trigger or without one: the listeners *)
(* of a node that may be halted stand for the paths on from it, each once.        *)
THEOREM HaltsComplete == ConfigureSpec => []HaltsHeardOncePerPath
<1>1. WalkInv => HaltsHeardOncePerPath
  <2> SUFFICES ASSUME WalkInv, Finished, Rooted(graph)
               PROVE  HaltsFit(flow, PathsOf(flow))
    BY DEF HaltsHeardOncePerPath
  <2>1. IsGraph(graph) /\ walk \in WalksOf(graph) /\ Over(walk)
    BY DEF WalkInv, Finished, Over
  <2>2. PICK done : CountInv(graph, walk, done) /\ HaltInv(graph, walk, done)
    BY DEF WalkInv
  <2> QED
    BY <2>1, <2>2, BuiltHaltsFit DEF flow
<1> QED
  BY <1>1, AlwaysWalk, PTL

(* What configure makes of any graph with one end is a flow as the runtime needs *)
(* it: what is proved of the runs of well-formed flows holds for the flows that   *)
(* are built, in whatever order their connections are gone through.               *)
THEOREM ConfiguredFits == ConfigureSpec => []ConfiguredIsWellFormed
<1>1. WalkInv => ConfiguredIsWellFormed
  <2> SUFFICES ASSUME WalkInv, Finished, Rooted(graph), OneEnd(graph)
               PROVE  WellFormed(flow)
    BY DEF ConfiguredIsWellFormed
  <2>1. IsGraph(graph) /\ walk \in WalksOf(graph) /\ Over(walk)
    BY DEF WalkInv, Finished, Over
  <2>2. PICK done : CountInv(graph, walk, done) /\ HaltInv(graph, walk, done)
    BY DEF WalkInv
  <2> QED
    BY <2>1, <2>2, BuiltBalanced DEF flow
<1> QED
  BY <1>1, AlwaysWalk, PTL
=============================================================================
