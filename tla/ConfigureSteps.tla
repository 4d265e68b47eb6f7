----------------------------- MODULE ConfigureSteps -----------------------------
(***************************************************************************)
(* The calls of FlowBuilderGroup.configure, which walks over the graph that *)
(* createFlow connected: it goes along every connection, counts what a node *)
(* has to wait for and notes who must be told when a node is halted.        *)
(*                                                                         *)
(* A walk is the mutable part of the builders, NodeBuilder's initialCounter *)
(* (here counter), isTrigger and listeners, and the calls still to make,    *)
(* innermost first: the stack of the recursion.  The code also keeps the    *)
(* path of a call and throws when it comes back to itself; the graph of a   *)
(* segment has no cycle.                                                    *)
(***************************************************************************)
EXTENDS WellFormedFlows

\* no node: the trigger before there is one
NoNode == -1

\* the connections that lead to n
ParentCount(g, n) ==
    Total(g.nodes, [m \in g.nodes |->
        Cardinality({ i \in DOMAIN g.children[m] : g.children[m][i].node = n })])

\* the connected builders; parents is NodeBuilder.parentCount
IsGraph(g) ==
    /\ IsFiniteSet(g.nodes) /\ g.nodes \subseteq Nat
    /\ g.kind \in [g.nodes -> STRING]
    /\ g.children \in [g.nodes -> Seq([node : g.nodes, key : Nat])]
    /\ g.parents = [n \in g.nodes |-> ParentCount(g, n)]
    /\ g.head \in g.nodes /\ g.parents[g.head] = 0
    /\ Acyclic(g)

CallTo(node, optional, trigger) == [node |-> node, optional |-> optional, trigger |-> trigger]

CallsOf(g) == [node : g.nodes, optional : BOOLEAN, trigger : g.nodes \cup {NoNode}]

WalksOf(g) == [calls     : Seq(CallsOf(g)),
               counter   : [g.nodes -> Nat],
               isTrigger : [g.nodes -> BOOLEAN],
               listeners : [g.nodes -> Seq(g.nodes)]]

\* configure(path, null, null)
FirstCall(g) ==
    [calls     |-> << CallTo(g.head, FALSE, NoNode) >>,
     counter   |-> [n \in g.nodes |-> 0],
     isTrigger |-> [n \in g.nodes |-> FALSE],
     listeners |-> [n \in g.nodes |-> <<>>]]

-----------------------------------------------------------------------------
\* mutant of Multiple: off by one
MoreThanTwo(g, n) == g.parents[n] > 2

Multiple(g, n) == g.parents[n] > 1

\* whether the call is one that the node will wait for
Counts(g, call) == Multiple(g, call.node) \/ (call.trigger = NoNode /\ call.optional)

\* mutant of NotifiesBehind: a join passes no halt on
OnlyOptional(g, call) == call.optional \/ g.kind[call.node] \in {"reference", "end"}

\* whether the node has to tell the next ones behind it that it is halted
NotifiesBehind(g, call) ==
    \/ call.optional
    \/ g.kind[call.node] \in {"reference", "end"}
    \/ call.trigger # NoNode /\ Multiple(g, call.node)

\* the children of a join are configured when its last input has been counted
ProcessesChildren(g, n, count) == ~Multiple(g, n) \/ g.parents[n] = count

CallsBehind(g, n, trigger) ==
    [i \in DOMAIN g.children[n] |->
        CallTo(g.children[n][i].node, g.kind[n] = "router", trigger)]

\* one call of configure, up to the calls it makes itself
NextCall(g, walk) ==
    LET call     == Head(walk.calls)
        n        == call.node
        count    == IF Counts(g, call) THEN walk.counter[n] + 1 ELSE walk.counter[n]
        notifies == walk.isTrigger[n] \/ NotifiesBehind(g, call)
    IN  [counter   |-> [walk.counter EXCEPT ![n] = count],
         isTrigger |-> [walk.isTrigger EXCEPT ![n] = notifies],
         listeners |-> IF call.trigger # NoNode /\ notifies
                       THEN [walk.listeners EXCEPT ![call.trigger] = Append(@, n)]
                       ELSE walk.listeners,
         calls     |-> (IF ProcessesChildren(g, n, count)
                        THEN CallsBehind(g, n, IF notifies THEN n ELSE call.trigger)
                        ELSE <<>>) \o Tail(walk.calls)]

\* what NodeBuilder.build is given in the end
Built(g, walk) ==
    [nodes |-> g.nodes, head |-> g.head, kind |-> g.kind, children |-> g.children,
     counter |-> walk.counter, listeners |-> walk.listeners]
=============================================================================
