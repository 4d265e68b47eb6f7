----------------------------- MODULE FlowConfigure -----------------------------
(***************************************************************************)
(* FlowBuilderGroup.configure on any connected graph, one call at a time,   *)
(* and what its counters and listeners have to be in the end, so that the   *)
(* runs of the flow can be relied on.                                       *)
(***************************************************************************)
EXTENDS ConfigureSteps

VARIABLES graph,    \* the graph that is configured
          walk      \* the builders and the calls still to make, see ConfigureSteps

configureVars == <<graph, walk>>

ConfigureInit == IsGraph(graph) /\ walk = FirstCall(graph)

Configure == /\ walk.calls # <<>>
             /\ walk' = NextCall(graph, walk)
             /\ UNCHANGED graph

ConfigureSpec == ConfigureInit /\ [][Configure]_configureVars

-----------------------------------------------------------------------------
ConfigureTypeOK == IsGraph(graph) /\ walk \in WalksOf(graph)

Finished == walk.calls = <<>>

flow == Built(graph, walk)

\* all nodes are behind the head
Rooted(g) == \A n \in g.nodes : n # g.head => g.parents[n] > 0

(* In the end a node with several inputs waits for all of them: the walk came    *)
(* to it once along every connection, though the children of joins before it     *)
(* were configured only once; a node with one input waits for no more than that. *)
JoinsWaitForEveryInput ==
    Finished /\ Rooted(graph) =>
        \A n \in graph.nodes :
            IF graph.parents[n] > 1 THEN walk.counter[n] = graph.parents[n]
            ELSE walk.counter[n] <= 1

(* In the end the listeners of a node that may be halted, and those they pass it *)
(* on to, stand for the paths from it to the next joins and the end, each once,  *)
(* in whatever order the walk came to them, with or without a trigger.           *)
HaltsHeardOncePerPath ==
    Finished /\ Rooted(graph) => HaltsFit(flow, PathsOf(flow))

(* What configure makes of a graph with one end that every branch goes on to is  *)
(* a flow as the runtime needs it: joins that wait for what comes, halts that    *)
(* are heard for what will not come.                                             *)
ConfiguredIsWellFormed ==
    Finished /\ Rooted(graph) /\ OneEnd(graph) => WellFormed(flow)
=============================================================================
