---------------------------- MODULE MCFlowRuntime ----------------------------
(* Runs of the flows created from all small segments; of smaller ones, with   *)
(* async operations, too, in which operations fail; and of the initialization *)
(* flows of three modules.                                                    *)
EXTENDS FlowRuntime, SmallSegments, ModuleSetup

CONSTANTS Orders        \* iteration orders of connections, see Children

FlowWith(s, order, faults) == CreateFlow(s, order) @@ [faults |-> faults]

MCFlows == { FlowWith(s, o, {}) : s \in AllSegments, o \in Orders }

Smaller == INSTANCE SmallSegments
               WITH LeafKinds <- LeafKinds \cup {"async"}, Size <- Size - 1

MCFaultyFlows == { FlowWith(s, o, {"error", "lost"}) : s \in Smaller!AllSegments, o \in Orders }

MCInitFlows == { FlowWith(InitializeSegment(app)[1], o, {}) :
                     app \in Applications(3, {1 .. 3}), o \in Orders }

MCAllFlows == MCFlows \cup MCFaultyFlows \cup MCInitFlows

-----------------------------------------------------------------------------
(* The created flows are well-formed, which is what the proofs rest on.       *)

\* except those with a halt! segment, which is connected to nothing (FlowSegments.Halt): a
\* branch with one does not go on to the end
ASSUME CreatedFlowsAreWellFormed ==
    "halt" \in LeafKinds \/ \A f \in MCAllFlows : WellFormed(f)

\* and their routers have one route for a key, unless the run is about those that have two
ASSUME CreatedRoutesHaveTheirKeys ==
    ForkedRoutes \/ \A f \in MCAllFlows : OneRoutePerKey(f)
=============================================================================
