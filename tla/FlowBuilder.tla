------------------------------ MODULE FlowBuilder ------------------------------
(***************************************************************************)
(* FlowBuilderGroup.createFlow as a state machine: the graph of any of the  *)
(* segments, or of the initialization flow of any of the applications, is   *)
(* connected and then configured.  What was connected is compared with      *)
(* definitions on the tree that do not follow the passes of the code.       *)
(***************************************************************************)
EXTENDS ModuleSetup, FlowConfigure

CONSTANTS Segments,     \* the segments flows are created from
          Apps,         \* the applications
          Orders        \* the iteration orders of connections, see Children

Initialized == { a \in Apps : InitializeSegment(a) # <<>> }

\* createFlow's connections are a graph without cycles behind its start, which is what
\* configure is proved about
ASSUME GraphsAssumption ==
    \A s \in Segments \cup { InitializeSegment(a)[1] : a \in Initialized }, o \in Orders :
        IsGraph(Graph(s, o))

VARIABLES main,     \* the segment given to createFlow
          app       \* the application it is the initialization of, if any

vars == <<main, app, graph, walk>>

\* ModuleConfigurer.setup; there is no flow when nobody has anything to do
Setup == \E a \in Initialized : main = InitializeSegment(a)[1] /\ app = <<a>>

Init == /\ \/ main \in Segments /\ app = <<>>
           \/ Setup
        /\ \E o \in Orders : graph = Graph(main, o)
        /\ ConfigureInit

Next == Configure /\ UNCHANGED <<main, app>>

Spec == Init /\ [][Next]_vars

-----------------------------------------------------------------------------
(* The reference definitions.                                               *)

RECURSIVE Firsts(_), Lasts(_), TreeEdges(_)

\* the nodes a segment starts with, each under the outermost route key above it
Firsts(s) ==
    CASE s.type = "node" -> { <<s, NoKey>> }
      [] s.type = "sequential" -> IF s.parts = <<>> THEN {} ELSE Firsts(s.parts[1])
      [] s.type = "input" -> { <<f[1], s.key>> : f \in Firsts(s.parts[1]) }
      [] OTHER -> UNION { Firsts(s.parts[i]) : i \in DOMAIN s.parts }

Lasts(s) ==
    CASE s.type = "node" -> {s}
      [] s.type = "sequential" -> IF s.parts = <<>> THEN {} ELSE Lasts(Last(s.parts))
      [] OTHER -> UNION { Lasts(s.parts[i]) : i \in DOMAIN s.parts }

TreeEdges(s) ==
    UNION { TreeEdges(s.parts[i]) : i \in DOMAIN s.parts } \cup
    UNION { { [from |-> a, to |-> f[1], key |-> f[2]] :
                  a \in Lasts(d[1]), f \in Firsts(d[2]) } : d \in Range(Declared(s)) }

\* the real nodes behind an edge: a no-op passes on to all of its successors
RECURSIVE Behind(_, _)
Behind(n, edges) ==
    IF IsNoOp(n) THEN UNION { Behind(e.to, edges) : e \in { e \in edges : e.from = n } }
    ELSE {n.id}

ExpectedEdges(root) ==
    LET edges == TreeEdges(root)
    IN  UNION { { [from |-> e.from.id, to |-> t, key |-> e.key] : t \in Behind(e.to, edges) } :
                  e \in { e \in edges : ~IsNoOp(e.from) } }

Edges(g) == UNION { { [from |-> n, to |-> c.node, key |-> c.key] :
                          c \in Range(g.children[n]) } : n \in g.nodes }

RECURSIVE Ancestors(_, _)
Ancestors(g, n) == LET froms == { e.from : e \in { e \in Edges(g) : e.to = n } }
                   IN  froms \cup UNION { Ancestors(g, m) : m \in froms }

-----------------------------------------------------------------------------
(* Every node is connected to all the nodes that follow it in the segment,  *)
(* under its route key, and to no other (FlowConnector: "multi output ->    *)
(* multi input, auto-create intermediate node", and its removal again by    *)
(* fixupNoOps).                                                             *)
EveryConnectionMade == Finished => Edges(graph) = ExpectedEdges(Root(main))

(* A module is initialized once, after every module it uses, whichever way it  *)
(* uses them, and everyone's initialization is in the flow: also of a module    *)
(* that stands at the top level and behind another, where it is a join.         *)
InitializedAfterUsed ==
    Finished /\ app # <<>> =>
        LET initialized == app[1].onDeploy
        IN  /\ graph.nodes \ {graph.head} = initialized \cup Ends(graph)
            /\ \A m \in initialized :
                  /\ Uses(app[1], m) \cap initialized \subseteq Ancestors(graph, m)
                  /\ graph.parents[m] > 1 => walk.counter[m] = graph.parents[m]
=============================================================================
