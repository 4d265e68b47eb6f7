------------------------------ MODULE ModuleSetup ------------------------------
(***************************************************************************)
(* The initialization flow of an application (ModuleConfigurer.setup): the  *)
(* modules, which of them use which, and the segment that initializes each  *)
(* of them after those it uses.  A module is the number of its node.        *)
(*                                                                         *)
(* A module is configured inside the module that uses it, its parent, or    *)
(* at the root; it uses modules of the root by their names, too.            *)
(***************************************************************************)
EXTENDS FlowSegments

RootModule == 0

\* onDeploy: the modules that have something to do at initialization
Application(parent, named, onDeploy) ==
    [parent |-> parent, named |-> named, onDeploy |-> onDeploy]

Modules(app)   == DOMAIN app.parent
ConfiguredIn(app, m) == { k \in Modules(app) : app.parent[k] = m }

\* findTopLevel, which is before the names are resolved
TopLevel(app) == { m \in Modules(app) : ConfiguredIn(app, m) = {} }

\* mutant of UsedBy: dep.usedBy.add(use) is missing
Configured(app, m) == { app.parent[m] }

\* usedBy, after resolveNamedDependencies
UsedBy(app, m) == { app.parent[m] } \cup { k \in Modules(app) : m \in app.named[k] }

Ascending(modules) == SetToSortSeq(modules, LAMBDA a, b : a < b)

\* what is built in parallel, none or one segment
AllOf(segments) == IF segments = <<>> THEN <<>> ELSE << Parallel(segments) >>

\* buildSegment of one module: its own, and then everyone's who uses it.  Who uses two
\* modules is in the segment twice, as the same node.
RECURSIVE BuildSegment(_, _)
BuildSegment(app, m) ==
    LET own   == IF m \in app.onDeploy THEN << Node(m, "operation") >> ELSE <<>>
        users == Ascending(UsedBy(app, m) \ {RootModule})
        parts == own \o AllOf(FlattenSeq([i \in DOMAIN users |-> BuildSegment(app, users[i])]))
    IN  IF parts = <<>> THEN <<>> ELSE << Sequential(parts) >>

InitializeSegment(app) ==
    LET top == Ascending(TopLevel(app))
    IN  AllOf(FlattenSeq([i \in DOMAIN top |-> BuildSegment(app, top[i])]))

-----------------------------------------------------------------------------
(* Applications without cycles: one would send buildSegment round for ever.  *)
(* They can be numbered so that who uses a module has a smaller number.       *)

RECURSIVE Uses(_, _)
Uses(app, m) ==     \* the modules that m uses, also for their sake
    LET direct == ConfiguredIn(app, m) \cup app.named[m]
    IN  direct \cup UNION { Uses(app, k) : k \in direct }

\* all applications with the modules 1 .. n; names are those of modules at the root
Applications(n, onDeploys) ==
    UNION { { Application(parent, named, onDeploy) :
                  onDeploy \in onDeploys,
                  named \in { f \in [1 .. n -> SUBSET { m \in 1 .. n : parent[m] = RootModule }] :
                                  \A m \in 1 .. n : f[m] \subseteq m + 1 .. n } } :
            parent \in { f \in [1 .. n -> 0 .. n - 1] : \A m \in 1 .. n : f[m] < m } }
=============================================================================
