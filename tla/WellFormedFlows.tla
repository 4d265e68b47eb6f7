--------------------------- MODULE WellFormedFlows ---------------------------
(***************************************************************************)
(* Which flows a run can be relied on: what configure has to achieve with   *)
(* its counters and listeners, in terms of paths.  Between two joins the    *)
(* graph is a tree, so a path to a node that passes no join is one input of *)
(* that node, which brings data or a halt, once.                            *)
(***************************************************************************)
EXTENDS Integers, Sequences, FiniteSets, SequencesExt

Joins(f) == { n \in f.nodes : f.counter[n] > 1 }
Ends(f)  == { n \in f.nodes : f.kind[n] = "end" }

\* where inputs are counted
Gathers(f) == Joins(f) \cup Ends(f)

\* nothing leads back: in every set of nodes there is one that no connection leaves within the set
Acyclic(f) ==
    \A S \in SUBSET f.nodes : S # {} =>
        { n \in S : \A i \in DOMAIN f.children[n] : f.children[n][i].node \notin S } # {}

\* the sum of w[x] over S
Total(S, w) == Cardinality(UNION { {x} \X (1 .. w[x]) : x \in S })

\* paths[t][n] is the number of paths from n to t that pass no join before t: the inputs of
\* t that are still to come when n gets its input, and those that come when n is done
Onward(f, paths, t, n) ==
    LET children == f.children[n]
    IN  Total(DOMAIN children, [i \in DOMAIN children |-> paths[t][children[i].node]])

ArePaths(f, paths) ==
    /\ paths \in [f.nodes -> [f.nodes -> Nat]]
    /\ \A t, n \in f.nodes :
          paths[t][n] = IF n = t THEN 1 ELSE IF n \in Joins(f) THEN 0 ELSE Onward(f, paths, t, n)

PathsTo(t, nodes, children, joins) ==
    LET to[n \in nodes] ==
            IF n = t THEN 1 ELSE IF n \in joins THEN 0
            ELSE Total(DOMAIN children[n], [i \in DOMAIN children[n] |-> to[children[n][i].node]])
    IN  to

PathsOf(f) == [t \in f.nodes |-> PathsTo(t, f.nodes, f.children, Joins(f))]

\* the inputs of t that its listeners are told about when n halts
Heard(f, paths, t, n) ==
    LET listeners == f.listeners[n]
    IN  Total(DOMAIN listeners, [i \in DOMAIN listeners |-> paths[t][listeners[i]]])

\* the inputs of t: those that come from the head and those that come from a join
Entries(f, paths, t) ==
    paths[t][f.head] + Total(Joins(f), [n \in Joins(f) |-> Onward(f, paths, t, n)])

\* nodes that may be halted: embedded flows, routes, and listeners
MayHalt(f) ==
    { n \in f.nodes :
        \/ f.kind[n] = "reference"
        \/ \E m \in f.nodes : \/ /\ f.kind[m] = "router"
                                 /\ \E i \in DOMAIN f.children[m] : f.children[m][i].node = n
                              \/ n \in Range(f.listeners[m]) }

\* every branch goes on to the one end
OneEnd(f) == /\ \E end \in f.nodes : Ends(f) = {end}
             /\ \A n \in f.nodes : f.children[n] = <<>> <=> n \in Ends(f)

\* a join waits for all of its inputs, and nothing else has more than one
InputsFit(f, paths) ==
    \A t \in f.nodes : IF t \in Joins(f) THEN f.counter[t] = Entries(f, paths, t)
                       ELSE /\ Entries(f, paths, t) <= 1
                            /\ t \in Ends(f) => Entries(f, paths, t) = 1

\* a halt is heard for every input that will not come
HaltsFit(f, paths) ==
    \A n \in MayHalt(f), t \in f.nodes :
        /\ Heard(f, paths, t, n) <= Onward(f, paths, t, n)
        /\ t \in Gathers(f) => Heard(f, paths, t, n) = Onward(f, paths, t, n)

Balanced(f, paths) ==
    ArePaths(f, paths) /\ OneEnd(f) /\ InputsFit(f, paths) /\ HaltsFit(f, paths)

WellFormed(f) == IsFiniteSet(f.nodes) /\ Acyclic(f) /\ Balanced(f, PathsOf(f))

\* a router has one route for a key
OneRoutePerKey(f) ==
    \A n \in f.nodes : f.kind[n] = "router" =>
        \A i, k \in DOMAIN f.children[n] : f.children[n][i].key = f.children[n][k].key => i = k
=============================================================================
