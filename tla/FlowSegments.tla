------------------------------ MODULE FlowSegments ------------------------------
(***************************************************************************)
(* How a tree of flow segments becomes an executable graph:                *)
(* FlowSegments (the tree), FlowConnector (its node connections, with the  *)
(* no-op nodes spliced out), FlowBuilderGroup.createFlow (the graph), and  *)
(* its configure, whose calls are in ConfigureSteps.                       *)
(*                                                                         *)
(* A route key is a positive number, NoKey is null.  A node is identified  *)
(* by a number, Start is 0 and the end node gets the next free number.     *)
(* The operators are recursive: TLC evaluates them, no proof uses them.    *)
(***************************************************************************)
EXTENDS ConfigureSteps

NoKey == 0
Start == 0

-----------------------------------------------------------------------------
(* Segments.  A segment that is a node has no parts.                        *)

Segment(type, id, kind, key, parts) ==
    [type |-> type, id |-> id, kind |-> kind, key |-> key, parts |-> parts]

Node(id, kind)  == Segment("node", id, kind, NoKey, <<>>)
Sequential(ps)  == Segment("sequential", NoNode, "none", NoKey, ps)
Parallel(ps)    == Segment("parallel", NoNode, "none", NoKey, ps)
NamedInput(k,s) == Segment("input", NoNode, "none", k, << Sequential(<<s>>) >>)
Halt            == Segment("halt", NoNode, "none", NoKey, <<>>)

IsNoOp(s) == s.kind = "noop"

Sources(s) ==
    CASE s.type = "node" -> <<s>>
      [] s.type = "sequential" /\ s.parts # <<>> -> <<s.parts[1]>>
      [] OTHER -> s.parts

Destinations(s) ==
    CASE s.type = "node" -> <<s>>
      [] s.type = "sequential" /\ s.parts # <<>> -> <<Last(s.parts)>>
      [] OTHER -> s.parts

\* the connections a segment itself declares: consecutive parts of a sequence
Declared(s) ==
    IF s.type = "sequential" /\ s.parts # <<>>
    THEN [i \in 1 .. Len(s.parts) - 1 |-> <<s.parts[i], s.parts[i + 1]>>]
    ELSE <<>>

RECURSIVE Leaves(_)
Leaves(s) == IF s.type = "node" THEN {s}
             ELSE UNION { Leaves(s.parts[i]) : i \in DOMAIN s.parts }

-----------------------------------------------------------------------------
(* FlowConnector                                                           *)

FirstNonNull(keys) ==
    LET present == SelectSeq(keys, LAMBDA k : k # NoKey)
    IN  IF present = <<>> THEN NoKey ELSE present[1]

\* the noop() made between a segment with many outputs and one with many inputs
Intermediate(dst) ==
    LET ids == { n.id : n \in Leaves(dst) }
    IN  Node(100 + CHOOSE i \in ids : \A j \in ids : i <= j, "noop")

RECURSIVE Connect(_, _, _)
Connect(src, dst, parentKey) ==
    LET Inner(s) == FlattenSeq([i \in DOMAIN Declared(s) |->
                        Connect(Declared(s)[i][1], Declared(s)[i][2], NoKey)])
        froms == Destinations(src)
        tos   == Sources(dst)
        via   == Intermediate(dst)
        Pair(from, to) ==
            LET key == FirstNonNull(<<parentKey, dst.key, to.key>>)
            IN  IF from.type = "node" /\ to.type = "node"
                THEN << [from |-> from, to |-> to, key |-> key] >>
                ELSE Connect(from, to, IF key # to.key THEN key ELSE NoKey)
    IN  Inner(src) \o Inner(dst) \o
        IF Len(froms) > 1 /\ Len(tos) > 1
        THEN FlattenSeq([i \in DOMAIN froms |-> Connect(froms[i], via, parentKey)]) \o
             FlattenSeq([i \in DOMAIN tos |-> Connect(via, tos[i], parentKey)])
        ELSE FlattenSeq([t \in DOMAIN tos |->
                FlattenSeq([f \in DOMAIN froms |-> Pair(froms[f], tos[t])])])

RECURSIVE Expand(_)
Expand(s) ==
    FlattenSeq([i \in DOMAIN Declared(s) |->
        Connect(Declared(s)[i][1], Declared(s)[i][2], NoKey)]) \o
    FlattenSeq([i \in DOMAIN s.parts |-> Expand(s.parts[i])])

\* One pass of findNoOpReal's loop: it goes on after current is already real.
RECURSIVE FindNoOpReal(_, _)
FindNoOpReal(current, noOps) ==
    IF ~IsNoOp(current) THEN current
    ELSE FindNoOpReal(
            FoldLeft(LAMBDA cur, c : IF c.from = cur THEN c.to ELSE cur,
                     current, noOps),
            noOps)

\* mutant of FixUp: the new connection is made without the key of the old one
FixUpWithoutKey(c, noOps) == [c EXCEPT !.to = FindNoOpReal(c.to, noOps), !.key = NoKey]

FixUp(c, noOps) == [c EXCEPT !.to = FindNoOpReal(c.to, noOps)]

Connections(root) ==
    LET added  == Expand(root)
        noOps  == SelectSeq(added, LAMBDA c : IsNoOp(c.from) \/ IsNoOp(c.to))
        reals  == { c \in Range(added) : ~IsNoOp(c.from) /\ ~IsNoOp(c.to) }
        fixups == { FixUp(c, noOps) :
                        c \in { c \in Range(noOps) : ~IsNoOp(c.from) /\ IsNoOp(c.to) } }
    IN  { [from |-> c.from.id, to |-> c.to.id, key |-> c.key] : c \in reals \cup fixups }

-----------------------------------------------------------------------------
(* FlowBuilderGroup: seq(start, main, end), connected nodes, configure      *)

EndId(body) == 1 + Max({ n.id : n \in Leaves(body) } \cup {Start})
Root(body)  == Sequential(<< Node(Start, "start"), body, Node(EndId(body), "end") >>)

\* children in the iteration order of the HashSet of connections, which the
\* code does not choose: ascending or descending stand for it
Children(n, conns, order) ==
    LET rank(c) == IF order = "ascending" THEN c.to * 10 + c.key
                   ELSE -(c.to * 10 + c.key)
    IN  [i \in 1 .. Cardinality({ c \in conns : c.from = n }) |->
            LET c == SetToSortSeq({ d \in conns : d.from = n },
                                  LAMBDA a, b : rank(a) < rank(b))[i]
            IN  [node |-> c.to, key |-> c.key]]

\* the connected builders
Graph(body, order) ==
    LET root  == Root(body)
        conns == Connections(root)
        real  == { n \in Leaves(root) : ~IsNoOp(n) }
        ids   == { n.id : n \in real }
    IN  [nodes    |-> ids,
         head     |-> Start,
         kind     |-> [n \in ids |-> (CHOOSE r \in real : r.id = n).kind],
         children |-> [n \in ids |-> Children(n, conns, order)],
         parents  |-> [n \in ids |-> Cardinality({ c \in conns : c.to = n })]]

RECURSIVE CallAll(_, _)
CallAll(g, walk) == IF walk.calls = <<>> THEN walk ELSE CallAll(g, NextCall(g, walk))

\* createFlow for one root
CreateFlow(body, order) ==
    LET g == Graph(body, order) IN Built(g, CallAll(g, FirstCall(g)))
=============================================================================
