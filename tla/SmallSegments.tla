---------------------------- MODULE SmallSegments ----------------------------
(* All small segments, for TLC: binary sequences and parallels over nodes    *)
(* numbered from lo to hi, and routers with one or two keys.  Nothing is     *)
(* placed after a segment that only halts.                                   *)
EXTENDS FlowSegments

CONSTANTS LeafKinds,    \* kinds of the nodes that are not routers
          Size,         \* number of nodes
          Crossing,     \* TRUE: a segment with several ends may be followed by
                        \* one with several starts
          ForkedRoutes  \* TRUE: a route may start with several nodes

Leaf(id, kind) == IF kind = "halt" THEN Halt ELSE Node(id, kind)

\* how many branches a segment starts with, or ends with
RECURSIVE Width(_, _)
Width(s, atStart) ==
    LET side == IF atStart THEN Sources(s) ELSE Destinations(s)
    IN  IF s.parts = <<>> THEN 1
        ELSE FoldLeft(LAMBDA n, part : n + Width(part, atStart), 0, side)

\* every end of the segment is a halt
RECURSIVE OnlyHalts(_)
OnlyHalts(s) == s.type # "node" /\ \A i \in DOMAIN Destinations(s) : OnlyHalts(Destinations(s)[i])

\* b may be placed after a
Follows(a, b) == /\ ~OnlyHalts(a)
                 /\ Crossing \/ Width(a, FALSE) = 1 \/ Width(b, TRUE) = 1

RouteTo(id, routes) == Sequential(<<Node(id, "router"), Parallel(routes)>>)

Bodies(trees) == { a \in trees : ForkedRoutes \/ Width(a, TRUE) = 1 }

RECURSIVE Trees(_, _)
Trees(lo, hi) ==
    IF lo = hi THEN { Leaf(lo, k) : k \in LeafKinds }
    ELSE UNION { LET pairs == Trees(lo, m) \X Trees(m + 1, hi)
                 IN  { Parallel(p) : p \in { q \in pairs : q # <<Halt, Halt>> } } \cup
                     { Sequential(p) : p \in { q \in pairs : Follows(q[1], q[2]) } } :
                 m \in lo .. hi - 1 }
         \cup { RouteTo(lo, <<NamedInput(1, a)>>) : a \in Bodies(Trees(lo + 1, hi)) }
         \cup UNION { { RouteTo(lo, <<NamedInput(1, a), NamedInput(2, b)>>) :
                          a \in Bodies(Trees(lo + 1, m)), b \in Bodies(Trees(m + 1, hi)) } :
                      m \in lo + 1 .. hi - 1 }

\* a route without a body is a no-op (HttpRouteGroupConfigurer.configToSegment)
BodilessRoutes == { RouteTo(1, <<NamedInput(1, Node(2, "noop")), NamedInput(2, a)>>) :
                        a \in Bodies(Trees(3, 4) \cup Trees(3, 3)) }

AllSegments == UNION { Trees(1, n) : n \in 1 .. Size } \cup BodilessRoutes
=============================================================================
