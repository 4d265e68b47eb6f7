---------------------------- MODULE MCFlowBuilder ----------------------------
(* FlowBuilder over all small segments, and all applications of few modules.  *)
EXTENDS FlowBuilder, SmallSegments

MCSegments == AllSegments
MCOrders   == {"ascending", "descending"}

MCApps == UNION { Applications(n, SUBSET (1 .. n)) : n \in 1 .. 3 } \cup
          Applications(4, {1 .. 4})
=============================================================================
