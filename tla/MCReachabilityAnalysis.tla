----------------------- MODULE MCReachabilityAnalysis -----------------------
(* A small instance of ReachabilityAnalysis for TLC. *)
EXTENDS ReachabilityAnalysis

CONSTANTS n1, n2, n3, n4

MCNodes == {n1, n2, n3, n4}

\* A join that is queued twice, alone and with a way back, a self-call at the
\* end of a chain, two cycles that share a node, and no calls at all.
Diamond == {<<n1, n2>>, <<n1, n3>>, <<n2, n4>>, <<n3, n4>>}
MCGraphs ==
    {Diamond, Diamond \cup {<<n4, n1>>},
     {<<n1, n2>>, <<n2, n3>>, <<n3, n3>>},
     {<<n1, n2>>, <<n2, n1>>, <<n1, n3>>, <<n3, n1>>}, {}}
=============================================================================
