------------------------------- MODULE MCPgis -------------------------------
(* Small programs and command lines of Pgis for TLC. *)
EXTENDS Pgis

CONSTANTS n1, n2, n3, n4, n5, n6, n7

MCNodes == {n1, n2, n3, n4, n5, n6, n7}
MCNodeOrder == <<n1, n2, n3, n4, n5, n6, n7>>

PerNode(a, b, c, d, e, f, g) ==
    [n \in MCNodes |-> CASE n = n1 -> a [] n = n2 -> b [] n = n3 -> c [] n = n4 -> d
                         [] n = n5 -> e [] n = n6 -> f [] n = n7 -> g]

\* A call through a function pointer that the graph misses (n2 to n5), a library function
\* without a body (n4), and a function that is not called (n6).
Solver ==
    [main |-> n1, body |-> MCNodes \ {n4, n7}, mpi |-> {},
     edges |-> {<<n1, n2>>, <<n1, n3>>, <<n2, n4>>, <<n3, n4>>, <<n3, n6>>, <<n5, n5>>},
     stmts |-> PerNode(2, 5, 10, 0, 6, 4, 0), metric |-> PerNode(1, 2, 0, 0, 3, 1, 0),
     models |-> {n1, n2}, kernels |-> {n2},
     run |-> {<<n1, n2>>, <<n1, n3>>, <<n2, n4>>, <<n2, n5>>},
     calls |-> PerNode(1, 3, 2, 6, 4, 0, 0), time |-> PerNode(1, 2, 9, 2, 4, 0, 0)]

\* A cycle of n2 and n3, an MPI function (n5) below it, and a chain whose middle (n6) is
\* in another library.
Ring ==
    [main |-> n1, body |-> MCNodes \ {n5, n6}, mpi |-> {n5},
     edges |-> {<<n1, n2>>, <<n2, n3>>, <<n3, n2>>, <<n3, n5>>, <<n1, n6>>, <<n6, n7>>},
     stmts |-> PerNode(3, 1, 7, 0, 0, 0, 8), metric |-> PerNode(0, 1, 2, 0, 0, 0, 2),
     models |-> {n1, n3}, kernels |-> {n3},
     run |-> {<<n1, n2>>, <<n2, n3>>, <<n3, n5>>, <<n1, n6>>, <<n6, n7>>},
     calls |-> PerNode(1, 2, 4, 0, 9, 1, 5), time |-> PerNode(2, 0, 3, 0, 1, 1, 6)]

\* Many small functions below main, and a run too short for the clock.
Flat ==
    [main |-> n1, body |-> MCNodes, mpi |-> {},
     edges |-> {<<n1, m>> : m \in MCNodes \ {n1}},
     stmts |-> PerNode(1, 1, 2, 3, 4, 5, 6), metric |-> PerNode(0, 0, 0, 0, 0, 0, 0),
     models |-> {}, kernels |-> {},
     run |-> {<<n1, m>> : m \in MCNodes \ {n1}},
     calls |-> PerNode(1, 9, 8, 3, 2, 2, 1), time |-> PerNode(9, 1, 1, 2, 1, 2, 1)]
Short == [Flat EXCEPT !.time = [n \in MCNodes |-> 0]]

\* Main alone, with its own count as the only one of the histogram.
Tiny == [Short EXCEPT !.edges = {<<n1, n1>>}, !.run = {}, !.time = PerNode(1, 0, 0, 0, 0, 0, 0)]

Plain ==
    [heuristic |-> "statements", cutoff |-> "median", fillGaps |-> TRUE, cs |-> FALSE,
     eligible |-> TRUE, scorep |-> FALSE, extrap |-> "off", stmtThreshold |-> 5,
     overhead |-> "None", num |-> 1, den |-> 1, budget |-> 20, hotIncl |-> 50, hotExcl |-> 30]
CallSites == [Plain EXCEPT !.cs = TRUE, !.scorep = TRUE]
Reduce == [Plain EXCEPT !.num = 1, !.den = 2, !.cutoff = "max"]

Selections ==
    {Plain, [Plain EXCEPT !.cutoff = "unique_median", !.fillGaps = FALSE],
     [Plain EXCEPT !.cutoff = "max", !.eligible = FALSE],
     CallSites, [CallSites EXCEPT !.eligible = FALSE],
     [CallSites EXCEPT !.heuristic = "conditionalbranches_reverse"],
     [Plain EXCEPT !.heuristic = "loopdepth"],
     [Plain EXCEPT !.extrap = "filter"], [CallSites EXCEPT !.extrap = "expander"]}
Reductions ==
    {[Reduce EXCEPT !.overhead = "TimePerCall"],
     [Reduce EXCEPT !.overhead = "TimePerCallKeepSmall"],
     [CallSites EXCEPT !.overhead = "TimePerCallKeepSmall", !.den = 4]}

MCInstances ==
    ({Solver, Ring} \X (Selections \cup Reductions \cup {[Reduce EXCEPT !.overhead = "Random"]}))
    \cup ({Flat} \X (Reductions \cup {[Reduce EXCEPT !.overhead = "TimePerCall", !.num = 9, !.den = 10, !.cutoff = "median"]}))
    \cup ({Short, Tiny} \X {Plain})
=============================================================================
