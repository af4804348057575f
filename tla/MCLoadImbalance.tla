-------------------------- MODULE MCLoadImbalance --------------------------
(* Small programs and configurations of LoadImbalance for TLC. *)
EXTENDS LoadImbalance

CONSTANTS n1, n2, n3, n4, n5, n6

MCNodes == {n1, n2, n3, n4, n5, n6}
MCNodeOrder == <<n1, n2, n3, n4, n5, n6>>

PerNode(a, b, c1, d, e, f) ==
    [n \in MCNodes |-> CASE n = n1 -> a [] n = n2 -> b [] n = n3 -> c1 [] n = n4 -> d
                         [] n = n5 -> e [] n = n6 -> f]

\* A chain to an imbalanced function n3 with another way to it (n4), and a library
\* function n6 below the imbalanced one.
Chain ==
    [main |-> n1, version |-> 2, body |-> MCNodes \ {n6}, mpi |-> {},
     callees |-> {<<n1, n2>>, <<n2, n3>>, <<n1, n4>>, <<n4, n3>>, <<n3, n5>>, <<n3, n6>>,
                  <<n5, n5>>},
     overrides |-> {}, virtual |-> {},
     stmts |-> PerNode(5, 4, 9, 2, 6, 0),
     run |-> {<<n1, n2>>, <<n2, n3>>, <<n3, n5>>, <<n1, n4>>},
     calls |-> PerNode(1, 2, 2, 1, 4, 0), time |-> PerNode(1, 1, 6, 1, 5, 0),
     times |-> PerNode(<<7, 7>>, <<6, 6>>, <<9, 3>>, <<1, 0>>, <<4, 1>>, <<0, 0>>)]

\* The same in a run that does not call n4.
Cold ==
    [Chain EXCEPT !.run = @ \ {<<n1, n4>>}, !.calls[n4] = 0, !.time[n4] = 0,
                  !.times[n4] = <<0, 0>>]

\* Calls of a virtual function n2 that n3 and n4 override, one of them through the other,
\* in a file of format 1; n3 and n5 call each other.
Virtual ==
    [main |-> n1, version |-> 1, body |-> MCNodes \ {n2}, mpi |-> {},
     callees |-> {<<n1, n2>>, <<n3, n5>>, <<n5, n3>>, <<n4, n6>>, <<n1, n4>>},
     overrides |-> {<<n3, n2>>, <<n4, n3>>}, virtual |-> {n2, n3, n4},
     stmts |-> PerNode(3, 0, 6, 8, 5, 7),
     run |-> {<<n1, n3>>, <<n3, n5>>, <<n1, n4>>, <<n4, n6>>},
     calls |-> PerNode(1, 0, 3, 2, 3, 5), time |-> PerNode(1, 0, 5, 4, 6, 6),
     times |-> PerNode(<<11, 11>>, <<0, 0>>, <<8, 3>>, <<5, 5>>, <<3, 3>>, <<6, 1>>)]

Base ==
    [metric |-> "Efficiency", imbalanceThreshold |-> 120, relevanceThreshold |-> 5,
     childRelevance |-> "All", childConstant |-> 3, childFraction |-> 30,
     context |-> "AllPathsToMain", contextSteps |-> 1, export |-> TRUE]

\* The programs with the load of the functions in S spread over the locations unevenly,
\* and evenly that of the others.
Spread(q, S) ==
    [q EXCEPT !.times = [n \in MCNodes |->
       IF n \notin executed(q) THEN <<0, 0>> ELSE IF n \in S THEN <<9, 3>> ELSE <<6, 6>>]]

Programs ==
    {Chain, Virtual} \cup {Spread(Chain, S) : S \in SUBSET {n2, n3, n4, n5}}
                     \cup {Spread(Cold, S) : S \in SUBSET {n2, n3, n5}}
                     \cup {Spread(Virtual, S) : S \in SUBSET {n3, n4, n5, n6}}

MCInstances ==
    Programs \X
    ({[Base EXCEPT !.context = s, !.relevanceThreshold = t] :
        s \in {"AllPathsToMain", "MajorPathsToMain", "None", "MajorParentSteps",
               "FindSynchronizationPoints"},
        t \in {5, 30, 50}}
     \cup {[Base EXCEPT !.childRelevance = r] :
             r \in {"ConstantThreshold", "RelativeToParent", "RelativeToMain"}}
     \cup {[Base EXCEPT !.metric = "VariationCoeff", !.imbalanceThreshold = 40],
           [Base EXCEPT !.metric = "ImbalancePercentage", !.imbalanceThreshold = 30],
           [Base EXCEPT !.export = FALSE]})
=============================================================================
