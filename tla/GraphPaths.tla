----------------------------- MODULE GraphPaths -----------------------------
(***************************************************************************)
(* Reachability and dominance in a directed graph with nodes N and edges   *)
(* E, by their definitions: the references the analyses are compared with. *)
(***************************************************************************)

Closed(E, S) == \A e \in E : e[1] \in S => e[2] \in S

\* The nodes on the paths that start at n: the least set that holds n and
\* is closed under E.
Reach(N, E, n) ==
    {m \in N : \A S \in SUBSET N : n \in S /\ Closed(E, S) => m \in S}

\* The edges that do not touch node d.
Without(E, d) == {e \in E : d \notin {e[1], e[2]}}

\* The nodes that are on every path from root to n.
Dominators(N, E, root, n) ==
    {d \in N : d \in {root, n} \/ n \notin Reach(N, Without(E, d), root)}
=============================================================================
