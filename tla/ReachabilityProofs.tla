------------------------- MODULE ReachabilityProofs -------------------------
(***************************************************************************)
(* The search of ReachabilityAnalysis is exact for every graph.            *)
(***************************************************************************)
EXTENDS ReachabilityAnalysis, FiniteSetTheorems, SequenceTheorems, TLAPS

-----------------------------------------------------------------------------
(* Facts about Reach and about one iteration of a loop over a queue. *)

\* Start and successors of a reachable node are reachable.
LEMMA ReachStep ==
    ASSUME NEW N, NEW E \in SUBSET (N \X N), NEW n \in N
    PROVE  /\ n \in Reach(N, E, n)
           /\ \A e \in E : e[1] \in Reach(N, E, n) => e[2] \in Reach(N, E, n)
  BY DEF Reach, Closed

\* A closed set of reachable nodes that holds the start is all of them.
LEMMA ReachLeast ==
    ASSUME NEW N, NEW E, NEW n, NEW S \in SUBSET N,
           n \in S, Closed(E, S), S \subseteq Reach(N, E, n)
    PROVE  S = Reach(N, E, n)
  BY DEF Reach

\* The set S in some order is a sequence.
LEMMA OrderIsSeq ==
    ASSUME NEW N, IsFiniteSet(N), NEW S \in SUBSET N,
           NEW order \in [1 .. Cardinality(S) -> S]
    PROVE  order \in Seq(N)
  <1>1. Cardinality(S) \in Nat
    BY FS_Subset, FS_CardinalityType
  <1> QED
    BY <1>1

\* The elements of a sequence, by position.
LEMMA ToSetSeq ==
    ASSUME NEW N, NEW s \in Seq(N)
    PROVE  ToSet(s) = {s[i] : i \in 1 .. Len(s)}
  BY DEF ToSet

\* What a queue holds: its head and its tail.
LEMMA ToSetTail ==
    ASSUME NEW N, NEW q \in Seq(N), q # <<>>
    PROVE  Tail(q) \in Seq(N) /\ ToSet(q) = {Head(q)} \cup ToSet(Tail(q))
  <1> DEFINE t == Tail(q)
  <1>1. /\ t \in Seq(N) /\ Head(q) = q[1] /\ Len(t) = Len(q) - 1
        /\ Len(q) \in Nat \ {0} /\ \A i \in 1 .. Len(q) - 1 : t[i] = q[i + 1]
    OBVIOUS
  <1> HIDE DEF t
  <1>2. \A i \in 1 .. Len(q) : i = 1 \/ (i - 1 \in 1 .. Len(t) /\ t[i - 1] = q[i])
    BY <1>1
  <1>3. 1 \in 1 .. Len(q) /\ \A i \in 1 .. Len(t) : i + 1 \in 1 .. Len(q) /\ t[i] = q[i + 1]
    BY <1>1
  <1>4. ToSet(q) = {q[i] : i \in 1 .. Len(q)} /\ ToSet(t) = {t[i] : i \in 1 .. Len(t)}
    BY <1>1, ToSetSeq
  <1>5. ToSet(q) = {Head(q)} \cup ToSet(t)
    BY <1>1, <1>2, <1>3, <1>4
  <1> QED
    BY <1>1, <1>5 DEF t

\* What the concatenation of two sequences holds.
LEMMA ToSetConcat ==
    ASSUME NEW N, NEW s \in Seq(N), NEW t \in Seq(N)
    PROVE  s \o t \in Seq(N) /\ ToSet(s \o t) = ToSet(s) \cup ToSet(t)
  <1>1. s \o t \in Seq(N)
    OBVIOUS
  <1>2. \A f : ToSet(f) = Range(f)
    BY Zenon DEF ToSet, Range
  <1>3. Range(s \o t) = Range(s) \cup Range(t)
    BY RangeConcatenation
  <1> QED
    BY <1>1, <1>2, <1>3, Zenon

\* What the queue of an iteration holds: its tail and the children.
LEMMA QueueStep ==
    ASSUME NEW N, NEW q \in Seq(N), q # <<>>, NEW order \in Seq(N)
    PROVE  /\ Tail(q) \o order \in Seq(N)
           /\ ToSet(q) = {Head(q)} \cup ToSet(Tail(q))
           /\ ToSet(Tail(q) \o order) = ToSet(Tail(q)) \cup ToSet(order)
  <1> DEFINE t == Tail(q)
  <1>1. t \in Seq(N) /\ ToSet(q) = {Head(q)} \cup ToSet(t)
    BY ToSetTail
  <1> HIDE DEF t
  <1>2. t \o order \in Seq(N) /\ ToSet(t \o order) = ToSet(t) \cup ToSet(order)
    BY <1>1, ToSetConcat
  <1> QED
    BY <1>1, <1>2 DEF t

-----------------------------------------------------------------------------

IInv == TypeOK /\ SearchInvariant /\ CacheExact

LEMMA InitHolds == Init => IInv
  BY GraphsAssumption, NoQueryAssumption DEF Init, IInv, TypeOK, SearchInvariant, CacheExact

LEMMA ChangeKeeps ==
    ASSUME IInv, NEW E \in Graphs, ChangeGraph(E)
    PROVE  IInv'
  BY GraphsAssumption, NoQueryAssumption
  DEF ChangeGraph, IInv, TypeOK, SearchInvariant, CacheExact

LEMMA QueryKeeps ==
    ASSUME IInv, NEW n \in Nodes, NEW forceUpdate \in BOOLEAN, Query(n, forceUpdate)
    PROVE  IInv'
  <1> USE DEF Query, IInv, TypeOK, markComputed
  <1>1. TypeOK'
    BY DEF demand
  <1>2. visitedNodes' = {} /\ Queued' = {n} /\ src' = n /\ edges' = edges
    BY DEF Queued, ToSet
  <1>3. n \in Reach(Nodes, edges, n)
    BY ReachStep
  <1>4. SearchInvariant'
    BY <1>2, <1>3 DEF SearchInvariant
  <1>5. current' \ {src'} \subseteq current \ {src}
    BY NoQueryAssumption DEF demand
  <1>6. CacheExact'
    BY <1>5 DEF CacheExact
  <1> QED
    BY <1>1, <1>4, <1>6

LEMMA CachedQueryKeeps ==
    ASSUME IInv, NEW n \in Nodes, NEW forceUpdate \in BOOLEAN, CachedQuery(n, forceUpdate)
    PROVE  IInv'
  <1>1. current' = current
    BY DEF CachedQuery, demand, mustRun
  <1> QED
    BY <1>1 DEF CachedQuery, IInv, TypeOK, SearchInvariant, CacheExact, Queued

LEMMA VisitKeeps ==
    ASSUME IInv, Visit
    PROVE  IInv'
  <1> USE DEF IInv, TypeOK
  <1> DEFINE node == Head(workQueue)
             S    == children(node, visitedNodes')
  <1>1. /\ src # NoQuery /\ src \in Nodes /\ workQueue # <<>> /\ workQueue \in Seq(Nodes)
        /\ visitedNodes' = visitedNodes \cup {node}
        /\ edges' = edges /\ src' = src /\ current' = current /\ computedFor' = computedFor
        /\ reachableNodes' = reachableNodes
    BY DEF Visit
  <1>2. PICK order \in orders(S) : workQueue' = Tail(workQueue) \o order
    BY DEF Visit
  <1>3. S \in SUBSET Nodes
    BY DEF children, getCallees
  <1>4. /\ workQueue' \in Seq(Nodes)
        /\ node \in Queued
        /\ Queued' \subseteq Queued \cup S
        /\ S \subseteq Queued'
        /\ Queued \subseteq Queued' \cup {node}
    <2>1. order \in Seq(Nodes) /\ ToSet(order) = S
      BY <1>2, <1>3, OrderIsSeq, NodesAssumption DEF orders
    <2>2. /\ Tail(workQueue) \o order \in Seq(Nodes)
          /\ node \in ToSet(workQueue)
          /\ ToSet(Tail(workQueue) \o order) \subseteq ToSet(workQueue) \cup S
          /\ S \subseteq ToSet(Tail(workQueue) \o order)
          /\ ToSet(workQueue) \subseteq ToSet(Tail(workQueue) \o order) \cup {node}
      <3> HIDE DEF S
      <3> QED
        BY <1>1, <2>1, QueueStep
    <2> QED
      BY <1>2, <2>2, Zenon DEF Queued
  <1>5. node \in Nodes
    BY <1>1
  <1>6. TypeOK'
    BY <1>1, <1>4, <1>5
  <1>7. node \in Reach(Nodes, edges, src)
    BY <1>1, <1>4 DEF SearchInvariant
  <1>8. S \subseteq Reach(Nodes, edges, src)
    <2>1. \A m \in S : <<node, m>> \in edges
      BY DEF children, getCallees
    <2>2. \A e \in edges : e[1] \in Reach(Nodes, edges, src) => e[2] \in Reach(Nodes, edges, src)
      BY <1>1, ReachStep
    <2> QED
      BY <1>7, <2>1, <2>2
  <1>9. src \in (visitedNodes \cup Queued)'
    BY <1>1, <1>4 DEF SearchInvariant
  <1>10. (visitedNodes \cup Queued)' \subseteq Reach(Nodes, edges, src)
    BY <1>1, <1>4, <1>7, <1>8 DEF SearchInvariant
  <1>11. ASSUME NEW e \in edges, e[1] \in visitedNodes'
         PROVE  e[2] \in (visitedNodes \cup Queued)'
    <2>1. CASE e[1] \in visitedNodes
      BY <1>1, <1>4, <2>1 DEF SearchInvariant
    <2>2. CASE e[1] = node
      <3>1. e = <<node, e[2]>> /\ e[2] \in Nodes
        BY <2>2
      <3>2. e[2] \in visitedNodes' \/ e[2] \in S
        BY <3>1 DEF children, getCallees
      <3> QED
        BY <3>2, <1>4
    <2> QED
      BY <1>1, <1>11, <2>1, <2>2
  <1>12. SearchInvariant'
    BY <1>1, <1>9, <1>10, <1>11 DEF SearchInvariant
  <1>13. CacheExact'
    BY <1>1 DEF CacheExact
  <1> QED
    BY <1>6, <1>12, <1>13

LEMMA FinishKeeps ==
    ASSUME IInv, Finish
    PROVE  IInv'
  <1> USE DEF IInv, TypeOK
  <1>1. /\ src # NoQuery /\ src \in Nodes /\ src' = NoQuery
        /\ reachableNodes' = [reachableNodes EXCEPT ![src] = visitedNodes]
        /\ edges' = edges /\ current' = current
    BY DEF Finish
  <1>2. TypeOK'
    BY DEF Finish
  <1>3. SearchInvariant'
    BY <1>1 DEF SearchInvariant
  <1>4. visitedNodes = Reach(Nodes, edges, src)
    <2>1. Queued = {}
      BY DEF Finish, Queued, ToSet
    <2>2. /\ src \in visitedNodes /\ Closed(edges, visitedNodes)
          /\ visitedNodes \subseteq Reach(Nodes, edges, src)
      BY <1>1, <2>1 DEF SearchInvariant, Closed
    <2> QED
      BY <2>2, ReachLeast
  <1>5. ASSUME NEW n \in current
        PROVE  reachableNodes'[n] = Reach(Nodes, edges, n)
    BY <1>1, <1>4 DEF CacheExact
  <1>6. CacheExact'
    BY <1>1, <1>5 DEF CacheExact
  <1> QED
    BY <1>2, <1>3, <1>6

LEMMA StutterKeeps ==
    ASSUME IInv, UNCHANGED vars
    PROVE  IInv'
  BY DEF vars, IInv, TypeOK, SearchInvariant, CacheExact, Queued

LEMMA StepKeeps == IInv /\ [Next]_vars => IInv'
  BY ChangeKeeps, QueryKeeps, CachedQueryKeeps, VisitKeeps, FinishKeeps, StutterKeeps
  DEF Next, Search

\* The state of a search, between any two iterations of the loop of runForNode.
THEOREM SearchAlwaysSound == Spec => [](TypeOK /\ SearchInvariant)
  <1>1. IInv => TypeOK /\ SearchInvariant
    BY DEF IInv
  <1> QED
    BY InitHolds, StepKeeps, <1>1, PTL DEF Spec

\* For every graph, however it changed between queries: after a query with
\* forceUpdate, or the very first query for a node, and until the graph changes
\* again, the cached result for the node is the set of reachable nodes.
THEOREM ReachabilityExact == Spec => []CacheExact
  <1>1. IInv => CacheExact
    BY DEF IInv
  <1> QED
    BY InitHolds, StepKeeps, <1>1, PTL DEF Spec
=============================================================================
