------------------------ MODULE ReachabilityAnalysis ------------------------
(***************************************************************************)
(* ReachabilityAnalysis: a search from a node, and a cache of its results. *)
(* All queries are the same search: existsPathBetween(src, dest) asks if   *)
(* dest is in the result for src, isReachableFromMain is the query from    *)
(* the node getMain returns, getReachableNodesFrom returns the result.     *)
(*                                                                         *)
(* The analysis keeps addresses of nodes of a graph that it does not own.  *)
(* Between two queries the graph may change in any way; a node that is     *)
(* erased and one that is inserted later may have the same address.        *)
(***************************************************************************)
EXTENDS Naturals, FiniteSets, Sequences, SequencesExt, GraphPaths

CONSTANTS
    Nodes,      \* addresses of nodes
    Graphs,     \* the edges the graph may have
    NoQuery     \* no query is running

ASSUME NodesAssumption == IsFiniteSet(Nodes)
ASSUME NoQueryAssumption == NoQuery \notin Nodes
ASSUME GraphsAssumption == Graphs \subseteq SUBSET (Nodes \X Nodes)

VARIABLES
    edges,           \* the call graph
    reachableNodes,  \* the result for every node; empty before there is one
    computedFor,     \* the nodes with a result
    src,             \* the node of the running query, or NoQuery
    visitedNodes,
    workQueue,
    current          \* history: the nodes whose result has to be that of the
                     \* graph as it is, because since its last change they were
                     \* queried for the first time or with forceUpdate

vars == <<edges, reachableNodes, computedFor, src, visitedNodes, workQueue, current>>

getCallees(n) == {m \in Nodes : <<n, m>> \in edges}

Init ==
    /\ edges \in Graphs
    /\ reachableNodes = [n \in Nodes |-> {}]
    /\ computedFor = {}
    /\ src = NoQuery /\ visitedNodes = {} /\ workQueue = <<>>
    /\ current = {}

\* The owner of the graph changes it.
ChangeGraph(E) ==
    /\ src = NoQuery
    /\ edges' = E /\ current' = {}
    /\ UNCHANGED <<reachableNodes, computedFor, src, visitedNodes, workQueue>>

\* MUTANT: ignores forceUpdate.
mustRun_Cached(n, forceUpdate) == n \notin computedFor

mustRun(n, forceUpdate) == forceUpdate \/ n \notin computedFor

markComputed(n) == computedFor \cup {n}

demand(n, forceUpdate) ==
    IF forceUpdate \/ n \notin computedFor THEN current \cup {n} ELSE current

\* A query that searches; runForNode up to its loop.
Query(n, forceUpdate) ==
    /\ src = NoQuery /\ mustRun(n, forceUpdate)
    /\ computedFor' = markComputed(n)
    /\ src' = n /\ visitedNodes' = {} /\ workQueue' = <<n>>
    /\ current' = demand(n, forceUpdate)
    /\ UNCHANGED <<edges, reachableNodes>>

\* A query that is answered from the cache.
CachedQuery(n, forceUpdate) ==
    /\ src = NoQuery /\ ~ mustRun(n, forceUpdate)
    /\ current' = demand(n, forceUpdate)
    /\ UNCHANGED <<edges, reachableNodes, computedFor, src, visitedNodes, workQueue>>

\* MUTANT: leaves out the callees that have a result of their own.
children_Computed(node, visited) == getCallees(node) \ (visited \cup computedFor)

\* MUTANT: looks for the callee in the queue, not in the visited nodes.
children_Queue(node, visited) == getCallees(node) \ ToSet(Tail(workQueue))

\* The callees that are put into the queue.
children(node, visited) == getCallees(node) \ visited

\* The orders of the elements of S.
orders(S) == {order \in [1 .. Cardinality(S) -> S] : ToSet(order) = S}

\* One iteration of the loop.  getCallees returns an unordered set: any order.
Visit ==
    LET node == Head(workQueue)
    IN  /\ src # NoQuery /\ workQueue # <<>>
        /\ visitedNodes' = visitedNodes \cup {node}
        /\ \E order \in orders(children(node, visitedNodes')) :
              workQueue' = Tail(workQueue) \o order
        /\ UNCHANGED <<edges, reachableNodes, computedFor, src, current>>

\* The result goes to the cache and the query is answered from it.
Finish ==
    /\ src # NoQuery /\ workQueue = <<>>
    /\ reachableNodes' = [reachableNodes EXCEPT ![src] = visitedNodes]
    /\ src' = NoQuery /\ visitedNodes' = {}
    /\ UNCHANGED <<edges, computedFor, workQueue, current>>

Search == Visit \/ Finish

Next ==
    \/ Search
    \/ \E E \in Graphs : ChangeGraph(E)
    \/ \E n \in Nodes, forceUpdate \in BOOLEAN :
          Query(n, forceUpdate) \/ CachedQuery(n, forceUpdate)

\* The search is a loop in one thread.
Spec == Init /\ [][Next]_vars /\ WF_vars(Search)

-----------------------------------------------------------------------------
(* Properties. *)

Queued == ToSet(workQueue)

\* The types of the variables.
TypeOK ==
    /\ edges \subseteq Nodes \X Nodes
    /\ reachableNodes \in [Nodes -> SUBSET Nodes]
    /\ computedFor \subseteq Nodes /\ current \subseteq computedFor
    /\ src \in Nodes \cup {NoQuery}
    /\ visitedNodes \subseteq Nodes
    /\ workQueue \in Seq(Nodes)

\* While a search runs, what was visited or is queued can be reached, and what
\* a visited node calls was visited or is queued.
SearchInvariant ==
    src # NoQuery =>
        /\ src \in visitedNodes \cup Queued
        /\ visitedNodes \cup Queued \subseteq Reach(Nodes, edges, src)
        /\ \A e \in edges : e[1] \in visitedNodes => e[2] \in visitedNodes \cup Queued

\* If since the last change of the graph a node was queried with forceUpdate or
\* for the first time ever, then its result is the set of nodes that can be
\* reached from it, in any graph, with cycles, self-calls and joins, and
\* whatever is cached for other nodes and earlier graphs.
CacheExact ==
    \A n \in current \ {src} : reachableNodes[n] = Reach(Nodes, edges, n)

\* The search ends, although a node is put into the queue once per caller
\* and a node that was visited is searched again.
QueryEnds == src # NoQuery ~> src = NoQuery
=============================================================================
