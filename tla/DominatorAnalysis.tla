------------------------- MODULE DominatorAnalysis --------------------------
(***************************************************************************)
(* computeDominators: the dominators of all nodes for an entry node, by a  *)
(* work list.  One action is one iteration of the loop.                    *)
(*                                                                         *)
(* The graph is given by out[n], what outgoing(n) returns: the callees of  *)
(* n for the direction Forward, its callers for Backward, which computes   *)
(* post-dominators.  Both are unordered sets, built from the same list in  *)
(* every call: an unknown order, but always the same.                      *)
(***************************************************************************)
EXTENDS Naturals, FiniteSets, Sequences, SequencesExt, GraphPaths

CONSTANTS
    Nodes,
    Root,       \* the parameter exitNode
    Graphs      \* the graphs to analyse: functions from nodes to lists of nodes

ASSUME NodesAssumption == IsFiniteSet(Nodes)
ASSUME RootAssumption == Root \in Nodes
ASSUME GraphsAssumption == \A g \in Graphs : g \in [Nodes -> Seq(Nodes)]

VARIABLES
    out,          \* the call graph, in the direction of the analysis
    Doms,         \* DomData::Doms
    initialized,  \* the nodes with DomData::initialized
    workQueue

Queued == ToSet(workQueue)

vars == <<out, Doms, initialized, workQueue>>

-----------------------------------------------------------------------------

outgoing(n) == ToSet(out[n])

\* callerList is the inverse of calleeList (AdjacencyAgrees in CallgraphClient).
incoming(n) == {m \in Nodes : n \in outgoing(m)}

\* MUTANT: takes nodes that have no set yet for nodes without dominators.
initializedCallees_All(n) == incoming(n)

initializedCallees(n) == incoming(n) \cap initialized

\* The nodes that dominate all of S; none for an empty S.
intersection(S) == {d \in Nodes : S # {} /\ \A m \in S : d \in Doms[m]}

DomNew(n) == intersection(initializedCallees(n)) \cup {n}

\* MUTANT: takes every set for a new one.
changes_Always(n) == TRUE

changes(n) == n \notin initialized \/ Doms[n] # DomNew(n)

\* The elements of S in the order of a list.
inOrder(S, list) ==
    {s \in [1 .. Cardinality(S) -> S] :
        /\ ToSet(s) = S
        /\ \A i, j \in DOMAIN s : i < j =>
              \E k, l \in DOMAIN list : k < l /\ list[k] = s[i] /\ list[l] = s[j]}

\* MUTANT: never queues a node again.
addToQueue_Once(n) == outgoing(n) \ (ToSet(Tail(workQueue)) \cup initialized)

\* The nodes addToQueue appends: those that are not in the queue.
addToQueue(n) == outgoing(n) \ ToSet(Tail(workQueue))

Init ==
    /\ out \in Graphs
    /\ Doms = [n \in Nodes |-> {}]
    /\ initialized = {}
    /\ workQueue = <<Root>>

\* An iteration that finds a new set.
Update ==
    LET n == Head(workQueue)
    IN  /\ workQueue # <<>> /\ changes(n)
        /\ Doms' = [Doms EXCEPT ![n] = DomNew(n)]
        /\ initialized' = initialized \cup {n}
        /\ \E outs \in inOrder(addToQueue(n), out[n]) : workQueue' = Tail(workQueue) \o outs
        /\ UNCHANGED out

\* An iteration that does not.
Skip ==
    /\ workQueue # <<>> /\ ~ changes(Head(workQueue))
    /\ workQueue' = Tail(workQueue)
    /\ UNCHANGED <<out, Doms, initialized>>

Return == workQueue = <<>> /\ UNCHANGED vars

Next == Update \/ Skip \/ Return

\* A loop in one thread.
Spec == Init /\ [][Next]_vars /\ WF_vars(Next)

-----------------------------------------------------------------------------
(* Properties. *)

Types ==
    /\ out \in [Nodes -> Seq(Nodes)]
    /\ Doms \in [Nodes -> SUBSET Nodes]
    /\ initialized \subseteq Nodes
    /\ workQueue \in Seq(Nodes)

Done == workQueue = <<>>

Flow == {e \in Nodes \X Nodes : e[2] \in outgoing(e[1])}

\* No cycle goes through the entry node.
RootNotCalled ==
    \A e \in Flow : e[2] = Root /\ e[1] \in Reach(Nodes, Flow, Root) => e[1] = Root

\* At any time the set of a node holds all its dominators: starting with some
\* callers only, and dropping what later callers do not have, never drops a
\* dominator.  Holds for all graphs.
NoDominatorMissed ==
    \A n \in initialized : Dominators(Nodes, Flow, Root, n) \subseteq Doms[n]

\* At the end the analysis has reached exactly the nodes that can be reached,
\* and if no cycle goes through the entry node then the set of each is the set
\* of its dominators, in whatever order the callees came.
DominatorsExact ==
    Done => /\ initialized = Reach(Nodes, Flow, Root)
            /\ RootNotCalled => \A n \in initialized :
                                   Doms[n] = Dominators(Nodes, Flow, Root, n)

\* The loop ends if no cycle goes through the entry node: the sets only shrink.
AnalysisEnds == RootNotCalled => <>Done

\* CGQuery.cpp:26, "Query dominators of a node for a given entry node": such a
\* query is answered, in all graphs.
AnalysisEndsDoc == <>Done
=============================================================================
