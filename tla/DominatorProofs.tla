--------------------------- MODULE DominatorProofs ---------------------------
(***************************************************************************)
(* computeDominators misses no dominator in any graph, and is exact in     *)
(* every graph that has no cycle through the entry node.                   *)
(***************************************************************************)
EXTENDS DominatorAnalysis, FiniteSetTheorems, SequenceTheorems, TLAPS

-----------------------------------------------------------------------------
(* Facts about Reach and Dominators, and about one iteration of a loop over a *)
(* queue.                                                                    *)

\* Start and successors of a reachable node are reachable.
LEMMA ReachStep ==
    ASSUME NEW N, NEW E \in SUBSET (N \X N), NEW n \in N
    PROVE  /\ n \in Reach(N, E, n)
           /\ \A e \in E : e[1] \in Reach(N, E, n) => e[2] \in Reach(N, E, n)
  BY DEF Reach, Closed

\* A closed set of reachable nodes that holds the start is all of them.
LEMMA ReachLeast ==
    ASSUME NEW N, NEW E, NEW n, NEW S \in SUBSET N,
           n \in S, Closed(E, S), S \subseteq Reach(N, E, n)
    PROVE  S = Reach(N, E, n)
  BY DEF Reach

\* Whoever dominates a node is the node or dominates each of its callers.
LEMMA DominatorsStep ==
    ASSUME NEW N, NEW E \in SUBSET (N \X N), NEW root \in N, NEW m \in N, NEW n \in N,
           <<m, n>> \in E
    PROVE  Dominators(N, E, root, n) \subseteq Dominators(N, E, root, m) \cup {n}
  <1> SUFFICES ASSUME NEW d \in Dominators(N, E, root, n), d # n,
                      d \notin Dominators(N, E, root, m)
               PROVE  FALSE
    OBVIOUS
  <1>1. d \in N /\ d # root /\ d # m /\ m \in Reach(N, Without(E, d), root)
    BY DEF Dominators
  <1>2. <<m, n>> \in Without(E, d) /\ Without(E, d) \in SUBSET (N \X N)
    BY <1>1 DEF Without
  <1>3. n \in Reach(N, Without(E, d), root)
    BY <1>1, <1>2, ReachStep
  <1> QED
    BY <1>1, <1>3 DEF Dominators

\* Only the entry node dominates the entry node.
LEMMA DominatorsRoot ==
    ASSUME NEW N, NEW E \in SUBSET (N \X N), NEW root \in N
    PROVE  Dominators(N, E, root, root) = {root}
  <1>1. \A d \in N : root \in Reach(N, Without(E, d), root)
    BY DEF Reach
  <1> QED
    BY <1>1 DEF Dominators

\* The set S in some order is a sequence.
LEMMA OrderIsSeq ==
    ASSUME NEW N, IsFiniteSet(N), NEW S \in SUBSET N,
           NEW order \in [1 .. Cardinality(S) -> S]
    PROVE  order \in Seq(N)
  <1>1. Cardinality(S) \in Nat
    BY FS_Subset, FS_CardinalityType
  <1> QED
    BY <1>1

\* The elements of a sequence, by position.
LEMMA ToSetSeq ==
    ASSUME NEW N, NEW s \in Seq(N)
    PROVE  ToSet(s) = {s[i] : i \in 1 .. Len(s)}
  BY DEF ToSet

\* What a queue holds: its head and its tail.
LEMMA ToSetTail ==
    ASSUME NEW N, NEW q \in Seq(N), q # <<>>
    PROVE  Tail(q) \in Seq(N) /\ ToSet(q) = {Head(q)} \cup ToSet(Tail(q))
  <1> DEFINE t == Tail(q)
  <1>1. /\ t \in Seq(N) /\ Head(q) = q[1] /\ Len(t) = Len(q) - 1
        /\ Len(q) \in Nat \ {0} /\ \A i \in 1 .. Len(q) - 1 : t[i] = q[i + 1]
    OBVIOUS
  <1> HIDE DEF t
  <1>2. \A i \in 1 .. Len(q) : i = 1 \/ (i - 1 \in 1 .. Len(t) /\ t[i - 1] = q[i])
    BY <1>1
  <1>3. 1 \in 1 .. Len(q) /\ \A i \in 1 .. Len(t) : i + 1 \in 1 .. Len(q) /\ t[i] = q[i + 1]
    BY <1>1
  <1>4. ToSet(q) = {q[i] : i \in 1 .. Len(q)} /\ ToSet(t) = {t[i] : i \in 1 .. Len(t)}
    BY <1>1, ToSetSeq
  <1>5. ToSet(q) = {Head(q)} \cup ToSet(t)
    BY <1>1, <1>2, <1>3, <1>4
  <1> QED
    BY <1>1, <1>5 DEF t

\* What the concatenation of two sequences holds.
LEMMA ToSetConcat ==
    ASSUME NEW N, NEW s \in Seq(N), NEW t \in Seq(N)
    PROVE  s \o t \in Seq(N) /\ ToSet(s \o t) = ToSet(s) \cup ToSet(t)
  <1>1. s \o t \in Seq(N)
    OBVIOUS
  <1>2. \A f : ToSet(f) = Range(f)
    BY Zenon DEF ToSet, Range
  <1>3. Range(s \o t) = Range(s) \cup Range(t)
    BY RangeConcatenation
  <1> QED
    BY <1>1, <1>2, <1>3, Zenon

\* What the queue of an iteration holds: its tail and the children.
LEMMA QueueStep ==
    ASSUME NEW N, NEW q \in Seq(N), q # <<>>, NEW order \in Seq(N)
    PROVE  /\ Tail(q) \o order \in Seq(N)
           /\ ToSet(q) = {Head(q)} \cup ToSet(Tail(q))
           /\ ToSet(Tail(q) \o order) = ToSet(Tail(q)) \cup ToSet(order)
  <1> DEFINE t == Tail(q)
  <1>1. t \in Seq(N) /\ ToSet(q) = {Head(q)} \cup ToSet(t)
    BY ToSetTail
  <1> HIDE DEF t
  <1>2. t \o order \in Seq(N) /\ ToSet(t \o order) = ToSet(t) \cup ToSet(order)
    BY <1>1, ToSetConcat
  <1> QED
    BY <1>1, <1>2 DEF t

-----------------------------------------------------------------------------
(* The inductive invariant. *)

R == Reach(Nodes, Flow, Root)

\* What was reached can be reached; what a node with a set calls was reached.
Reached ==
    /\ Root \in initialized \cup Queued
    /\ initialized \cup Queued \subseteq R
    /\ \A n \in initialized : outgoing(n) \subseteq initialized \cup Queued

\* A node is in the queue because of a caller that has a set.
HasCaller == \A n \in Queued \ {Root} : initializedCallees(n) # {}

\* A set that is out of date is in the queue.
Stable == \A n \in initialized \ Queued : Doms[n] = DomNew(n)

\* Without a cycle through it, the entry node keeps its first set.
RootAlone == RootNotCalled /\ Root \in initialized => Doms[Root] = {Root}

IInv == Types /\ Reached /\ HasCaller /\ Stable /\ RootAlone /\ NoDominatorMissed

-----------------------------------------------------------------------------

LEMMA FlowFacts ==
    ASSUME Types
    PROVE  /\ Flow \in SUBSET (Nodes \X Nodes)
           /\ \A n \in Nodes : outgoing(n) \subseteq Nodes /\ incoming(n) \subseteq Nodes
           /\ \A n, m \in Nodes : m \in outgoing(n) <=> <<n, m>> \in Flow
           /\ \A n, m \in Nodes : m \in outgoing(n) <=> n \in incoming(m)
  <1>1. \A n \in Nodes : outgoing(n) \subseteq Nodes
    <2>1. \A n \in Nodes : out[n] \in Seq(Nodes)
      BY DEF Types
    <2> QED
      BY <2>1, ToSetSeq DEF outgoing
  <1>2. \A n, m \in Nodes : m \in outgoing(n) <=> <<n, m>> \in Flow
    BY DEF Flow
  <1> QED
    BY <1>1, <1>2 DEF Flow, incoming

\* The flow, and what is defined from it, does not change.
LEMMA FlowFixed ==
    ASSUME out' = out
    PROVE  /\ Flow' = Flow /\ R' = R /\ (RootNotCalled' <=> RootNotCalled)
           /\ \A n : outgoing(n)' = outgoing(n) /\ incoming(n)' = incoming(n)
  <1>1. \A n : outgoing(n)' = outgoing(n)
    BY DEF outgoing
  <1>2. Flow' = Flow
    BY <1>1 DEF Flow
  <1> QED
    BY <1>1, <1>2 DEF R, RootNotCalled, incoming

LEMMA InitHolds == Init => IInv
  <1> SUFFICES ASSUME Init PROVE IInv
    OBVIOUS
  <1>1. Types
    BY GraphsAssumption, RootAssumption DEF Init, Types
  <1>2. Queued = {Root} /\ initialized = {}
    BY DEF Init, Queued, ToSet
  <1>3. Root \in R
    BY <1>1, FlowFacts, RootAssumption, ReachStep DEF R
  <1> QED
    BY <1>1, <1>2, <1>3 DEF IInv, Reached, HasCaller, Stable, RootAlone, NoDominatorMissed

\* The queue before and after an update.
LEMMA UpdateQueue ==
    ASSUME Types, Update
    PROVE  LET n == Head(workQueue)
           IN  /\ n \in Nodes /\ n \in Queued /\ workQueue' \in Seq(Nodes)
               /\ Queued' \subseteq Queued \cup outgoing(n)
               /\ outgoing(n) \subseteq Queued'
               /\ Queued \subseteq Queued' \cup {n}
  <1> DEFINE n == Head(workQueue)
             S == addToQueue(n)
  <1>1. workQueue \in Seq(Nodes) /\ workQueue # <<>> /\ n \in Nodes
    BY DEF Types, Update
  <1>2. PICK outs \in inOrder(S, out[n]) : workQueue' = Tail(workQueue) \o outs
    BY DEF Update
  <1>3. S \in SUBSET Nodes
    BY <1>1, FlowFacts DEF addToQueue
  <1>4. outs \in Seq(Nodes) /\ ToSet(outs) = S
    <2>1. outs \in [1 .. Cardinality(S) -> S] /\ ToSet(outs) = S
      BY <1>2 DEF inOrder
    <2> HIDE DEF S
    <2> QED
      BY <1>3, <2>1, OrderIsSeq, NodesAssumption
  <1> DEFINE tail == Tail(workQueue)
             q2   == tail \o outs
  <1>5. /\ q2 \in Seq(Nodes) /\ n \in ToSet(workQueue)
        /\ ToSet(q2) \subseteq ToSet(workQueue) \cup S
        /\ S \subseteq ToSet(q2)
        /\ ToSet(workQueue) \subseteq ToSet(q2) \cup {n}
        /\ ToSet(tail) \subseteq ToSet(q2)
    <2> HIDE DEF S
    <2> QED
      BY <1>1, <1>4, QueueStep
  <1>6. Queued = ToSet(workQueue) /\ Queued' = ToSet(q2)
    BY <1>2 DEF Queued
  <1>7. S \subseteq outgoing(n) /\ outgoing(n) \subseteq S \cup ToSet(tail)
    BY DEF addToQueue
  <1> HIDE DEF S, tail
  <1>8. workQueue' \in Seq(Nodes)
    BY <1>2, <1>5 DEF tail
  <1> HIDE DEF q2
  <1> QED
    BY <1>1, <1>5, <1>6, <1>7, <1>8

\* What an update leaves as it is, and what it changes.
LEMMA UpdateKeeps ==
    ASSUME IInv, Update
    PROVE  IInv'
  <1> DEFINE n == Head(workQueue)
  <1>1. /\ n \in Nodes /\ n \in Queued /\ workQueue' \in Seq(Nodes)
        /\ Queued' \subseteq Queued \cup outgoing(n)
        /\ outgoing(n) \subseteq Queued'
        /\ Queued \subseteq Queued' \cup {n}
    BY UpdateQueue DEF IInv
  <1>2. /\ Doms' = [Doms EXCEPT ![n] = DomNew(n)]
        /\ initialized' = initialized \cup {n}
        /\ out' = out
    BY DEF Update
  <1>3. Types
    BY DEF IInv
  <1>4. /\ Doms'[n] = DomNew(n)
        /\ \A m \in Nodes : m # n => Doms'[m] = Doms[m]
        /\ DomNew(n) \subseteq Nodes
    BY <1>1, <1>2, <1>3 DEF Types, DomNew, intersection
  <1> HIDE DEF n
  <1>5. Types'
    BY <1>1, <1>2, <1>3, <1>4 DEF Types
  <1>6. /\ Flow' = Flow /\ R' = R /\ (RootNotCalled' <=> RootNotCalled)
        /\ \A m : outgoing(m)' = outgoing(m) /\ incoming(m)' = incoming(m)
    BY <1>2, FlowFixed
  <1>7. n \in R
    BY <1>1 DEF IInv, Reached
  <1>8. outgoing(n) \subseteq R
    <2>1. \A m \in outgoing(n) : <<n, m>> \in Flow
      BY <1>1, <1>3, FlowFacts
    <2>2. \A e \in Flow : e[1] \in R => e[2] \in R
      BY <1>3, FlowFacts, RootAssumption, ReachStep DEF R
    <2> QED
      BY <1>7, <2>1, <2>2
  <1>9. Reached'
    BY <1>1, <1>2, <1>6, <1>7, <1>8 DEF IInv, Reached
  <1>10. HasCaller'
    <2> SUFFICES ASSUME NEW m \in Queued', m # Root
                 PROVE  initializedCallees(m)' # {}
      BY DEF HasCaller
    <2>1. CASE m \in Queued
      BY <1>2, <1>6, <2>1 DEF IInv, HasCaller, initializedCallees
    <2>2. CASE m \in outgoing(n)
      BY <1>1, <1>2, <1>3, <1>6, <2>2, FlowFacts DEF initializedCallees
    <2> QED
      BY <1>1, <2>1, <2>2
  <1>11. ASSUME NEW m \in Nodes, m \notin outgoing(n)
         PROVE  DomNew(m)' = DomNew(m)
    <2>1. n \notin incoming(m)
      BY <1>1, <1>3, <1>11, FlowFacts
    <2>2. initializedCallees(m)' = initializedCallees(m)
      BY <1>2, <1>6, <2>1 DEF initializedCallees
    <2>3. \A k \in initializedCallees(m) : k \in Nodes /\ Doms'[k] = Doms[k]
      BY <1>4, <2>1 DEF initializedCallees, incoming
    <2> QED
      BY <2>2, <2>3 DEF DomNew, intersection
  <1>12. Stable'
    <2> SUFFICES ASSUME NEW m \in initialized', m \notin Queued'
                 PROVE  Doms'[m] = DomNew(m)'
      BY DEF Stable
    <2>1. m \in Nodes /\ DomNew(m)' = DomNew(m)
      BY <1>1, <1>5, <1>11 DEF Types
    <2>2. CASE m = n
      BY <1>4, <2>1, <2>2
    <2>3. CASE m # n
      BY <1>1, <1>2, <1>4, <2>1, <2>3 DEF IInv, Stable
    <2> QED
      BY <2>2, <2>3
  <1>13. RootAlone'
    <2> SUFFICES ASSUME RootNotCalled, Root \in initialized'
                 PROVE  Doms'[Root] = {Root}
      BY <1>6 DEF RootAlone
    <2>1. CASE n # Root
      BY <1>2, <1>4, <2>1, RootAssumption DEF IInv, RootAlone
    <2>2. CASE n = Root
      <3>1. \A m \in initializedCallees(Root) : m = Root
        <4> SUFFICES ASSUME NEW m \in initializedCallees(Root) PROVE m = Root
          OBVIOUS
        <4>1. m \in Nodes /\ m \in R /\ Root \in outgoing(m)
          BY DEF initializedCallees, incoming, IInv, Reached
        <4>2. <<m, Root>> \in Flow
          BY <1>3, <4>1, RootAssumption, FlowFacts
        <4> QED
          BY <4>1, <4>2 DEF RootNotCalled, R
      <3>2. Root \in initializedCallees(Root) => Doms[Root] = {Root}
        BY DEF initializedCallees, IInv, RootAlone
      <3>3. DomNew(Root) = {Root}
        BY <3>1, <3>2, RootAssumption DEF DomNew, intersection
      <3> QED
        BY <1>4, <2>2, <3>3
    <2> QED
      BY <2>1, <2>2
  <1>14. Dominators(Nodes, Flow, Root, n) \subseteq DomNew(n)
    <2>1. CASE n = Root
      <3>1. Dominators(Nodes, Flow, Root, Root) = {Root}
        BY <1>3, FlowFacts, RootAssumption, DominatorsRoot
      <3> QED
        BY <2>1, <3>1 DEF DomNew
    <2>2. CASE n # Root
      <3>1. initializedCallees(n) # {}
        BY <1>1, <2>2 DEF IInv, HasCaller
      <3>2. ASSUME NEW m \in initializedCallees(n)
            PROVE  Dominators(Nodes, Flow, Root, n) \subseteq Doms[m] \cup {n}
        <4>1. m \in Nodes /\ m \in initialized /\ <<m, n>> \in Flow
          BY <1>1, <1>3, FlowFacts DEF initializedCallees, incoming
        <4>2. Dominators(Nodes, Flow, Root, n) \subseteq Dominators(Nodes, Flow, Root, m) \cup {n}
          BY <1>1, <1>3, <4>1, FlowFacts, RootAssumption, DominatorsStep
        <4> QED
          BY <4>1, <4>2 DEF IInv, NoDominatorMissed
      <3>3. Dominators(Nodes, Flow, Root, n) \subseteq Nodes
        BY DEF Dominators
      <3> QED
        BY <3>1, <3>2, <3>3 DEF DomNew, intersection
    <2> QED
      BY <2>1, <2>2
  <1>15. NoDominatorMissed'
    BY <1>2, <1>3, <1>4, <1>6, <1>14 DEF IInv, Types, NoDominatorMissed
  <1> QED
    BY <1>5, <1>9, <1>10, <1>12, <1>13, <1>15 DEF IInv

\* An iteration that changes no set takes its node out of the queue.
LEMMA SkipKeeps ==
    ASSUME IInv, Skip
    PROVE  IInv'
  <1> DEFINE n == Head(workQueue)
  <1>1. /\ workQueue \in Seq(Nodes) /\ workQueue # <<>> /\ workQueue' = Tail(workQueue)
        /\ out' = out /\ Doms' = Doms /\ initialized' = initialized
    BY DEF IInv, Types, Skip
  <1>2. n \in initialized /\ Doms[n] = DomNew(n)
    BY DEF Skip, changes
  <1>3. /\ workQueue' \in Seq(Nodes)
        /\ Queued' \subseteq Queued /\ Queued \subseteq Queued' \cup {n}
    <2>1. /\ Tail(workQueue) \in Seq(Nodes)
          /\ ToSet(workQueue) = {n} \cup ToSet(Tail(workQueue))
      BY <1>1, ToSetTail
    <2> QED
      BY <1>1, <2>1, Zenon DEF Queued
  <1> HIDE DEF n
  <1>4. /\ Flow' = Flow /\ R' = R /\ (RootNotCalled' <=> RootNotCalled)
        /\ \A m : outgoing(m)' = outgoing(m) /\ incoming(m)' = incoming(m)
    BY <1>1, FlowFixed
  <1>5. /\ \A m : initializedCallees(m)' = initializedCallees(m)
        /\ \A m : DomNew(m)' = DomNew(m)
    BY <1>1, <1>4 DEF initializedCallees, DomNew, intersection
  <1>6. Types'
    BY <1>1, <1>3 DEF IInv, Types
  <1>7. Reached'
    BY <1>1, <1>2, <1>3, <1>4 DEF IInv, Reached
  <1>8. HasCaller'
    BY <1>3, <1>5 DEF IInv, HasCaller
  <1>9. Stable'
    BY <1>1, <1>2, <1>3, <1>5 DEF IInv, Stable
  <1>10. RootAlone' /\ NoDominatorMissed'
    BY <1>1, <1>4 DEF IInv, RootAlone, NoDominatorMissed
  <1> QED
    BY <1>6, <1>7, <1>8, <1>9, <1>10 DEF IInv

LEMMA StutterKeeps ==
    ASSUME IInv, UNCHANGED vars
    PROVE  IInv'
  <1>1. /\ out' = out /\ Doms' = Doms /\ initialized' = initialized /\ workQueue' = workQueue
    BY DEF vars
  <1>2. /\ Flow' = Flow /\ R' = R /\ (RootNotCalled' <=> RootNotCalled)
        /\ \A m : outgoing(m)' = outgoing(m) /\ incoming(m)' = incoming(m)
    BY <1>1, FlowFixed
  <1>3. /\ \A m : initializedCallees(m)' = initializedCallees(m)
        /\ \A m : DomNew(m)' = DomNew(m)
        /\ Queued' = Queued
    BY <1>1, <1>2 DEF initializedCallees, DomNew, intersection, Queued
  <1> QED
    BY <1>1, <1>2, <1>3
    DEF IInv, Types, Reached, HasCaller, Stable, RootAlone, NoDominatorMissed

LEMMA StepKeeps == IInv /\ [Next]_vars => IInv'
  BY UpdateKeeps, SkipKeeps, StutterKeeps DEF Next, Return

-----------------------------------------------------------------------------

\* At the end the invariant says what the result is.
LEMMA IInvExact == IInv => DominatorsExact
  <1> SUFFICES ASSUME IInv, Done PROVE DominatorsExact
    BY DEF DominatorsExact
  <1>1. Queued = {} /\ Types
    BY DEF Done, Queued, ToSet, IInv
  <1>2. /\ Root \in initialized /\ initialized \in SUBSET Nodes /\ initialized \subseteq R
        /\ Closed(Flow, initialized)
    BY <1>1, FlowFacts DEF IInv, Types, Reached, Closed
  <1>3. initialized = R
    BY <1>2, ReachLeast DEF R
  <1>4. ASSUME RootNotCalled, NEW n \in initialized, NEW d \in Doms[n]
        PROVE  d \in Dominators(Nodes, Flow, Root, n)
    <2>1. d \in Nodes /\ n \in Nodes
      BY <1>1, <1>2 DEF Types
    <2> SUFFICES ASSUME d # Root, d # n, n \in Reach(Nodes, Without(Flow, d), Root)
                 PROVE  FALSE
      BY <2>1 DEF Dominators
    <2> DEFINE T == {m \in initialized : d \notin Doms[m]}
    <2>2. Root \in T
      BY <1>2, <1>4 DEF IInv, RootAlone
    <2>3. Closed(Without(Flow, d), T)
      <3> SUFFICES ASSUME NEW e \in Without(Flow, d), e[1] \in T
                   PROVE  e[2] \in T
        BY DEF Closed
      <3>1. /\ e \in Flow /\ e[1] \in Nodes /\ e[2] \in Nodes /\ e = <<e[1], e[2]>>
            /\ d # e[2]
        BY <1>1, FlowFacts DEF Without
      <3>2. e[2] \in initialized
        BY <1>2, <3>1 DEF Closed
      <3>3. e[1] \in initializedCallees(e[2])
        BY <1>1, <3>1, FlowFacts DEF initializedCallees
      <3>4. Doms[e[2]] = DomNew(e[2])
        BY <1>1, <3>2 DEF IInv, Stable
      <3> QED
        BY <3>1, <3>2, <3>3, <3>4 DEF DomNew, intersection
    <2>4. T \in SUBSET Nodes
      BY <1>2
    <2>5. n \in T
      <3> HIDE DEF T
      <3> QED
        BY <2>2, <2>3, <2>4 DEF Reach
    <2> QED
      BY <1>4, <2>5
  <1> QED
    BY <1>3, <1>4 DEF DominatorsExact, R, IInv, NoDominatorMissed

\* For every graph and every order of the callees: no iteration of the work list
\* drops a dominator.
THEOREM DominatorsNeverMissed == Spec => []NoDominatorMissed
  <1>1. IInv => NoDominatorMissed
    BY DEF IInv
  <1> QED
    BY InitHolds, StepKeeps, <1>1, PTL DEF Spec

\* For every graph: when the loop ends, the nodes with a set are those that can
\* be reached, and without a cycle through the entry node the sets are exactly
\* the dominators.
THEOREM DominatorsAlwaysExact == Spec => []DominatorsExact
  BY InitHolds, StepKeeps, IInvExact, PTL DEF Spec
=============================================================================
