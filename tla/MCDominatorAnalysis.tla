------------------------ MODULE MCDominatorAnalysis -------------------------
(* A small instance of DominatorAnalysis for TLC. *)
EXTENDS DominatorAnalysis, TLC

CONSTANTS n1, n2, n3, n4, n5

\* All lists without repetition of elements of S.
Lists(S) == UNION {SetToSeqs(T) : T \in SUBSET S}

\* What the entry node calls, up to renaming the other nodes.
RootLists == {<<>>, <<n1>>, <<n1, n2>>, <<n1, n2, n3>>}

\* The graphs in which n1, n2 and n3 call lists of the given sets, and n4 and n5
\* stay alone.
Small(L1, L2, L3) ==
    {Root :> l0 @@ n1 :> l1 @@ n2 :> l2 @@ n3 :> l3 @@ n4 :> <<>> @@ n5 :> <<>> :
        l0 \in RootLists, l1 \in L1, l2 \in L2, l3 \in L3}

\* Four nodes without self-calls: at most one node but the entry node calls two,
\* the others at most one.
Several(n) == {l \in Lists({Root, n1, n2, n3} \ {n}) : Len(l) <= 2}
One(n) == {l \in Several(n) : Len(l) <= 1}
MCSparse ==
    Small(Several(n1), One(n2), One(n3)) \cup Small(One(n1), Several(n2), One(n3))
        \cup Small(One(n1), One(n2), Several(n3))

\* Four nodes with self-calls: every node but the entry node calls at most one.
SelfOrOne == {<<>>} \cup {<<n>> : n \in {Root, n1, n2, n3}}
MCSelfCalls == Small(SelfOrOne, SelfOrOne, SelfOrOne)

\* Six nodes: the entry node calls n1 and n2, n1 calls n3, the others call at most
\* one node each.  Here two ways of different length meet, so that the node where
\* they meet, and the nodes behind it, are visited too early and again.
OneOther(n) == {<<>>} \cup {<<m>> : m \in Nodes \ {Root, n}}
MCLateJoins ==
    {Root :> <<n1, n2>> @@ n1 :> <<n3>> @@ n2 :> l2 @@ n3 :> l3 @@ n4 :> l4 @@ n5 :> l5 :
        l2 \in OneOther(n2), l3 \in OneOther(n3), l4 \in OneOther(n4), l5 \in OneOther(n5)}

MCGraphs == MCSparse \cup MCSelfCalls \cup MCLateJoins
=============================================================================
