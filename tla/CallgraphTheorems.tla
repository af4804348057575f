-------------------------- MODULE CallgraphTheorems --------------------------
(***************************************************************************)
(* What the operations of class Callgraph do to a well-formed graph: every *)
(* one of them gives a well-formed graph, and the lemmas say which of its  *)
(* members it changes.  They hold for any graph, so the client of one      *)
(* graph (CallgraphProofs) and merge, which has two                        *)
(* (CallgraphMergeProofs), both rest on them.                              *)
(***************************************************************************)
EXTENDS Callgraph, SequenceTheorems, TLAPS

-----------------------------------------------------------------------------
(* Two facts about the graphs an operation starts from and ends in. *)

\* An operation on edges leaves these members alone.
SameNodes(g, h) ==
    /\ h.size = g.size
    /\ h.nodes = g.nodes
    /\ h.nameIdMap = g.nameIdMap
    /\ h.mainNode = g.mainNode

\* What WellFormed says about nodes carries over to a graph with the same nodes.
LEMMA SameNodesPreserved ==
  ASSUME NEW g, NEW h, WellFormed(g), SameNodes(g, h)
  PROVE  UnusedSlots(h) /\ NameIndex(h) /\ LiveMain(h)
         /\ (\A id : hasNode(h, id) <=> hasNode(g, id))
<1>1. \A id : hasNode(h, id) <=> hasNode(g, id)
  BY DEF SameNodes, hasNode
<1>2. LiveIds(h) = LiveIds(g)
  BY <1>1 DEF LiveIds
<1>3. UnusedSlots(h)
  BY DEF SameNodes, WellFormed, UnusedSlots
<1>4. NameIndex(h)
  BY <1>2 DEF SameNodes, WellFormed, NameIndex
<1>5. LiveMain(h)
  BY <1>1 DEF SameNodes, WellFormed, LiveMain
<1> QED BY <1>1, <1>3, <1>4, <1>5

\* So does what it says about edges to a graph with the same edges.
LEMMA SameAdjacency ==
  ASSUME NEW g, NEW h, h.edges = g.edges, h.calleeList = g.calleeList,
         h.callerList = g.callerList, Adjacency(g)
  PROVE  Adjacency(h)
<1> SUFFICES ASSUME NEW p \in Ids, NEW c \in Ids
             PROVE  /\ h.calleeList[p][c] = IF <<p, c>> \in DOMAIN h.edges THEN 1 ELSE 0
                    /\ h.callerList[c][p] = IF <<p, c>> \in DOMAIN h.edges THEN 1 ELSE 0
  BY DEF Adjacency
<1>1. /\ g.calleeList[p][c] = IF <<p, c>> \in DOMAIN g.edges THEN 1 ELSE 0
      /\ g.callerList[c][p] = IF <<p, c>> \in DOMAIN g.edges THEN 1 ELSE 0
  BY DEF Adjacency
<1> QED BY <1>1

\* Live ids are ids below the size whose slot holds a node.
LEMMA LiveIdsFact ==
  ASSUME NEW g, GraphType(g), NEW id \in Nat, hasNode(g, id)
  PROVE  id \in Ids /\ id < g.size /\ g.nodes[id] \in Node /\ id \in LiveIds(g)
<1>1. id < g.size /\ id \in Ids
  BY MaxSizeAssumption DEF hasNode, GraphType, Ids
<1>2. g.nodes[id] \in Node
  BY <1>1 DEF hasNode, GraphType
<1> QED BY <1>1, <1>2 DEF LiveIds

\* Changing one count of a caller or callee list.
LEMMA EntryUpdate ==
  ASSUME NEW M \in [Ids -> [Ids -> Nat]], NEW i \in Ids, NEW j \in Ids, NEW n \in Nat
  PROVE  /\ [M EXCEPT ![i][j] = n] \in [Ids -> [Ids -> Nat]]
         /\ \A a, b \in Ids :
               [M EXCEPT ![i][j] = n][a][b] = IF a = i /\ b = j THEN n ELSE M[a][b]
<1>1. [M EXCEPT ![i][j] = n] = [M EXCEPT ![i] = [M[i] EXCEPT ![j] = n]]
  OBVIOUS
<1>2. [M[i] EXCEPT ![j] = n] \in [Ids -> Nat]
  OBVIOUS
<1> QED BY <1>1, <1>2

\* getNode yields the id of a live node, null or an exception.
LEMMA GetNodeFact ==
  ASSUME NEW g, GraphType(g), NEW id \in Nat, getNode(g, id) \in Ids
  PROVE  getNode(g, id) = id /\ hasNode(g, id)
<1>1. getNode(g, id) # Null /\ getNode(g, id) # OutOfRange
  BY NullAssumption, OutOfRangeAssumption DEF Ids
<1>2. id < g.size /\ g.nodes[id] # Null
  BY <1>1, MaxSizeAssumption DEF getNode, GraphType
<1> QED BY <1>2, MaxSizeAssumption DEF getNode, hasNode, GraphType

-----------------------------------------------------------------------------
(* Graph creation. *)

\* A new graph is well formed.
LEMMA EmptyGraphWellFormed == WellFormed(EmptyGraph)
<1>1. GraphType(EmptyGraph)
  BY MaxSizeAssumption DEF EmptyGraph, GraphType, NoEntries, Ids
<1>2. Adjacency(EmptyGraph)
  BY MaxSizeAssumption DEF EmptyGraph, Adjacency, NoEntries, Ids
<1>3. LiveEdges(EmptyGraph)
  BY DEF EmptyGraph, LiveEdges
<1>4. UnusedSlots(EmptyGraph) /\ LiveMain(EmptyGraph)
  BY DEF EmptyGraph, UnusedSlots, LiveMain
<1>5. LiveIds(EmptyGraph) = {}
  BY MaxSizeAssumption DEF EmptyGraph, LiveIds, hasNode, Ids
<1>6. NameIndex(EmptyGraph)
  <2> SUFFICES ASSUME NEW f \in Names
               PROVE  /\ ToSet(EmptyGraph.nameIdMap[f]) = {}
                      /\ DOMAIN EmptyGraph.nameIdMap[f] = {}
    BY <1>5 DEF NameIndex
  <2>1. EmptyGraph.nameIdMap[f] = <<>>
    BY DEF EmptyGraph
  <2> QED BY <2>1 DEF ToSet
<1> QED BY <1>1, <1>2, <1>3, <1>4, <1>6 DEF WellFormed

\* So is a graph that was cleared, whatever its entry function metadata.
LEMMA ClearWellFormed ==
  ASSUME NEW g, WellFormed(g)
  PROVE  WellFormed(clear(g))
<1> DEFINE h == clear(g)
<1>0. h = [EmptyGraph EXCEPT !.entry = g.entry]
  BY DEF clear
<1>1. SameNodes(EmptyGraph, h) /\ h.edges = EmptyGraph.edges
      /\ h.calleeList = EmptyGraph.calleeList /\ h.callerList = EmptyGraph.callerList
  BY <1>0 DEF SameNodes, EmptyGraph
<1>2. GraphType(h)
  <2>1. g.entry \in Ids \cup {Null, NoId}
    BY DEF WellFormed, GraphType
  <2> QED BY <1>0, <2>1, EmptyGraphWellFormed DEF WellFormed, GraphType, EmptyGraph
<1> HIDE DEF h
<1>3. UnusedSlots(h) /\ NameIndex(h) /\ LiveMain(h)
      /\ (\A id : hasNode(h, id) <=> hasNode(EmptyGraph, id))
  BY <1>1, EmptyGraphWellFormed, SameNodesPreserved
<1>4. Adjacency(h)
  <2>1. /\ DOMAIN h.edges = {}
        /\ h.calleeList = [i \in Ids |-> NoEntries]
        /\ h.callerList = [i \in Ids |-> NoEntries]
    BY <1>1 DEF EmptyGraph
  <2> QED BY <2>1 DEF Adjacency, NoEntries
<1>5. LiveEdges(h)
  BY <1>1, <1>3, EmptyGraphWellFormed DEF WellFormed, LiveEdges
<1>6. WellFormed(h)
  BY <1>2, <1>3, <1>4, <1>5 DEF WellFormed
<1> QED BY <1>6 DEF h

-----------------------------------------------------------------------------
(* Edges. *)

\* h is g with other edge members.
EdgesOnly(g, h) ==
    h = [size |-> g.size, nodes |-> g.nodes, nameIdMap |-> g.nameIdMap,
         edges |-> h.edges, calleeList |-> h.calleeList, callerList |-> h.callerList,
         mainNode |-> g.mainNode, hasDuplicates |-> g.hasDuplicates,
         numErased |-> g.numErased, entry |-> g.entry]

\* An edge map over live nodes, with metadata of the right type.
LiveEdgeMap(g, E) ==
    /\ DOMAIN E \subseteq Ids \X Ids
    /\ E \in [DOMAIN E -> SUBSET (MdKeys \X MdKinds)]
    /\ \A e \in DOMAIN E : hasNode(g, e[1]) /\ hasNode(g, e[2])

\* The edge map of a well-formed graph is one, and so is every part of it.
LEMMA EdgeMapPart ==
  ASSUME NEW g, WellFormed(g), NEW D \in SUBSET DOMAIN g.edges
  PROVE  LiveEdgeMap(g, [e \in D |-> g.edges[e]])
<1> DEFINE E == [e \in D |-> g.edges[e]]
<1>1. /\ DOMAIN g.edges \subseteq Ids \X Ids
      /\ \A e \in DOMAIN g.edges : g.edges[e] \in SUBSET (MdKeys \X MdKinds)
  BY DEF WellFormed, GraphType
<1>2. \A e \in D : hasNode(g, e[1]) /\ hasNode(g, e[2])
  BY DEF WellFormed, LiveEdges
<1>3. DOMAIN E = D /\ E \in [D -> SUBSET (MdKeys \X MdKinds)]
  BY <1>1
<1> QED BY <1>1, <1>2, <1>3 DEF LiveEdgeMap

\* New edge members that agree with each other and touch live nodes only.
LEMMA EdgesReplaced ==
  ASSUME NEW g, WellFormed(g), NEW h, EdgesOnly(g, h),
         LiveEdgeMap(g, h.edges), Adjacency(h),
         h.calleeList \in [Ids -> [Ids -> Nat]], h.callerList \in [Ids -> [Ids -> Nat]]
  PROVE  WellFormed(h)
<1>1. GraphType(h)
  BY DEF WellFormed, GraphType, EdgesOnly, LiveEdgeMap
<1>2. SameNodes(g, h)
  BY DEF SameNodes, EdgesOnly
<1>3. LiveEdges(h)
  BY <1>2, SameNodesPreserved DEF LiveEdges, LiveEdgeMap
<1> QED BY <1>1, <1>2, <1>3, SameNodesPreserved DEF WellFormed

\* h differs from g in the pair <<p, c>> at most, of which it holds n entries.
OnePairChanged(g, h, p, c, n) ==
    /\ h.calleeList = [g.calleeList EXCEPT ![p][c] = n]
    /\ h.callerList = [g.callerList EXCEPT ![c][p] = n]
    /\ \A i, j \in Ids : <<i, j>> \in DOMAIN h.edges <=>
                            IF i = p /\ j = c THEN n = 1 ELSE <<i, j>> \in DOMAIN g.edges

\* Setting both list entries of one pair and the edge itself.
LEMMA OneEdgeChanged ==
  ASSUME NEW g, WellFormed(g), NEW h, EdgesOnly(g, h), LiveEdgeMap(g, h.edges),
         NEW p \in Ids, NEW c \in Ids, NEW n \in {0, 1}, OnePairChanged(g, h, p, c, n)
  PROVE  WellFormed(h)
<1>1. g.calleeList \in [Ids -> [Ids -> Nat]] /\ g.callerList \in [Ids -> [Ids -> Nat]]
  BY DEF WellFormed, GraphType
<1>2. /\ h.calleeList \in [Ids -> [Ids -> Nat]]
      /\ \A i, j \in Ids :
            h.calleeList[i][j] = IF i = p /\ j = c THEN n ELSE g.calleeList[i][j]
  BY <1>1, EntryUpdate DEF OnePairChanged
<1>3. /\ h.callerList \in [Ids -> [Ids -> Nat]]
      /\ \A i, j \in Ids :
            h.callerList[j][i] = IF j = c /\ i = p THEN n ELSE g.callerList[j][i]
  BY <1>1, EntryUpdate DEF OnePairChanged
<1>4. Adjacency(h)
  <2> SUFFICES ASSUME NEW i \in Ids, NEW j \in Ids
               PROVE  /\ h.calleeList[i][j] = IF <<i, j>> \in DOMAIN h.edges THEN 1 ELSE 0
                      /\ h.callerList[j][i] = IF <<i, j>> \in DOMAIN h.edges THEN 1 ELSE 0
    BY DEF Adjacency
  <2>1. /\ g.calleeList[i][j] = IF <<i, j>> \in DOMAIN g.edges THEN 1 ELSE 0
        /\ g.callerList[j][i] = IF <<i, j>> \in DOMAIN g.edges THEN 1 ELSE 0
    BY DEF WellFormed, Adjacency
  <2>2. <<i, j>> \in DOMAIN h.edges <=>
          IF i = p /\ j = c THEN n = 1 ELSE <<i, j>> \in DOMAIN g.edges
    BY DEF OnePairChanged
  <2> QED BY <1>2, <1>3, <2>1, <2>2
<1> QED BY <1>2, <1>3, <1>4, EdgesReplaced

\* Inserting an edge between live nodes, whichever overload does it.
LEMMA AddEdgeInternalWellFormed ==
  ASSUME NEW g, WellFormed(g), NEW p \in Nat, NEW c \in Nat,
         hasNode(g, p), hasNode(g, c)
  PROVE  WellFormed(addEdgeInternal(g, p, c))
<1>1. CASE <<p, c>> \in DOMAIN g.edges
  BY <1>1 DEF addEdgeInternal
<1>2. CASE <<p, c>> \notin DOMAIN g.edges
  <2> DEFINE h == addEdgeInternal(g, p, c)
             E == [e \in DOMAIN g.edges \cup {<<p, c>>} |->
                     IF e = <<p, c>> THEN {} ELSE g.edges[e]]
  <2>0. p \in Ids /\ c \in Ids
    BY LiveIdsFact DEF WellFormed
  <2>1. /\ [g.calleeList EXCEPT ![p][c] = @ + 1] = [g.calleeList EXCEPT ![p][c] = 1]
        /\ [g.callerList EXCEPT ![c][p] = @ + 1] = [g.callerList EXCEPT ![c][p] = 1]
    <3>1. g.calleeList[p][c] = 0 /\ g.callerList[c][p] = 0
      BY <1>2, <2>0 DEF WellFormed, Adjacency
    <3> QED BY <2>0, <3>1 DEF WellFormed, GraphType
  <2>2. h = [g EXCEPT !.calleeList = [g.calleeList EXCEPT ![p][c] = 1],
                      !.callerList = [g.callerList EXCEPT ![c][p] = 1],
                      !.edges = E]
    BY <1>2, <2>1 DEF addEdgeInternal, addCaller
  <2>3. /\ EdgesOnly(g, h)
        /\ h.calleeList = [g.calleeList EXCEPT ![p][c] = 1]
        /\ h.callerList = [g.callerList EXCEPT ![c][p] = 1]
        /\ h.edges = E
    BY <2>2 DEF WellFormed, GraphType, EdgesOnly
  <2>4. LiveEdgeMap(g, E)
    <3>2. DOMAIN E = DOMAIN g.edges \cup {<<p, c>>}
      OBVIOUS
    <3>3. E \in [DOMAIN E -> SUBSET (MdKeys \X MdKinds)]
      BY DEF WellFormed, GraphType
    <3> HIDE DEF E
    <3>4. DOMAIN E \subseteq Ids \X Ids
      <4>1. <<p, c>> \in Ids \X Ids
        BY <2>0
      <4> QED BY <3>2, <4>1 DEF WellFormed, GraphType
    <3>5. \A e \in DOMAIN E : hasNode(g, e[1]) /\ hasNode(g, e[2])
      BY <3>2 DEF WellFormed, LiveEdges
    <3> QED BY <3>3, <3>4, <3>5 DEF LiveEdgeMap
  <2>5. /\ <<p, c>> \in DOMAIN E
        /\ \A i, j \in Ids : i # p \/ j # c =>
              (<<i, j>> \in DOMAIN E <=> <<i, j>> \in DOMAIN g.edges)
    OBVIOUS
  <2> HIDE DEF h, E
  <2>6. WellFormed(h)
    <3> DEFINE n == 1
    <3>1. /\ n \in {0, 1} /\ LiveEdgeMap(g, h.edges)
          /\ h.calleeList = [g.calleeList EXCEPT ![p][c] = n]
          /\ h.callerList = [g.callerList EXCEPT ![c][p] = n]
      BY <2>3, <2>4
    <3>2. EdgesOnly(g, h) /\ DOMAIN h.edges = DOMAIN E
      BY <2>3
    <3>3. n = 1 <=> <<p, c>> \in DOMAIN h.edges
      BY <2>5, <3>2
    <3> HIDE DEF n
    <3>4. OnePairChanged(g, h, p, c, n)
      BY <2>5, <3>1, <3>2, <3>3 DEF OnePairChanged
    <3> QED BY <2>0, <3>1, <3>2, <3>4, OneEdgeChanged
  <2> QED BY <2>6 DEF h
<1> QED BY <1>1, <1>2

\* Removing an edge, whether it exists or not.
LEMMA RemoveEdgeWellFormed ==
  ASSUME NEW g, WellFormed(g), NEW p, NEW c
  PROVE  WellFormed(removeEdge(g, p, c))
<1>1. CASE <<p, c>> \notin DOMAIN g.edges
  BY <1>1 DEF removeEdge
<1>2. CASE <<p, c>> \in DOMAIN g.edges
  <2> DEFINE h == removeEdge(g, p, c)
             E == [e \in DOMAIN g.edges \ {<<p, c>>} |-> g.edges[e]]
  <2>0. p \in Ids /\ c \in Ids
    BY <1>2 DEF WellFormed, GraphType
  <2>1. /\ [g.calleeList EXCEPT ![p][c] = @ - 1] = [g.calleeList EXCEPT ![p][c] = 0]
        /\ [g.callerList EXCEPT ![c][p] = @ - 1] = [g.callerList EXCEPT ![c][p] = 0]
    <3>1. g.calleeList[p][c] = 1 /\ g.callerList[c][p] = 1
      BY <1>2, <2>0 DEF WellFormed, Adjacency
    <3> QED BY <2>0, <3>1 DEF WellFormed, GraphType
  <2>2. h = [g EXCEPT !.calleeList = [g.calleeList EXCEPT ![p][c] = 0],
                      !.callerList = [g.callerList EXCEPT ![c][p] = 0],
                      !.edges = E]
    BY <1>2, <2>1 DEF removeEdge
  <2>3. /\ EdgesOnly(g, h)
        /\ h.calleeList = [g.calleeList EXCEPT ![p][c] = 0]
        /\ h.callerList = [g.callerList EXCEPT ![c][p] = 0]
        /\ h.edges = E
    BY <2>2 DEF WellFormed, GraphType, EdgesOnly
  <2>4. LiveEdgeMap(g, E)
    BY EdgeMapPart
  <2>5. /\ <<p, c>> \notin DOMAIN E
        /\ \A i, j \in Ids : i # p \/ j # c =>
              (<<i, j>> \in DOMAIN E <=> <<i, j>> \in DOMAIN g.edges)
    OBVIOUS
  <2> HIDE DEF h, E
  <2>6. WellFormed(h)
    <3> DEFINE n == 0
    <3>1. /\ n \in {0, 1} /\ LiveEdgeMap(g, h.edges)
          /\ h.calleeList = [g.calleeList EXCEPT ![p][c] = n]
          /\ h.callerList = [g.callerList EXCEPT ![c][p] = n]
      BY <2>3, <2>4
    <3>2. EdgesOnly(g, h) /\ DOMAIN h.edges = DOMAIN E
      BY <2>3
    <3>3. n = 1 <=> <<p, c>> \in DOMAIN h.edges
      BY <2>5, <3>2
    <3> HIDE DEF n
    <3>4. OnePairChanged(g, h, p, c, n)
      BY <2>5, <3>1, <3>2, <3>3 DEF OnePairChanged
    <3> QED BY <2>0, <3>1, <3>2, <3>4, OneEdgeChanged
  <2> QED BY <2>6 DEF h
<1> QED BY <1>1, <1>2

\* Attaching metadata to an edge.
LEMMA AddEdgeMetaDataWellFormed ==
  ASSUME NEW g, WellFormed(g), NEW e, NEW kind \in MdKinds, NEW typed \in BOOLEAN
  PROVE  WellFormed(addEdgeMetaData(g, e, kind, typed))
<1>1. CASE e \notin DOMAIN g.edges
  BY <1>1 DEF addEdgeMetaData
<1>2. CASE e \in DOMAIN g.edges
  <2> DEFINE h   == addEdgeMetaData(g, e, kind, typed)
             key == edgeMdKey(kind, typed)
             md  == {m \in g.edges[e] : m[1] # key} \cup {<<key, kind>>}
             E   == [g.edges EXCEPT ![e] = md]
  <2>1. h = [g EXCEPT !.edges = E]
    BY <1>2 DEF addEdgeMetaData
  <2>2. /\ EdgesOnly(g, h) /\ h.edges = E
        /\ h.calleeList = g.calleeList /\ h.callerList = g.callerList
    BY <2>1 DEF WellFormed, GraphType, EdgesOnly
  <2>3. g.edges \in [DOMAIN g.edges -> SUBSET (MdKeys \X MdKinds)]
    BY DEF WellFormed, GraphType
  <2>4. md \in SUBSET (MdKeys \X MdKinds)
    <3>1. key \in MdKeys
      BY DEF edgeMdKey, MdKeys
    <3> HIDE DEF key
    <3> QED BY <1>2, <2>3, <3>1
  <2> HIDE DEF md, h
  <2>5. E \in [DOMAIN E -> SUBSET (MdKeys \X MdKinds)] /\ DOMAIN E = DOMAIN g.edges
    BY <1>2, <2>3, <2>4
  <2> HIDE DEF E
  <2>6. LiveEdgeMap(g, E)
    BY <2>5 DEF LiveEdgeMap, WellFormed, GraphType, LiveEdges
  <2>7. Adjacency(h)
    BY <2>2, <2>5 DEF WellFormed, Adjacency
  <2>8. WellFormed(h)
    BY <2>2, <2>6, <2>7, EdgesReplaced DEF WellFormed, GraphType
  <2> QED BY <2>8 DEF h
<1> QED BY <1>1, <1>2

-----------------------------------------------------------------------------
(* Nodes. *)

\* A list whose entries are all below n stays sorted when n is appended.
LEMMA AppendToNameList ==
  ASSUME NEW s \in Seq(Ids), NEW n \in Ids, \A k \in DOMAIN s : s[k] < n,
         \A j, k \in DOMAIN s : j < k => s[j] < s[k]
  PROVE  /\ Append(s, n) \in Seq(Ids)
         /\ ToSet(Append(s, n)) = ToSet(s) \cup {n}
         /\ \A j, k \in DOMAIN Append(s, n) : j < k => Append(s, n)[j] < Append(s, n)[k]
<1> DEFINE t == Append(s, n)
<1>1. /\ t \in Seq(Ids) /\ DOMAIN s = 1 .. Len(s) /\ Len(s) \in Nat
      /\ DOMAIN t = 1 .. Len(s) + 1
      /\ \A k \in 1 .. Len(s) : t[k] = s[k]
      /\ t[Len(s) + 1] = n
  OBVIOUS
<1> HIDE DEF t
<1>2. \A k \in DOMAIN t : (k \in DOMAIN s /\ t[k] = s[k]) \/ (k = Len(s) + 1 /\ t[k] = n)
  <2> SUFFICES ASSUME NEW k \in 1 .. Len(s) + 1
               PROVE  (k \in DOMAIN s /\ t[k] = s[k]) \/ (k = Len(s) + 1 /\ t[k] = n)
    BY <1>1
  <2>1. CASE k \in 1 .. Len(s)
    BY <1>1, <2>1
  <2>2. CASE k = Len(s) + 1
    BY <1>1, <2>2
  <2> QED BY <1>1, <2>1, <2>2
<1>3. ToSet(t) = ToSet(s) \cup {n}
  <2>1. ASSUME NEW x \in ToSet(t) PROVE x \in ToSet(s) \cup {n}
    BY <1>2 DEF ToSet
  <2>2. ASSUME NEW x \in ToSet(s) \cup {n} PROVE x \in ToSet(t)
    <3>1. CASE x = n
      BY <1>1, <3>1 DEF ToSet
    <3>2. CASE x \in ToSet(s)
      BY <1>1, <3>2 DEF ToSet
    <3> QED BY <3>1, <3>2
  <2> QED BY <2>1, <2>2
<1>4. \A j, k \in DOMAIN t : j < k => t[j] < t[k]
  BY <1>1, <1>2
<1> QED BY <1>1, <1>3, <1>4 DEF t

\* Inserting a node.
LEMMA InsertWellFormed ==
  ASSUME NEW g, WellFormed(g), g.size < MaxSize, NEW f \in Names,
         NEW attr \in [origin : Origins, hasBody : BOOLEAN, isVirtual : BOOLEAN]
  PROVE  WellFormed(insert(g, f, attr))
<1> DEFINE h     == insert(g, f, attr)
           node  == newNode(f, attr)
           nodes == [g.nodes EXCEPT ![g.size] = node]
           names == [g.nameIdMap EXCEPT ![f] = Append(@, g.size)]
           dup   == g.hasDuplicates \/ isDuplicate(g, f)
<1>1. h = [size |-> g.size + 1, nodes |-> nodes, nameIdMap |-> names,
           edges |-> g.edges, calleeList |-> g.calleeList, callerList |-> g.callerList,
           mainNode |-> g.mainNode, hasDuplicates |-> dup,
           numErased |-> g.numErased, entry |-> g.entry]
  <2>1. h = [g EXCEPT !.size = g.size + 1, !.nodes = nodes, !.nameIdMap = names,
                      !.hasDuplicates = dup]
    BY DEF insert, nextId
  <2> QED BY <2>1 DEF WellFormed, GraphType
<1>2. g.size \in Ids /\ g.size + 1 \in 0 .. MaxSize /\ g.size \in Nat
  BY MaxSizeAssumption DEF WellFormed, GraphType, Ids
<1>3. node \in Node /\ node.name = f /\ node # Null
  BY NullAssumption DEF newNode, Node, OverrideMD, NewOverrideMD
<1>4. nodes \in [Ids -> Node \cup {Null}]
      /\ \A id \in Ids : nodes[id] = IF id = g.size THEN node ELSE g.nodes[id]
  <2> HIDE DEF node
  <2> QED BY <1>2, <1>3 DEF WellFormed, GraphType
<1>5. g.nameIdMap \in [Names -> Seq(Ids)]
  BY DEF WellFormed, GraphType
<1>6. /\ Append(g.nameIdMap[f], g.size) \in Seq(Ids)
      /\ ToSet(Append(g.nameIdMap[f], g.size)) = ToSet(g.nameIdMap[f]) \cup {g.size}
      /\ \A j, k \in DOMAIN Append(g.nameIdMap[f], g.size) : j < k =>
            Append(g.nameIdMap[f], g.size)[j] < Append(g.nameIdMap[f], g.size)[k]
  <2>1. \A k \in DOMAIN g.nameIdMap[f] : g.nameIdMap[f][k] \in LiveIds(g)
    BY DEF WellFormed, NameIndex, ToSet
  <2>2. \A k \in DOMAIN g.nameIdMap[f] : g.nameIdMap[f][k] < g.size
    BY <2>1 DEF LiveIds, hasNode
  <2>3. \A j, k \in DOMAIN g.nameIdMap[f] : j < k => g.nameIdMap[f][j] < g.nameIdMap[f][k]
    BY DEF WellFormed, NameIndex
  <2> QED BY <1>2, <1>5, <2>2, <2>3, AppendToNameList
<1>7. names \in [Names -> Seq(Ids)] /\ \A n \in Names :
         names[n] = IF n = f THEN Append(g.nameIdMap[f], g.size) ELSE g.nameIdMap[n]
  BY <1>5, <1>6
<1>8. dup \in BOOLEAN
  BY DEF isDuplicate
<1> HIDE DEF node, nodes, names, dup, h
<1>9. GraphType(h)
  BY <1>1, <1>2, <1>4, <1>7, <1>8 DEF WellFormed, GraphType
<1>10. \A id \in Ids : hasNode(h, id) <=> hasNode(g, id) \/ id = g.size
  <2> SUFFICES ASSUME NEW id \in Ids
               PROVE  hasNode(h, id) <=> hasNode(g, id) \/ id = g.size
    OBVIOUS
  <2>1. id \in Nat /\ (id < g.size + 1 <=> id < g.size \/ id = g.size)
    BY <1>2, MaxSizeAssumption DEF Ids
  <2> QED BY <1>1, <1>3, <1>4, <2>1 DEF hasNode
<1>11. Adjacency(h)
  BY <1>1 DEF WellFormed, Adjacency
<1>12. UnusedSlots(h)
  BY <1>1, <1>2, <1>4, MaxSizeAssumption DEF WellFormed, UnusedSlots, Ids
<1>13. LiveEdges(h)
  <2>1. \A e \in DOMAIN g.edges : e[1] \in Ids /\ e[2] \in Ids
    BY DEF WellFormed, GraphType
  <2>2. DOMAIN h.edges = DOMAIN g.edges
    BY <1>1
  <2> QED BY <1>10, <2>1, <2>2 DEF WellFormed, LiveEdges
<1>14. NameIndex(h)
  <2> SUFFICES ASSUME NEW n \in Names
               PROVE  /\ ToSet(h.nameIdMap[n]) = {id \in LiveIds(h) : h.nodes[id].name = n}
                      /\ \A j, k \in DOMAIN h.nameIdMap[n] :
                            j < k => h.nameIdMap[n][j] < h.nameIdMap[n][k]
    BY DEF NameIndex
  <2>1. LiveIds(h) = LiveIds(g) \cup {g.size} /\ g.size \notin LiveIds(g)
    BY <1>2, <1>10 DEF LiveIds, hasNode
  <2>2. \A id \in LiveIds(g) : h.nodes[id].name = g.nodes[id].name
    BY <1>1, <1>4, <2>1 DEF LiveIds
  <2>3. h.nodes[g.size].name = f
    BY <1>1, <1>2, <1>3, <1>4
  <2>4. /\ ToSet(g.nameIdMap[n]) = {id \in LiveIds(g) : g.nodes[id].name = n}
        /\ \A j, k \in DOMAIN g.nameIdMap[n] :
              j < k => g.nameIdMap[n][j] < g.nameIdMap[n][k]
    BY DEF WellFormed, NameIndex
  <2>5. CASE n = f
    <3>1. h.nameIdMap[n] = Append(g.nameIdMap[f], g.size)
      BY <1>1, <1>7, <2>5
    <3>2. ToSet(h.nameIdMap[n]) = {id \in LiveIds(h) : h.nodes[id].name = n}
      BY <1>6, <2>1, <2>2, <2>3, <2>4, <2>5, <3>1
    <3> QED BY <1>6, <3>1, <3>2
  <2>6. CASE n # f
    <3>1. h.nameIdMap[n] = g.nameIdMap[n]
      BY <1>1, <1>7, <2>6
    <3>2. ToSet(h.nameIdMap[n]) = {id \in LiveIds(h) : h.nodes[id].name = n}
      BY <2>1, <2>2, <2>3, <2>4, <2>6, <3>1
    <3> QED BY <2>4, <3>1, <3>2
  <2> QED BY <2>5, <2>6
<1>15. LiveMain(h)
  <2>1. h.mainNode = g.mainNode /\ (g.mainNode # Null => g.mainNode \in Ids)
    BY <1>1 DEF WellFormed, GraphType
  <2> QED BY <1>10, <2>1 DEF WellFormed, LiveMain
<1>16. WellFormed(h)
  BY <1>9, <1>11, <1>12, <1>13, <1>14, <1>15 DEF WellFormed
<1> QED BY <1>16 DEF h

\* erase, first part: exactly the edges of the node go.
LEMMA EraseEdgesWellFormed ==
  ASSUME NEW g, WellFormed(g), NEW id \in Ids
  PROVE  /\ WellFormed(eraseEdges(g, id))
         /\ EdgesOnly(g, eraseEdges(g, id))
         /\ eraseEdges(g, id).edges =
              [e \in {d \in DOMAIN g.edges : id \notin {d[1], d[2]}} |-> g.edges[e]]
<1> DEFINE h    == eraseEdges(g, id)
           has(p, c) == IF <<p, c>> \in DOMAIN g.edges THEN 1 ELSE 0
           crs  == callersAfterCallees(g, id)
           cls2 == [p \in Ids |-> IF p = id THEN NoEntries
                                  ELSE [g.calleeList[p] EXCEPT ![id] = @ - incoming(g, id)[p]]]
           crs2 == [crs EXCEPT ![id] = NoEntries]
           E    == [e \in DOMAIN g.edges \ erasedEdges(g, id) |-> g.edges[e]]
<1>1. /\ g.calleeList \in [Ids -> [Ids -> Nat]] /\ g.callerList \in [Ids -> [Ids -> Nat]]
      /\ \A p, c \in Ids : g.calleeList[p][c] = has(p, c) /\ g.callerList[c][p] = has(p, c)
  BY DEF WellFormed, GraphType, Adjacency
<1>0. \A p, c \in Ids : has(p, c) \in Nat /\ (has(p, c) # 0 <=> <<p, c>> \in DOMAIN g.edges)
  OBVIOUS
<1> HIDE DEF has
<1>2. /\ crs \in [Ids -> [Ids -> Nat]]
      /\ \A p, c \in Ids : crs[c][p] = IF p = id THEN 0 ELSE has(p, c)
  <2>1. \A c \in Ids : [g.callerList[c] EXCEPT ![id] = @ - g.calleeList[id][c]]
                         = [g.callerList[c] EXCEPT ![id] = 0]
    <3>1. \A c \in Ids : g.callerList[c][id] - g.calleeList[id][c] = 0
      BY <1>0, <1>1
    <3> QED BY <3>1
  <2>2. crs = [c \in Ids |-> [g.callerList[c] EXCEPT ![id] = 0]]
    BY <2>1 DEF callersAfterCallees
  <2> HIDE DEF crs
  <2> QED BY <1>0, <1>1, <2>2
<1>3. \A p \in Ids : incoming(g, id)[p] = IF p = id THEN 0 ELSE has(p, id)
  BY <1>2 DEF incoming
<1>4. /\ cls2 \in [Ids -> [Ids -> Nat]]
      /\ \A p, c \in Ids : cls2[p][c] = IF p = id \/ c = id THEN 0 ELSE has(p, c)
  <2>1. \A p \in Ids \ {id} : [g.calleeList[p] EXCEPT ![id] = @ - incoming(g, id)[p]]
                                = [g.calleeList[p] EXCEPT ![id] = 0]
    <3>1. \A p \in Ids \ {id} : g.calleeList[p][id] - incoming(g, id)[p] = 0
      BY <1>0, <1>1, <1>3
    <3> QED BY <3>1
  <2>2. cls2 = [p \in Ids |-> IF p = id THEN NoEntries
                              ELSE [g.calleeList[p] EXCEPT ![id] = 0]]
    BY <2>1
  <2> HIDE DEF cls2
  <2>3. NoEntries \in [Ids -> Nat] /\ \A c \in Ids : NoEntries[c] = 0
    BY DEF NoEntries
  <2> QED BY <1>0, <1>1, <2>2, <2>3
<1>5. /\ crs2 \in [Ids -> [Ids -> Nat]]
      /\ \A p, c \in Ids : crs2[c][p] = IF p = id \/ c = id THEN 0 ELSE has(p, c)
  <2> HIDE DEF crs
  <2>1. NoEntries \in [Ids -> Nat] /\ \A c \in Ids : NoEntries[c] = 0
    BY DEF NoEntries
  <2> QED BY <1>2, <2>1
<1>6. DOMAIN g.edges \ erasedEdges(g, id)
        = {d \in DOMAIN g.edges : id \notin {d[1], d[2]}}
  <2>1. erasedEdges(g, id) = {<<id, c>> : c \in getCallees(g, id)}
          \cup {<<p, id>> : p \in {q \in Ids : incoming(g, id)[q] # 0}}
    BY DEF erasedEdges
  <2>2. \A c \in Ids : c \in getCallees(g, id) <=> <<id, c>> \in DOMAIN g.edges
    BY <1>0, <1>1 DEF getCallees
  <2>3. \A p \in Ids : incoming(g, id)[p] # 0 <=> p # id /\ <<p, id>> \in DOMAIN g.edges
    BY <1>0, <1>3
  <2>4. \A p, c \in Ids : <<p, c>> \in DOMAIN g.edges =>
           (<<p, c>> \in erasedEdges(g, id) <=> p = id \/ c = id)
    <3> SUFFICES ASSUME NEW p \in Ids, NEW c \in Ids, <<p, c>> \in DOMAIN g.edges
                 PROVE  <<p, c>> \in erasedEdges(g, id) <=> p = id \/ c = id
      OBVIOUS
    <3>1. CASE p = id
      BY <2>1, <2>2, <3>1
    <3>2. CASE p # id /\ c = id
      BY <2>1, <2>3, <3>2
    <3>3. CASE p # id /\ c # id
      BY <2>1, <3>3
    <3> QED BY <3>1, <3>2, <3>3
  <2>5. \A d \in DOMAIN g.edges : d = <<d[1], d[2]>> /\ d[1] \in Ids /\ d[2] \in Ids
    <3>1. DOMAIN g.edges \subseteq Ids \X Ids
      BY DEF WellFormed, GraphType
    <3>2. \A d \in Ids \X Ids : d = <<d[1], d[2]>> /\ d[1] \in Ids /\ d[2] \in Ids
      OBVIOUS
    <3> QED BY <3>1, <3>2
  <2> QED BY <2>4, <2>5
<1>7. h = [g EXCEPT !.edges = E, !.calleeList = cls2, !.callerList = crs2]
  BY DEF eraseEdges
<1>8. EdgesOnly(g, h) /\ h.edges = E /\ h.calleeList = cls2 /\ h.callerList = crs2
  BY <1>7 DEF WellFormed, GraphType, EdgesOnly
<1>9. LiveEdgeMap(g, E)
  BY EdgeMapPart
<1>10. \A p, c \in Ids : <<p, c>> \in DOMAIN E <=>
          <<p, c>> \in DOMAIN g.edges /\ p # id /\ c # id
  BY <1>6
<1>11. E = [e \in {d \in DOMAIN g.edges : id \notin {d[1], d[2]}} |-> g.edges[e]]
  BY <1>6
<1> HIDE DEF h, E, crs, cls2, crs2
<1>12. Adjacency(h)
  BY <1>4, <1>5, <1>8, <1>10 DEF Adjacency, has
<1>13. WellFormed(h)
  BY <1>4, <1>5, <1>8, <1>9, <1>12, EdgesReplaced
<1> QED BY <1>8, <1>11, <1>13 DEF h

\* Removing an entry from a sorted list of ids.
LEMMA RemoveFromNameList ==
  ASSUME NEW s \in Seq(Ids), NEW x \in ToSet(s),
         \A j, k \in DOMAIN s : j < k => s[j] < s[k]
  PROVE  LET t == RemoveAt(s, position(s, x))
         IN  /\ t \in Seq(Ids)
             /\ ToSet(t) = ToSet(s) \ {x}
             /\ \A j, k \in DOMAIN t : j < k => t[j] < t[k]
<1> DEFINE n == position(s, x)
           t == RemoveAt(s, n)
<1>1. /\ Len(s) \in Nat /\ DOMAIN s = 1 .. Len(s)
      /\ \A k \in 1 .. Len(s) : s[k] \in Ids /\ s[k] \in Nat
  BY MaxSizeAssumption DEF Ids
<1>2. n \in 1 .. Len(s) /\ s[n] = x
  <2>1. PICK k \in 1 .. Len(s) : s[k] = x
    BY <1>1 DEF ToSet
  <2>2. \A j \in 1 .. (k - 1) : s[j] # x
    <3> SUFFICES ASSUME NEW j \in 1 .. (k - 1) PROVE s[j] # x
      OBVIOUS
    <3>1. j \in 1 .. Len(s) /\ j < k
      BY <1>1, <2>1
    <3>2. s[j] < s[k]
      BY <1>1, <3>1
    <3>3. s[j] \in Nat /\ s[k] \in Nat
      BY <1>1, <3>1
    <3> QED BY <2>1, <3>2, <3>3
  <2>3. \E i \in DOMAIN s : s[i] = x /\ \A j \in 1 .. (i - 1) : s[j] # x
    BY <1>1, <2>1, <2>2
  <2>4. n \in DOMAIN s /\ s[n] = x
    BY <2>3, Zenon DEF position
  <2> QED BY <1>1, <2>4
<1> HIDE DEF n
<1>3. \A k \in 1 .. Len(s) : s[k] = x => k = n
  <2> SUFFICES ASSUME NEW k \in 1 .. Len(s), k # n PROVE s[k] # x
    OBVIOUS
  <2>1. k < n \/ n < k
    BY <1>1, <1>2
  <2>2. s[k] < s[n] \/ s[n] < s[k]
    BY <1>1, <1>2, <2>1
  <2>3. s[k] \in Nat /\ s[n] \in Nat
    BY <1>1, <1>2
  <2> QED BY <1>2, <2>2, <2>3
<1>4. /\ SubSeq(s, 1, n - 1) \in Seq(Ids) /\ Len(SubSeq(s, 1, n - 1)) = n - 1
      /\ \A k \in 1 .. (n - 1) : SubSeq(s, 1, n - 1)[k] = s[k]
  BY <1>1, <1>2
<1>5. /\ SubSeq(s, n + 1, Len(s)) \in Seq(Ids)
      /\ Len(SubSeq(s, n + 1, Len(s))) = Len(s) - n
      /\ \A k \in 1 .. (Len(s) - n) : SubSeq(s, n + 1, Len(s))[k] = s[n + k]
  <2>1. /\ n + 1 \in Int /\ Len(s) \in Int
        /\ \A i \in (n + 1) .. Len(s) : i \in 1 .. Len(s)
    BY <1>1, <1>2
  <2>2. \A i \in (n + 1) .. Len(s) : s[i] \in Ids
    BY <1>1, <2>1
  <2> DEFINE b == SubSeq(s, n + 1, Len(s))
  <2>3. /\ b \in Seq(Ids)
        /\ Len(b) = IF n + 1 <= Len(s) THEN Len(s) - (n + 1) + 1 ELSE 0
        /\ \A k \in 1 .. (Len(s) - (n + 1) + 1) : b[k] = s[(n + 1) + k - 1]
    BY <2>1, <2>2, SubSeqProperties
  <2> HIDE DEF b
  <2>4. Len(b) = Len(s) - n
    <3>1. n \in Nat /\ Len(s) \in Nat /\ n <= Len(s)
      BY <1>1, <1>2
    <3>2. Len(b) = IF n + 1 <= Len(s) THEN Len(s) - (n + 1) + 1 ELSE 0
      BY <2>3
    <3>3. CASE n + 1 <= Len(s)
      BY <3>1, <3>2, <3>3
    <3>4. CASE ~ (n + 1 <= Len(s))
      BY <3>1, <3>2, <3>4
    <3> QED BY <3>3, <3>4
  <2>5. \A k \in 1 .. (Len(s) - n) :
           k \in 1 .. (Len(s) - (n + 1) + 1) /\ (n + 1) + k - 1 = n + k
    BY <1>1, <1>2
  <2>6. \A k \in 1 .. (Len(s) - n) : b[k] = s[n + k]
    BY <2>3, <2>5
  <2> QED BY <2>3, <2>4, <2>6 DEF b
<1>6. /\ t \in Seq(Ids) /\ DOMAIN t = 1 .. (Len(s) - 1)
      /\ \A k \in 1 .. (n - 1) : t[k] = s[k]
      /\ \A k \in n .. (Len(s) - 1) : t[k] = s[k + 1]
  <2> DEFINE a == SubSeq(s, 1, n - 1)
             b == SubSeq(s, n + 1, Len(s))
  <2>1. t = a \o b
    BY DEF RemoveAt
  <2> HIDE DEF a, b, t
  <2>2. /\ a \o b \in Seq(Ids) /\ Len(a \o b) = Len(a) + Len(b)
        /\ \A k \in 1 .. (Len(a) + Len(b)) :
              (a \o b)[k] = IF k <= Len(a) THEN a[k] ELSE b[k - Len(a)]
    BY <1>4, <1>5, ConcatProperties DEF a, b
  <2>3. Len(a) = n - 1 /\ Len(b) = Len(s) - n
    BY <1>4, <1>5 DEF a, b
  <2>4. /\ \A k \in 1 .. (n - 1) : a[k] = s[k]
        /\ \A k \in 1 .. (Len(s) - n) : b[k] = s[n + k]
    BY <1>4, <1>5 DEF a, b
  <2>5. Len(a) + Len(b) = Len(s) - 1
    BY <1>1, <1>2, <2>3
  <2>6. DOMAIN t = 1 .. (Len(s) - 1) /\ t \in Seq(Ids)
    <3>1. t \in Seq(Ids) /\ Len(t) = Len(s) - 1
      BY <2>1, <2>2, <2>5
    <3> QED BY <3>1
  <2>7. ASSUME NEW k \in 1 .. (n - 1) PROVE t[k] = s[k]
    <3>1. k \in 1 .. (Len(a) + Len(b)) /\ k <= Len(a)
      BY <1>1, <1>2, <2>3, <2>5
    <3> QED BY <2>1, <2>2, <2>4, <3>1
  <2>8. ASSUME NEW k \in n .. (Len(s) - 1) PROVE t[k] = s[k + 1]
    <3>1. /\ k \in 1 .. (Len(a) + Len(b)) /\ ~ (k <= Len(a))
          /\ k - Len(a) \in 1 .. (Len(s) - n) /\ n + (k - Len(a)) = k + 1
      BY <1>1, <1>2, <2>3, <2>5
    <3>2. t[k] = b[k - Len(a)]
      BY <2>1, <2>2, <3>1
    <3>3. b[k - Len(a)] = s[n + (k - Len(a))]
      BY <2>4, <3>1
    <3> QED BY <3>1, <3>2, <3>3
  <2> QED BY <2>6, <2>7, <2>8
<1> HIDE DEF t
<1>7. \A k \in DOMAIN t : \E i \in 1 .. Len(s) :
         t[k] = s[i] /\ i # n /\ i = IF k < n THEN k ELSE k + 1
  <2> SUFFICES ASSUME NEW k \in DOMAIN t
               PROVE  \E i \in 1 .. Len(s) :
                         t[k] = s[i] /\ i # n /\ i = IF k < n THEN k ELSE k + 1
    OBVIOUS
  <2>0. k \in 1 .. (Len(s) - 1)
    BY <1>6
  <2>1. CASE k < n
    <3>1. k \in 1 .. (n - 1) /\ k \in 1 .. Len(s) /\ k # n
      BY <1>1, <1>2, <2>0, <2>1
    <3> QED BY <1>6, <2>1, <3>1
  <2>2. CASE ~ (k < n)
    <3>1. k \in n .. (Len(s) - 1) /\ k + 1 \in 1 .. Len(s) /\ k + 1 # n
      BY <1>1, <1>2, <2>0, <2>2
    <3> QED BY <1>6, <2>2, <3>1
  <2> QED BY <2>1, <2>2
<1>8. ToSet(t) = ToSet(s) \ {x}
  <2>1. ASSUME NEW y \in ToSet(t) PROVE y \in ToSet(s) \ {x}
    <3>1. PICK i \in 1 .. Len(s) : y = s[i] /\ i # n
      BY <1>7 DEF ToSet
    <3>2. y # x
      BY <1>3, <3>1
    <3> QED BY <1>1, <3>1, <3>2 DEF ToSet
  <2>2. ASSUME NEW y \in ToSet(s) \ {x} PROVE y \in ToSet(t)
    <3>1. PICK j \in 1 .. Len(s) : j # n /\ y = s[j]
      BY <1>1, <1>2 DEF ToSet
    <3>2. CASE j < n
      <4>1. j \in 1 .. (n - 1) /\ j \in 1 .. (Len(s) - 1)
        BY <1>1, <1>2, <3>1, <3>2
      <4>2. j \in DOMAIN t /\ t[j] = y
        BY <1>6, <3>1, <4>1
      <4> QED BY <4>2 DEF ToSet
    <3>3. CASE j > n
      <4>1. j - 1 \in n .. (Len(s) - 1) /\ j - 1 \in 1 .. (Len(s) - 1) /\ (j - 1) + 1 = j
        BY <1>1, <1>2, <3>1, <3>3
      <4>2. j - 1 \in DOMAIN t /\ t[j - 1] = y
        BY <1>6, <3>1, <4>1
      <4> QED BY <4>2 DEF ToSet
    <3>4. j < n \/ j > n
      BY <1>1, <1>2, <3>1
    <3> QED BY <3>2, <3>3, <3>4
  <2> QED BY <2>1, <2>2
<1>9. \A j, k \in DOMAIN t : j < k => t[j] < t[k]
  <2> SUFFICES ASSUME NEW j \in DOMAIN t, NEW k \in DOMAIN t, j < k
               PROVE  t[j] < t[k]
    OBVIOUS
  <2>1. PICK a \in 1 .. Len(s) : t[j] = s[a] /\ a = IF j < n THEN j ELSE j + 1
    BY <1>7
  <2>2. PICK b \in 1 .. Len(s) : t[k] = s[b] /\ b = IF k < n THEN k ELSE k + 1
    BY <1>7
  <2>3. j \in Nat /\ k \in Nat /\ n \in Nat
    BY <1>1, <1>2, <1>6
  <2>4. a < b
    BY <2>1, <2>2, <2>3
  <2>5. s[a] < s[b]
    BY <1>1, <2>4
  <2> QED BY <2>1, <2>2, <2>5
<1> QED BY <1>6, <1>8, <1>9 DEF t, n

\* erase, second part: the cached main node, the name list and the slot.
LEMMA EraseFields ==
  ASSUME NEW g, WellFormed(g), NEW id \in Ids, hasNode(g, id)
  PROVE  LET f == g.nodes[id].name
         IN  erase(g, id) =
               [size |-> g.size, nodes |-> [g.nodes EXCEPT ![id] = Null],
                nameIdMap |-> [g.nameIdMap EXCEPT ![f] =
                                 RemoveAt(g.nameIdMap[f], position(g.nameIdMap[f], id))],
                edges |-> eraseEdges(g, id).edges,
                calleeList |-> eraseEdges(g, id).calleeList,
                callerList |-> eraseEdges(g, id).callerList,
                mainNode |-> IF g.mainNode = id THEN Null ELSE g.mainNode,
                hasDuplicates |-> g.hasDuplicates,
                numErased |-> g.numErased + 1,
                entry |-> IF g.mainNode = id /\ g.entry = id THEN Null ELSE g.entry]
<1> DEFINE g1 == eraseEdges(g, id)
           g2 == forgetMain(g1, id)
           f  == g.nodes[id].name
           L  == RemoveAt(g.nameIdMap[f], position(g.nameIdMap[f], id))
           main  == IF g.mainNode = id THEN Null ELSE g.mainNode
           entry == IF g.mainNode = id /\ g.entry = id THEN Null ELSE g.entry
           E == g1.edges
           A == g1.calleeList
           B == g1.callerList
<1>1. g1 = [size |-> g.size, nodes |-> g.nodes, nameIdMap |-> g.nameIdMap,
            edges |-> E, calleeList |-> A, callerList |-> B,
            mainNode |-> g.mainNode, hasDuplicates |-> g.hasDuplicates,
            numErased |-> g.numErased, entry |-> g.entry]
  BY EraseEdgesWellFormed DEF EdgesOnly
<1>2. erase(g, id) = [forgetName(g2, id) EXCEPT !.nodes[id] = Null, !.numErased = @ + 1]
  BY DEF erase
<1>3. g2 = IF g1.mainNode # id THEN g1
           ELSE [g1 EXCEPT !.mainNode = Null, !.entry = IF @ = id THEN Null ELSE @]
  BY DEF forgetMain
<1>4. forgetName(g2, id) =
        [g2 EXCEPT !.nameIdMap[g2.nodes[id].name] = RemoveAt(@, position(@, id))]
  BY DEF forgetName
<1> HIDE DEF g1, g2, E, A, B
<1>5. g2 = [size |-> g.size, nodes |-> g.nodes, nameIdMap |-> g.nameIdMap,
            edges |-> E, calleeList |-> A, callerList |-> B,
            mainNode |-> main, hasDuplicates |-> g.hasDuplicates,
            numErased |-> g.numErased, entry |-> entry]
  <2>1. CASE g.mainNode # id
    BY <1>1, <1>3, <2>1
  <2>2. CASE g.mainNode = id
    <3>1. g2 = [g1 EXCEPT !.mainNode = Null, !.entry = entry]
      BY <1>1, <1>3, <2>2
    <3> HIDE DEF entry
    <3> QED BY <1>1, <2>2, <3>1
  <2> QED BY <2>1, <2>2
<1> HIDE DEF main, entry
<1>6. forgetName(g2, id) = [g2 EXCEPT !.nameIdMap = [g.nameIdMap EXCEPT ![f] = L]]
  BY <1>4, <1>5
<1> HIDE DEF f, L
<1>7. forgetName(g2, id) =
           [size |-> g.size, nodes |-> g.nodes,
            nameIdMap |-> [g.nameIdMap EXCEPT ![f] = L],
            edges |-> E, calleeList |-> A, callerList |-> B,
            mainNode |-> main, hasDuplicates |-> g.hasDuplicates,
            numErased |-> g.numErased, entry |-> entry]
  BY <1>5, <1>6
<1>8. erase(g, id) =
           [size |-> g.size, nodes |-> [g.nodes EXCEPT ![id] = Null],
            nameIdMap |-> [g.nameIdMap EXCEPT ![f] = L],
            edges |-> E, calleeList |-> A, callerList |-> B,
            mainNode |-> main, hasDuplicates |-> g.hasDuplicates,
            numErased |-> g.numErased + 1, entry |-> entry]
  <2> DEFINE K == [g.nameIdMap EXCEPT ![f] = L]
             N == [g.nodes EXCEPT ![id] = Null]
             r == forgetName(g2, id)
  <2>1. r = [size |-> g.size, nodes |-> g.nodes, nameIdMap |-> K,
             edges |-> E, calleeList |-> A, callerList |-> B,
             mainNode |-> main, hasDuplicates |-> g.hasDuplicates,
             numErased |-> g.numErased, entry |-> entry]
    BY <1>7
  <2>2. erase(g, id) = [r EXCEPT !.nodes[id] = Null, !.numErased = @ + 1]
    BY <1>2
  <2> HIDE DEF K, r
  <2>3. erase(g, id) = [r EXCEPT !.nodes = N, !.numErased = g.numErased + 1]
    BY <2>1, <2>2
  <2> HIDE DEF N
  <2>4. erase(g, id) =
           [size |-> g.size, nodes |-> N, nameIdMap |-> K,
            edges |-> E, calleeList |-> A, callerList |-> B,
            mainNode |-> main, hasDuplicates |-> g.hasDuplicates,
            numErased |-> g.numErased + 1, entry |-> entry]
    BY <2>1, <2>3
  <2> QED BY <2>4 DEF K, N
<1> QED BY <1>8 DEF f, L, E, A, B, g1, main, entry

\* Erasing a node keeps the graph well formed, and nothing but the edges of
\* the node goes.
LEMMA EraseWellFormed ==
  ASSUME NEW g, WellFormed(g), NEW id \in Ids
  PROVE  WellFormed(erase(g, id))
<1>1. CASE ~ hasNode(g, id)
  BY <1>1 DEF erase
<1>2. CASE hasNode(g, id)
  <2> DEFINE h  == erase(g, id)
             g1 == eraseEdges(g, id)
             f  == g.nodes[id].name
             L  == RemoveAt(g.nameIdMap[f], position(g.nameIdMap[f], id))
             N  == [g.nodes EXCEPT ![id] = Null]
             K  == [g.nameIdMap EXCEPT ![f] = L]
             main  == IF g.mainNode = id THEN Null ELSE g.mainNode
             entry == IF g.mainNode = id /\ g.entry = id THEN Null ELSE g.entry
  <2>1. /\ GraphType(g1) /\ Adjacency(g1) /\ LiveEdges(g1)
        /\ \A e \in DOMAIN g1.edges : e[1] # id /\ e[2] # id
        /\ g1.size = g.size /\ g1.nodes = g.nodes
    <3>1. WellFormed(g1)
      BY EraseEdgesWellFormed
    <3>2. EdgesOnly(g, g1)
      BY EraseEdgesWellFormed
    <3>3. g1.edges = [e \in {d \in DOMAIN g.edges : id \notin {d[1], d[2]}} |-> g.edges[e]]
      BY EraseEdgesWellFormed
    <3> HIDE DEF g1
    <3>4. \A e \in DOMAIN g1.edges : e[1] # id /\ e[2] # id
      BY <3>3
    <3>5. g1.size = g.size /\ g1.nodes = g.nodes
      BY <3>2 DEF EdgesOnly
    <3> QED BY <3>1, <3>4, <3>5 DEF WellFormed
  <2>2. h = [size |-> g.size, nodes |-> N, nameIdMap |-> K,
             edges |-> g1.edges, calleeList |-> g1.calleeList, callerList |-> g1.callerList,
             mainNode |-> main, hasDuplicates |-> g.hasDuplicates,
             numErased |-> g.numErased + 1, entry |-> entry]
    BY <1>2, EraseFields
  <2>3. /\ f \in Names /\ id \in LiveIds(g) /\ id \in Nat
    <3>1. id \in Nat
      BY MaxSizeAssumption DEF Ids
    <3> QED BY <1>2, <3>1, LiveIdsFact DEF WellFormed, Node
  <2>4. /\ N \in [Ids -> Node \cup {Null}]
        /\ \A i \in Ids : N[i] = IF i = id THEN Null ELSE g.nodes[i]
    BY DEF WellFormed, GraphType
  <2>5. /\ g.nameIdMap \in [Names -> Seq(Ids)]
        /\ \A n \in Names :
              /\ ToSet(g.nameIdMap[n]) = {i \in LiveIds(g) : g.nodes[i].name = n}
              /\ \A j, k \in DOMAIN g.nameIdMap[n] :
                    j < k => g.nameIdMap[n][j] < g.nameIdMap[n][k]
    BY DEF WellFormed, GraphType, NameIndex
  <2>6. /\ L \in Seq(Ids)
        /\ ToSet(L) = ToSet(g.nameIdMap[f]) \ {id}
        /\ \A j, k \in DOMAIN L : j < k => L[j] < L[k]
    <3>1. id \in ToSet(g.nameIdMap[f])
      BY <2>3, <2>5
    <3>2. g.nameIdMap[f] \in Seq(Ids)
          /\ \A j, k \in DOMAIN g.nameIdMap[f] : j < k => g.nameIdMap[f][j] < g.nameIdMap[f][k]
      BY <2>3, <2>5
    <3> HIDE DEF f
    <3> QED BY <3>1, <3>2, RemoveFromNameList
  <2>7. /\ K \in [Names -> Seq(Ids)]
        /\ \A n \in Names : K[n] = IF n = f THEN L ELSE g.nameIdMap[n]
    <3> HIDE DEF f, L
    <3> QED BY <2>3, <2>5, <2>6
  <2>8. main \in Ids \cup {Null} /\ entry \in Ids \cup {Null, NoId}
    BY DEF WellFormed, GraphType
  <2>9. /\ g.size \in 0 .. MaxSize /\ g.hasDuplicates \in BOOLEAN
        /\ g.numErased + 1 \in Nat
    <3>1. g.numErased \in Nat /\ g.size \in 0 .. MaxSize /\ g.hasDuplicates \in BOOLEAN
      BY DEF WellFormed, GraphType
    <3> QED BY <3>1
  <2>10. main # Null => main = g.mainNode /\ main # id
    OBVIOUS
  <2>11. f = g.nodes[id].name
    OBVIOUS
  <2> HIDE DEF h, g1, N, K, main, entry, L, f
  <2>12. GraphType(h)
    BY <2>1, <2>2, <2>4, <2>7, <2>8, <2>9 DEF GraphType
  <2>13. \A i \in Ids : hasNode(h, i) <=> hasNode(g, i) /\ i # id
    BY <2>2, <2>4 DEF hasNode
  <2>14. LiveIds(h) = LiveIds(g) \ {id}
    BY <2>13 DEF LiveIds
  <2>15. Adjacency(h)
    <3>1. /\ h.edges = g1.edges /\ h.calleeList = g1.calleeList
          /\ h.callerList = g1.callerList
      BY <2>2
    <3>2. Adjacency(g1)
      BY <2>1
    <3> QED BY <3>1, <3>2, SameAdjacency
  <2>16. UnusedSlots(h)
    BY <2>2, <2>4 DEF WellFormed, UnusedSlots
  <2>17. LiveEdges(h)
    <3>1. \A e \in DOMAIN g1.edges : e[1] \in Ids /\ e[2] \in Ids
      BY <2>1 DEF GraphType
    <3>2. \A e \in DOMAIN g1.edges : hasNode(g, e[1]) /\ hasNode(g, e[2])
      BY <2>1 DEF LiveEdges, hasNode
    <3>3. \A e \in DOMAIN g1.edges : hasNode(h, e[1]) /\ hasNode(h, e[2])
      BY <2>1, <2>13, <3>1, <3>2
    <3> QED BY <2>2, <3>3 DEF LiveEdges
  <2>18. NameIndex(h)
    <3> SUFFICES ASSUME NEW n \in Names
                 PROVE  /\ ToSet(K[n]) = {i \in LiveIds(h) : h.nodes[i].name = n}
                        /\ \A j, k \in DOMAIN K[n] : j < k => K[n][j] < K[n][k]
      BY <2>2 DEF NameIndex
    <3>1. \A i \in LiveIds(h) : h.nodes[i].name = g.nodes[i].name
      BY <2>2, <2>4, <2>14 DEF LiveIds
    <3>2. {i \in LiveIds(h) : h.nodes[i].name = n}
            = {i \in LiveIds(g) : g.nodes[i].name = n} \ {id}
      BY <2>14, <3>1
    <3>3. CASE n = f
      BY <2>5, <2>6, <2>7, <3>2, <3>3
    <3>4. CASE n # f
      <4>1. K[n] = g.nameIdMap[n]
        BY <2>7, <3>4
      <4>2. id \notin {i \in LiveIds(g) : g.nodes[i].name = n}
        BY <2>11, <3>4
      <4> QED BY <2>5, <3>2, <4>1, <4>2
    <3> QED BY <3>3, <3>4
  <2>19. LiveMain(h)
    <3>1. h.mainNode = main /\ (g.mainNode # Null => g.mainNode \in Ids)
      BY <2>2 DEF WellFormed, GraphType
    <3> QED BY <2>10, <2>13, <3>1 DEF WellFormed, LiveMain
  <2>20. WellFormed(h)
    BY <2>12, <2>15, <2>16, <2>17, <2>18, <2>19 DEF WellFormed
  <2> QED BY <2>20 DEF h
<1> QED BY <1>1, <1>2

-----------------------------------------------------------------------------
(* The main function and the entry function metadata. *)

\* Operations that write mainNode and entry only.
MainOnly(g, h) ==
    h = [size |-> g.size, nodes |-> g.nodes, nameIdMap |-> g.nameIdMap,
         edges |-> g.edges, calleeList |-> g.calleeList, callerList |-> g.callerList,
         mainNode |-> h.mainNode, hasDuplicates |-> g.hasDuplicates,
         numErased |-> g.numErased, entry |-> h.entry]

\* Such an operation has to leave a live node, or none, in the cache.
LEMMA MainReplaced ==
  ASSUME NEW g, WellFormed(g), NEW h, MainOnly(g, h),
         h.mainNode \in Ids \cup {Null}, h.entry \in Ids \cup {Null, NoId},
         h.mainNode # Null => hasNode(g, h.mainNode)
  PROVE  WellFormed(h)
<1>1. /\ h.size = g.size /\ h.nodes = g.nodes /\ h.nameIdMap = g.nameIdMap
      /\ h.edges = g.edges /\ h.calleeList = g.calleeList /\ h.callerList = g.callerList
      /\ h.hasDuplicates = g.hasDuplicates /\ h.numErased = g.numErased
  BY DEF MainOnly
<1>2. GraphType(h)
  BY <1>1 DEF MainOnly, WellFormed, GraphType
<1>3. \A id : hasNode(h, id) <=> hasNode(g, id)
  BY <1>1 DEF hasNode
<1>4. LiveIds(h) = LiveIds(g)
  BY <1>3 DEF LiveIds
<1>5. Adjacency(h)
  <2>1. Adjacency(g)
    BY DEF WellFormed
  <2> QED BY <1>1, <2>1, SameAdjacency
<1>6. UnusedSlots(h) /\ LiveEdges(h) /\ LiveMain(h)
  BY <1>1, <1>3 DEF WellFormed, UnusedSlots, LiveEdges, LiveMain
<1>7. NameIndex(h)
  BY <1>1, <1>4 DEF WellFormed, NameIndex
<1> QED BY <1>2, <1>5, <1>6, <1>7 DEF WellFormed

\* getNode yields a live node, null or the exception.
LEMMA GetNodeRange ==
  ASSUME NEW g, GraphType(g), NEW id \in Ids
  PROVE  \/ getNode(g, id) = Null
         \/ getNode(g, id) = OutOfRange
         \/ getNode(g, id) = id /\ hasNode(g, id)
<1>1. id \in Nat /\ g.size \in Nat
  BY MaxSizeAssumption DEF Ids, GraphType
<1> QED BY <1>1 DEF getNode, hasNode

\* getMain yields the cached node, a live node, null or the exception.
LEMMA GetMainRange ==
  ASSUME NEW g, WellFormed(g), NEW force \in BOOLEAN
  PROVE  \/ getMain(g, force) = Null
         \/ getMain(g, force) = OutOfRange
         \/ getMain(g, force) \in Ids /\ hasNode(g, getMain(g, force))
<1> DEFINE Good(m) == m = Null \/ m = OutOfRange \/ (m \in Ids /\ hasNode(g, m))
<1>0. GraphType(g)
  BY DEF WellFormed
<1>1. Good(mainByEntry(g))
  BY <1>0, GetNodeRange DEF mainByEntry
<1>2. \A f \in Names : Good(getFirstNode(g, f))
  <2> SUFFICES ASSUME NEW f \in Names PROVE Good(getFirstNode(g, f))
    OBVIOUS
  <2>1. CASE g.nameIdMap[f] = <<>>
    BY <2>1 DEF getFirstNode
  <2>2. CASE g.nameIdMap[f] # <<>>
    <3>1. g.nameIdMap[f] \in Seq(Ids)
      BY <1>0 DEF GraphType
    <3>2. Head(g.nameIdMap[f]) \in Ids
      BY <2>2, <3>1, HeadTailProperties
    <3>3. getFirstNode(g, f) = getNode(g, Head(g.nameIdMap[f]))
      BY <2>2 DEF getFirstNode
    <3> QED BY <1>0, <3>2, <3>3, GetNodeRange
  <2> QED BY <2>1, <2>2
<1>3. \A k \in DOMAIN MainNames : Good(getFirstNode(g, MainNames[k]))
  BY <1>2, MainNamesAssumption
<1>4. Good(mainByName(g))
  <2> DEFINE node(k)  == getFirstNode(g, MainNames[k])
             first(k) == node(k) # Null /\ \A j \in 1 .. (k - 1) : node(j) = Null
             c == CHOOSE k \in DOMAIN MainNames : first(k)
  <2>1. CASE \E k \in DOMAIN MainNames : first(k)
    <3>1. c \in DOMAIN MainNames
      <4> HIDE DEF first
      <4> QED BY <2>1, Zenon
    <3>2. mainByName(g) = node(c)
      BY <2>1, Zenon DEF mainByName
    <3> HIDE DEF c
    <3> QED BY <1>3, <3>1, <3>2
  <2>2. CASE ~ \E k \in DOMAIN MainNames : first(k)
    <3>1. mainByName(g) = Null
      BY <2>2, Zenon DEF mainByName
    <3> QED BY <3>1
  <2> QED BY <2>1, <2>2
<1>5. Good(lookupMain(g))
  BY <1>1, <1>4 DEF lookupMain
<1>6. g.mainNode # Null => g.mainNode \in Ids /\ hasNode(g, g.mainNode)
  BY DEF WellFormed, GraphType, LiveMain
<1>7. Good(getMain(g, force))
  BY <1>5, <1>6 DEF getMain
<1> QED BY <1>7

\* Looking up the main node and caching it.
LEMMA CacheMainWellFormed ==
  ASSUME NEW g, WellFormed(g), NEW force \in BOOLEAN
  PROVE  WellFormed(cacheMain(g, force))
<1> DEFINE h == cacheMain(g, force)
           m == getMain(g, force)
           n == IF m = OutOfRange THEN Null ELSE m
<1>1. n \in Ids \cup {Null} /\ (n # Null => hasNode(g, n))
  BY GetMainRange
<1>2. h = [g EXCEPT !.mainNode = n]
  BY DEF cacheMain
<1> HIDE DEF n, h
<1>3. h = [size |-> g.size, nodes |-> g.nodes, nameIdMap |-> g.nameIdMap,
           edges |-> g.edges, calleeList |-> g.calleeList, callerList |-> g.callerList,
           mainNode |-> n, hasDuplicates |-> g.hasDuplicates,
           numErased |-> g.numErased, entry |-> g.entry]
  BY <1>2 DEF WellFormed, GraphType
<1>4. h.mainNode = n /\ h.entry = g.entry /\ MainOnly(g, h)
  BY <1>3 DEF MainOnly
<1>5. g.entry \in Ids \cup {Null, NoId}
  BY DEF WellFormed, GraphType
<1>6. WellFormed(h)
  BY <1>1, <1>4, <1>5, MainReplaced
<1> QED BY <1>6 DEF h

\* Writing the entry function metadata.
LEMMA SetEntryWellFormed ==
  ASSUME NEW g, WellFormed(g), NEW n \in Ids \cup {Null, NoId}
  PROVE  WellFormed(setEntryFunction(g, n))
<1> DEFINE h == setEntryFunction(g, n)
<1>1. h = [g EXCEPT !.entry = n]
  BY DEF setEntryFunction
<1> HIDE DEF h
<1>2. h = [size |-> g.size, nodes |-> g.nodes, nameIdMap |-> g.nameIdMap,
           edges |-> g.edges, calleeList |-> g.calleeList, callerList |-> g.callerList,
           mainNode |-> g.mainNode, hasDuplicates |-> g.hasDuplicates,
           numErased |-> g.numErased, entry |-> n]
  BY <1>1 DEF WellFormed, GraphType
<1>3. h.mainNode = g.mainNode /\ h.entry = n /\ MainOnly(g, h)
  BY <1>2 DEF MainOnly
<1>4. g.mainNode \in Ids \cup {Null} /\ (g.mainNode # Null => hasNode(g, g.mainNode))
  BY DEF WellFormed, GraphType, LiveMain
<1>5. WellFormed(h)
  BY <1>3, <1>4, MainReplaced
<1> QED BY <1>5 DEF h

-----------------------------------------------------------------------------
(* What each operation changes. *)

\* h is g with one more node: it has the next id, and the other nodes, their
\* lists and all edges stay.
OneNodeMore(g, h, f, attr) ==
    /\ h.size = g.size + 1 /\ g.size \in Ids
    /\ h.nodes[g.size] = newNode(f, attr)
    /\ \A id \in Ids \ {g.size} : h.nodes[id] = g.nodes[id]
    /\ LiveIds(h) = LiveIds(g) \cup {g.size} /\ g.size \notin LiveIds(g)
    /\ h.nameIdMap = [g.nameIdMap EXCEPT ![f] = Append(g.nameIdMap[f], g.size)]
    /\ h.edges = g.edges /\ h.entry = g.entry /\ h.mainNode = g.mainNode

LEMMA InsertEffect ==
  ASSUME NEW g, WellFormed(g), g.size < MaxSize, NEW f \in Names,
         NEW attr \in [origin : Origins, hasBody : BOOLEAN, isVirtual : BOOLEAN]
  PROVE  OneNodeMore(g, insert(g, f, attr), f, attr)
<1> DEFINE h     == insert(g, f, attr)
           node  == newNode(f, attr)
           nodes == [g.nodes EXCEPT ![g.size] = node]
           names == [g.nameIdMap EXCEPT ![f] = Append(g.nameIdMap[f], g.size)]
           dup   == g.hasDuplicates \/ isDuplicate(g, f)
<1>1. h = [size |-> g.size + 1, nodes |-> nodes, nameIdMap |-> names,
           edges |-> g.edges, calleeList |-> g.calleeList, callerList |-> g.callerList,
           mainNode |-> g.mainNode, hasDuplicates |-> dup,
           numErased |-> g.numErased, entry |-> g.entry]
  <2>1. h = [g EXCEPT !.size = g.size + 1, !.nodes = nodes, !.nameIdMap = names,
                      !.hasDuplicates = dup]
    BY DEF insert, nextId
  <2> QED BY <2>1 DEF WellFormed, GraphType
<1>2. g.size \in Ids /\ g.size \in Nat /\ Ids \subseteq Nat
  BY MaxSizeAssumption DEF WellFormed, GraphType, Ids
<1>3. node # Null
  BY NullAssumption DEF newNode, Node, OverrideMD, NewOverrideMD
<1>4. \A id \in Ids : nodes[id] = IF id = g.size THEN node ELSE g.nodes[id]
  <2> HIDE DEF node
  <2> QED BY <1>2 DEF WellFormed, GraphType
<1>5. /\ h.size = g.size + 1 /\ h.nodes = nodes /\ h.nameIdMap = names
      /\ h.edges = g.edges /\ h.entry = g.entry /\ h.mainNode = g.mainNode
  BY <1>1
<1> HIDE DEF h, node, nodes
<1>6. LiveIds(h) = LiveIds(g) \cup {g.size} /\ g.size \notin LiveIds(g)
  <2>1. ASSUME NEW id \in Ids PROVE hasNode(h, id) <=> hasNode(g, id) \/ id = g.size
    <3>1. id \in Nat /\ (id < g.size + 1 <=> id < g.size \/ id = g.size)
      BY <1>2
    <3> QED BY <1>3, <1>4, <1>5, <3>1 DEF hasNode
  <2>2. ~ hasNode(g, g.size)
    BY <1>2 DEF hasNode
  <2> QED BY <1>2, <2>1, <2>2 DEF LiveIds
<1>7. OneNodeMore(g, h, f, attr)
  BY <1>2, <1>4, <1>5, <1>6 DEF node, OneNodeMore
<1> QED BY <1>7 DEF h

\* A new edge has no metadata; the other edges and all nodes stay.
LEMMA AddEdgeInternalEffect ==
  ASSUME NEW g, WellFormed(g), NEW p, NEW c, NEW h, h = addEdgeInternal(g, p, c)
  PROVE  /\ EdgesOnly(g, h)
         /\ DOMAIN h.edges = DOMAIN g.edges \cup {<<p, c>>}
         /\ \A e \in DOMAIN g.edges : h.edges[e] = g.edges[e]
<1>1. CASE <<p, c>> \in DOMAIN g.edges
  BY <1>1 DEF addEdgeInternal, WellFormed, GraphType, EdgesOnly
<1>2. CASE <<p, c>> \notin DOMAIN g.edges
  <2> DEFINE E == [e \in DOMAIN g.edges \cup {<<p, c>>} |->
                     IF e = <<p, c>> THEN {} ELSE g.edges[e]]
             A == [g.calleeList EXCEPT ![p][c] = @ + 1]
             B == addCaller(g, p, c)
  <2>1. h = [g EXCEPT !.calleeList = A, !.callerList = B, !.edges = E]
    BY <1>2 DEF addEdgeInternal
  <2>2. DOMAIN E = DOMAIN g.edges \cup {<<p, c>>} /\ \A e \in DOMAIN g.edges : E[e] = g.edges[e]
    BY <1>2
  <2> HIDE DEF A, B, E
  <2>3. EdgesOnly(g, h) /\ h.edges = E
    BY <2>1 DEF WellFormed, GraphType, EdgesOnly
  <2> QED BY <2>2, <2>3
<1> QED BY <1>1, <1>2

\* h is g with an edge from p to c, if both are live nodes.
EdgeAdded(g, h, p, c) ==
    /\ EdgesOnly(g, h)
    /\ \A e \in DOMAIN g.edges : e \in DOMAIN h.edges /\ h.edges[e] = g.edges[e]
    /\ DOMAIN h.edges = DOMAIN g.edges \cup (IF hasNode(g, p) /\ hasNode(g, c)
                                            THEN {<<p, c>>} ELSE {})

\* addEdge by id adds an edge between live nodes or does nothing.
LEMMA AddEdgeEffect ==
  ASSUME NEW g, WellFormed(g), NEW p \in Nat, NEW c \in Nat
  PROVE  WellFormed(addEdge(g, p, c)) /\ EdgeAdded(g, addEdge(g, p, c), p, c)
<1> DEFINE h == addEdge(g, p, c)
<1>0. h = addEdge(g, p, c)
  OBVIOUS
<1> HIDE DEF h
<1>1. ASSUME getNode(g, p) \in Ids, getNode(g, c) \in Ids
      PROVE  WellFormed(h) /\ EdgeAdded(g, h, p, c)
  <2>1. hasNode(g, p) /\ hasNode(g, c) /\ h = addEdgeInternal(g, p, c)
    BY <1>0, <1>1, GetNodeFact DEF addEdge, WellFormed
  <2>2. WellFormed(h)
    BY <2>1, AddEdgeInternalWellFormed
  <2> QED BY <2>1, <2>2, AddEdgeInternalEffect DEF EdgeAdded
<1>2. ASSUME ~ (getNode(g, p) \in Ids /\ getNode(g, c) \in Ids)
      PROVE  WellFormed(h) /\ EdgeAdded(g, h, p, c)
  <2>1. h = g
    BY <1>0, <1>2 DEF addEdge
  <2>2. \A id \in Nat : hasNode(g, id) => getNode(g, id) \in Ids
    <3> SUFFICES ASSUME NEW id \in Nat, hasNode(g, id) PROVE getNode(g, id) \in Ids
      OBVIOUS
    <3>0. id \in Ids
      BY LiveIdsFact DEF WellFormed
    <3>1. id \in Ids /\ id < g.size /\ g.nodes[id] # Null /\ g.size \in Nat
      BY <3>0, MaxSizeAssumption DEF hasNode, WellFormed, GraphType
    <3>2. getNode(g, id) = id
      BY <3>1 DEF getNode
    <3> QED BY <3>1, <3>2
  <2>3. ~ (hasNode(g, p) /\ hasNode(g, c))
    BY <1>2, <2>2
  <2> QED BY <2>1, <2>3 DEF WellFormed, GraphType, EdgesOnly, EdgeAdded
<1> QED BY <1>1, <1>2 DEF h

\* removeEdge takes one edge, if it is there.
LEMMA RemoveEdgeEffect ==
  ASSUME NEW g, WellFormed(g), NEW p, NEW c, NEW h, h = removeEdge(g, p, c)
  PROVE  /\ EdgesOnly(g, h)
         /\ DOMAIN h.edges = DOMAIN g.edges \ {<<p, c>>}
         /\ \A e \in DOMAIN h.edges : h.edges[e] = g.edges[e]
<1>1. CASE <<p, c>> \notin DOMAIN g.edges
  BY <1>1 DEF removeEdge, WellFormed, GraphType, EdgesOnly
<1>2. CASE <<p, c>> \in DOMAIN g.edges
  <2> DEFINE E == [e \in DOMAIN g.edges \ {<<p, c>>} |-> g.edges[e]]
             A == [g.calleeList EXCEPT ![p][c] = @ - 1]
             B == [g.callerList EXCEPT ![c][p] = @ - 1]
  <2>1. h = [g EXCEPT !.calleeList = A, !.callerList = B, !.edges = E]
    BY <1>2 DEF removeEdge
  <2>2. DOMAIN E = DOMAIN g.edges \ {<<p, c>>} /\ \A e \in DOMAIN E : E[e] = g.edges[e]
    OBVIOUS
  <2> HIDE DEF A, B, E
  <2>3. EdgesOnly(g, h) /\ h.edges = E
    BY <2>1 DEF WellFormed, GraphType, EdgesOnly
  <2> QED BY <2>2, <2>3
<1> QED BY <1>1, <1>2

\* h is g with other metadata under one key.
MetadataReplaced(g, h, key) ==
    /\ EdgesOnly(g, h)
    /\ DOMAIN h.edges = DOMAIN g.edges
    /\ \A d \in DOMAIN g.edges : \A m \in g.edges[d] :
          /\ \E n \in h.edges[d] : n[1] = m[1]
          /\ m[1] # key => m \in h.edges[d]

\* Metadata replaces metadata of its own key on its own edge and no other.
LEMMA AddEdgeMetaDataEffect ==
  ASSUME NEW g, WellFormed(g), NEW e, NEW kind, NEW typed
  PROVE  MetadataReplaced(g, addEdgeMetaData(g, e, kind, typed), edgeMdKey(kind, typed))
<1> DEFINE h == addEdgeMetaData(g, e, kind, typed)
<1>0. h = addEdgeMetaData(g, e, kind, typed)
  OBVIOUS
<1> HIDE DEF h
<1>1. ASSUME e \notin DOMAIN g.edges PROVE MetadataReplaced(g, h, edgeMdKey(kind, typed))
  <2>1. h = g
    BY <1>0, <1>1 DEF addEdgeMetaData
  <2> QED BY <2>1 DEF WellFormed, GraphType, EdgesOnly, MetadataReplaced
<1>2. ASSUME e \in DOMAIN g.edges PROVE MetadataReplaced(g, h, edgeMdKey(kind, typed))
  <2> DEFINE key == edgeMdKey(kind, typed)
             md  == {m \in g.edges[e] : m[1] # key} \cup {<<key, kind>>}
             E   == [g.edges EXCEPT ![e] = md]
  <2>1. h = [g EXCEPT !.edges = E]
    BY <1>0, <1>2 DEF addEdgeMetaData
  <2>2. EdgesOnly(g, h) /\ h.edges = E
    BY <2>1 DEF WellFormed, GraphType, EdgesOnly
  <2>3. g.edges \in [DOMAIN g.edges -> SUBSET (MdKeys \X MdKinds)]
    BY DEF WellFormed, GraphType
  <2>4. \A m \in g.edges[e] : (\E n \in md : n[1] = m[1]) /\ (m[1] # key => m \in md)
    <3> HIDE DEF key
    <3> SUFFICES ASSUME NEW m \in g.edges[e]
                 PROVE  (\E n \in md : n[1] = m[1]) /\ (m[1] # key => m \in md)
      OBVIOUS
    <3>1. <<key, kind>> \in md /\ <<key, kind>>[1] = key
      OBVIOUS
    <3>2. m[1] # key => m \in md
      OBVIOUS
    <3> HIDE DEF md
    <3> QED BY <3>1, <3>2
  <2> HIDE DEF md, key
  <2>5. DOMAIN E = DOMAIN g.edges /\ \A d \in DOMAIN g.edges : E[d] = IF d = e THEN md ELSE g.edges[d]
    BY <2>3
  <2> HIDE DEF E
  <2> QED BY <2>2, <2>4, <2>5 DEF key, MetadataReplaced
<1> QED BY <1>1, <1>2 DEF h

-----------------------------------------------------------------------------
(* Single nodes. *)

\* The first node of a name is live and has the name.
LEMMA FirstOfName ==
  ASSUME NEW g, WellFormed(g), NEW f \in Names, g.nameIdMap[f] # <<>>
  PROVE  /\ Head(g.nameIdMap[f]) \in LiveIds(g)
         /\ Head(g.nameIdMap[f]) \in Ids
         /\ g.nodes[Head(g.nameIdMap[f])].name = f
<1>1. g.nameIdMap[f] \in Seq(Ids)
  BY DEF WellFormed, GraphType
<1>2. 1 \in DOMAIN g.nameIdMap[f] /\ Head(g.nameIdMap[f]) = g.nameIdMap[f][1]
  BY <1>1
<1>3. Head(g.nameIdMap[f]) \in ToSet(g.nameIdMap[f])
  BY <1>2 DEF ToSet
<1>4. ToSet(g.nameIdMap[f]) = {id \in LiveIds(g) : g.nodes[id].name = f}
  BY DEF WellFormed, NameIndex
<1> QED BY <1>3, <1>4 DEF LiveIds

\* A live node has a name, and the list of that name is not empty.
LEMMA NamedNode ==
  ASSUME NEW g, WellFormed(g), NEW id \in LiveIds(g)
  PROVE  /\ id \in Ids /\ id \in Nat /\ id < g.size
         /\ g.nodes[id] \in Node /\ g.nodes[id] # Null /\ g.nodes[id].name \in Names
         /\ g.nameIdMap[g.nodes[id].name] # <<>>
<1>1. id \in Ids /\ hasNode(g, id) /\ id \in Nat
  BY MaxSizeAssumption DEF LiveIds, Ids
<1>2. id < g.size /\ g.nodes[id] \in Node /\ g.nodes[id] # Null
  BY <1>1, LiveIdsFact DEF WellFormed, hasNode
<1>3. g.nodes[id].name \in Names
  BY <1>2 DEF Node
<1>4. ToSet(g.nameIdMap[g.nodes[id].name])
        = {i \in LiveIds(g) : g.nodes[i].name = g.nodes[id].name}
  BY <1>3 DEF WellFormed, NameIndex
<1>5. id \in ToSet(g.nameIdMap[g.nodes[id].name])
  BY <1>4
<1>6. ToSet(<<>>) = {}
  BY DEF ToSet
<1> QED BY <1>1, <1>2, <1>3, <1>5, <1>6

\* h is g with another node n at id.
OneNodeChanged(g, h, id, n) ==
    /\ h.size = g.size /\ LiveIds(h) = LiveIds(g) /\ h.nameIdMap = g.nameIdMap
    /\ h.nodes[id] = n /\ \A i \in Ids \ {id} : h.nodes[i] = g.nodes[i]
    /\ h.edges = g.edges /\ h.entry = g.entry /\ h.mainNode = g.mainNode

\* A node may change all but its name.
LEMMA NodeChanged ==
  ASSUME NEW g, WellFormed(g), NEW id \in LiveIds(g), NEW n \in Node,
         n.name = g.nodes[id].name
  PROVE  /\ WellFormed([g EXCEPT !.nodes[id] = n])
         /\ OneNodeChanged(g, [g EXCEPT !.nodes[id] = n], id, n)
<1> DEFINE N == [g.nodes EXCEPT ![id] = n]
           h == [g EXCEPT !.nodes[id] = n]
<1>0. id \in Ids /\ n # Null /\ hasNode(g, id)
  BY NullAssumption DEF LiveIds
<1>1. /\ N \in [Ids -> Node \cup {Null}]
      /\ \A i \in Ids : N[i] = IF i = id THEN n ELSE g.nodes[i]
  BY <1>0 DEF WellFormed, GraphType
<1>2. h = [g EXCEPT !.nodes = N]
  OBVIOUS
<1> HIDE DEF N, h
<1>3. h = [size |-> g.size, nodes |-> N, nameIdMap |-> g.nameIdMap,
           edges |-> g.edges, calleeList |-> g.calleeList, callerList |-> g.callerList,
           mainNode |-> g.mainNode, hasDuplicates |-> g.hasDuplicates,
           numErased |-> g.numErased, entry |-> g.entry]
  BY <1>2 DEF WellFormed, GraphType
<1>4. /\ h.size = g.size /\ h.nodes = N /\ h.nameIdMap = g.nameIdMap /\ h.edges = g.edges
      /\ h.calleeList = g.calleeList /\ h.callerList = g.callerList
      /\ h.mainNode = g.mainNode /\ h.entry = g.entry
  BY <1>3
<1>5. \A i \in Ids : hasNode(h, i) <=> hasNode(g, i)
  BY <1>0, <1>1, <1>4 DEF hasNode
<1>6. LiveIds(h) = LiveIds(g)
  BY <1>5 DEF LiveIds
<1>7. OneNodeChanged(g, h, id, n)
  BY <1>0, <1>1, <1>4, <1>6 DEF OneNodeChanged
<1>8. GraphType(h)
  BY <1>1, <1>3 DEF WellFormed, GraphType
<1>9. Adjacency(h)
  BY <1>4, SameAdjacency DEF WellFormed
<1>10. UnusedSlots(h)
  BY <1>0, <1>1, <1>4, MaxSizeAssumption DEF WellFormed, UnusedSlots, hasNode, GraphType, Ids
<1>11. LiveEdges(h)
  <2>1. \A e \in DOMAIN g.edges : e[1] \in Ids /\ e[2] \in Ids
    BY DEF WellFormed, GraphType
  <2> QED BY <1>4, <1>5, <2>1 DEF WellFormed, LiveEdges
<1>12. NameIndex(h)
  <2>1. \A i \in LiveIds(g) : h.nodes[i].name = g.nodes[i].name
    BY <1>1, <1>4 DEF LiveIds
  <2> QED BY <1>4, <1>6, <2>1 DEF WellFormed, NameIndex
<1>13. LiveMain(h)
  <2>1. g.mainNode # Null => g.mainNode \in Ids
    BY DEF WellFormed, GraphType
  <2> QED BY <1>4, <1>5, <2>1 DEF WellFormed, LiveMain
<1>14. WellFormed(h)
  BY <1>8, <1>9, <1>10, <1>11, <1>12, <1>13 DEF WellFormed
<1> QED BY <1>7, <1>14 DEF h
=============================================================================
