--------------------------- MODULE CallgraphProofs ---------------------------
(***************************************************************************)
(* Every graph a client of class Callgraph can build is well formed, for   *)
(* any number of nodes, names and edges, and every call of a member        *)
(* function has one of the effects CallgraphAbs allows.                    *)
(***************************************************************************)
EXTENDS CallgraphClient, CallgraphTheorems

-----------------------------------------------------------------------------
(* The state machine. *)

\* Every step keeps the graph well formed.
LEMMA NextWellFormed ==
  ASSUME WellFormed(cg), [Next]_cg
  PROVE  WellFormed(cg')
<1>0. GraphType(cg)
  BY DEF WellFormed
<1>1. ASSUME NEW f \in Names, NEW attr \in Attrs, Insert(f, attr) \/ GetOrInsertNode(f, attr)
      PROVE  WellFormed(cg')
  <2>1. attr \in [origin : Origins, hasBody : BOOLEAN, isVirtual : BOOLEAN]
    BY AttrsAssumption
  <2>2. cg.size < MaxSize /\ cg' \in {cg, insert(cg, f, attr)}
    BY <1>1 DEF Insert, GetOrInsertNode, getOrInsertNode
  <2>3. WellFormed(insert(cg, f, attr))
    BY <2>1, <2>2, InsertWellFormed
  <2> QED BY <2>2, <2>3
<1>2. ASSUME NEW id \in Ids, EraseNode(id) PROVE WellFormed(cg')
  <2>1. WellFormed(erase(cg, id))
    BY EraseWellFormed
  <2> QED BY <1>2, <2>1 DEF EraseNode
<1>3. CASE Clear
  <2>1. WellFormed(clear(cg))
    BY ClearWellFormed
  <2> QED BY <1>3, <2>1 DEF Clear
<1>4. ASSUME NEW p \in NodeRefs(cg), NEW c \in NodeRefs(cg),
             AddEdgeNodes(p, c) \/ RemoveEdgeNodes(p, c)
      PROVE  WellFormed(cg')
  <2>1. p.id \in Ids /\ c.id \in Ids
    BY DEF NodeRefs, LiveIds
  <2>2. WellFormed(removeEdge(cg, p.id, c.id))
    BY <2>1, RemoveEdgeWellFormed
  <2>3. CASE AddEdgeNodes(p, c)
    <3>1. CASE hasNodeRef(cg, p) /\ hasNodeRef(cg, c)
      <4>1. hasNode(cg, p.id) /\ hasNode(cg, c.id)
        BY <3>1 DEF hasNodeRef, hasNode
      <4>2. WellFormed(addEdgeInternal(cg, p.id, c.id))
        <5>1. p.id \in Nat /\ c.id \in Nat
          BY <2>1, MaxSizeAssumption DEF Ids
        <5> QED BY <4>1, <5>1, AddEdgeInternalWellFormed
      <4> QED BY <2>3, <3>1, <4>2 DEF AddEdgeNodes, addEdgeNodes
    <3>2. CASE ~ (hasNodeRef(cg, p) /\ hasNodeRef(cg, c))
      BY <2>3, <3>2 DEF AddEdgeNodes, addEdgeNodes
    <3> QED BY <3>1, <3>2
  <2>4. CASE RemoveEdgeNodes(p, c)
    BY <2>2, <2>4 DEF RemoveEdgeNodes, removeEdgeNodes
  <2> QED BY <1>4, <2>3, <2>4
<1>5. ASSUME NEW p \in Nat, NEW c \in Nat
      PROVE  WellFormed(addEdge(cg, p, c)) /\ WellFormed(removeEdge(cg, p, c))
  <2>1. WellFormed(addEdge(cg, p, c))
    BY AddEdgeEffect
  <2>2. WellFormed(removeEdge(cg, p, c))
    <3>1. CASE <<p, c>> \in DOMAIN cg.edges
      <4>1. p \in Ids /\ c \in Ids
        BY <1>0, <3>1 DEF GraphType
      <4> QED BY <4>1, RemoveEdgeWellFormed
    <3>2. CASE <<p, c>> \notin DOMAIN cg.edges
      BY <3>2 DEF removeEdge
    <3> QED BY <3>1, <3>2
  <2> QED BY <2>1, <2>2
<1>6. ASSUME NEW p \in 0 .. MaxSize, NEW c \in 0 .. MaxSize, AddEdge(p, c) \/ RemoveEdge(p, c)
      PROVE  WellFormed(cg')
  <2>1. p \in Nat /\ c \in Nat
    BY MaxSizeAssumption
  <2> QED BY <1>5, <1>6, <2>1 DEF AddEdge, RemoveEdge
<1>7. ASSUME NEW f \in Names, NEW h \in Names, AddEdgeNames(f, h) \/ RemoveEdgeNames(f, h)
      PROVE  WellFormed(cg')
  <2>1. CASE hasSingleNode(cg, f) /\ hasSingleNode(cg, h)
    <3> DEFINE p == Head(cg.nameIdMap[f])
               c == Head(cg.nameIdMap[h])
    <3>1. /\ cg.nameIdMap[f] \in Seq(Ids) /\ cg.nameIdMap[f] # <<>>
          /\ cg.nameIdMap[h] \in Seq(Ids) /\ cg.nameIdMap[h] # <<>>
      <4>1. \A s \in Seq(Ids) : Len(s) = 1 => s # <<>>
        OBVIOUS
      <4>2. cg.nameIdMap[f] \in Seq(Ids) /\ cg.nameIdMap[h] \in Seq(Ids)
        BY <1>0 DEF GraphType
      <4>3. Len(cg.nameIdMap[f]) = 1 /\ Len(cg.nameIdMap[h]) = 1
        BY <2>1 DEF hasSingleNode
      <4> QED BY <4>1, <4>2, <4>3
    <3>2. p \in Ids /\ c \in Ids
      BY <3>1, HeadTailProperties
    <3>3. p \in Nat /\ c \in Nat
      BY <3>2, MaxSizeAssumption DEF Ids
    <3>4. cg' = addEdge(cg, p, c) \/ cg' = removeEdge(cg, p, c)
      BY <1>7, <2>1 DEF AddEdgeNames, RemoveEdgeNames, addEdgeNames, removeEdgeNames
    <3> HIDE DEF p, c
    <3> QED BY <1>5, <3>3, <3>4
  <2>2. CASE ~ (hasSingleNode(cg, f) /\ hasSingleNode(cg, h))
    BY <1>7, <2>2 DEF AddEdgeNames, RemoveEdgeNames, addEdgeNames, removeEdgeNames
  <2> QED BY <2>1, <2>2
<1>8. ASSUME NEW e \in Ids \X Ids, NEW kind \in MdKinds, NEW typed \in BOOLEAN,
             AddEdgeMetaData(e, kind, typed)
      PROVE  WellFormed(cg')
  <2>1. WellFormed(addEdgeMetaData(cg, e, kind, typed))
    BY AddEdgeMetaDataWellFormed
  <2> QED BY <1>8, <2>1 DEF AddEdgeMetaData
<1>9. ASSUME NEW force \in BOOLEAN, GetMain(force) PROVE WellFormed(cg')
  <2>1. WellFormed(cacheMain(cg, force))
    BY CacheMainWellFormed
  <2> QED BY <1>9, <2>1 DEF GetMain
<1>10. ASSUME NEW n \in Ids \cup {Null}, cg' = setEntryFunction(cg, n) PROVE WellFormed(cg')
  <2>1. WellFormed(setEntryFunction(cg, n))
    BY SetEntryWellFormed
  <2> QED BY <1>10, <2>1
<1>11. ASSUME NEW id \in LiveIds(cg), SetEntryFunction(id) PROVE WellFormed(cg')
  BY <1>10, <1>11 DEF SetEntryFunction, LiveIds
<1>12. CASE EraseEntryFunction
  BY <1>10, <1>12 DEF EraseEntryFunction
<1>13. CASE cg' = cg
  BY <1>13
<1> QED BY <1>1, <1>2, <1>3, <1>4, <1>6, <1>7, <1>8, <1>9, <1>11, <1>12, <1>13 DEF Next

\* Every graph a client can build with the member functions of class
\* Callgraph, in any order, is well formed.
THEOREM AlwaysWellFormed == Spec => []WellFormed(cg)
<1>1. Init => WellFormed(cg)
  BY EmptyGraphWellFormed DEF Init
<1>2. WellFormed(cg) /\ [Next]_cg => WellFormed(cg)'
  BY NextWellFormed
<1> QED BY <1>1, <1>2, PTL DEF Spec

\* The members of the graph keep their types; in particular no entry of a
\* caller or callee list is removed that is not there.
THEOREM TypeCorrect == Spec => []TypeOK
<1>1. WellFormed(cg) => TypeOK
  BY DEF WellFormed, TypeOK
<1> QED BY <1>1, AlwaysWellFormed, PTL

\* edges, calleeList and callerList always describe one relation.
THEOREM AdjacencyAlwaysAgrees == Spec => []AdjacencyAgrees
<1>1. WellFormed(cg) => AdjacencyAgrees
  BY DEF WellFormed, AdjacencyAgrees
<1> QED BY <1>1, AlwaysWellFormed, PTL

\* No edge ever touches an erased node.
THEOREM EdgesAlwaysLive == Spec => []EdgesLive
<1>1. WellFormed(cg) => EdgesLive
  BY DEF WellFormed, EdgesLive
<1> QED BY <1>1, AlwaysWellFormed, PTL

\* nameIdMap is always an exact index of the live nodes.
THEOREM NameIndexAlwaysExact == Spec => []NameIndexExact
<1>1. WellFormed(cg) => NameIndexExact
  BY DEF WellFormed, NameIndexExact
<1> QED BY <1>1, AlwaysWellFormed, PTL

\* The cached main node is never one that was erased.
THEOREM MainCacheAlwaysLive == Spec => []MainCacheLive
<1>1. WellFormed(cg) => MainCacheLive
  BY DEF WellFormed, MainCacheLive
<1> QED BY <1>1, AlwaysWellFormed, PTL

\* A step that erases a node takes exactly its edges.
EraseStep ==
    \A id \in Ids : EraseNode(id) =>
       cg'.edges = [e \in {d \in DOMAIN cg.edges : hasNode(cg, id) => id \notin {d[1], d[2]}}
                      |-> cg.edges[e]]

\* A step of erase is one.
LEMMA EraseStepHolds ==
  ASSUME WellFormed(cg)
  PROVE  EraseStep
<1> SUFFICES ASSUME NEW id \in Ids, EraseNode(id)
             PROVE  cg'.edges =
                      [e \in {d \in DOMAIN cg.edges : hasNode(cg, id) => id \notin {d[1], d[2]}}
                         |-> cg.edges[e]]
  BY DEF EraseStep
<1>1. cg' = erase(cg, id)
  BY DEF EraseNode
<1>2. CASE ~ hasNode(cg, id)
  <2>1. cg' = cg
    BY <1>1, <1>2 DEF erase
  <2>2. cg.edges = [e \in DOMAIN cg.edges |-> cg.edges[e]]
    BY DEF WellFormed, GraphType
  <2>3. {d \in DOMAIN cg.edges : hasNode(cg, id) => id \notin {d[1], d[2]}} = DOMAIN cg.edges
    BY <1>2
  <2> QED BY <2>1, <2>2, <2>3
<1>3. CASE hasNode(cg, id)
  <2>1. cg'.edges = eraseEdges(cg, id).edges
    BY <1>1, <1>3, EraseFields
  <2>2. eraseEdges(cg, id).edges =
          [e \in {d \in DOMAIN cg.edges : id \notin {d[1], d[2]}} |-> cg.edges[e]]
    BY EraseEdgesWellFormed
  <2>3. {d \in DOMAIN cg.edges : hasNode(cg, id) => id \notin {d[1], d[2]}}
          = {d \in DOMAIN cg.edges : id \notin {d[1], d[2]}}
    BY <1>3
  <2> QED BY <2>1, <2>2, <2>3
<1> QED BY <1>2, <1>3

\* erase takes away the edges of the erased node and no other edge, and the
\* edges that stay keep their metadata.
THEOREM EraseTakesItsEdgesOnly == Spec => EraseFrame
<1>1. WellFormed(cg) => EraseStep
  BY EraseStepHolds
<1>2. EraseFrame <=> [][EraseStep]_cg
  BY PTL DEF EraseFrame, EraseStep
<1> QED BY <1>1, <1>2, AlwaysWellFormed, PTL DEF Spec

-----------------------------------------------------------------------------
(* Refinement. *)

\* Same functions, same calls: nothing an interface of the graph shows.
SameView(g, h) ==
    /\ h.size = g.size /\ DOMAIN h.edges = DOMAIN g.edges
    /\ LiveIds(h) = LiveIds(g)
    /\ \A id \in LiveIds(g) : h.nodes[id] = g.nodes[id]

LEMMA SameViewStutters ==
  ASSUME SameView(cg, cg')
  PROVE  UNCHANGED Abs!absVars
<1>1. [id \in LiveIds(cg') |-> cg'.nodes[id].name] = [id \in LiveIds(cg) |-> cg.nodes[id].name]
  BY DEF SameView
<1> QED BY <1>1 DEF SameView, Abs!absVars

\* An operation that changes other members than the nodes.
LEMMA NodesUntouched ==
  ASSUME NEW g, NEW h, h.size = g.size, h.nodes = g.nodes
  PROVE  LiveIds(h) = LiveIds(g) /\ \A id \in LiveIds(g) : h.nodes[id] = g.nodes[id]
  BY DEF LiveIds, hasNode

\* insert adds one function.
LEMMA InsertRefines ==
  ASSUME WellFormed(cg), NEW f \in Names, NEW attr \in Attrs, cg.size < MaxSize,
         cg' = insert(cg, f, attr)
  PROVE  Abs!AbsNext
<1>1. attr \in [origin : Origins, hasBody : BOOLEAN, isVirtual : BOOLEAN]
  BY AttrsAssumption
<1>2. /\ cg'.size = cg.size + 1
      /\ cg'.nodes[cg.size] = newNode(f, attr)
      /\ \A id \in Ids \ {cg.size} : cg'.nodes[id] = cg.nodes[id]
      /\ LiveIds(cg') = LiveIds(cg) \cup {cg.size} /\ cg.size \notin LiveIds(cg)
      /\ cg'.edges = cg.edges
  <2>1. OneNodeMore(cg, insert(cg, f, attr), f, attr)
    BY <1>1, InsertEffect
  <2> QED BY <2>1 DEF OneNodeMore
<1>3. newNode(f, attr).name = f
  BY DEF newNode
<1>4. LiveIds(cg) \subseteq Ids
  BY DEF LiveIds
<1> DEFINE fun == [id \in LiveIds(cg) |-> cg.nodes[id].name]
<1>5. [id \in LiveIds(cg') |-> cg'.nodes[id].name]
        = [i \in DOMAIN fun \cup {cg.size} |-> IF i = cg.size THEN f ELSE fun[i]]
  BY <1>2, <1>3, <1>4
<1>6. Abs!AddFunction(f)
  BY <1>2, <1>5 DEF Abs!AddFunction
<1> QED BY <1>6 DEF Abs!AbsNext

\* erase removes one function with its calls, or does nothing.
LEMMA EraseRefines ==
  ASSUME WellFormed(cg), NEW id \in Ids, cg' = erase(cg, id)
  PROVE  [Abs!AbsNext]_(Abs!absVars)
<1>1. CASE ~ hasNode(cg, id)
  <2>1. cg' = cg
    BY <1>1 DEF erase
  <2> QED BY <2>1 DEF Abs!absVars
<1>2. CASE hasNode(cg, id)
  <2> DEFINE N == [cg.nodes EXCEPT ![id] = Null]
             fun == [i \in LiveIds(cg) |-> cg.nodes[i].name]
             E == eraseEdges(cg, id).edges
  <2>1. cg'.size = cg.size /\ cg'.nodes = N /\ cg'.edges = E
    BY <1>2, EraseFields
  <2>2. \A i \in Ids : N[i] = IF i = id THEN Null ELSE cg.nodes[i]
    BY DEF WellFormed, GraphType
  <2>3. DOMAIN E = {e \in DOMAIN cg.edges : e[1] # id /\ e[2] # id}
    <3>1. E = [e \in {d \in DOMAIN cg.edges : id \notin {d[1], d[2]}} |-> cg.edges[e]]
      BY EraseEdgesWellFormed
    <3> QED BY <3>1
  <2> HIDE DEF N, E
  <2>4. LiveIds(cg') = LiveIds(cg) \ {id} /\ id \in LiveIds(cg)
    BY <1>2, <2>1, <2>2 DEF LiveIds, hasNode
  <2>5. \A i \in LiveIds(cg) \ {id} : cg'.nodes[i] = cg.nodes[i]
    BY <2>1, <2>2 DEF LiveIds
  <2>6. [i \in LiveIds(cg') |-> cg'.nodes[i].name] = [j \in DOMAIN fun \ {id} |-> fun[j]]
    BY <2>4, <2>5
  <2>7. Abs!RemoveFunction(id)
    BY <2>1, <2>3, <2>4, <2>6 DEF Abs!RemoveFunction
  <2> QED BY <2>4, <2>7 DEF Abs!AbsNext
<1> QED BY <1>1, <1>2

\* Adding an edge between live nodes adds one call.
LEMMA AddEdgeRefines ==
  ASSUME WellFormed(cg), NEW p \in LiveIds(cg), NEW c \in LiveIds(cg),
         EdgesOnly(cg, cg'), DOMAIN cg'.edges = DOMAIN cg.edges \cup {<<p, c>>}
  PROVE  Abs!AbsNext
<1>1. cg'.size = cg.size /\ cg'.nodes = cg.nodes
  BY DEF EdgesOnly
<1>2. [id \in LiveIds(cg') |-> cg'.nodes[id].name] = [id \in LiveIds(cg) |-> cg.nodes[id].name]
  BY <1>1, NodesUntouched
<1>3. Abs!AddCall(p, c)
  BY <1>1, <1>2 DEF Abs!AddCall
<1> QED BY <1>3 DEF Abs!AbsNext

\* An operation that does nothing to nodes and edges.
LEMMA NoEdgeRefines ==
  ASSUME EdgesOnly(cg, cg'), DOMAIN cg'.edges = DOMAIN cg.edges
  PROVE  UNCHANGED Abs!absVars
<1>1. cg'.size = cg.size /\ cg'.nodes = cg.nodes
  BY DEF EdgesOnly
<1> QED BY <1>1, NodesUntouched, SameViewStutters DEF SameView

\* Adding an edge by ids adds one call or does nothing.
LEMMA AddEdgeIdsRefines ==
  ASSUME WellFormed(cg), NEW p \in Nat, NEW c \in Nat, cg' = addEdge(cg, p, c)
  PROVE  [Abs!AbsNext]_(Abs!absVars)
<1>1. /\ EdgesOnly(cg, cg')
      /\ DOMAIN cg'.edges = DOMAIN cg.edges \cup (IF hasNode(cg, p) /\ hasNode(cg, c)
                                                 THEN {<<p, c>>} ELSE {})
  BY AddEdgeEffect DEF EdgeAdded
<1>2. CASE hasNode(cg, p) /\ hasNode(cg, c)
  <2>1. p \in LiveIds(cg) /\ c \in LiveIds(cg)
    BY <1>2, LiveIdsFact DEF WellFormed
  <2>2. Abs!AbsNext
    BY <1>1, <1>2, <2>1, AddEdgeRefines
  <2> QED BY <2>2
<1>3. CASE ~ (hasNode(cg, p) /\ hasNode(cg, c))
  <2>1. UNCHANGED Abs!absVars
    BY <1>1, <1>3, NoEdgeRefines
  <2> QED BY <2>1
<1> QED BY <1>2, <1>3

\* Removing an edge removes one call or does nothing.
LEMMA RemoveEdgeRefines ==
  ASSUME WellFormed(cg), NEW p, NEW c, cg' = removeEdge(cg, p, c)
  PROVE  [Abs!AbsNext]_(Abs!absVars)
<1>1. EdgesOnly(cg, cg') /\ DOMAIN cg'.edges = DOMAIN cg.edges \ {<<p, c>>}
  BY RemoveEdgeEffect
<1>2. CASE <<p, c>> \in DOMAIN cg.edges
  <2>1. cg'.size = cg.size /\ cg'.nodes = cg.nodes
    BY <1>1 DEF EdgesOnly
  <2>2. [id \in LiveIds(cg') |-> cg'.nodes[id].name] = [id \in LiveIds(cg) |-> cg.nodes[id].name]
    BY <2>1, NodesUntouched
  <2>3. Abs!RemoveCall(<<p, c>>)
    BY <1>1, <2>1, <2>2 DEF Abs!RemoveCall
  <2>4. Abs!AbsNext
    BY <1>2, <2>3 DEF Abs!AbsNext
  <2> QED BY <2>4
<1>3. CASE <<p, c>> \notin DOMAIN cg.edges
  <2>1. UNCHANGED Abs!absVars
    BY <1>1, <1>3, NoEdgeRefines
  <2> QED BY <2>1
<1> QED BY <1>2, <1>3

\* Every call of a member function maps to one step of CallgraphAbs or to none.
LEMMA NextRefines ==
  ASSUME WellFormed(cg), [Next]_cg
  PROVE  [Abs!AbsNext]_(Abs!absVars)
<1>0. Ids \subseteq Nat /\ 0 .. MaxSize \subseteq Nat
  BY MaxSizeAssumption DEF Ids
<1>1. ASSUME NEW f \in Names, NEW attr \in Attrs, Insert(f, attr) \/ GetOrInsertNode(f, attr)
      PROVE  [Abs!AbsNext]_(Abs!absVars)
  <2>1. cg.size < MaxSize /\ (cg' = cg \/ cg' = insert(cg, f, attr))
    BY <1>1 DEF Insert, GetOrInsertNode, getOrInsertNode
  <2>2. CASE cg' = cg
    BY <2>2 DEF Abs!absVars
  <2>3. CASE cg' = insert(cg, f, attr)
    <3>1. Abs!AbsNext
      BY <2>1, <2>3, InsertRefines
    <3> QED BY <3>1
  <2> QED BY <2>1, <2>2, <2>3
<1>2. ASSUME NEW id \in Ids, EraseNode(id) PROVE [Abs!AbsNext]_(Abs!absVars)
  BY <1>2, EraseRefines DEF EraseNode
<1>3. CASE Clear
  <2>1. cg' = [EmptyGraph EXCEPT !.entry = cg.entry]
    BY <1>3 DEF Clear, clear
  <2>2. cg'.size = 0 /\ DOMAIN cg'.edges = {}
    BY <2>1 DEF EmptyGraph
  <2>3. LiveIds(cg') = {}
    <3>1. \A id \in Ids : ~ (id < 0)
      BY <1>0
    <3> QED BY <2>2, <3>1 DEF LiveIds, hasNode
  <2>4. Abs!Reset
    BY <2>2, <2>3 DEF Abs!Reset
  <2>5. Abs!AbsNext
    BY <2>4 DEF Abs!AbsNext
  <2> QED BY <2>5
<1>4. ASSUME NEW p \in NodeRefs(cg), NEW c \in NodeRefs(cg), AddEdgeNodes(p, c)
      PROVE  [Abs!AbsNext]_(Abs!absVars)
  <2>1. p.id \in Ids /\ c.id \in Ids
    BY DEF NodeRefs, LiveIds
  <2>2. CASE hasNodeRef(cg, p) /\ hasNodeRef(cg, c)
    <3>1. p.id \in LiveIds(cg) /\ c.id \in LiveIds(cg)
      BY <2>1, <2>2 DEF hasNodeRef, hasNode, LiveIds
    <3>2. cg' = addEdgeInternal(cg, p.id, c.id)
      BY <1>4, <2>2 DEF AddEdgeNodes, addEdgeNodes
    <3>3. EdgesOnly(cg, cg') /\ DOMAIN cg'.edges = DOMAIN cg.edges \cup {<<p.id, c.id>>}
      BY <3>2, AddEdgeInternalEffect
    <3>4. Abs!AbsNext
      BY <3>1, <3>3, AddEdgeRefines
    <3> QED BY <3>4
  <2>3. CASE ~ (hasNodeRef(cg, p) /\ hasNodeRef(cg, c))
    <3>1. cg' = cg
      BY <1>4, <2>3 DEF AddEdgeNodes, addEdgeNodes
    <3> QED BY <3>1 DEF Abs!absVars
  <2> QED BY <2>2, <2>3
<1>5. ASSUME NEW p \in NodeRefs(cg), NEW c \in NodeRefs(cg), RemoveEdgeNodes(p, c)
      PROVE  [Abs!AbsNext]_(Abs!absVars)
  <2>1. cg' = cg \/ cg' = removeEdge(cg, p.id, c.id)
    BY <1>5 DEF RemoveEdgeNodes, removeEdgeNodes
  <2>2. CASE cg' = cg
    BY <2>2 DEF Abs!absVars
  <2> QED BY <2>1, <2>2, RemoveEdgeRefines
<1>6. ASSUME NEW p \in 0 .. MaxSize, NEW c \in 0 .. MaxSize, AddEdge(p, c) \/ RemoveEdge(p, c)
      PROVE  [Abs!AbsNext]_(Abs!absVars)
  <2>1. cg' = addEdge(cg, p, c) \/ cg' = removeEdge(cg, p, c)
    BY <1>6 DEF AddEdge, RemoveEdge
  <2> QED BY <1>0, <2>1, AddEdgeIdsRefines, RemoveEdgeRefines
<1>7. ASSUME NEW f \in Names, NEW h \in Names, AddEdgeNames(f, h) \/ RemoveEdgeNames(f, h)
      PROVE  [Abs!AbsNext]_(Abs!absVars)
  <2>1. CASE hasSingleNode(cg, f) /\ hasSingleNode(cg, h)
    <3> DEFINE p == Head(cg.nameIdMap[f])
               c == Head(cg.nameIdMap[h])
    <3>1. \A s \in Seq(Ids) : Len(s) = 1 => Head(s) \in Ids
      OBVIOUS
    <3>2. p \in Ids /\ c \in Ids
      BY <2>1, <3>1 DEF hasSingleNode, WellFormed, GraphType
    <3>3. cg' = addEdge(cg, p, c) \/ cg' = removeEdge(cg, p, c)
      BY <1>7, <2>1 DEF AddEdgeNames, RemoveEdgeNames, addEdgeNames, removeEdgeNames
    <3> HIDE DEF p, c
    <3> QED BY <1>0, <3>2, <3>3, AddEdgeIdsRefines, RemoveEdgeRefines
  <2>2. CASE ~ (hasSingleNode(cg, f) /\ hasSingleNode(cg, h))
    <3>1. cg' = cg
      BY <1>7, <2>2 DEF AddEdgeNames, RemoveEdgeNames, addEdgeNames, removeEdgeNames
    <3> QED BY <3>1 DEF Abs!absVars
  <2> QED BY <2>1, <2>2
<1>8. ASSUME NEW e \in Ids \X Ids, NEW kind \in MdKinds, NEW typed \in BOOLEAN,
             AddEdgeMetaData(e, kind, typed)
      PROVE  [Abs!AbsNext]_(Abs!absVars)
  <2>1. cg' = addEdgeMetaData(cg, e, kind, typed)
    BY <1>8 DEF AddEdgeMetaData
  <2>2. EdgesOnly(cg, cg') /\ DOMAIN cg'.edges = DOMAIN cg.edges
    BY <2>1, AddEdgeMetaDataEffect DEF MetadataReplaced
  <2>3. UNCHANGED Abs!absVars
    BY <2>2, NoEdgeRefines
  <2> QED BY <2>3
<1>9. ASSUME NEW m, NEW n, cg' = [[cg EXCEPT !.mainNode = m] EXCEPT !.entry = n]
      PROVE  [Abs!AbsNext]_(Abs!absVars)
  <2>1. cg'.size = cg.size /\ cg'.nodes = cg.nodes /\ cg'.edges = cg.edges
    BY <1>9 DEF WellFormed, GraphType
  <2>2. UNCHANGED Abs!absVars
    BY <2>1, NodesUntouched, SameViewStutters DEF SameView
  <2> QED BY <2>2
<1>10. ASSUME NEW force \in BOOLEAN, GetMain(force) PROVE [Abs!AbsNext]_(Abs!absVars)
  <2> DEFINE m == getMain(cg, force)
             k == IF m = OutOfRange THEN Null ELSE m
  <2>1. cg' = [cg EXCEPT !.mainNode = k]
    BY <1>10 DEF GetMain, cacheMain
  <2> HIDE DEF k
  <2>2. cg' = [[cg EXCEPT !.mainNode = k] EXCEPT !.entry = cg.entry]
    BY <2>1 DEF WellFormed, GraphType
  <2> QED BY <1>9, <2>2
<1>11. ASSUME NEW n, cg' = setEntryFunction(cg, n) PROVE [Abs!AbsNext]_(Abs!absVars)
  <2>1. cg' = [[cg EXCEPT !.mainNode = cg.mainNode] EXCEPT !.entry = n]
    BY <1>11 DEF setEntryFunction, WellFormed, GraphType
  <2> QED BY <1>9, <2>1
<1>12. CASE UNCHANGED cg
  BY <1>12 DEF Abs!absVars
<1> QED BY <1>1, <1>2, <1>3, <1>4, <1>5, <1>6, <1>7, <1>8, <1>10, <1>11, <1>12
        DEF Next, SetEntryFunction, EraseEntryFunction

\* Class Callgraph implements its interface: a client sees a directed graph of
\* named functions, and whatever overload of a member function it calls, with
\* live, erased or unknown ids, the effect is one that CallgraphAbs allows.
THEOREM CallgraphImplementsAbs == Spec => ImplementsAbs
<1>1. Init => Abs!AbsInit
  <2> SUFFICES ASSUME Init PROVE Abs!AbsInit
    OBVIOUS
  <2>1. cg.size = 0 /\ DOMAIN cg.edges = {}
    BY DEF Init, EmptyGraph
  <2>2. LiveIds(cg) = {}
    BY <2>1, MaxSizeAssumption DEF LiveIds, hasNode, Ids
  <2> QED BY <2>1, <2>2 DEF Abs!AbsInit
<1>2. WellFormed(cg) /\ [Next]_cg => [Abs!AbsNext]_(Abs!absVars)
  BY NextRefines
<1> QED BY <1>1, <1>2, AlwaysWellFormed, PTL DEF Spec, ImplementsAbs, Abs!AbsSpec

-----------------------------------------------------------------------------
(* Metadata of edges. *)

\* What a step does to the metadata of an edge that survives it.
MetadataStep ==
    \A e \in DOMAIN cg.edges \cap DOMAIN cg'.edges :
       \A m \in cg.edges[e] : \E n \in cg'.edges[e] : n[1] = m[1]

\* An operation that leaves the metadata of the edges it keeps alone.
LEMMA EdgesKeepMetadata ==
  ASSUME \A e \in DOMAIN cg.edges \cap DOMAIN cg'.edges : cg'.edges[e] = cg.edges[e]
  PROVE  MetadataStep
  BY DEF MetadataStep

\* Every step keeps the keys of the metadata of the edges that stay.
LEMMA NextKeepsMetadata ==
  ASSUME WellFormed(cg), [Next]_cg
  PROVE  MetadataStep
<1>0. Ids \subseteq Nat /\ 0 .. MaxSize \subseteq Nat
  BY MaxSizeAssumption DEF Ids
<1>1. ASSUME cg'.edges = cg.edges PROVE MetadataStep
  BY <1>1, EdgesKeepMetadata
<1>2. ASSUME NEW f \in Names, NEW attr \in Attrs, Insert(f, attr) \/ GetOrInsertNode(f, attr)
      PROVE  MetadataStep
  <2>1. attr \in [origin : Origins, hasBody : BOOLEAN, isVirtual : BOOLEAN]
    BY AttrsAssumption
  <2>2. cg.size < MaxSize /\ (cg' = cg \/ cg' = insert(cg, f, attr))
    BY <1>2 DEF Insert, GetOrInsertNode, getOrInsertNode
  <2>3. OneNodeMore(cg, insert(cg, f, attr), f, attr)
    BY <2>1, <2>2, InsertEffect
  <2> QED BY <1>1, <2>2, <2>3 DEF OneNodeMore
<1>3. ASSUME NEW id \in Ids, EraseNode(id) PROVE MetadataStep
  <2>1. EraseStep
    BY EraseStepHolds
  <2>2. cg'.edges = [e \in {d \in DOMAIN cg.edges : hasNode(cg, id) => id \notin {d[1], d[2]}}
                       |-> cg.edges[e]]
    BY <1>3, <2>1 DEF EraseStep
  <2> QED BY <2>2, EdgesKeepMetadata
<1>4. CASE Clear
  <2>1. DOMAIN cg'.edges = {}
    BY <1>4 DEF Clear, clear, EmptyGraph
  <2> QED BY <2>1, EdgesKeepMetadata
<1>5. ASSUME NEW p, NEW c, cg' = addEdgeInternal(cg, p, c) PROVE MetadataStep
  BY <1>5, AddEdgeInternalEffect, EdgesKeepMetadata
<1>6. ASSUME NEW p, NEW c, cg' = removeEdge(cg, p, c) PROVE MetadataStep
  BY <1>6, RemoveEdgeEffect, EdgesKeepMetadata
<1>7. ASSUME NEW p, NEW c, cg' = addEdge(cg, p, c) PROVE MetadataStep
  BY <1>1, <1>5, <1>7 DEF addEdge
<1>8. ASSUME NEW p \in NodeRefs(cg), NEW c \in NodeRefs(cg),
             AddEdgeNodes(p, c) \/ RemoveEdgeNodes(p, c)
      PROVE  MetadataStep
  BY <1>1, <1>5, <1>6, <1>8 DEF AddEdgeNodes, RemoveEdgeNodes, addEdgeNodes, removeEdgeNodes
<1>9. ASSUME NEW p \in 0 .. MaxSize, NEW c \in 0 .. MaxSize, AddEdge(p, c) \/ RemoveEdge(p, c)
      PROVE  MetadataStep
  BY <1>6, <1>7, <1>9 DEF AddEdge, RemoveEdge
<1>10. ASSUME NEW f \in Names, NEW h \in Names, AddEdgeNames(f, h) \/ RemoveEdgeNames(f, h)
      PROVE  MetadataStep
  BY <1>1, <1>6, <1>7, <1>10 DEF AddEdgeNames, RemoveEdgeNames, addEdgeNames, removeEdgeNames
<1>11. ASSUME NEW e \in Ids \X Ids, NEW kind \in MdKinds, NEW typed \in BOOLEAN,
              AddEdgeMetaData(e, kind, typed)
       PROVE  MetadataStep
  <2>1. cg' = addEdgeMetaData(cg, e, kind, typed)
    BY <1>11 DEF AddEdgeMetaData
  <2> QED BY <2>1, AddEdgeMetaDataEffect DEF MetadataReplaced, MetadataStep
<1>12. ASSUME NEW force \in BOOLEAN, GetMain(force) PROVE MetadataStep
  <2>1. cg'.edges = cg.edges
    BY <1>12 DEF GetMain, cacheMain, WellFormed, GraphType
  <2> QED BY <1>1, <2>1
<1>13. ASSUME NEW n, cg' = setEntryFunction(cg, n) PROVE MetadataStep
  <2>1. cg'.edges = cg.edges
    BY <1>13 DEF setEntryFunction, WellFormed, GraphType
  <2> QED BY <1>1, <2>1
<1>14. CASE UNCHANGED cg
  BY <1>1, <1>14
<1> QED BY <1>2, <1>3, <1>4, <1>8, <1>9, <1>10, <1>11, <1>12, <1>13, <1>14
        DEF Next, SetEntryFunction, EraseEntryFunction

\* An edge keeps its metadata for as long as it exists, whatever is done to the
\* graph: adding it again, by any overload of addEdge, loses nothing.
THEOREM EdgeMetadataAlwaysKept == Spec => EdgeMetadataKept
<1>1. WellFormed(cg) /\ [Next]_cg => MetadataStep
  BY NextKeepsMetadata
<1>2. EdgeMetadataKept <=> [][MetadataStep]_cg
  BY PTL DEF EdgeMetadataKept, MetadataStep
<1> QED BY <1>1, <1>2, AlwaysWellFormed, PTL DEF Spec
=============================================================================
