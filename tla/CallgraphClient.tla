--------------------------- MODULE CallgraphClient ---------------------------
(***************************************************************************)
(* One call graph and a client that calls the member functions of class    *)
(* Callgraph in any order and with any arguments a C++ program can form:   *)
(* ids of live, erased and not yet inserted nodes, node references of this *)
(* and of another graph, names that match no, one or several nodes.        *)
(***************************************************************************)
EXTENDS Callgraph

CONSTANTS
    Attrs,      \* the attributes a client inserts nodes with
    MaxEdges,   \* bound on the number of edges of the graph
    MaxEdgeMd   \* bound on the number of metadata of all edges

ASSUME AttrsAssumption ==
    Attrs \subseteq [origin : Origins, hasBody : BOOLEAN, isVirtual : BOOLEAN]
ASSUME BoundsAssumption == MaxEdges \in Nat /\ MaxEdgeMd \in Nat

VARIABLE cg

Init == cg = EmptyGraph

Insert(f, attr) == cg.size < MaxSize /\ cg' = insert(cg, f, attr)

GetOrInsertNode(f, attr) == cg.size < MaxSize /\ cg' = getOrInsertNode(cg, f, attr)

EraseNode(id) == cg' = erase(cg, id)

Clear == cg' = clear(cg)

RoomForEdge == Cardinality(DOMAIN cg.edges) < MaxEdges

AddEdgeNodes(p, c) == RoomForEdge /\ cg' = addEdgeNodes(cg, p, c)

AddEdge(p, c) == RoomForEdge /\ cg' = addEdge(cg, p, c)

AddEdgeNames(f, h) == RoomForEdge /\ cg' = addEdgeNames(cg, f, h)

RemoveEdgeNodes(p, c) == cg' = removeEdgeNodes(cg, p, c)

RemoveEdge(p, c) == cg' = removeEdge(cg, p, c)

RemoveEdgeNames(f, h) == cg' = removeEdgeNames(cg, f, h)

RoomForEdgeMd ==
    Cardinality(UNION {{e} \X cg.edges[e] : e \in DOMAIN cg.edges}) < MaxEdgeMd

AddEdgeMetaData(e, kind, typed) ==
    RoomForEdgeMd /\ cg' = addEdgeMetaData(cg, e, kind, typed)

GetMain(forceRecompute) == cg' = cacheMain(cg, forceRecompute)

\* EntryFunctionMD(const CgNode&), attached with addMetaData.
SetEntryFunction(id) == cg' = setEntryFunction(cg, id)

\* MetadataMixin::erase<EntryFunctionMD>().
EraseEntryFunction == cg' = setEntryFunction(cg, Null)

Next ==
    \/ \E f \in Names, attr \in Attrs : Insert(f, attr) \/ GetOrInsertNode(f, attr)
    \/ \E id \in Ids : EraseNode(id)
    \/ Clear
    \/ \E p, c \in NodeRefs(cg) : AddEdgeNodes(p, c) \/ RemoveEdgeNodes(p, c)
    \/ \E p, c \in 0 .. MaxSize : AddEdge(p, c) \/ RemoveEdge(p, c)
    \/ \E f, h \in Names : AddEdgeNames(f, h) \/ RemoveEdgeNames(f, h)
    \/ \E e \in Ids \X Ids, kind \in MdKinds, typed \in BOOLEAN :
          AddEdgeMetaData(e, kind, typed)
    \/ \E forceRecompute \in BOOLEAN : GetMain(forceRecompute)
    \/ \E id \in LiveIds(cg) : SetEntryFunction(id)
    \/ EraseEntryFunction

Spec == Init /\ [][Next]_cg

-----------------------------------------------------------------------------
(* Invariants. *)

\* Every member of the graph has its type; no list entry was removed twice.
TypeOK == GraphType(cg)

\* edges, calleeList and callerList, which addEdge, removeEdge and erase each
\* maintain by hand, describe one relation: an edge is listed exactly once at
\* its caller and once at its callee, and nothing else is listed.
AdjacencyAgrees == Adjacency(cg)

\* No edge touches an erased node or a node that was never inserted, so the
\* nodes.at(elem) of getCallees and getCallers always yields a node.
EdgesLive == LiveEdges(cg)

\* nameIdMap lists, oldest first, exactly the live nodes of each name, so
\* that getFirstNode, getNodes and countNodes agree with the node list.
NameIndexExact == NameIndex(cg)

\* The cached main node has not been erased since it was cached.
MainCacheLive == LiveMain(cg)

-----------------------------------------------------------------------------
(* Action properties. *)

\* erase takes away the edges of the erased node and no other edge, and the
\* edges that stay keep their metadata.
EraseFrame ==
    [][\A id \in Ids : EraseNode(id) =>
          cg'.edges = [e \in {d \in DOMAIN cg.edges : hasNode(cg, id) => id \notin {d[1], d[2]}}
                         |-> cg.edges[e]]]_cg

\* An edge keeps its metadata for as long as it exists: adding an edge that
\* is already there is skipped and does not replace its metadata.
EdgeMetadataKept ==
    [][\A e \in DOMAIN cg.edges \cap DOMAIN cg'.edges :
          \A m \in cg.edges[e] : \E n \in cg'.edges[e] : n[1] = m[1]]_cg

Abs == INSTANCE CallgraphAbs WITH
    next  <- cg.size,
    fun   <- [id \in LiveIds(cg) |-> cg.nodes[id].name],
    calls <- DOMAIN cg.edges

\* The graph implements CallgraphAbs: whatever way a member function is
\* called, its effect on functions and calls is one the interface promises.
ImplementsAbs == Abs!AbsSpec
=============================================================================
