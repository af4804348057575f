------------------------------ MODULE Callgraph ------------------------------
(***************************************************************************)
(* The call graph of libmetacg (graph/src/Callgraph.cpp) as a data type: a *)
(* graph is a record with one field per data member of class Callgraph,    *)
(* and every member function that changes the graph is an operator from    *)
(* graphs to graphs.  CallgraphClient makes a state machine of it;         *)
(* CallgraphMerge and MCGManager use it for several graphs at once.        *)
(*                                                                         *)
(* Pointers and references to nodes of a graph are node ids.  The vectors  *)
(* in callerList and calleeList are bags, entry counts per id: no caller   *)
(* can see their order.  A find() that misses, whose result is then passed *)
(* to vector::erase, makes the count negative.                             *)
(***************************************************************************)
EXTENDS Integers, Sequences, FiniteSets, SequencesExt

CONSTANTS
    Names,       \* function names
    MainNames,   \* the names getMain tries, in this order
    Origins,     \* values of a node's origin (a file path or none)
    MdKinds,     \* kinds of metadata, each named by its key
    MaxSize,     \* bound on the number of insertions (nodes.size())
    Null,        \* the null pointer, also "no such metadata"
    NoId,        \* an EntryFunctionMD that holds no id
    OutOfRange,  \* std::out_of_range thrown by vector::at
    BaseClass    \* MetaData::key, the key of the abstract base class

Ids == 0 .. (MaxSize - 1)

\* The content of an OverrideMD: its two id vectors, without their order.
OverrideMD == [overrides : SUBSET Ids, overriddenBy : SUBSET Ids]

NewOverrideMD == [overrides |-> {}, overriddenBy |-> {}]

Node == [name : Names, origin : Origins, hasBody : BOOLEAN,
         override : OverrideMD \cup {Null}]

MdKeys == MdKinds \cup {BaseClass}

ASSUME MaxSizeAssumption == MaxSize \in Nat
ASSUME MainNamesAssumption == MainNames \in Seq(Names)
ASSUME NullAssumption == Null \notin Nat /\ Null \notin Node /\ Null # OutOfRange
ASSUME NoIdAssumption == NoId \notin Nat /\ NoId # Null
ASSUME OutOfRangeAssumption == OutOfRange \notin Nat

NoEntries == [i \in Ids |-> 0]

EmptyGraph ==
    [size          |-> 0,
     nodes         |-> [i \in Ids |-> Null],
     nameIdMap     |-> [f \in Names |-> <<>>],
     edges         |-> [e \in {} |-> {}],
     calleeList    |-> [i \in Ids |-> NoEntries],
     callerList    |-> [i \in Ids |-> NoEntries],
     mainNode      |-> Null,
     hasDuplicates |-> FALSE,
     numErased     |-> 0,
     entry         |-> Null]

-----------------------------------------------------------------------------
(* Look-ups. *)

hasNode(g, id) == id < g.size /\ g.nodes[id] # Null

LiveIds(g) == {id \in Ids : hasNode(g, id)}

\* A CgNode& argument.  "owned" is the address comparison of
\* hasNode(const CgNode&): a node of another graph may carry any id.
NodeRefs(g) == [id : LiveIds(g), owned : {TRUE}] \cup [id : Ids, owned : {FALSE}]

hasNodeRef(g, ref) == ref.id < g.size /\ g.nodes[ref.id] # Null /\ ref.owned

\* The bounds check of getNode lets id = size() through to vector::at.
getNode(g, id) ==
    IF id > g.size THEN Null
    ELSE IF id = g.size THEN OutOfRange
    ELSE IF g.nodes[id] = Null THEN Null ELSE id

getFirstNode(g, f) ==
    IF g.nameIdMap[f] = <<>> THEN Null ELSE getNode(g, Head(g.nameIdMap[f]))

hasSingleNode(g, f) == Len(g.nameIdMap[f]) = 1

getCallees(g, id) == {c \in Ids : g.calleeList[id][c] # 0}

getCallers(g, id) == {p \in Ids : g.callerList[id][p] # 0}

getNodeCount(g) == g.size - g.numErased

-----------------------------------------------------------------------------
(* Nodes. *)

\* MUTANT: numbers the nodes by the count of live ones.
nextId_Live(g) == getNodeCount(g)

nextId(g) == g.size

isDuplicate(g, f) == g.nameIdMap[f] # <<>>

\* The arguments of insert besides the name: origin, isVirtual and hasBody.
newNode(f, attr) ==
    [name |-> f, origin |-> attr.origin, hasBody |-> attr.hasBody,
     override |-> IF attr.isVirtual THEN NewOverrideMD ELSE Null]

insert(g, f, attr) ==
    [g EXCEPT !.size = @ + 1,
              !.nodes[nextId(g)] = newNode(f, attr),
              !.nameIdMap[f] = Append(@, nextId(g)),
              !.hasDuplicates = @ \/ isDuplicate(g, f)]

getOrInsertNode(g, f, attr) ==
    IF getFirstNode(g, f) = Null THEN insert(g, f, attr) ELSE g

\* The outgoing edges go first.  A self-loop is one of them, so its
\* callerList entry is gone before the incoming edges are walked.
callersAfterCallees(g, id) ==
    [c \in Ids |-> [g.callerList[c] EXCEPT ![id] = @ - g.calleeList[id][c]]]

incoming(g, id) == callersAfterCallees(g, id)[id]

\* MUTANT: forgets the edges that enter the erased node.
erasedEdges_Outgoing(g, id) == {<<id, c>> : c \in getCallees(g, id)}

erasedEdges(g, id) ==
    {<<id, c>> : c \in getCallees(g, id)}
      \cup {<<p, id>> : p \in {q \in Ids : incoming(g, id)[q] # 0}}

eraseEdges(g, id) ==
    [g EXCEPT !.edges = [e \in DOMAIN g.edges \ erasedEdges(g, id) |-> g.edges[e]],
              !.calleeList =
                  [p \in Ids |->
                      IF p = id THEN NoEntries
                      ELSE [g.calleeList[p] EXCEPT ![id] = @ - incoming(g, id)[p]]],
              !.callerList = [callersAfterCallees(g, id) EXCEPT ![id] = NoEntries]]

\* MUTANT: keeps the cached main node.
forgetMain_Keep(g, id) == g

\* Only the cached main node is compared with the erased one: an entry
\* function that getMain has not cached keeps its metadata.
forgetMain(g, id) ==
    IF g.mainNode # id THEN g
    ELSE [g EXCEPT !.mainNode = Null,
                   !.entry = IF @ = id THEN Null ELSE @]

\* MUTANT: leaves the erased id in the list of its name.
forgetName_Keep(g, id) == g

\* std::find: the first position of x in the list s.
position(s, x) == CHOOSE k \in DOMAIN s : s[k] = x /\ \A j \in 1 .. (k - 1) : s[j] # x

forgetName(g, id) ==
    [g EXCEPT !.nameIdMap[g.nodes[id].name] = RemoveAt(@, position(@, id))]

erase(g, id) ==
    IF ~hasNode(g, id) THEN g
    ELSE LET h == forgetName(forgetMain(eraseEdges(g, id), id), id)
         IN  [h EXCEPT !.nodes[id] = Null, !.numErased = @ + 1]

\* clear() keeps the metadata of the graph, the entry function included.
clear(g) == [EmptyGraph EXCEPT !.entry = g.entry]

-----------------------------------------------------------------------------
(* Edges. *)

\* MUTANT: does not record the caller at the callee.
addCaller_Skip(g, p, c) == g.callerList

addCaller(g, p, c) == [g.callerList EXCEPT ![c][p] = @ + 1]

\* MUTANT: inserts an edge that is there already once more.
addEdgeInternal_NoCheck(g, p, c) ==
    [g EXCEPT !.calleeList[p][c] = @ + 1,
              !.callerList = addCaller(g, p, c),
              !.edges = [e \in DOMAIN g.edges \cup {<<p, c>>} |->
                           IF e = <<p, c>> THEN {} ELSE g.edges[e]]]

addEdgeInternal(g, p, c) ==
    IF <<p, c>> \in DOMAIN g.edges THEN g
    ELSE [g EXCEPT !.calleeList[p][c] = @ + 1,
                   !.callerList = addCaller(g, p, c),
                   !.edges = [e \in DOMAIN g.edges \cup {<<p, c>>} |->
                                IF e = <<p, c>> THEN {} ELSE g.edges[e]]]

addEdgeNodes(g, p, c) ==
    IF hasNodeRef(g, p) /\ hasNodeRef(g, c) THEN addEdgeInternal(g, p.id, c.id) ELSE g

\* An id that is size() makes getNode throw; the graph stays as it was.
addEdge(g, p, c) ==
    IF getNode(g, p) \in Ids /\ getNode(g, c) \in Ids THEN addEdgeInternal(g, p, c) ELSE g

addEdgeNames(g, f, h) ==
    IF hasSingleNode(g, f) /\ hasSingleNode(g, h)
    THEN addEdge(g, Head(g.nameIdMap[f]), Head(g.nameIdMap[h]))
    ELSE g

removeEdge(g, p, c) ==
    IF <<p, c>> \notin DOMAIN g.edges THEN g
    ELSE [g EXCEPT !.calleeList[p][c] = @ - 1,
                   !.callerList[c][p] = @ - 1,
                   !.edges = [e \in DOMAIN g.edges \ {<<p, c>>} |-> g.edges[e]]]

\* The edge goes if one of the two nodes is a node of this graph.
removeEdgeNodes(g, p, c) ==
    IF ~hasNodeRef(g, p) /\ ~hasNodeRef(g, c) THEN g ELSE removeEdge(g, p.id, c.id)

removeEdgeNames(g, f, h) ==
    IF hasSingleNode(g, f) /\ hasSingleNode(g, h)
    THEN removeEdge(g, Head(g.nameIdMap[f]), Head(g.nameIdMap[h]))
    ELSE g

\* The key is that of the static type of the pointer: metadata passed as
\* unique_ptr<MetaData>, as the file reader and merge do, is filed under
\* MetaData::key.  An edge's metadata is a set of pairs <<key, kind>>.
edgeMdKey(kind, typed) == IF typed THEN kind ELSE BaseClass

addEdgeMetaData(g, e, kind, typed) ==
    IF e \notin DOMAIN g.edges THEN g
    ELSE [g EXCEPT !.edges[e] = {m \in @ : m[1] # edgeMdKey(kind, typed)}
                                  \cup {<<edgeMdKey(kind, typed), kind>>}]

-----------------------------------------------------------------------------
(* The main function: a cache (mainNode) over the entry function metadata  *)
(* and the well-known names.                                               *)

mainByEntry(g) == IF g.entry \in Ids THEN getNode(g, g.entry) ELSE Null

mainByName(g) ==
    LET node(k)  == getFirstNode(g, MainNames[k])
        first(k) == node(k) # Null /\ \A j \in 1 .. (k - 1) : node(j) = Null
    IN  IF \E k \in DOMAIN MainNames : first(k)
        THEN node(CHOOSE k \in DOMAIN MainNames : first(k))
        ELSE Null

lookupMain(g) == IF mainByEntry(g) # Null THEN mainByEntry(g) ELSE mainByName(g)

getMain(g, forceRecompute) ==
    IF ~forceRecompute /\ g.mainNode # Null THEN g.mainNode ELSE lookupMain(g)

cacheMain(g, forceRecompute) ==
    LET m == getMain(g, forceRecompute)
    IN  [g EXCEPT !.mainNode = IF m = OutOfRange THEN Null ELSE m]

setEntryFunction(g, id) == [g EXCEPT !.entry = id]

-----------------------------------------------------------------------------
(* Well-formed graphs. *)

\* Every member has its type.
GraphType(g) ==
    /\ g = [size |-> g.size, nodes |-> g.nodes, nameIdMap |-> g.nameIdMap,
            edges |-> g.edges, calleeList |-> g.calleeList,
            callerList |-> g.callerList, mainNode |-> g.mainNode,
            hasDuplicates |-> g.hasDuplicates, numErased |-> g.numErased,
            entry |-> g.entry]
    /\ g.size \in 0 .. MaxSize
    /\ g.nodes \in [Ids -> Node \cup {Null}]
    /\ g.nameIdMap \in [Names -> Seq(Ids)]
    /\ DOMAIN g.edges \subseteq Ids \X Ids
    /\ g.edges \in [DOMAIN g.edges -> SUBSET (MdKeys \X MdKinds)]
    /\ g.calleeList \in [Ids -> [Ids -> Nat]]
    /\ g.callerList \in [Ids -> [Ids -> Nat]]
    /\ g.mainNode \in Ids \cup {Null}
    /\ g.hasDuplicates \in BOOLEAN
    /\ g.numErased \in Nat
    /\ g.entry \in Ids \cup {Null, NoId}

\* edges, calleeList and callerList describe one relation.
Adjacency(g) ==
    \A p, c \in Ids :
        /\ g.calleeList[p][c] = IF <<p, c>> \in DOMAIN g.edges THEN 1 ELSE 0
        /\ g.callerList[c][p] = IF <<p, c>> \in DOMAIN g.edges THEN 1 ELSE 0

\* Slots that insert has not reached hold no node.
UnusedSlots(g) == \A id \in Ids : id >= g.size => g.nodes[id] = Null

\* No edge touches an erased or missing node.
LiveEdges(g) == \A e \in DOMAIN g.edges : hasNode(g, e[1]) /\ hasNode(g, e[2])

\* nameIdMap lists exactly the live nodes of each name, oldest first.
NameIndex(g) ==
    \A f \in Names :
        /\ ToSet(g.nameIdMap[f]) = {id \in LiveIds(g) : g.nodes[id].name = f}
        /\ \A j, k \in DOMAIN g.nameIdMap[f] :
              j < k => g.nameIdMap[f][j] < g.nameIdMap[f][k]

\* The cached main node is live.
LiveMain(g) == g.mainNode # Null => hasNode(g, g.mainNode)

\* The inductive invariant of the data type.
WellFormed(g) ==
    /\ GraphType(g)
    /\ Adjacency(g)
    /\ UnusedSlots(g)
    /\ LiveEdges(g)
    /\ NameIndex(g)
    /\ LiveMain(g)
=============================================================================
