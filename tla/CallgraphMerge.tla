--------------------------- MODULE CallgraphMerge ---------------------------
(***************************************************************************)
(* Callgraph::merge with the policy MergeByName: the graph "source" is     *)
(* merged into the graph "target".  One action is one iteration of one of  *)
(* the loops of merge.  The node loops run in the order of the ids; the    *)
(* edges come out of an unordered map, so the edge loop takes them in any  *)
(* order.                                                                  *)
(***************************************************************************)
EXTENDS Callgraph, NamedGraph

CONSTANT
    Inputs     \* pairs of a graph that is merged and the graph it is merged into

\* The ids in override metadata are those of nodes of the graph.
LiveOverrides(g) ==
    \A id \in LiveIds(g) : g.nodes[id].override # Null =>
       /\ g.nodes[id].override.overrides \subseteq LiveIds(g)
       /\ g.nodes[id].override.overriddenBy \subseteq LiveIds(g)

\* The ids in override metadata are those of nodes that the graph has or had:
\* erase leaves them in the metadata of the other nodes.
InsertedOverrides(g) ==
    \A id \in LiveIds(g) : g.nodes[id].override # Null =>
       /\ g.nodes[id].override.overrides \subseteq 0 .. (g.size - 1)
       /\ g.nodes[id].override.overriddenBy \subseteq 0 .. (g.size - 1)

\* merge translates the ids in the metadata of the source with
\* unordered_map::at, which throws if there is no node of that id; it does not
\* look at those in the metadata of the target.
Mergeable(from, into) ==
    /\ WellFormed(from) /\ WellFormed(into)
    /\ from.size + into.size <= MaxSize
    /\ LiveOverrides(from) /\ InsertedOverrides(into)
    /\ from.entry \in Ids => hasNode(from, from.entry)

\* The action for a matching node.
MergeActions == [targetNode : Ids, replace : BOOLEAN]

ASSUME NoMdAssumption == Null \notin OverrideMD
ASSUME NoActionAssumption == Null \notin MergeActions
ASSUME InputsAssumption == \A in \in Inputs : Mergeable(in[1], in[2])

VARIABLES
    source,    \* the graph "other", which merge does not change
    target,    \* the graph merge is called on
    before,    \* history: the target as it was when merge was called
    phase,     \* the loop merge is in
    next,      \* the next source id of a node loop
    todo,      \* the source edges the edge loop has not taken
    mdTodo,    \* the metadata of the current edge: pairs <<source edge, metadata>>
    mapping,   \* MergeRecorder::mapping
    actions    \* MergeRecorder::actions, by source id

vars == <<source, target, before, phase, next, todo, mdTodo, mapping, actions>>

NoMapping == [i \in {} |-> i]

\* Assigning to one key of an unordered_map.
put(f, k, v) == [i \in DOMAIN f \cup {k} |-> IF i = k THEN v ELSE f[i]]

-----------------------------------------------------------------------------
(* The merge policy. *)

\* MUTANT: a body in the source replaces a body in the target.
replaces_Always(g, id, node) == node.hasBody

replaces(g, id, node) == ~ g.nodes[id].hasBody /\ node.hasBody

\* MUTANT: takes any node that is there for a match.
nameMatches_All(g, f) == IF LiveIds(g) = {} THEN <<>> ELSE <<CHOOSE i \in LiveIds(g) : TRUE>>

nameMatches(g, f) == g.nameIdMap[f]

\* The action for a source node, or Null if it is to be copied.
findMatchingNode(g, node) ==
    IF nameMatches(g, node.name) = <<>> THEN Null
    ELSE LET id == Head(nameMatches(g, node.name))
         IN  [targetNode |-> id, replace |-> replaces(g, id, node)]

-----------------------------------------------------------------------------
(* Nodes. *)

\* The core attributes; the metadata of the target node stays.
replaceNode(g, id, node) ==
    [g EXCEPT !.nodes[id] = [node EXCEPT !.override = g.nodes[id].override]]

copyNode(g, node) ==
    insert(g, node.name, [origin |-> node.origin, hasBody |-> node.hasBody, isVirtual |-> FALSE])

MergeNode ==
    LET node   == source.nodes[next]
        action == findMatchingNode(target, node)
    IN  /\ phase = "nodes" /\ next < source.size
        /\ node # Null
        /\ \/ /\ action # Null
              /\ target' = IF action.replace THEN replaceNode(target, action.targetNode, node)
                           ELSE target
              /\ mapping' = put(mapping, next, action.targetNode)
              /\ actions' = put(actions, next, action)
           \/ /\ action = Null
              /\ target' = copyNode(target, node)
              /\ mapping' = put(mapping, next, nextId(target))
              /\ UNCHANGED actions
        /\ next' = next + 1
        /\ UNCHANGED <<source, before, phase, todo, mdTodo>>

NodesMerged ==
    /\ phase = "nodes" /\ next >= source.size
    /\ phase' = "edges" /\ next' = 0 /\ todo' = DOMAIN source.edges
    /\ UNCHANGED <<source, target, before, mdTodo, mapping, actions>>

-----------------------------------------------------------------------------
(* Edges. *)

mappedEdge(e) == <<mapping[e[1]], mapping[e[2]]>>

hasEdgeMd(g, e, key) == e \in DOMAIN g.edges /\ \E m \in g.edges[e] : m[1] = key

\* MUTANT: takes an edge away that is there already.
mergeEdge_Drop(g, e) ==
    IF mappedEdge(e) \in DOMAIN g.edges THEN removeEdge(g, mappedEdge(e)[1], mappedEdge(e)[2])
    ELSE addEdge(g, mappedEdge(e)[1], mappedEdge(e)[2])

mergeEdge(g, e) == addEdge(g, mappedEdge(e)[1], mappedEdge(e)[2])

MergeEdge(e) ==
    /\ phase = "edges" /\ mdTodo = {} /\ e \in todo
    /\ target' = mergeEdge(target, e)
    /\ todo' = todo \ {e}
    /\ mdTodo' = {e} \X source.edges[e]
    /\ UNCHANGED <<source, before, phase, next, mapping, actions>>

\* One metadata m of source edge e.  It is merged into metadata of its key,
\* whose content is not modelled, or cloned.  The clone is a
\* unique_ptr<MetaData>, so it is filed under MetaData::key.
MergeEdgeMetaData(e, m) ==
    /\ phase = "edges" /\ <<e, m>> \in mdTodo
    /\ target' = IF hasEdgeMd(target, mappedEdge(e), m[1]) THEN target
                 ELSE addEdgeMetaData(target, mappedEdge(e), m[2], FALSE)
    /\ mdTodo' = mdTodo \ {<<e, m>>}
    /\ UNCHANGED <<source, before, phase, next, todo, mapping, actions>>

EdgesMerged ==
    /\ phase = "edges" /\ todo = {} /\ mdTodo = {}
    /\ phase' = "metadata"
    /\ UNCHANGED <<source, target, before, next, todo, mdTodo, mapping, actions>>

-----------------------------------------------------------------------------
(* Metadata. *)

\* MUTANT: forgets to translate the ids.
mapIds_Raw(S) == S

mapIds(S) == {mapping[i] : i \in S}

NoOverride == [overrides |-> {}, overriddenBy |-> {}]

\* OverrideMD::merge and, with no metadata in the target, clone and applyMapping.
mergeOverride(old, new) ==
    LET base == IF old = Null THEN NoOverride ELSE old
    IN  [overrides    |-> base.overrides \cup mapIds(new.overrides),
         overriddenBy |-> base.overriddenBy \cup mapIds(new.overriddenBy)]

MergeNodeMetaData ==
    LET md == source.nodes[next].override
        t  == mapping[next]
    IN  /\ phase = "metadata" /\ next < source.size
        /\ target' = IF md = Null THEN target
                     ELSE [target EXCEPT !.nodes[t].override = mergeOverride(@, md)]
        /\ next' = next + 1
        /\ UNCHANGED <<source, before, phase, todo, mdTodo, mapping, actions>>

\* MUTANT: keeps the id the entry function has in the source.
mergeEntry_Raw(old, new) == IF old \in {Null, NoId} THEN new ELSE old

\* EntryFunctionMD::merge, and clone and applyMapping.
mergeEntry(old, new) ==
    IF old \in {Null, NoId}
    THEN IF new \in Ids THEN mapping[new] ELSE IF old = Null THEN new ELSE old
    ELSE old

resetMain(g) == [g EXCEPT !.mainNode = Null]

\* The metadata of the graph, and the end of merge.
MergeGlobalMetaData ==
    /\ phase = "metadata" /\ next >= source.size
    /\ target' = resetMain([target EXCEPT !.entry = mergeEntry(@, source.entry)])
    /\ phase' = "done"
    /\ UNCHANGED <<source, before, next, todo, mdTodo, mapping, actions>>

Merged == phase = "done" /\ UNCHANGED vars

Init ==
    /\ \E in \in Inputs : source = in[1] /\ target = in[2]
    /\ before = target
    /\ phase = "nodes" /\ next = 0 /\ todo = {} /\ mdTodo = {}
    /\ mapping = NoMapping /\ actions = NoMapping

Next ==
    \/ MergeNode \/ NodesMerged
    \/ \E e \in todo : MergeEdge(e)
    \/ \E em \in mdTodo : MergeEdgeMetaData(em[1], em[2])
    \/ EdgesMerged \/ MergeNodeMetaData \/ MergeGlobalMetaData
    \/ Merged

Spec == Init /\ [][Next]_vars

-----------------------------------------------------------------------------
(* Properties.  Functions, calls and overriding are compared by name: that *)
(* is what the two graphs have in common.                                  *)

Done == phase = "done"

Functions(g) == {g.nodes[i].name : i \in LiveIds(g)}

Calls(g) == {<<g.nodes[e[1]].name, g.nodes[e[2]].name>> : e \in DOMAIN g.edges}

Virtual(g) == {i \in LiveIds(g) : g.nodes[i].override # Null}

\* An id in metadata that erase left behind relates to nothing.
Related(g, ids) == ids \cap LiveIds(g)

Overrides(g) ==
    UNION {{<<g.nodes[i].name, g.nodes[j].name>> : j \in Related(g, g.nodes[i].override.overrides)}
             : i \in Virtual(g)}

OverriddenBy(g) ==
    UNION {{<<g.nodes[i].name, g.nodes[j].name>> : j \in Related(g, g.nodes[i].override.overriddenBy)}
             : i \in Virtual(g)}

\* The recorder sends a source node to a live target node of the same name,
\* from the moment it is recorded to the end of the merge; and the assertion of
\* the node metadata loop, "Metadata must not exist without previous merge
\* action", holds although several source nodes may have been merged into one.
RecorderSound ==
    /\ \A i \in DOMAIN mapping :
          /\ hasNode(target, mapping[i])
          /\ target.nodes[mapping[i]].name = source.nodes[i].name
    /\ phase = "metadata" /\ next < source.size /\ source.nodes[next].override # Null
         /\ target.nodes[mapping[next]].override # Null => next \in DOMAIN actions

\* The merged graph has the functions, the calls and the override relations of
\* both graphs and no others, in whatever order the edges are taken and
\* whatever ids the functions had.
UnionOfBoth ==
    Done => /\ Functions(target) = Functions(before) \cup Functions(source)
            /\ Calls(target) = Calls(before) \cup Calls(source)
            /\ Overrides(target) = Overrides(before) \cup Overrides(source)
            /\ OverriddenBy(target) = OverriddenBy(before) \cup OverriddenBy(source)

\* After every iteration of every loop the target is a well-formed graph, and
\* merging never takes anything from it: its nodes keep id and name, its edges
\* stay, with the metadata filed under the key of its own type.  It gets no
\* duplicates it did not have, even if the source has some.
TargetKept ==
    /\ WellFormed(target)
    /\ \A i \in LiveIds(before) :
          hasNode(target, i) /\ target.nodes[i].name = before.nodes[i].name
    /\ \A e \in DOMAIN before.edges :
          /\ e \in DOMAIN target.edges
          /\ {m \in before.edges[e] : m[1] # BaseClass} \subseteq target.edges[e]
    /\ \A f \in Names :
          Len(target.nameIdMap[f]) > 1 => target.nameIdMap[f] = before.nameIdMap[f]

\* The graph by name; of several nodes of one name the first stands for all.
Named(g) ==
    [funs  |-> [f \in Functions(g) |->
                  [hasBody |-> g.nodes[Head(g.nameIdMap[f])].hasBody,
                   origin  |-> g.nodes[Head(g.nameIdMap[f])].origin]],
     calls |-> Calls(g)]

\* A definition beats a declaration: the attributes of a merged function are
\* those of one of the nodes of its name, of one with a body if there is any,
\* and of the target's own node if that has a body.  If the source has no two
\* nodes of one name, as every graph that was read from a V2 file, then the ids,
\* the loops and the order of the edges do not show: by name, merge is the
\* function mergeNamed of its two inputs.
DefinitionWins ==
    Done =>
      /\ \A f \in Functions(source) :
           LET result == target.nodes[Head(target.nameIdMap[f])]
               own    == IF before.nameIdMap[f] = <<>> THEN {}
                         ELSE {before.nodes[Head(before.nameIdMap[f])]}
               others == {source.nodes[i] : i \in ToSet(source.nameIdMap[f])}
           IN  \E node \in own \cup others :
                  /\ result.hasBody = node.hasBody /\ result.origin = node.origin
                  /\ \/ node \in own /\ node.hasBody
                     \/ node \in others /\ node.hasBody /\ \A n \in own : ~ n.hasBody
                     \/ \A n \in own \cup others : ~ n.hasBody
      /\ (\A f \in Names : Len(source.nameIdMap[f]) <= 1) =>
           Named(target) = mergeNamed(Named(before), Named(source))

\* The entry function of the target is kept; without one, the target takes
\* over the function that is the entry function of the source.  getMain does
\* not answer with what it cached before the merge.
EntryKept ==
    Done => /\ before.entry \in Ids => target.entry = before.entry
            /\ before.entry \notin Ids /\ source.entry \in Ids =>
                  /\ hasNode(target, target.entry)
                  /\ target.nodes[target.entry].name = source.nodes[source.entry].name
            /\ getMain(target, FALSE) = getMain(target, TRUE)
=============================================================================
