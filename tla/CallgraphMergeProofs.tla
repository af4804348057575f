------------------------ MODULE CallgraphMergeProofs ------------------------
(***************************************************************************)
(* Callgraph::merge keeps its promises for any two graphs: the recorder is *)
(* sound, the target stays well formed and loses nothing, the result is    *)
(* the union of both graphs by name, definitions win over declarations and *)
(* the entry function is carried over.                                     *)
(***************************************************************************)
EXTENDS CallgraphMerge, CallgraphTheorems

-----------------------------------------------------------------------------
(* The inductive invariant: what the loops have done so far.  The node     *)
(* loop has visited the ids below "visited", the metadata loop those below *)
(* "enriched", the edge loop the edges in "copied".                        *)

visited == IF phase = "nodes" THEN next ELSE source.size

enriched == IF phase = "metadata" THEN next ELSE IF phase = "done" THEN source.size ELSE 0

copied == IF phase = "nodes" THEN {} ELSE DOMAIN source.edges \ todo

MergeType ==
    /\ Mergeable(source, before)
    /\ phase \in {"nodes", "edges", "metadata", "done"}
    /\ next \in 0 .. source.size
    /\ phase = "edges" => next = 0
    /\ todo \subseteq DOMAIN source.edges
    /\ phase \in {"metadata", "done"} => todo = {}
    /\ \A em \in mdTodo : em[1] \in DOMAIN source.edges /\ em[2] \in source.edges[em[1]]
    /\ phase # "edges" => mdTodo = {}

\* The target is well formed and grows by at most one node per visited node.
TargetGrows ==
    /\ WellFormed(target)
    /\ before.size <= target.size /\ target.size <= before.size + visited

\* Every visited node is mapped to the first node of its name in the target.
MappedByName ==
    /\ DOMAIN mapping = 0 .. (visited - 1)
    /\ \A i \in DOMAIN mapping :
          /\ source.nodes[i] # Null
          /\ target.nameIdMap[source.nodes[i].name] # <<>>
          /\ mapping[i] = Head(target.nameIdMap[source.nodes[i].name])

\* The target has its own nodes and those that were copied, which never get the
\* id of an erased node; a list of names only ever changes from empty to one node.
NodesKept ==
    /\ LiveIds(target) = LiveIds(before) \cup {mapping[i] : i \in DOMAIN mapping}
    /\ \A i \in LiveIds(target) : i < before.size => i \in LiveIds(before)
    /\ \A i \in LiveIds(before) : target.nodes[i].name = before.nodes[i].name
    /\ \A f \in Names : \/ target.nameIdMap[f] = before.nameIdMap[f]
                        \/ before.nameIdMap[f] = <<>> /\ Len(target.nameIdMap[f]) = 1

\* A node without an action was copied: no earlier node is mapped to its copy.
CopiesAreNew ==
    /\ DOMAIN actions \subseteq DOMAIN mapping
    /\ \A i \in DOMAIN mapping \ DOMAIN actions :
          /\ mapping[i] \notin LiveIds(before)
          /\ \A j \in DOMAIN mapping : mapping[j] = mapping[i] => i <= j

SameAttributes(m, n) == m.hasBody = n.hasBody /\ m.origin = n.origin

\* The nodes that went into node t of the target.
MergedInto(t) == {source.nodes[i] : i \in {j \in DOMAIN mapping : mapping[j] = t}}

Own(t) == {before.nodes[i] : i \in {j \in LiveIds(before) : j = t}}

\* Node t has the attributes of one of them, of one with a body if there is one,
\* and its own unless it got a body from the source.
AttributesOf(t) ==
    /\ \E n \in Own(t) \cup MergedInto(t) : SameAttributes(target.nodes[t], n)
    /\ target.nodes[t].hasBody \/ \A n \in Own(t) \cup MergedInto(t) : ~ n.hasBody
    /\ \A n \in Own(t) : n.hasBody \/ ~ target.nodes[t].hasBody => SameAttributes(target.nodes[t], n)

DefinitionsFirst == \A t \in LiveIds(target) : AttributesOf(t)

\* The edges of the target are its own and those that were copied.
EdgesMapped ==
    /\ DOMAIN target.edges = DOMAIN before.edges \cup {mappedEdge(e) : e \in copied}
    /\ \A e \in DOMAIN before.edges :
          {m \in before.edges[e] : m[1] # BaseClass} \subseteq target.edges[e]

\* The source nodes whose override metadata is in node t of the target.
Contributors(t) ==
    {i \in DOMAIN mapping : i < enriched /\ mapping[i] = t /\ source.nodes[i].override # Null}

OwnVirtual(t) == t \in LiveIds(before) /\ before.nodes[t].override # Null

OwnOverrides(t) == IF OwnVirtual(t) THEN before.nodes[t].override.overrides ELSE {}

OwnOverriddenBy(t) == IF OwnVirtual(t) THEN before.nodes[t].override.overriddenBy ELSE {}

\* The override metadata of node t is its own and what was merged into it.
OverrideOf(t) ==
    LET md == target.nodes[t].override
    IN  /\ md # Null <=> OwnVirtual(t) \/ Contributors(t) # {}
        /\ md # Null =>
             /\ md.overrides = OwnOverrides(t) \cup
                  UNION {mapIds(source.nodes[i].override.overrides) : i \in Contributors(t)}
             /\ md.overriddenBy = OwnOverriddenBy(t) \cup
                  UNION {mapIds(source.nodes[i].override.overriddenBy) : i \in Contributors(t)}

OverridesMapped == \A t \in LiveIds(target) : OverrideOf(t)

\* The entry function is merged last, and then the cached main node is dropped.
EntryMapped ==
    IF Done THEN target.entry = mergeEntry(before.entry, source.entry) /\ target.mainNode = Null
    ELSE target.entry = before.entry

MergeInv ==
    /\ MergeType /\ TargetGrows /\ MappedByName /\ NodesKept /\ CopiesAreNew
    /\ DefinitionsFirst /\ EdgesMapped /\ OverridesMapped /\ EntryMapped
-----------------------------------------------------------------------------
(* What follows from the invariant about single nodes. *)

\* A mapped source node is live, and so is the target node of its name.
Mapped(i) ==
    /\ i \in LiveIds(source) /\ i \in Nat /\ i < visited
    /\ source.nodes[i] \in Node /\ source.nodes[i].name \in Names
    /\ mapping[i] \in LiveIds(target) /\ mapping[i] \in Ids
    /\ target.nodes[mapping[i]].name = source.nodes[i].name

LEMMA MergeFacts ==
  ASSUME MergeInv
  PROVE  /\ WellFormed(source) /\ WellFormed(before) /\ WellFormed(target)
         /\ source.size \in Nat /\ before.size \in Nat /\ target.size \in Nat
         /\ visited \in Nat /\ visited <= source.size /\ next \in Nat
         /\ LiveIds(before) \subseteq LiveIds(target)
         /\ \A i \in DOMAIN mapping : Mapped(i)
         /\ visited = source.size => DOMAIN mapping = LiveIds(source)
<1>1. WellFormed(source) /\ WellFormed(before) /\ WellFormed(target)
  BY DEF MergeInv, MergeType, Mergeable, TargetGrows
<1>2. /\ source.size \in Nat /\ source.size <= MaxSize
      /\ before.size \in Nat /\ target.size \in Nat
  BY <1>1, MaxSizeAssumption DEF WellFormed, GraphType
<1>3. visited \in Nat /\ visited <= source.size /\ next \in Nat
  BY <1>2 DEF MergeInv, MergeType, visited
<1>4. LiveIds(before) \subseteq LiveIds(target)
  BY DEF MergeInv, NodesKept
<1>5. \A i \in DOMAIN mapping : i \in LiveIds(source) /\ i \in Nat /\ i < visited
  BY <1>2, <1>3, MaxSizeAssumption DEF MergeInv, MappedByName, LiveIds, hasNode, Ids
<1>6. ASSUME NEW i \in DOMAIN mapping PROVE Mapped(i)
  <2>1. source.nodes[i] \in Node /\ source.nodes[i].name \in Names
    BY <1>1, <1>5, NamedNode
  <2>2. /\ target.nameIdMap[source.nodes[i].name] # <<>>
        /\ mapping[i] = Head(target.nameIdMap[source.nodes[i].name])
    BY DEF MergeInv, MappedByName
  <2>3. /\ mapping[i] \in LiveIds(target) /\ mapping[i] \in Ids
        /\ target.nodes[mapping[i]].name = source.nodes[i].name
    BY <1>1, <2>1, <2>2, FirstOfName
  <2> QED BY <1>5, <2>1, <2>3 DEF Mapped
<1>7. visited = source.size => DOMAIN mapping = LiveIds(source)
  <2>1. \A i \in LiveIds(source) : i \in Nat /\ i < source.size
    BY <1>1, NamedNode
  <2>2. ASSUME visited = source.size, NEW i \in LiveIds(source) PROVE i \in DOMAIN mapping
    BY <1>2, <2>1, <2>2 DEF MergeInv, MappedByName
  <2> QED BY <1>5, <2>2
<1> QED BY <1>1, <1>2, <1>3, <1>4, <1>6, <1>7

\* No override metadata has been merged before the metadata loop.
LEMMA NoContributors ==
  ASSUME MergeInv, enriched = 0, NEW t
  PROVE  Contributors(t) = {}
<1>1. \A i \in DOMAIN mapping : i \in Nat
  BY MergeFacts DEF Mapped
<1> QED BY <1>1 DEF Contributors

-----------------------------------------------------------------------------
(* Steps that leave the nodes' names and attributes and the recorder alone. *)

SameCore(g, h) ==
    /\ h.size = g.size /\ h.nameIdMap = g.nameIdMap /\ LiveIds(h) = LiveIds(g)
    /\ \A i \in LiveIds(g) : h.nodes[i].name = g.nodes[i].name
                             /\ SameAttributes(h.nodes[i], g.nodes[i])

LEMMA CoreKept ==
  ASSUME MergeInv, WellFormed(target)', SameCore(target, target'),
         UNCHANGED <<source, before, mapping, actions>>, visited' = visited
  PROVE  TargetGrows' /\ MappedByName' /\ NodesKept' /\ CopiesAreNew' /\ DefinitionsFirst'
<1>0. LiveIds(before) \subseteq LiveIds(target)
  BY MergeFacts
<1>1. TargetGrows'
  BY DEF MergeInv, TargetGrows, SameCore
<1>2. MappedByName'
  BY DEF MergeInv, MappedByName, SameCore
<1>3. NodesKept'
  BY <1>0 DEF MergeInv, NodesKept, SameCore
<1>4. CopiesAreNew'
  BY DEF MergeInv, CopiesAreNew
<1>5. DefinitionsFirst'
  <2> SUFFICES ASSUME NEW t \in LiveIds(target) PROVE AttributesOf(t)'
    BY DEF DefinitionsFirst, SameCore
  <2>1. Own(t)' = Own(t) /\ MergedInto(t)' = MergedInto(t)
    BY DEF Own, MergedInto
  <2>2. SameAttributes(target'.nodes[t], target.nodes[t])
    BY DEF SameCore
  <2>3. AttributesOf(t)
    BY DEF MergeInv, DefinitionsFirst
  <2> QED BY <2>1, <2>2, <2>3 DEF AttributesOf, SameAttributes
<1> QED BY <1>1, <1>2, <1>3, <1>4, <1>5

\* Nor, if the nodes stay as they are, the override metadata.
LEMMA OverridesKept ==
  ASSUME MergeInv, LiveIds(target)' = LiveIds(target),
         \A t \in LiveIds(target) : target'.nodes[t].override = target.nodes[t].override,
         UNCHANGED <<source, before, mapping>>, enriched' = enriched
  PROVE  OverridesMapped'
<1> SUFFICES ASSUME NEW t \in LiveIds(target) PROVE OverrideOf(t)'
  BY DEF OverridesMapped
<1>1. /\ Contributors(t)' = Contributors(t)
      /\ OwnVirtual(t)' <=> OwnVirtual(t)
      /\ OwnOverrides(t)' = OwnOverrides(t) /\ OwnOverriddenBy(t)' = OwnOverriddenBy(t)
  BY DEF Contributors, OwnVirtual, OwnOverrides, OwnOverriddenBy
<1>2. OverrideOf(t)
  BY DEF MergeInv, OverridesMapped
<1>3. \A S : mapIds(S)' = mapIds(S)
  BY DEF mapIds
<1> QED BY <1>1, <1>2, <1>3 DEF OverrideOf, mapIds

-----------------------------------------------------------------------------
(* The node loop. *)

\* What every iteration has in common.
LEMMA NodeLoop ==
  ASSUME MergeInv, MergeNode
  PROVE  /\ MergeType'
         /\ next \in Nat /\ visited = next /\ visited' = next + 1 /\ next < source.size
         /\ enriched = 0 /\ enriched' = 0 /\ copied = {} /\ copied' = {}
         /\ next \in LiveIds(source) /\ next \notin DOMAIN mapping
         /\ source.nodes[next] \in Node /\ source.nodes[next].name \in Names
         /\ DOMAIN mapping = 0 .. (next - 1)
<1>1. next \in Nat /\ source.size \in Nat /\ source.size <= MaxSize
  BY MergeFacts, MaxSizeAssumption DEF WellFormed, GraphType
<1>2. /\ visited = next /\ visited' = next + 1 /\ next < source.size
      /\ enriched = 0 /\ enriched' = 0 /\ copied = {} /\ copied' = {}
  BY DEF MergeNode, visited, enriched, copied
<1>3. next \in LiveIds(source)
  BY <1>1, <1>2, MaxSizeAssumption DEF MergeNode, LiveIds, hasNode, Ids
<1>4. source.nodes[next] \in Node /\ source.nodes[next].name \in Names
  BY <1>3, MergeFacts, NamedNode
<1>5. DOMAIN mapping = 0 .. (next - 1)
  BY <1>2 DEF MergeInv, MappedByName
<1>6. MergeType'
  BY <1>1, <1>2 DEF MergeInv, MergeType, MergeNode
<1> QED BY <1>1, <1>2, <1>3, <1>4, <1>5, <1>6

LEMMA MergeMatch ==
  ASSUME MergeInv, MergeNode, target.nameIdMap[source.nodes[next].name] # <<>>
  PROVE  MergeInv'
<1> DEFINE node == source.nodes[next]
           t    == Head(target.nameIdMap[node.name])
           act  == [targetNode |-> t, replace |-> replaces(target, t, node)]
           new  == [node EXCEPT !.override = target.nodes[t].override]
<1>0. /\ node \in Node /\ node.name \in Names /\ WellFormed(target)
      /\ next \in Nat /\ next \notin DOMAIN mapping /\ DOMAIN mapping = 0 .. (next - 1)
      /\ next \in LiveIds(source)
  BY NodeLoop, MergeFacts
<1>1. t \in LiveIds(target) /\ t \in Ids /\ target.nodes[t].name = node.name
  BY <1>0, FirstOfName
<1>2. target.nodes[t] \in Node
  BY <1>0, <1>1, NamedNode
<1>3. act = findMatchingNode(target, node) /\ act # Null
  <2>1. act \in MergeActions
    BY <1>0, <1>1, <1>2 DEF MergeActions, replaces, Node
  <2> QED BY <2>1, NoActionAssumption DEF findMatchingNode, nameMatches
<1>4. /\ target' = IF replaces(target, t, node) THEN replaceNode(target, t, node) ELSE target
      /\ mapping' = put(mapping, next, t)
      /\ actions' = put(actions, next, act)
      /\ UNCHANGED <<source, before, phase>>
  BY <1>3 DEF MergeNode
<1>5. new \in Node /\ new.name = target.nodes[t].name /\ SameAttributes(new, node)
      /\ new.override = target.nodes[t].override
  BY <1>0, <1>1, <1>2 DEF Node, SameAttributes
<1>6. /\ WellFormed(target') /\ target'.size = target.size
      /\ LiveIds(target') = LiveIds(target) /\ target'.nameIdMap = target.nameIdMap
      /\ target'.edges = target.edges /\ target'.entry = target.entry
      /\ \A i \in Ids \ {t} : target'.nodes[i] = target.nodes[i]
      /\ target'.nodes[t].name = node.name
      /\ target'.nodes[t].override = target.nodes[t].override
      /\ SameAttributes(target'.nodes[t], IF replaces(target, t, node) THEN node ELSE target.nodes[t])
  <2>1. CASE replaces(target, t, node)
    <3>1. target' = [target EXCEPT !.nodes[t] = new]
      BY <1>4, <2>1 DEF replaceNode
    <3> HIDE DEF new
    <3>2. WellFormed(target') /\ OneNodeChanged(target, target', t, new)
      BY <1>0, <1>1, <1>5, <3>1, NodeChanged
    <3> QED BY <1>1, <1>5, <2>1, <3>2 DEF OneNodeChanged
  <2>2. CASE ~ replaces(target, t, node)
    BY <1>0, <1>1, <1>4, <2>2 DEF SameAttributes
  <2> QED BY <2>1, <2>2
<1>7. /\ DOMAIN mapping' = DOMAIN mapping \cup {next}
      /\ mapping'[next] = t /\ \A i \in DOMAIN mapping : mapping'[i] = mapping[i]
      /\ DOMAIN actions' = DOMAIN actions \cup {next}
  BY <1>0, <1>4 DEF put
<1>8. \A i \in DOMAIN mapping : Mapped(i)
  BY MergeFacts
<1> HIDE DEF t, act, new
<1>9. \A i \in LiveIds(target) : i \in Ids /\ target'.nodes[i].name = target.nodes[i].name
                                 /\ target'.nodes[i].override = target.nodes[i].override
  BY <1>1, <1>6 DEF LiveIds
<1>10. MergeType'
  BY NodeLoop
<1>11. TargetGrows'
  BY <1>4, <1>6, NodeLoop, MergeFacts DEF MergeInv, TargetGrows
<1>12. MappedByName'
  <2>1. DOMAIN mapping' = 0 .. (visited' - 1)
    BY <1>0, <1>7, NodeLoop
  <2>2. \A i \in DOMAIN mapping :
          /\ source.nodes[i] # Null
          /\ target.nameIdMap[source.nodes[i].name] # <<>>
          /\ mapping[i] = Head(target.nameIdMap[source.nodes[i].name])
    BY DEF MergeInv, MappedByName
  <2>3. node # Null
    BY <1>0, NullAssumption
  <2> QED BY <1>4, <1>6, <1>7, <2>1, <2>2, <2>3 DEF MappedByName, t
<1>13. NodesKept'
  <2>1. {mapping'[i] : i \in DOMAIN mapping'} = {mapping[i] : i \in DOMAIN mapping} \cup {t}
    BY <1>7
  <2>2. LiveIds(target') = LiveIds(before') \cup {mapping'[i] : i \in DOMAIN mapping'}
    BY <1>1, <1>4, <1>6, <2>1 DEF MergeInv, NodesKept
  <2>3. \A i \in LiveIds(before) : target'.nodes[i].name = before.nodes[i].name
    BY <1>9, MergeFacts DEF MergeInv, NodesKept
  <2>4. \A i \in LiveIds(target') : i < before'.size => i \in LiveIds(before')
    BY <1>4, <1>6 DEF MergeInv, NodesKept
  <2> QED BY <1>4, <1>6, <2>2, <2>3, <2>4 DEF MergeInv, NodesKept
<1>14. CopiesAreNew'
  <2>1. DOMAIN actions \subseteq DOMAIN mapping
    BY DEF MergeInv, CopiesAreNew
  <2> SUFFICES ASSUME NEW i \in DOMAIN mapping' \ DOMAIN actions'
               PROVE  /\ mapping'[i] \notin LiveIds(before)
                      /\ \A j \in DOMAIN mapping' : mapping'[j] = mapping'[i] => i <= j
    BY <1>4, <1>7, <2>1 DEF CopiesAreNew
  <2>2. i \in DOMAIN mapping \ DOMAIN actions /\ mapping'[i] = mapping[i] /\ i <= next
    BY <1>0, <1>7
  <2>3. /\ mapping[i] \notin LiveIds(before)
        /\ \A j \in DOMAIN mapping : mapping[j] = mapping[i] => i <= j
    BY <2>2 DEF MergeInv, CopiesAreNew
  <2> QED BY <1>7, <2>2, <2>3
<1>15. DefinitionsFirst'
  <2> SUFFICES ASSUME NEW u \in LiveIds(target) PROVE AttributesOf(u)'
    BY <1>6 DEF DefinitionsFirst
  <2>1. Own(u)' = Own(u)
    BY <1>4 DEF Own
  <2>2. MergedInto(u)' = MergedInto(u) \cup (IF u = t THEN {node} ELSE {})
    BY <1>0, <1>4, <1>7 DEF MergedInto
  <2>3. AttributesOf(u)
    BY DEF MergeInv, DefinitionsFirst
  <2>4. CASE u # t
    <3>1. target'.nodes[u] = target.nodes[u]
      BY <1>6, <1>9, <2>4
    <3> QED BY <2>1, <2>2, <2>3, <2>4, <3>1 DEF AttributesOf
  <2>5. CASE u = t
    <3>1. MergedInto(u)' = MergedInto(u) \cup {node}
      BY <2>2, <2>5
    <3>2. CASE replaces(target, t, node)
      <4>1. node.hasBody /\ ~ target.nodes[u].hasBody /\ SameAttributes(target'.nodes[u], node)
        BY <1>6, <2>5, <3>2 DEF replaces
      <4>2. \A n \in Own(u) : ~ n.hasBody
        BY <2>3, <4>1 DEF AttributesOf
      <4> QED BY <2>1, <3>1, <4>1, <4>2 DEF AttributesOf, SameAttributes
    <3>3. CASE ~ replaces(target, t, node)
      <4>1. (target.nodes[u].hasBody \/ ~ node.hasBody)
            /\ SameAttributes(target'.nodes[u], target.nodes[u])
        BY <1>6, <2>5, <3>3 DEF replaces
      <4> QED BY <2>1, <2>3, <3>1, <4>1 DEF AttributesOf, SameAttributes
    <3> QED BY <3>2, <3>3
  <2> QED BY <2>4, <2>5
<1>16. EdgesMapped'
  BY <1>4, <1>6, NodeLoop DEF MergeInv, EdgesMapped
<1>17. OverridesMapped'
  <2> SUFFICES ASSUME NEW u \in LiveIds(target) PROVE OverrideOf(u)'
    BY <1>6 DEF OverridesMapped
  <2>1. Contributors(u) = {}
    BY NoContributors, NodeLoop
  <2>2. Contributors(u)' = {}
    BY <1>0, <1>7, NodeLoop DEF Contributors
  <2>3. /\ OwnVirtual(u)' <=> OwnVirtual(u)
        /\ OwnOverrides(u)' = OwnOverrides(u) /\ OwnOverriddenBy(u)' = OwnOverriddenBy(u)
    BY <1>4 DEF OwnVirtual, OwnOverrides, OwnOverriddenBy
  <2>4. OverrideOf(u)
    BY DEF MergeInv, OverridesMapped
  <2> QED BY <1>9, <2>1, <2>2, <2>3, <2>4 DEF OverrideOf
<1>18. EntryMapped'
  BY <1>4, <1>6 DEF MergeInv, EntryMapped, Done, MergeNode
<1> QED BY <1>10, <1>11, <1>12, <1>13, <1>14, <1>15, <1>16, <1>17, <1>18 DEF MergeInv

LEMMA MergeCopy ==
  ASSUME MergeInv, MergeNode, target.nameIdMap[source.nodes[next].name] = <<>>
  PROVE  MergeInv'
<1> DEFINE node == source.nodes[next]
           attr == [origin |-> node.origin, hasBody |-> node.hasBody, isVirtual |-> FALSE]
           new  == target.size
<1>0. /\ node \in Node /\ node.name \in Names /\ WellFormed(target)
      /\ next \in Nat /\ next \notin DOMAIN mapping /\ DOMAIN mapping = 0 .. (next - 1)
      /\ next \in LiveIds(source)
  BY NodeLoop, MergeFacts
<1>1. /\ target' = insert(target, node.name, attr)
      /\ mapping' = put(mapping, next, new)
      /\ UNCHANGED <<source, before, phase, actions>>
  BY DEF MergeNode, findMatchingNode, nameMatches, copyNode, nextId
<1>2. target.size < MaxSize /\ target.size \in Nat
  <2>1. source.size + before.size <= MaxSize
    BY DEF MergeInv, MergeType, Mergeable
  <2>2. target.size <= before.size + next /\ next < source.size
    BY NodeLoop DEF MergeInv, TargetGrows
  <2> QED BY <2>1, <2>2, MergeFacts, MaxSizeAssumption
<1>3. attr \in [origin : Origins, hasBody : BOOLEAN, isVirtual : BOOLEAN]
  BY <1>0 DEF Node
<1>4. WellFormed(target') /\ OneNodeMore(target, target', node.name, attr)
  BY <1>0, <1>1, <1>2, <1>3, InsertWellFormed, InsertEffect
<1>5. /\ target'.size = target.size + 1 /\ new \in Ids
      /\ target'.nodes[new].name = node.name
      /\ target'.nodes[new].override = Null
      /\ SameAttributes(target'.nodes[new], node)
  BY <1>4 DEF OneNodeMore, newNode, SameAttributes
<1>6. /\ LiveIds(target') = LiveIds(target) \cup {new} /\ new \notin LiveIds(target)
      /\ target'.edges = target.edges /\ target'.entry = target.entry
  BY <1>4 DEF OneNodeMore
<1>7. \A i \in LiveIds(target) : target'.nodes[i] = target.nodes[i]
  BY <1>4, <1>6 DEF OneNodeMore, LiveIds
<1>8. /\ target'.nameIdMap[node.name] = <<new>>
      /\ \A f \in Names : f # node.name => target'.nameIdMap[f] = target.nameIdMap[f]
  <2>1. target'.nameIdMap = [target.nameIdMap EXCEPT ![node.name] = Append(<<>>, new)]
    BY <1>4 DEF OneNodeMore
  <2>2. DOMAIN target.nameIdMap = Names
    BY <1>0 DEF WellFormed, GraphType
  <2>3. Append(<<>>, new) = <<new>>
    OBVIOUS
  <2> QED BY <1>0, <2>1, <2>2, <2>3
<1>9. /\ DOMAIN mapping' = DOMAIN mapping \cup {next}
      /\ mapping'[next] = new /\ \A i \in DOMAIN mapping : mapping'[i] = mapping[i]
  BY <1>0, <1>1 DEF put
<1>10. \A i \in DOMAIN mapping : Mapped(i) /\ mapping[i] # new
  BY <1>6, MergeFacts DEF Mapped
<1> HIDE DEF attr, new
<1>11. MergeType'
  BY NodeLoop
<1>12. TargetGrows'
  BY <1>1, <1>4, <1>5, NodeLoop, MergeFacts DEF MergeInv, TargetGrows
<1>13. MappedByName'
  <2>1. DOMAIN mapping' = 0 .. (visited' - 1)
    BY <1>0, <1>9, NodeLoop
  <2>2. ASSUME NEW i \in DOMAIN mapping
        PROVE  /\ source.nodes[i] # Null
               /\ target'.nameIdMap[source.nodes[i].name] # <<>>
               /\ mapping[i] = Head(target'.nameIdMap[source.nodes[i].name])
    <3>1. /\ source.nodes[i] # Null
          /\ target.nameIdMap[source.nodes[i].name] # <<>>
          /\ mapping[i] = Head(target.nameIdMap[source.nodes[i].name])
      BY DEF MergeInv, MappedByName
    <3>2. source.nodes[i].name \in Names /\ source.nodes[i].name # node.name
      BY <1>10, <3>1 DEF Mapped
    <3> QED BY <1>8, <3>1, <3>2
  <2>3. node # Null /\ <<new>> # <<>> /\ Head(<<new>>) = new
    BY <1>0, NullAssumption
  <2> QED BY <1>1, <1>8, <1>9, <2>1, <2>2, <2>3 DEF MappedByName
<1>14. NodesKept'
  <2>1. {mapping'[i] : i \in DOMAIN mapping'} = {mapping[i] : i \in DOMAIN mapping} \cup {new}
    BY <1>9
  <2>2. LiveIds(target') = LiveIds(before') \cup {mapping'[i] : i \in DOMAIN mapping'}
    BY <1>1, <1>6, <2>1 DEF MergeInv, NodesKept
  <2>3. \A i \in LiveIds(before) : target'.nodes[i].name = before.nodes[i].name
    BY <1>7, MergeFacts DEF MergeInv, NodesKept
  <2>4. ASSUME NEW f \in Names
        PROVE  \/ target'.nameIdMap[f] = before.nameIdMap[f]
               \/ before.nameIdMap[f] = <<>> /\ Len(target'.nameIdMap[f]) = 1
    <3>1. \/ target.nameIdMap[f] = before.nameIdMap[f]
          \/ before.nameIdMap[f] = <<>> /\ Len(target.nameIdMap[f]) = 1
      BY DEF MergeInv, NodesKept
    <3>2. CASE f = node.name
      <4>1. before.nameIdMap[f] = <<>>
        BY <3>1, <3>2
      <4>2. Len(<<new>>) = 1
        OBVIOUS
      <4> QED BY <1>8, <3>2, <4>1, <4>2
    <3>3. CASE f # node.name
      BY <1>8, <3>1, <3>3
    <3> QED BY <3>2, <3>3
  <2>5. \A i \in LiveIds(target') : i < before'.size => i \in LiveIds(before')
    BY <1>0, <1>1, <1>2, <1>6, MergeFacts DEF MergeInv, NodesKept, TargetGrows, new
  <2> QED BY <1>1, <2>2, <2>3, <2>4, <2>5 DEF NodesKept
<1>15. CopiesAreNew'
  <2>1. DOMAIN actions \subseteq DOMAIN mapping
    BY DEF MergeInv, CopiesAreNew
  <2> SUFFICES ASSUME NEW i \in DOMAIN mapping' \ DOMAIN actions
               PROVE  /\ mapping'[i] \notin LiveIds(before)
                      /\ \A j \in DOMAIN mapping' : mapping'[j] = mapping'[i] => i <= j
    BY <1>1, <1>9, <2>1 DEF CopiesAreNew
  <2>2. CASE i = next
    BY <1>0, <1>6, <1>9, <1>10, <2>2, MergeFacts
  <2>3. CASE i # next
    <3>1. i \in DOMAIN mapping \ DOMAIN actions /\ mapping'[i] = mapping[i]
      BY <1>9, <2>3
    <3>2. /\ mapping[i] \notin LiveIds(before)
          /\ \A j \in DOMAIN mapping : mapping[j] = mapping[i] => i <= j
      BY <3>1 DEF MergeInv, CopiesAreNew
    <3> QED BY <1>9, <1>10, <3>1, <3>2
  <2> QED BY <2>2, <2>3
<1>16. DefinitionsFirst'
  <2> SUFFICES ASSUME NEW u \in LiveIds(target') PROVE AttributesOf(u)'
    BY DEF DefinitionsFirst
  <2>1. Own(u)' = Own(u)
    BY <1>1 DEF Own
  <2>2. MergedInto(u)' = MergedInto(u) \cup (IF u = new THEN {node} ELSE {})
    BY <1>0, <1>1, <1>9 DEF MergedInto
  <2>3. CASE u = new
    <3>1. Own(u) = {} /\ MergedInto(u) = {}
      BY <1>6, <1>10, <2>3, MergeFacts DEF Own, MergedInto
    <3>2. SameAttributes(target'.nodes[u], node)
      BY <1>5, <2>3
    <3> QED BY <2>1, <2>2, <2>3, <3>1, <3>2 DEF AttributesOf, SameAttributes
  <2>4. CASE u # new
    <3>1. u \in LiveIds(target) /\ target'.nodes[u] = target.nodes[u]
      BY <1>6, <1>7, <2>4
    <3>2. AttributesOf(u)
      BY <3>1 DEF MergeInv, DefinitionsFirst
    <3> QED BY <2>1, <2>2, <2>4, <3>1, <3>2 DEF AttributesOf
  <2> QED BY <2>3, <2>4
<1>17. EdgesMapped'
  BY <1>1, <1>6, NodeLoop DEF MergeInv, EdgesMapped
<1>18. OverridesMapped'
  <2> SUFFICES ASSUME NEW u \in LiveIds(target') PROVE OverrideOf(u)'
    BY DEF OverridesMapped
  <2>1. Contributors(u) = {}
    BY NoContributors, NodeLoop
  <2>2. Contributors(u)' = {}
    BY <1>0, <1>9, NodeLoop DEF Contributors
  <2>3. /\ OwnVirtual(u)' <=> OwnVirtual(u)
        /\ OwnOverrides(u)' = OwnOverrides(u) /\ OwnOverriddenBy(u)' = OwnOverriddenBy(u)
    BY <1>1 DEF OwnVirtual, OwnOverrides, OwnOverriddenBy
  <2>4. CASE u = new
    <3>1. ~ OwnVirtual(u) /\ target'.nodes[u].override = Null
      BY <1>5, <1>6, <2>4, MergeFacts DEF OwnVirtual
    <3> QED BY <2>2, <2>3, <3>1 DEF OverrideOf
  <2>5. CASE u # new
    <3>1. u \in LiveIds(target) /\ target'.nodes[u] = target.nodes[u]
      BY <1>6, <1>7, <2>5
    <3>2. OverrideOf(u)
      BY <3>1 DEF MergeInv, OverridesMapped
    <3> QED BY <2>1, <2>2, <2>3, <3>1, <3>2 DEF OverrideOf
  <2> QED BY <2>4, <2>5
<1>19. EntryMapped'
  BY <1>1, <1>6 DEF MergeInv, EntryMapped, Done, MergeNode
<1> QED BY <1>11, <1>12, <1>13, <1>14, <1>15, <1>16, <1>17, <1>18, <1>19 DEF MergeInv

LEMMA NodesMergedStep ==
  ASSUME MergeInv, NodesMerged
  PROVE  MergeInv'
<1>1. /\ UNCHANGED <<source, target, before, mapping, actions>>
      /\ phase = "nodes" /\ phase' = "edges" /\ next' = 0
      /\ todo' = DOMAIN source.edges /\ mdTodo' = mdTodo
  BY DEF NodesMerged
<1>2. /\ visited' = visited /\ enriched' = enriched /\ copied' = copied
  BY <1>1, MergeFacts DEF NodesMerged, visited, enriched, copied, MergeInv, MergeType
<1>3. SameCore(target, target') /\ WellFormed(target)'
  BY <1>1, MergeFacts DEF SameCore, SameAttributes
<1>4. TargetGrows' /\ MappedByName' /\ NodesKept' /\ CopiesAreNew' /\ DefinitionsFirst'
  BY <1>1, <1>2, <1>3, CoreKept
<1>5. OverridesMapped'
  BY <1>1, <1>2, OverridesKept
<1>6. MergeType'
  BY <1>1, MergeFacts DEF MergeInv, MergeType
<1>7. EdgesMapped'
  BY <1>1, <1>2 DEF MergeInv, EdgesMapped, mappedEdge
<1>8. EntryMapped'
  BY <1>1 DEF MergeInv, EntryMapped, Done
<1> QED BY <1>4, <1>5, <1>6, <1>7, <1>8 DEF MergeInv

-----------------------------------------------------------------------------
(* The edge loop. *)

LEMMA MergeEdgeStep ==
  ASSUME MergeInv, NEW e \in todo, MergeEdge(e)
  PROVE  MergeInv'
<1> DEFINE p == mapping[e[1]]
           c == mapping[e[2]]
<1>1. /\ phase = "edges" /\ mdTodo = {} /\ target' = addEdge(target, p, c)
      /\ todo' = todo \ {e} /\ mdTodo' = {e} \X source.edges[e]
      /\ UNCHANGED <<source, before, phase, next, mapping, actions>>
  BY DEF MergeEdge, mergeEdge, mappedEdge
<1>2. /\ visited' = visited /\ visited = source.size /\ enriched' = enriched
      /\ e \in DOMAIN source.edges /\ copied' = copied \cup {e}
  BY <1>1 DEF visited, enriched, copied, MergeInv, MergeType
<1>3. e[1] \in DOMAIN mapping /\ e[2] \in DOMAIN mapping
  <2>1. e[1] \in Ids /\ e[2] \in Ids /\ hasNode(source, e[1]) /\ hasNode(source, e[2])
    BY <1>2, MergeFacts DEF WellFormed, GraphType, LiveEdges
  <2> QED BY <1>2, <2>1, MergeFacts DEF LiveIds
<1>4. /\ p \in LiveIds(target) /\ p \in Nat /\ hasNode(target, p)
      /\ c \in LiveIds(target) /\ c \in Nat /\ hasNode(target, c)
  BY <1>3, MergeFacts DEF Mapped, LiveIds, Ids
<1> HIDE DEF p, c
<1>5. /\ WellFormed(target') /\ EdgesOnly(target, target')
      /\ \A d \in DOMAIN target.edges : target'.edges[d] = target.edges[d]
      /\ DOMAIN target'.edges = DOMAIN target.edges \cup {<<p, c>>}
  <2>1. WellFormed(target) /\ target' = addEdge(target, p, c)
    BY <1>1, MergeFacts
  <2>2. WellFormed(target') /\ EdgeAdded(target, target', p, c)
    BY <1>4, <2>1, AddEdgeEffect
  <2> QED BY <1>4, <2>2 DEF EdgeAdded
<1>6. /\ target'.size = target.size /\ target'.nodes = target.nodes
      /\ target'.nameIdMap = target.nameIdMap /\ target'.entry = target.entry
  BY <1>5 DEF EdgesOnly
<1>7. SameCore(target, target')
  BY <1>6 DEF SameCore, SameAttributes, LiveIds, hasNode
<1>8. TargetGrows' /\ MappedByName' /\ NodesKept' /\ CopiesAreNew' /\ DefinitionsFirst'
  BY <1>1, <1>2, <1>5, <1>7, CoreKept
<1>9. OverridesMapped'
  BY <1>1, <1>2, <1>6, <1>7, OverridesKept DEF SameCore
<1>10. MergeType'
  BY <1>1, <1>2 DEF MergeInv, MergeType
<1>11. EdgesMapped'
  <2>1. {mappedEdge(d) : d \in copied \cup {e}}
          = {mappedEdge(d) : d \in copied} \cup {<<p, c>>}
    BY DEF mappedEdge, p, c
  <2>2. DOMAIN target'.edges = DOMAIN before.edges \cup {mappedEdge(d) : d \in copied'}
    BY <1>2, <1>5, <2>1 DEF MergeInv, EdgesMapped
  <2>3. \A d \in DOMAIN before.edges :
          {m \in before.edges[d] : m[1] # BaseClass} \subseteq target'.edges[d]
    BY <1>5 DEF MergeInv, EdgesMapped
  <2> QED BY <1>1, <2>2, <2>3 DEF EdgesMapped, mappedEdge
<1>12. EntryMapped'
  BY <1>1, <1>6 DEF MergeInv, EntryMapped, Done
<1> QED BY <1>8, <1>9, <1>10, <1>11, <1>12 DEF MergeInv

LEMMA MergeEdgeMetaDataStep ==
  ASSUME MergeInv, NEW em \in mdTodo, MergeEdgeMetaData(em[1], em[2])
  PROVE  MergeInv'
<1> DEFINE d == mappedEdge(em[1])
           k == em[2][2]
<1>1. /\ phase = "edges" /\ mdTodo' \subseteq mdTodo
      /\ target' = target \/ target' = addEdgeMetaData(target, d, k, FALSE)
      /\ UNCHANGED <<source, before, phase, next, todo, mapping, actions>>
  BY DEF MergeEdgeMetaData
<1>2. /\ visited' = visited /\ enriched' = enriched /\ copied' = copied
  BY <1>1 DEF visited, enriched, copied
<1>3. k \in MdKinds
  <2>1. em[1] \in DOMAIN source.edges /\ em[2] \in source.edges[em[1]]
    BY DEF MergeInv, MergeType
  <2>2. source.edges[em[1]] \in SUBSET (MdKeys \X MdKinds)
    BY <2>1, MergeFacts DEF WellFormed, GraphType
  <2>3. em[2] \in MdKeys \X MdKinds
    BY <2>1, <2>2
  <2> QED BY <2>3
<1> HIDE DEF d, k
<1>4. /\ WellFormed(target') /\ EdgesOnly(target, target')
      /\ DOMAIN target'.edges = DOMAIN target.edges
      /\ \A e \in DOMAIN target.edges : \A m \in target.edges[e] :
            m[1] # BaseClass => m \in target'.edges[e]
  <2>1. WellFormed(target)
    BY MergeFacts
  <2>2. CASE target' = target
    BY <2>1, <2>2 DEF EdgesOnly, WellFormed, GraphType
  <2>3. CASE target' = addEdgeMetaData(target, d, k, FALSE)
    <3>1. WellFormed(target')
      BY <1>3, <2>1, <2>3, AddEdgeMetaDataWellFormed
    <3>2. edgeMdKey(k, FALSE) = BaseClass
      BY DEF edgeMdKey
    <3>3. MetadataReplaced(target, target', BaseClass)
      BY <2>1, <2>3, <3>2, AddEdgeMetaDataEffect
    <3> QED BY <3>1, <3>3 DEF MetadataReplaced
  <2> QED BY <1>1, <2>2, <2>3
<1>5. /\ target'.size = target.size /\ target'.nodes = target.nodes
      /\ target'.nameIdMap = target.nameIdMap /\ target'.entry = target.entry
  BY <1>4 DEF EdgesOnly
<1>6. SameCore(target, target')
  BY <1>5 DEF SameCore, SameAttributes, LiveIds, hasNode
<1>7. TargetGrows' /\ MappedByName' /\ NodesKept' /\ CopiesAreNew' /\ DefinitionsFirst'
  BY <1>1, <1>2, <1>4, <1>6, CoreKept
<1>8. OverridesMapped'
  BY <1>1, <1>2, <1>5, <1>6, OverridesKept DEF SameCore
<1>9. MergeType'
  BY <1>1, <1>2 DEF MergeInv, MergeType
<1>10. EdgesMapped'
  <2>1. \A e \in DOMAIN before.edges : e \in DOMAIN target.edges
    BY DEF MergeInv, EdgesMapped
  <2>2. \A e \in DOMAIN before.edges :
          {m \in before.edges[e] : m[1] # BaseClass} \subseteq target'.edges[e]
    BY <1>4, <2>1 DEF MergeInv, EdgesMapped
  <2>3. DOMAIN target'.edges = DOMAIN before.edges \cup {mappedEdge(e) : e \in copied}
    BY <1>4 DEF MergeInv, EdgesMapped
  <2> QED BY <1>1, <1>2, <2>2, <2>3 DEF EdgesMapped, mappedEdge
<1>11. EntryMapped'
  BY <1>1, <1>5 DEF MergeInv, EntryMapped, Done
<1> QED BY <1>7, <1>8, <1>9, <1>10, <1>11 DEF MergeInv

LEMMA EdgesMergedStep ==
  ASSUME MergeInv, EdgesMerged
  PROVE  MergeInv'
<1>1. /\ UNCHANGED <<source, target, before, next, todo, mdTodo, mapping, actions>>
      /\ phase = "edges" /\ phase' = "metadata" /\ todo = {} /\ mdTodo = {} /\ next = 0
  BY DEF EdgesMerged, MergeInv, MergeType
<1>2. visited' = visited /\ enriched' = enriched /\ copied' = copied
  BY <1>1 DEF visited, enriched, copied
<1>3. SameCore(target, target') /\ WellFormed(target)'
  BY <1>1, MergeFacts DEF SameCore, SameAttributes
<1>4. TargetGrows' /\ MappedByName' /\ NodesKept' /\ CopiesAreNew' /\ DefinitionsFirst'
  BY <1>1, <1>2, <1>3, CoreKept
<1>5. OverridesMapped'
  BY <1>1, <1>2, OverridesKept
<1>6. MergeType'
  BY <1>1 DEF MergeInv, MergeType
<1>7. EdgesMapped'
  BY <1>1, <1>2 DEF MergeInv, EdgesMapped, mappedEdge
<1>8. EntryMapped'
  BY <1>1 DEF MergeInv, EntryMapped, Done
<1> QED BY <1>4, <1>5, <1>6, <1>7, <1>8 DEF MergeInv

-----------------------------------------------------------------------------
(* The metadata loop. *)

\* The new content of the metadata consists of ids of the target.
LEMMA MergedOverride ==
  ASSUME MergeInv, visited = source.size, NEW i \in DOMAIN mapping,
         source.nodes[i].override # Null, NEW old \in OverrideMD \cup {Null}
  PROVE  mergeOverride(old, source.nodes[i].override) \in OverrideMD
<1> DEFINE md   == source.nodes[i].override
           base == IF old = Null THEN NoOverride ELSE old
<1>1. i \in LiveIds(source) /\ DOMAIN mapping = LiveIds(source)
      /\ \A j \in DOMAIN mapping : mapping[j] \in Ids
  BY MergeFacts DEF Mapped
<1>2. md.overrides \subseteq DOMAIN mapping /\ md.overriddenBy \subseteq DOMAIN mapping
  BY <1>1 DEF MergeInv, MergeType, Mergeable, LiveOverrides
<1>3. mapIds(md.overrides) \subseteq Ids /\ mapIds(md.overriddenBy) \subseteq Ids
  BY <1>1, <1>2 DEF mapIds
<1>4. base.overrides \subseteq Ids /\ base.overriddenBy \subseteq Ids
  BY DEF NoOverride, OverrideMD
<1> HIDE DEF md, base
<1>5. mergeOverride(old, md) = [overrides    |-> base.overrides \cup mapIds(md.overrides),
                                overriddenBy |-> base.overriddenBy \cup mapIds(md.overriddenBy)]
  BY DEF mergeOverride, base
<1>6. mergeOverride(old, md) \in OverrideMD
  BY <1>3, <1>4, <1>5 DEF OverrideMD
<1> QED BY <1>6 DEF md

LEMMA MergeNodeMetaDataStep ==
  ASSUME MergeInv, MergeNodeMetaData
  PROVE  MergeInv'
<1> DEFINE md  == source.nodes[next].override
           t   == mapping[next]
           old == target.nodes[t].override
           new == mergeOverride(old, md)
<1>1. /\ phase = "metadata" /\ next < source.size /\ next' = next + 1
      /\ target' = IF md = Null THEN target ELSE [target EXCEPT !.nodes[t].override = new]
      /\ UNCHANGED <<source, before, phase, todo, mdTodo, mapping, actions>>
  BY DEF MergeNodeMetaData
<1>2. /\ visited' = visited /\ visited = source.size /\ copied' = copied
      /\ enriched = next /\ enriched' = next + 1
  BY <1>1 DEF visited, enriched, copied
<1>3. next \in Nat /\ next \in DOMAIN mapping /\ Mapped(next) /\ WellFormed(target)
  BY <1>1, <1>2, MergeFacts DEF MergeInv, MappedByName
<1>4. t \in LiveIds(target) /\ t \in Ids /\ target.nodes[t] \in Node
  BY <1>3, NamedNode DEF Mapped
<1>5. /\ WellFormed(target') /\ target'.size = target.size
      /\ LiveIds(target') = LiveIds(target) /\ target'.nameIdMap = target.nameIdMap
      /\ target'.edges = target.edges /\ target'.entry = target.entry
      /\ \A i \in Ids \ {t} : target'.nodes[i] = target.nodes[i]
      /\ target'.nodes[t].name = target.nodes[t].name
      /\ SameAttributes(target'.nodes[t], target.nodes[t])
      /\ target'.nodes[t].override = IF md = Null THEN old ELSE new
  <2>1. CASE md = Null
    BY <1>1, <1>3, <2>1 DEF SameAttributes
  <2>2. CASE md # Null
    <3> DEFINE n == [target.nodes[t] EXCEPT !.override = new]
    <3>1. old \in OverrideMD \cup {Null}
      BY <1>4 DEF Node
    <3>2. new \in OverrideMD
      <4> HIDE DEF old
      <4> QED BY <1>2, <1>3, <2>2, <3>1, MergedOverride
    <3> HIDE DEF new
    <3>3. /\ n \in Node /\ n.name = target.nodes[t].name /\ n.override = new
          /\ SameAttributes(n, target.nodes[t])
      BY <1>4, <3>2 DEF Node, SameAttributes
    <3>4. target' = [target EXCEPT !.nodes[t] = n]
      BY <1>1, <2>2
    <3> HIDE DEF n, t
    <3>5. WellFormed(target') /\ OneNodeChanged(target, target', t, n)
      BY <1>3, <1>4, <3>3, <3>4, NodeChanged
    <3> QED BY <2>2, <3>3, <3>5 DEF OneNodeChanged
  <2> QED BY <2>1, <2>2
<1> HIDE DEF old, new, t
<1>6. SameCore(target, target')
  <2>1. \A i \in LiveIds(target) : i \in Ids
    BY DEF LiveIds
  <2> QED BY <1>5, <2>1 DEF SameCore, SameAttributes
<1>7. TargetGrows' /\ MappedByName' /\ NodesKept' /\ CopiesAreNew' /\ DefinitionsFirst'
  BY <1>1, <1>2, <1>5, <1>6, CoreKept
<1>8. MergeType'
  BY <1>1, <1>3, MergeFacts DEF MergeInv, MergeType
<1>9. EdgesMapped'
  BY <1>1, <1>2, <1>5 DEF MergeInv, EdgesMapped, mappedEdge
<1>10. EntryMapped'
  BY <1>1, <1>5 DEF MergeInv, EntryMapped, Done
<1>11. OverridesMapped'
  <2> SUFFICES ASSUME NEW u \in LiveIds(target) PROVE OverrideOf(u)'
    BY <1>5 DEF OverridesMapped
  <2>1. /\ OwnVirtual(u)' <=> OwnVirtual(u)
        /\ OwnOverrides(u)' = OwnOverrides(u) /\ OwnOverriddenBy(u)' = OwnOverriddenBy(u)
    BY <1>1 DEF OwnVirtual, OwnOverrides, OwnOverriddenBy
  <2>2. OverrideOf(u)
    BY DEF MergeInv, OverridesMapped
  <2>3. \A S : mapIds(S)' = mapIds(S)
    BY <1>1 DEF mapIds
  <2>4. \A i \in DOMAIN mapping : i \in Nat /\ (i < next + 1 <=> i < next \/ i = next)
    BY <1>3, MergeFacts DEF Mapped
  <2>5. Contributors(u)' = Contributors(u) \cup (IF u = t /\ md # Null THEN {next} ELSE {})
    BY <1>1, <1>2, <1>3, <2>4 DEF Contributors, t
  <2>6. CASE u # t \/ md = Null
    <3>1. target'.nodes[u].override = target.nodes[u].override /\ Contributors(u)' = Contributors(u)
      BY <1>5, <2>5, <2>6 DEF LiveIds, old
    <3> QED BY <1>1, <2>1, <2>2, <2>3, <3>1 DEF OverrideOf, mapIds
  <2>7. CASE u = t /\ md # Null
    <3> DEFINE A == mapIds(md.overrides)
               B == mapIds(md.overriddenBy)
               C == UNION {mapIds(source.nodes[i].override.overrides) : i \in Contributors(u)}
               D == UNION {mapIds(source.nodes[i].override.overriddenBy) : i \in Contributors(u)}
    <3>1. Contributors(u)' = Contributors(u) \cup {next}
      BY <2>5, <2>7
    <3>2. /\ UNION {mapIds(source.nodes[i].override.overrides) : i \in Contributors(u)'} = C \cup A
          /\ UNION {mapIds(source.nodes[i].override.overriddenBy) : i \in Contributors(u)'} = D \cup B
      BY <3>1
    <3>3. /\ target'.nodes[u].override = new /\ new \in OverrideMD
          /\ old \in OverrideMD \cup {Null} /\ old = target.nodes[u].override
      <4>1. old \in OverrideMD \cup {Null}
        BY <1>4 DEF Node, old
      <4> QED BY <1>2, <1>3, <1>5, <2>7, <4>1, MergedOverride DEF new, old
    <3>4. new.overrides = OwnOverrides(u) \cup (C \cup A)
          /\ new.overriddenBy = OwnOverriddenBy(u) \cup (D \cup B)
      <4> HIDE DEF A, B
      <4>1. CASE old = Null
        <5>1. new.overrides = A /\ new.overriddenBy = B
          BY <4>1 DEF new, mergeOverride, NoOverride, A, B
        <5>2. ~ OwnVirtual(u) /\ Contributors(u) = {}
          BY <2>2, <3>3, <4>1 DEF OverrideOf
        <5>3. OwnOverrides(u) = {} /\ OwnOverriddenBy(u) = {} /\ C = {} /\ D = {}
          BY <5>2 DEF OwnOverrides, OwnOverriddenBy
        <5> QED BY <5>1, <5>3
      <4>2. CASE old # Null
        <5>1. new.overrides = old.overrides \cup A /\ new.overriddenBy = old.overriddenBy \cup B
          BY <4>2 DEF new, mergeOverride, A, B
        <5>2. old.overrides = OwnOverrides(u) \cup C /\ old.overriddenBy = OwnOverriddenBy(u) \cup D
          BY <2>2, <3>3, <4>2 DEF OverrideOf
        <5> QED BY <5>1, <5>2
      <4> QED BY <4>1, <4>2
    <3>5. new # Null
      BY <3>3, NoMdAssumption
    <3> HIDE DEF A, B, C, D
    <3> QED BY <1>1, <2>1, <3>1, <3>2, <3>3, <3>4, <3>5 DEF OverrideOf, mapIds
  <2> QED BY <2>6, <2>7
<1> QED BY <1>7, <1>8, <1>9, <1>10, <1>11 DEF MergeInv

\* The entry function that is taken over is a node of the target.
LEMMA MergedEntry ==
  ASSUME MergeInv, visited = source.size, source.entry \in Ids
  PROVE  source.entry \in DOMAIN mapping /\ Mapped(source.entry)
<1>1. hasNode(source, source.entry)
  BY DEF MergeInv, MergeType, Mergeable
<1> QED BY <1>1, MergeFacts DEF LiveIds

LEMMA MergeGlobalMetaDataStep ==
  ASSUME MergeInv, MergeGlobalMetaData
  PROVE  MergeInv'
<1> DEFINE entry == mergeEntry(target.entry, source.entry)
<1>1. /\ phase = "metadata" /\ next >= source.size /\ phase' = "done"
      /\ target' = resetMain([target EXCEPT !.entry = entry])
      /\ UNCHANGED <<source, before, next, todo, mdTodo, mapping, actions>>
  BY DEF MergeGlobalMetaData
<1>2. /\ visited' = visited /\ visited = source.size /\ copied' = copied
      /\ enriched' = enriched
  BY <1>1, MergeFacts DEF visited, enriched, copied, MergeInv, MergeType
<1>3. entry \in Ids \cup {Null, NoId}
  <2>1. source.entry \in Ids => mapping[source.entry] \in Ids
    BY <1>2, MergedEntry DEF Mapped
  <2>2. target.entry \in Ids \cup {Null, NoId} /\ source.entry \in Ids \cup {Null, NoId}
    BY MergeFacts DEF WellFormed, GraphType
  <2> QED BY <2>1, <2>2 DEF mergeEntry
<1>4. target.entry = before.entry
  BY <1>1 DEF MergeInv, EntryMapped, Done
<1> HIDE DEF entry
<1>5. MainOnly(target, target') /\ target'.mainNode = Null /\ target'.entry = entry
  <2>1. WellFormed(target)
    BY MergeFacts
  <2>2. target' = [target EXCEPT !.entry = entry, !.mainNode = Null]
    BY <1>1, <2>1 DEF resetMain, WellFormed, GraphType
  <2> QED BY <2>1, <2>2 DEF MainOnly, WellFormed, GraphType
<1>6. WellFormed(target')
  <2>1. WellFormed(target)
    BY MergeFacts
  <2> QED BY <1>3, <1>5, <2>1, MainReplaced
<1>7. /\ target'.size = target.size /\ target'.nodes = target.nodes
      /\ target'.nameIdMap = target.nameIdMap /\ target'.edges = target.edges
  BY <1>5 DEF MainOnly
<1>8. SameCore(target, target')
  BY <1>7 DEF SameCore, SameAttributes, LiveIds, hasNode
<1>9. TargetGrows' /\ MappedByName' /\ NodesKept' /\ CopiesAreNew' /\ DefinitionsFirst'
  BY <1>1, <1>2, <1>6, <1>8, CoreKept
<1>10. OverridesMapped'
  BY <1>1, <1>2, <1>7, <1>8, OverridesKept DEF SameCore
<1>11. MergeType'
  BY <1>1 DEF MergeInv, MergeType
<1>12. EdgesMapped'
  BY <1>1, <1>2, <1>7 DEF MergeInv, EdgesMapped, mappedEdge
<1>13. EntryMapped'
  BY <1>1, <1>4, <1>5 DEF EntryMapped, Done, entry, mergeEntry
<1> QED BY <1>9, <1>10, <1>11, <1>12, <1>13 DEF MergeInv

-----------------------------------------------------------------------------
(* The invariant holds. *)

LEMMA MergeInit ==
  ASSUME Init
  PROVE  MergeInv
<1>1. /\ Mergeable(source, target) /\ before = target
      /\ phase = "nodes" /\ next = 0 /\ todo = {} /\ mdTodo = {}
      /\ DOMAIN mapping = {} /\ DOMAIN actions = {}
  BY InputsAssumption DEF Init, NoMapping
<1>2. visited = 0 /\ enriched = 0 /\ copied = {}
  BY <1>1 DEF visited, enriched, copied
<1>3. WellFormed(source) /\ WellFormed(target) /\ source.size \in Nat /\ target.size \in Nat
  <2>1. WellFormed(source) /\ WellFormed(target)
    BY <1>1 DEF Mergeable
  <2>2. source.size \in Nat /\ target.size \in Nat
    BY <2>1, MaxSizeAssumption DEF WellFormed, GraphType
  <2> QED BY <2>1, <2>2
<1>4. MergeType /\ TargetGrows
  BY <1>1, <1>2, <1>3 DEF MergeType, TargetGrows
<1>5. MappedByName /\ NodesKept /\ CopiesAreNew
  BY <1>1, <1>2 DEF MappedByName, NodesKept, CopiesAreNew
<1>6. DefinitionsFirst
  <2> SUFFICES ASSUME NEW t \in LiveIds(target) PROVE AttributesOf(t)
    BY DEF DefinitionsFirst
  <2>1. Own(t) = {target.nodes[t]} /\ MergedInto(t) = {}
    BY <1>1 DEF Own, MergedInto
  <2> QED BY <2>1 DEF AttributesOf, SameAttributes
<1>7. EdgesMapped
  BY <1>1, <1>2 DEF EdgesMapped
<1>8. OverridesMapped
  <2> SUFFICES ASSUME NEW t \in LiveIds(target) PROVE OverrideOf(t)
    BY DEF OverridesMapped
  <2>1. Contributors(t) = {}
    BY <1>1 DEF Contributors
  <2> QED BY <1>1, <2>1 DEF OverrideOf, OwnVirtual, OwnOverrides, OwnOverriddenBy
<1>9. EntryMapped
  BY <1>1 DEF EntryMapped, Done
<1> QED BY <1>4, <1>5, <1>6, <1>7, <1>8, <1>9 DEF MergeInv

LEMMA MergeStutters ==
  ASSUME MergeInv, UNCHANGED vars
  PROVE  MergeInv'
<1>1. UNCHANGED <<source, target, before, phase, next, todo, mdTodo, mapping, actions>>
  BY DEF vars
<1>2. visited' = visited /\ enriched' = enriched /\ copied' = copied
  BY <1>1 DEF visited, enriched, copied
<1>3. SameCore(target, target') /\ WellFormed(target)'
  BY <1>1, MergeFacts DEF SameCore, SameAttributes
<1>4. TargetGrows' /\ MappedByName' /\ NodesKept' /\ CopiesAreNew' /\ DefinitionsFirst'
  BY <1>1, <1>2, <1>3, CoreKept
<1>5. OverridesMapped'
  BY <1>1, <1>2, OverridesKept
<1>6. MergeType'
  BY <1>1 DEF MergeInv, MergeType
<1>7. EdgesMapped'
  BY <1>1, <1>2 DEF MergeInv, EdgesMapped, mappedEdge
<1>8. EntryMapped'
  BY <1>1 DEF MergeInv, EntryMapped, Done, mergeEntry
<1> QED BY <1>4, <1>5, <1>6, <1>7, <1>8 DEF MergeInv

\* After every iteration of every loop of merge the invariant holds: what the
\* recorder, the target's nodes, edges and metadata are at that point.
THEOREM MergeInvariant == Spec => []MergeInv
<1>1. Init => MergeInv
  BY MergeInit
<1>2. ASSUME MergeInv, [Next]_vars PROVE MergeInv'
  <2>1. CASE MergeNode
    BY <2>1, <1>2, MergeMatch, MergeCopy
  <2>2. CASE NodesMerged
    BY <2>2, <1>2, NodesMergedStep
  <2>3. ASSUME NEW e \in todo, MergeEdge(e) PROVE MergeInv'
    BY <2>3, <1>2, MergeEdgeStep
  <2>4. ASSUME NEW em \in mdTodo, MergeEdgeMetaData(em[1], em[2]) PROVE MergeInv'
    BY <2>4, <1>2, MergeEdgeMetaDataStep
  <2>5. CASE EdgesMerged
    BY <2>5, <1>2, EdgesMergedStep
  <2>6. CASE MergeNodeMetaData
    BY <2>6, <1>2, MergeNodeMetaDataStep
  <2>7. CASE MergeGlobalMetaData
    BY <2>7, <1>2, MergeGlobalMetaDataStep
  <2>8. CASE Merged \/ UNCHANGED vars
    BY <2>8, <1>2, MergeStutters DEF Merged
  <2> QED BY <1>2, <2>1, <2>2, <2>3, <2>4, <2>5, <2>6, <2>7, <2>8 DEF Next
<1> QED BY <1>1, <1>2, PTL DEF Spec

-----------------------------------------------------------------------------
(* What merge promises. *)

\* The recorder is sound throughout, and the metadata loop never meets metadata
\* that no merge action accounts for.
THEOREM RecorderAlwaysSound == Spec => []RecorderSound
<1>1. MergeInv => RecorderSound
  <2> SUFFICES ASSUME MergeInv PROVE RecorderSound
    OBVIOUS
  <2>1. \A i \in DOMAIN mapping :
          hasNode(target, mapping[i]) /\ target.nodes[mapping[i]].name = source.nodes[i].name
    BY MergeFacts DEF Mapped, LiveIds
  <2>2. ASSUME phase = "metadata", next < source.size,
               target.nodes[mapping[next]].override # Null, next \notin DOMAIN actions
        PROVE  FALSE
    <3>1. visited = source.size /\ enriched = next
      BY <2>2 DEF visited, enriched
    <3>2. next \in DOMAIN mapping /\ mapping[next] \in LiveIds(target) /\ next \in Nat
      BY <2>2, <3>1, MergeFacts DEF MergeInv, MappedByName, Mapped
    <3>3. /\ mapping[next] \notin LiveIds(before)
          /\ \A j \in DOMAIN mapping : mapping[j] = mapping[next] => next <= j
      BY <2>2, <3>2 DEF MergeInv, CopiesAreNew
    <3>4. \A j \in DOMAIN mapping : j \in Nat
      BY MergeFacts DEF Mapped
    <3>5. Contributors(mapping[next]) = {} /\ ~ OwnVirtual(mapping[next])
      BY <3>1, <3>2, <3>3, <3>4 DEF Contributors, OwnVirtual
    <3>6. OverrideOf(mapping[next])
      BY <3>2 DEF MergeInv, OverridesMapped
    <3> QED BY <2>2, <3>5, <3>6 DEF OverrideOf
  <2> QED BY <2>1, <2>2 DEF RecorderSound
<1> QED BY <1>1, MergeInvariant, PTL

\* The target stays a well-formed graph and loses nothing, whatever is merged
\* into it.
THEOREM TargetAlwaysKept == Spec => []TargetKept
<1>1. MergeInv => TargetKept
  <2> SUFFICES ASSUME MergeInv PROVE TargetKept
    OBVIOUS
  <2>1. WellFormed(target)
    BY MergeFacts
  <2>2. \A i \in LiveIds(before) : hasNode(target, i) /\ target.nodes[i].name = before.nodes[i].name
    BY MergeFacts DEF MergeInv, NodesKept, LiveIds
  <2>3. \A e \in DOMAIN before.edges :
          /\ e \in DOMAIN target.edges
          /\ {m \in before.edges[e] : m[1] # BaseClass} \subseteq target.edges[e]
    BY DEF MergeInv, EdgesMapped
  <2>4. \A f \in Names : Len(target.nameIdMap[f]) > 1 => target.nameIdMap[f] = before.nameIdMap[f]
    <3>1. ~ (1 > 1)
      OBVIOUS
    <3> QED BY <3>1 DEF MergeInv, NodesKept
  <2> QED BY <2>1, <2>2, <2>3, <2>4 DEF TargetKept
<1> QED BY <1>1, MergeInvariant, PTL

\* The target keeps its entry function or takes over that of the source, and
\* the main function is looked up anew.
THEOREM EntryAlwaysKept == Spec => []EntryKept
<1>1. MergeInv => EntryKept
  <2> SUFFICES ASSUME MergeInv, Done
               PROVE  /\ before.entry \in Ids => target.entry = before.entry
                      /\ before.entry \notin Ids /\ source.entry \in Ids =>
                            /\ hasNode(target, target.entry)
                            /\ target.nodes[target.entry].name = source.nodes[source.entry].name
                      /\ getMain(target, FALSE) = getMain(target, TRUE)
    BY DEF EntryKept
  <2>1. target.entry = mergeEntry(before.entry, source.entry) /\ target.mainNode = Null
    BY DEF MergeInv, EntryMapped
  <2>2. before.entry \in Ids \cup {Null, NoId}
    BY MergeFacts DEF WellFormed, GraphType
  <2>3. Null \notin Ids /\ NoId \notin Ids
    BY NullAssumption, NoIdAssumption DEF Ids
  <2>4. before.entry \in Ids => target.entry = before.entry
    BY <2>1, <2>3 DEF mergeEntry
  <2>5. ASSUME before.entry \notin Ids, source.entry \in Ids
        PROVE  /\ hasNode(target, target.entry)
               /\ target.nodes[target.entry].name = source.nodes[source.entry].name
    <3>1. target.entry = mapping[source.entry]
      BY <2>1, <2>2, <2>5 DEF mergeEntry
    <3>2. visited = source.size
      BY DEF visited, Done
    <3>3. Mapped(source.entry)
      BY <2>5, <3>2, MergedEntry
    <3> QED BY <3>1, <3>3 DEF Mapped, LiveIds
  <2>6. getMain(target, FALSE) = getMain(target, TRUE)
    BY <2>1 DEF getMain
  <2> QED BY <2>4, <2>5, <2>6
<1> QED BY <1>1, MergeInvariant, PTL

\* At the end every source node is mapped, and the target's nodes are its own
\* and the images of the source nodes, with the names they had.
LEMMA AllMapped ==
  ASSUME MergeInv, Done
  PROVE  /\ visited = source.size /\ enriched = source.size /\ copied = DOMAIN source.edges
         /\ DOMAIN mapping = LiveIds(source)
         /\ LiveIds(target) = LiveIds(before) \cup {mapping[i] : i \in LiveIds(source)}
         /\ \A i \in LiveIds(before) : target.nodes[i].name = before.nodes[i].name
         /\ \A i \in LiveIds(source) : target.nodes[mapping[i]].name = source.nodes[i].name
<1>1. visited = source.size /\ enriched = source.size /\ copied = DOMAIN source.edges
  BY DEF visited, enriched, copied, Done, MergeInv, MergeType
<1>2. DOMAIN mapping = LiveIds(source) /\ \A i \in DOMAIN mapping : Mapped(i)
  BY <1>1, MergeFacts
<1> QED BY <1>1, <1>2 DEF Mapped, MergeInv, NodesKept

\* The functions of the result.
LEMMA FunctionsUnited ==
  ASSUME MergeInv, Done
  PROVE  Functions(target) = Functions(before) \cup Functions(source)
<1>1. \A f : f \in Functions(target) <=> f \in Functions(before) \/ f \in Functions(source)
  BY AllMapped DEF Functions
<1> QED BY <1>1

\* The calls of the result.
LEMMA CallsUnited ==
  ASSUME MergeInv, Done
  PROVE  Calls(target) = Calls(before) \cup Calls(source)
<1>1. DOMAIN target.edges = DOMAIN before.edges \cup {mappedEdge(e) : e \in DOMAIN source.edges}
  BY AllMapped DEF MergeInv, EdgesMapped
<1>2. ASSUME NEW g, WellFormed(g), NEW e \in DOMAIN g.edges
      PROVE  e[1] \in LiveIds(g) /\ e[2] \in LiveIds(g)
  <2>1. e[1] \in Ids /\ e[2] \in Ids
    BY <1>2 DEF WellFormed, GraphType
  <2>2. hasNode(g, e[1]) /\ hasNode(g, e[2])
    BY <1>2 DEF WellFormed, LiveEdges
  <2> QED BY <2>1, <2>2 DEF LiveIds
<1> DEFINE C(g, e) == <<g.nodes[e[1]].name, g.nodes[e[2]].name>>
<1>3. \A e \in DOMAIN before.edges : C(target, e) = C(before, e)
  BY <1>2, AllMapped, MergeFacts
<1>4. ASSUME NEW e \in DOMAIN source.edges PROVE C(target, mappedEdge(e)) = C(source, e)
  <2>1. e[1] \in LiveIds(source) /\ e[2] \in LiveIds(source)
    BY <1>2, MergeFacts
  <2>2. mappedEdge(e)[1] = mapping[e[1]] /\ mappedEdge(e)[2] = mapping[e[2]]
    BY DEF mappedEdge
  <2> QED BY <2>1, <2>2, AllMapped
<1>5. /\ Calls(target) = {C(target, e) : e \in DOMAIN target.edges}
      /\ Calls(before) = {C(before, e) : e \in DOMAIN before.edges}
      /\ Calls(source) = {C(source, e) : e \in DOMAIN source.edges}
  BY DEF Calls
<1> HIDE DEF C
<1> QED BY <1>1, <1>3, <1>4, <1>5

\* The override relations, both directions, as pairs of nodes.
LEMMA OverridePairs ==
  ASSUME NEW g, NEW x
  PROVE  /\ x \in Overrides(g) <=>
              \E i \in Virtual(g) : \E j \in Related(g, g.nodes[i].override.overrides) :
                 x = <<g.nodes[i].name, g.nodes[j].name>>
         /\ x \in OverriddenBy(g) <=>
              \E i \in Virtual(g) : \E j \in Related(g, g.nodes[i].override.overriddenBy) :
                 x = <<g.nodes[i].name, g.nodes[j].name>>
<1>1. x \in Overrides(g) <=>
        \E i \in Virtual(g) : \E j \in Related(g, g.nodes[i].override.overrides) :
           x = <<g.nodes[i].name, g.nodes[j].name>>
  BY DEF Overrides
<1>2. x \in OverriddenBy(g) <=>
        \E i \in Virtual(g) : \E j \in Related(g, g.nodes[i].override.overriddenBy) :
           x = <<g.nodes[i].name, g.nodes[j].name>>
  BY DEF OverriddenBy
<1> QED BY <1>1, <1>2

\* A node of the result has metadata if it had some or a node mapped to it had.
LEMMA VirtualUnited ==
  ASSUME MergeInv, Done
  PROVE  /\ \A t \in Virtual(target) : OverrideOf(t) /\ t \in LiveIds(target)
         /\ \A t \in Virtual(before) : t \in Virtual(target) /\ OwnVirtual(t)
         /\ \A i \in Virtual(source) : /\ i \in LiveIds(source) /\ mapping[i] \in Virtual(target)
                                       /\ i \in Contributors(mapping[i])
         /\ \A t : \A i \in Contributors(t) : i \in Virtual(source) /\ mapping[i] = t
         /\ \A t : OwnVirtual(t) => t \in Virtual(before)
<1>1. \A t \in LiveIds(target) : OverrideOf(t)
  BY DEF MergeInv, OverridesMapped
<1>2. \A i \in LiveIds(source) : i < source.size /\ i \in DOMAIN mapping /\ mapping[i] \in LiveIds(target)
  BY AllMapped, MergeFacts DEF Mapped
<1>3. \A i \in Virtual(source) : i \in LiveIds(source) /\ i \in Contributors(mapping[i])
  BY <1>2, AllMapped DEF Virtual, Contributors
<1>4. \A i \in Virtual(source) : mapping[i] \in Virtual(target)
  BY <1>1, <1>2, <1>3 DEF Virtual, OverrideOf
<1>5. \A t \in Virtual(before) : OwnVirtual(t) /\ t \in Virtual(target)
  BY <1>1, MergeFacts DEF Virtual, OwnVirtual, OverrideOf
<1>6. \A t : \A i \in Contributors(t) : i \in Virtual(source) /\ mapping[i] = t
  BY AllMapped DEF Contributors, Virtual
<1>7. \A t : OwnVirtual(t) => t \in Virtual(before)
  BY DEF OwnVirtual, Virtual
<1>8. \A t \in Virtual(target) : OverrideOf(t) /\ t \in LiveIds(target)
  BY <1>1 DEF Virtual
<1> QED BY <1>3, <1>4, <1>5, <1>6, <1>7, <1>8

\* The live ids in the metadata of a node of the result are its own and those
\* that were mapped: no copy has an id that erase left behind in the target.
LEMMA RelatedUnited ==
  ASSUME MergeInv, Done, NEW t \in Virtual(target), NEW j
  PROVE  /\ j \in Related(target, target.nodes[t].override.overrides) <=>
              \/ OwnVirtual(t) /\ j \in Related(before, before.nodes[t].override.overrides)
              \/ \E i \in Contributors(t) :
                   \E k \in Related(source, source.nodes[i].override.overrides) : j = mapping[k]
         /\ j \in Related(target, target.nodes[t].override.overriddenBy) <=>
              \/ OwnVirtual(t) /\ j \in Related(before, before.nodes[t].override.overriddenBy)
              \/ \E i \in Contributors(t) :
                   \E k \in Related(source, source.nodes[i].override.overriddenBy) : j = mapping[k]
<1>1. /\ \A k \in LiveIds(before) : k \in LiveIds(target)
      /\ \A k \in LiveIds(source) : mapping[k] \in LiveIds(target)
  BY AllMapped, MergeFacts
<1>2. OwnVirtual(t) =>
        /\ \A k \in before.nodes[t].override.overrides : k \in LiveIds(target) <=> k \in LiveIds(before)
        /\ \A k \in before.nodes[t].override.overriddenBy : k \in LiveIds(target) <=> k \in LiveIds(before)
  <2> SUFFICES ASSUME OwnVirtual(t)
               PROVE  /\ before.nodes[t].override.overrides \subseteq 0 .. (before.size - 1)
                      /\ before.nodes[t].override.overriddenBy \subseteq 0 .. (before.size - 1)
    BY <1>1, MergeFacts DEF MergeInv, NodesKept
  <2> QED BY DEF OwnVirtual, MergeInv, MergeType, Mergeable, InsertedOverrides
<1>3. \A i \in Contributors(t) :
        /\ source.nodes[i].override.overrides \subseteq LiveIds(source)
        /\ source.nodes[i].override.overriddenBy \subseteq LiveIds(source)
  BY VirtualUnited DEF Virtual, MergeInv, MergeType, Mergeable, LiveOverrides
<1>4. /\ target.nodes[t].override # Null
      /\ OverrideOf(t)
  BY VirtualUnited DEF Virtual
<1>5. j \in target.nodes[t].override.overrides <=>
        \/ OwnVirtual(t) /\ j \in before.nodes[t].override.overrides
        \/ \E i \in Contributors(t) : \E k \in source.nodes[i].override.overrides : j = mapping[k]
  BY <1>4 DEF OverrideOf, OwnOverrides, mapIds
<1>6. j \in target.nodes[t].override.overriddenBy <=>
        \/ OwnVirtual(t) /\ j \in before.nodes[t].override.overriddenBy
        \/ \E i \in Contributors(t) : \E k \in source.nodes[i].override.overriddenBy : j = mapping[k]
  BY <1>4 DEF OverrideOf, OwnOverriddenBy, mapIds
<1> QED BY <1>1, <1>2, <1>3, <1>5, <1>6 DEF Related

\* What overrides what in the result.
LEMMA OverridesUnited ==
  ASSUME MergeInv, Done
  PROVE  Overrides(target) = Overrides(before) \cup Overrides(source)
<1> DEFINE R(g, i) == Related(g, g.nodes[i].override.overrides)
           P(g, i, j) == <<g.nodes[i].name, g.nodes[j].name>>
<1>1. \A t \in Virtual(target) : \A j :
        j \in R(target, t) <=> \/ OwnVirtual(t) /\ j \in R(before, t)
                               \/ \E i \in Contributors(t) : \E k \in R(source, i) : j = mapping[k]
  BY RelatedUnited
<1>2. /\ \A i \in Virtual(before) : i \in LiveIds(before) /\ R(before, i) \subseteq LiveIds(before)
      /\ \A i \in Virtual(source) : i \in LiveIds(source) /\ R(source, i) \subseteq LiveIds(source)
  BY DEF Virtual, Related
<1>3. \A i, j \in LiveIds(before) : P(target, i, j) = P(before, i, j)
  BY AllMapped
<1>4. \A i, j \in LiveIds(source) : P(target, mapping[i], mapping[j]) = P(source, i, j)
  BY AllMapped
<1>5. \A g, x : x \in Overrides(g) <=> \E i \in Virtual(g) : \E j \in R(g, i) : x = P(g, i, j)
  BY OverridePairs
<1> HIDE DEF R, P
<1>6. ASSUME NEW x \in Overrides(target) PROVE x \in Overrides(before) \cup Overrides(source)
  <2>0. PICK t \in Virtual(target) : \E j \in R(target, t) : x = P(target, t, j)
    BY <1>5
  <2>1. PICK j \in R(target, t) : x = P(target, t, j)
    BY <2>0
  <2>2. CASE OwnVirtual(t) /\ j \in R(before, t)
    <3>1. t \in Virtual(before) /\ t \in LiveIds(before) /\ j \in LiveIds(before)
      BY <1>2, <2>2, VirtualUnited
    <3> QED BY <1>3, <1>5, <2>1, <2>2, <3>1
  <2>3. CASE \E i \in Contributors(t) : \E k \in R(source, i) : j = mapping[k]
    <3>0. PICK i \in Contributors(t) : \E k \in R(source, i) : j = mapping[k]
      BY <2>3
    <3>1. PICK k \in R(source, i) : j = mapping[k]
      BY <3>0
    <3>2. i \in Virtual(source) /\ mapping[i] = t /\ i \in LiveIds(source) /\ k \in LiveIds(source)
      BY <1>2, VirtualUnited
    <3> QED BY <1>4, <1>5, <2>1, <3>1, <3>2
  <2> QED BY <1>1, <2>1, <2>2, <2>3
<1>7. ASSUME NEW x \in Overrides(before) PROVE x \in Overrides(target)
  <2>0. PICK t \in Virtual(before) : \E j \in R(before, t) : x = P(before, t, j)
    BY <1>5
  <2>1. PICK j \in R(before, t) : x = P(before, t, j)
    BY <2>0
  <2>2. t \in Virtual(target) /\ OwnVirtual(t) /\ j \in R(target, t)
    BY <1>1, VirtualUnited
  <2>3. t \in LiveIds(before) /\ j \in LiveIds(before)
    BY <1>2
  <2> QED BY <1>3, <1>5, <2>1, <2>2, <2>3
<1>8. ASSUME NEW x \in Overrides(source) PROVE x \in Overrides(target)
  <2>0. PICK i \in Virtual(source) : \E k \in R(source, i) : x = P(source, i, k)
    BY <1>5
  <2>1. PICK k \in R(source, i) : x = P(source, i, k)
    BY <2>0
  <2>2. mapping[i] \in Virtual(target) /\ i \in Contributors(mapping[i])
    BY VirtualUnited
  <2>3. mapping[k] \in R(target, mapping[i])
    BY <1>1, <2>2
  <2>4. i \in LiveIds(source) /\ k \in LiveIds(source)
    BY <1>2
  <2> QED BY <1>4, <1>5, <2>1, <2>2, <2>3, <2>4
<1> QED BY <1>6, <1>7, <1>8

\* And the same relation from the side of what is overridden.
LEMMA OverriddenByUnited ==
  ASSUME MergeInv, Done
  PROVE  OverriddenBy(target) = OverriddenBy(before) \cup OverriddenBy(source)
<1> DEFINE R(g, i) == Related(g, g.nodes[i].override.overriddenBy)
           P(g, i, j) == <<g.nodes[i].name, g.nodes[j].name>>
<1>1. \A t \in Virtual(target) : \A j :
        j \in R(target, t) <=> \/ OwnVirtual(t) /\ j \in R(before, t)
                               \/ \E i \in Contributors(t) : \E k \in R(source, i) : j = mapping[k]
  BY RelatedUnited
<1>2. /\ \A i \in Virtual(before) : i \in LiveIds(before) /\ R(before, i) \subseteq LiveIds(before)
      /\ \A i \in Virtual(source) : i \in LiveIds(source) /\ R(source, i) \subseteq LiveIds(source)
  BY DEF Virtual, Related
<1>3. \A i, j \in LiveIds(before) : P(target, i, j) = P(before, i, j)
  BY AllMapped
<1>4. \A i, j \in LiveIds(source) : P(target, mapping[i], mapping[j]) = P(source, i, j)
  BY AllMapped
<1>5. \A g, x : x \in OverriddenBy(g) <=> \E i \in Virtual(g) : \E j \in R(g, i) : x = P(g, i, j)
  BY OverridePairs
<1> HIDE DEF R, P
<1>6. ASSUME NEW x \in OverriddenBy(target) PROVE x \in OverriddenBy(before) \cup OverriddenBy(source)
  <2>0. PICK t \in Virtual(target) : \E j \in R(target, t) : x = P(target, t, j)
    BY <1>5
  <2>1. PICK j \in R(target, t) : x = P(target, t, j)
    BY <2>0
  <2>2. CASE OwnVirtual(t) /\ j \in R(before, t)
    <3>1. t \in Virtual(before) /\ t \in LiveIds(before) /\ j \in LiveIds(before)
      BY <1>2, <2>2, VirtualUnited
    <3> QED BY <1>3, <1>5, <2>1, <2>2, <3>1
  <2>3. CASE \E i \in Contributors(t) : \E k \in R(source, i) : j = mapping[k]
    <3>0. PICK i \in Contributors(t) : \E k \in R(source, i) : j = mapping[k]
      BY <2>3
    <3>1. PICK k \in R(source, i) : j = mapping[k]
      BY <3>0
    <3>2. i \in Virtual(source) /\ mapping[i] = t /\ i \in LiveIds(source) /\ k \in LiveIds(source)
      BY <1>2, VirtualUnited
    <3> QED BY <1>4, <1>5, <2>1, <3>1, <3>2
  <2> QED BY <1>1, <2>1, <2>2, <2>3
<1>7. ASSUME NEW x \in OverriddenBy(before) PROVE x \in OverriddenBy(target)
  <2>0. PICK t \in Virtual(before) : \E j \in R(before, t) : x = P(before, t, j)
    BY <1>5
  <2>1. PICK j \in R(before, t) : x = P(before, t, j)
    BY <2>0
  <2>2. t \in Virtual(target) /\ OwnVirtual(t) /\ j \in R(target, t)
    BY <1>1, VirtualUnited
  <2>3. t \in LiveIds(before) /\ j \in LiveIds(before)
    BY <1>2
  <2> QED BY <1>3, <1>5, <2>1, <2>2, <2>3
<1>8. ASSUME NEW x \in OverriddenBy(source) PROVE x \in OverriddenBy(target)
  <2>0. PICK i \in Virtual(source) : \E k \in R(source, i) : x = P(source, i, k)
    BY <1>5
  <2>1. PICK k \in R(source, i) : x = P(source, i, k)
    BY <2>0
  <2>2. mapping[i] \in Virtual(target) /\ i \in Contributors(mapping[i])
    BY VirtualUnited
  <2>3. mapping[k] \in R(target, mapping[i])
    BY <1>1, <2>2
  <2>4. i \in LiveIds(source) /\ k \in LiveIds(source)
    BY <1>2
  <2> QED BY <1>4, <1>5, <2>1, <2>2, <2>3, <2>4
<1> QED BY <1>6, <1>7, <1>8

\* The result is the union of both graphs, by name: functions, calls and both
\* directions of overriding, for every order of the edges and all ids.
THEOREM MergeUnitesBoth == Spec => []UnionOfBoth
<1>1. MergeInv => UnionOfBoth
  BY FunctionsUnited, CallsUnited, OverridesUnited, OverriddenByUnited DEF UnionOfBoth
<1> QED BY <1>1, MergeInvariant, PTL

\* The nodes that go into the first node of name f in the result: the first of
\* that name in the target and all of that name in the source.
LEMMA NodesOfName ==
  ASSUME MergeInv, Done, NEW f \in Functions(target)
  PROVE  LET t == Head(target.nameIdMap[f])
         IN  /\ f \in Names /\ t \in LiveIds(target)
             /\ Own(t) = IF before.nameIdMap[f] = <<>> THEN {}
                         ELSE {before.nodes[Head(before.nameIdMap[f])]}
             /\ MergedInto(t) = {source.nodes[i] : i \in ToSet(source.nameIdMap[f])}
<1> DEFINE t == Head(target.nameIdMap[f])
<1>1. PICK u \in LiveIds(target) : target.nodes[u].name = f
  BY DEF Functions
<1>2. f \in Names /\ target.nameIdMap[f] # <<>>
  BY <1>1, MergeFacts, NamedNode
<1>3. t \in LiveIds(target) /\ target.nodes[t].name = f
  BY <1>2, MergeFacts, FirstOfName
<1> HIDE DEF t
<1>4. Own(t) = IF before.nameIdMap[f] = <<>> THEN {}
               ELSE {before.nodes[Head(before.nameIdMap[f])]}
  <2>1. CASE before.nameIdMap[f] = <<>>
    <3>1. \A i \in LiveIds(before) : before.nodes[i].name # f
      BY <2>1, MergeFacts, NamedNode
    <3>2. t \notin LiveIds(before)
      BY <1>3, <3>1, AllMapped
    <3> QED BY <2>1, <3>2 DEF Own
  <2>2. CASE before.nameIdMap[f] # <<>>
    <3>1. target.nameIdMap[f] = before.nameIdMap[f]
      BY <1>2, <2>2 DEF MergeInv, NodesKept
    <3>2. t = Head(before.nameIdMap[f]) /\ t \in LiveIds(before)
      BY <1>2, <2>2, <3>1, MergeFacts, FirstOfName DEF t
    <3> QED BY <2>2, <3>2 DEF Own
  <2> QED BY <2>1, <2>2
<1>5. MergedInto(t) = {source.nodes[i] : i \in ToSet(source.nameIdMap[f])}
  <2>1. ToSet(source.nameIdMap[f]) = {i \in LiveIds(source) : source.nodes[i].name = f}
    BY <1>2, MergeFacts DEF WellFormed, NameIndex
  <2>2. \A i \in LiveIds(source) : mapping[i] = t <=> source.nodes[i].name = f
    <3> SUFFICES ASSUME NEW i \in LiveIds(source) PROVE mapping[i] = t <=> source.nodes[i].name = f
      OBVIOUS
    <3>1. /\ i \in DOMAIN mapping
          /\ target.nodes[mapping[i]].name = source.nodes[i].name
      BY AllMapped
    <3>2. mapping[i] = Head(target.nameIdMap[source.nodes[i].name])
      BY <3>1 DEF MergeInv, MappedByName
    <3> QED BY <1>3, <3>1, <3>2 DEF t
  <2>3. DOMAIN mapping = LiveIds(source)
    BY AllMapped
  <2>4. {j \in DOMAIN mapping : mapping[j] = t} = ToSet(source.nameIdMap[f])
    BY <2>1, <2>2, <2>3
  <2> QED BY <2>4 DEF MergedInto
<1> QED BY <1>2, <1>3, <1>4, <1>5 DEF t

\* The attributes of a function of the result are those of one of the nodes that
\* went into it, and of which one is decided by who has a body.
LEMMA DefinitionOfName ==
  ASSUME MergeInv, Done, NEW f \in Functions(source)
  PROVE  LET result == target.nodes[Head(target.nameIdMap[f])]
             own    == IF before.nameIdMap[f] = <<>> THEN {}
                       ELSE {before.nodes[Head(before.nameIdMap[f])]}
             others == {source.nodes[i] : i \in ToSet(source.nameIdMap[f])}
         IN  \E node \in own \cup others :
                /\ result.hasBody = node.hasBody /\ result.origin = node.origin
                /\ \/ node \in own /\ node.hasBody
                   \/ node \in others /\ node.hasBody /\ \A n \in own : ~ n.hasBody
                   \/ \A n \in own \cup others : ~ n.hasBody
<1> DEFINE t      == Head(target.nameIdMap[f])
           result == target.nodes[t]
           own    == IF before.nameIdMap[f] = <<>> THEN {}
                     ELSE {before.nodes[Head(before.nameIdMap[f])]}
           others == {source.nodes[i] : i \in ToSet(source.nameIdMap[f])}
           Good(node) == /\ result.hasBody = node.hasBody /\ result.origin = node.origin
                         /\ \/ node \in own /\ node.hasBody
                            \/ node \in others /\ node.hasBody /\ \A n \in own : ~ n.hasBody
                            \/ \A n \in own \cup others : ~ n.hasBody
<1>1. t \in LiveIds(target) /\ Own(t) = own /\ MergedInto(t) = others
  BY FunctionsUnited, NodesOfName
<1>2. AttributesOf(t)
  BY <1>1 DEF MergeInv, DefinitionsFirst
<1> HIDE DEF own, others, t
<1>3. /\ \E n \in own \cup others : SameAttributes(result, n)
      /\ result.hasBody \/ \A n \in own \cup others : ~ n.hasBody
      /\ \A n \in own : n.hasBody \/ ~ result.hasBody => SameAttributes(result, n)
  BY <1>1, <1>2 DEF AttributesOf
<1> HIDE DEF result
<1>4. PICK m \in own \cup others : SameAttributes(result, m)
  BY <1>3
<1>5. CASE ~ result.hasBody
  <2>1. Good(m)
    BY <1>3, <1>4, <1>5 DEF SameAttributes
  <2> QED BY <2>1 DEF result, own, others, t
<1>6. CASE \E n \in own : n.hasBody
  <2>1. PICK n \in own : n.hasBody
    BY <1>6
  <2>2. Good(n)
    BY <1>3, <2>1 DEF SameAttributes
  <2> QED BY <2>2 DEF result, own, others, t
<1>7. CASE result.hasBody /\ \A n \in own : ~ n.hasBody
  <2>1. Good(m)
    BY <1>4, <1>7 DEF SameAttributes
  <2> QED BY <2>1 DEF result, own, others, t
<1> QED BY <1>5, <1>6, <1>7

\* A well-formed graph has the functions whose lists are not empty.
LEMMA FunctionsByList ==
  ASSUME NEW g, WellFormed(g), NEW f
  PROVE  f \in Functions(g) <=> f \in Names /\ g.nameIdMap[f] # <<>>
<1>1. ASSUME f \in Functions(g) PROVE f \in Names /\ g.nameIdMap[f] # <<>>
  <2>1. PICK i \in LiveIds(g) : f = g.nodes[i].name
    BY <1>1 DEF Functions
  <2> QED BY <2>1, NamedNode
<1>2. ASSUME f \in Names, g.nameIdMap[f] # <<>> PROVE f \in Functions(g)
  <2>1. Head(g.nameIdMap[f]) \in LiveIds(g) /\ g.nodes[Head(g.nameIdMap[f])].name = f
    BY <1>2, FirstOfName
  <2> QED BY <2>1 DEF Functions
<1> QED BY <1>1, <1>2

\* What the first node of name f looks like by name.
Face(g, f) == [hasBody |-> g.nodes[Head(g.nameIdMap[f])].hasBody,
               origin  |-> g.nodes[Head(g.nameIdMap[f])].origin]

\* The rule of mergeNamed, for one function of the result.
LEMMA FaceOfName ==
  ASSUME MergeInv, Done, \A f \in Names : Len(source.nameIdMap[f]) <= 1,
         NEW f \in Functions(target)
  PROVE  Face(target, f) =
           IF f \in Functions(before) /\ \/ Face(before, f).hasBody
                                         \/ f \notin Functions(source)
                                         \/ ~ Face(source, f).hasBody
           THEN Face(before, f) ELSE Face(source, f)
<1> DEFINE t == Head(target.nameIdMap[f])
           b == before.nodes[Head(before.nameIdMap[f])]
           s == source.nodes[Head(source.nameIdMap[f])]
           r == target.nodes[t]
<1>1. /\ f \in Names /\ t \in LiveIds(target)
      /\ Own(t) = IF before.nameIdMap[f] = <<>> THEN {} ELSE {b}
      /\ MergedInto(t) = {source.nodes[i] : i \in ToSet(source.nameIdMap[f])}
  BY NodesOfName
<1>2. Own(t) = IF f \in Functions(before) THEN {b} ELSE {}
  BY <1>1, MergeFacts, FunctionsByList
<1>3. MergedInto(t) = IF f \in Functions(source) THEN {s} ELSE {}
  <2>1. source.nameIdMap[f] \in Seq(Ids) /\ Len(source.nameIdMap[f]) <= 1
    BY <1>1, MergeFacts DEF WellFormed, GraphType
  <2>2. CASE source.nameIdMap[f] = <<>>
    <3>1. ToSet(<<>>) = {} /\ f \notin Functions(source)
      BY <2>2, MergeFacts, FunctionsByList DEF ToSet
    <3> QED BY <1>1, <2>2, <3>1
  <2>3. CASE source.nameIdMap[f] # <<>>
    <3>1. Len(source.nameIdMap[f]) = 1
      <4>1. Len(source.nameIdMap[f]) # 0 /\ Len(source.nameIdMap[f]) \in Nat
        BY <2>1, <2>3, EmptySeq, LenProperties
      <4>2. \A n \in Nat : n # 0 /\ n <= 1 => n = 1
        OBVIOUS
      <4> QED BY <2>1, <4>1, <4>2, Zenon
    <3>2. DOMAIN source.nameIdMap[f] = {1} /\ Head(source.nameIdMap[f]) = source.nameIdMap[f][1]
      BY <2>1, <3>1
    <3>3. ToSet(source.nameIdMap[f]) = {Head(source.nameIdMap[f])}
      BY <3>2 DEF ToSet
    <3>4. f \in Functions(source)
      BY <1>1, <2>3, MergeFacts, FunctionsByList
    <3> QED BY <1>1, <3>3, <3>4
  <2> QED BY <2>2, <2>3
<1>4. f \in Functions(before) \/ f \in Functions(source)
  BY FunctionsUnited
<1>5. AttributesOf(t)
  BY <1>1 DEF MergeInv, DefinitionsFirst
<1> HIDE DEF t, b, s
<1>6. /\ \E n \in Own(t) \cup MergedInto(t) : SameAttributes(r, n)
      /\ r.hasBody \/ \A n \in Own(t) \cup MergedInto(t) : ~ n.hasBody
      /\ \A n \in Own(t) : n.hasBody \/ ~ r.hasBody => SameAttributes(r, n)
  BY <1>5 DEF AttributesOf
<1> HIDE DEF r
<1>7. IF f \in Functions(before) /\ (b.hasBody \/ f \notin Functions(source) \/ ~ s.hasBody)
      THEN SameAttributes(r, b) ELSE SameAttributes(r, s)
  <2>1. CASE f \in Functions(before) /\ f \in Functions(source)
    <3>1. /\ SameAttributes(r, b) \/ SameAttributes(r, s)
          /\ r.hasBody \/ (~ b.hasBody /\ ~ s.hasBody)
          /\ b.hasBody \/ ~ r.hasBody => SameAttributes(r, b)
      BY <1>2, <1>3, <1>6, <2>1
    <3> QED BY <2>1, <3>1 DEF SameAttributes
  <2>2. CASE f \notin Functions(source)
    BY <1>2, <1>3, <1>4, <1>6, <2>2
  <2>3. CASE f \notin Functions(before)
    BY <1>2, <1>3, <1>4, <1>6, <2>3
  <2> QED BY <2>1, <2>2, <2>3
<1>8. /\ Face(target, f) = [hasBody |-> r.hasBody, origin |-> r.origin]
      /\ Face(before, f) = [hasBody |-> b.hasBody, origin |-> b.origin]
      /\ Face(source, f) = [hasBody |-> s.hasBody, origin |-> s.origin]
  BY DEF Face, r, b, s, t
<1>9. (Face(before, f).hasBody <=> b.hasBody) /\ (Face(source, f).hasBody <=> s.hasBody)
  BY <1>8
<1>10. /\ SameAttributes(r, b) => Face(target, f) = Face(before, f)
       /\ SameAttributes(r, s) => Face(target, f) = Face(source, f)
  BY <1>8 DEF SameAttributes
<1> QED BY <1>7, <1>9, <1>10

\* If no two source nodes have one name, merge is mergeNamed.
LEMMA MergeIsMergeNamed ==
  ASSUME MergeInv, Done, \A f \in Names : Len(source.nameIdMap[f]) <= 1
  PROVE  Named(target) = mergeNamed(Named(before), Named(source))
<1> DEFINE F(g) == [f \in Functions(g) |-> Face(g, f)]
<1>1. \A g : Named(g) = [funs |-> F(g), calls |-> Calls(g)]
  BY DEF Named, Face
<1>2. \A g : Named(g).funs = F(g) /\ Named(g).calls = Calls(g)
  BY <1>1
<1>3. \A f \in Functions(target) :
        F(target)[f] = IF keepsTarget(Named(before), Named(source), f)
                       THEN Named(before).funs[f] ELSE Named(source).funs[f]
  <2> SUFFICES ASSUME NEW f \in Functions(target)
               PROVE  F(target)[f] = IF keepsTarget(Named(before), Named(source), f)
                                     THEN Named(before).funs[f] ELSE Named(source).funs[f]
    OBVIOUS
  <2>1. f \in Functions(before) \/ f \in Functions(source)
    BY FunctionsUnited
  <2>2. Face(target, f) =
           IF f \in Functions(before) /\ \/ Face(before, f).hasBody
                                         \/ f \notin Functions(source)
                                         \/ ~ Face(source, f).hasBody
           THEN Face(before, f) ELSE Face(source, f)
    BY FaceOfName
  <2>3. /\ F(target)[f] = Face(target, f)
        /\ DOMAIN Named(before).funs = Functions(before)
        /\ DOMAIN Named(source).funs = Functions(source)
        /\ f \in Functions(before) => Named(before).funs[f] = Face(before, f)
        /\ f \in Functions(source) => Named(source).funs[f] = Face(source, f)
    BY <1>2
  <2>4. keepsTarget(Named(before), Named(source), f) <=>
          f \in Functions(before) /\ \/ Face(before, f).hasBody
                                     \/ f \notin Functions(source)
                                     \/ ~ Face(source, f).hasBody
    BY <2>3 DEF keepsTarget
  <2> QED BY <2>1, <2>2, <2>3, <2>4
<1>4. /\ DOMAIN Named(before).funs = Functions(before)
      /\ DOMAIN Named(source).funs = Functions(source)
  BY <1>2
<1> DEFINE G == [f \in Functions(before) \cup Functions(source) |->
                   IF keepsTarget(Named(before), Named(source), f)
                   THEN Named(before).funs[f] ELSE Named(source).funs[f]]
<1>5. F(target) = G
  BY <1>3, FunctionsUnited
<1>6. mergeNamed(Named(before), Named(source))
        = [funs |-> G, calls |-> Calls(before) \cup Calls(source)]
  BY <1>2, <1>4 DEF mergeNamed
<1> HIDE DEF F, G
<1> QED BY <1>1, <1>5, <1>6, CallsUnited

\* A definition beats a declaration; and if the source has no two nodes of one
\* name, by name the result is mergeNamed of the two graphs.
THEOREM DefinitionAlwaysWins == Spec => []DefinitionWins
<1>1. MergeInv => DefinitionWins
  BY DefinitionOfName, MergeIsMergeNamed DEF DefinitionWins
<1> QED BY <1>1, MergeInvariant, PTL
=============================================================================
