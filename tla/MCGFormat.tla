----------------------------- MODULE MCGFormat ------------------------------
(***************************************************************************)
(* Writing a call graph to a MetaCG file of format version 2 or 4 and      *)
(* reading it back, possibly several times with insertions in between.     *)
(*                                                                         *)
(* A file names nodes by strings.  A string is a tuple of its parts: the   *)
(* name "f" is <<"f">>, the disambiguated name "f#0" is <<"f", 0>> and the *)
(* number of node 3 is <<3>>.  So "f#0" can be a function name too: it is  *)
(* one after a version 2 file with "f#0" was read.  The readers take the   *)
(* nodes in the order of these strings; here they come in any order.       *)
(*                                                                         *)
(* A node's FilePropertiesMD is kept beside the graph: whether the file is *)
(* a system include.  A parsed document is a record; JSON objects are      *)
(* functions on strings, JSON arrays of strings are sets.                  *)
(***************************************************************************)
EXTENDS Callgraph, FiniteSetsExt

CONSTANTS
    Inputs,       \* what is written: records of a graph and its file properties
    SourceNames,  \* the names a client inserts
    NoOrigin,     \* an unknown origin: null in version 4, "" in version 2
    Missing,      \* a fileProperties object without systemInclude
    MaxRounds     \* bound on the number of times a graph is written and read


VARIABLES
    cg, files,    \* the graph that is written and its FilePropertiesMD
    format,       \* "V2", "V4ids" or "V4names" (useNamesAsIds)
    doc,          \* the document in the file
    jsonCG,       \* what the version 4 reader reads
    phase,        \* start, written, nodes, data, edges, done, failed
    todo,         \* the strings the current loop of the reader has not taken
    current,      \* the string of the node whose data is being read
    callees,      \* the strings of its callees that have not been read
    strToNode,    \* V4StrToNodeMapping
    result, resultFiles,
    rounds

loops == <<todo, current, callees>>
reading == <<jsonCG, loops, strToNode, result, resultFiles>>
vars == <<cg, files, format, doc, phase, reading, rounds>>

Formats == {"V2", "V4ids", "V4names"}
useNamesAsIds(fmt) == fmt # "V4ids"
FileProperties == BOOLEAN \cup {Null}
NoFiles == [i \in Ids |-> Null]
NoStrings == [s \in {} |-> Null]

\* The strings of a file: names with and without a suffix, or numbers.
NameStrings == Names \cup {Append(f, k) : f \in Names, k \in Ids}
NumberStrings == {<<id>> : id \in Ids}

\* Override metadata and, in version 2, file properties as a file holds them.
JOverride(S) == [overrides : SUBSET S, overriddenBy : SUBSET S]
JFile == [origin : Origins, systemInclude : FileProperties \cup {Missing}]

ASSUME InputsAssumption ==
    \A in \in Inputs : WellFormed(in.cg) /\ in.files \in [Ids -> FileProperties]
ASSUME SourceNamesAssumption == SourceNames \subseteq Names
ASSUME TupleNamesAssumption ==
    \A f \in Names : Len(f) \in Nat /\ f = [i \in 1 .. Len(f) |-> f[i]]
ASSUME NoOriginAssumption == NoOrigin \in Origins
ASSUME MissingAssumption == Missing \notin FileProperties
ASSUME NullIsNoObjectAssumption ==
    /\ Null \notin MdKinds /\ Null \notin BOOLEAN /\ Null \notin OverrideMD /\ Null \notin JFile
    /\ Null \notin NameStrings /\ Null \notin JOverride(NameStrings)
    /\ Null \notin NumberStrings /\ Null \notin JOverride(NumberStrings)
ASSUME NoIdIsNoStringAssumption == NoId \notin NameStrings /\ NoId \notin NumberStrings
ASSUME MaxRoundsAssumption == MaxRounds \in Nat

-----------------------------------------------------------------------------
(* The writers. *)

\* MUTANT: gives two functions of one name the same string.
convertToStr_NoSuffix(g, byName, id) == IF byName THEN g.nodes[id].name ELSE <<id>>

convertToStr(g, byName, id) ==
    LET f                == g.nodes[id].name
        allNodesWithName == g.nameIdMap[f]
    IN  CASE ~ byName                     -> <<id>>
          [] byName /\ Len(allNodesWithName) > 1 -> Append(f, position(allNodesWithName, id) - 1)
          [] OTHER                        -> f

\* Metadata that names a node which is not there: getStrFromNode fails its
\* assertion or dereferences null.
Stale(g) ==
    \/ g.entry \in Ids \ LiveIds(g)
    \/ \E id \in LiveIds(g) :
          /\ g.nodes[id].override # Null
          /\ ~ (g.nodes[id].override.overrides \cup g.nodes[id].override.overriddenBy
                  \subseteq LiveIds(g))

strs(g, byName, S) == {convertToStr(g, byName, i) : i \in S}

\* If two nodes have the same string the later one replaces the earlier one.
nodeOf(g, byName, s) == Max({id \in LiveIds(g) : convertToStr(g, byName, id) = s})

jEdges(g, byName, s) ==
    LET edgesOf == {e \in DOMAIN g.edges : convertToStr(g, byName, e[1]) = s}
    IN  [t \in {convertToStr(g, byName, e[2]) : e \in edgesOf} |->
            g.edges[CHOOSE e \in edgesOf : convertToStr(g, byName, e[2]) = t]]

jOverride(g, byName, md) ==
    IF md = Null THEN Null
    ELSE [overrides |-> strs(g, byName, md.overrides), overriddenBy |-> strs(g, byName, md.overriddenBy)]

jNode(g, fs, byName, s) ==
    LET id == nodeOf(g, byName, s)
        n  == g.nodes[id]
    IN  [functionName |-> n.name, origin |-> n.origin, hasBody |-> n.hasBody,
         callees |-> jEdges(g, byName, s), override |-> jOverride(g, byName, n.override),
         file |-> fs[id]]

writeV4(g, fs, byName) ==
    [nodes |-> [s \in strs(g, byName, LiveIds(g)) |-> jNode(g, fs, byName, s)],
     entry |-> IF g.entry \in Ids THEN convertToStr(g, byName, g.entry) ELSE g.entry]

\* The origin goes into the file properties, which are created for it.
fileV2(n) ==
    CASE n.file # Null        -> [origin |-> n.origin, systemInclude |-> n.file]
      [] n.file = Null /\ n.origin # NoOrigin -> [origin |-> n.origin, systemInclude |-> Missing]
      [] OTHER                -> Null

\* There is no global metadata in version 2, and none of edges.
downgradeV4FormatToV2Format(d) ==
    LET overrideOf(n) == IF n.override = Null THEN [overrides |-> {}, overriddenBy |-> {}]
                         ELSE n.override
    IN  [s \in DOMAIN d.nodes |->
            LET n == d.nodes[s]
            IN  [hasBody      |-> n.hasBody,
                 callees      |-> DOMAIN n.callees,
                 callers      |-> {r \in DOMAIN d.nodes : s \in DOMAIN d.nodes[r].callees},
                 isVirtual    |-> n.override # Null,
                 overrides    |-> overrideOf(n).overrides,
                 overriddenBy |-> overrideOf(n).overriddenBy,
                 file         |-> fileV2(n)]]

write(g, fs, fmt) ==
    LET d == writeV4(g, fs, useNamesAsIds(fmt))
    IN  IF fmt = "V2" THEN downgradeV4FormatToV2Format(d) ELSE d

-----------------------------------------------------------------------------
(* The readers. *)

overridesV4(n) ==
    IF ~ n.isVirtual /\ n.overrides \cup n.overriddenBy = {} THEN Null
    ELSE [overrides |-> n.overrides, overriddenBy |-> n.overriddenBy]

upgradeV2FormatToV4Format(d) ==
    [nodes |-> [s \in DOMAIN d |->
                   [functionName |-> s, hasBody |-> d[s].hasBody,
                    origin   |-> IF d[s].file = Null THEN NoOrigin ELSE d[s].file.origin,
                    callees  |-> [t \in d[s].callees |-> {}],
                    override |-> overridesV4(d[s]),
                    file     |-> IF d[s].file = Null THEN Null ELSE d[s].file.systemInclude]],
     entry |-> Null]

createNodeFromJson(g, n) ==
    insert(g, n.functionName, [origin |-> n.origin, hasBody |-> n.hasBody, isVirtual |-> FALSE])

\* The kinds of metadata a reader can create from an edge: those whose key is
\* registered.
readable(mds) == {m[1] : m \in mds} \cap MdKinds

\* The edge from p to c with the last metadata read for it: the metadata is a
\* unique_ptr<MetaData>, so each one replaces the one before.
readEdge(g, p, c, last) ==
    IF last = Null THEN addEdge(g, p, c)
    ELSE addEdgeMetaData(addEdge(g, p, c), <<p, c>>, last, FALSE)

nodesOf(S) == {strToNode[s] : s \in S}

readOverride(g, p, md) ==
    IF md = Null THEN g
    ELSE [g EXCEPT !.nodes[p].override = [overrides |-> nodesOf(md.overrides),
                                          overriddenBy |-> nodesOf(md.overriddenBy)]]

\* The strings of the override metadata name nodes that were read, and the file
\* properties are complete.  If not, the reader throws or an assertion fails (in
\* a build without assertions: undefined behaviour), and no graph is returned.
Complete(n) ==
    /\ n.override # Null => n.override.overrides \cup n.override.overriddenBy \subseteq DOMAIN strToNode
    /\ n.file # Missing

readEntry(s) ==
    IF s = Null THEN Null ELSE IF s \in DOMAIN strToNode THEN strToNode[s] ELSE NoId
-----------------------------------------------------------------------------

Init ==
    /\ \E in \in Inputs : cg = in.cg /\ files = in.files
    /\ format = "V4ids" /\ doc = Null /\ phase = "start" /\ rounds = 0
    /\ jsonCG = Null /\ todo = {} /\ current = Null /\ callees = {} /\ strToNode = NoStrings
    /\ result = EmptyGraph /\ resultFiles = NoFiles

\* A client of the graph adds a function, before it is written.
Insert(f) ==
    /\ phase = "start" /\ cg.size < MaxSize
    /\ cg' = insert(cg, f, [origin |-> NoOrigin, hasBody |-> TRUE, isVirtual |-> FALSE])
    /\ UNCHANGED <<files, format, doc, phase, reading, rounds>>

\* Bound: the strings of a version 2 file, which become names when it is read,
\* are among the names of the model.
StringsInNames(fmt) ==
    fmt = "V2" => strs(cg, useNamesAsIds(fmt), LiveIds(cg)) \subseteq Names

Write(fmt) ==
    /\ phase = "start" /\ rounds < MaxRounds /\ StringsInNames(fmt)
    /\ format' = fmt
    /\ IF Stale(cg) THEN phase' = "failed" /\ UNCHANGED doc
       ELSE phase' = "written" /\ doc' = write(cg, files, fmt)
    /\ rounds' = rounds + 1
    /\ UNCHANGED <<cg, files, reading>>

Read ==
    /\ phase = "written"
    /\ jsonCG' = IF format = "V2" THEN upgradeV2FormatToV4Format(doc) ELSE doc
    /\ phase' = "nodes" /\ todo' = DOMAIN jsonCG'.nodes
    /\ strToNode' = NoStrings /\ result' = EmptyGraph /\ resultFiles' = NoFiles
    /\ UNCHANGED <<cg, files, format, doc, current, callees, rounds>>

registerNode(s) ==
    [t \in DOMAIN strToNode \cup {s} |-> IF t = s THEN nextId(result) ELSE strToNode[t]]

ReadNode(s) ==
    /\ phase = "nodes" /\ s \in todo
    /\ result' = createNodeFromJson(result, jsonCG.nodes[s])
    /\ strToNode' = registerNode(s)
    /\ todo' = todo \ {s}
    /\ UNCHANGED <<cg, files, format, doc, phase, jsonCG, current, callees, resultFiles, rounds>>

\* MUTANT: turns to the edges after the first node.
allNodesRead_Some == DOMAIN strToNode # {} \/ todo = {}

allNodesRead == todo = {}

NodesRead ==
    /\ phase = "nodes" /\ allNodesRead
    /\ phase' = "data" /\ todo' = DOMAIN jsonCG.nodes
    /\ UNCHANGED <<cg, files, format, doc, jsonCG, current, callees, strToNode, result,
                   resultFiles, rounds>>

\* The second loop: the edges and then the metadata of one node after the other.
TakeNode(s) ==
    /\ phase = "data" /\ s \in todo
    /\ phase' = "edges" /\ todo' = todo \ {s}
    /\ current' = s /\ callees' = DOMAIN jsonCG.nodes[s].callees
    /\ UNCHANGED <<cg, files, format, doc, jsonCG, strToNode, result, resultFiles, rounds>>

ReadEdge(t) ==
    LET kinds == readable(jsonCG.nodes[current].callees[t])
    IN  /\ phase = "edges" /\ t \in callees
        /\ callees' = callees \ {t}
        /\ IF t \notin DOMAIN strToNode THEN phase' = "failed" /\ UNCHANGED result
           ELSE /\ \E last \in IF kinds = {} THEN {Null} ELSE kinds :
                     result' = readEdge(result, strToNode[current], strToNode[t], last)
                /\ UNCHANGED phase
        /\ UNCHANGED <<cg, files, format, doc, jsonCG, todo, current, strToNode, resultFiles, rounds>>

ReadNodeMetaData ==
    LET n == jsonCG.nodes[current]
        p == strToNode[current]
    IN  /\ phase = "edges" /\ callees = {}
        /\ IF ~ Complete(n) THEN phase' = "failed" /\ UNCHANGED <<result, resultFiles>>
           ELSE /\ result' = readOverride(result, p, n.override)
                /\ resultFiles' = [resultFiles EXCEPT ![p] = n.file]
                /\ phase' = "data"
        /\ UNCHANGED <<cg, files, format, doc, jsonCG, loops, strToNode, rounds>>

ReadGlobalMetaData ==
    /\ phase = "data" /\ todo = {}
    /\ result' = setEntryFunction(result, readEntry(jsonCG.entry))
    /\ phase' = "done"
    /\ UNCHANGED <<cg, files, format, doc, jsonCG, loops, strToNode, resultFiles, rounds>>

\* The program goes on with what it has read.
Continue ==
    /\ phase = "done" /\ rounds < MaxRounds
    /\ cg' = result /\ files' = resultFiles /\ phase' = "start"
    /\ UNCHANGED <<format, doc, reading, rounds>>

Next ==
    \/ \E f \in SourceNames : Insert(f)
    \/ \E fmt \in Formats : Write(fmt)
    \/ Read
    \/ \E s \in todo : ReadNode(s) \/ TakeNode(s)
    \/ \E t \in callees : ReadEdge(t)
    \/ NodesRead \/ ReadNodeMetaData \/ ReadGlobalMetaData \/ Continue

Spec == Init /\ [][Next]_vars

-----------------------------------------------------------------------------
(* Properties. *)

Str(id) == convertToStr(cg, useNamesAsIds(format), id)

\* The node that was read for node id of the graph that was written.
image(id) == strToNode[Str(id)]
images(S) == {image(id) : id \in S}

\* A function has a disambiguated name of a name that two others share.
SuffixInUse ==
    \E id \in LiveIds(cg), f \in Names :
        Front(cg.nodes[id].name) = f /\ Len(cg.nameIdMap[f]) > 1

\* What a node becomes.  Version 2 has no room for two functions of one name:
\* there a name is replaced by the string.
imageNode(id) ==
    LET n == cg.nodes[id]
    IN  [n EXCEPT !.name = IF format = "V2" THEN Str(id) ELSE @,
                  !.override = IF @ = Null THEN Null
                               ELSE [overrides |-> images(@.overrides),
                                     overriddenBy |-> images(@.overriddenBy)]]

\* What is left of the metadata of an edge: none if the reader can create none
\* of it, else one of the kinds, under the key of the base class.  That key is
\* not registered, so the next reader creates nothing from it.
edgeMdLeft(mds) ==
    IF readable(mds) = {} THEN {{}} ELSE {{<<BaseClass, k>>} : k \in readable(mds)}

\* Reading what was written gives the same graph up to ids, in any order of the
\* nodes, unless a disambiguated name is in use already: the nodes with their
\* origins, bodies, file properties and override relations, the calls, and in
\* version 4 the entry function.  Of the metadata of an edge version 2 keeps
\* nothing and version 4 what edgeMdLeft says.
SameGraph ==
    phase = "done" /\ ~ (useNamesAsIds(format) /\ SuffixInUse) =>
        /\ \A id \in LiveIds(cg) : /\ result.nodes[image(id)] = imageNode(id)
                                   /\ resultFiles[image(id)] = files[id]
        /\ images(LiveIds(cg)) = LiveIds(result)
        /\ Cardinality(LiveIds(cg)) = getNodeCount(result)
        /\ DOMAIN result.edges = {<<image(e[1]), image(e[2])>> : e \in DOMAIN cg.edges}
        /\ \A e \in DOMAIN cg.edges :
              result.edges[<<image(e[1]), image(e[2])>>]
                 \in edgeMdLeft(IF format = "V2" THEN {} ELSE cg.edges[e])
        /\ result.entry = CASE format = "V2" -> Null
                            [] format # "V2" /\ cg.entry \in Ids -> image(cg.entry)
                            [] OTHER         -> cg.entry

\* Writing a graph that was read from a version 2 file gives the same file, also
\* if the file has disambiguated names.
SameFileAgain == phase = "done" /\ format = "V2" => write(result, resultFiles, "V2") = doc

\* Converting between files and graphs any number of times loses no node, call,
\* name, origin, file property or override relation, and in version 4 no entry
\* function; it loses exactly what SameGraph says of the metadata of edges.
RoundTrip == SameGraph /\ SameFileAgain

\* Writing and reading fail only for ids of erased nodes in the metadata, or, in
\* version 2, for an origin without file properties.  In particular the readers
\* never meet a string before the node it names.
FailsOnlyIfIncomplete ==
    phase = "failed" =>
        \/ Stale(cg)
        \/ /\ format = "V2"
           /\ \E id \in LiveIds(cg) : files[id] = Null /\ cg.nodes[id].origin # NoOrigin
=============================================================================
