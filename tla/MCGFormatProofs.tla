--------------------------- MODULE MCGFormatProofs ---------------------------
(***************************************************************************)
(* Reading a file gives the graph that was written, but for metadata of    *)
(* its edges, for every graph: the invariant of the reader's two loops,    *)
(* and what it means for RoundTrip and FailsOnlyIfIncomplete.              *)
(***************************************************************************)
EXTENDS MCGFormat, CallgraphTheorems, FiniteSetTheorems

-----------------------------------------------------------------------------
(* The inductive invariant. *)

Phases == {"start", "written", "nodes", "data", "edges", "done", "failed"}

Reading == phase \in {"nodes", "data", "edges", "done"}

\* What the version 4 reader gets of the graph g.
document(g, fs, fmt) ==
    IF fmt = "V2" THEN upgradeV2FormatToV4Format(write(g, fs, fmt)) ELSE write(g, fs, fmt)

Types ==
    /\ WellFormed(cg) /\ files \in [Ids -> FileProperties] /\ format \in Formats
    /\ WellFormed(result) /\ resultFiles \in [Ids -> FileProperties]
    /\ phase \in Phases

\* The file holds the graph, and the reader has parsed it.
FileOfGraph ==
    /\ phase = "written" \/ Reading =>
          ~ Stale(cg) /\ StringsInNames(format) /\ doc = write(cg, files, format)
    /\ Reading => jsonCG = document(cg, files, format)

\* Where the loops are.
Loops ==
    /\ Reading => todo \subseteq DOMAIN jsonCG.nodes
    /\ phase = "edges" => /\ current \in DOMAIN jsonCG.nodes \ todo
                          /\ callees \subseteq DOMAIN jsonCG.nodes[current].callees
    /\ phase = "done" => todo = {}

\* strToNode is a bijection between the strings that were taken and the nodes.
Registered ==
    Reading =>
        /\ strToNode \in [DOMAIN strToNode -> LiveIds(result)]
        /\ DOMAIN strToNode = DOMAIN jsonCG.nodes \ (IF phase = "nodes" THEN todo ELSE {})
        /\ \A s, t \in DOMAIN strToNode : strToNode[s] = strToNode[t] => s = t
        /\ \A id \in LiveIds(result) : \E s \in DOMAIN strToNode : strToNode[s] = id
        /\ Cardinality(DOMAIN strToNode) = result.size /\ result.numErased = 0

\* The second loop is past the node s.
finished(s) == phase # "nodes" /\ s \notin todo /\ (phase = "edges" => s # current)

\* Override metadata of a file with the strings replaced by the nodes.
overrideRead(md) ==
    IF md = Null THEN Null
    ELSE [overrides |-> nodesOf(md.overrides), overriddenBy |-> nodesOf(md.overriddenBy)]

nodeRead(s) ==
    LET n == jsonCG.nodes[s]
    IN  [name |-> n.functionName, origin |-> n.origin, hasBody |-> n.hasBody,
         override |-> IF finished(s) THEN overrideRead(n.override) ELSE Null]

NodesAsInFile ==
    Reading => \A s \in DOMAIN strToNode :
                  /\ result.nodes[strToNode[s]] = nodeRead(s)
                  /\ finished(s) => resultFiles[strToNode[s]] = jsonCG.nodes[s].file

\* The second loop is past the edge from s to t.
edgeDone(s, t) ==
    /\ phase # "nodes" /\ s \notin todo /\ t \in DOMAIN jsonCG.nodes[s].callees
    /\ ~ (phase = "edges" /\ s = current /\ t \in callees)

edgeOf(s, t) == <<strToNode[s], strToNode[t]>>

EdgesAsInFile ==
    Reading => \A s, t \in DOMAIN strToNode :
                  /\ edgeOf(s, t) \in DOMAIN result.edges <=> edgeDone(s, t)
                  /\ edgeDone(s, t) =>
                        result.edges[edgeOf(s, t)] \in edgeMdLeft(jsonCG.nodes[s].callees[t])

EntryAsInFile ==
    Reading => result.entry = IF phase = "done" THEN readEntry(jsonCG.entry) ELSE Null

FormatInv ==
    /\ Types /\ FileOfGraph /\ Loops /\ Registered
    /\ NodesAsInFile /\ EdgesAsInFile /\ EntryAsInFile
    /\ FailsOnlyIfIncomplete

-----------------------------------------------------------------------------
(* Finite sets of ids. *)

LEMMA IdsFinite ==
    /\ IsFiniteSet(Ids) /\ Cardinality(Ids) = MaxSize
    /\ Ids \subseteq Nat /\ MaxSize \in Nat
  BY MaxSizeAssumption, FS_Interval DEF Ids

\* A set of ids that is not empty has a largest one.
LEMMA MaxOfIds ==
    ASSUME NEW S \in SUBSET Ids, S # {}
    PROVE  Max(S) \in S
  <1> DEFINE below == {n \in Nat : \E id \in S : n = MaxSize - id}
  <1>0. \A id \in S : MaxSize - id \in below
    BY MaxSizeAssumption DEF Ids
  <1>1. below \subseteq Nat /\ below # {}
    BY <1>0
  <1>2. PICK x \in below : \A y \in below : <<y, x>> \notin OpToRel(<, Nat)
    BY <1>1, NatLessThanWellFounded, WFMin
  <1>3. \A y \in below : x <= y
    <2> SUFFICES ASSUME NEW y \in below PROVE ~ (y < x)
      OBVIOUS
    <2>1. <<y, x>> \in Nat \X Nat /\ <<y, x>> \notin OpToRel(<, Nat)
      BY <1>1, <1>2
    <2> HIDE DEF below
    <2> QED
      BY <2>1 DEF OpToRel
  <1>4. PICK m \in S : x = MaxSize - m
    OBVIOUS
  <1>5. \A id \in S : m >= id
    <2> SUFFICES ASSUME NEW id \in S PROVE m >= id
      OBVIOUS
    <2>1. MaxSize - id \in below
      BY <1>0
    <2>2. x <= MaxSize - id
      BY <1>3, <2>1
    <2> QED
      BY <1>4, <2>2, IdsFinite
  <1> QED
    BY <1>4, <1>5 DEF Max

-----------------------------------------------------------------------------
(* Strings. *)

\* A live node is in the list of its name, at its position.
LEMMA PositionInList ==
    ASSUME NEW g, WellFormed(g), NEW id \in LiveIds(g)
    PROVE  LET list == g.nameIdMap[g.nodes[id].name]
               k    == position(list, id)
           IN  /\ list \in Seq(Ids) /\ k \in 1 .. Len(list) /\ list[k] = id
               /\ Len(list) <= MaxSize
  <1> DEFINE f    == g.nodes[id].name
             list == g.nameIdMap[f]
             Hit(k) == list[k] = id /\ \A j \in 1 .. (k - 1) : list[j] # id
  <1>1. f \in Names
    BY NamedNode
  <1>2. /\ list \in Seq(Ids)
        /\ ToSet(list) = {i \in LiveIds(g) : g.nodes[i].name = f}
        /\ \A j, k \in DOMAIN list : j < k => list[j] < list[k]
    BY <1>1 DEF WellFormed, GraphType, NameIndex
  <1>3. id \in ToSet(list)
    BY <1>2
  <1> HIDE DEF list
  <1>A. /\ Len(list) \in Nat /\ DOMAIN list = 1 .. Len(list)
        /\ list \in [1 .. Len(list) -> Ids] /\ \A j \in 1 .. Len(list) : list[j] \in Nat
    BY <1>2, MaxSizeAssumption DEF Ids
  <1>4. PICK k \in DOMAIN list : list[k] = id
    BY <1>3 DEF ToSet
  <1>5. \A j \in 1 .. (k - 1) : list[j] # id
    <2> SUFFICES ASSUME NEW j \in 1 .. (k - 1) PROVE list[j] # id
      OBVIOUS
    <2>1. j \in DOMAIN list /\ j < k /\ list[j] \in Nat /\ list[k] \in Nat
      BY <1>4, <1>A
    <2> QED
      BY <1>2, <1>4, <2>1
  <1>6. position(list, id) \in DOMAIN list /\ list[position(list, id)] = id
    BY <1>4, <1>5 DEF position
  <1>7. Len(list) <= MaxSize
    <2>1. \A j, k2 \in 1 .. Len(list) : list[j] = list[k2] => j = k2
      <3> SUFFICES ASSUME NEW j \in 1 .. Len(list), NEW k2 \in 1 .. Len(list),
                          list[j] = list[k2], j # k2
                   PROVE  FALSE
        OBVIOUS
      <3>1. /\ j \in DOMAIN list /\ k2 \in DOMAIN list /\ j \in Nat /\ k2 \in Nat
            /\ list[j] \in Nat /\ list[k2] \in Nat
        BY <1>A
      <3> QED
        BY <1>2, <3>1
    <2>3. list \in Injection(1 .. Len(list), Ids)
      BY <1>A, <2>1 DEF Injection, IsInjective
    <2>4. Cardinality(1 .. Len(list)) <= Cardinality(Ids)
      BY <2>3, IdsFinite, FS_Injection
    <2>5. Cardinality(1 .. Len(list)) = Len(list)
      <3> DEFINE n == Len(list)
      <3>1. n \in Nat
        BY <1>A
      <3> HIDE DEF n
      <3>2. Cardinality(1 .. n) = n
        BY <3>1, FS_Interval
      <3> QED
        BY <3>2 DEF n
    <2> QED
      BY <2>4, <2>5, IdsFinite
  <1> QED
    BY <1>2, <1>6, <1>7 DEF list

\* The strings of live nodes.
LEMMA StringType ==
    ASSUME NEW g, WellFormed(g), NEW id \in LiveIds(g)
    PROVE  /\ convertToStr(g, TRUE, id) \in NameStrings
           /\ convertToStr(g, FALSE, id) = <<id>> /\ <<id>> \in NumberStrings
  <1>1. g.nodes[id].name \in Names /\ id \in Ids
    BY NamedNode
  <1>2. position(g.nameIdMap[g.nodes[id].name], id) - 1 \in Ids
    BY PositionInList, MaxSizeAssumption DEF Ids
  <1>3. /\ convertToStr(g, FALSE, id) = <<id>>
        /\ \/ convertToStr(g, TRUE, id) = g.nodes[id].name
           \/ convertToStr(g, TRUE, id)
                = Append(g.nodes[id].name, position(g.nameIdMap[g.nodes[id].name], id) - 1)
    BY DEF convertToStr
  <1>4. convertToStr(g, TRUE, id) \in NameStrings
    <2>1. \A f \in Names, k \in Ids : f \in NameStrings /\ Append(f, k) \in NameStrings
      BY DEF NameStrings
    <2> QED
      BY <1>1, <1>2, <1>3, <2>1, Zenon
  <1>5. <<id>> \in NumberStrings
    BY <1>1 DEF NumberStrings
  <1> QED
    BY <1>3, <1>4, <1>5

\* Appending one element can be undone.
LEMMA AppendParts ==
    ASSUME NEW f \in Names, NEW k \in Nat
    PROVE  /\ Front(Append(f, k)) = f /\ Append(f, k)[Len(f) + 1] = k
           /\ Len(Append(f, k)) = Len(f) + 1 /\ Len(f) \in Nat
  <1> DEFINE S == {f[i] : i \in 1 .. Len(f)} \cup Nat
  <1>1. Len(f) \in Nat /\ f = [i \in 1 .. Len(f) |-> f[i]]
    BY TupleNamesAssumption
  <1>2. f \in [1 .. Len(f) -> S]
    BY <1>1
  <1>3. f \in Seq(S)
    BY <1>1, <1>2
  <1> HIDE DEF S
  <1>4. k \in S
    BY DEF S
  <1>5. /\ Len(Append(f, k)) = Len(f) + 1 /\ Append(f, k)[Len(f) + 1] = k
        /\ \A i \in 1 .. Len(f) : Append(f, k)[i] = f[i]
        /\ Append(f, k) \in Seq(S)
    BY <1>3, <1>4, AppendProperties
  <1>6. Front(Append(f, k)) = [i \in 1 .. Len(f) |-> Append(f, k)[i]]
    BY <1>1, <1>5 DEF Front
  <1> QED
    BY <1>1, <1>5, <1>6

\* Two functions get the same string only if a disambiguated name is in use.
LEMMA StringsDistinct ==
    ASSUME NEW g, WellFormed(g), NEW byName \in BOOLEAN,
           byName => \A id \in LiveIds(g), f \in Names :
                        Front(g.nodes[id].name) = f => ~ (Len(g.nameIdMap[f]) > 1),
           NEW i \in LiveIds(g), NEW j \in LiveIds(g),
           convertToStr(g, byName, i) = convertToStr(g, byName, j)
    PROVE  i = j
  <1> DEFINE f(id)    == g.nodes[id].name
             list(id) == g.nameIdMap[f(id)]
             k(id)    == position(list(id), id)
  <1>1. \A id \in LiveIds(g) :
           /\ f(id) \in Names /\ list(id) \in Seq(Ids) /\ Len(list(id)) \in Nat
           /\ k(id) \in 1 .. Len(list(id)) /\ list(id)[k(id)] = id
    BY NamedNode, PositionInList
  <1>2. \A id \in LiveIds(g) :
           convertToStr(g, byName, id) =
              IF ~ byName THEN <<id>>
              ELSE IF Len(list(id)) > 1 THEN Append(f(id), k(id) - 1) ELSE f(id)
    BY DEF convertToStr
  <1> HIDE DEF f, list, k
  <1>3. CASE ~ byName
    BY <1>2, <1>3
  <1>4. ASSUME NEW a \in LiveIds(g), NEW b \in LiveIds(g), byName,
               Len(list(a)) > 1, ~ (Len(list(b)) > 1),
               convertToStr(g, byName, a) = convertToStr(g, byName, b)
        PROVE  FALSE
    <2>1. k(a) - 1 \in Nat
      BY <1>1
    <2>2. f(b) = Append(f(a), k(a) - 1)
      BY <1>2, <1>4
    <2>3. Front(f(b)) = f(a)
      BY <1>1, <2>1, <2>2, AppendParts
    <2> QED
      BY <1>1, <1>4, <2>3 DEF f, list
  <1>5. ASSUME byName, Len(list(i)) > 1, Len(list(j)) > 1 PROVE i = j
    <2>1. k(i) - 1 \in Nat /\ k(j) - 1 \in Nat /\ k(i) \in Nat /\ k(j) \in Nat
      BY <1>1
    <2>2. Append(f(i), k(i) - 1) = Append(f(j), k(j) - 1)
      BY <1>2, <1>5
    <2>3. f(i) = f(j)
      <3>1. Front(Append(f(i), k(i) - 1)) = f(i)
        BY <1>1, <2>1, AppendParts
      <3>2. Front(Append(f(j), k(j) - 1)) = f(j)
        BY <1>1, <2>1, AppendParts
      <3> QED
        BY <2>2, <3>1, <3>2, Zenon
    <2>4. k(i) - 1 = k(j) - 1
      BY <1>1, <2>1, <2>2, <2>3, AppendParts
    <2>5. k(i) = k(j) /\ list(i) = list(j)
      BY <2>1, <2>3, <2>4 DEF list, f
    <2> QED
      BY <1>1, <2>5
  <1>6. ASSUME byName, ~ (Len(list(i)) > 1), ~ (Len(list(j)) > 1) PROVE i = j
    <2>1. f(i) = f(j)
      BY <1>2, <1>6
    <2>2. list(i) = list(j)
      BY <2>1 DEF list, f
    <2>3. k(i) = 1 /\ k(j) = 1
      BY <1>1, <1>6
    <2> QED
      BY <1>1, <2>2, <2>3
  <1> QED
    BY <1>3, <1>4, <1>5, <1>6

-----------------------------------------------------------------------------
(* What a file holds. *)

\* The node a string of the file stands for.
LEMMA NodeOfString ==
    ASSUME NEW g, NEW byName, NEW s \in strs(g, byName, LiveIds(g))
    PROVE  /\ nodeOf(g, byName, s) \in LiveIds(g)
           /\ convertToStr(g, byName, nodeOf(g, byName, s)) = s
  <1> DEFINE S == {id \in LiveIds(g) : convertToStr(g, byName, id) = s}
  <1>1. S \in SUBSET Ids /\ S # {}
    BY DEF strs, LiveIds
  <1>2. Max(S) \in S
    <2> HIDE DEF S
    <2> QED
      BY <1>1, MaxOfIds
  <1> QED
    BY <1>2 DEF nodeOf

\* The strings of the callees of the node s.
calleesOf(g, byName, s) ==
    {convertToStr(g, byName, e[2]) : e \in {d \in DOMAIN g.edges : convertToStr(g, byName, d[1]) = s}}

\* j is what the reader gets of g: node by node, in terms of g.
IsDocument(j, g, fs, fmt) ==
    LET byName == useNamesAsIds(fmt)
    IN  /\ DOMAIN j.nodes = strs(g, byName, LiveIds(g))
        /\ \A s \in DOMAIN j.nodes :
              LET id == nodeOf(g, byName, s)
                  n  == g.nodes[id]
                  m  == j.nodes[s]
              IN  /\ m.functionName = IF fmt = "V2" THEN s ELSE n.name
                  /\ m.origin = n.origin /\ m.hasBody = n.hasBody
                  /\ m.override = jOverride(g, byName, n.override)
                  /\ m.file = IF fmt = "V2" /\ fs[id] = Null /\ n.origin # NoOrigin
                              THEN Missing ELSE fs[id]
                  /\ DOMAIN m.callees = calleesOf(g, byName, s)
                  /\ \A t \in DOMAIN m.callees :
                        m.callees[t] = IF fmt = "V2" THEN {} ELSE jEdges(g, byName, s)[t]
        /\ j.entry = IF fmt = "V2" THEN Null
                     ELSE IF g.entry \in Ids THEN convertToStr(g, byName, g.entry) ELSE g.entry

\* The fields of a version 4 file.
LEMMA WrittenV4 ==
    ASSUME NEW g, NEW fs, NEW byName, NEW d, d = writeV4(g, fs, byName)
    PROVE  /\ DOMAIN d.nodes = strs(g, byName, LiveIds(g))
           /\ \A s \in DOMAIN d.nodes :
                 LET id == nodeOf(g, byName, s)
                     n  == g.nodes[id]
                     m  == d.nodes[s]
                 IN  /\ m.functionName = n.name /\ m.origin = n.origin /\ m.hasBody = n.hasBody
                     /\ m.override = jOverride(g, byName, n.override) /\ m.file = fs[id]
                     /\ m.callees = jEdges(g, byName, s)
                     /\ DOMAIN m.callees = calleesOf(g, byName, s)
           /\ d.entry = IF g.entry \in Ids THEN convertToStr(g, byName, g.entry) ELSE g.entry
  <1>1. /\ d.nodes = [s \in strs(g, byName, LiveIds(g)) |-> jNode(g, fs, byName, s)]
        /\ d.entry = IF g.entry \in Ids THEN convertToStr(g, byName, g.entry) ELSE g.entry
    BY DEF writeV4
  <1>2. \A s : DOMAIN jEdges(g, byName, s) = calleesOf(g, byName, s)
    BY DEF jEdges, calleesOf
  <1> QED
    BY <1>1, <1>2 DEF jNode

LEMMA DocumentV4 ==
    ASSUME NEW g, NEW fs, NEW fmt \in Formats \ {"V2"}
    PROVE  IsDocument(document(g, fs, fmt), g, fs, fmt)
  <1> DEFINE d == writeV4(g, fs, useNamesAsIds(fmt))
  <1>1. document(g, fs, fmt) = d /\ fmt # "V2"
    BY DEF document, write
  <1>2. d = writeV4(g, fs, useNamesAsIds(fmt))
    OBVIOUS
  <1> HIDE DEF d
  <1> QED
    BY <1>1, <1>2, WrittenV4 DEF IsDocument

\* What version 2 keeps of a node.
LEMMA DowngradedNode ==
    ASSUME NEW d, NEW s \in DOMAIN d.nodes, NEW S,
           d.nodes[s].override \in JOverride(S) \cup {Null}, Null \notin JOverride(S),
           d.nodes[s].origin \in Origins, d.nodes[s].file \in FileProperties
    PROVE  LET n == d.nodes[s]
               m == upgradeV2FormatToV4Format(downgradeV4FormatToV2Format(d)).nodes[s]
           IN  /\ m.functionName = s /\ m.hasBody = n.hasBody /\ m.origin = n.origin
               /\ m.callees = [t \in DOMAIN n.callees |-> {}]
               /\ m.override = n.override
               /\ m.file = IF n.file = Null /\ n.origin # NoOrigin THEN Missing ELSE n.file
  <1> DEFINE n == d.nodes[s]
             v == downgradeV4FormatToV2Format(d)
             m == upgradeV2FormatToV4Format(v).nodes[s]
  <1>1. /\ DOMAIN v = DOMAIN d.nodes /\ v[s].hasBody = n.hasBody
        /\ v[s].callees = DOMAIN n.callees /\ (v[s].isVirtual <=> n.override # Null)
        /\ v[s].overrides = IF n.override = Null THEN {} ELSE n.override.overrides
        /\ v[s].overriddenBy = IF n.override = Null THEN {} ELSE n.override.overriddenBy
        /\ v[s].file = fileV2(n)
    BY DEF downgradeV4FormatToV2Format
  <1> HIDE DEF v
  <1>2. /\ m.functionName = s /\ m.hasBody = v[s].hasBody
        /\ m.origin = IF v[s].file = Null THEN NoOrigin ELSE v[s].file.origin
        /\ m.callees = [t \in v[s].callees |-> {}]
        /\ m.override = overridesV4(v[s])
        /\ m.file = IF v[s].file = Null THEN Null ELSE v[s].file.systemInclude
    BY <1>1 DEF upgradeV2FormatToV4Format
  <1> HIDE DEF m
  <1>3. m.override = n.override
    <2>1. CASE n.override = Null
      BY <1>1, <1>2, <2>1 DEF overridesV4
    <2>2. CASE n.override # Null
      <3>1. n.override = [overrides |-> n.override.overrides, overriddenBy |-> n.override.overriddenBy]
        BY <2>2 DEF JOverride
      <3> QED
        BY <1>1, <1>2, <2>2, <3>1 DEF overridesV4
    <2> QED
      BY <2>1, <2>2
  <1>4. /\ m.origin = n.origin
        /\ m.file = IF n.file = Null /\ n.origin # NoOrigin THEN Missing ELSE n.file
    <2>1. CASE n.file = Null /\ n.origin = NoOrigin
      <3>1. fileV2(n) = Null
        BY <2>1 DEF fileV2
      <3> QED
        BY <1>1, <1>2, <2>1, <3>1
    <2>2. CASE n.file # Null \/ n.origin # NoOrigin
      <3> DEFINE x == IF n.file # Null THEN n.file ELSE Missing
      <3>1. fileV2(n) = [origin |-> n.origin, systemInclude |-> x]
        BY <2>2 DEF fileV2
      <3>2. fileV2(n) \in JFile
        BY <3>1 DEF JFile
      <3>3. fileV2(n) # Null
        BY <3>2, NullIsNoObjectAssumption
      <3> QED
        BY <1>1, <1>2, <2>2, <3>1, <3>3
    <2> QED
      BY <2>1, <2>2
  <1> QED
    BY <1>1, <1>2, <1>3, <1>4 DEF m, v

\* The strings of the live nodes of a graph, and where its metadata points.
LEMMA WrittenStrings ==
    ASSUME NEW g, WellFormed(g), ~ Stale(g), NEW byName \in BOOLEAN,
           NEW S, S = strs(g, byName, LiveIds(g))
    PROVE  /\ S \subseteq (IF byName THEN NameStrings ELSE NumberStrings)
           /\ Null \notin S /\ NoId \notin S /\ Null \notin JOverride(S)
           /\ \A id \in LiveIds(g) :
                 jOverride(g, byName, g.nodes[id].override) \in JOverride(S) \cup {Null}
           /\ \A s : calleesOf(g, byName, s) \subseteq S
           /\ g.entry \in Ids => convertToStr(g, byName, g.entry) \in S
  <1> DEFINE str(id) == convertToStr(g, byName, id)
  <1>1. S \subseteq (IF byName THEN NameStrings ELSE NumberStrings)
    BY StringType DEF strs
  <1>2. Null \notin S /\ NoId \notin S /\ Null \notin JOverride(S)
    BY <1>1, NullIsNoObjectAssumption, NoIdIsNoStringAssumption DEF JOverride
  <1>3. \A id \in LiveIds(g) : str(id) \in S
    BY DEF strs
  <1>4. ASSUME NEW id \in LiveIds(g)
        PROVE  jOverride(g, byName, g.nodes[id].override) \in JOverride(S) \cup {Null}
    <2> DEFINE md == g.nodes[id].override
    <2>1. CASE md = Null
      BY <2>1 DEF jOverride
    <2>2. CASE md # Null
      <3>1. md.overrides \subseteq LiveIds(g) /\ md.overriddenBy \subseteq LiveIds(g)
        BY <2>2 DEF Stale
      <3>2. strs(g, byName, md.overrides) \subseteq S /\ strs(g, byName, md.overriddenBy) \subseteq S
        BY <1>3, <3>1 DEF strs
      <3> QED
        BY <2>2, <3>2 DEF jOverride, JOverride
    <2> QED
      BY <2>1, <2>2
  <1>5. ASSUME NEW s PROVE calleesOf(g, byName, s) \subseteq S
    <2>1. \A e \in DOMAIN g.edges : e[2] \in LiveIds(g)
      BY DEF WellFormed, LiveEdges, GraphType, LiveIds
    <2> QED
      BY <1>3, <2>1 DEF calleesOf
  <1>6. g.entry \in Ids => str(g.entry) \in S
    BY <1>3 DEF Stale
  <1> QED
    BY <1>1, <1>2, <1>4, <1>5, <1>6

LEMMA DocumentV2 ==
    ASSUME NEW g, WellFormed(g), ~ Stale(g), NEW fs \in [Ids -> FileProperties]
    PROVE  IsDocument(document(g, fs, "V2"), g, fs, "V2")
  <1> DEFINE b == useNamesAsIds("V2")
             d == writeV4(g, fs, b)
             S == strs(g, b, LiveIds(g))
             v == downgradeV4FormatToV2Format(d)
             j == upgradeV2FormatToV4Format(v)
  <1>1. document(g, fs, "V2") = j
    BY DEF document, write
  <1>b. b \in BOOLEAN
    BY DEF useNamesAsIds
  <1>2. DOMAIN j.nodes = DOMAIN d.nodes /\ j.entry = Null
    BY DEF upgradeV2FormatToV4Format, downgradeV4FormatToV2Format
  <1>3. d = writeV4(g, fs, b) /\ b = useNamesAsIds("V2") /\ j = upgradeV2FormatToV4Format(downgradeV4FormatToV2Format(d))
    OBVIOUS
  <1> HIDE DEF b, d, v, j
  <1>4. DOMAIN d.nodes = S
    BY <1>3, WrittenV4
  <1>5. ASSUME NEW s \in S
        PROVE  LET id == nodeOf(g, b, s)
                   n  == g.nodes[id]
                   m  == j.nodes[s]
               IN  /\ m.functionName = s
                   /\ m.origin = n.origin /\ m.hasBody = n.hasBody
                   /\ m.override = jOverride(g, b, n.override)
                   /\ m.file = IF fs[id] = Null /\ n.origin # NoOrigin THEN Missing ELSE fs[id]
                   /\ DOMAIN m.callees = calleesOf(g, b, s)
                   /\ \A t \in DOMAIN m.callees : m.callees[t] = {}
    <2> DEFINE id == nodeOf(g, b, s)
               n  == g.nodes[id]
    <2>1. /\ d.nodes[s].origin = n.origin /\ d.nodes[s].hasBody = n.hasBody
          /\ d.nodes[s].override = jOverride(g, b, n.override) /\ d.nodes[s].file = fs[id]
          /\ DOMAIN d.nodes[s].callees = calleesOf(g, b, s)
      BY <1>3, <1>4, WrittenV4
    <2>2. id \in LiveIds(g)
      BY NodeOfString
    <2>3. n \in Node /\ id \in Ids
      BY <2>2, NamedNode
    <2>4. /\ jOverride(g, b, n.override) \in JOverride(S) \cup {Null}
          /\ Null \notin JOverride(S)
      BY <1>b, <2>2, WrittenStrings
    <2> HIDE DEF id, S
    <2>5. n.origin \in Origins /\ fs[id] \in FileProperties
      BY <2>3 DEF Node
    <2>6. LET m == j.nodes[s]
          IN  /\ m.functionName = s /\ m.hasBody = n.hasBody /\ m.origin = n.origin
              /\ m.callees = [t \in DOMAIN d.nodes[s].callees |-> {}]
              /\ m.override = d.nodes[s].override
              /\ m.file = IF fs[id] = Null /\ n.origin # NoOrigin THEN Missing ELSE fs[id]
      <3>1. /\ d.nodes[s].override \in JOverride(S) \cup {Null}
            /\ d.nodes[s].origin \in Origins /\ d.nodes[s].file \in FileProperties
            /\ s \in DOMAIN d.nodes
        BY <1>4, <2>1, <2>4, <2>5 DEF S
      <3>2. LET m == j.nodes[s]
                k == d.nodes[s]
            IN  /\ m.functionName = s /\ m.hasBody = k.hasBody /\ m.origin = k.origin
                /\ m.callees = [t \in DOMAIN k.callees |-> {}]
                /\ m.override = k.override
                /\ m.file = IF k.file = Null /\ k.origin # NoOrigin THEN Missing ELSE k.file
        BY <1>3, <2>4, <3>1, DowngradedNode
      <3> QED
        BY <2>1, <3>2
    <2> QED
      BY <2>1, <2>6 DEF id
  <1> QED
    BY <1>1, <1>2, <1>3, <1>4, <1>5 DEF IsDocument

-----------------------------------------------------------------------------
(* What the reader may rely on. *)

\* A node of a file: it has its fields, and its strings name nodes of the file.
GoodNode(S, n) ==
    /\ n.functionName \in Names /\ n.origin \in Origins /\ n.hasBody \in BOOLEAN
    /\ DOMAIN n.callees \subseteq S
    /\ n.override \in JOverride(S) \cup {Null}
    /\ n.file \in FileProperties \cup {Missing}

GoodDocument(j) ==
    LET S == DOMAIN j.nodes
    IN  /\ IsFiniteSet(S) /\ Cardinality(S) <= MaxSize
        /\ \A s \in S : GoodNode(S, j.nodes[s])
        /\ Null \notin S /\ NoId \notin S /\ Null \notin JOverride(S)
        /\ j.entry \in S \cup {Null, NoId}

\* The strings are finitely many, at most as many as live nodes.
LEMMA StringsFinite ==
    ASSUME NEW g, NEW byName, NEW S, S = strs(g, byName, LiveIds(g))
    PROVE  /\ IsFiniteSet(S) /\ Cardinality(S) <= MaxSize
           /\ IsFiniteSet(LiveIds(g))
           /\ (\A i, j \in LiveIds(g) : convertToStr(g, byName, i) = convertToStr(g, byName, j) => i = j)
                => Cardinality(S) = Cardinality(LiveIds(g))
  <1> DEFINE L == LiveIds(g)
             f == [id \in L |-> convertToStr(g, byName, id)]
  <1>1. IsFiniteSet(L) /\ Cardinality(L) <= MaxSize /\ Cardinality(L) \in Nat
    BY IdsFinite, FS_Subset, FS_CardinalityType DEF LiveIds
  <1>2. f \in Surjection(L, S)
    BY DEF strs, Surjection
  <1>3. (\A i, j \in L : convertToStr(g, byName, i) = convertToStr(g, byName, j) => i = j)
          => f \in Injection(L, S)
    BY DEF strs, Injection, IsInjective
  <1> HIDE DEF f, L
  <1>4. /\ IsFiniteSet(S) /\ Cardinality(S) <= Cardinality(L)
        /\ Cardinality(S) = Cardinality(L) <=> f \in Injection(L, S)
    BY <1>1, <1>2, FS_Surjection
  <1>5. Cardinality(S) \in Nat
    BY <1>4, FS_CardinalityType
  <1>6. Cardinality(S) <= MaxSize
    BY <1>1, <1>4, <1>5, IdsFinite
  <1> QED
    BY <1>1, <1>3, <1>4, <1>6 DEF L

LEMMA DocumentOfGraph ==
    ASSUME NEW g, WellFormed(g), ~ Stale(g), NEW fs \in [Ids -> FileProperties], NEW fmt \in Formats,
           fmt = "V2" => strs(g, useNamesAsIds(fmt), LiveIds(g)) \subseteq Names
    PROVE  /\ IsDocument(document(g, fs, fmt), g, fs, fmt)
           /\ GoodDocument(document(g, fs, fmt))
  <1> DEFINE j == document(g, fs, fmt)
             b == useNamesAsIds(fmt)
             S == strs(g, b, LiveIds(g))
  <1>1. IsDocument(j, g, fs, fmt)
    BY DocumentV4, DocumentV2
  <1>2. b \in BOOLEAN
    BY DEF useNamesAsIds
  <1>0. b = useNamesAsIds(fmt) /\ S = strs(g, b, LiveIds(g))
    OBVIOUS
  <1> HIDE DEF j, b, S
  <1>3. DOMAIN j.nodes = S
    BY <1>0, <1>1 DEF IsDocument
  <1>4. /\ Null \notin S /\ NoId \notin S /\ Null \notin JOverride(S)
        /\ \A id \in LiveIds(g) :
              jOverride(g, b, g.nodes[id].override) \in JOverride(S) \cup {Null}
        /\ \A s : calleesOf(g, b, s) \subseteq S
        /\ g.entry \in Ids => convertToStr(g, b, g.entry) \in S
    BY <1>0, <1>2, WrittenStrings
  <1>5. IsFiniteSet(S) /\ Cardinality(S) <= MaxSize
    BY <1>0, StringsFinite
  <1>6. ASSUME NEW s \in S PROVE GoodNode(S, j.nodes[s])
    <2> DEFINE id == nodeOf(g, b, s)
               n  == g.nodes[id]
               m  == j.nodes[s]
    <2>1. id \in LiveIds(g)
      BY <1>0, NodeOfString
    <2>2. n \in Node /\ n.name \in Names /\ id \in Ids
      BY <2>1, NamedNode
    <2>3. /\ m.functionName = IF fmt = "V2" THEN s ELSE n.name
          /\ m.origin = n.origin /\ m.hasBody = n.hasBody
          /\ m.override = jOverride(g, b, n.override)
          /\ m.file = IF fmt = "V2" /\ fs[id] = Null /\ n.origin # NoOrigin THEN Missing ELSE fs[id]
          /\ DOMAIN m.callees = calleesOf(g, b, s)
      BY <1>0, <1>1, <1>3 DEF IsDocument
    <2>4. jOverride(g, b, n.override) \in JOverride(S) \cup {Null}
      BY <1>4, <2>1
    <2> HIDE DEF id, m
    <2>5. m.functionName \in Names
      BY <1>0, <2>2, <2>3
    <2>6. m.origin \in Origins /\ m.hasBody \in BOOLEAN
      BY <2>2, <2>3 DEF Node
    <2>7. m.file \in FileProperties \cup {Missing}
      BY <2>2, <2>3
    <2>8. GoodNode(S, m)
      BY <1>4, <2>3, <2>4, <2>5, <2>6, <2>7 DEF GoodNode
    <2> QED
      BY <2>8 DEF m
  <1>7. j.entry \in S \cup {Null, NoId}
    <2>1. g.entry \in Ids \cup {Null, NoId}
      BY DEF WellFormed, GraphType
    <2> QED
      BY <1>0, <1>1, <1>4, <2>1 DEF IsDocument
  <1>8. GoodDocument(j)
    BY <1>3, <1>4, <1>5, <1>6, <1>7 DEF GoodDocument
  <1> QED
    BY <1>1, <1>8 DEF j

\* What the reader has parsed.
LEMMA ReaderHasDocument ==
    ASSUME FormatInv, Reading
    PROVE  IsDocument(jsonCG, cg, files, format) /\ GoodDocument(jsonCG)
  <1>1. /\ jsonCG = document(cg, files, format) /\ ~ Stale(cg)
        /\ WellFormed(cg) /\ files \in [Ids -> FileProperties] /\ format \in Formats
        /\ format = "V2" => strs(cg, useNamesAsIds(format), LiveIds(cg)) \subseteq Names
    BY DEF FormatInv, FileOfGraph, Types, StringsInNames
  <1> QED
    BY <1>1, DocumentOfGraph

-----------------------------------------------------------------------------
(* Every step keeps the invariant. *)

LEMMA InitHolds == Init => FormatInv
  <1> SUFFICES ASSUME Init PROVE FormatInv
    OBVIOUS
  <1>1. phase = "start"
    BY DEF Init
  <1>2. Types
    <2>1. PICK in \in Inputs : cg = in.cg /\ files = in.files
      BY DEF Init
    <2>2. WellFormed(cg) /\ files \in [Ids -> FileProperties]
      BY <2>1, InputsAssumption
    <2>3. NoFiles \in [Ids -> FileProperties]
      BY DEF NoFiles, FileProperties
    <2> QED
      BY <2>2, <2>3, EmptyGraphWellFormed DEF Init, Types, Formats, Phases
  <1> QED
    BY <1>1, <1>2 DEF FormatInv, Reading, FileOfGraph, Loops, Registered, NodesAsInFile,
                      EdgesAsInFile, EntryAsInFile, FailsOnlyIfIncomplete

LEMMA InsertKeeps ==
    ASSUME FormatInv, NEW f \in SourceNames, Insert(f)
    PROVE  FormatInv'
  <1>1. phase' = "start"
    BY DEF Insert
  <1>2. WellFormed(cg')
    <2> DEFINE attr == [origin |-> NoOrigin, hasBody |-> TRUE, isVirtual |-> FALSE]
    <2>1. attr \in [origin : Origins, hasBody : BOOLEAN, isVirtual : BOOLEAN]
      BY NoOriginAssumption
    <2>2. cg' = insert(cg, f, attr) /\ cg.size < MaxSize /\ f \in Names /\ WellFormed(cg)
      BY SourceNamesAssumption DEF Insert, FormatInv, Types
    <2> HIDE DEF attr
    <2> QED
      BY <2>1, <2>2, InsertWellFormed
  <1>3. Types'
    BY <1>2 DEF Insert, FormatInv, Types, reading, loops
  <1> QED
    BY <1>1, <1>3 DEF FormatInv, Reading, FileOfGraph, Loops, Registered, NodesAsInFile,
                      EdgesAsInFile, EntryAsInFile, FailsOnlyIfIncomplete

LEMMA WriteKeeps ==
    ASSUME FormatInv, NEW fmt \in Formats, Write(fmt)
    PROVE  FormatInv'
  <1>1. /\ phase' \in {"failed", "written"} /\ cg' = cg /\ files' = files /\ format' = fmt
        /\ result' = result /\ resultFiles' = resultFiles
    BY DEF Write, reading
  <1>2. Types'
    BY <1>1 DEF FormatInv, Types, Phases
  <1>3. ~ Reading'
    BY <1>1 DEF Reading
  <1>4. FileOfGraph'
    BY <1>1, <1>3 DEF Write, FileOfGraph, StringsInNames
  <1>5. FailsOnlyIfIncomplete'
    BY <1>1 DEF Write, FailsOnlyIfIncomplete
  <1> QED
    BY <1>1, <1>2, <1>3, <1>4, <1>5 DEF FormatInv, Loops, Registered, NodesAsInFile,
                                        EdgesAsInFile, EntryAsInFile

LEMMA ReadKeeps ==
    ASSUME FormatInv, Read
    PROVE  FormatInv'
  <1>1. /\ phase = "written" /\ phase' = "nodes" /\ cg' = cg /\ files' = files /\ format' = format
        /\ doc' = doc /\ jsonCG' = IF format = "V2" THEN upgradeV2FormatToV4Format(doc) ELSE doc
        /\ todo' = DOMAIN jsonCG'.nodes /\ strToNode' = NoStrings /\ result' = EmptyGraph
        /\ resultFiles' = NoFiles
    BY DEF Read
  <1>2. Reading'
    BY <1>1 DEF Reading
  <1>3. Types'
    <2>1. NoFiles \in [Ids -> FileProperties]
      BY DEF NoFiles, FileProperties
    <2> QED
      BY <1>1, <2>1, EmptyGraphWellFormed DEF FormatInv, Types, Phases
  <1>4. FileOfGraph'
    BY <1>1, <1>2 DEF FormatInv, FileOfGraph, document, StringsInNames
  <1>5. Loops'
    BY <1>1, <1>2 DEF Loops
  <1>6. DOMAIN strToNode' = {} /\ LiveIds(result') = {}
    BY <1>1, MaxSizeAssumption DEF NoStrings, EmptyGraph, LiveIds, hasNode, Ids
  <1>7. Registered'
    <2>1. strToNode' \in [{} -> LiveIds(result')]
      BY <1>1 DEF NoStrings
    <2>2. result'.size = 0 /\ result'.numErased = 0
      BY <1>1 DEF EmptyGraph
    <2> QED
      BY <1>1, <1>6, <2>1, <2>2, FS_EmptySet DEF Registered
  <1>8. NodesAsInFile' /\ EdgesAsInFile'
    BY <1>6 DEF NodesAsInFile, EdgesAsInFile
  <1>9. EntryAsInFile'
    BY <1>1 DEF EntryAsInFile, EmptyGraph
  <1>10. FailsOnlyIfIncomplete'
    BY <1>1 DEF FailsOnlyIfIncomplete
  <1> QED
    BY <1>3, <1>4, <1>5, <1>7, <1>8, <1>9, <1>10 DEF FormatInv

LEMMA ContinueKeeps ==
    ASSUME FormatInv, Continue
    PROVE  FormatInv'
  <1>1. phase' = "start" /\ cg' = result /\ files' = resultFiles /\ format' = format
        /\ result' = result /\ resultFiles' = resultFiles
    BY DEF Continue, reading
  <1>2. Types'
    BY <1>1 DEF FormatInv, Types, Phases
  <1> QED
    BY <1>1, <1>2 DEF FormatInv, Reading, FileOfGraph, Loops, Registered, NodesAsInFile,
                      EdgesAsInFile, EntryAsInFile, FailsOnlyIfIncomplete

\* The loops of the reader change neither the file nor the graph that was written.
LEMMA SameFile ==
    ASSUME FormatInv, Reading, UNCHANGED <<cg, files, format, doc, jsonCG>>
    PROVE  FileOfGraph'
  BY DEF FormatInv, FileOfGraph, StringsInNames

\* An edge of the result connects nodes of strings that were taken.
LEMMA EdgeEnds ==
    ASSUME FormatInv, Reading, NEW e \in DOMAIN result.edges
    PROVE  /\ e[1] \in LiveIds(result) /\ e[2] \in LiveIds(result)
           /\ \E s, t \in DOMAIN strToNode : e = edgeOf(s, t)
  <1>1. WellFormed(result)
    BY DEF FormatInv, Types
  <1>2. e \in Ids \X Ids /\ hasNode(result, e[1]) /\ hasNode(result, e[2])
    BY <1>1 DEF WellFormed, GraphType, LiveEdges
  <1>3. e[1] \in LiveIds(result) /\ e[2] \in LiveIds(result) /\ e = <<e[1], e[2]>>
    BY <1>2 DEF LiveIds
  <1> QED
    BY <1>3 DEF FormatInv, Registered, edgeOf

LEMMA ReadNodeKeeps ==
    ASSUME FormatInv, NEW s \in todo, ReadNode(s)
    PROVE  FormatInv'
  <1> DEFINE S    == DOMAIN jsonCG.nodes
             D    == DOMAIN strToNode
             n    == jsonCG.nodes[s]
             attr == [origin |-> n.origin, hasBody |-> n.hasBody, isVirtual |-> FALSE]
             p    == result.size
  <1>1. /\ phase = "nodes" /\ phase' = "nodes" /\ todo' = todo \ {s} /\ jsonCG' = jsonCG
        /\ UNCHANGED <<cg, files, format, doc, resultFiles>>
        /\ result' = insert(result, n.functionName, attr)
        /\ strToNode' = [t \in D \cup {s} |-> IF t = s THEN p ELSE strToNode[t]]
    BY DEF ReadNode, createNodeFromJson, registerNode, nextId
  <1>2. Reading /\ Reading'
    BY <1>1 DEF Reading
  <1>3. GoodDocument(jsonCG)
    BY <1>2, ReaderHasDocument
  <1>4. /\ strToNode \in [D -> LiveIds(result)] /\ D = S \ todo
        /\ \A t, u \in D : strToNode[t] = strToNode[u] => t = u
        /\ \A id \in LiveIds(result) : \E t \in D : strToNode[t] = id
        /\ Cardinality(D) = p /\ result.numErased = 0 /\ todo \subseteq S
    BY <1>1, <1>2 DEF FormatInv, Registered, Loops
  <1>5. WellFormed(result)
    BY DEF FormatInv, Types
  <1>6. s \in S /\ s \notin D
    BY <1>4
  <1>7. /\ n.functionName \in Names /\ n.origin \in Origins /\ n.hasBody \in BOOLEAN
        /\ attr \in [origin : Origins, hasBody : BOOLEAN, isVirtual : BOOLEAN]
    BY <1>3, <1>6 DEF GoodDocument, GoodNode
  <1>8. IsFiniteSet(D) /\ Cardinality(D \cup {s}) = p + 1 /\ p < MaxSize /\ p \in Nat
    <2>1. IsFiniteSet(S) /\ Cardinality(S) <= MaxSize /\ Cardinality(S) \in Nat
      BY <1>3, FS_CardinalityType DEF GoodDocument
    <2>2. IsFiniteSet(D) /\ Cardinality(D) \in Nat
      BY <1>4, <2>1, FS_Subset, FS_CardinalityType
    <2> HIDE DEF D, S, p
    <2>3. Cardinality(D \cup {s}) = p + 1
      BY <1>4, <1>6, <2>2, FS_AddElement
    <2>4. Cardinality(D \cup {s}) <= Cardinality(S)
      BY <1>4, <1>6, <2>1, FS_Subset
    <2> QED
      BY <1>4, <2>1, <2>2, <2>3, <2>4, MaxSizeAssumption
  <1> HIDE DEF attr
  <1>9. WellFormed(result') /\ OneNodeMore(result, result', n.functionName, attr)
    BY <1>1, <1>5, <1>7, <1>8, InsertWellFormed, InsertEffect
  <1>10. result'.numErased = 0
    <2>1. insert(result, n.functionName, attr).numErased = result.numErased
      BY <1>5 DEF WellFormed, GraphType, insert
    <2> QED
      BY <1>1, <1>4, <2>1
  <1> HIDE DEF n, p
  <1>11. /\ result'.size = p + 1 /\ p \in Ids /\ result'.nodes[p] = newNode(n.functionName, attr)
         /\ \A id \in Ids \ {p} : result'.nodes[id] = result.nodes[id]
         /\ LiveIds(result') = LiveIds(result) \cup {p} /\ p \notin LiveIds(result)
         /\ result'.edges = result.edges /\ result'.entry = result.entry
    BY <1>9 DEF OneNodeMore, p
  <1>12. /\ DOMAIN strToNode' = D \cup {s} /\ strToNode'[s] = p
         /\ \A t \in D : strToNode'[t] = strToNode[t]
    BY <1>1, <1>6
  <1> HIDE DEF D
  <1>13. Types' /\ FileOfGraph' /\ Loops' /\ EntryAsInFile' /\ FailsOnlyIfIncomplete'
    <2>1. Types'
      BY <1>1, <1>9 DEF FormatInv, Types
    <2>2. FileOfGraph'
      BY <1>1, <1>2, SameFile
    <2>3. Loops'
      BY <1>1, <1>4 DEF Loops
    <2>4. EntryAsInFile'
      BY <1>1, <1>2, <1>11 DEF FormatInv, EntryAsInFile
    <2>5. FailsOnlyIfIncomplete'
      BY <1>1 DEF FailsOnlyIfIncomplete
    <2> QED
      BY <2>1, <2>2, <2>3, <2>4, <2>5
  <1>14. Registered'
    <2>1. strToNode' \in [D \cup {s} -> LiveIds(result')]
      BY <1>1, <1>4, <1>11 DEF D
    <2>2. D \cup {s} = S \ todo'
      BY <1>1, <1>4, <1>6
    <2>3. \A t, u \in D \cup {s} : strToNode'[t] = strToNode'[u] => t = u
      BY <1>4, <1>11, <1>12
    <2>4. \A id \in LiveIds(result') : \E t \in D \cup {s} : strToNode'[t] = id
      BY <1>4, <1>11, <1>12
    <2> QED
      BY <1>1, <1>8, <1>10, <1>11, <1>12, <2>1, <2>2, <2>3, <2>4 DEF Registered
  <1>15. NodesAsInFile'
    <2>1. \A t : ~ finished(t) /\ ~ finished(t)'
      BY <1>1 DEF finished
    <2>2. \A t : nodeRead(t)' = nodeRead(t)
      BY <1>1, <2>1 DEF nodeRead
    <2>3. \A t \in D : result'.nodes[strToNode'[t]] = nodeRead(t)
      <3>1. \A t \in D : strToNode[t] \in Ids \ {p}
        BY <1>4, <1>11 DEF LiveIds
      <3> QED
        BY <1>2, <1>11, <1>12, <3>1 DEF FormatInv, NodesAsInFile, D
    <2>4. result'.nodes[strToNode'[s]] = nodeRead(s)
      BY <1>11, <1>12, <2>1 DEF nodeRead, newNode, attr, n
    <2> QED
      BY <1>12, <2>1, <2>2, <2>3, <2>4 DEF NodesAsInFile
  <1>16. EdgesAsInFile'
    <2>1. \A t, u : ~ edgeDone(t, u) /\ ~ edgeDone(t, u)'
      BY <1>1 DEF edgeDone
    <2>2. DOMAIN result.edges = {}
      <3> SUFFICES ASSUME NEW e \in DOMAIN result.edges PROVE FALSE
        OBVIOUS
      <3>1. PICK t, u \in DOMAIN strToNode : e = edgeOf(t, u)
        BY <1>2, EdgeEnds
      <3> QED
        BY <1>2, <2>1, <3>1 DEF FormatInv, EdgesAsInFile
    <2> QED
      BY <1>11, <2>1, <2>2 DEF EdgesAsInFile
  <1> QED
    BY <1>13, <1>14, <1>15, <1>16 DEF FormatInv

LEMMA NodesReadKeeps ==
    ASSUME FormatInv, NodesRead
    PROVE  FormatInv'
  <1>1. /\ phase = "nodes" /\ phase' = "data" /\ todo = {} /\ todo' = DOMAIN jsonCG.nodes
        /\ UNCHANGED <<cg, files, format, doc, jsonCG, strToNode, result, resultFiles>>
    BY DEF NodesRead, allNodesRead
  <1>2. Reading /\ Reading'
    BY <1>1 DEF Reading
  <1>3. Types' /\ FileOfGraph' /\ Loops' /\ EntryAsInFile' /\ FailsOnlyIfIncomplete'
    <2>1. Types'
      BY <1>1 DEF FormatInv, Types, Phases
    <2>2. FileOfGraph'
      BY <1>1, <1>2, SameFile
    <2> QED
      BY <1>1, <1>2, <2>1, <2>2 DEF FormatInv, Loops, EntryAsInFile, FailsOnlyIfIncomplete
  <1>4. Registered'
    BY <1>1, <1>2 DEF FormatInv, Registered
  <1>5. DOMAIN strToNode = DOMAIN jsonCG.nodes
    BY <1>1, <1>2 DEF FormatInv, Registered
  <1>6. NodesAsInFile'
    <2>1. \A t \in DOMAIN strToNode : ~ finished(t) /\ ~ finished(t)'
      BY <1>1, <1>5 DEF finished
    <2>2. \A t \in DOMAIN strToNode : nodeRead(t)' = nodeRead(t)
      BY <1>1, <2>1 DEF nodeRead
    <2> QED
      BY <1>1, <1>2, <2>1, <2>2 DEF FormatInv, NodesAsInFile
  <1>7. EdgesAsInFile'
    <2>1. \A t, u \in DOMAIN strToNode : ~ edgeDone(t, u) /\ ~ edgeDone(t, u)'
      BY <1>1, <1>5 DEF edgeDone
    <2> QED
      BY <1>1, <1>2, <2>1 DEF FormatInv, EdgesAsInFile, edgeOf
  <1> QED
    BY <1>3, <1>4, <1>6, <1>7 DEF FormatInv

LEMMA TakeNodeKeeps ==
    ASSUME FormatInv, NEW s \in todo, TakeNode(s)
    PROVE  FormatInv'
  <1>1. /\ phase = "data" /\ phase' = "edges" /\ todo' = todo \ {s} /\ current' = s
        /\ callees' = DOMAIN jsonCG.nodes[s].callees
        /\ UNCHANGED <<cg, files, format, doc, jsonCG, strToNode, result, resultFiles>>
    BY DEF TakeNode
  <1>2. Reading /\ Reading'
    BY <1>1 DEF Reading
  <1>3. Types' /\ FileOfGraph' /\ Loops' /\ EntryAsInFile' /\ FailsOnlyIfIncomplete'
    <2>1. Types'
      BY <1>1 DEF FormatInv, Types, Phases
    <2>2. FileOfGraph'
      BY <1>1, <1>2, SameFile
    <2> QED
      BY <1>1, <1>2, <2>1, <2>2 DEF FormatInv, Loops, EntryAsInFile, FailsOnlyIfIncomplete
  <1>4. Registered'
    BY <1>1, <1>2 DEF FormatInv, Registered
  <1>5. NodesAsInFile'
    <2>1. \A t : finished(t)' <=> finished(t)
      BY <1>1 DEF finished
    <2>2. \A t : nodeRead(t)' = nodeRead(t)
      BY <1>1, <2>1 DEF nodeRead, overrideRead, nodesOf
    <2> QED
      BY <1>1, <1>2, <2>1, <2>2 DEF FormatInv, NodesAsInFile
  <1>6. EdgesAsInFile'
    <2>1. \A t, u : edgeDone(t, u)' <=> edgeDone(t, u)
      BY <1>1 DEF edgeDone
    <2> QED
      BY <1>1, <1>2, <2>1 DEF FormatInv, EdgesAsInFile, edgeOf
  <1> QED
    BY <1>3, <1>4, <1>5, <1>6 DEF FormatInv

\* The metadata of an edge that is read with the metadata last, if any.
lastMd(last) == IF last = Null THEN {} ELSE {<<BaseClass, last>>}

\* h is g with the new edge <<p, c>>, which has this metadata.
LEMMA ReadEdgeEffect ==
    ASSUME NEW g, WellFormed(g), NEW p \in LiveIds(g), NEW c \in LiveIds(g),
           <<p, c>> \notin DOMAIN g.edges, NEW last \in MdKinds \cup {Null},
           NEW h, h = readEdge(g, p, c, last)
    PROVE  /\ WellFormed(h) /\ EdgesOnly(g, h)
           /\ DOMAIN h.edges = DOMAIN g.edges \cup {<<p, c>>}
           /\ \A e \in DOMAIN g.edges : h.edges[e] = g.edges[e]
           /\ h.edges[<<p, c>>] = lastMd(last)
  <1> DEFINE a  == addEdge(g, p, c)
             e0 == <<p, c>>
  <1>1. p \in Nat /\ c \in Nat /\ hasNode(g, p) /\ hasNode(g, c) /\ p \in Ids /\ c \in Ids
    BY NamedNode DEF LiveIds
  <1>2. a = addEdgeInternal(g, p, c)
    <2>1. g.size \in Nat /\ p < g.size /\ c < g.size /\ g.nodes[p] # Null /\ g.nodes[c] # Null
      BY <1>1, MaxSizeAssumption DEF hasNode, WellFormed, GraphType
    <2>2. getNode(g, p) = p /\ getNode(g, c) = c
      BY <1>1, <2>1 DEF getNode
    <2> QED
      BY <1>1, <2>2 DEF addEdge
  <1> HIDE DEF a
  <1>3. /\ WellFormed(a) /\ EdgesOnly(g, a) /\ DOMAIN a.edges = DOMAIN g.edges \cup {e0}
        /\ \A e \in DOMAIN g.edges : a.edges[e] = g.edges[e]
    BY <1>1, <1>2, AddEdgeInternalWellFormed, AddEdgeInternalEffect
  <1>4. a.edges[e0] = {}
    <2> DEFINE E == [e \in DOMAIN g.edges \cup {e0} |-> IF e = e0 THEN {} ELSE g.edges[e]]
    <2>1. addEdgeInternal(g, p, c).edges = E
      BY DEF addEdgeInternal, WellFormed, GraphType
    <2>2. E[e0] = {}
      OBVIOUS
    <2> QED
      BY <1>2, <2>1, <2>2
  <1>5. CASE last = Null
    <2>1. h = a
      BY <1>5 DEF readEdge, a
    <2> QED
      BY <1>3, <1>4, <1>5, <2>1 DEF lastMd
  <1>6. CASE last # Null
    <2>1. h = addEdgeMetaData(a, e0, last, FALSE) /\ last \in MdKinds
      BY <1>6 DEF readEdge, a
    <2>2. WellFormed(h)
      BY <1>3, <2>1, AddEdgeMetaDataWellFormed
    <2> DEFINE md == {m \in a.edges[e0] : m[1] # edgeMdKey(last, FALSE)}
                       \cup {<<edgeMdKey(last, FALSE), last>>}
               E  == [a.edges EXCEPT ![e0] = md]
    <2>3. h = [a EXCEPT !.edges = E]
      BY <1>3, <2>1 DEF addEdgeMetaData
    <2>4. md = {<<BaseClass, last>>}
      BY <1>4 DEF edgeMdKey
    <2> HIDE DEF md
    <2>5. EdgesOnly(a, h) /\ h.edges = E
      BY <1>3, <2>3 DEF WellFormed, GraphType, EdgesOnly
    <2>6. /\ DOMAIN E = DOMAIN a.edges /\ E[e0] = md
          /\ \A e \in DOMAIN g.edges : E[e] = g.edges[e]
      <3>1. e0 \in DOMAIN a.edges /\ a.edges = [e \in DOMAIN a.edges |-> a.edges[e]]
        BY <1>3 DEF WellFormed, GraphType
      <3> HIDE DEF e0
      <3>2. e0 \notin DOMAIN g.edges
        BY DEF e0
      <3> QED
        BY <1>3, <3>1, <3>2
    <2> HIDE DEF E
    <2>7. EdgesOnly(g, h)
      BY <1>3, <2>5 DEF EdgesOnly
    <2> QED
      BY <1>3, <1>6, <2>2, <2>4, <2>5, <2>6, <2>7 DEF lastMd
  <1> QED
    BY <1>5, <1>6

LEMMA ReadEdgeKeeps ==
    ASSUME FormatInv, NEW t \in callees, ReadEdge(t)
    PROVE  FormatInv'
  <1> DEFINE S == DOMAIN jsonCG.nodes
             p == strToNode[current]
             q == strToNode[t]
             kinds == readable(jsonCG.nodes[current].callees[t])
  <1>1. phase = "edges" /\ Reading
    BY DEF ReadEdge, Reading
  <1>2. GoodDocument(jsonCG)
    BY <1>1, ReaderHasDocument
  <1>3. /\ strToNode \in [S -> LiveIds(result)] /\ DOMAIN strToNode = S
        /\ \A s, u \in S : strToNode[s] = strToNode[u] => s = u
        /\ current \in S \ todo /\ callees \subseteq DOMAIN jsonCG.nodes[current].callees
    BY <1>1 DEF FormatInv, Registered, Loops
  <1>4. t \in S /\ current \in S
    BY <1>2, <1>3 DEF GoodDocument, GoodNode
  <1>5. /\ phase' = "edges" /\ callees' = callees \ {t}
        /\ UNCHANGED <<cg, files, format, doc, jsonCG, todo, current, strToNode, resultFiles>>
    BY <1>1, <1>3, <1>4 DEF ReadEdge
  <1>6. PICK last \in IF kinds = {} THEN {Null} ELSE kinds : result' = readEdge(result, p, q, last)
    BY <1>3, <1>4, Zenon DEF ReadEdge
  <1>7. /\ last \in MdKinds \cup {Null} /\ (last = Null <=> kinds = {})
        /\ last # Null => last \in kinds
    BY <1>6, NullIsNoObjectAssumption DEF readable
  <1>8. Reading'
    BY <1>5 DEF Reading
  <1>9. <<p, q>> \notin DOMAIN result.edges
    <2>1. ~ edgeDone(current, t)
      BY <1>1 DEF edgeDone
    <2> QED
      BY <1>1, <1>3, <1>4, <2>1 DEF FormatInv, EdgesAsInFile, edgeOf
  <1>10. /\ WellFormed(result') /\ EdgesOnly(result, result')
         /\ DOMAIN result'.edges = DOMAIN result.edges \cup {<<p, q>>}
         /\ \A e \in DOMAIN result.edges : result'.edges[e] = result.edges[e]
         /\ result'.edges[<<p, q>>] = lastMd(last)
    <2>1. WellFormed(result) /\ p \in LiveIds(result) /\ q \in LiveIds(result)
      BY <1>3, <1>4 DEF FormatInv, Types
    <2> HIDE DEF p, q, kinds
    <2> QED
      BY <1>6, <1>7, <1>9, <2>1, ReadEdgeEffect
  <1>11. /\ result'.nodes = result.nodes /\ result'.size = result.size
         /\ result'.numErased = result.numErased /\ result'.entry = result.entry
         /\ LiveIds(result') = LiveIds(result)
    <2>1. /\ result'.nodes = result.nodes /\ result'.size = result.size
          /\ result'.numErased = result.numErased /\ result'.entry = result.entry
      BY <1>10 DEF EdgesOnly
    <2> QED
      BY <2>1 DEF LiveIds, hasNode
  <1>12. Types' /\ FileOfGraph' /\ Loops' /\ EntryAsInFile' /\ FailsOnlyIfIncomplete'
    <2>1. Types'
      BY <1>5, <1>10 DEF FormatInv, Types, Phases
    <2>2. FileOfGraph'
      BY <1>1, <1>5, SameFile
    <2>3. Loops'
      BY <1>1, <1>3, <1>5 DEF FormatInv, Loops
    <2> QED
      BY <1>1, <1>5, <1>11, <2>1, <2>2, <2>3 DEF FormatInv, EntryAsInFile, FailsOnlyIfIncomplete
  <1>13. Registered'
    BY <1>1, <1>5, <1>11 DEF FormatInv, Registered
  <1>14. NodesAsInFile'
    <2>1. \A u : finished(u)' <=> finished(u)
      BY <1>1, <1>5 DEF finished
    <2>2. \A u : nodeRead(u)' = nodeRead(u)
      BY <1>5, <2>1 DEF nodeRead, overrideRead, nodesOf
    <2> QED
      BY <1>1, <1>5, <1>11, <2>1, <2>2 DEF FormatInv, NodesAsInFile
  <1>15. EdgesAsInFile'
    <2> SUFFICES ASSUME NEW s \in S, NEW u \in S
                 PROVE  /\ edgeOf(s, u) \in DOMAIN result'.edges <=> edgeDone(s, u)'
                        /\ edgeDone(s, u)' => result'.edges[edgeOf(s, u)]
                              \in edgeMdLeft(jsonCG.nodes[s].callees[u])
      <3>1. \A s, u : edgeOf(s, u)' = edgeOf(s, u)
        BY <1>5 DEF edgeOf
      <3>2. DOMAIN strToNode' = S /\ jsonCG' = jsonCG
        BY <1>3, <1>5
      <3> HIDE DEF S
      <3> QED
        BY <3>1, <3>2, Zenon DEF EdgesAsInFile
    <2>1. edgeOf(s, u) = <<p, q>> <=> s = current /\ u = t
      BY <1>3, <1>4 DEF edgeOf
    <2>2. edgeDone(s, u)' <=> edgeDone(s, u) \/ (s = current /\ u = t)
      BY <1>1, <1>3, <1>5 DEF edgeDone
    <2>3. /\ edgeOf(s, u) \in DOMAIN result.edges <=> edgeDone(s, u)
          /\ edgeDone(s, u) => result.edges[edgeOf(s, u)]
                                  \in edgeMdLeft(jsonCG.nodes[s].callees[u])
      BY <1>1, <1>3 DEF FormatInv, EdgesAsInFile
    <2>4. CASE s = current /\ u = t
      <3>1. result'.edges[<<p, q>>] \in edgeMdLeft(jsonCG.nodes[current].callees[t])
        BY <1>7, <1>10 DEF edgeMdLeft, lastMd
      <3> QED
        BY <1>10, <2>1, <2>2, <2>4, <3>1
    <2>5. CASE ~ (s = current /\ u = t)
      BY <1>10, <2>1, <2>2, <2>3, <2>5
    <2> QED
      BY <2>4, <2>5
  <1> QED
    BY <1>12, <1>13, <1>14, <1>15 DEF FormatInv

\* A file without systemInclude was written for an origin without file properties.
LEMMA MissingFile ==
    ASSUME FormatInv, Reading, NEW s \in DOMAIN jsonCG.nodes, jsonCG.nodes[s].file = Missing
    PROVE  /\ format = "V2"
           /\ \E id \in LiveIds(cg) : files[id] = Null /\ cg.nodes[id].origin # NoOrigin
  <1> DEFINE b  == useNamesAsIds(format)
             id == nodeOf(cg, b, s)
             v2 == format = "V2" /\ files[id] = Null /\ cg.nodes[id].origin # NoOrigin
  <1>1. IsDocument(jsonCG, cg, files, format)
    BY ReaderHasDocument
  <1>2. s \in strs(cg, b, LiveIds(cg)) /\ jsonCG.nodes[s].file = IF v2 THEN Missing ELSE files[id]
    BY <1>1 DEF IsDocument
  <1>3. id \in LiveIds(cg)
    <2> HIDE DEF b
    <2> QED
      BY <1>2, NodeOfString
  <1>4. files[id] # Missing
    BY <1>3, MissingAssumption DEF FormatInv, Types, LiveIds
  <1> HIDE DEF id
  <1> QED
    BY <1>2, <1>3, <1>4

LEMMA ReadNodeMetaDataKeeps ==
    ASSUME FormatInv, ReadNodeMetaData
    PROVE  FormatInv'
  <1> DEFINE S == DOMAIN jsonCG.nodes
             n == jsonCG.nodes[current]
             p == strToNode[current]
  <1>1. /\ phase = "edges" /\ Reading /\ callees = {}
        /\ UNCHANGED <<cg, files, format, doc, jsonCG, todo, current, callees, strToNode>>
    BY DEF ReadNodeMetaData, Reading, loops
  <1>2. GoodDocument(jsonCG)
    BY <1>1, ReaderHasDocument
  <1>3. /\ strToNode \in [S -> LiveIds(result)] /\ DOMAIN strToNode = S
        /\ \A s, u \in S : strToNode[s] = strToNode[u] => s = u
        /\ current \in S /\ current \notin todo
    BY <1>1 DEF FormatInv, Registered, Loops
  <1>4. GoodNode(S, n)
    BY <1>2, <1>3 DEF GoodDocument
  <1>5. n.override # Null =>
          n.override.overrides \subseteq S /\ n.override.overriddenBy \subseteq S
    BY <1>4 DEF GoodNode, JOverride
  <1>6. Complete(n) <=> n.file # Missing
    BY <1>3, <1>5 DEF Complete
  <1>7. CASE ~ Complete(n)
    <2>1. phase' = "failed" /\ UNCHANGED <<result, resultFiles>>
      BY <1>7 DEF ReadNodeMetaData
    <2>2. ~ Reading'
      BY <2>1 DEF Reading
    <2>3. FailsOnlyIfIncomplete'
      <3>1. /\ format = "V2"
            /\ \E id \in LiveIds(cg) : files[id] = Null /\ cg.nodes[id].origin # NoOrigin
        BY <1>1, <1>3, <1>6, <1>7, MissingFile
      <3> QED
        BY <1>1, <3>1 DEF FailsOnlyIfIncomplete
    <2>4. Types'
      BY <1>1, <2>1 DEF FormatInv, Types, Phases
    <2> QED
      BY <2>1, <2>2, <2>3, <2>4
      DEF FormatInv, FileOfGraph, Loops, Registered, NodesAsInFile, EdgesAsInFile, EntryAsInFile
  <1>8. CASE Complete(n)
    <2>1. /\ phase' = "data" /\ result' = readOverride(result, p, n.override)
          /\ resultFiles' = [resultFiles EXCEPT ![p] = n.file]
      BY <1>8 DEF ReadNodeMetaData
    <2>2. Reading'
      BY <2>1 DEF Reading
    <2>3. WellFormed(result) /\ resultFiles \in [Ids -> FileProperties] /\ p \in LiveIds(result) /\ p \in Ids
      BY <1>3 DEF FormatInv, Types, LiveIds
    <2>4. result.nodes[p] = [name |-> n.functionName, origin |-> n.origin, hasBody |-> n.hasBody,
                             override |-> Null]
      <3>1. ~ finished(current)
        BY <1>1 DEF finished
      <3> QED
        BY <1>1, <1>3, <3>1 DEF FormatInv, NodesAsInFile, nodeRead
    <2> DEFINE md   == overrideRead(n.override)
               node == [name |-> n.functionName, origin |-> n.origin, hasBody |-> n.hasBody,
                        override |-> md]
    <2>5. node \in Node /\ node.name = result.nodes[p].name
      <3>1. md \in OverrideMD \cup {Null}
        <4>1. \A T \in SUBSET S : nodesOf(T) \subseteq Ids
          BY <1>3 DEF nodesOf, LiveIds
        <4> QED
          BY <1>5, <4>1 DEF overrideRead, OverrideMD
      <3> QED
        BY <1>4, <2>4, <3>1 DEF GoodNode, Node
    <2>6. /\ WellFormed(result') /\ result'.numErased = result.numErased
          /\ OneNodeChanged(result, result', p, node)
      <3>1. CASE n.override = Null
        <4>1. result' = result /\ node = result.nodes[p]
          BY <2>1, <2>4, <3>1 DEF readOverride, overrideRead
        <4> QED
          BY <2>3, <4>1 DEF OneNodeChanged
      <3>2. CASE n.override # Null
        <4>1. result' = [result EXCEPT !.nodes[p].override = md]
          BY <2>1, <3>2 DEF readOverride, overrideRead
        <4>2. [result.nodes[p] EXCEPT !.override = md] = node
          BY <2>4
        <4>3. result' = [result EXCEPT !.nodes[p] = node]
          BY <4>1, <4>2
        <4> HIDE DEF node, p
        <4>4. result'.numErased = result.numErased
          BY <2>3, <4>3 DEF WellFormed, GraphType
        <4> QED
          BY <2>3, <2>5, <4>3, <4>4, NodeChanged
      <3> QED
        BY <3>1, <3>2
    <2>7. /\ result'.size = result.size /\ LiveIds(result') = LiveIds(result)
          /\ result'.nodes[p] = node /\ \A i \in Ids \ {p} : result'.nodes[i] = result.nodes[i]
          /\ result'.edges = result.edges /\ result'.entry = result.entry
      BY <2>6 DEF OneNodeChanged
    <2>8. n.file \in FileProperties
      BY <1>4, <1>6, <1>8 DEF GoodNode
    <2>9. /\ resultFiles' \in [Ids -> FileProperties] /\ resultFiles'[p] = n.file
          /\ \A i \in Ids \ {p} : resultFiles'[i] = resultFiles[i]
      BY <2>1, <2>3, <2>8
    <2> HIDE DEF node, md
    <2>10. Types' /\ FileOfGraph' /\ Loops' /\ EntryAsInFile' /\ FailsOnlyIfIncomplete'
      <3>1. Types'
        BY <1>1, <2>1, <2>6, <2>9 DEF FormatInv, Types, Phases
      <3>2. FileOfGraph'
        BY <1>1, SameFile
      <3> QED
        BY <1>1, <2>1, <2>2, <2>7, <3>1, <3>2
        DEF FormatInv, Loops, EntryAsInFile, FailsOnlyIfIncomplete
    <2>11. Registered'
      BY <1>1, <2>1, <2>6, <2>7 DEF FormatInv, Registered
    <2>12. NodesAsInFile'
      <3>1. \A u : finished(u)' <=> finished(u) \/ u = current
        BY <1>1, <1>3, <2>1 DEF finished
      <3>2. \A u : u # current => nodeRead(u)' = nodeRead(u)
        BY <1>1, <3>1 DEF nodeRead, overrideRead, nodesOf
      <3>3. \A u : u = current => nodeRead(u)' = node
        BY <1>1, <3>1 DEF nodeRead, node, md, overrideRead, nodesOf
      <3>4. ASSUME NEW u \in S, u # current
            PROVE  /\ result'.nodes[strToNode[u]] = nodeRead(u)'
                   /\ finished(u)' => resultFiles'[strToNode[u]] = jsonCG.nodes[u].file
        <4>1. strToNode[u] \in Ids \ {p}
          BY <1>3, <3>4 DEF LiveIds
        <4>2. /\ result.nodes[strToNode[u]] = nodeRead(u)
              /\ finished(u) => resultFiles[strToNode[u]] = jsonCG.nodes[u].file
          BY <1>1, <1>3 DEF FormatInv, NodesAsInFile
        <4> QED
          BY <2>7, <2>9, <3>1, <3>2, <3>4, <4>1, <4>2
      <3>5. ASSUME NEW u \in S
            PROVE  /\ result'.nodes[strToNode[u]] = nodeRead(u)'
                   /\ finished(u)' => resultFiles'[strToNode[u]] = jsonCG.nodes[u].file
        <4>1. CASE u = current
          BY <2>7, <2>9, <3>3, <4>1
        <4>2. CASE u # current
          BY <3>4, <4>2
        <4> QED
          BY <4>1, <4>2
      <3>6. DOMAIN strToNode' = S /\ strToNode' = strToNode /\ jsonCG' = jsonCG
        BY <1>1, <1>3
      <3> HIDE DEF S
      <3> QED
        BY <3>5, <3>6, Zenon DEF NodesAsInFile
    <2>13. EdgesAsInFile'
      <3>1. \A s, u : edgeDone(s, u)' <=> edgeDone(s, u)
        BY <1>1, <2>1 DEF edgeDone
      <3>2. \A s, u : edgeOf(s, u)' = edgeOf(s, u)
        BY <1>1 DEF edgeOf
      <3> QED
        BY <1>1, <2>7, <3>1, <3>2 DEF FormatInv, EdgesAsInFile
    <2> QED
      BY <2>10, <2>11, <2>12, <2>13 DEF FormatInv
  <1> QED
    BY <1>7, <1>8

LEMMA ReadGlobalMetaDataKeeps ==
    ASSUME FormatInv, ReadGlobalMetaData
    PROVE  FormatInv'
  <1> DEFINE entry == readEntry(jsonCG.entry)
  <1>1. /\ phase = "data" /\ phase' = "done" /\ todo = {} /\ Reading
        /\ UNCHANGED <<cg, files, format, doc, jsonCG, todo, current, callees, strToNode, resultFiles>>
        /\ result' = setEntryFunction(result, entry)
    BY DEF ReadGlobalMetaData, Reading, loops
  <1>2. Reading'
    BY <1>1 DEF Reading
  <1>3. WellFormed(result) /\ strToNode \in [DOMAIN strToNode -> LiveIds(result)]
    BY <1>1 DEF FormatInv, Types, Registered
  <1>4. entry \in Ids \cup {Null, NoId}
    BY <1>3 DEF readEntry, LiveIds
  <1>5. entry' = entry
    BY <1>1 DEF readEntry
  <1> HIDE DEF entry
  <1>6. WellFormed(result')
    BY <1>1, <1>3, <1>4, SetEntryWellFormed
  <1>7. /\ result'.nodes = result.nodes /\ result'.size = result.size
        /\ result'.edges = result.edges /\ result'.numErased = result.numErased
        /\ result'.entry = entry
    <2>1. result' = [result EXCEPT !.entry = entry]
      BY <1>1 DEF setEntryFunction
    <2> QED
      BY <1>3, <2>1 DEF WellFormed, GraphType
  <1>8. LiveIds(result') = LiveIds(result)
    BY <1>7 DEF LiveIds, hasNode
  <1>9. Types' /\ FileOfGraph' /\ Loops' /\ EntryAsInFile' /\ FailsOnlyIfIncomplete'
    <2>1. Types'
      BY <1>1, <1>6 DEF FormatInv, Types, Phases
    <2>2. FileOfGraph'
      BY <1>1, SameFile
    <2>3. EntryAsInFile'
      BY <1>1, <1>5, <1>7 DEF EntryAsInFile, entry
    <2> QED
      BY <1>1, <2>1, <2>2, <2>3 DEF FormatInv, Loops, FailsOnlyIfIncomplete
  <1>10. Registered'
    BY <1>1, <1>7, <1>8 DEF FormatInv, Registered
  <1>11. NodesAsInFile'
    <2>1. \A u : finished(u)' <=> finished(u)
      BY <1>1 DEF finished
    <2>2. \A u : nodeRead(u)' = nodeRead(u)
      BY <1>1, <2>1 DEF nodeRead, overrideRead, nodesOf
    <2> QED
      BY <1>1, <1>7, <2>1, <2>2 DEF FormatInv, NodesAsInFile
  <1>12. EdgesAsInFile'
    <2>1. \A s, u : edgeDone(s, u)' <=> edgeDone(s, u)
      BY <1>1 DEF edgeDone
    <2>2. \A s, u : edgeOf(s, u)' = edgeOf(s, u)
      BY <1>1 DEF edgeOf
    <2> QED
      BY <1>1, <1>7, <2>1, <2>2 DEF FormatInv, EdgesAsInFile
  <1> QED
    BY <1>9, <1>10, <1>11, <1>12 DEF FormatInv

\* FormatInv is an invariant of reading and writing: at every point of the
\* reader's loops the result is exactly the part of the file that was read.
THEOREM FormatInvariant == Spec => []FormatInv
  <1>1. Init => FormatInv
    BY InitHolds
  <1>2. FormatInv /\ [Next]_vars => FormatInv'
    <2> SUFFICES ASSUME FormatInv, [Next]_vars PROVE FormatInv'
      OBVIOUS
    <2>1. CASE UNCHANGED vars
      BY <2>1
      DEF vars, reading, loops, FormatInv, Types, FileOfGraph, Loops, Registered, NodesAsInFile,
          EdgesAsInFile, EntryAsInFile, FailsOnlyIfIncomplete, Reading, StringsInNames, finished,
          nodeRead, overrideRead, nodesOf, edgeDone, edgeOf, readEntry
    <2>2. CASE \E f \in SourceNames : Insert(f)
      BY <2>2, InsertKeeps
    <2>3. CASE \E fmt \in Formats : Write(fmt)
      BY <2>3, WriteKeeps
    <2>4. CASE Read
      BY <2>4, ReadKeeps
    <2>5. CASE \E s \in todo : ReadNode(s)
      BY <2>5, ReadNodeKeeps
    <2>6. CASE \E s \in todo : TakeNode(s)
      BY <2>6, TakeNodeKeeps
    <2>7. CASE \E t \in callees : ReadEdge(t)
      BY <2>7, ReadEdgeKeeps
    <2>8. CASE NodesRead
      BY <2>8, NodesReadKeeps
    <2>9. CASE ReadNodeMetaData
      BY <2>9, ReadNodeMetaDataKeeps
    <2>10. CASE ReadGlobalMetaData
      BY <2>10, ReadGlobalMetaDataKeeps
    <2>11. CASE Continue
      BY <2>11, ContinueKeeps
    <2> QED
      BY <2>1, <2>2, <2>3, <2>4, <2>5, <2>6, <2>7, <2>8, <2>9, <2>10, <2>11 DEF Next
  <1> QED
    BY <1>1, <1>2, PTL DEF Spec

\* Writing and reading fail only for ids of erased nodes in the metadata or, in
\* version 2, for an origin without file properties, whatever the graph.
THEOREM FailsOnlyIfKnown == Spec => []FailsOnlyIfIncomplete
  <1>1. FormatInv => FailsOnlyIfIncomplete
    BY DEF FormatInv
  <1> QED
    BY <1>1, FormatInvariant, PTL

-----------------------------------------------------------------------------
(* What was read is what was written. *)

\* A finished reader: every string has its node, and every node its data.
LEMMA AllRead ==
    ASSUME FormatInv, phase = "done"
    PROVE  LET S == DOMAIN jsonCG.nodes
           IN  /\ Reading /\ IsDocument(jsonCG, cg, files, format) /\ GoodDocument(jsonCG)
               /\ DOMAIN strToNode = S /\ S = strs(cg, useNamesAsIds(format), LiveIds(cg))
               /\ strToNode \in [S -> LiveIds(result)]
               /\ \A s, t \in S : strToNode[s] = strToNode[t] => s = t
               /\ \A id \in LiveIds(result) : \E s \in S : strToNode[s] = id
               /\ Cardinality(S) = result.size /\ result.numErased = 0
               /\ \A s \in S : /\ finished(s) /\ resultFiles[strToNode[s]] = jsonCG.nodes[s].file
                               /\ result.nodes[strToNode[s]] = nodeRead(s)
                               /\ jsonCG.nodes[s].file # Missing
               /\ \A s, t \in S :
                     /\ edgeOf(s, t) \in DOMAIN result.edges <=> t \in DOMAIN jsonCG.nodes[s].callees
                     /\ t \in DOMAIN jsonCG.nodes[s].callees =>
                           result.edges[edgeOf(s, t)]
                              \in edgeMdLeft(jsonCG.nodes[s].callees[t])
               /\ result.entry = readEntry(jsonCG.entry)
  <1> DEFINE S == DOMAIN jsonCG.nodes
  <1>1. Reading
    BY DEF Reading
  <1>2. IsDocument(jsonCG, cg, files, format) /\ GoodDocument(jsonCG)
    BY <1>1, ReaderHasDocument
  <1>3. /\ DOMAIN strToNode = S /\ strToNode \in [S -> LiveIds(result)] /\ todo = {}
        /\ \A s, t \in S : strToNode[s] = strToNode[t] => s = t
        /\ \A id \in LiveIds(result) : \E s \in S : strToNode[s] = id
        /\ Cardinality(S) = result.size /\ result.numErased = 0
    BY <1>1 DEF FormatInv, Registered, Loops
  <1>4. S = strs(cg, useNamesAsIds(format), LiveIds(cg))
    BY <1>2 DEF IsDocument
  <1>5. \A s : finished(s)
    BY <1>3 DEF finished
  <1>6. \A s \in S : /\ resultFiles[strToNode[s]] = jsonCG.nodes[s].file
                     /\ result.nodes[strToNode[s]] = nodeRead(s)
    BY <1>1, <1>3, <1>5 DEF FormatInv, NodesAsInFile
  <1>7. \A s \in S : jsonCG.nodes[s].file # Missing
    <2>1. \A s \in S : resultFiles[strToNode[s]] \in FileProperties
      BY <1>3 DEF FormatInv, Types, LiveIds
    <2> QED
      BY <1>6, <2>1, MissingAssumption
  <1>8. \A s, t : edgeDone(s, t) <=> t \in DOMAIN jsonCG.nodes[s].callees
    BY <1>3 DEF edgeDone
  <1>9. \A s, t \in S :
           /\ edgeOf(s, t) \in DOMAIN result.edges <=> t \in DOMAIN jsonCG.nodes[s].callees
           /\ t \in DOMAIN jsonCG.nodes[s].callees =>
                 result.edges[edgeOf(s, t)] \in edgeMdLeft(jsonCG.nodes[s].callees[t])
    BY <1>1, <1>3, <1>8 DEF FormatInv, EdgesAsInFile
  <1>10. result.entry = readEntry(jsonCG.entry)
    BY <1>1 DEF FormatInv, EntryAsInFile
  <1> QED
    BY <1>1, <1>2, <1>3, <1>4, <1>5, <1>6, <1>7, <1>9, <1>10

\* Without a disambiguated name in use every node has its own string.
LEMMA OwnStrings ==
    ASSUME FormatInv, ~ (useNamesAsIds(format) /\ SuffixInUse)
    PROVE  \A i, j \in LiveIds(cg) : Str(i) = Str(j) => i = j
  <1> DEFINE b == useNamesAsIds(format)
  <1>1. b \in BOOLEAN /\ WellFormed(cg)
    BY DEF useNamesAsIds, FormatInv, Types
  <1>2. b => \A id \in LiveIds(cg), f \in Names :
               Front(cg.nodes[id].name) = f => ~ (Len(cg.nameIdMap[f]) > 1)
    BY DEF SuffixInUse
  <1> HIDE DEF b
  <1>3. \A i, j \in LiveIds(cg) : convertToStr(cg, b, i) = convertToStr(cg, b, j) => i = j
    BY <1>1, <1>2, StringsDistinct
  <1> QED
    BY <1>3 DEF Str, b

LEMMA SameGraphHolds ==
    ASSUME FormatInv
    PROVE  SameGraph
  <1> SUFFICES ASSUME phase = "done", ~ (useNamesAsIds(format) /\ SuffixInUse)
               PROVE  /\ \A id \in LiveIds(cg) : /\ result.nodes[image(id)] = imageNode(id)
                                                 /\ resultFiles[image(id)] = files[id]
                      /\ images(LiveIds(cg)) = LiveIds(result)
                      /\ Cardinality(LiveIds(cg)) = getNodeCount(result)
                      /\ DOMAIN result.edges = {<<image(e[1]), image(e[2])>> : e \in DOMAIN cg.edges}
                      /\ \A e \in DOMAIN cg.edges :
                            result.edges[<<image(e[1]), image(e[2])>>]
                              \in edgeMdLeft(IF format = "V2" THEN {} ELSE cg.edges[e])
                      /\ result.entry = CASE format = "V2" -> Null
                                          [] format # "V2" /\ cg.entry \in Ids -> image(cg.entry)
                                          [] OTHER         -> cg.entry
    BY DEF SameGraph
  <1> DEFINE b == useNamesAsIds(format)
             S == DOMAIN jsonCG.nodes
             L == LiveIds(cg)
  <1>1. /\ IsDocument(jsonCG, cg, files, format) /\ GoodDocument(jsonCG)
        /\ DOMAIN strToNode = S /\ S = strs(cg, b, L) /\ strToNode \in [S -> LiveIds(result)]
        /\ \A id \in LiveIds(result) : \E s \in S : strToNode[s] = id
        /\ Cardinality(S) = result.size /\ result.numErased = 0
        /\ \A s \in S : /\ finished(s) /\ resultFiles[strToNode[s]] = jsonCG.nodes[s].file
                        /\ result.nodes[strToNode[s]] = nodeRead(s)
                        /\ jsonCG.nodes[s].file # Missing
    BY AllRead
  <1>2. /\ \A s, t \in S :
              /\ edgeOf(s, t) \in DOMAIN result.edges <=> t \in DOMAIN jsonCG.nodes[s].callees
              /\ t \in DOMAIN jsonCG.nodes[s].callees =>
                    result.edges[edgeOf(s, t)] \in edgeMdLeft(jsonCG.nodes[s].callees[t])
        /\ result.entry = readEntry(jsonCG.entry)
    BY AllRead
  <1>3. WellFormed(cg) /\ ~ Stale(cg) /\ WellFormed(result) /\ files \in [Ids -> FileProperties]
    BY DEF FormatInv, Types, FileOfGraph, Reading
  <1>4. \A i, j \in L : Str(i) = Str(j) => i = j
    BY OwnStrings
  <1>5. \A id \in L : Str(id) \in S
    BY <1>1 DEF strs, Str
  <1>6. \A s \in S : \E id \in L : Str(id) = s
    BY <1>1 DEF strs, Str
  <1>7. \A id \in L : nodeOf(cg, b, Str(id)) = id
    <2> SUFFICES ASSUME NEW id \in L PROVE nodeOf(cg, b, Str(id)) = id
      OBVIOUS
    <2>1. Str(id) \in strs(cg, b, L)
      BY <1>1, <1>5
    <2> DEFINE i == nodeOf(cg, b, Str(id))
    <2>2. i \in L /\ convertToStr(cg, b, i) = Str(id)
      <3> HIDE DEF b
      <3> QED
        BY <2>1, NodeOfString
    <2> QED
      BY <1>4, <2>2 DEF Str
  <1>8. \A id \in L :
           LET n == cg.nodes[id]
               m == jsonCG.nodes[Str(id)]
           IN  /\ m.functionName = IF format = "V2" THEN Str(id) ELSE n.name
               /\ m.origin = n.origin /\ m.hasBody = n.hasBody
               /\ m.override = jOverride(cg, b, n.override)
               /\ m.file = IF format = "V2" /\ files[id] = Null /\ n.origin # NoOrigin
                           THEN Missing ELSE files[id]
               /\ DOMAIN m.callees = calleesOf(cg, b, Str(id))
               /\ \A t \in DOMAIN m.callees :
                     m.callees[t] = IF format = "V2" THEN {} ELSE jEdges(cg, b, Str(id))[t]
    BY <1>1, <1>5, <1>7 DEF IsDocument
  <1>9. \A id \in L : resultFiles[image(id)] = files[id]
    BY <1>1, <1>5, <1>8 DEF image
  <1>10. \A T : nodesOf(strs(cg, b, T)) = images(T)
    BY DEF nodesOf, strs, images, image, Str
  <1>11. ASSUME NEW id \in L PROVE result.nodes[image(id)] = imageNode(id)
    <2> DEFINE n  == cg.nodes[id]
               md == IF n.override = Null THEN Null
                     ELSE [overrides |-> images(n.override.overrides),
                           overriddenBy |-> images(n.override.overriddenBy)]
    <2>1. n \in Node
      BY <1>3, NamedNode
    <2>2. overrideRead(jOverride(cg, b, n.override)) = md
      <3>1. jOverride(cg, b, n.override) \in JOverride(S) \cup {Null} /\ Null \notin JOverride(S)
        <4>1. b \in BOOLEAN
          BY DEF useNamesAsIds
        <4> HIDE DEF b
        <4> QED
          BY <1>1, <1>3, <4>1, WrittenStrings
      <3>2. CASE n.override = Null
        BY <3>2 DEF jOverride, overrideRead
      <3>3. CASE n.override # Null
        <4> DEFINE jo == jOverride(cg, b, n.override)
        <4>1. jo = [overrides |-> strs(cg, b, n.override.overrides),
                    overriddenBy |-> strs(cg, b, n.override.overriddenBy)]
          BY <3>3 DEF jOverride
        <4>2. jo # Null
          <5>1. n.override \in OverrideMD
            BY <2>1, <3>3 DEF Node
          <5>2. n.override.overrides \subseteq L /\ n.override.overriddenBy \subseteq L
            BY <1>3, <3>3 DEF Stale
          <5>3. strs(cg, b, n.override.overrides) \subseteq S /\ strs(cg, b, n.override.overriddenBy) \subseteq S
            BY <1>1, <5>2 DEF strs
          <5>4. jo \in JOverride(S)
            BY <4>1, <5>3 DEF JOverride
          <5> QED
            BY <3>1, <5>4
        <4>3. jo.overrides = strs(cg, b, n.override.overrides)
              /\ jo.overriddenBy = strs(cg, b, n.override.overriddenBy)
          BY <4>1
        <4> HIDE DEF jo
        <4>4. overrideRead(jo) = md
          BY <1>10, <3>3, <4>2, <4>3 DEF overrideRead
        <4> QED
          BY <4>4 DEF jo
      <3> QED
        BY <3>2, <3>3
    <2>3. nodeRead(Str(id)) = [name |-> IF format = "V2" THEN Str(id) ELSE n.name,
                               origin |-> n.origin, hasBody |-> n.hasBody, override |-> md]
      BY <1>1, <1>5, <1>8, <2>2 DEF nodeRead
    <2>4. imageNode(id) = [name |-> IF format = "V2" THEN Str(id) ELSE n.name,
                           origin |-> n.origin, hasBody |-> n.hasBody, override |-> md]
      <3>1. imageNode(id) = [n EXCEPT !.name = IF format = "V2" THEN Str(id) ELSE n.name,
                                      !.override = md]
        BY DEF imageNode
      <3> HIDE DEF md
      <3> QED
        BY <2>1, <3>1 DEF Node
    <2> QED
      BY <1>1, <1>5, <2>3, <2>4 DEF image
  <1>12. images(L) = LiveIds(result)
    BY <1>1, <1>5, <1>6 DEF images, image
  <1>13. Cardinality(L) = getNodeCount(result)
    <2>1. Cardinality(S) = Cardinality(L)
      <3>1. \A i, j \in L : convertToStr(cg, b, i) = convertToStr(cg, b, j) => i = j
        BY <1>4 DEF Str
      <3> HIDE DEF b
      <3> QED
        BY <1>1, <3>1, StringsFinite
    <2>2. result.size \in Nat
      BY <1>3, MaxSizeAssumption DEF WellFormed, GraphType
    <2> QED
      BY <1>1, <2>1, <2>2 DEF getNodeCount
  <1>14. \A e \in DOMAIN cg.edges : e[1] \in L /\ e[2] \in L /\ e = <<e[1], e[2]>>
    BY <1>3 DEF WellFormed, GraphType, LiveEdges, LiveIds
  <1>15. ASSUME NEW e \in DOMAIN cg.edges
         PROVE  /\ Str(e[1]) \in S /\ Str(e[2]) \in S
                /\ Str(e[2]) \in DOMAIN jsonCG.nodes[Str(e[1])].callees
                /\ edgeOf(Str(e[1]), Str(e[2])) = <<image(e[1]), image(e[2])>>
    <2>1. Str(e[2]) \in calleesOf(cg, b, Str(e[1]))
      BY DEF calleesOf, Str
    <2> QED
      BY <1>5, <1>8, <1>14, <2>1 DEF edgeOf, image
  <1>16. DOMAIN result.edges = {<<image(e[1]), image(e[2])>> : e \in DOMAIN cg.edges}
    <2>1. ASSUME NEW e \in DOMAIN cg.edges PROVE <<image(e[1]), image(e[2])>> \in DOMAIN result.edges
      <3>1. edgeOf(Str(e[1]), Str(e[2])) \in DOMAIN result.edges
        BY <1>2, <1>15
      <3> QED
        BY <1>15, <3>1
    <2>2. ASSUME NEW d \in DOMAIN result.edges
          PROVE  \E e \in DOMAIN cg.edges : d = <<image(e[1]), image(e[2])>>
      <3>1. PICK s, t \in S : d = edgeOf(s, t)
        BY <1>1, EdgeEnds DEF Reading
      <3>2. PICK id \in L : Str(id) = s
        BY <1>6
      <3>3. t \in calleesOf(cg, b, s)
        BY <1>2, <1>8, <3>1, <3>2
      <3>4. PICK e \in DOMAIN cg.edges : Str(e[1]) = s /\ Str(e[2]) = t
        BY <3>3 DEF calleesOf, Str
      <3> QED
        BY <1>15, <3>1, <3>4
    <2> QED
      BY <2>1, <2>2
  <1>17. ASSUME NEW e \in DOMAIN cg.edges
         PROVE  result.edges[<<image(e[1]), image(e[2])>>]
                  \in edgeMdLeft(IF format = "V2" THEN {} ELSE cg.edges[e])
    <2> DEFINE s == Str(e[1])
               t == Str(e[2])
    <2>1. result.edges[edgeOf(s, t)] \in edgeMdLeft(jsonCG.nodes[s].callees[t])
      BY <1>2, <1>15
    <2>2. jsonCG.nodes[s].callees[t] = IF format = "V2" THEN {} ELSE jEdges(cg, b, s)[t]
      BY <1>8, <1>14, <1>15
    <2>3. jEdges(cg, b, s)[t] = cg.edges[e]
      <3> DEFINE E == {d \in DOMAIN cg.edges : convertToStr(cg, b, d[1]) = s}
                 d0 == CHOOSE d \in E : convertToStr(cg, b, d[2]) = t
      <3>1. e \in E /\ convertToStr(cg, b, e[2]) = t
        BY DEF Str
      <3>2. d0 \in E /\ convertToStr(cg, b, d0[2]) = t
        BY <3>1
      <3> HIDE DEF d0
      <3>3. d0[1] = e[1] /\ d0[2] = e[2]
        <4>1. d0 \in DOMAIN cg.edges /\ Str(d0[1]) = Str(e[1]) /\ Str(d0[2]) = Str(e[2])
          BY <3>2 DEF Str
        <4> QED
          BY <1>4, <1>14, <4>1
      <3>4. d0 = e
        <4>1. d0 = <<d0[1], d0[2]>> /\ e = <<e[1], e[2]>>
          BY <1>14, <3>2
        <4> QED
          BY <3>3, <4>1
      <3>5. jEdges(cg, b, s)[t] = cg.edges[d0]
        BY <3>1 DEF jEdges, d0
      <3> QED
        BY <3>4, <3>5
    <2> QED
      BY <1>15, <2>1, <2>2, <2>3
  <1>18. result.entry = CASE format = "V2" -> Null
                          [] format # "V2" /\ cg.entry \in Ids -> image(cg.entry)
                          [] OTHER         -> cg.entry
    <2>1. jsonCG.entry = IF format = "V2" THEN Null
                         ELSE IF cg.entry \in Ids THEN Str(cg.entry) ELSE cg.entry
      BY <1>1 DEF IsDocument, Str
    <2>2. Null \notin S /\ NoId \notin S /\ cg.entry \in Ids \cup {Null, NoId} /\ NoId # Null
      BY <1>1, <1>3, NoIdAssumption DEF GoodDocument, WellFormed, GraphType
    <2>3. cg.entry \in Ids => cg.entry \in L
      BY <1>3 DEF Stale
    <2> QED
      BY <1>1, <1>2, <1>5, <2>1, <2>2, <2>3 DEF readEntry, image
  <1> QED
    BY <1>9, <1>11, <1>12, <1>13, <1>16, <1>17, <1>18

\* Version 2 files that agree on what version 2 keeps are the same.
LEMMA SameDowngrade ==
    ASSUME NEW d, NEW e, DOMAIN d.nodes = DOMAIN e.nodes,
           \A s \in DOMAIN d.nodes :
              /\ e.nodes[s].hasBody = d.nodes[s].hasBody /\ e.nodes[s].origin = d.nodes[s].origin
              /\ DOMAIN e.nodes[s].callees = DOMAIN d.nodes[s].callees
              /\ e.nodes[s].override = d.nodes[s].override /\ e.nodes[s].file = d.nodes[s].file
    PROVE  downgradeV4FormatToV2Format(e) = downgradeV4FormatToV2Format(d)
  <1> DEFINE ov(n) == IF n.override = Null THEN [overrides |-> {}, overriddenBy |-> {}]
                      ELSE n.override
             v(f) == [s \in DOMAIN f.nodes |->
                        [hasBody |-> f.nodes[s].hasBody, callees |-> DOMAIN f.nodes[s].callees,
                         callers |-> {r \in DOMAIN f.nodes : s \in DOMAIN f.nodes[r].callees},
                         isVirtual |-> f.nodes[s].override # Null,
                         overrides |-> ov(f.nodes[s]).overrides,
                         overriddenBy |-> ov(f.nodes[s]).overriddenBy,
                         file |-> fileV2(f.nodes[s])]]
  <1>1. downgradeV4FormatToV2Format(e) = v(e) /\ downgradeV4FormatToV2Format(d) = v(d)
    BY Zenon DEF downgradeV4FormatToV2Format
  <1>2. \A s \in DOMAIN d.nodes : ov(e.nodes[s]) = ov(d.nodes[s])
    OBVIOUS
  <1>3. \A s \in DOMAIN d.nodes : fileV2(e.nodes[s]) = fileV2(d.nodes[s])
    BY DEF fileV2
  <1>4. \A s : {r \in DOMAIN e.nodes : s \in DOMAIN e.nodes[r].callees}
                 = {r \in DOMAIN d.nodes : s \in DOMAIN d.nodes[r].callees}
    OBVIOUS
  <1> HIDE DEF ov
  <1>5. v(e) = v(d)
    BY <1>2, <1>3, <1>4
  <1> HIDE DEF v
  <1> QED
    BY <1>1, <1>5

LEMMA SameFileHolds ==
    ASSUME FormatInv
    PROVE  SameFileAgain
  <1> SUFFICES ASSUME phase = "done", format = "V2"
               PROVE  write(result, resultFiles, "V2") = doc
    BY DEF SameFileAgain
  <1> DEFINE b  == useNamesAsIds("V2")
             S  == DOMAIN jsonCG.nodes
             d1 == writeV4(cg, files, b)
             d2 == writeV4(result, resultFiles, b)
  <1>1. /\ IsDocument(jsonCG, cg, files, format) /\ GoodDocument(jsonCG)
        /\ DOMAIN strToNode = S /\ S = strs(cg, b, LiveIds(cg)) /\ strToNode \in [S -> LiveIds(result)]
        /\ \A s, t \in S : strToNode[s] = strToNode[t] => s = t
        /\ \A id \in LiveIds(result) : \E s \in S : strToNode[s] = id
        /\ \A s \in S : /\ finished(s) /\ resultFiles[strToNode[s]] = jsonCG.nodes[s].file
                        /\ result.nodes[strToNode[s]] = nodeRead(s)
                        /\ jsonCG.nodes[s].file # Missing
    BY AllRead
  <1>2. \A s, t \in S : edgeOf(s, t) \in DOMAIN result.edges <=> t \in DOMAIN jsonCG.nodes[s].callees
    BY AllRead
  <1>3. WellFormed(result) /\ doc = write(cg, files, "V2")
    BY DEF FormatInv, Types, FileOfGraph, Reading
  <1>4. \A s \in S : jsonCG.nodes[s].functionName = s
    BY <1>1 DEF IsDocument
  <1>5. b \in BOOLEAN /\ b = TRUE
    BY DEF useNamesAsIds
  <1>6. ASSUME NEW s \in S PROVE result.nodes[strToNode[s]].name = s
    <2>1. nodeRead(s).name = jsonCG.nodes[s].functionName
      BY DEF nodeRead
    <2>2. result.nodes[strToNode[s]] = nodeRead(s)
      BY <1>1
    <2> QED
      BY <1>4, <2>1, <2>2
  \* The names of the nodes that were read are distinct, so they are their strings.
  <1>7. ASSUME NEW s \in S PROVE convertToStr(result, b, strToNode[s]) = s
    <2> DEFINE id   == strToNode[s]
               list == result.nameIdMap[s]
    <2>1. id \in LiveIds(result) /\ result.nodes[id].name = s /\ s \in Names
      BY <1>1, <1>4, <1>6 DEF GoodDocument, GoodNode
    <2>2. /\ list \in Seq(Ids) /\ ToSet(list) = {i \in LiveIds(result) : result.nodes[i].name = s}
          /\ \A j, k \in DOMAIN list : j < k => list[j] < list[k]
      BY <1>3, <2>1 DEF WellFormed, GraphType, NameIndex
    <2>3. \A i \in ToSet(list) : i = id
      BY <1>1, <1>6, <2>2
    <2> HIDE DEF list
    <2>4. ~ (Len(list) > 1)
      <3> SUFFICES ASSUME Len(list) > 1 PROVE FALSE
        OBVIOUS
      <3>1. 1 \in DOMAIN list /\ 2 \in DOMAIN list
        BY <2>2
      <3>2. list[1] \in ToSet(list) /\ list[2] \in ToSet(list)
        BY <3>1 DEF ToSet
      <3>3. list[1] = list[2]
        BY <2>3, <3>2
      <3>4. list[1] < list[2]
        BY <2>2, <3>1
      <3>5. list[1] \in Nat
        BY <2>1, <2>3, <3>2, IdsFinite DEF LiveIds
      <3> QED
        BY <3>3, <3>4, <3>5
    <2>5. convertToStr(result, b, id) = result.nodes[id].name
      BY <1>5, <2>1, <2>4 DEF convertToStr, list
    <2> QED
      BY <2>1, <2>5
  <1>8. /\ DOMAIN d1.nodes = S
        /\ \A s \in S :
              LET n == cg.nodes[nodeOf(cg, b, s)]
                  m == d1.nodes[s]
              IN  /\ m.origin = n.origin /\ m.hasBody = n.hasBody
                  /\ m.override = jOverride(cg, b, n.override) /\ m.file = files[nodeOf(cg, b, s)]
                  /\ DOMAIN m.callees = calleesOf(cg, b, s)
    <2> HIDE DEF b
    <2> QED
      BY <1>1, WrittenV4
  <1>9. /\ DOMAIN d2.nodes = strs(result, b, LiveIds(result))
        /\ \A s \in DOMAIN d2.nodes :
              LET n == result.nodes[nodeOf(result, b, s)]
                  m == d2.nodes[s]
              IN  /\ m.origin = n.origin /\ m.hasBody = n.hasBody
                  /\ m.override = jOverride(result, b, n.override)
                  /\ m.file = resultFiles[nodeOf(result, b, s)]
                  /\ DOMAIN m.callees = calleesOf(result, b, s)
    <2> HIDE DEF b
    <2> QED
      BY WrittenV4
  <1>10. strs(result, b, LiveIds(result)) = S
    BY <1>1, <1>7 DEF strs
  <1> HIDE DEF d1, d2
  <1>11. ASSUME NEW s \in S PROVE nodeOf(result, b, s) = strToNode[s]
    <2> DEFINE i == nodeOf(result, b, s)
    <2>1. i \in LiveIds(result) /\ convertToStr(result, b, i) = s
      <3> HIDE DEF b
      <3> QED
        BY <1>10, NodeOfString
    <2>2. PICK t \in S : strToNode[t] = i
      BY <1>1, <2>1
    <2> QED
      BY <1>7, <2>1, <2>2
  <1>12. ASSUME NEW s \in S PROVE calleesOf(result, b, s) = DOMAIN jsonCG.nodes[s].callees
    <2>0. DOMAIN jsonCG.nodes[s].callees \subseteq S
      BY <1>1 DEF GoodDocument, GoodNode
    <2>1. ASSUME NEW t \in DOMAIN jsonCG.nodes[s].callees PROVE t \in calleesOf(result, b, s)
      <3>1. t \in S /\ edgeOf(s, t) \in DOMAIN result.edges
        BY <1>2, <2>0, <2>1
      <3>2. convertToStr(result, b, strToNode[s]) = s /\ convertToStr(result, b, strToNode[t]) = t
        BY <1>7, <3>1
      <3> DEFINE e == edgeOf(s, t)
      <3>3. e \in DOMAIN result.edges /\ e[1] = strToNode[s] /\ e[2] = strToNode[t]
        BY <3>1 DEF edgeOf
      <3> HIDE DEF e, b
      <3> QED
        BY <3>2, <3>3 DEF calleesOf
    <2>2. ASSUME NEW t \in calleesOf(result, b, s) PROVE t \in DOMAIN jsonCG.nodes[s].callees
      <3>1. PICK e \in DOMAIN result.edges :
               convertToStr(result, b, e[1]) = s /\ convertToStr(result, b, e[2]) = t
        BY DEF calleesOf
      <3>2. PICK u, w \in S : e = edgeOf(u, w)
        BY <1>1, EdgeEnds DEF Reading
      <3>3. u = s /\ w = t
        BY <1>7, <3>1, <3>2 DEF edgeOf
      <3> QED
        BY <1>2, <3>2, <3>3
    <2> QED
      BY <2>1, <2>2
  <1>13. ASSUME NEW s \in S
         PROVE  jOverride(result, b, overrideRead(jsonCG.nodes[s].override)) = jsonCG.nodes[s].override
    <2> DEFINE md == jsonCG.nodes[s].override
    <2>1. md \in JOverride(S) \cup {Null}
      BY <1>1 DEF GoodDocument, GoodNode
    <2>2. CASE md = Null
      BY <2>2 DEF jOverride, overrideRead
    <2>3. CASE md # Null
      <3>1. /\ md = [overrides |-> md.overrides, overriddenBy |-> md.overriddenBy]
            /\ md.overrides \subseteq S /\ md.overriddenBy \subseteq S
        BY <2>1, <2>3 DEF JOverride
      <3>2. \A T \in SUBSET S : strs(result, b, nodesOf(T)) = T
        BY <1>7 DEF strs, nodesOf
      <3>3. overrideRead(md) = [overrides |-> nodesOf(md.overrides), overriddenBy |-> nodesOf(md.overriddenBy)]
        BY <2>3 DEF overrideRead
      <3>4. overrideRead(md) # Null
        <4>1. nodesOf(md.overrides) \subseteq Ids /\ nodesOf(md.overriddenBy) \subseteq Ids
          BY <1>1, <3>1 DEF nodesOf, LiveIds
        <4>2. overrideRead(md) \in OverrideMD
          BY <3>3, <4>1 DEF OverrideMD
        <4> QED
          BY <4>2, NullIsNoObjectAssumption
      <3> DEFINE o == overrideRead(md)
      <3>5. o # Null /\ o.overrides = nodesOf(md.overrides) /\ o.overriddenBy = nodesOf(md.overriddenBy)
        BY <3>3, <3>4
      <3> HIDE DEF o, md
      <3>6. jOverride(result, b, o) = [overrides |-> strs(result, b, nodesOf(md.overrides)),
                                       overriddenBy |-> strs(result, b, nodesOf(md.overriddenBy))]
        BY <3>5 DEF jOverride
      <3>7. jOverride(result, b, o) = md
        BY <3>1, <3>2, <3>6
      <3> QED
        BY <3>7 DEF o, md
    <2> QED
      BY <2>2, <2>3
  <1>14. ASSUME NEW s \in S
         PROVE  /\ d2.nodes[s].hasBody = d1.nodes[s].hasBody /\ d2.nodes[s].origin = d1.nodes[s].origin
                /\ DOMAIN d2.nodes[s].callees = DOMAIN d1.nodes[s].callees
                /\ d2.nodes[s].override = d1.nodes[s].override /\ d2.nodes[s].file = d1.nodes[s].file
    <2> DEFINE j  == jsonCG.nodes[s]
               m1 == d1.nodes[s]
               m2 == d2.nodes[s]
    <2>1. /\ j.origin = m1.origin /\ j.hasBody = m1.hasBody /\ j.override = m1.override
          /\ j.file = m1.file /\ DOMAIN j.callees = DOMAIN m1.callees
      BY <1>1, <1>8 DEF IsDocument
    <2>2. /\ m2.origin = nodeRead(s).origin /\ m2.hasBody = nodeRead(s).hasBody
          /\ m2.override = jOverride(result, b, nodeRead(s).override)
          /\ m2.file = j.file /\ DOMAIN m2.callees = calleesOf(result, b, s)
      BY <1>1, <1>9, <1>10, <1>11
    <2>3. /\ nodeRead(s).origin = j.origin /\ nodeRead(s).hasBody = j.hasBody
          /\ nodeRead(s).override = overrideRead(j.override)
      BY <1>1 DEF nodeRead
    <2> HIDE DEF j, m1, m2
    <2>4. m2.override = j.override
      BY <1>13, <2>2, <2>3 DEF j
    <2>5. DOMAIN m2.callees = DOMAIN j.callees
      BY <1>12, <2>2 DEF j
    <2>6. /\ m2.hasBody = m1.hasBody /\ m2.origin = m1.origin /\ DOMAIN m2.callees = DOMAIN m1.callees
          /\ m2.override = m1.override /\ m2.file = m1.file
      BY <2>1, <2>2, <2>3, <2>4, <2>5
    <2> QED
      BY <2>6 DEF m1, m2
  <1>15. downgradeV4FormatToV2Format(d2) = downgradeV4FormatToV2Format(d1)
    BY <1>8, <1>9, <1>10, <1>14, SameDowngrade
  <1>16. /\ write(result, resultFiles, "V2") = downgradeV4FormatToV2Format(d2)
         /\ write(cg, files, "V2") = downgradeV4FormatToV2Format(d1)
    BY DEF write, d1, d2
  <1> QED
    BY <1>3, <1>15, <1>16

\* Reading a file that was written gives the same graph up to ids and up to the
\* metadata of edges, of which one kind at most is left and under the base
\* class, in whatever order the nodes are read, and a version 2 file survives
\* being read and written again: for every graph and any number of conversions.
THEOREM RoundTripAlways == Spec => []RoundTrip
  <1>1. FormatInv => RoundTrip
    BY SameGraphHolds, SameFileHolds DEF RoundTrip
  <1> QED
    BY <1>1, FormatInvariant, PTL
=============================================================================
