----------------------------- MODULE Collector -----------------------------
(***************************************************************************)
(* CGCollector and CGMerge.  CGCollector runs once per translation unit:   *)
(* it builds the call graph of the unit, relates the objects of the unit   *)
(* by the alias analysis, computes metadata and writes a file.  CGMerge    *)
(* then reads the files, in the order they are given, into the graph of    *)
(* the whole program.                                                      *)
(*                                                                         *)
(* What is left to do of a list, and the pairs of objects and the calls    *)
(* that are found on the way, are sets that are worked off in any order:   *)
(* the code goes by the order of the source and of the names of objects,   *)
(* which may be any.  The order of its recursion is kept: pairs come       *)
(* before calls, calls before the next item.                               *)
(***************************************************************************)
EXTENDS AliasAnalysis, CallGraphBuilder, MetaCollectors, CGMerge

CONSTANT Programs  \* each is [units, aa, classic, infer, unused, version]

VARIABLES
    program,
    pc,         \* what is done
    at,         \* the unit, or the file, that it is done with
    list,       \* the list of calculatePERelation,
    todo,       \* the items left of it,
    merges,     \* the pairs of objects and
    calls,      \* the calls that are found and not yet handled,
    resolved,   \* the Cache of mergeFunctionCall
    data,       \* the equivalence classes, of the unit or of the whole program
    graph,      \* the call graph of the unit
    files,      \* the files written
    left,       \* the files that are not merged yet,
    names,      \* the nodes left of the one that is
    nodes, functions, hasLoopInfo  \* wholeCG, functionInfoMap and hasLoopInfo of CGMerge

relation == <<list, todo, merges, calls, resolved, data>>
whole == <<left, names, nodes, functions, hasLoopInfo>>
vars == <<program, pc, at, relation, graph, files, whole>>

Unit == program.units[at]

HasAAInfo == program.aa /\ program.version = 2

-----------------------------------------------------------------------------
(* The file of a unit *)

Names(unit, fs) == UNION {getMangledName(unit, f) : f \in fs}

\* The metadata of f in a file; version 1 has only the number of statements.
MetaInFile(m) ==
    IF program.version = 1 THEN [numStatements |-> m.numStatements]
    ELSE [m EXCEPT !.loopCallDepth = [n \in Names(Unit, DOMAIN @) |-> @[n[1]]]]

FileMeta(f) == MetaInFile(Meta(Unit, graph.called, FunctionNamed(Unit, f)))

\* Only the classic construction looks at what methods override.
OverridesOf(f) == IF program.classic THEN FunctionNamed(Unit, f).overrides ELSE {}

convertCallGraphToJSON ==
    [n \in Names(Unit, graph.nodes) |->
       LET f == n[1]
       IN [callees |-> Names(Unit, {e[2] : e \in {e \in graph.edges : e[1] = f}}),
           callers |-> Names(Unit, {e[1] : e \in {e \in graph.edges : e[2] = f}}),
           overrides |-> Names(Unit, OverridesOf(f)),
           overriddenBy |-> Names(Unit, {g \in graph.nodes : f \in OverridesOf(g)}),
           isVirtual |-> FunctionNamed(Unit, f).kind = "virtual" \/ OverridesOf(f) # {},
           doesOverride |-> OverridesOf(f) # {},
           hasBody |-> HasBody(Unit, f),
           meta |-> FileMeta(f)]]

CallDepths(cg) ==
    [n \in DOMAIN cg |-> cg[n].meta.loopCallDepth @@ [c \in cg[n].callees |-> 0]]

WithGlobalDepths(cg, onlyMain) ==
    LET depths == calculateGlobalCallDepth(CallDepths(cg), [n \in DOMAIN cg |-> cg[n].meta.loopDepth], onlyMain)
    IN [n \in DOMAIN cg |->
          [cg[n] EXCEPT !.meta = ("globalLoopDepth" :> depths[n]) @@ @]]

-----------------------------------------------------------------------------
Init ==
    /\ program \in Programs
    /\ pc = "collect" /\ at = 1
    /\ list = 1 /\ todo = {} /\ merges = {} /\ calls = {} /\ resolved = {}
    /\ data = EmptyContainer /\ graph = EmptyGraph
    /\ files = <<>> /\ left = {} /\ names = {}
    /\ nodes = <<>> /\ functions = <<>> /\ hasLoopInfo = FALSE

\* HandleTranslationUnit: the classic construction, and the walk of the alias analysis
HandleTranslationUnit ==
    LET options == [capture |-> CaptureCtorsDtors, infer |-> program.infer, unused |-> program.unused]
        facts == IF program.aa THEN TraverseUnit(Unit) ELSE {}
    IN /\ pc = "collect"
       /\ graph' = IF program.classic THEN TraverseDecl(Unit, options) ELSE EmptyGraph
       /\ data' = Container(Unit, facts)
       /\ list' = 1 /\ todo' = ItemsOf(facts, Lists[1]) /\ resolved' = {}
       /\ pc' = IF program.aa THEN "relate" ELSE "write"
       /\ UNCHANGED <<program, at, merges, calls, files, whole>>

AddCalls(g, edges) ==
    [g EXCEPT !.nodes = @ \cup UNION {{e[1], e[2]} : e \in edges}, !.edges = @ \cup edges]

Settled == merges = {} /\ calls = {}

TakeItem ==
    /\ pc = "relate" /\ Settled
    /\ \E t \in todo :
         /\ todo' = todo \ {t}
         /\ merges' = ItemMerges(data, t)
         /\ graph' = AddCalls(graph, ItemEdges(t))
    /\ UNCHANGED <<program, pc, at, list, calls, resolved, data, files, whole>>

NextList ==
    /\ pc = "relate" /\ Settled /\ todo = {}
    /\ IF list = Len(Lists)
       THEN pc' = "write" /\ UNCHANGED <<list, todo>>
       ELSE list' = list + 1 /\ todo' = ItemsOf(TraverseUnit(Unit), Lists[list + 1]) /\ UNCHANGED pc
    /\ UNCHANGED <<program, at, merges, calls, resolved, data, graph, files, whole>>

\* MUTANT: the calls are looked for although the objects are in one class already.
MergeClasses_Again ==
    /\ \E p \in merges :
         /\ Found(data, p[1]) /\ Found(data, p[2])
         /\ data' = IF Same(data, p[1], p[2]) THEN data ELSE Merged(data, p[1], p[2])
         /\ merges' = (merges \ {p}) \cup Cascade(data, p[1], p[2])
         /\ calls' = IF pc = "classes" THEN calls
                     ELSE calls \cup (GetFunctionsToMerge(data', ClassOf(data', p[1])) \ resolved)
    /\ UNCHANGED <<program, pc, at, list, todo, resolved, graph, files, whole>>

\* merge of two classes.  Both objects must have been collected.  CGMerge looks for calls
\* after all pairs are merged.
MergeClasses ==
    /\ \E p \in merges :
         /\ Found(data, p[1]) /\ Found(data, p[2])
         /\ IF Same(data, p[1], p[2])
            THEN merges' = merges \ {p} /\ UNCHANGED <<data, calls>>
            ELSE /\ data' = Merged(data, p[1], p[2])
                 /\ merges' = (merges \ {p}) \cup Cascade(data, p[1], p[2])
                 /\ calls' = IF pc = "classes" THEN calls
                             ELSE calls \cup (GetFunctionsToMerge(data', ClassOf(data', p[1])) \ resolved)
    /\ UNCHANGED <<program, pc, at, list, todo, resolved, graph, files, whole>>

\* assert(It != Data.FindMap.end())
AssertFails ==
    /\ pc # "aborted"
    /\ \E p \in merges : ~Found(data, p[1]) \/ ~Found(data, p[2])
    /\ pc' = "aborted"
    /\ UNCHANGED <<program, at, relation, graph, files, whole>>

\* mergeFunctionCall of the collector, which handles each call of a function once
ResolveCall ==
    /\ pc = "relate" /\ merges = {}
    /\ \E c \in calls :
         /\ calls' = calls \ {c}
         /\ resolved' = resolved \cup {c}
         /\ merges' = ResolveMerges(data, c[1], c[2])
         /\ graph' = AddCalls(graph, {ResolvedEdge(data, c[1], c[2])})
    /\ UNCHANGED <<program, pc, at, list, todo, data, files, whole>>

\* The file is complete with the metadata; then comes the next unit, or CGMerge.
WriteFile ==
    LET cg == convertCallGraphToJSON
        last == at = Len(program.units)
    IN /\ pc = "write"
       /\ files' = Append(files, [cg |-> IF program.version = 1 THEN cg ELSE WithGlobalDepths(cg, FALSE),
                                  data |-> data])
       /\ pc' = IF last THEN "merge" ELSE "collect"
       /\ at' = IF last THEN at ELSE at + 1
       /\ left' = IF last THEN DOMAIN program.units ELSE {}
       /\ data' = EmptyContainer /\ resolved' = {} /\ graph' = EmptyGraph
       /\ UNCHANGED <<program, list, todo, merges, calls, names, nodes, functions, hasLoopInfo>>

-----------------------------------------------------------------------------
(* CGMerge *)

ReadFile ==
    /\ pc = "merge"
    /\ \E k \in left :
         /\ left' = left \ {k} /\ at' = k
         /\ functions' = buildFromJSON(functions, files[k].cg, program.version)
         /\ names' = DOMAIN files[k].cg
    /\ pc' = "nodes"
    /\ UNCHANGED <<program, relation, graph, files, nodes, hasLoopInfo>>

\* The nodes come in the order of their names.
MergeNode ==
    /\ pc = "nodes"
    /\ \E n \in names :
         LET v == files[at].cg[n]
             c == nodes[n]
             unknown == n \notin DOMAIN nodes
             loops == hasLoopInfo \/ (~unknown /\ Completes(c, v) /\ HasLoopDepth(c))
         IN /\ names' = names \ {n}
            /\ hasLoopInfo' = loops
            /\ nodes' = (n :> IF unknown THEN v ELSE mergeNode(c, v, loops)) @@ nodes
    /\ UNCHANGED <<program, pc, at, relation, graph, files, left, functions>>

MergeFileClasses ==
    LET m == mergeEquivalenceClasses(data, files[at].data)
    IN /\ pc = "nodes" /\ names = {}
       /\ IF HasAAInfo THEN data' = m.data /\ merges' = m.merges /\ pc' = "classes"
          ELSE pc' = "merge" /\ UNCHANGED <<data, merges>>
       /\ UNCHANGED <<program, at, list, todo, calls, resolved, graph, files, whole>>

\* MUTANT: only the classes of the file are looked at, as they are in the file.
CollectCalls_File ==
    /\ pc = "classes" /\ merges = {}
    /\ calls' = UNION {GetFunctionsToMerge(data, e) : e \in files[at].data.classes}
    /\ pc' = "resolve"
    /\ UNCHANGED <<program, at, list, todo, merges, resolved, data, graph, files, whole>>

CollectCalls ==
    /\ pc = "classes" /\ merges = {}
    /\ calls' = UNION {GetFunctionsToMerge(data, e) : e \in data.classes}
    /\ pc' = "resolve"
    /\ UNCHANGED <<program, at, list, todo, merges, resolved, data, graph, files, whole>>

\* mergeFunctionCall of CGMerge.  Json.at throws if the function that calls is no node.
ResolveWholeCall ==
    /\ pc = "resolve" /\ merges = {}
    /\ \E c \in calls :
         LET edge == ResolvedEdge(data, c[1], c[2])
             callers == data.functionInfo[edge[1]].names
             callees == data.functionInfo[edge[2]].names
         IN /\ calls' = calls \ {c}
            /\ merges' = ResolveMerges(data, c[1], c[2])
            /\ IF callers \subseteq DOMAIN nodes
               THEN nodes' = addCallToCallGraph(nodes, callers, callees) /\ UNCHANGED pc
               ELSE pc' = "aborted" /\ UNCHANGED nodes
    /\ UNCHANGED <<program, at, list, todo, resolved, data, graph, files, left, names, functions, hasLoopInfo>>

NextFile ==
    /\ pc = "resolve" /\ Settled
    /\ pc' = "merge"
    /\ UNCHANGED <<program, at, relation, graph, files, whole>>

\* The global loop depth is only computed again if a definition was found for a function
\* that another file declares.
Finish ==
    LET final == attachOverrides(nodes, functions)
    IN /\ pc = "merge" /\ left = {}
       /\ nodes' = IF hasLoopInfo /\ ~HasAAInfo THEN WithGlobalDepths(final, TRUE) ELSE final
       /\ pc' = "done"
       /\ UNCHANGED <<program, at, relation, graph, files, left, names, functions, hasLoopInfo>>

Stopped == pc \in {"done", "aborted"} /\ UNCHANGED vars

Next ==
    \/ HandleTranslationUnit \/ TakeItem \/ NextList \/ MergeClasses \/ AssertFails \/ ResolveCall
    \/ WriteFile \/ ReadFile \/ MergeNode \/ MergeFileClasses \/ CollectCalls \/ ResolveWholeCall
    \/ NextFile \/ Finish \/ Stopped

Spec == Init /\ [][Next]_vars

-----------------------------------------------------------------------------
(* Properties *)

Blocks == {e.objects : e \in data.classes}

\* The classes are disjoint, a class has at most one prefix per member, and what a prefix
\* leads to is an object of the container, in every state of the merging.
ClassesWellFormed ==
    /\ IsPartition(data.classes)
    /\ \A e \in data.classes : \A p, q \in e.prefixes :
         Found(data, p.object) /\ (p.member = q.member => p = q)

\* What the unit says of its objects
UnitGround ==
    LET facts == TraverseUnit(Unit)
        Static == {"direct", "member", "param", "override", "init", "assign", "ctor"}
    IN [pairs |-> UNION {ItemMerges(data, t) : t \in {t \in facts : t[1] \in Static}},
        receivers |-> {<<t[2], t[3]>> : t \in ItemsOf(facts, "this")},
        steps |-> Steps(ObjectsOf(data)),
        alone |-> FALSE]

\* What the files that are merged say of their objects
MergedFiles == {k \in DOMAIN files : k \notin left}

WholeGround ==
    LET classes == UNION {files[k].data.classes : k \in MergedFiles}
    IN [pairs |-> UNION {e.objects \X e.objects : e \in classes}
                  \cup UNION {ParamPairs(files[k[1]].data, files[k[2]].data) : k \in MergedFiles \X MergedFiles},
        receivers |-> {},
        steps |-> UNION {{<<o, p.member, p.object>> : o \in e.objects, p \in e.prefixes} : e \in classes},
        alone |-> TRUE]

\* However the merges are ordered, the relation of a unit is the least one that its source
\* asks for: nothing is missing, and nothing is merged without need.  In whatever order
\* the files come, the relation of the program is the least one that those of the files
\* ask for.
RelationLeast ==
    /\ (pc = "write" /\ program.aa) => Blocks = LeastRelation(data, UnitGround)
    /\ (pc = "merge" /\ HasAAInfo) => Blocks = LeastRelation(data, WholeGround)

\* Once a file is merged, every call of an object that may be a function is an edge to
\* each of the names of the function, from each of the names of its caller.
CallsResolved ==
    (pc \in {"merge", "done"} /\ HasAAInfo) =>
      \A e \in data.classes : \A c \in GetFunctionsToMerge(data, e) :
        \A n \in data.functionInfo[data.callInfo[c[2]].parent].names :
          /\ n \in DOMAIN nodes
          /\ data.functionInfo[data.functionMap[c[1]]].names \subseteq nodes[n].callees

\* The merged files that know n, and those of them in which n calls c
Knowing(n) == {k \in MergedFiles : n \in DOMAIN files[k].cg}
CallsIn(n, c) == {k \in Knowing(n) : c \in files[k].cg[n].callees}

\* Both directions of a call agree, although they come from different files: a function
\* that is called knows who calls it, and who is said to call it does.  CGMerge forgets
\* only a call that no definition makes, of a function that another file knows too: a
\* declared function is taken to call the functions it is given.
CallsMutual ==
    pc \in {"merge", "done"} =>
      \A n \in DOMAIN nodes :
        /\ \A c \in nodes[n].callees : c \in DOMAIN nodes => n \in nodes[c].callers
        /\ \A m \in nodes[n].callers :
             \/ n \in nodes[m].callees
             \/ /\ CallsIn(m, n) # {} /\ CallsIn(m, n) # Knowing(m)
                /\ \A k \in CallsIn(m, n) : ~files[k].cg[m].hasBody

\* The functions that a method overrides are known with those that they override in turn,
\* and know the method, although the relations come from different files (version 1).
OverridesMutual ==
    (pc = "done" /\ program.version = 1) =>
      \A n \in DOMAIN nodes : \A o \in nodes[n].overrides :
        nodes[o].overrides \subseteq nodes[n].overrides /\ n \in nodes[o].overriddenBy

Defining(n) == {k \in MergedFiles : n \in DOMAIN files[k].cg /\ files[k].cg[n].hasBody}

\* Whichever of its files comes first, a function that is defined has the metadata of its
\* definition.
DefinitionMeta ==
    (pc \in {"merge", "done"}) =>
      \A n \in DOMAIN nodes :
        /\ nodes[n].hasBody <=> Defining(n) # {}
        /\ \A k \in Defining(n) :
             LET m == files[k].cg[n].meta
             IN \A field \in DOMAIN m \cap {"numStatements", "numConditionalBranches", "loopDepth", "numOperations"} :
                  nodes[n].meta[field] = m[field]

\* What a function calls, and what that calls, and so on
Reached(n) ==
    LET steps[k \in Nat] ==
          IF k = 0 THEN nodes[n].callees
          ELSE steps[k - 1] \cup UNION {nodes[m].callees : m \in steps[k - 1]}
    IN steps[Cardinality(DOMAIN nodes)]

\* If the depths are computed again, a function that main reaches counts the loops around
\* each of its calls with those of what is called, unless the call is part of a recursion.
DepthsPropagate ==
    (pc = "done" /\ hasLoopInfo /\ ~HasAAInfo) =>
      LET main == <<"main", 1>>
      IN \A n \in {main} \cup Reached(main) : \A c \in nodes[n].callees :
           n \in Reached(c) \cup {c}
           \/ nodes[n].meta.globalLoopDepth >= CallDepths(nodes)[n][c] + nodes[c].meta.globalLoopDepth

Phase ==
    CASE pc = "collect" -> 8 [] pc = "relate" -> 7 [] pc = "write" -> 6 [] pc = "nodes" -> 5
      [] pc = "classes" -> 4 [] pc = "resolve" -> 3 [] pc = "merge" -> 2 [] OTHER -> 1

Rank ==
    <<Len(program.units) - Len(files), Cardinality(left), Phase, Len(Lists) - list,
      Cardinality(names), Cardinality(todo), Cardinality(data.classes), Cardinality(calls),
      Cardinality(merges)>>

\* Both tools come to an end: each step leaves less to do, although a pair that is merged
\* may bring new pairs and new calls, and a call new pairs.  CGMerge has no cache of the
\* calls that it resolved.
StepsProgress ==
    [][\E i \in 1..Len(Rank) : Rank'[i] < Rank[i] /\ \A j \in 1..(i - 1) : Rank'[j] = Rank[j]]_vars
=============================================================================
