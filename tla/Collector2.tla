---------------------------- MODULE Collector2 -----------------------------
(***************************************************************************)
(* CGCollector2 and cgmerge2.  CGCollector2 walks the declarations of each *)
(* translation unit, in their order, into a graph; calls of pointers lead  *)
(* to entities of their own (alias model No) or, if the unit is the whole  *)
(* program, to every function with the signature of the pointer (All).     *)
(* Then it runs the collectors of metadata and writes a file.  cgmerge2    *)
(* reads all files and merges them into the last one, in the order of an   *)
(* unordered set.                                                          *)
(*                                                                         *)
(* Nodes are named by their mangled names; V2 and V4 files are seen by     *)
(* name (MCGFormat is about the formats).  A node is [decl, hasBody,       *)
(* virtual, mightCall, overrides, overriddenBy, meta]; decl is empty for a *)
(* function pointer.  Signatures are compared by their hashes, which are   *)
(* the bitwise or of those of the result and the parameters: a signature   *)
(* is modelled as the set of these types.                                  *)
(***************************************************************************)
EXTENDS MetaCollectors, TLC

\* Each program is [units, options, level, version, implicits, allocators, templates,
\* signature, prototype, byValue].  implicits, allocators and templates are names of
\* functions: generated by the compiler, operators new and delete, and specialisations of
\* function templates.  signature and prototype: the types of a function, and of what a
\* variable, a parameter or (by its id) the callee of a call points to.  byValue: the
\* destructors of the parameters that are passed by value.
CONSTANT Programs

Options == {"capture-ctors-dtors", "capture-new-delete-calls", "capture-implicits",
            "infer-ctors-dtors", "whole-program", "prune", "OverrideMD"}

ASSUME ProgramsAssumption ==
    \A p \in Programs : p.options \subseteq Options /\ p.level \in {"No", "All"} /\ p.version \in {2, 4}

VARIABLES
    program,
    pc,      \* what is done
    at,      \* the unit, or the file, that it is done with
    next,    \* the next declaration of the unit
    graph,   \* newGraph of CGCollector2, the active graph of cgmerge2
    files,   \* the graphs that are written
    left     \* the files that cgmerge2 has not merged yet

vars == <<program, pc, at, next, graph, files, left>>

Unit == program.units[at]
On(option) == option \in program.options
Declarations == UNION {Functions(program.units[k]) : k \in DOMAIN program.units}
KindOf(f) == (CHOOSE d \in Declarations : d.name = f).kind
getMangledNames(f) == {f} \X Variants(KindOf(f))

-----------------------------------------------------------------------------
(* CallGraphNodeGenerator *)

EmptyGraph == [nodes |-> <<>>, edges |-> {}, failed |-> FALSE]

shouldIncludeFunction(f) ==
    /\ f \in program.allocators => On("capture-new-delete-calls")
    /\ KindOf(f) \in {"ctor", "dtor"} => On("capture-ctors-dtors")
    /\ f \in program.implicits => On("capture-implicits")

\* FunctionDecl::hasBody is about all declarations of the function in the unit.
HasBody(f) == \E d \in Functions(Unit) : d.name = f /\ d.hasBody

\* d is a declaration, or a sequence without one
NewNode(ds, hasBody, virtual) ==
    [decl |-> ds, hasBody |-> hasBody, virtual |-> virtual, mightCall |-> {},
     overrides |-> {}, overriddenBy |-> {}, meta |-> <<>>]

addNode(g, d) ==
    LET node == NewNode(<<d>>, HasBody(d.name), d.kind = "virtual")
    IN [g EXCEPT !.nodes =
          [n \in getMangledNames(d.name) |->
             IF n \in DOMAIN g.nodes THEN [node EXCEPT !.mightCall = g.nodes[n].mightCall] ELSE node]
          @@ @]

\* A function that was not visited yet becomes a node on the fly.
addEdge(g, parent, child) ==
    LET known == IF getMangledNames(child) \subseteq DOMAIN g.nodes THEN g
                 ELSE addNode(g, Callee(Unit, next, child))
    IN [known EXCEPT !.edges = @ \cup (getMangledNames(parent) \X getMangledNames(child))]

addEdges(g, parent, children) == FoldSet(LAMBDA c, acc : addEdge(acc, parent, c), g, children)

\* The assertion that the pointer is no node yet.  The pointers that are called are global
\* variables, whose names are not mangled, or members.
addFunctionPointerAsEntity(g, parent, pointer) ==
    IF <<pointer, 1>> \in DOMAIN g.nodes THEN [g EXCEPT !.failed = TRUE]
    ELSE [g EXCEPT !.nodes = (<<pointer, 1>> :> NewNode(<<>>, FALSE, FALSE)) @@ @,
                   !.edges = @ \cup (getMangledNames(parent) \X {<<pointer, 1>>})]

addPointerMetadataFromPrototype(g, parent, signature) ==
    [g EXCEPT !.nodes = [n \in DOMAIN @ |->
       IF n \in getMangledNames(parent) THEN [@[n] EXCEPT !.mightCall = @ \cup {signature}] ELSE @[n]]]

\* CallExpr::getCalleeDecl (external): "" if there is none
RECURSIVE getCalleeDecl(_)
getCalleeDecl(e) ==
    CASE e.op = "ref" -> e.decl [] e.op = "member" -> e.field
      [] e.op = "deref" -> getCalleeDecl(e.sub) [] OTHER -> ""

VisitCallExpr(g, parent, e) ==
    LET pointer == getCalleeDecl(e.callee)
    IN CASE e.direct # "" -> IF shouldIncludeFunction(e.direct) THEN addEdge(g, parent, e.direct) ELSE g
         [] e.direct = "" /\ pointer # "" ->
              IF program.level = "No" THEN addFunctionPointerAsEntity(g, parent, pointer)
              ELSE addPointerMetadataFromPrototype(g, parent, program.prototype[pointer])
         [] e.direct = "" /\ pointer = "" ->
              addPointerMetadataFromPrototype(g, parent, program.prototype[e.id])

\* VisitCXXConstructExpr and VisitCXXDeleteExpr
VisitCaptured(g, parent, f) ==
    IF f # "" /\ On("capture-ctors-dtors") /\ shouldIncludeFunction(f) THEN addEdge(g, parent, f) ELSE g

\* VisitVarDecl and VisitCXXBindTemporaryExpr do not ask whether the destructor is included.
VisitInferred(g, parent, dtors) ==
    IF On("infer-ctors-dtors") THEN addEdges(g, parent, dtors \ {""}) ELSE g

Visit(g, parent, e) ==
    CASE e.op = "call" -> VisitCallExpr(g, parent, e)
      [] e.op = "construct" -> VisitCaptured(g, parent, e.ctor)
      [] e.op = "delete" -> VisitCaptured(g, parent, e.dtor)
      [] e.op \in {"decl", "bind"} -> VisitInferred(g, parent, {e.dtor})
      [] OTHER -> g

VisitCXXDestructorDecl(g, d) ==
    IF d.kind = "dtor" /\ On("infer-ctors-dtors") THEN addEdges(g, d.name, d.subdtors) ELSE g

\* The initialisers of a constructor and the body, if this is the definition
Code(d) ==
    FlattenSeq([i \in DOMAIN d.inits |-> Nodes(d.inits[i].init)]) \o Nodes(block(d.body))

ByValue(f) == IF f \in DOMAIN program.byValue THEN program.byValue[f] ELSE {}

\* The specialisations of a function template are added and not walked.
Traversed(g, d) ==
    LET own == addNode(g, d)
        head == VisitInferred(VisitCXXDestructorDecl(own, d), d.name, ByValue(d.name))
    IN CASE ~shouldIncludeFunction(d.name) -> g
         [] shouldIncludeFunction(d.name) /\ d.name \in program.templates -> own
         [] OTHER -> IF d.hasBody THEN FoldLeft(LAMBDA acc, e : Visit(acc, d.name, e), head, Code(d))
                     ELSE head

-----------------------------------------------------------------------------
(* CallGraphCollectorConsumer *)

Init ==
    /\ program \in Programs
    /\ pc = "start" /\ at = 1 /\ next = 1
    /\ graph = EmptyGraph /\ files = <<>> /\ left = {}

Stop == pc' = "aborted" /\ UNCHANGED <<program, at, next, graph, files, left>>

GlobalTemporaries ==
    \E i \in DOMAIN Unit.globals : \E k \in DOMAIN Nodes(Unit.globals[i]) :
        Nodes(Unit.globals[i])[k].op = "bind"

\* The manager is reset.  A temporary in the initialiser of a global variable is visited
\* although there is no function that its destructor could be called from: assertion.
HandleTranslationUnit ==
    /\ pc = "start"
    /\ graph' = EmptyGraph /\ next' = 1
    /\ pc' = IF On("infer-ctors-dtors") /\ GlobalTemporaries THEN "aborted" ELSE "traverse"
    /\ UNCHANGED <<program, at, files, left>>

TraverseFunctionDecl ==
    /\ pc = "traverse" /\ next <= Len(Unit.functions)
    /\ graph' = Traversed(graph, Unit.functions[next])
    /\ next' = next + 1
    /\ pc' = IF graph'.failed THEN "aborted" ELSE pc
    /\ UNCHANGED <<program, at, files, left>>

PointerParams(d) ==
    {program.prototype[d.params[i].name] : i \in {i \in DOMAIN d.params : d.params[i].type = "fptr"}}

\* A function without a body may call what its parameters point to.
ParametersCalled(g) ==
    [g EXCEPT !.nodes = [n \in DOMAIN @ |->
       IF @[n].hasBody \/ @[n].decl = <<>> THEN @[n]
       ELSE [@[n] EXCEPT !.mightCall = @ \cup PointerParams(g.nodes[n].decl[1])]]]

Overestimated(g) ==
    {e \in (DOMAIN g.nodes) \X (DOMAIN g.nodes) :
       g.nodes[e[2]].decl # <<>> /\ program.signature[e[2][1]] \in g.nodes[e[1]].mightCall}

\* The edges are only added if the unit is the whole program.
addOverestimationEdges ==
    LET g == ParametersCalled(graph)
    IN /\ pc = "traverse" /\ next > Len(Unit.functions)
       /\ graph' = IF program.level = "No" THEN graph
                   ELSE IF On("whole-program") THEN [g EXCEPT !.edges = @ \cup Overestimated(g)] ELSE g
       /\ pc' = "collect"
       /\ UNCHANGED <<program, at, next, files, left>>

-----------------------------------------------------------------------------
(* The collectors.  getBody finds the definition from any declaration, the *)
(* variables of a function are those of the declaration that is asked: if  *)
(* it is not the definition, there are none.                               *)

getBody(d) == block(FunctionNamed(Unit, d.name).body)
Globals == {Unit.globals[i].name : i \in DOMAIN Unit.globals}

NumberOfStatementsCollector(d) == getNumStmtsInStmt(getBody(d))
NumConditionalBranchCollector(d) == getNumConditionalBranchesInStmt(getBody(d))
NumOperationsCollector(d) == getNumOperationsInStmt(Globals, getBody(d))
LoopDepthCollector(d) == getLoopDepthInStmt(getBody(d))
CodeStatisticsCollector(d) ==
    IF ~d.hasBody THEN 0
    ELSE Len(d.params) + Len(SelectSeq(Nodes(block(d.body)), LAMBDA e : e.op = "decl"))

computeForDecl(d) ==
    [numStatements |-> NumberOfStatementsCollector(d),
     numConditionalBranches |-> NumConditionalBranchCollector(d),
     numOperations |-> NumOperationsCollector(d),
     loopDepth |-> LoopDepthCollector(d),
     numVars |-> CodeStatisticsCollector(d)]

OverriddenMethods(node) ==
    IF node.virtual THEN UNION {getMangledNames(o) : o \in node.decl[1].overrides} ELSE {}

\* OverrideCollector: both ends of the relation
WithOverrides(nodes) ==
    [n \in DOMAIN nodes |->
       [nodes[n] EXCEPT !.overrides = OverriddenMethods(nodes[n]),
                        !.overriddenBy = {m \in DOMAIN nodes : n \in OverriddenMethods(nodes[m])}]]

\* OverrideCollector asks every node for its declaration, pointers too: null.
PointersAsked == On("OverrideMD") /\ \E n \in DOMAIN graph.nodes : graph.nodes[n].decl = <<>>

\* The assertion that what a method overrides is exactly one node: names are unique here,
\* so that only a missing node fails it.
OverriddenMissing ==
    /\ On("OverrideMD")
    /\ \E n \in DOMAIN graph.nodes : ~(OverriddenMethods(graph.nodes[n]) \subseteq DOMAIN graph.nodes)

RunCollectors ==
    /\ pc = "collect" /\ ~PointersAsked /\ ~OverriddenMissing
    /\ LET described == [n \in DOMAIN graph.nodes |->
              IF graph.nodes[n].decl = <<>> THEN graph.nodes[n]
              ELSE [graph.nodes[n] EXCEPT !.meta = computeForDecl(graph.nodes[n].decl[1])]]
       IN graph' = [graph EXCEPT !.nodes = IF On("OverrideMD") THEN WithOverrides(described) ELSE described]
    /\ pc' = "write"
    /\ UNCHANGED <<program, at, next, files, left>>

CollectorFails == pc = "collect" /\ (PointersAsked \/ OverriddenMissing) /\ Stop

-----------------------------------------------------------------------------
\* MUTANT: functions that are called are pruned too.
Pruned_Called(g) == {n \in DOMAIN g.nodes : ~g.nodes[n].hasBody}

Pruned(g) == {n \in DOMAIN g.nodes : ~g.nodes[n].hasBody /\ \A e \in g.edges : e[2] # n}

Without(g, gone) ==
    [nodes |-> [n \in DOMAIN g.nodes \ gone |-> g.nodes[n]],
     edges |-> {e \in g.edges : e[1] \notin gone}]

\* Functions are pruned in the shape of version 2; version 4 has another: at throws.
WriteFile ==
    LET last == at = Len(program.units)
    IN /\ pc = "write" /\ ~(On("prune") /\ program.version = 4)
       /\ files' = Append(files, Without(graph, IF On("prune") THEN Pruned(graph) ELSE {}))
       /\ pc' = IF last THEN "read" ELSE "start"
       /\ at' = IF last THEN 1 ELSE at + 1
       /\ UNCHANGED <<program, next, graph, left>>

PruneFails == pc = "write" /\ On("prune") /\ program.version = 4 /\ Stop

-----------------------------------------------------------------------------
(* cgmerge2, which does not know the signatures: mightCall is not read.    *)

\* A callee or an overriding or overridden method that is not in the file
Dangling(file) ==
    \/ \E e \in file.edges : e[2] \notin DOMAIN file.nodes
    \/ \E n \in DOMAIN file.nodes :
         ~(file.nodes[n].overrides \cup file.nodes[n].overriddenBy \subseteq DOMAIN file.nodes)

AsRead(file) ==
    [nodes |-> [n \in DOMAIN file.nodes |-> [file.nodes[n] EXCEPT !.decl = <<>>, !.mightCall = {}]],
     edges |-> file.edges, failed |-> FALSE]

\* The last file is the active graph.
ReadFile ==
    LET last == at = Len(files)
    IN /\ pc = "read" /\ ~Dangling(files[at])
       /\ graph' = AsRead(files[at])
       /\ left' = IF last THEN DOMAIN files \ {at} ELSE left
       /\ pc' = IF last THEN "merge" ELSE "read"
       /\ at' = IF last THEN at ELSE at + 1
       /\ UNCHANGED <<program, next, files>>

ReadFails == pc = "read" /\ Dangling(files[at]) /\ Stop

\* NumConditionalBranchMD, CodeStatisticsMD
mergeNumber(mine, theirs) == IF mine = theirs THEN mine ELSE mine + theirs

\* MUTANT: the operations of the two are added.
mergeNumOperations_Add(mine, theirs) == [k \in DOMAIN mine |-> mine[k] + theirs[k]]

mergeNumOperations(mine, theirs) ==
    IF mine = theirs THEN mine ELSE [k \in DOMAIN mine |-> mine[k] + theirs[k]]

\* Pointers have no metadata.
mergeMeta(mine, theirs) ==
    IF mine = <<>> \/ theirs = <<>> THEN IF mine = <<>> THEN theirs ELSE mine
    ELSE [numStatements |-> Max({mine.numStatements, theirs.numStatements}),
          loopDepth |-> Max({mine.loopDepth, theirs.loopDepth}),
          numConditionalBranches |-> mergeNumber(mine.numConditionalBranches, theirs.numConditionalBranches),
          numVars |-> mergeNumber(mine.numVars, theirs.numVars),
          numOperations |-> mergeNumOperations(mine.numOperations, theirs.numOperations)]

mergeNode(mine, theirs) ==
    [mine EXCEPT !.hasBody = @ \/ theirs.hasBody, !.virtual = @ \/ theirs.virtual,
                 !.overrides = @ \cup theirs.overrides, !.overriddenBy = @ \cup theirs.overriddenBy,
                 !.meta = mergeMeta(@, theirs.meta)]

mergeGraph(g, s) ==
    [g EXCEPT !.nodes = [n \in DOMAIN @ \cap DOMAIN s.nodes |-> mergeNode(@[n], s.nodes[n])] @@ @ @@ s.nodes,
              !.edges = @ \cup s.edges]

MergeFile ==
    /\ pc = "merge"
    /\ \E k \in left : graph' = mergeGraph(graph, AsRead(files[k])) /\ left' = left \ {k}
    /\ UNCHANGED <<program, pc, at, next, files>>

Finish == pc = "merge" /\ left = {} /\ pc' = "done" /\ UNCHANGED <<program, at, next, graph, files, left>>

Stopped == pc \in {"done", "aborted"} /\ UNCHANGED vars

Next ==
    \/ HandleTranslationUnit \/ TraverseFunctionDecl \/ addOverestimationEdges \/ RunCollectors
    \/ CollectorFails \/ WriteFile \/ PruneFails \/ ReadFile \/ ReadFails \/ MergeFile \/ Finish \/ Stopped

Spec == Init /\ [][Next]_vars

-----------------------------------------------------------------------------
(* Properties *)

Bodies == {d \in Declarations : d.hasBody /\ shouldIncludeFunction(d.name)}

Exprs(d, ops) == {e \in ToSet(Code(d)) : e.op \in ops}

\* What the code of d calls for certain, as far as it is to be captured
Called(d) ==
    LET direct == {e.direct : e \in Exprs(d, {"call"})}
                  \cup {e.ctor : e \in Exprs(d, {"construct"})} \cup {e.dtor : e \in Exprs(d, {"delete"})}
        ends == {e.dtor : e \in Exprs(d, {"decl", "bind"})} \cup ByValue(d.name)
    IN {f \in direct \ {""} : shouldIncludeFunction(f)}
       \cup IF On("infer-ctors-dtors") THEN ends \ {""} ELSE {}

PointerCalls(d) == {e \in Exprs(d, {"call"}) : e.direct = ""}

\* What the code of d may call through pointers, of the functions of its unit
MayCall(unit, d) ==
    LET Target(e) == IF getCalleeDecl(e.callee) = "" THEN e.id ELSE getCalleeDecl(e.callee)
        types == {program.prototype[Target(e)] : e \in PointerCalls(d)}
    IN {f.name : f \in {f \in Functions(unit) : shouldIncludeFunction(f.name)
                                              /\ program.signature[f.name] \in types}}

UnitTemporaries(unit) ==
    \E i \in DOMAIN unit.globals : \E e \in ToSet(Nodes(unit.globals[i])) : e.op = "bind"

HasBodyIn(unit, f) == \E d \in Functions(unit) : d.name = f /\ d.hasBody

\* The reasons for which the tools are known to stop
KnownToStop ==
    \/ On("prune") /\ program.version = 4
    \/ program.level = "No" /\ \E d \in Bodies : PointerCalls(d) # {}
    \/ \E k \in DOMAIN program.units :
         LET unit == program.units[k]
         IN \/ On("infer-ctors-dtors") /\ UnitTemporaries(unit)
            \/ /\ On("prune") /\ On("OverrideMD")
               /\ \E d \in Functions(unit) : \E o \in d.overrides :
                    ~HasBodyIn(unit, d.name) \/ ~HasBodyIn(unit, o)

\* The tools come to the end, unless for one of the known reasons, and in whatever order
\* the files are merged the graph then has every function with a body and its calls, by all
\* names of both, although pruning looks at one file at a time.  If a unit is the whole
\* program, it has the calls through pointers too.
GraphComplete ==
    /\ pc = "aborted" => KnownToStop
    /\ pc = "done" =>
         \A d \in Bodies :
           /\ \A n \in getMangledNames(d.name) : n \in DOMAIN graph.nodes /\ graph.nodes[n].hasBody
           /\ d.name \notin program.templates =>
                \A f \in Called(d) : getMangledNames(d.name) \X getMangledNames(f) \subseteq graph.edges
           /\ d.name \notin program.templates /\ On("whole-program") /\ program.level = "All" =>
                \A k \in DOMAIN program.units : d \in Functions(program.units[k]) =>
                  \A f \in MayCall(program.units[k], d) :
                    getMangledNames(d.name) \X getMangledNames(f) \subseteq graph.edges

OverridesOf(f) == UNION {d.overrides : d \in {d \in Declarations : d.name = f}}

\* Whichever files declare or define a function, its metadata are those of its definition,
\* once; a method knows what it overrides in any unit, and that knows the method.
DefinitionDescribed ==
    pc = "done" =>
      /\ \A k \in DOMAIN program.units : \A d \in Functions(program.units[k]) \cap Bodies :
           LET s == block(d.body)
               globals == {g.name : g \in ToSet(program.units[k].globals)}
           IN \A n \in getMangledNames(d.name) :
                LET m == graph.nodes[n].meta
                IN /\ m.numStatements = getNumStmtsInStmt(s)
                   /\ m.loopDepth = getLoopDepthInStmt(s)
                   /\ m.numConditionalBranches = getNumConditionalBranchesInStmt(s)
                   /\ m.numOperations = getNumOperationsInStmt(globals, s)
      /\ On("OverrideMD") => \A n \in DOMAIN graph.nodes :
           /\ graph.nodes[n].overrides = UNION {getMangledNames(o) : o \in OverridesOf(n[1])}
           /\ graph.nodes[n].overriddenBy = {m \in DOMAIN graph.nodes : n \in graph.nodes[m].overrides}
=============================================================================
