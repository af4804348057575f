# MetaCG in TLA+

MetaCG is a whole-program call-graph tool set: a C++ library that holds a call
graph with metadata, file formats for it, front ends that build graphs from C,
C++ and Fortran sources, and tools that merge, convert, query, compare and patch
graph files; PGIS selects functions to measure, with a graph and profiles. The
library and the tools are sequential; the one concurrent part is the CGPatch
runtime, which runs inside the processes of an MPI program and collects their
graphs with messages. What is hard in the library is
redundancy: the same facts are kept in several containers that every operation
updates by hand, ids are stable only under conditions, caches outlive what they
were computed from, merges walk unordered maps, and the analyses are work lists
whose answer must not depend on the order of an unordered set. What is hard in
the collector and in PGIS is state that passes through files: an alias relation
that is closed over several translation units, and selections that are refined
from run to run.

## The system and its parts

| Part | Source | State | Operations | Talks to |
|---|---|---|---|---|
| Call graph | `graph/src/Callgraph.cpp`, `graph/include/metacg/Callgraph.h`, `CgNode.*` | node vector, name index, edge map, caller and callee lists, cached main node, duplicate flag, erase counter, metadata | insert, getOrInsertNode, erase, clear, addEdge and removeEdge in three forms, addEdgeMetaData, getMain, merge | everything below |
| Merge policy | `MergePolicy.*` | recorder: id mapping and actions | findMatchingNode, recordMerge, recordCopy | called by `Callgraph::merge` |
| Graph manager | `MCGManager.*` | named graphs, pointer to the active one | addToManagedGraphs, setActive, mergeIntoActiveGraph, reset | owns graphs; tools use it |
| Metadata | `metadata/*.h` | one record per node, edge or graph and key | merge, clone, applyMapping, toJson | called by merge, readers, writers |
| Formats | `io/VersionTwo*`, `io/VersionFour*`, `io/MCGReader`, `io/IdMapping` | JSON document, id-string maps | read, write | builds graphs, owns string-id translation |
| DOT | `DotIO.*` | parser stack | parse, generate | builds and prints graphs |
| Analyses | `ReachabilityAnalysis.*`, `DominatorAnalysis.h` | reachable-node cache, dominator sets | isReachableFromMain, existsPathBetween, getReachableNodesFrom, computeDominators | read a graph they do not own |
| CGPatch runtime | `tools/cgpatch/src/CGPatchRuntime.cpp` | per process: patch graph, visited calls, symbol tables, write flag | indirect-call hook, MPI_Finalize wrapper, constructor and destructor | MPI messages between ranks; manager, merge, V2 format |
| cgmerge2 | `tools/cgmerge2/CGMerge2.cpp` | managed graphs, the last one active | read all files, merge them into the active graph, write | manager, formats, merge |
| Tools | `tools/cgconvert`, `cgformat`, `cgtodot`, `cgdiff`, `cgquery`, the CGPatch compiler pass | command-line state | one pass from files to files | manager, formats, merge |
| CGCollector | `cgcollector/lib/src/CallGraph.cpp`, `AliasAnalysis.cpp`, `AAReferenceVisitor*`, `helper/ASTHelper.cpp`, `MetaCollector.h` | call graph of a unit, equivalence classes of objects, call information, metadata per function | walk a translation unit, merge classes, resolve calls, write a file | Clang; files for CGMerge |
| CGMerge | `cgcollector/tools/CGMerge.cpp`, `JSONManager.cpp`, `GlobalCallDepth.cpp` | whole graph, function information, classes of all files | merge a file: nodes, overrides, classes, calls; global loop depths | files of CGCollector |
| CGValidate | `cgcollector/tools/CGValidate.cpp` | none | compare a graph with a profile | files |
| CGCollector2 | `tools/cgcollector2/src/*.cpp`, `include/cgcollector2/collector/*.h` | graph of the unit, function that is walked, options, collectors | walk a translation unit, calls of pointers by signature, collectors, prune and write | Clang; manager, formats; files for cgmerge2 |
| Other collectors | `cgfcollector`, `tools/cage` | AST and IR visitors | one pass over a translation unit | build graphs |
| PGIS | `pgis/lib/src/IPCGEstimatorPhase.cpp`, `PiraMCGProcessor.cpp`, `CgHelper.cpp`, `CubeReader.h`, `pgis/tool/PGISMain.cpp` | queue of phases, metadata per node, filter file | read graph and profile, estimator phases, write filter and graph | Score-P through filter and profile |
| Load imbalance detection | `pgis/lib/src/loadImbalance`, `LegacyMCGReader.cpp` | flags per node, in the graph file | one step of the descent per invocation | as PGIS |
| Python | `pymetacg` | none | read-only bindings | graph library |

How they interact: a collector or a reader builds a graph through the member
functions of `Callgraph`; the manager stores it under a name; `cgmerge2` merges
all managed graphs into the active one; a writer turns node ids into strings and
back. CGCollector writes one file per translation unit and CGMerge reads all of
them. PGIS writes a filter, a program is built with it and run, and the next
invocation reads the profile and what the last one wrote. Everything rests on the
invariants of `Callgraph`, so that class comes first.

### What makes each part correct

* **Call graph.** The three edge containers describe one relation; no edge
  touches an erased node; the name index lists exactly the live nodes of a name,
  oldest first; the cached main node is live; ids are never reused; `erase` takes
  the edges of the node and nothing else; `erase` never passes `end()` to
  `vector::erase`.
* **Merge.** If the source has no erased nodes, the target stays a well-formed graph
  after every node and edge; the mapping sends a source node to a live target node of its name; the result holds
  the functions and calls of both inputs and no others; a definition beats a
  declaration; override relations and the entry function are carried over through
  the mapping; the cached main node is recomputed.
* **Manager.** The active pointer points to the graph of the name that was activated
  last, as long as that name is not given another graph without activating it; merging
  into the active graph does not depend on the order of the unordered name set.
* **Formats.** Reading what was written gives an isomorphic graph with the same origins,
  file properties and override relations, unless a disambiguated name is in use already;
  version 4 keeps the entry function and one kind of metadata of an edge, for one
  conversion.
* **Analyses.** A reachability answer that was forced or asked for the first time
  equals the reachability of the current graph; without a cycle through the entry
  dominators equal the path definition, and both loops end.
* **CGPatch runtime.** One process writes the file, and what it writes holds the
  resolved calls of all of them, whatever the order of calls, messages and exits, if
  the output path can be written.
* **CGCollector and CGMerge.** The alias relation is the least one that the source
  asks for, whatever is merged first and in whatever order files come; each call
  that the relation resolves is an edge; the two directions of a call agree, unless only
  declarations make it; of version 1 files, those of an override relation do; a
  definition gives the metadata of a function; both tools end.
* **CGCollector2 and cgmerge2.** Unless the tools stop for a known reason, functions with bodies and their calls survive pruning
  file by file and merging in any order; the metadata of a function are those of its
  definition, counted once; override relations have both ends.
* **PGIS.** Whatever phases select, the filter has main in it and, with the option for
  it, no gaps between main and an instrumented function; a profile leaves a graph in
  which the time can be followed from main; kicking stops when the budget is met; exact
  measurements survive invocations with a profile and without static selection. **LIDe:** each measured function is decided once, and an
  imbalanced one is in the filter with its context.

## Plan

The order was: the core class, what composes it, then the tools around it.

1. `Callgraph`, `CallgraphClient`, `CallgraphAbs`: done, with proofs.
2. `CallgraphMerge`: `merge` one loop iteration per action, so that every order
   of the unordered edge map is explored: done, with proofs.
3. `MCGManager`: named graphs and the active pointer, over merge by name: done,
   with proofs.
4. `ReachabilityAnalysis`, `DominatorAnalysis` against the path definitions of
   `GraphPaths`: done, with proofs.
5. `CGPatchRuntime`: done, with proofs.
6. `MCGFormat`: V2 and V4 writing and reading with the translation of ids to
   strings: done, with proofs.
7. `EquivClasses`, `ClangAst`, `AliasAnalysis`, `CallGraphBuilder`, `MetaCollectors`,
   `CGMerge`, composed by `Collector`: done.
8. `CgHelper`, `ScorepProfile`, `EstimatorPhases`, `RuntimeEstimator`, composed by
   `Pgis`; `LoadImbalance` over the first two: done.
9. `Collector2`, over the syntax trees and collectors of 7: done.
10. The `DotIO` parser, `CGDiff`, merges of the remaining metadata: open.
11. Every invariant and action property of 1 to 6 is proved. Proofs about `Pgis` are open;
   the modules of 7 and 9 and `LoadImbalance` use RECURSIVE operators and stay with TLC.

## The modules

### `Callgraph`: the class as a data type

A graph is a record with one field per data member. Every member function that
changes the graph is an operator from graphs to graphs, so the same definitions
serve a single graph (`CallgraphClient`) and two graphs (`CallgraphMerge`).

| Field | Member of class `Callgraph` |
|---|---|
| `size`, `nodes` | `nodes`: the length of the vector, and per slot a node or a null `unique_ptr` |
| `nameIdMap` | `nameIdMap`, a list of ids per name |
| `edges` | `edges`, a map from id pairs to metadata, here a set of pairs (key, kind) |
| `calleeList`, `callerList` | the two maps of id vectors, here the number of entries per id |
| `mainNode` | `mainNode`, an id instead of a pointer |
| `hasDuplicates`, `numErased` | the members of these names |
| `entry` | the graph's `EntryFunctionMD`: absent, without an id, or an id |

Abstractions: a node reference is an id and whether the address is one of this
graph; list order in the caller and callee vectors is dropped, because no caller
sees it; metadata kinds are model values. A `find` that misses before
`vector::erase` is undefined behaviour; the model counts an entry below zero, so
that the type invariant sees it. `vector::at` past the end is the value
`OutOfRange`.

### `CallgraphClient` and `CallgraphAbs`

`CallgraphClient` has one action per member function and calls them in any order
with any arguments C++ can form: ids of erased and of not yet inserted nodes,
references to nodes of another graph, names with no, one or several nodes.
`CallgraphAbs` is what the interface promises: a growing id counter, a function
from live ids to names and a relation of calls between live ids.
`ImplementsAbs` is the refinement, checked by TLC and proved.

### `CallgraphMerge` and `NamedGraph`

`CallgraphMerge` is `Callgraph::merge` with the policy `MergeByName` on two graphs
of the data type. Its variables are the two graphs, the recorder (`mapping`,
`actions`) and the position in the loops (`phase`, `next`, `todo`, `mdTodo`); one
action is one iteration:

| Action | Code |
|---|---|
| `MergeNode`, `NodesMerged` | the node loop, `findMatchingNode`, replace or copy, the recorder |
| `MergeEdge`, `MergeEdgeMetaData`, `EdgesMerged` | the loops over the unordered edges and their metadata: any order |
| `MergeNodeMetaData` | `OverrideMD::merge`, or `clone` and `applyMapping` |
| `MergeGlobalMetaData` | `EntryFunctionMD::merge` and the reset of the cached main node |

The content of edge metadata is dropped, its key and kind are kept, because the
key is what goes wrong there. `NamedGraph` is a graph without ids: functions by
name, whether and where they are defined, and calls by name, with `mergeNamed`,
what merging by name promises. `DefinitionWins` shows that `merge` computes it for
every source without duplicate names; `MCGManager` and `CGPatchRuntime` use
`mergeNamed` where the code calls `merge`. `Mergeable` says which graphs `merge` can be
called with: well-formed ones that fit into the id space together, the source without
dangling ids in its metadata, because these are translated with `unordered_map::at`,
which throws. The target may have such ids: `erase` leaves them behind, and the union
counts a relation only between nodes that are there.

### `MCGManager`

`managedGraphs` maps names to addresses, `activeGraph` is an address or null and
`heap` says what is at an address, so that destroyed graphs and re-used addresses
show. `mergeIntoActiveGraph` is `StartMerge`, one `MergeGraph` per name of the
unordered set, and `EndMerge`. `getOrCreateCallgraph`, `getCallgraph` and
`setActive` of an existing name are `SetActive`; the accessors change nothing.
`addToManagedGraphs` may replace the active graph without activating the new one,
which destroys the graph that `activeGraph` points to: `UseDestroyed` is what
`resetActiveGraph` and `mergeIntoActiveGraph` then do, and nothing is said of the program
after it. The address may be re-used before, and then another graph is active unasked.
`activated` is a history variable: the name whose graph was activated last, or `Lost`.

### `GraphPaths`, `ReachabilityAnalysis`, `DominatorAnalysis`

`GraphPaths` holds the reference definitions, without paths or recursion: the
nodes reachable from `r` are those in every set that holds `r` and is closed under
the edges; `d` dominates `n` if `n` is not reachable once `d` is taken out. They
are usable by TLC and by the provers.

`ReachabilityAnalysis` has the cache (`computedFor`, `reachableNodes`) and the
search (`visitedNodes`, `workQueue`) of `runForNode`; one `Visit` is one iteration,
with the callees appended in any order. `ChangeGraph` is anything the owner of the
graph does between two queries, and `current` remembers whose answer must be
fresh. The three public queries differ only in what they read from the result.

`DominatorAnalysis` is `computeDominators`; `Update` and `Skip` are the two outcomes
of an iteration. The graph is given as the lists `outgoing` yields, so that an
order is arbitrary but the same in every iteration, as with an unordered set that
is built from the same list each time. That matters for termination. Forward and
backward analysis are the same on the graph and its inverse.

### `CGPatchRuntime`

Per rank: `pc`, the patch graph by name, `visitedMap`, `symTables`, `shouldWrite`,
the message in flight; for rank 0 the loop variable of `MPI_Finalize` and the
received graphs; and the file. `IndirectCall` is the hook the compiler pass
inserts, `Send`, `FinalizeRankZero`, `Receive`, `Merge`, `Merged` are the wrapped
`MPI_Finalize`, `InitializeGlobalCallgraph` and `FinalizeGlobalCallgraph` the
constructor and destructor of the runtime. External: `Dlopen` (the application
maps a library) and `Sent` (`MPI_Send` returns once the message is buffered, if MPI
buffers it, and else once rank 0 has received it; `buffered` says which, per rank).
`FinalizeGlobalCallgraph` writes only if the output directory is there and the file can
be opened (`output`). MPI messages are neither lost nor duplicated, which MPI guarantees, and
the code has no handling of it. A patch graph has no duplicates, no metadata and
only nodes with bodies, so its V2 document carries exactly the graph by name.

### `MCGFormat`

The writers and the conversions between the versions are operators from graphs to
documents and from documents to documents, with the names of the functions in the
code (`convertToStr`, `downgradeV4FormatToV2Format`, `upgradeV2FormatToV4Format`).
A string that names a node is a tuple of its parts, so that the disambiguated name
`f#0` can become a function name, as it does when a version 2 file is read. The
readers are actions: `Read` starts (for version 2 with the upgrade), `ReadNode` and
`TakeNode` are iterations of the two loops of `VersionFourMCGReader::read`, in any order
of the nodes (the code takes them in the order of the strings). Within the second loop
`ReadEdge` is an iteration of the loop over the callees of the node, again in any order,
and `ReadNodeMetaData` what follows it; `ReadGlobalMetaData` is the end. `Write` and the readers end in `failed` where the
code throws, fails an assertion or, in a build without assertions, has undefined
behaviour. `Insert` and `Continue` are the program that goes on with the graph it has
read and writes it again. `FilePropertiesMD` is kept beside the graph, since only
version 2 mixes it with the origin. `StringsInNames` is a bound: a string of a version 2
file becomes a name when it is read, so it has to be among the names of the model. The
set of names is a constant without a limit, so the theorems are not weakened by it. The header of a file, documents that no writer
produces and the content of other metadata are left out.

### `EquivClasses`, `ClangAst`, `AliasAnalysis`

`ClangAst` is the part of Clang's syntax trees that the visitors read: expressions,
statements, functions, units, as records; it is external, and what the code looks
through (casts, parentheses) is left out. `EquivClasses` is `EquivClassContainer`:
classes of objects that may be one memory location, each with its prefixes (what is
reached by `*` or a member), functions and calls. `Cascade` is what one merge of
two classes asks for next, `GetFunctionsToMerge` the calls a class resolves.
`AliasAnalysis` is the walk of a unit: `getReferencedDecls` gives the objects that an
expression stands for, and the visitor of statements collects facts, the lists that
`calculatePERelation` works off. An object is a declaration, a call, a member and so
on with its dereference level, where the code builds a string.

### `CallGraphBuilder` and `MetaCollectors`

`CallGraphBuilder` is the classic construction: `CGBuilder` with the tracer of function
pointers, one fold over the functions of the unit. `MetaCollectors` computes the
number of statements, conditional branches and operations, loop depths and the
estimated calls of a body, and the depths along the calls of a whole graph.

### `CGMerge` and `Collector`

`CGMerge` holds the operators on nodes, overrides and classes of two files. `Collector`
is the state machine of both tools:

| Action | Code |
|---|---|
| `HandleTranslationUnit` | `CallGraphCollectorConsumer`, the AST walks |
| `TakeItem`, `NextList` | the loops of `calculatePERelation` |
| `MergeClasses`, `ResolveCall`, `AssertFails` | `mergeRecurisve`, `merge`, `mergeFunctionCall` |
| `WriteFile` | `convertCallGraphToJSON`, the metadata, the file |
| `ReadFile`, `MergeNode` | a file of CGMerge, in any order, node by node |
| `MergeFileClasses`, `CollectCalls`, `ResolveWholeCall`, `NextFile` | `mergeEquivalenceClasses` |
| `Finish` | overrides of version 1, global loop depths |

Pairs and calls that are found on the way are sets and worked off in any order,
because the code follows the order of names of objects; the order of its recursion
(pairs before calls before the next item) is kept.

### `Collector2`

CGCollector2 for each unit of a program, then cgmerge2, over the trees of `ClangAst` and
the counts of `MetaCollectors`, whose code CGCollector2 shares word for word.

| Action | Code |
|---|---|
| `HandleTranslationUnit` | the reset of the manager, the initialisers of globals |
| `TraverseFunctionDecl` | one declaration: `addNode`, then the visitors for each expression of its code, in order |
| `addOverestimationEdges` | parameters of functions without bodies, edges by signature |
| `RunCollectors`, `CollectorFails` | `computeForDecl` and `computeForGraph` of the collectors |
| `WriteFile`, `PruneFails` | the writer, pruning in its document, the file |
| `ReadFile`, `ReadFails` | one file of cgmerge2; a name that is not in the file |
| `MergeFile`, `Finish` | `mergeIntoActiveGraph`, one graph per step in any order |

A signature is the set of its types, because the code compares a bitwise or of their
hashes; collisions of these are left out. Files are seen by name, and `mergeGraph` is
`merge` by name with the merges of the metadata that the collectors produce. `cg-file` is
unset, so that each unit has a file of its own.

### `CgHelper`, `ScorepProfile`, `EstimatorPhases`, `RuntimeEstimator`, `Pgis`

`CgHelper` has the searches over a graph and the state of a node's instrumentation.
`ScorepProfile` is external: what is measured of a run of the program under a filter.
`EstimatorPhases` has the phases that the tool registers as functions of the graph;
`RuntimeEstimator` the selection from a profile, with its work queue, and the three
algorithms for a target overhead. `Pgis` is the loop: `RunProgram` (external), the
start of a static or dynamic invocation with its queue of phases, one action per
phase (one per node in `VisitRuntime`), `Abort` where the code calls `exit`, `Finish`,
which writes the graph. `--static`, `--cube` and `--extrap` are independent of each
other, so an invocation may have all or none of them (`cmd`). Times and visits are integers, and ratios are compared by
products.

### `LoadImbalance`

One action for the first invocation, one for each later one, one for the run of the
program. The state that matters is what survives in the file: the flags Visited and
Irrelevant and the profile data. Files of format 1 are read with the overrides added
to the graph (`LegacyMCGReader`) and written in format 2.

### Proof modules

`CallgraphTheorems` has the lemmas about the data type: what each operation does to a
well-formed graph, for any graph. `CallgraphProofs` (the client of one graph, and the
refinement) and `CallgraphMergeProofs` (two graphs) rest on it. `MCGManagerProofs`,
`CGPatchProofs`, `MCGFormatProofs`, `ReachabilityProofs` and `DominatorProofs` hold the
theorems of their component; `MCGFormatProofs` too rests on `CallgraphTheorems`, because
the reader builds its graph with `insert`, `addEdge` and `addEdgeMetaData`.

## Runs

| Run | Bounds | Shows |
|---|---|---|
| `callgraph` | 2 names, 3 insertions, 2 edges, 1 edge with metadata | the containers, ids and caches agree after any calls; an edge keeps its metadata; the refinement. Three nodes are enough for duplicates, for a self-call with a caller or a callee besides, and for an erase between two nodes of one name |
| `merge` | source up to 2 nodes and 2 edges, target up to 2 nodes and 1 edge, one possibly erased; the same with override relations (in the target also to an erased node) and entry functions, and with 2 kinds of edge metadata | union by name, mapping, definitions, ids in metadata translated, nothing taken from the target. Two nodes per side give matches, copies, duplicates on either side and edges that coincide |
| `manager` | 3 names, 4 addresses, 2 contents, with symmetry | the active pointer, ownership, merging in any order. One address more than names lets an active graph be replaced and its address be used again |
| `reachability` | 4 nodes; five graphs to change between: a diamond, a diamond with a way back, a chain that ends in a self-call, two cycles that share a node, no calls | fresh answers are exact across graph changes; the search ends |
| `dominators` | 4 nodes without self-calls, 4 nodes with self-calls, and 6 nodes in which ways of different length meet; the entry node's callees up to renaming | exact, never too small, ends. Six nodes are the least in which a node behind a join must be visited a second time |
| `cgpatch` | 3 ranks; rank 0 makes one call of each of two callers, rank 1 calls both addresses from one caller, rank 2 makes one call; both addresses are one symbol and one is in a library loaded late; each send buffered or not, the output path writable or not | one complete file if it can be written, no rank waits for ever, the de-duplications lose nothing. Three ranks are the least with messages out of the order of receipt |
| `pgis` | 7 functions, 3 invocations; programs with a call the graph misses, a cycle with an MPI function, a library between two functions, many small functions, a run too short for the clock; options of 14 command lines | no gaps, connected profiles, kicking stops, results kept or lost only as described. Three invocations are the least in which a result of the second profile meets one of the first |
| `lide` | 6 functions, 7 invocations; 42 programs (where the load is uneven) with 21 configurations | the descent decides every function, nothing comes back, contexts are complete. Seven invocations reach the bottom of the deepest program |
| `collector` | 9 programs of 2 units after the repository's tests, both orders of files | classes, least relation, resolved calls, both directions of calls and overrides, metadata, progress |
| `collector2` | 54 programs of 1 to 3 units with options: calls of pointers, a hierarchy of virtual methods over three units, objects with all 32 combinations of the options for constructors and destructors, inline functions in several units; every order of merging | all functions, calls, metadata and overrides survive pruning and merging; the tools stop early only for known reasons. Three units are the least in which a declaration, a definition and a second definition meet in any order |
| `format` | 2 nodes at first, up to 3 with insertions; written and read twice in any two of V2, V4 by ids, V4 by names | round trips, and what they lose of the metadata of edges; three nodes are enough for disambiguated names next to a plain one, two rounds for what a read changes and the next write sees |

The first program of `collector` sets a global pointer in one unit and calls it in the
other; others have parameters with other names, virtual methods that set members,
destructors of local objects, hierarchies over two units, a declared function that is given another one, nested loops and functions
that call each other. `MaxSize`, `MaxEdges`, `MaxEdgeMd`, `MaxRounds` and `StringsInNames` are the only bounds inside the modules;
everything else is a set given by a configuration. Symmetry is used only for the
manager, whose properties are invariants that treat the permuted values alike.

### Findings

The run named `doc_...` states what a comment says and is expected to be violated:

* `doc_dominators_end`: two cycles of different length through the entry node keep
  `computeDominators` running for ever.

Four properties of passing runs say exactly how far the code goes, where it does less than
a comment, an assertion or the documentation promises:

* `ActiveIsManaged` (`manager`): `addToManagedGraphs(name, graph, false)` with the name of
  the active graph leaves the active pointer at a destroyed graph (`MCGManager.cpp:90`,
  against the assertion in line 129). No other sequence of calls does. No caller in the
  repository makes this one.
* `RoundTrip` (`format`): metadata of edges that is read is filed under the key of the base
  class (`VersionFourMCGReader.cpp:179`). Of several kinds one is left, not under its own
  key, and the next round trip loses it, although "Metadata can be attached to the edges"
  (`graph/README.md:200`).
* `MeasuredResultsSurvive` (`pgis`): a static invocation, or one without a profile, attaches
  results without a profile, and functions that were selected are stored as never called,
  measured or not, against the comments at `IPCGEstimatorPhase.cpp:1287` and `1291`. That
  result counts as exact, so no later profile replaces it. A function of a library whose
  calls were measured is selected by its name in the next invocation, and by its name it
  cannot be measured; the property leaves these out.
* `CallsMutual` (`collector`): where a function is declared only, it is taken to call the
  functions it is given. CGMerge keeps that call if the file comes first, and else drops
  the callee and keeps the caller (`CGMerge.cpp:104`), so that `callers` and `callees`
  disagree (`graph/README.md:176`).

Without its exception, TLC refutes each of them. There is further behaviour that differs
from a comment, or that a reader of the code may not expect, and that no run states.

Graph library:

* `getNode(size())` throws instead of returning null (`Callgraph.cpp:243`, `Callgraph.h:220`);
  `removeEdge` on node references accepts a node of another graph (`Callgraph.cpp:173`);
  `clear` keeps the metadata of the graph (`Callgraph.h:158`); `hasDuplicates` is never
  reset by `erase` (`Callgraph.h:191`); the id of an erased entry function stays in the
  metadata unless `getMain` had cached it (`Callgraph.cpp:77`).
* `merge` dereferences the null slot of an erased source node (`Callgraph.cpp:260`), so that
  the sources of run `merge` have none; `DotIO.cpp:201` does the same on export.
* If the source of a merge has two nodes of one name with metadata on their edges, the
  assertion at `Callgraph.cpp:305` can fail, depending on the order of the edges. Merged
  edge metadata is filed under the key of the base class (`Callgraph.cpp:310`).
* A function named `f#0`, which reading a version 2 file can produce, has the string that
  the version 4 writer gives to one of two functions `f` (`VersionFourMCGWriter.cpp:43`,
  the comment in line 41); an origin without file properties cannot be read back from a
  version 2 file (`VersionTwoMCGReader.cpp:100`).
* A cycle through the entry node gives wrong dominators for it (`DominatorAnalysis.h:106`),
  which is why `DominatorsExact` excludes it.

CGCollector and CGMerge:

* `*g(&x)` reads an object that is not collected, and the assertion at
  `AliasAnalysis.cpp:1366` fails (`AssertFails`).
* A class that no merge touches is not searched for calls it resolves, so
  `(c ? f : g)(h)` is resolved by CGMerge and not within the unit.
* `functionPointerTargets.insert` keeps the first target: `f = a; f(); f = b; f();` has no
  edge to `b` from the classic construction, and `auto f = &a` is not followed.
* Whether global loop depths are computed again depends on a definition that comes after
  a declaration (`CGMerge.cpp:98`), so on the order of the files, and not at all with alias
  information (`CGMerge.cpp:199`). The overrides of version 2 files are not united.
* What a definition in a later file returns is not added to the function information.
* `EstimatedCallCount` pairs conditions and bodies of `do` loops with the multipliers of
  their neighbours, and a nested `switch` counts as one.

CGCollector2 and cgmerge2 (`KnownToStop` has those that stop a tool):

* Pruning expects the document of version 2 and throws on one of version 4
  (`CallGraphCollectionAction.cpp:106`). It may remove an overridden method that another node
  of the file names, and then cgmerge2 cannot read the file.
* With alias model No, a pointer that is called twice fails the assertion at
  `CallGraphNodeGenerator.cpp:473`, and `OverrideCollector.h:37` dereferences the declaration
  that the node of a pointer does not have.
* A temporary in the initialiser of a global variable makes `addEdge` ask for the edge of no
  function (`CallGraphNodeGenerator.cpp:441`).
* Specialisations of function templates become nodes and are not walked
  (`CallGraphNodeGenerator.cpp:112`), so that their calls are missing.
* Unless the unit is the whole program, edges of calls by signature are left to the merge
  (comment in `CallGraphCollectionAction.cpp:41`), but cgmerge2 does not know the metadata and
  drops it.
* `FunctionSignature::operator==` compares the parameters with themselves
  (`SharedDefs.h:21`); the hash does not tell the order of types.
* `numVars` counts the declaration that was visited last, which may not be the definition, so
  that `DefinitionDescribed` leaves it out.

CGPatch:

* The symbol tables are read once: a call into a library that is loaded later finds no
  symbol, and the address stays marked as seen (`CGPatchRuntime.cpp:108`).

PGIS:

* The temporary metadata is created before the estimate that asks for it
  (`IPCGEstimatorPhase.cpp:393`), so callees that were never measured are not explored.
* `exit(-1)` in the overhead algorithms leaves the filter file as the last phase left it
  (`IPCGEstimatorPhase.cpp:574`, `737`, `801`).
* Histograms of heuristics other than statements are never filled, so that their cut-off
  is zero. Profile data accumulates through `--export`, so that LIDe underestimates
  functions that were instrumented late.

## Fairness

Only liveness properties use it. `runForNode` and `computeDominators` are
loops of one thread that waits for nothing, so weak fairness of a loop step is
what running the function means; nothing is assumed of the client that calls
queries or changes the graph. In `CGPatchRuntime` each rank has weak fairness of its
runtime steps: MPI requires every process to call `MPI_Finalize`, and a process
that has called it goes on to exit. `Sent` is fair too, but its guard is what MPI promises:
a send that is not buffered returns only after rank 0 has received the message, so that
`PatchGraphWritten` depends on rank 0 receiving from every rank. The application's calls
are not fair.

`Collector` states progress without fairness: every step lowers a tuple of sizes
(`StepsProgress`), so that the tools end if they run. `Pgis` and `LoadImbalance` take a
bounded number of invocations, each a bounded number of steps.

## Proofs

All theorems hold for every finite size of the constants, under the named
assumptions of the modules: bounds are naturals, `Null`, `NoId`, `OutOfRange`, `Freed`,
`Lost` and `NoGraph` are distinct from what they are told apart from, node sets are finite,
the graphs to analyse are graphs over the nodes, the graphs to merge are `Mergeable`, the
graphs to write are `WellFormed`, and a name is a tuple of its parts.

* **`CallgraphProofs`.** `WellFormed` is the inductive invariant: types, the agreement
  of the three edge containers, no node in unused slots, no edge at a missing
  node, an exact name index and a live cached main node. None of its parts is
  inductive alone: `erase` finds the entries it deletes only because the
  containers agree, keeps edges live only because the lists it walks name all
  edges of the node, and deletes the right position of the name index only
  because ids are sorted there. There is one lemma per member function,
  stated about graphs, and one step per action. `AlwaysWellFormed` gives
  `TypeCorrect`, `AdjacencyAlwaysAgrees`, `EdgesAlwaysLive`, `NameIndexAlwaysExact`
  and `MainCacheAlwaysLive`; `EraseTakesItsEdgesOnly` and `EdgeMetadataAlwaysKept` are
  the action properties (no run checks the first by itself: it follows from the refinement,
  which run `callgraph` checks). `CallgraphImplementsAbs` maps every action to a step of
  `CallgraphAbs` or to a stutter; it needs `WellFormed`, because `erase` removes exactly
  the calls of the node only if the lists it walks are those of the edges.
* **`CallgraphMergeProofs`.** `MergeInv` says what the loops have done so far. Each
  visited source node is mapped to the first target node of its name; the nodes of
  the target are its own and the images; a list of the name index changes at most
  once, from empty to the one copy, so that the first node of a name never changes and
  mappings stay valid; a copy has a new id, never that of an erased node; the
  attributes of a node are those of one of the nodes that went into it, the target's
  own unless only the source has a body; the edges and override relations are the
  target's own and the mapped ones of the iterations that are over. The parts need
  each other: the edge loop keeps the target well formed because both ends are
  mapped, and the assertion of the metadata loop ("Metadata must not exist without
  previous merge action") holds because no earlier source node can be mapped to a
  copy. `MergeInvariant` gives `RecorderAlwaysSound`, `TargetAlwaysKept`,
  `EntryAlwaysKept`, `MergeUnitesBoth` and `DefinitionAlwaysWins`; the last one shows
  that `merge` computes `mergeNamed`, on which the next two rest.
* **`MCGManagerProofs`.** `ManagerInv`: types, `ActiveIsManaged`, and for a running merge
  that the active pointer is not dangling and that the active graph and the graphs still to visit together have what all graphs
  had at its start. `ActiveAlwaysManaged` and `MergeAlwaysUnites` follow.
* **`CGPatchProofs`.** `RuntimeInv`, for any number of ranks: a rank's graph is what it
  reported until it enters `MPI_Finalize`; a message and a received graph are what
  their sender reported; the graph of rank 0 is what it reported itself and what the
  ranks reported whose graphs it has received and merged; it is written once all
  are. `PatchGraphAlwaysComplete` follows.
* **`ReachabilityProofs`.** `TypeOK`, `SearchInvariant` and `CacheExact` are inductive
  together. When the queue is empty the visited nodes are closed under the edges
  and hold the source, so they contain what can be reached, and they contain
  nothing else.
* **`DominatorProofs`.** `NoDominatorMissed` is inductive for all graphs: a node other
  than the entry is dominated only by nodes that dominate each caller. For
  exactness a second invariant says that every visited node whose set is not
  the intersection over its visited callers is in the queue, that every callee of
  a visited node is visited or queued, and that without a cycle through the
  entry the entry's set is itself alone. When the queue is empty, what a set holds
  beyond the dominators would have to be avoided by a path along which some
  set fails to be the intersection over callers.

* **`MCGFormatProofs`.** `FormatInv` describes the reader at any point of its two loops:
  the file is the document of the graph; the map from strings to nodes is a bijection
  between the strings taken so far and the nodes created so far; each of these nodes is as
  the file says, with its metadata once the second loop is past it; the edges are exactly
  those that the loop over callees is past; the entry function comes last. Neither property
  is inductive without it: that `getNodeFromStr` never fails needs that the first loop has
  registered all strings and that callees and override relations of a document name nodes
  of the same document (`DocumentOfGraph`), which holds because no edge of a well-formed
  graph touches an erased node and the metadata is not `Stale`. `FormatInvariant` gives
  `FailsOnlyIfKnown`. `RoundTripAlways` needs three more facts. Strings of different nodes
  differ unless a disambiguated name is in use (`StringsDistinct`: two nodes of one name
  have different positions in the sorted list of the name index, and appending a suffix
  can be undone). Downgrading and upgrading a document of version 2 loses only the entry
  function, names and edge metadata (`DocumentV2`). The strings of a graph that was read
  from version 2 are its names, so that writing it again gives the same file, also if some
  of them look like disambiguated names.

Only model-checked: all liveness (`QueryEnds`, `AnalysisEnds`, `PatchGraphWritten`; out of
the prover's reach) and everything about `Collector`, `Collector2`, `Pgis` and
`LoadImbalance`. The phases of `Pgis` and `LoadImbalance` are folds over queues and
searches over a graph, and the statement counts of the latter a recursive depth-first
search; `RelationLeast` compares a closure with a least fixed point, and the walks of
syntax trees are recursive definitions: what those compute for every input needs
induction over data.

## Not modelled

DOT, `cgdiff` and the remaining metadata of the library are in the plan. `cgfcollector`,
`cage` and the CGPatch pass are visitors of the trees of Flang and of LLVM; a model of each
needs a model of its front end's tree, as `ClangAst` is for Clang. Of CGCollector2, the
collectors of files, types, allocations and global loop depths, plugins, class templates
and lambdas are left out.
Of CGCollector, templates, captures of lambdas, floating point weights and copied class
parameters are left out, and the iteration over a list that a merge may shrink
(`handleMergeCXXThisPointers`) is over a snapshot. Of PGIS, phases that nothing
registers, the model fitting of Extra-P and the readers of other profiles are left out.
`CGValidate` and `pymetacg` only read; the remaining tools are straight passes over the
library. Setters of a node (`setFunctionName`, `setHasBody`, `setOrigin`, `setVirtual`) are
not client actions; `merge`'s use of them is modelled. Running time, memory and logging
are left out.
