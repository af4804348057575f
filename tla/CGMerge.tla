------------------------------ MODULE CGMerge ------------------------------
(***************************************************************************)
(* What CGMerge does with the files of CGCollector: the nodes of each file *)
(* are merged into the whole graph by their names, the functions they      *)
(* override are collected, and the equivalence classes of the alias        *)
(* analysis are merged.                                                    *)
(*                                                                         *)
(* A node is [callees, callers, overrides, overriddenBy, isVirtual,        *)
(* doesOverride, hasBody, meta].  A graph maps names to nodes.             *)
(***************************************************************************)
EXTENDS EquivClasses, FiniteSetsExt, TLC

-----------------------------------------------------------------------------
(* Nodes.  c is the node so far, v the one of the file. *)

doMerge(t, s) ==
    [t EXCEPT !.callees = @ \cup s.callees, !.isVirtual = s.isVirtual,
              !.doesOverride = s.doesOverride, !.hasBody = s.hasBody]

\* v is the definition of what was only declared so far.
Completes(c, v) == v.hasBody /\ ~c.hasBody

HasLoopDepth(c) == "loopDepth" \in DOMAIN c.meta

\* MUTANT: the loops of the declaration are kept.
CompletedMeta_Declared(c, v) == [c.meta EXCEPT !.numStatements = v.meta.numStatements]

\* The metadata of the definition
CompletedMeta(c, v) ==
    IF ~HasLoopDepth(c) THEN [c.meta EXCEPT !.numStatements = v.meta.numStatements]
    ELSE [c.meta EXCEPT !.numStatements = v.meta.numStatements,
                        !.numConditionalBranches = v.meta.numConditionalBranches,
                        !.loopDepth = v.meta.loopDepth,
                        !.numOperations = v.meta.numOperations]

mergeBodies(c, v) ==
    CASE v.hasBody /\ c.hasBody ->
           [doMerge(c, v) EXCEPT !.meta.numStatements =
              IF @ = v.meta.numStatements THEN @ ELSE @ + v.meta.numStatements]
      [] Completes(c, v) -> [doMerge(c, v) EXCEPT !.meta = CompletedMeta(c, v)]
      [] OTHER -> c

mergeEstimates(c, v) ==
    IF "estimateCallCount" \notin DOMAIN v.meta THEN c
    ELSE [c EXCEPT !.meta.estimateCallCount =
            [calls |-> @.calls \cup v.meta.estimateCallCount.calls,
             regions |-> @.regions @@ v.meta.estimateCallCount.regions]]

\* The deeper of two calls counts.
mergeLoopCallDepths(c, v, hasLoopInfo) ==
    IF ~hasLoopInfo THEN c
    ELSE [c EXCEPT !.meta.loopCallDepth =
            LET d == v.meta.loopCallDepth
            IN [g \in DOMAIN @ \cup DOMAIN d |->
                  Max({f[g] : f \in {f \in {@, d} : g \in DOMAIN f}})]]

\* MUTANT: who calls a function is known from the first file only.
mergeNode_FirstCallers(c, v, hasLoopInfo) ==
    mergeLoopCallDepths(mergeEstimates(mergeBodies(c, v), v), v, hasLoopInfo)

mergeNode(c, v, hasLoopInfo) ==
    [mergeLoopCallDepths(mergeEstimates(mergeBodies(c, v), v), v, hasLoopInfo)
       EXCEPT !.callers = @ \cup v.callers]

-----------------------------------------------------------------------------
(* buildFromJSON: functions maps names to [isVirtual, doesOverride,        *)
(* overriddenFunctions, overriddenBy].                                     *)

NoFunctionInfo ==
    [isVirtual |-> FALSE, doesOverride |-> FALSE, overriddenFunctions |-> {}, overriddenBy |-> {}]

getOrInsert(functions, f) == IF f \in DOMAIN functions THEN functions[f] ELSE NoFunctionInfo

\* The functions of a file.  Version 2 does not read doesOverride.  Files come from
\* CGCollector: the number of statements is never negative, so that each entry is read,
\* and each entry of version 2 has its file properties, without which CGMerge exits.
ReadFunctions(functions, cg, version) ==
    [f \in DOMAIN cg |->
       LET fi == getOrInsert(functions, f)
       IN [isVirtual |-> cg[f].isVirtual,
           doesOverride |-> IF version = 1 THEN cg[f].doesOverride ELSE fi.doesOverride,
           overriddenFunctions |-> fi.overriddenFunctions \cup cg[f].overrides,
           overriddenBy |-> fi.overriddenBy \cup cg[f].overriddenBy]]
    @@ functions

\* MUTANT: only what f overrides itself
OverriddenFrom_Direct(functions, f) == functions[f].overriddenFunctions

\* The work list from the functions that f overrides: n rounds reach what n steps reach.
OverriddenFrom(functions, f) ==
    LET reached[n \in Nat] ==
          IF n = 0 THEN functions[f].overriddenFunctions
          ELSE reached[n - 1]
               \cup UNION {getOrInsert(functions, o).overriddenFunctions : o \in reached[n - 1]}
    IN reached[Cardinality(DOMAIN functions)]

buildFromJSON(functions, cg, version) ==
    LET read == ReadFunctions(functions, cg, version)
        overrides == [f \in {f \in DOMAIN read : read[f].isVirtual /\ read[f].doesOverride} |->
                        OverriddenFrom(read, f)]
        potentialTargets(o) == {f \in DOMAIN overrides : o \in overrides[f]}
    IN [f \in DOMAIN read \cup UNION Range(overrides) |->
          LET fi == getOrInsert(read, f)
          IN [fi EXCEPT !.overriddenBy = @ \cup potentialTargets(f),
                        !.overriddenFunctions =
                          @ \cup IF f \in DOMAIN overrides THEN overrides[f] ELSE {}]]

-----------------------------------------------------------------------------
(* mergeEquivalenceClasses: m is [data, merges], the container and what is *)
(* still to be merged in it.                                               *)

\* The three cases: the objects of class e are new, or are in one class, or in several,
\* which become one.
adoptClass(m, e) ==
    LET hit == {c \in m.data.classes : c.objects \cap e.objects # {}}
        Join(c, acc) ==
          [class |-> [objects |-> acc.class.objects \cup c.objects,
                      prefixes |-> GetPrefixesToMerge(acc.class.prefixes, c.prefixes)],
           merges |-> acc.merges \cup ObjectsToMerge(acc.class.prefixes, c.prefixes)]
        first == CHOOSE c \in hit : TRUE
        joined == Join(e, FoldSet(Join, [class |-> first, merges |-> m.merges], hit \ {first}))
    IN IF hit = {} THEN [m EXCEPT !.data.classes = @ \cup {e}]
       ELSE [data |-> [m.data EXCEPT !.classes = (@ \ hit) \cup {joined.class}],
             merges |-> joined.merges]

\* Parameters that have other names in the other file
ParamPairs(d, file) ==
    UNION {{<<d.functionInfo[f].params[i], file.functionInfo[f].params[i]>> :
              i \in DOMAIN d.functionInfo[f].params} :
             f \in DOMAIN d.functionInfo \cap DOMAIN file.functionInfo}

mergeFunctionInfo(mine, theirs) ==
    IF mine.returns = {} THEN [mine EXCEPT !.returns = theirs.returns] ELSE mine

mergeEquivalenceClasses(d, file) ==
    LET maps == [d EXCEPT !.functionMap = @ @@ file.functionMap,
                          !.functionInfo =
                            [f \in DOMAIN @ \cap DOMAIN file.functionInfo |->
                               mergeFunctionInfo(@[f], file.functionInfo[f])]
                            @@ @ @@ file.functionInfo,
                          !.callInfo = @ @@ file.callInfo]
        m == FoldSet(LAMBDA e, acc : adoptClass(acc, e), [data |-> maps, merges |-> {}], file.classes)
    IN [m EXCEPT !.merges = @ \cup {p \in ParamPairs(d, file) : p[1] # p[2]}]

\* addCallToCallGraph: the function that calls must be in the graph; one that is called
\* and is not in the graph is only warned of.
addCallToCallGraph(nodes, callers, callees) ==
    [n \in DOMAIN nodes |->
       [nodes[n] EXCEPT !.callees = IF n \in callers THEN @ \cup callees ELSE @,
                        !.callers = IF n \in callees THEN @ \cup callers ELSE @]]

\* The override sets are those that were collected over all files.
attachOverrides(nodes, functions) ==
    [n \in DOMAIN nodes |->
       [nodes[n] EXCEPT !.overrides = functions[n].overriddenFunctions,
                        !.overriddenBy = functions[n].overriddenBy]]
=============================================================================
