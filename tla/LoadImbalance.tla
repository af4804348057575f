--------------------------- MODULE LoadImbalance ---------------------------
(***************************************************************************)
(* Load imbalance detection (PGIS --lide): an iterative descent.  The      *)
(* first filter holds main; each later invocation reads the profile,       *)
(* instruments the callees of functions that take long enough, keeps the   *)
(* ones whose time differs between the locations (processes and threads)   *)
(* of the run, and exports its flags with the graph.                       *)
(***************************************************************************)
EXTENDS ScorepProfile

CONSTANTS
    NodeOrder,   \* the nodes in the order of their ids
    Instances,   \* pairs of a program and a configuration
    MaxRounds    \* bound on the invocations

VARIABLES
    p,           \* the program: as in Pgis, with callees, overrides and virtual of a format 1
                 \* file, and the inclusive times of each function at each location
    c,           \* the configuration (LIConfig), thresholds in percent
    round, file, \* invocations so far, the graph on disk
    ic,          \* the filter file
    imbalanced,  \* the flag Imbalanced, which is not carried over
    profile      \* the last profile

vars == <<p, c, round, file, ic, imbalanced, profile>>

-----------------------------------------------------------------------------
(* VersionOneMCGReader: callees, and what may be called in their place *)

\* All functions that f overrides, directly or not.
overriddenBy(q, f) == visited(q.overrides, f) \ {f}

potentialTargets(q, g) == {f \in q.virtual : g \in overriddenBy(q, f)}

buildGraph(q) ==
    q.callees \cup UNION {{e[1]} \X potentialTargets(q, e[2]) : e \in q.callees}

NewFile(q) ==
    [edges |-> IF q.version = 1 THEN buildGraph(q) ELSE q.callees,
     virtual |-> IF q.version = 1 THEN q.virtual ELSE {},
     prof |-> NoProfileData, visited |-> {}, irrelevant |-> {}]

-----------------------------------------------------------------------------
(* CgHelper::calculateInclusiveStatementCounts *)

inOrder(S) == SelectSeq(NodeOrder, LAMBDA n : n \in S)

\* FoldLeft over singletons, so that TLC evaluates an intermediate result once.
FoldOnce(Op(_, _), base, seq) ==
    CHOOSE r \in FoldLeft(LAMBDA R, x : {Op(v, x) : v \in R}, {base}, seq) : TRUE

\* Depth first, s = [seen, count, own]: own adds up the count of the node that is being
\* visited.  A node that was seen gives what it has, which is nothing while it is being
\* counted.
RECURSIVE visitNodeForInclusiveStatements(_, _, _, _)
visitNodeForInclusiveStatements(q, g, s, n) ==
    LET atMost == n \in g.virtual /\ q.stmts[n] = 0
        visit(t, m) == IF m \in t.seen THEN t ELSE visitNodeForInclusiveStatements(q, g, t, m)
        add(t, u, m) ==
          [u EXCEPT !.own = IF atMost THEN Max({t.own, u.count[m]}) ELSE t.own + u.count[m]]
        child(t, m) == CHOOSE r \in {add(t, u, m) : u \in {visit(t, m)}} : TRUE
        below == FoldOnce(child, [seen |-> s.seen \cup {n}, count |-> s.count, own |-> q.stmts[n]],
                          inOrder(getCallees(g.edges, n)))
    IN CHOOSE r \in {[t EXCEPT !.count[n] = t.own] : t \in {below}} : TRUE

inclusiveStatements(q, g) ==
    visitNodeForInclusiveStatements(q, g, [seen |-> {}, count |-> [n \in Nodes |-> 0], own |-> 0],
                                    q.main).count

-----------------------------------------------------------------------------
(* The metrics, over the times of the locations that are not zero *)

Values(q, n) == {l \in DOMAIN q.times[n] : q.times[n][l] > 0}
SumOf(q, n) == MapThenSumSet(LAMBDA l : q.times[n][l], Values(q, n))
MaxOf(q, n) == Max({q.times[n][l] : l \in Values(q, n)})
SquaresOf(q, n) == MapThenSumSet(LAMBDA l : q.times[n][l] * q.times[n][l], Values(q, n))

\* max / mean, in percent, of at least one location
Efficiency(q, n, count, t) == 100 * MaxOf(q, n) * count >= t * SumOf(q, n)

\* (max - mean) / max * count / (count - 1), and zero of one location
ImbalancePercentage(q, n, count, t) ==
    IF count = 1 THEN t <= 0
    ELSE 100 * (MaxOf(q, n) * count - SumOf(q, n)) >= t * MaxOf(q, n) * (count - 1)

\* stdev / mean, both sides squared
VariationCoeff(q, n, count, t) ==
    10000 * (count * SquaresOf(q, n) - SumOf(q, n) * SumOf(q, n)) >= t * t * SumOf(q, n) * SumOf(q, n)

\* The metric reaches the threshold; it is zero of no location.
imbalancedBy(q, cf, n) ==
    LET count == Cardinality(Values(q, n))
        t == cf.imbalanceThreshold
    IN IF count = 0 THEN t <= 0
       ELSE CASE cf.metric = "Efficiency" -> Efficiency(q, n, count, t)
              [] cf.metric = "ImbalancePercentage" -> ImbalancePercentage(q, n, count, t)
              [] cf.metric = "VariationCoeff" -> VariationCoeff(q, n, count, t)

-----------------------------------------------------------------------------
(* LIEstimatorPhase: g is the graph with the profile read into it,
   s = [instr, visited, irrelevant, imbalanced] what the phase changes *)

statementThreshold(q, cf, stmts, n) ==
    LET fraction(m) == (stmts[m] * cf.childFraction) \div 100
    IN CASE cf.childRelevance = "All" -> 0
         [] cf.childRelevance = "ConstantThreshold" -> cf.childConstant
         [] cf.childRelevance = "RelativeToParent" -> Max({fraction(n), cf.childConstant})
         [] cf.childRelevance = "RelativeToMain" -> Max({fraction(q.main), cf.childConstant})

\* Callees, and for virtual ones what they call.
candidates(g, n) ==
    UNION {visited({e \in g.edges : e[1] \in g.virtual}, m) : m \in getCallees(g.edges, n)}

\* MUTANT: descends to functions that were found irrelevant, too.
instrumentRelevantChildren_Again(q, cf, g, stmts, s, n) ==
    [s EXCEPT !.instr = @ \cup {m \in candidates(g, n) :
       stmts[m] >= statementThreshold(q, cf, stmts, n)}]

instrumentRelevantChildren(q, cf, g, stmts, s, n) ==
    [s EXCEPT !.instr = @ \cup
       {m \in candidates(g, n) \ s.irrelevant :
          stmts[m] >= statementThreshold(q, cf, stmts, n)}]

\* At least this share of the time of main.
isRelevant(q, cf, g, n) ==
    100 * g.prof[n].incl >= cf.relevanceThreshold * g.prof[q.main].incl

\* MUTANT: a balanced function is looked at again and again.
processNode_Again(q, cf, g, stmts, s, n) ==
    LET seen == [s EXCEPT !.visited = @ \cup {n}]
        down == instrumentRelevantChildren(q, cf, g, stmts, seen, n)
    IN IF n \in s.irrelevant THEN s
       ELSE IF ~isRelevant(q, cf, g, n) THEN [seen EXCEPT !.irrelevant = @ \cup {n}]
       ELSE IF imbalancedBy(q, cf, n)
         THEN [down EXCEPT !.imbalanced = @ \cup {n}, !.instr = @ \cup {n}]
       ELSE down

processNode(q, cf, g, stmts, s, n) ==
    LET seen == [s EXCEPT !.visited = @ \cup {n}]
        down == instrumentRelevantChildren(q, cf, g, stmts, seen, n)
    IN IF n \in s.irrelevant THEN s
       ELSE IF ~isRelevant(q, cf, g, n) THEN [seen EXCEPT !.irrelevant = @ \cup {n}]
       ELSE IF imbalancedBy(q, cf, n)
         THEN [down EXCEPT !.imbalanced = @ \cup {n}, !.instr = @ \cup {n}]
       ELSE [down EXCEPT !.irrelevant = @ \cup {n}]

\* n within so many calls of m
RECURSIVE within(_, _, _)
within(g, m, steps) ==
    IF steps = 0 THEN {m}
    ELSE {m} \cup UNION {within(g, k, steps - 1) : k \in getCallees(g.edges, m)}

reachableInNSteps(g, m, n, steps) == n \in within(g, m, steps)

\* MUTANT: all paths are those of the functions that were visited.
context_Major(q, cf, g, s, n) ==
    LET major == allNodesToMain(g.edges, q.main, n) \cap s.visited
    IN CASE cf.context \in {"None", "FindSynchronizationPoints"} -> {}
         [] cf.context \in {"AllPathsToMain", "MajorPathsToMain"} -> major
         [] cf.context = "MajorParentSteps" ->
              {m \in major : reachableInNSteps(g, m, n, cf.contextSteps)}

\* The context of an imbalanced function.  Synchronization points are found and not
\* instrumented.
context(q, cf, g, s, n) ==
    LET paths == allNodesToMain(g.edges, q.main, n)
        major == paths \cap s.visited
    IN CASE cf.context \in {"None", "FindSynchronizationPoints"} -> {}
         [] cf.context = "AllPathsToMain" -> paths
         [] cf.context = "MajorPathsToMain" -> major
         [] cf.context = "MajorParentSteps" ->
              {m \in major : reachableInNSteps(g, m, n, cf.contextSteps)}

contextHandling(q, cf, g, s) ==
    [s EXCEPT !.instr = @ \cup UNION {context(q, cf, g, s, n) : n \in s.imbalanced}]

modifyGraph(q, cf, g) ==
    LET start == [instr |-> {q.main}, visited |-> g.visited, irrelevant |-> g.irrelevant,
                  imbalanced |-> {}]
        descent(stmts) == FoldOnce(LAMBDA s, n : processNode(q, cf, g, stmts, s, n), start,
                                   inOrder(g.cube))
    IN CHOOSE r \in {contextHandling(q, cf, g, descent(stmts)) :
                       stmts \in {inclusiveStatements(q, g)}} : TRUE

-----------------------------------------------------------------------------
Init ==
    /\ \E i \in Instances : p = i[1] /\ c = i[2]
    /\ round = 0 /\ file = NewFile(p)
    /\ ic = [names |-> {}, calls |-> {}]
    /\ imbalanced = {} /\ profile = NoProfile

\* --static --lide without a profile: OnlyMainEstimatorPhase, and nothing is exported.
StaticSelection ==
    /\ round = 0
    /\ round' = 1
    /\ ic' = [names |-> {p.main}, calls |-> {}]
    /\ UNCHANGED <<p, c, file, imbalanced, profile>>

RunProgram ==
    /\ round > 0 /\ profile = NoProfile
    /\ profile' = Profile(p, ic)
    /\ UNCHANGED <<p, c, round, file, ic, imbalanced>>

\* The graph of the file, with the profile: what the phase works on.
readGraph ==
    [edges |-> file.edges \cup profile.calls, virtual |-> file.virtual,
     prof |-> addProfile(file.prof, profile.nodes), cube |-> DOMAIN profile.nodes,
     visited |-> file.visited, irrelevant |-> file.irrelevant]

\* --export: format 2, in which it is not known what is virtual.
exported(s) ==
    [edges |-> readGraph.edges, virtual |-> {}, prof |-> readGraph.prof,
     visited |-> s.visited, irrelevant |-> s.irrelevant]

DetectImbalance ==
    /\ profile # NoProfile /\ round < MaxRounds
    /\ \E s \in {modifyGraph(p, c, g) : g \in {readGraph}} :
          /\ ic' = [names |-> s.instr, calls |-> {}]
          /\ imbalanced' = s.imbalanced
          /\ file' = IF c.export THEN exported(s) ELSE file
    /\ round' = round + 1
    /\ profile' = NoProfile
    /\ UNCHANGED <<p, c>>

Done == round = MaxRounds /\ profile # NoProfile /\ UNCHANGED vars

Next == StaticSelection \/ RunProgram \/ DetectImbalance \/ Done

\* PIRA alternates between PGIS and the program until its last iteration.
Spec == Init /\ [][Next]_vars

-----------------------------------------------------------------------------
(* Properties *)

\* A function that an earlier invocation found irrelevant comes back into a filter only as
\* main or because it calls, directly or not, an imbalanced function, whose context it may
\* be part of under each of the strategies.
IrrelevantLeavesFilter ==
    [][round' > round /\ round > 0 =>
         \A n \in (file.irrelevant \ {p.main}) \cap ic'.names :
           \E m \in imbalanced' : m \in getDescendants(readGraph.edges, n)]_vars

\* Imbalanced functions stay in the filter, with all functions on paths from main to them
\* if that is the strategy: the paths of the graph that the collector wrote.
ContextInstrumented ==
    LET E == NewFile(p).edges
    IN /\ imbalanced \subseteq ic.names
       /\ c.context = "AllPathsToMain" =>
            \A n \in imbalanced, m \in getDescendants(E, p.main) :
              n \in getDescendants(E, m) => m \in ic.names

\* "Irrelevant and Visited will be carried over to the next iteration": no flag gets lost on
\* the way through the file, also with formats that differ.  Each function that is in the
\* filter and runs is decided by the invocation that follows: it is visited, and either
\* irrelevant from then on or imbalanced and in the next filter.
DescentDecides ==
    [][/\ file.visited \subseteq file'.visited /\ file.irrelevant \subseteq file'.irrelevant
       /\ round' > round /\ round > 0 /\ c.export =>
            \A n \in measurable(p, ic) :
              n \in file'.visited /\ (n \in file'.irrelevant <=> n \notin imbalanced' \cap ic'.names)]_vars
=============================================================================
