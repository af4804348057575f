-------------------------- MODULE EstimatorPhases --------------------------
(***************************************************************************)
(* The selection phases of PGIS that the tool registers: each is a         *)
(* function of the call graph it works on,                                 *)
(*                                                                         *)
(*   cg = [edges, instr, prof, cube, result]                               *)
(*                                                                         *)
(* where cube is the set of nodes with PiraOneData.comesFromCube, result   *)
(* the InstrumentationResultMetaData of each node, and of the program p    *)
(*                                                                         *)
(*   p = [main, body, mpi, stmts, metric, models, kernels]                 *)
(*                                                                         *)
(* under the options o of the command line.  Times and visits are integers *)
(* and a time per call is compared as a fraction.                          *)
(***************************************************************************)
EXTENDS CgHelper, ScorepProfile

CONSTANT NodeOrder   \* the nodes in the order of their ids, in which getNodes gives them

reachable(p, cg) == getDescendants(cg.edges, p.main)

(* InstrumentationResultMetaData: absent, or what the last profiles gave; sum / visits
   is inclusiveTimePerCallSum. *)
NoResult == [has |-> FALSE, calls |-> 0, time |-> 0, excl |-> FALSE, should |-> FALSE,
             sum |-> 0, visits |-> 1]
DefaultResult == [NoResult EXCEPT !.has = TRUE]

lessTimePerCall(r, s) == r.sum * s.visits < s.sum * r.visits

\* This node was measured or expected, and is not called in the program.
neverCalled(r) == r.has /\ r.calls = 0 /\ r.excl

-----------------------------------------------------------------------------
(* Counting phases: StatementCountEstimatorPhase and the SummingCountPhaseBase family *)

\* The sum of a metric over the nodes that n reaches in the part main reaches.
inclusiveCount(p, cg, metric, n) ==
    LET E == {e \in cg.edges : e[2] \in reachable(p, cg)}
    IN MapThenSumSet(LAMBDA m : metric[m], visited(E, n))

inclusiveStmts(p, cg, n) == inclusiveCount(p, cg, p.stmts, n)

\* No body and no time of its own: instrument the calls to it.
pathOnly(p, cg, n) == n \notin p.body /\ cg.prof[n].time = 0

selectCount(p, cg, usePath, selected, S) ==
    [cg EXCEPT !.instr =
       [n \in Nodes |-> IF n \notin S THEN cg.instr[n]
                        ELSE IF usePath /\ pathOnly(p, cg, n) THEN "Path"
                        ELSE IF n \in selected THEN "Instrumented" ELSE cg.instr[n]]]

\* estimateStatementCount of the nodes S, inclusively.
StatementCount(p, o, cg, threshold, S) ==
    selectCount(p, cg, o.cs, {n \in S : inclusiveStmts(p, cg, n) >= threshold}, S)

\* The count a heuristic takes of a node: the number of conditional branches or what is
\* missing to the most of any node, operations, or a loop depth, which is exclusive.
getTargetCount(p, heuristic) ==
    IF heuristic = "conditionalbranches_reverse"
      THEN LET most == Max({p.metric[n] : n \in Nodes}) IN [n \in Nodes |-> most - p.metric[n]]
      ELSE p.metric

isInclusive(heuristic) == heuristic \notin {"loopdepth", "global_loopdepth"}

estimateCount(p, cg, heuristic, n) ==
    LET count == getTargetCount(p, heuristic)
    IN IF isInclusive(heuristic) THEN inclusiveCount(p, cg, count, n) ELSE count[n]

\* Without regard to the option for call sites; above: no count reaches this threshold.
SummingCount(p, cg, heuristic, threshold) ==
    LET S == reachable(p, cg)
    IN selectCount(p, cg, TRUE, {n \in S : estimateCount(p, cg, heuristic, n) >= threshold}, S)

Unreachable == 1000000   \* 999999999 and the largest long: a threshold above all counts

-----------------------------------------------------------------------------
(* StatisticsEstimatorPhase: a histogram of the inclusive statements, from the counting
   phases run with thresholds that nothing meets. *)
Statistics(p, o, cg) ==
    LET counted == StatementCount(p, o, cg, Unreachable, reachable(p, cg))
    IN IF o.heuristic = "statements" THEN counted
       ELSE SummingCount(p, counted, o.heuristic, Unreachable)

stmtInclHist(p, cg) == [n \in reachable(p, cg) |-> inclusiveStmts(p, cg, n)]

\* The element at position size / 2, from zero, of the sorted values of f.
medianAt(f, S) ==
    LET sorted == SortSeq(f, LAMBDA a, b : a < b) IN sorted[(S \div 2) + 1]

getCuttoffNumInclStmts(o, hist) ==
    LET values == {hist[n] : n \in DOMAIN hist}
        all == [i \in 1..Cardinality(DOMAIN hist) |-> hist[SetToSeq(DOMAIN hist)[i]]]
    IN CASE o.cutoff = "max" -> Max(values) \div 2
         [] o.cutoff = "median" -> medianAt(all, Len(all))
         [] o.cutoff = "unique_median" -> medianAt(SetToSeq(values), Cardinality(values))

\* The threshold of a static selection.  Only the histogram of statements is ever filled:
\* the others are empty, for which the cut-off is zero.
selectionThreshold(p, o, cg) ==
    IF o.heuristic = "statements" THEN getCuttoffNumInclStmts(o, stmtInclHist(p, cg)) ELSE 0

StaticSelection(p, o, cg, cutoff) ==
    IF o.heuristic = "statements" THEN StatementCount(p, o, cg, cutoff, reachable(p, cg))
    ELSE SummingCount(p, cg, o.heuristic, cutoff)

-----------------------------------------------------------------------------
(* AttachInstrumentationResultsEstimatorPhase *)

\* Selected, but not in the profile: no calls, and none in future.
zeroResult == [DefaultResult EXCEPT !.excl = TRUE]

measuredResult(cg, n) ==
    LET r == cg.result[n]
        kept == r.has /\ r.excl
        below == getDescendants(cg.edges, n)
    IN [has |-> TRUE, should |-> r.should,
        calls |-> IF kept THEN r.calls ELSE cg.prof[n].calls,
        time |-> IF kept THEN r.time ELSE cg.prof[n].time,
        excl |-> IF kept THEN r.excl ELSE getCallees(cg.edges, n) \subseteq cg.cube,
        sum |-> MapThenSumSet(LAMBDA m : cg.prof[m].time, below),
        visits |-> cg.prof[n].calls]

\* MUTANT: every profile replaces what is known of the node.
AttachInstrumentationResults_Replace(cg) ==
    [cg EXCEPT !.result = [n \in Nodes |->
       IF n \notin cg.cube THEN cg.result[n]
       ELSE [measuredResult(cg, n) EXCEPT !.calls = cg.prof[n].calls, !.time = cg.prof[n].time]]]

AttachInstrumentationResults(cg) ==
    [cg EXCEPT !.result = [n \in Nodes |->
       IF n \in cg.cube THEN measuredResult(cg, n)
       ELSE IF cg.result[n].has /\ cg.result[n].should THEN zeroResult
       ELSE cg.result[n]]]

-----------------------------------------------------------------------------
(* FillInstrumentationGapsPhase *)

\* Instrument n where the options allow it: by itself, or the calls to it.
byItself(p, o, n) == n \in p.body \cup p.mpi \/ (~o.eligible /\ ~o.cs)
byCallSite(p, o, cg, n) ==
    ~byItself(p, o, n) /\ o.cs
    /\ (o.eligible => isEligibleForPathInstrumentation(cg.edges, p.body, n))

hasGap(cg, n) ==
    /\ isAnyInstrumented(cg.instr, n)
    /\ \E c \in getCallers(cg.edges, n) : ~isAnyInstrumented(cg.instr, c)

nodesToFill(p, cg) ==
    {n \in UNION {allNodesToMain(cg.edges, p.main, m) : m \in {k \in Nodes : hasGap(cg, k)}} :
       ~isAnyInstrumented(cg.instr, n) /\ ~neverCalled(cg.result[n])}

\* MUTANT: only the callers of an instrumented node are filled.
FillInstrumentationGaps_Callers(p, o, cg) ==
    [cg EXCEPT !.instr = [n \in Nodes |->
       IF /\ \E m \in getCallees(cg.edges, n) : isAnyInstrumented(cg.instr, m)
          /\ ~isAnyInstrumented(cg.instr, n) /\ byItself(p, o, n)
         THEN "Instrumented" ELSE cg.instr[n]]]

FillInstrumentationGaps(p, o, cg) ==
    [cg EXCEPT !.instr = [n \in Nodes |->
       IF n \notin nodesToFill(p, cg) THEN cg.instr[n]
       ELSE IF byItself(p, o, n) THEN "Instrumented"
       ELSE IF byCallSite(p, o, cg, n) THEN "Path" ELSE cg.instr[n]]]

\* StoreInstrumentationDecisionsPhase
StoreInstrumentationDecisions(cg) ==
    [cg EXCEPT !.result = [n \in Nodes |->
       IF isAnyInstrumented(cg.instr, n)
         THEN [cg.result[n] EXCEPT !.has = TRUE, !.should = TRUE]
         ELSE [cg.result[n] EXCEPT !.should = FALSE]]]

-----------------------------------------------------------------------------
(* Extra-P: kernels are the nodes whose model or median runtime exceeds the threshold of
   the configuration (external), models the nodes that have models.  A graph of format 2
   never sets PiraOneData.hasBody: no node has a body here. *)
ExtrapNode(p, o, cg, n) ==
    LET path == IF o.extrap = "filter" THEN o.cs ELSE cg.prof[n].time = 0
        self == IF path THEN instrumentPathNode(cg.instr, n) ELSE instrumentNode(cg.instr, n)
        up == [cg EXCEPT !.instr =
                 instrumentNodes(self, allNodesToMain(cg.edges, p.main, n))]
    IN IF o.extrap = "filter" THEN up
       ELSE StatementCount(p, o, up, o.stmtThreshold,
                           getCallees(cg.edges, n) \ p.models)

ExtrapLocal(p, o, cg) ==
    FoldLeft(LAMBDA g, n : ExtrapNode(p, o, g, n), cg,
             SelectSeq(NodeOrder, LAMBDA n : n \in p.kernels))
=============================================================================
