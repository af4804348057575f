-------------------------- MODULE RuntimeEstimator --------------------------
(***************************************************************************)
(* RuntimeEstimatorPhase: the selection from a profile.  Without a target  *)
(* overhead it follows the callees with the longest time from main, one    *)
(* node of its work queue at a time; with one it keeps what was profiled   *)
(* and kicks nodes until the calls that are left fit into the budget.      *)
(* std::sort leaves the order of equal nodes open, std::shuffle any order. *)
(***************************************************************************)
EXTENDS EstimatorPhases

-----------------------------------------------------------------------------
(* doInstrumentation *)

\* Callees that can be the principal one.
profiledCallees(cg, n) ==
    {c \in (getCallees(cg.edges, n) \ {n}) \cap cg.cube : aboveThreshold(cg.prof, c)}

principals(cg, n) ==
    {c \in profiledCallees(cg, n) :
       \A d \in profiledCallees(cg, n) : cg.prof[d].incl <= cg.prof[c].incl}

\* (maxStmts / numChildren) * .3, in whole statements
stmtThreshold(p, cg, n) ==
    LET stmts == [c \in getCallees(cg.edges, n) |-> inclusiveStmts(p, cg, c)]
        some == {c \in DOMAIN stmts : stmts[c] > 0}
    IN IF some = {} THEN 1
       ELSE ((Max({stmts[c] : c \in some}) \div Cardinality(some)) * 3) \div 10

\* The callees that a visit of n selects, if maxRtChild is the set of its principal callee
\* or empty: it, or the large ones if n is on the dominant path.
selectedCallees(p, cg, dominant, n, maxRtChild) ==
    IF stmtThreshold(p, cg, n) < 1 THEN {}
    ELSE IF maxRtChild # {} THEN maxRtChild
    ELSE IF n \notin dominant THEN {}
    ELSE {c \in getCallees(cg.edges, n) : inclusiveStmts(p, cg, c) > stmtThreshold(p, cg, n)}

doInstrumentation(p, o, cg, dominant, n, maxRtChild) ==
    LET self == [cg EXCEPT !.instr = instrumentNode(@, n)]
        counted == StatementCount(p, o, self, Unreachable, getCallees(cg.edges, n))
        selected == selectedCallees(p, cg, dominant, n, maxRtChild)
    IN [cg |-> [counted EXCEPT !.instr = instrumentNodes(@, selected)],
        dominant |-> dominant \cup (selected \cap maxRtChild)]

-----------------------------------------------------------------------------
(* modifyGraphOverhead: the profiled nodes, and the budget in calls * scale *)

instrumentProfiled(p, o, cg) ==
    LET self == {n \in cg.cube : byItself(p, o, n)}
        path == IF o.cs THEN cg.cube \ self ELSE {}
    IN [cg EXCEPT !.instr = instrumentNodes(instrumentPathNodes(@, path), self)]

\* thresholdHotspotInclusive and -Exclusive, in percent of the time of main
isHotspot(p, o, cg, n) ==
    LET r == cg.result[n]
        total == cg.result[p.main].sum
    IN 100 * r.sum >= total * o.hotIncl \/ 100 * r.time >= total * o.hotExcl

hotspots(p, o, cg) == {n \in cg.cube : isHotspot(p, o, cg, n)}

totalExclusiveCalls(cg) == MapThenSumSet(LAMBDA n : cg.prof[n].calls, Nodes)

scale(o) == 100 * o.den

\* targetOverheadScaled / prevOverheadScaled = num / den, at most ten; the budget for
\* exploration is in percent.
callsToKick(o, cg) ==
    LET total == totalExclusiveCalls(cg)
        num == IF o.num > 10 * o.den THEN 10 * o.den ELSE o.num
        keep == Min({total * num * (100 - o.budget), total * scale(o)})
        kick == total * scale(o) - keep
    IN IF kick >= scale(o) THEN kick ELSE 0

-----------------------------------------------------------------------------
(* Kicking: k = [instr, kicked (a number of calls), isKicked, stop] *)

NothingKicked(cg) == [instr |-> cg.instr, kicked |-> 0, isKicked |-> {}, stop |-> FALSE]

kickSingleNode(cg, k, n) ==
    [k EXCEPT !.instr = resetInstrumentation(@, n), !.kicked = @ + cg.result[n].calls,
              !.isKicked = @ \cup {n}]

enough(o, cg, k) == k.kicked * scale(o) >= callsToKick(o, cg)

\* The orders in which a sort by time per call leaves S.
sortedByTimePerCall(cg, S) ==
    {s \in SetToSeqs(S) :
       \A i \in 2..Len(s) : ~lessTimePerCall(cg.result[s[i]], cg.result[s[i - 1]])}

\* What a node has to be to be kicked
passes(cg, check, instr, n) ==
    CASE check = "any" -> TRUE
      [] check = "leaf" -> isLeafInstrumentationNode(cg.edges, instr, n)
      [] check = "instrumented" -> isAnyInstrumented(instr, n)

\* One pass over the nodes of an order: kick those that pass the check, until enough is
\* kicked or main was visited.
kickPass(p, o, cg, check, k, order) ==
    FoldLeft(LAMBDA j, n :
               IF j.stop THEN j
               ELSE LET l == IF passes(cg, check, j.instr, n) THEN kickSingleNode(cg, j, n) ELSE j
                    IN [l EXCEPT !.stop = enough(o, cg, l) \/ n = p.main],
             [k EXCEPT !.stop = FALSE], order)

\* MUTANT: does not look whether it is enough.
kickNodesFromInstrumentation_All(p, o, cg, k, order) ==
    FoldLeft(LAMBDA j, n : kickSingleNode(cg, j, n), k, order)

kickNodesFromInstrumentation(p, o, cg, k, order) == kickPass(p, o, cg, "any", k, order)

kickNodesByRuntimePerCall(p, o, cg, cold, hot) ==
    LET first == kickNodesFromInstrumentation(p, o, cg, NothingKicked(cg), cold)
    IN IF enough(o, cg, first) THEN first
       ELSE kickNodesFromInstrumentation(p, o, cg, first, hot)

\* The cold nodes but the 20% with the fewest calls are tried first, and only leaves.
fewestCalls(cg, S) ==
    {T \in SUBSET S :
       /\ Cardinality(T) = Cardinality(S) \div 5
       /\ \A n \in T, m \in S \ T : cg.result[n].calls <= cg.result[m].calls}

kickNodesByRuntimePerCallKeepSmall(p, o, cg, cold, little, hot) ==
    LET first == kickPass(p, o, cg, "leaf", NothingKicked(cg),
                          SelectSeq(cold, LAMBDA n : n \notin little))
        second == kickPass(p, o, cg, "instrumented", first, cold)
    IN IF enough(o, cg, first) THEN first
       ELSE IF enough(o, cg, second) THEN second
       ELSE kickNodesFromInstrumentation(p, o, cg, second, hot)

\* Of the first node in the order that passes the check, or nothing.
kickFirst(p, cg, check, k, order) ==
    LET found == SelectSeq(order, LAMBDA n : n # p.main /\ passes(cg, check, k.instr, n))
    IN IF found = <<>> THEN k ELSE kickSingleNode(cg, k, found[1])

kickNodesRandomly(p, o, cg, cold, hot) ==
    LET strict(k) == kickFirst(p, cg, "leaf", k, cold)
        weakly(k) ==
            LET onCold == kickFirst(p, cg, "instrumented", k, cold)
                onHot == kickFirst(p, cg, "leaf", k, hot)
            IN IF onCold # k THEN onCold
               ELSE IF onHot # k THEN onHot
               ELSE kickFirst(p, cg, "instrumented", k, hot)
        while(Step(_), k, times) ==
            FoldLeft(LAMBDA j, i : IF enough(o, cg, j) THEN j ELSE Step(j), k, times)
    IN while(weakly, while(strict, NothingKicked(cg), cold), cold \o hot)

\* What an algorithm can leave, from the profiled nodes.
kickResults(p, o, cg) ==
    LET hot == hotspots(p, o, cg)
        cold == cg.cube \ hot
    IN CASE callsToKick(o, cg) = 0 -> {NothingKicked(cg)}
         [] o.overhead = "TimePerCall" ->
              {kickNodesByRuntimePerCall(p, o, cg, c, h) :
                 c \in sortedByTimePerCall(cg, cold), h \in sortedByTimePerCall(cg, hot)}
         [] o.overhead = "TimePerCallKeepSmall" ->
              {kickNodesByRuntimePerCallKeepSmall(p, o, cg, c, l, h) :
                 c \in sortedByTimePerCall(cg, cold), l \in fewestCalls(cg, cold),
                 h \in sortedByTimePerCall(cg, hot)}
         [] o.overhead = "Random" ->
              {kickNodesRandomly(p, o, cg, c, h) : c \in SetToSeqs(cold), h \in SetToSeqs(hot)}

\* exit(-1), once the hotspots were tried, to which main always belongs: the goal is not
\* reached, or main was kicked.
overheadFails(p, o, cg, k) == ~enough(o, cg, k) \/ p.main \in k.isKicked

\* The nodes that would be explored are none: the estimate of their calls is stored before
\* TemporaryInstrumentationDecisionMetadata exists only, which the first loop of the phase
\* creates for all nodes.  What is left is the kicked instrumentation, with main.
modifyGraphOverhead(p, cg, k) == [cg EXCEPT !.instr = instrumentNode(k.instr, p.main)]
=============================================================================
