------------------------------ MODULE CgHelper ------------------------------
(***************************************************************************)
(* The graph helpers of PGIS: searches over a call graph with edges E, the *)
(* state of a node's instrumentation and the profile a node carries.  The  *)
(* searches are work lists with a set of visited nodes, so what they       *)
(* return is a set of nodes on paths.                                      *)
(***************************************************************************)
EXTENDS Integers, Sequences, SequencesExt

CONSTANT Nodes   \* the functions of the program

getCallees(E, n) == {m \in Nodes : <<n, m>> \in E}
getCallers(E, n) == {m \in Nodes : <<m, n>> \in E}

\* The nodes that a work list which starts with n and follows E visits.
visited(E, n) ==
    LET within[i \in 0..Cardinality(Nodes)] ==
          IF i = 0 THEN {n}
          ELSE LET near == within[i - 1]
               IN near \cup {e[2] : e \in {f \in E : f[1] \in near}}
    IN within[Cardinality(Nodes)]

Converse(E) == {<<e[2], e[1]>> : e \in E}

getDescendants(E, n) == visited(E, n)
getAncestors(E, n) == visited(Converse(E), n)

\* InstrumentationMetaData: the state of a node.
InstrumentationState == {"None", "Instrumented", "Path"}
NoInstrumentation == [n \in Nodes |-> "None"]

instrumentNode(instr, n) == [instr EXCEPT ![n] = "Instrumented"]
instrumentPathNode(instr, n) == [instr EXCEPT ![n] = "Path"]
resetInstrumentation(instr, n) == [instr EXCEPT ![n] = "None"]
isAnyInstrumented(instr, n) == instr[n] # "None"

instrumentNodes(instr, S) ==
    [n \in Nodes |-> IF n \in S THEN "Instrumented" ELSE instr[n]]
instrumentPathNodes(instr, S) ==
    [n \in Nodes |-> IF n \in S THEN "Path" ELSE instr[n]]

\* An instrumented node that calls no other instrumented node.
isLeafInstrumentationNode(E, instr, n) ==
    /\ isAnyInstrumented(instr, n)
    /\ \A c \in getCallees(E, n) \ {n} : ~isAnyInstrumented(instr, c)

\* The call sites of a node can be instrumented if some caller has a body.
isEligibleForPathInstrumentation(E, body, n) ==
    getCallers(E, n) \cap body # {}

\* The nodes on paths from main to n, with main: the search goes up the
\* callers, from nodes that main reaches only.
allNodesToMain(E, main, n) ==
    LET reachable == getDescendants(E, main)
        up == {<<e[2], e[1]>> : e \in {f \in E : f[2] \in reachable}}
    IN {main} \cup (visited(up, n) \cap reachable)

\* BaseProfileData: visits, exclusive and inclusive time, accumulated over the
\* profiles that were read into the graph.
NoProfileData == [n \in Nodes |-> [calls |-> 0, time |-> 0, incl |-> 0]]

addProfile(prof, measured) ==
    [n \in Nodes |->
       IF n \in DOMAIN measured
         THEN [calls |-> prof[n].calls + measured[n].calls,
               time |-> prof[n].time + measured[n].time,
               incl |-> prof[n].incl + measured[n].incl]
         ELSE prof[n]]

\* The largest inclusive time, of which calcRuntimeThreshold takes one half;
\* it throws if no node has one.
InclusiveTimes(prof) == {prof[n].incl : n \in Nodes} \ {0}
calcRuntimeThreshold(prof) == Max(InclusiveTimes(prof))
aboveThreshold(prof, n) == 2 * prof[n].incl >= calcRuntimeThreshold(prof)
=============================================================================
