-------------------------------- MODULE Pgis --------------------------------
(***************************************************************************)
(* PGIS in the loop it is made for: an invocation reads the call graph,    *)
(* selects functions by a sequence of estimator phases, each of which      *)
(* writes the filter file anew, and writes the graph with its metadata;    *)
(* the program is built with that filter and run, and the next invocation  *)
(* reads the profile.  Building, running and Score-P are external.         *)
(***************************************************************************)
EXTENDS RuntimeEstimator

CONSTANTS
    Instances,   \* programs (see EstimatorPhases, with the calls a run makes), each with
                 \* the options of a command line
    MaxRounds    \* bound on the invocations

VARIABLES
    p, o,        \* the program and the options
    round,       \* invocations so far
    stage,       \* where the running invocation is
    cmd,         \* its command line: --static, --cube, and whether it was given the
                 \* graph that the last invocation wrote
    file,        \* the graph on disk
    cg,          \* the graph in memory
    phases,      \* PiraMCGProcessor.phases, a queue
    cutoff,      \* the threshold that the first StatisticsEstimatorPhase gives
    work,        \* RuntimeEstimatorPhase: its work queue, visited nodes, dominant nodes
    isKicked,    \* TemporaryInstrumentationDecisionMetadata.isKicked
    ic,          \* the filter file
    profile      \* the last profile

vars == <<p, o, round, stage, cmd, file, cg, phases, cutoff, work, isKicked, ic, profile>>

NoWork == [queue |-> <<>>, visited |-> {}, dominant |-> {}]
NoFilter == [names |-> {}, calls |-> {}]

\* What is written of a graph: edges, BaseProfileData and InstrumentationResultMetaData.
exported(g) == [edges |-> g.edges, prof |-> g.prof, result |-> g.result]

\* Reading it: nothing is instrumented, nothing comes from a profile.
readGraph(f) ==
    [edges |-> f.edges, instr |-> NoInstrumentation, prof |-> f.prof, cube |-> {},
     result |-> f.result]

NewGraph(q) ==
    [edges |-> q.edges, prof |-> NoProfileData, result |-> [n \in Nodes |-> NoResult]]

Init ==
    /\ \E i \in Instances : p = i[1] /\ o = i[2]
    /\ round = 0 /\ stage = "idle" /\ cmd = [static |-> FALSE, cube |-> FALSE, own |-> FALSE]
    /\ file = NewGraph(p)
    /\ cg = readGraph(file)
    /\ phases = <<>> /\ cutoff = 0 /\ work = NoWork /\ isKicked = {}
    /\ ic = NoFilter /\ profile = NoProfile

-----------------------------------------------------------------------------
(* The program is built with the filter and run: external. *)
RunProgram ==
    /\ stage = "idle" /\ round > 0 /\ profile = NoProfile
    /\ profile' = Profile(p, ic)
    /\ UNCHANGED <<p, o, round, stage, cmd, file, cg, phases, cutoff, work, isKicked, ic>>

-----------------------------------------------------------------------------
(* PGISMain *)

optional(b, phase) == IF b THEN <<phase>> ELSE <<>>

registerEstimatorPhases(isIPCG) ==
    <<"Statistics", IF isIPCG THEN "StaticSelection" ELSE "Runtime">>
    \o optional(o.fillGaps, "FillGaps") \o <<"Statistics", "Store">>

\* MUTANT: the calls of a profile are not entered into the graph.
readFromCube_NoEdges(g) ==
    IF profile = NoProfile THEN g
    ELSE [g EXCEPT !.prof = addProfile(@, profile.nodes), !.cube = DOMAIN profile.nodes]

\* The cube reader adds the calls it sees as edges, and to the profile data.
readFromCube(g) ==
    IF profile = NoProfile THEN g
    ELSE [g EXCEPT !.edges = @ \cup profile.calls, !.prof = addProfile(@, profile.nodes),
                   !.cube = DOMAIN profile.nodes]

dynamicPhases ==
    <<"Attach">>
    \o (IF profile = NoProfile THEN <<>> ELSE registerEstimatorPhases(FALSE))
    \o optional(o.extrap # "off", "Extrap")
    \o optional(o.extrap # "off" /\ o.fillGaps, "FillGaps")

\* The graph f is the one of the collector, or the one that the last invocation wrote.
\* --static, --cube (if there is a profile) and --extrap are independent of each other:
\* with none of them the results are attached and nothing is selected.
Start(static, f) ==
    /\ stage = "idle" /\ round < MaxRounds
    /\ round' = round + 1
    /\ cmd' = [static |-> static, cube |-> profile # NoProfile, own |-> f = file]
    /\ work' = NoWork /\ isKicked' = {} /\ cutoff' = 0
    /\ LET g == readGraph(f)
       IN IF static
            THEN /\ stage' = "static" /\ cg' = g /\ phases' = registerEstimatorPhases(TRUE)
            ELSE /\ stage' = "dynamic" /\ cg' = readFromCube(g) /\ phases' = dynamicPhases
    /\ UNCHANGED <<p, o, file, ic, profile>>

\* The static phases are applied; the attach phase is registered in any case.
Continue ==
    /\ stage = "static" /\ phases = <<>>
    /\ stage' = "dynamic"
    /\ cg' = readFromCube(cg)
    /\ phases' = dynamicPhases
    /\ UNCHANGED <<p, o, round, cmd, file, cutoff, work, isKicked, ic, profile>>

Finish ==
    /\ stage = "dynamic" /\ phases = <<>>
    /\ stage' = "idle"
    /\ file' = exported(cg)
    /\ profile' = NoProfile
    /\ UNCHANGED <<p, o, round, cmd, cg, phases, cutoff, work, isKicked, ic>>

-----------------------------------------------------------------------------
(* PiraMCGProcessor::applyRegisteredPhases: every phase ends with its filter file *)

instrumentedNodes(g) == {n \in Nodes : g.instr[n] = "Instrumented"}
pathNodes(g) == {n \in Nodes : g.instr[n] = "Path"}

\* Paths are in the file in Score-P's format only, as calls from each caller.
dumpInstrumentedNames(g) ==
    [names |-> instrumentedNodes(g),
     calls |-> IF o.scorep
                 THEN {e \in g.edges : e[2] \in pathNodes(g)} ELSE {}]

phaseIs(name) == stage \in {"static", "dynamic"} /\ phases # <<>> /\ Head(phases) = name

EndPhase(g) ==
    /\ cg' = g
    /\ ic' = dumpInstrumentedNames(g)
    /\ phases' = Tail(phases)
    /\ UNCHANGED <<p, o, round, stage, cmd, file, profile>>

StatisticsPhase ==
    /\ phaseIs("Statistics")
    /\ EndPhase(Statistics(p, o, cg))
    /\ cutoff' = selectionThreshold(p, o, cg)
    /\ UNCHANGED <<work, isKicked>>

StaticSelectionPhase ==
    /\ phaseIs("StaticSelection")
    /\ EndPhase(StaticSelection(p, o, cg, cutoff))
    /\ UNCHANGED <<cutoff, work, isKicked>>

FillGapsPhase ==
    /\ phaseIs("FillGaps")
    /\ EndPhase(FillInstrumentationGaps(p, o, cg))
    /\ UNCHANGED <<cutoff, work, isKicked>>

AttachPhase ==
    /\ phaseIs("Attach")
    /\ EndPhase(AttachInstrumentationResults(cg))
    /\ UNCHANGED <<cutoff, work, isKicked>>

StorePhase ==
    /\ phaseIs("Store")
    /\ EndPhase(StoreInstrumentationDecisions(cg))
    /\ UNCHANGED <<cutoff, work, isKicked>>

ExtrapPhase ==
    /\ phaseIs("Extrap")
    /\ EndPhase(ExtrapLocal(p, o, cg))
    /\ UNCHANGED <<cutoff, work, isKicked>>

-----------------------------------------------------------------------------
(* RuntimeEstimatorPhase, with its work queue from main *)

inRuntimePhase == phaseIs("Runtime") /\ o.overhead = "None"

StartRuntime ==
    /\ inRuntimePhase /\ work = NoWork
    /\ InclusiveTimes(cg.prof) # {}
    /\ work' = [queue |-> <<p.main>>, visited |-> {}, dominant |-> {p.main}]
    /\ UNCHANGED <<p, o, round, stage, cmd, file, cg, phases, cutoff, isKicked, ic, profile>>

VisitRuntime ==
    /\ inRuntimePhase /\ work.queue # <<>>
    /\ LET n == Head(work.queue)
           maxRtChildren == IF principals(cg, n) = {} THEN {{}}
                            ELSE {{c} : c \in principals(cg, n)}
       IN IF n \in work.visited
            THEN work' = [work EXCEPT !.queue = Tail(@)] /\ UNCHANGED cg
            ELSE \E maxRtChild \in maxRtChildren, order \in SetToSeqs(getCallees(cg.edges, n)) :
                   LET visit == IF aboveThreshold(cg.prof, n)
                                  THEN doInstrumentation(p, o, cg, work.dominant, n, maxRtChild)
                                  ELSE [cg |-> cg, dominant |-> work.dominant]
                   IN /\ cg' = visit.cg
                      /\ work' = [queue |-> Tail(work.queue) \o order,
                                  visited |-> work.visited \cup {n},
                                  dominant |-> visit.dominant]
    /\ UNCHANGED <<p, o, round, stage, cmd, file, phases, cutoff, isKicked, ic, profile>>

EndRuntime ==
    /\ inRuntimePhase /\ work.visited # {} /\ work.queue = <<>>
    /\ EndPhase([cg EXCEPT !.instr = instrumentNode(@, p.main)])
    /\ UNCHANGED <<cutoff, work, isKicked>>

\* calcRuntimeThreshold throws, or the algorithms for a target overhead exit.
Abort ==
    /\ stage' = "failed"
    /\ UNCHANGED <<p, o, round, cmd, file, cg, phases, cutoff, work, isKicked, ic, profile>>

NoRuntime == inRuntimePhase /\ InclusiveTimes(cg.prof) = {} /\ Abort

OverheadPhase ==
    /\ phaseIs("Runtime") /\ o.overhead # "None"
    /\ LET g == instrumentProfiled(p, o, cg)
       IN \E k \in kickResults(p, o, g) :
            IF overheadFails(p, o, g, k) THEN Abort
            ELSE /\ EndPhase(modifyGraphOverhead(p, g, k))
                 /\ isKicked' = k.isKicked
                 /\ UNCHANGED <<cutoff, work>>

Over == stage = "failed" \/ (stage = "idle" /\ round = MaxRounds)
Done == Over /\ UNCHANGED vars

Next ==
    \/ \E static \in BOOLEAN, f \in {file, NewGraph(p)} : Start(static, f)
    \/ Continue \/ Finish \/ RunProgram
    \/ StatisticsPhase \/ StaticSelectionPhase \/ FillGapsPhase
    \/ AttachPhase \/ StorePhase \/ ExtrapPhase
    \/ StartRuntime \/ VisitRuntime \/ EndRuntime \/ NoRuntime
    \/ OverheadPhase
    \/ Done

Spec == Init /\ [][Next]_vars

-----------------------------------------------------------------------------
(* Properties *)

AtRest == stage = "idle" /\ round > 0

\* Whatever the heuristic, the cut-off and the algorithm that kicks nodes, an invocation
\* that selects statically, by a profile, or by a model of a function main reaches, leaves
\* a filter file with main in it, without which no profile has a root.  With the option to
\* fill gaps, no function that is known to be called and can be instrumented is left out
\* between main and an instrumented function main reaches.
GapsFilled ==
    AtRest =>
      /\ cmd.static \/ cmd.cube \/ (o.extrap # "off" /\ p.kernels \cap reachable(p, cg) # {})
           => p.main \in ic.names
      /\ o.fillGaps => \A n \in reachable(p, cg) : isAnyInstrumented(cg.instr, n) =>
           \A a \in allNodesToMain(cg.edges, p.main, n) :
             \/ isAnyInstrumented(cg.instr, a)
             \/ neverCalled(cg.result[a])
             \/ ~byItself(p, o, a) /\ ~byCallSite(p, o, cg, a)

\* Once a profile was read, its functions are reachable from main by calls between them,
\* although what is called between two of them may not be measured or not be known: the
\* phase that follows the time from main looks at measured callees only.
ProfiledNodesReachable ==
    cg.cube \subseteq getDescendants({e \in cg.edges : e[1] \in cg.cube /\ e[2] \in cg.cube}, p.main)

\* The algorithms for a target overhead kick enough calls, and do not go on after that:
\* without one of the nodes it would not have been enough.
KicksWhatIsNeeded ==
    LET kicked(S) == [NothingKicked(cg) EXCEPT !.kicked =
                        MapThenSumSet(LAMBDA n : cg.result[n].calls, S)]
    IN isKicked # {} =>
         /\ enough(o, cg, kicked(isKicked))
         /\ \E n \in isKicked : ~enough(o, cg, kicked(isKicked \ {n}))

\* "This information should not change between iterations": no later invocation that is
\* given the graph replaces what was measured of a function and all its callees by another
\* measurement, although the profile data that goes with the graph adds up all profiles.
\* The result is lost only to "never called", and only if the invocation selected
\* statically or had no profile: the attach phase then takes each selected function for
\* one that did not run.  Not so for a library function: once its calls were measured it
\* is selected by its name, by which it cannot be measured.
MeasuredResultsSurvive ==
    [][Finish /\ cmd.own =>
         \A n \in p.body \cup p.mpi : file.result[n].excl /\ file.result[n].calls > 0 =>
           \/ /\ file'.result[n].calls = file.result[n].calls
              /\ file'.result[n].time = file.result[n].time
           \/ (cmd.static \/ ~cmd.cube) /\ neverCalled(file'.result[n])]_vars
=============================================================================
