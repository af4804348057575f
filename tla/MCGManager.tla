----------------------------- MODULE MCGManager -----------------------------
(***************************************************************************)
(* MCGManager: the graphs of a program by name, one of which is active.    *)
(* The manager owns the graphs, the active one is a raw pointer to one of  *)
(* them.  Graphs live in a heap: a graph that loses its name is destroyed  *)
(* and its address may be given to the next graph, while activeGraph keeps *)
(* the address.  To use a destroyed graph is undefined behaviour, and the  *)
(* model ends there.  What a graph holds is its view by name (NamedGraph), *)
(* on which merge is mergeNamed.                                           *)
(***************************************************************************)
EXTENDS Naturals, FiniteSets, NamedGraph

CONSTANTS
    GraphNames,   \* names of managed graphs
    Addresses,    \* addresses of Callgraph objects
    Functions,    \* function names
    Origins,      \* values of a function's origin
    Contents,     \* the graphs that are added to the manager
    Null,         \* the null pointer
    Freed,        \* the memory holds no graph
    Lost,         \* history: the name of the active graph was given away
    Undefined     \* a destroyed graph was used

\* All graphs there can be, by name.
Callgraphs == GraphsOver(Functions, [hasBody : BOOLEAN, origin : Origins])

ASSUME NullAssumption == Null \notin Addresses \cup GraphNames
ASSUME LostAssumption == Lost # Null /\ Lost \notin GraphNames
ASSUME ContentsAssumption == Contents \subseteq Callgraphs
ASSUME FreedAssumption == Freed \notin Callgraphs
ASSUME AddressesAssumption ==
    IsFiniteSet(Addresses) /\ IsFiniteSet(GraphNames)
    /\ Cardinality(Addresses) > Cardinality(GraphNames)

VARIABLES
    managedGraphs,  \* name -> address
    activeGraph,    \* an address or Null
    heap,           \* what is at each address
    toMerge,        \* mergeIntoActiveGraph: the names its loop has not visited,
                    \* or Null outside of the function
    expected,       \* history: what the running or last merge has to produce
    activated       \* history: the name whose graph was activated last, Null
                    \* if none was, Lost if that name has another graph since

vars == <<managedGraphs, activeGraph, heap, toMerge, expected, activated>>

Managed == {managedGraphs[n] : n \in DOMAIN managedGraphs}

Idle == toMerge = Null

Merging == toMerge \notin {Null, Undefined}

\* managedGraphs[n] = ...
store(n, a) ==
    [m \in DOMAIN managedGraphs \cup {n} |-> IF m = n THEN a ELSE managedGraphs[m]]

\* A new graph g is at address a; the graph that had the name is destroyed.
heapAfterStore(n, a, g) ==
    [b \in Addresses |->
       IF b = a THEN g
       ELSE IF n \in DOMAIN managedGraphs /\ b = managedGraphs[n] THEN Freed ELSE heap[b]]

Free == {a \in Addresses : heap[a] = Freed}

activate(a, active) == IF active THEN a ELSE activeGraph

\* The history of what was activated, when the name n is given a new graph.
activatedAfterStore(n, active) ==
    IF active THEN n ELSE IF activated = n THEN Lost ELSE activated

\* The name may have a graph already, which is destroyed even if it is active.
AddToManagedGraphs(n, a, g, active) ==
    /\ Idle /\ a \in Free
    /\ managedGraphs' = store(n, a)
    /\ heap' = heapAfterStore(n, a, g)
    /\ activeGraph' = activate(a, active)
    /\ activated' = activatedAfterStore(n, active)
    /\ UNCHANGED <<toMerge, expected>>

GetOrCreateNew(n, a, active) ==
    /\ Idle /\ a \in Free /\ n \notin DOMAIN managedGraphs
    /\ managedGraphs' = store(n, a)
    /\ heap' = heapAfterStore(n, a, EmptyNamed)
    /\ activeGraph' = activate(a, active)
    /\ activated' = activatedAfterStore(n, active)
    /\ UNCHANGED <<toMerge, expected>>

\* getOrCreateCallgraph and getCallgraph of a name that exists, setActive.
SetActive(n) ==
    /\ Idle /\ n \in DOMAIN managedGraphs
    /\ activeGraph' = activate(managedGraphs[n], TRUE)
    /\ activated' = n
    /\ UNCHANGED <<managedGraphs, heap, toMerge, expected>>

\* MUTANT: leaves the active pointer alone.
activeAfterReset_Keep == activeGraph

activeAfterReset == Null

ResetManager ==
    /\ Idle
    /\ managedGraphs' = [n \in {} |-> Null]
    /\ heap' = [a \in Addresses |-> IF a \in Managed THEN Freed ELSE heap[a]]
    /\ activeGraph' = activeAfterReset
    /\ activated' = Null
    /\ UNCHANGED <<toMerge, expected>>

\* The active graph was destroyed and nothing was put in its place.
Dangling == activeGraph # Null /\ heap[activeGraph] = Freed

\* The assertion that there is an active graph is the guard.
ResetActiveGraph ==
    /\ Idle /\ activeGraph # Null /\ ~ Dangling
    /\ heap' = [heap EXCEPT ![activeGraph] = EmptyNamed]
    /\ UNCHANGED <<managedGraphs, activeGraph, toMerge, expected, activated>>

-----------------------------------------------------------------------------
(* mergeIntoActiveGraph *)

\* The functions and calls of all managed graphs, and what is defined.
Union(graphs) ==
    [funs    |-> UNION {DOMAIN g.funs : g \in graphs},
     defined |-> UNION {{f \in DOMAIN g.funs : g.funs[f].hasBody} : g \in graphs},
     calls   |-> UNION {g.calls : g \in graphs}]

StartMerge ==
    /\ Idle /\ activeGraph # Null /\ ~ Dangling
    /\ toMerge' = DOMAIN managedGraphs
    /\ expected' = [before |-> heap, union |-> Union({heap[a] : a \in Managed})]
    /\ UNCHANGED <<managedGraphs, activeGraph, heap, activated>>

\* MUTANT: merges the active graph into the other one.
mergeStep_Swapped(n) ==
    IF managedGraphs[n] = activeGraph THEN heap
    ELSE [heap EXCEPT ![managedGraphs[n]] = mergeNamed(@, heap[activeGraph])]

mergeStep(n) ==
    IF managedGraphs[n] = activeGraph THEN heap
    ELSE [heap EXCEPT ![activeGraph] = mergeNamed(@, heap[managedGraphs[n]])]

\* getAllManagedGraphNames is an unordered set.
MergeGraph(n) ==
    /\ Merging /\ n \in toMerge
    /\ heap' = mergeStep(n)
    /\ toMerge' = toMerge \ {n}
    /\ UNCHANGED <<managedGraphs, activeGraph, expected, activated>>

EndMerge ==
    /\ Merging /\ toMerge = {}
    /\ toMerge' = Null
    /\ UNCHANGED <<managedGraphs, activeGraph, heap, expected, activated>>

\* resetActiveGraph and mergeIntoActiveGraph call a method of the destroyed
\* graph: no statement about the program holds from here on.
UseDestroyed ==
    /\ Idle /\ Dangling
    /\ toMerge' = Undefined
    /\ UNCHANGED <<managedGraphs, activeGraph, heap, expected, activated>>

Stopped == toMerge = Undefined /\ UNCHANGED vars

Init ==
    /\ managedGraphs = [n \in {} |-> Null]
    /\ activeGraph = Null
    /\ heap = [a \in Addresses |-> Freed]
    /\ toMerge = Null
    /\ expected = Null
    /\ activated = Null

Next ==
    \/ \E n \in GraphNames, a \in Addresses, g \in Contents, active \in BOOLEAN :
          AddToManagedGraphs(n, a, g, active)
    \/ \E n \in GraphNames, a \in Addresses, active \in BOOLEAN : GetOrCreateNew(n, a, active)
    \/ \E n \in GraphNames : SetActive(n)
    \/ ResetManager \/ ResetActiveGraph
    \/ StartMerge \/ EndMerge \/ UseDestroyed \/ Stopped
    \/ \E n \in GraphNames : MergeGraph(n)

Spec == Init /\ [][Next]_vars

-----------------------------------------------------------------------------
(* Properties. *)

\* The active pointer is null if nothing was activated since the last reset,
\* and else points to the graph that has the activated name, as
\* getActiveGraphName asserts: replacing the graph of that name without
\* activating the new one is the only sequence of calls that loses it.  Every
\* managed name has a graph of its own, and every other graph is destroyed.
ActiveIsManaged ==
    /\ activated = Null => activeGraph = Null
    /\ activated \notin {Null, Lost} =>
          activated \in DOMAIN managedGraphs /\ activeGraph = managedGraphs[activated]
    /\ \A n, m \in DOMAIN managedGraphs : managedGraphs[n] = managedGraphs[m] => n = m
    /\ \A a \in Addresses : heap[a] # Freed <=> a \in Managed

\* Merging all graphs into the active one gives the functions, definitions and
\* calls of all of them, in whatever order the unordered set of names is
\* visited, and leaves the other graphs as they were.
MergeUnitesAll ==
    [][EndMerge =>
          LET g == heap[activeGraph]
          IN  /\ DOMAIN g.funs = expected.union.funs
              /\ {f \in DOMAIN g.funs : g.funs[f].hasBody} = expected.union.defined
              /\ g.calls = expected.union.calls
              /\ \A a \in Addresses \ {activeGraph} : heap[a] = expected.before[a]]_vars
=============================================================================
