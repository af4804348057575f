-------------------------- MODULE MCGManagerProofs --------------------------
(***************************************************************************)
(* The active pointer is that of the graph with the activated name, unless *)
(* that graph was replaced without activating the new one, and merging all *)
(* graphs into the active one gives their union, for any number of names   *)
(* and graphs and in any order of the names.                               *)
(***************************************************************************)
EXTENDS MCGManager, TLAPS

-----------------------------------------------------------------------------
(* The inductive invariant. *)

\* The members of the manager have their types, and mergeIntoActiveGraph only
\* visits names that are managed, while the active graph is one of theirs.
ManagerType ==
    /\ heap \in [Addresses -> Callgraphs \cup {Freed}]
    /\ DOMAIN managedGraphs \subseteq GraphNames
    /\ managedGraphs \in [DOMAIN managedGraphs -> Addresses]
    /\ activeGraph \in Addresses \cup {Null}
    /\ Merging => toMerge \subseteq DOMAIN managedGraphs /\ activeGraph \in Managed

\* The graphs a running merge has still to unite: the active one and those
\* whose names the loop has not visited.
Pending == {activeGraph} \cup {managedGraphs[n] : n \in toMerge}

\* What was merged so far is in the active graph, nothing else has changed.
MergeProgress ==
    Merging => /\ Union({heap[a] : a \in Pending}) = expected.union
               /\ \A a \in Addresses \ {activeGraph} : heap[a] = expected.before[a]

ManagerInv == ManagerType /\ ActiveIsManaged /\ MergeProgress

-----------------------------------------------------------------------------
(* Graphs by name. *)

\* What a graph by name is made of.
LEMMA CallgraphParts ==
  ASSUME NEW g \in Callgraphs
  PROVE  /\ g = [funs |-> g.funs, calls |-> g.calls]
         /\ DOMAIN g.funs \subseteq Functions
         /\ \A f \in DOMAIN g.funs : g.funs[f] \in [hasBody : BOOLEAN, origin : Origins]
         /\ g.calls \subseteq Functions \X Functions
  BY DEF Callgraphs, GraphsOver

\* And when a record is one.
LEMMA CallgraphIntro ==
  ASSUME NEW D \in SUBSET Functions, NEW c \in SUBSET (Functions \X Functions),
         NEW F \in [D -> [hasBody : BOOLEAN, origin : Origins]]
  PROVE  [funs |-> F, calls |-> c] \in Callgraphs
  BY DEF Callgraphs, GraphsOver

\* The empty graph is one, and it is not freed memory.
LEMMA EmptyNamedType == EmptyNamed \in Callgraphs /\ EmptyNamed # Freed
<1>1. NoFunctions \in [{} -> [hasBody : BOOLEAN, origin : Origins]]
  BY DEF NoFunctions
<1>2. EmptyNamed \in Callgraphs
  BY <1>1, CallgraphIntro DEF EmptyNamed
<1> QED BY <1>2, FreedAssumption

\* Merging two graphs gives a graph.
LEMMA MergeNamedType ==
  ASSUME NEW t \in Callgraphs, NEW s \in Callgraphs
  PROVE  mergeNamed(t, s) \in Callgraphs
<1> DEFINE D == DOMAIN t.funs \cup DOMAIN s.funs
           F == [f \in D |-> IF keepsTarget(t, s, f) THEN t.funs[f] ELSE s.funs[f]]
<1>1. D \in SUBSET Functions
  BY CallgraphParts
<1>2. F \in [D -> [hasBody : BOOLEAN, origin : Origins]]
  <2> SUFFICES ASSUME NEW f \in D
               PROVE  (IF keepsTarget(t, s, f) THEN t.funs[f] ELSE s.funs[f])
                         \in [hasBody : BOOLEAN, origin : Origins]
    OBVIOUS
  <2>1. CASE f \in DOMAIN t.funs /\ f \in DOMAIN s.funs
    BY <2>1, CallgraphParts
  <2>2. CASE f \in DOMAIN t.funs /\ f \notin DOMAIN s.funs
    BY <2>2, CallgraphParts DEF keepsTarget
  <2>3. CASE f \notin DOMAIN t.funs
    BY <2>3, CallgraphParts DEF keepsTarget
  <2> QED BY <2>1, <2>2, <2>3
<1>3. t.calls \cup s.calls \in SUBSET (Functions \X Functions)
  BY CallgraphParts
<1>4. mergeNamed(t, s) = [funs |-> F, calls |-> t.calls \cup s.calls]
  BY DEF mergeNamed
<1> HIDE DEF D, F
<1> QED BY <1>1, <1>2, <1>3, <1>4, CallgraphIntro

\* The functions with a body, of which merging loses none and adds none.
Defined(g) == {f \in DOMAIN g.funs : g.funs[f].hasBody}

LEMMA MergeNamedParts ==
  ASSUME NEW t \in Callgraphs, NEW s \in Callgraphs
  PROVE  /\ DOMAIN mergeNamed(t, s).funs = DOMAIN t.funs \cup DOMAIN s.funs
         /\ Defined(mergeNamed(t, s)) = Defined(t) \cup Defined(s)
         /\ mergeNamed(t, s).calls = t.calls \cup s.calls
<1> DEFINE m == mergeNamed(t, s)
<1>1. /\ DOMAIN m.funs = DOMAIN t.funs \cup DOMAIN s.funs
      /\ m.calls = t.calls \cup s.calls
      /\ \A f \in DOMAIN m.funs :
            m.funs[f] = IF keepsTarget(t, s, f) THEN t.funs[f] ELSE s.funs[f]
  BY DEF mergeNamed
<1> HIDE DEF m
<1>2. ASSUME NEW f PROVE f \in Defined(m) <=> f \in Defined(t) \/ f \in Defined(s)
  BY <1>1 DEF Defined, keepsTarget
<1> QED BY <1>1, <1>2 DEF m

\* Two of the graphs of a union may be replaced by their merge.
LEMMA UnionOfMerge ==
  ASSUME NEW t \in Callgraphs, NEW s \in Callgraphs, NEW R
  PROVE  Union({mergeNamed(t, s)} \cup R) = Union({t, s} \cup R)
<1> DEFINE m == mergeNamed(t, s)
<1>1. /\ DOMAIN m.funs = DOMAIN t.funs \cup DOMAIN s.funs
      /\ Defined(m) = Defined(t) \cup Defined(s)
      /\ m.calls = t.calls \cup s.calls
  BY MergeNamedParts
<1> HIDE DEF m
<1>2. UNION {DOMAIN g.funs : g \in {m} \cup R} = UNION {DOMAIN g.funs : g \in {t, s} \cup R}
  BY <1>1
<1>3. UNION {g.calls : g \in {m} \cup R} = UNION {g.calls : g \in {t, s} \cup R}
  BY <1>1
<1>4. UNION {Defined(g) : g \in {m} \cup R} = UNION {Defined(g) : g \in {t, s} \cup R}
  BY <1>1
<1>5. Union({m} \cup R) = Union({t, s} \cup R)
  BY <1>2, <1>3, <1>4 DEF Union, Defined
<1> QED BY <1>5 DEF m

-----------------------------------------------------------------------------
(* The operations of the manager. *)

\* A graph g at the free address a is stored under the name n: the graph that
\* had the name is gone, and if it was the active one that is remembered.
LEMMA StoreStep ==
  ASSUME ManagerInv, Idle, NEW n \in GraphNames, NEW a \in Free, NEW g \in Callgraphs,
         NEW active \in BOOLEAN, activated' = activatedAfterStore(n, active),
         managedGraphs' = store(n, a), heap' = heapAfterStore(n, a, g),
         activeGraph' = activate(a, active), toMerge' = toMerge
  PROVE  ManagerInv'
<1> DEFINE D == DOMAIN managedGraphs
<1>0. /\ heap \in [Addresses -> Callgraphs \cup {Freed}]
      /\ D \subseteq GraphNames /\ managedGraphs \in [D -> Addresses]
      /\ activeGraph \in Addresses \cup {Null}
  BY DEF ManagerInv, ManagerType
<1>1. a \in Addresses /\ heap[a] = Freed /\ g # Freed
  BY FreedAssumption DEF Free
<1>2. a \notin Managed
  BY <1>1 DEF ManagerInv, ActiveIsManaged
<1>3. /\ DOMAIN managedGraphs' = D \cup {n}
      /\ managedGraphs'[n] = a
      /\ \A m \in D \ {n} : managedGraphs'[m] = managedGraphs[m]
  BY DEF store
<1>4. /\ heap'[a] = g
      /\ \A b \in Addresses \ {a} :
            heap'[b] = IF n \in D /\ b = managedGraphs[n] THEN Freed ELSE heap[b]
  BY <1>1 DEF heapAfterStore
<1>5. \A m \in D : managedGraphs[m] # a
  BY <1>2 DEF Managed
<1>6. ManagerType'
  <2>1. heap' \in [Addresses -> Callgraphs \cup {Freed}]
    BY <1>0 DEF heapAfterStore
  <2>2. managedGraphs' \in [DOMAIN managedGraphs' -> Addresses]
    BY <1>0, <1>1 DEF store
  <2>3. activeGraph' \in Addresses \cup {Null}
    BY <1>0, <1>1 DEF activate
  <2> QED BY <1>0, <1>3, <2>1, <2>2, <2>3 DEF ManagerType, Idle, Merging
<1>7. \A b : b \in Managed' <=> b = a \/ \E m \in D \ {n} : managedGraphs[m] = b
  BY <1>3 DEF Managed
<1>8. ActiveIsManaged'
  <2>1. activated' = Null => activeGraph' = Null
    <3>1. activated = Null => activeGraph = Null
      BY DEF ManagerInv, ActiveIsManaged
    <3> QED BY <3>1, NullAssumption, LostAssumption DEF activatedAfterStore, activate
  <2>2. \A k, m \in D : managedGraphs[k] = managedGraphs[m] => k = m
    BY DEF ManagerInv, ActiveIsManaged
  <2>3. \A k, m \in DOMAIN managedGraphs' : managedGraphs'[k] = managedGraphs'[m] => k = m
    BY <1>3, <1>5, <2>2
  <2>4. ASSUME NEW b \in Addresses PROVE heap'[b] # Freed <=> b \in Managed'
    <3>1. CASE b = a
      BY <1>1, <1>4, <1>7, <3>1
    <3>2. CASE b # a
      <4>1. heap[b] # Freed <=> \E m \in D : managedGraphs[m] = b
        BY DEF ManagerInv, ActiveIsManaged, Managed
      <4> QED BY <1>4, <1>7, <2>2, <3>2, <4>1
    <3> QED BY <3>1, <3>2
  <2>5. activated' \notin {Null, Lost} =>
          activated' \in DOMAIN managedGraphs' /\ activeGraph' = managedGraphs'[activated']
    <3>1. CASE active
      BY <1>3, <3>1 DEF activate, activatedAfterStore
    <3>2. CASE ~ active
      <4>1. activeGraph' = activeGraph
        BY <3>2 DEF activate
      <4>2. activated' \notin {Null, Lost} => activated' = activated /\ activated # n
        BY <3>2 DEF activatedAfterStore
      <4>3. activated \notin {Null, Lost} =>
              activated \in D /\ activeGraph = managedGraphs[activated]
        BY DEF ManagerInv, ActiveIsManaged
      <4> QED BY <1>3, <4>1, <4>2, <4>3
    <3> QED BY <3>1, <3>2
  <2> QED BY <2>1, <2>3, <2>4, <2>5 DEF ActiveIsManaged
<1>9. MergeProgress'
  BY DEF MergeProgress, Idle, Merging
<1> QED BY <1>6, <1>8, <1>9 DEF ManagerInv

\* The active pointer moves to the graph that has the name.
LEMMA ActivateStep ==
  ASSUME ManagerInv, Idle, UNCHANGED <<managedGraphs, heap, toMerge>>,
         NEW n \in DOMAIN managedGraphs, activeGraph' = managedGraphs[n], activated' = n
  PROVE  ManagerInv'
<1>1. Managed' = Managed
  BY DEF Managed
<1>2. Managed \subseteq Addresses
  BY DEF ManagerInv, ManagerType, Managed
<1>3. ManagerType'
  BY <1>2 DEF ManagerInv, ManagerType, Idle, Merging, Managed
<1>4. ActiveIsManaged'
  <2>1. n # Null
    BY NullAssumption DEF ManagerInv, ManagerType
  <2> QED BY <1>1, <2>1 DEF ManagerInv, ActiveIsManaged
<1>5. MergeProgress'
  BY DEF MergeProgress, Idle, Merging
<1> QED BY <1>3, <1>4, <1>5 DEF ManagerInv

\* All graphs are destroyed and no pointer is left.
LEMMA ResetManagerStep ==
  ASSUME ManagerInv, ResetManager
  PROVE  ManagerInv'
<1>1. /\ managedGraphs' = [n \in {} |-> Null]
      /\ heap' = [a \in Addresses |-> IF a \in Managed THEN Freed ELSE heap[a]]
      /\ activeGraph' = Null /\ activated' = Null /\ toMerge' = toMerge /\ Idle
  BY DEF ResetManager, activeAfterReset
<1>2. Managed' = {} /\ DOMAIN managedGraphs' = {}
  BY <1>1 DEF Managed
<1>3. ManagerType'
  <2>1. managedGraphs' \in [{} -> Addresses]
    BY <1>1
  <2>2. heap' \in [Addresses -> Callgraphs \cup {Freed}]
    BY <1>1 DEF ManagerInv, ManagerType
  <2> QED BY <1>1, <1>2, <2>1, <2>2 DEF ManagerType, Idle, Merging
<1>4. ActiveIsManaged'
  BY <1>1, <1>2 DEF ManagerInv, ActiveIsManaged
<1>5. MergeProgress'
  BY <1>1 DEF MergeProgress, Idle, Merging
<1> QED BY <1>3, <1>4, <1>5 DEF ManagerInv

\* The graph at the active address is replaced by another one.
LEMMA ActiveGraphChanged ==
  ASSUME ManagerType, ActiveIsManaged, activeGraph \in Managed, NEW g \in Callgraphs,
         heap' = [heap EXCEPT ![activeGraph] = g],
         UNCHANGED <<managedGraphs, activeGraph, activated>>,
         Merging' => toMerge' \subseteq DOMAIN managedGraphs
  PROVE  ManagerType' /\ ActiveIsManaged'
<1>1. activeGraph \in Addresses /\ heap \in [Addresses -> Callgraphs \cup {Freed}]
  BY DEF ManagerType, Managed
<1>2. Managed' = Managed
  BY DEF Managed
<1>3. ManagerType'
  BY <1>1, <1>2 DEF ManagerType
<1>4. ActiveIsManaged'
  BY <1>1, <1>2, FreedAssumption DEF ActiveIsManaged
<1> QED BY <1>3, <1>4

\* An active pointer that does not dangle is that of a managed graph.
LEMMA ActiveInUse ==
  ASSUME ManagerInv, activeGraph # Null, ~ Dangling
  PROVE  activeGraph \in Managed
  BY DEF ManagerInv, ManagerType, ActiveIsManaged, Dangling

-----------------------------------------------------------------------------
(* mergeIntoActiveGraph. *)

\* When the loop starts, every managed graph is pending.
LEMMA StartMergeStep ==
  ASSUME ManagerInv, StartMerge
  PROVE  ManagerInv'
<1>1. /\ Idle /\ activeGraph \in Managed
      /\ toMerge' = DOMAIN managedGraphs
      /\ expected' = [before |-> heap, union |-> Union({heap[a] : a \in Managed})]
      /\ UNCHANGED <<managedGraphs, activeGraph, heap, activated>>
  BY ActiveInUse DEF StartMerge
<1>2. Managed' = Managed
  BY <1>1 DEF Managed
<1>3. ManagerType' /\ ActiveIsManaged'
  BY <1>1, <1>2 DEF ManagerInv, ManagerType, ActiveIsManaged
<1>4. MergeProgress'
  <2>1. Pending' = Managed
    BY <1>1 DEF Pending, Managed, ManagerInv, ActiveIsManaged
  <2>2. /\ expected'.union = Union({heap[a] : a \in Managed})
        /\ expected'.before = heap
    BY <1>1
  <2>3. Union({heap[a] : a \in Pending})' = Union({heap[a] : a \in Managed})
    BY <1>1, <2>1
  <2> QED BY <1>1, <2>2, <2>3 DEF MergeProgress
<1> QED BY <1>3, <1>4 DEF ManagerInv

\* Merging one more graph moves it from the pending graphs into the active one.
LEMMA MergeGraphStep ==
  ASSUME ManagerInv, NEW n \in GraphNames, MergeGraph(n)
  PROVE  ManagerInv'
<1> DEFINE rest == {managedGraphs[m] : m \in toMerge \ {n}}
           other == managedGraphs[n]
<1>0. /\ Merging /\ n \in toMerge /\ heap' = mergeStep(n) /\ toMerge' = toMerge \ {n}
      /\ UNCHANGED <<managedGraphs, activeGraph, expected, activated>>
  BY DEF MergeGraph
<1>1. /\ toMerge \subseteq DOMAIN managedGraphs /\ activeGraph \in Managed
      /\ activeGraph \in Addresses /\ managedGraphs \in [DOMAIN managedGraphs -> Addresses]
      /\ heap \in [Addresses -> Callgraphs \cup {Freed}]
  BY <1>0 DEF ManagerInv, ManagerType, Managed
<1>2. toMerge' \subseteq DOMAIN managedGraphs
  BY <1>0, <1>1
<1>3. /\ Union({heap[a] : a \in Pending}) = expected.union
      /\ \A a \in Addresses \ {activeGraph} : heap[a] = expected.before[a]
  BY <1>0 DEF ManagerInv, MergeProgress
<1>4. Pending = {activeGraph, other} \cup rest
  BY <1>0, <1>1 DEF Pending
<1>5. Pending' = {activeGraph} \cup rest
  BY <1>0 DEF Pending
<1>6. CASE other = activeGraph
  <2>1. heap' = heap /\ Managed' = Managed
    BY <1>0, <1>6 DEF mergeStep, Managed
  <2>2. ManagerType' /\ ActiveIsManaged'
    BY <1>0, <1>1, <1>2, <2>1 DEF ManagerInv, ManagerType, ActiveIsManaged
  <2>3. Pending' = Pending
    BY <1>4, <1>5, <1>6
  <2>4. MergeProgress'
    BY <1>0, <1>3, <2>1, <2>3 DEF MergeProgress
  <2> QED BY <2>2, <2>4 DEF ManagerInv
<1>7. CASE other # activeGraph
  <2> DEFINE t == heap[activeGraph]
             s == heap[other]
             R == {heap[a] : a \in rest \ {activeGraph}}
  <2>1. other \in Addresses /\ other \in Managed /\ activeGraph \in Managed
    BY <1>0, <1>1 DEF Managed, ManagerInv, ActiveIsManaged
  <2>2. t \in Callgraphs /\ s \in Callgraphs
    BY <1>1, <2>1 DEF ManagerInv, ActiveIsManaged
  <2>3. heap' = [heap EXCEPT ![activeGraph] = mergeNamed(t, s)]
    BY <1>0, <1>7 DEF mergeStep
  <2>4. mergeNamed(t, s) \in Callgraphs
    BY <2>2, MergeNamedType
  <2>5. ManagerType' /\ ActiveIsManaged'
    <3>1. Merging' => toMerge' \subseteq DOMAIN managedGraphs
      BY <1>2
    <3> HIDE DEF t, s
    <3> QED BY <1>0, <1>1, <2>3, <2>4, <3>1, ActiveGraphChanged DEF ManagerInv
  <2>6. \A a \in rest : a \in Addresses
    BY <1>1
  <2>7. {heap[a] : a \in Pending} = {t, s} \cup R
    BY <1>4
  <2>8. {heap'[a] : a \in Pending'} = {mergeNamed(t, s)} \cup R
    <3>1. heap'[activeGraph] = mergeNamed(t, s)
      BY <1>1, <2>3
    <3>2. \A a \in rest \ {activeGraph} : heap'[a] = heap[a]
      BY <1>1, <2>3, <2>6
    <3> HIDE DEF rest, t, s
    <3> QED BY <1>5, <3>1, <3>2
  <2>9. Union({heap'[a] : a \in Pending'}) = expected.union
    <3> HIDE DEF t, s, R
    <3>1. Union({mergeNamed(t, s)} \cup R) = Union({t, s} \cup R)
      BY <2>2, UnionOfMerge
    <3> QED BY <1>3, <2>7, <2>8, <3>1
  <2>10. \A a \in Addresses \ {activeGraph} : heap'[a] = expected.before[a]
    BY <1>1, <1>3, <2>3
  <2>11. MergeProgress'
    BY <1>0, <2>9, <2>10 DEF MergeProgress
  <2> QED BY <2>5, <2>11 DEF ManagerInv
<1> QED BY <1>6, <1>7

-----------------------------------------------------------------------------
(* The state machine. *)

LEMMA ManagerInit == Init => ManagerInv
<1> SUFFICES ASSUME Init PROVE ManagerInv
  OBVIOUS
<1>1. /\ managedGraphs = [n \in {} |-> Null] /\ DOMAIN managedGraphs = {}
      /\ managedGraphs \in [{} -> Addresses]
      /\ activeGraph = Null /\ heap = [a \in Addresses |-> Freed] /\ toMerge = Null
      /\ activated = Null
  BY DEF Init
<1>2. ManagerType /\ MergeProgress
  BY <1>1 DEF ManagerType, MergeProgress, Merging
<1>3. ActiveIsManaged
  BY <1>1 DEF ActiveIsManaged, Managed
<1> QED BY <1>2, <1>3 DEF ManagerInv

\* Every operation keeps the invariant.
LEMMA ManagerNext ==
  ASSUME ManagerInv, [Next]_vars
  PROVE  ManagerInv'
<1>1. ASSUME NEW n \in GraphNames, NEW a \in Addresses, NEW g \in Contents,
             NEW active \in BOOLEAN, AddToManagedGraphs(n, a, g, active)
      PROVE  ManagerInv'
  <2>1. g \in Callgraphs
    BY ContentsAssumption
  <2> QED BY <1>1, <2>1, StoreStep DEF AddToManagedGraphs
<1>2. ASSUME NEW n \in GraphNames, NEW a \in Addresses, NEW active \in BOOLEAN,
             GetOrCreateNew(n, a, active)
      PROVE  ManagerInv'
  <2> QED BY <1>2, EmptyNamedType, StoreStep DEF GetOrCreateNew
<1>3. ASSUME NEW n \in GraphNames, SetActive(n) PROVE ManagerInv'
  BY <1>3, ActivateStep DEF SetActive, activate
<1>4. CASE ResetManager
  BY <1>4, ResetManagerStep
<1>5. CASE ResetActiveGraph
  <2>1. ManagerType' /\ ActiveIsManaged'
    <3>1. Merging' => toMerge' \subseteq DOMAIN managedGraphs
      BY <1>5 DEF ResetActiveGraph, Idle, Merging
    <3>2. activeGraph \in Managed
      BY <1>5, ActiveInUse DEF ResetActiveGraph
    <3> QED BY <1>5, <3>1, <3>2, EmptyNamedType, ActiveGraphChanged
            DEF ResetActiveGraph, ManagerInv
  <2>2. MergeProgress'
    BY <1>5 DEF ResetActiveGraph, MergeProgress, Idle, Merging
  <2> QED BY <2>1, <2>2 DEF ManagerInv
<1>6. CASE StartMerge
  BY <1>6, StartMergeStep
<1>7. CASE EndMerge \/ UseDestroyed
  <2>1. /\ ~ Merging'
        /\ UNCHANGED <<managedGraphs, activeGraph, heap, expected, activated>>
    BY <1>7 DEF EndMerge, UseDestroyed, Merging
  <2>2. ManagerType' /\ MergeProgress'
    BY <2>1 DEF ManagerInv, ManagerType, MergeProgress
  <2>3. ActiveIsManaged'
    BY <2>1 DEF ManagerInv, ActiveIsManaged, Managed
  <2> QED BY <2>2, <2>3 DEF ManagerInv
<1>8. ASSUME NEW n \in GraphNames, MergeGraph(n) PROVE ManagerInv'
  BY <1>8, MergeGraphStep
<1>9. CASE Stopped \/ UNCHANGED vars
  BY <1>9 DEF Stopped, vars, ManagerInv, ManagerType, ActiveIsManaged, MergeProgress,
              Managed, Merging, Pending
<1> QED BY <1>1, <1>2, <1>3, <1>4, <1>5, <1>6, <1>7, <1>8, <1>9 DEF Next

\* The operations of the manager keep its invariant.
THEOREM ManagerInvariant == Spec => []ManagerInv
<1>1. ManagerInv /\ [Next]_vars => ManagerInv'
  BY ManagerNext
<1> QED BY <1>1, ManagerInit, PTL DEF Spec

\* However graphs are added, replaced, activated, reset and merged, the active
\* pointer of MCGManager is null if nothing was activated and else that of the
\* graph with the activated name, until that name is given a graph that is not
\* activated; no two names share a graph, and no graph is left without a name.
THEOREM ActiveAlwaysManaged == Spec => []ActiveIsManaged
<1>1. ManagerInv => ActiveIsManaged
  BY DEF ManagerInv
<1> QED BY <1>1, ManagerInvariant, PTL

\* What the active graph is when mergeIntoActiveGraph returns.
MergeResult ==
    EndMerge =>
      LET g == heap[activeGraph]
      IN  /\ DOMAIN g.funs = expected.union.funs
          /\ {f \in DOMAIN g.funs : g.funs[f].hasBody} = expected.union.defined
          /\ g.calls = expected.union.calls
          /\ \A a \in Addresses \ {activeGraph} : heap[a] = expected.before[a]

\* mergeIntoActiveGraph gives the active graph the functions, definitions and
\* calls of all managed graphs, in whatever order it visits the names, and
\* leaves the other graphs as they were.
THEOREM MergeAlwaysUnites == Spec => MergeUnitesAll
<1>1. ManagerInv => MergeResult
  <2> SUFFICES ASSUME ManagerInv, EndMerge PROVE MergeResult
    BY DEF MergeResult
  <2> DEFINE g == heap[activeGraph]
  <2>1. Merging /\ toMerge = {}
    BY DEF EndMerge
  <2>2. Pending = {activeGraph}
    BY <2>1 DEF Pending
  <2>3. Union({g}) = expected.union
    BY <2>1, <2>2 DEF ManagerInv, MergeProgress
  <2>4. /\ expected.union.funs = DOMAIN g.funs
        /\ expected.union.defined = Defined(g)
        /\ expected.union.calls = g.calls
    <3> HIDE DEF g
    <3>1. Union({g}) = [funs    |-> UNION {DOMAIN h.funs : h \in {g}},
                        defined |-> UNION {Defined(h) : h \in {g}},
                        calls   |-> UNION {h.calls : h \in {g}}]
      BY DEF Union, Defined
    <3>2. /\ UNION {DOMAIN h.funs : h \in {g}} = DOMAIN g.funs
          /\ UNION {Defined(h) : h \in {g}} = Defined(g)
          /\ UNION {h.calls : h \in {g}} = g.calls
      OBVIOUS
    <3> QED BY <2>3, <3>1, <3>2
  <2>5. \A a \in Addresses \ {activeGraph} : heap[a] = expected.before[a]
    BY <2>1 DEF ManagerInv, MergeProgress
  <2> QED BY <2>4, <2>5 DEF MergeResult, Defined
<1>2. MergeUnitesAll <=> [][MergeResult]_vars
  BY PTL DEF MergeUnitesAll, MergeResult
<1> QED BY <1>1, <1>2, ManagerInvariant, PTL DEF Spec
=============================================================================
