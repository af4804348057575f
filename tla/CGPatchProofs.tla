---------------------------- MODULE CGPatchProofs ----------------------------
(***************************************************************************)
(* The patch graph CGPatch writes is complete, for any number of ranks and *)
(* calls: what rank 0 has merged, what it has received and what is still   *)
(* on its way are disjoint, and together they are all that was reported.   *)
(***************************************************************************)
EXTENDS CGPatchRuntime, TLAPS

-----------------------------------------------------------------------------
(* The inductive invariant. *)

RuntimeType ==
    /\ pc \in [Ranks -> {"loading", "running", "sending", "receiving", "finalized", "exited"}]
    /\ graph \in [Ranks -> PatchGraphs \cup {NoGraph}]
    /\ shouldWrite \in [Ranks -> BOOLEAN]
    /\ message \in [Ranks -> PatchGraphs \cup {NoGraph}]
    /\ nextRank \in 1 .. TotalRanks
    /\ DOMAIN received \subseteq 1 .. (nextRank - 1)
    /\ received \in [DOMAIN received -> PatchGraphs]
    /\ reported \in [Ranks -> SUBSET (Names \X Names)]

\* The process has entered MPI_Finalize: what it reports from now on is lost,
\* unless it is rank 0.
Entered(r) == pc[r] \notin {"loading", "running"}

\* The constructor creates the graph, and until a process enters MPI_Finalize
\* its graph is what it reported.
OwnGraph(r) ==
    /\ graph[r] # NoGraph <=> pc[r] # "loading"
    /\ pc[r] = "loading" => reported[r] = {}
    /\ r # 0 /\ pc[r] = "running" => graph[r].calls = reported[r]

\* A message, and a graph rank 0 has received, is what its sender reported.
InTransit(r) ==
    /\ message[r] # NoGraph => r # 0 /\ Entered(r) /\ message[r].calls = reported[r]
    /\ r \in DOMAIN received => received[r].calls = reported[r]
    /\ 1 <= r /\ r < nextRank => Entered(r)

\* Only rank 0 receives and only rank 0 writes.
Roles(r) ==
    /\ pc[r] = "sending" => r # 0
    /\ pc[r] = "receiving" => r = 0
    /\ r # 0 /\ Entered(r) => ~ shouldWrite[r]

\* The ranks whose graphs are in the graph of rank 0.
MergedRanks == (1 .. (nextRank - 1)) \ DOMAIN received

\* The graph of rank 0 is what it reported itself and what the merged ranks did.
RankZeroGraph ==
    /\ pc[0] = "loading" => nextRank = 1
    /\ pc[0] # "loading" =>
          graph[0].calls = reported[0] \cup UNION {reported[r] : r \in MergedRanks}
    /\ pc[0] \in {"finalized", "exited"} => nextRank = TotalRanks /\ DOMAIN received = {}

\* The file is written when rank 0 exits.
FileWritten == file # NoGraph => pc[0] = "exited" /\ file = graph[0]

RuntimeInv ==
    /\ RuntimeType
    /\ \A r \in Ranks : OwnGraph(r) /\ InTransit(r) /\ Roles(r)
    /\ RankZeroGraph
    /\ FileWritten

-----------------------------------------------------------------------------
(* Graphs by name. *)

LEMMA PatchGraphParts ==
  ASSUME NEW g \in PatchGraphs
  PROVE  /\ DOMAIN g.funs \subseteq Names
         /\ \A f \in DOMAIN g.funs : g.funs[f] = Defined
         /\ g.calls \subseteq Names \X Names
         /\ g # NoGraph
  BY NoGraphAssumption DEF PatchGraphs, GraphsOver

LEMMA PatchGraphIntro ==
  ASSUME NEW D \in SUBSET Names, NEW c \in SUBSET (Names \X Names), NEW F \in [D -> {Defined}]
  PROVE  [funs |-> F, calls |-> c] \in PatchGraphs
  BY DEF PatchGraphs, GraphsOver

\* The graph the constructor creates.
LEMMA EmptyPatchGraph == EmptyNamed \in PatchGraphs /\ EmptyNamed.calls = {}
<1>1. NoFunctions \in [{} -> {Defined}]
  BY DEF NoFunctions
<1> QED BY <1>1, PatchGraphIntro DEF EmptyNamed

\* Recording a call adds it, whether the edge was there before or not.
LEMMA RecordCallParts ==
  ASSUME NEW g \in PatchGraphs, NEW name \in Names, NEW symbol \in Names
  PROVE  /\ recordCall(g, name, symbol) \in PatchGraphs
         /\ recordCall(g, name, symbol).calls = g.calls \cup {<<name, symbol>>}
<1>1. CASE existsAnyEdge(g, name, symbol)
  BY <1>1 DEF recordCall, existsAnyEdge
<1>2. CASE ~ existsAnyEdge(g, name, symbol)
  <2> DEFINE D == DOMAIN g.funs \cup {name, symbol}
             F == [f \in D |-> Defined]
             c == g.calls \cup {<<name, symbol>>}
  <2>1. D \in SUBSET Names /\ c \in SUBSET (Names \X Names) /\ F \in [D -> {Defined}]
    BY PatchGraphParts
  <2>2. recordCall(g, name, symbol) = [funs |-> F, calls |-> c]
    BY <1>2 DEF recordCall
  <2>3. recordCall(g, name, symbol).calls = c
    BY <2>2
  <2> HIDE DEF D, F, c
  <2>4. [funs |-> F, calls |-> c] \in PatchGraphs
    BY <2>1, PatchGraphIntro
  <2> QED BY <2>2, <2>3, <2>4 DEF c
<1> QED BY <1>1, <1>2

\* Merging unites the calls.
LEMMA MergePatchGraphs ==
  ASSUME NEW t \in PatchGraphs, NEW s \in PatchGraphs
  PROVE  /\ mergeNamed(t, s) \in PatchGraphs
         /\ mergeNamed(t, s).calls = t.calls \cup s.calls
<1> DEFINE D == DOMAIN t.funs \cup DOMAIN s.funs
           F == [f \in D |-> IF keepsTarget(t, s, f) THEN t.funs[f] ELSE s.funs[f]]
           c == t.calls \cup s.calls
<1>1. D \in SUBSET Names /\ c \in SUBSET (Names \X Names)
  BY PatchGraphParts
<1>2. F \in [D -> {Defined}]
  <2> SUFFICES ASSUME NEW f \in D
               PROVE  (IF keepsTarget(t, s, f) THEN t.funs[f] ELSE s.funs[f]) = Defined
    OBVIOUS
  <2>1. CASE f \in DOMAIN t.funs /\ f \in DOMAIN s.funs
    BY <2>1, PatchGraphParts
  <2>2. CASE f \in DOMAIN t.funs /\ f \notin DOMAIN s.funs
    BY <2>2, PatchGraphParts DEF keepsTarget
  <2>3. CASE f \notin DOMAIN t.funs
    BY <2>3, PatchGraphParts DEF keepsTarget
  <2> QED BY <2>1, <2>2, <2>3
<1>3. mergeNamed(t, s) = [funs |-> F, calls |-> c]
  BY DEF mergeNamed
<1>4. mergeNamed(t, s).calls = t.calls \cup s.calls
  BY DEF mergeNamed
<1> HIDE DEF D, F, c
<1> QED BY <1>1, <1>2, <1>3, <1>4, PatchGraphIntro

-----------------------------------------------------------------------------
(* The steps of the runtime. *)

\* Rank 0 exists, and so do the ranks it has received from.
LEMMA RankFacts ==
  ASSUME RuntimeType
  PROVE  /\ 0 \in Ranks
         /\ 1 .. (nextRank - 1) \subseteq Ranks
         /\ nextRank \in Nat /\ nextRank >= 1 /\ nextRank <= TotalRanks
         /\ \A r \in Ranks : r \in Nat /\ r < TotalRanks
         /\ MergedRanks \subseteq Ranks \ {0}
  BY TotalRanksAssumption DEF RuntimeType, Ranks, MergedRanks

LEMMA RuntimeInit == Init => RuntimeInv
<1> SUFFICES ASSUME Init PROVE RuntimeInv
  OBVIOUS
<1>1. RuntimeType
  <2>1. received = [r \in {} |-> EmptyNamed] /\ DOMAIN received = {}
    BY DEF Init, Empty
  <2>2. received \in [{} -> PatchGraphs]
    BY <2>1
  <2>3. nextRank = 1 /\ nextRank \in 1 .. TotalRanks
    BY TotalRanksAssumption DEF Init
  <2> QED BY <2>1, <2>2, <2>3 DEF RuntimeType, Init
<1>2. ASSUME NEW r \in Ranks PROVE OwnGraph(r) /\ InTransit(r) /\ Roles(r)
  <2>1. DOMAIN received = {} /\ r \in Nat
    BY <1>1, RankFacts DEF Init, Empty
  <2> QED BY <2>1 DEF Init, OwnGraph, InTransit, Roles, Entered
<1>3. RankZeroGraph
  BY <1>1, RankFacts DEF RankZeroGraph, Init
<1>4. FileWritten
  BY DEF FileWritten, Init
<1> QED BY <1>1, <1>2, <1>3, <1>4 DEF RuntimeInv

\* The constructor.
LEMMA InitializeStep ==
  ASSUME RuntimeInv, NEW r \in Ranks, InitializeGlobalCallgraph(r)
  PROVE  RuntimeInv'
<1>0. /\ pc[r] = "loading" /\ pc' = [pc EXCEPT ![r] = "running"]
      /\ graph' = [graph EXCEPT ![r] = EmptyNamed]
      /\ UNCHANGED <<shouldWrite, message, nextRank, received, file, reported>>
  BY DEF InitializeGlobalCallgraph
<1>1. RuntimeType /\ RuntimeType'
  BY <1>0, EmptyPatchGraph DEF RuntimeInv, RuntimeType
<1>2. EmptyNamed # NoGraph /\ EmptyNamed.calls = {}
  BY EmptyPatchGraph, NoGraphAssumption
<1>3. ASSUME NEW q \in Ranks PROVE (OwnGraph(q) /\ InTransit(q) /\ Roles(q))'
  <2>1. OwnGraph(q) /\ InTransit(q) /\ Roles(q) /\ q \in Nat
    BY <1>1, RankFacts DEF RuntimeInv
  <2>2. CASE q = r
    <3>1. pc'[q] = "running" /\ graph'[q] = EmptyNamed /\ ~ Entered(q)
      BY <1>0, <1>1, <2>2 DEF RuntimeType, Entered
    <3> QED BY <1>0, <1>2, <2>1, <2>2, <3>1 DEF OwnGraph, InTransit, Roles, Entered
  <2>3. CASE q # r
    <3>1. pc'[q] = pc[q] /\ graph'[q] = graph[q]
      BY <1>0, <1>1, <2>3 DEF RuntimeType
    <3> QED BY <1>0, <2>1, <3>1 DEF OwnGraph, InTransit, Roles, Entered
  <2> QED BY <2>2, <2>3
<1>4. RankZeroGraph'
  <2>1. MergedRanks' = MergedRanks
    BY <1>0 DEF MergedRanks
  <2>2. CASE r = 0
    <3>1. pc'[0] = "running" /\ graph'[0].calls = {} /\ nextRank = 1 /\ reported[0] = {}
      BY <1>0, <1>1, <1>2, <2>2 DEF RuntimeType, RuntimeInv, RankZeroGraph, OwnGraph
    <3>2. MergedRanks = {}
      BY <3>1 DEF MergedRanks
    <3> QED BY <1>0, <2>1, <3>1, <3>2 DEF RankZeroGraph
  <2>3. CASE r # 0
    <3>1. pc'[0] = pc[0] /\ graph'[0] = graph[0]
      BY <1>0, <1>1, <2>3, RankFacts DEF RuntimeType
    <3> QED BY <1>0, <2>1, <3>1 DEF RuntimeInv, RankZeroGraph
  <2> QED BY <2>2, <2>3
<1>5. FileWritten'
  <2>1. file # NoGraph => r # 0
    BY <1>0 DEF RuntimeInv, FileWritten
  <2> QED BY <1>0, <1>1, <2>1, RankFacts DEF RuntimeInv, FileWritten, RuntimeType
<1> QED BY <1>1, <1>3, <1>4, <1>5 DEF RuntimeInv

\* A call is reported and recorded in the same step; after a process other
\* than rank 0 has entered MPI_Finalize, it is recorded only.
LEMMA IndirectCallStep ==
  ASSUME RuntimeInv, NEW r \in Ranks, NEW name \in Names, NEW address \in Addresses,
         IndirectCall(r, name, address)
  PROVE  RuntimeInv'
<1> DEFINE symbol == SymbolOf[address]
<1>0. /\ pc[r] \in {"running", "finalized"}
      /\ UNCHANGED <<pc, shouldWrite, message, nextRank, received, file>>
  BY DEF IndirectCall
<1>1. RuntimeType /\ symbol \in Names
  BY SymbolsAssumption DEF RuntimeInv
<1>2. CASE UNCHANGED <<graph, reported>>
  <2>1. \A q \in Ranks : (OwnGraph(q) /\ InTransit(q) /\ Roles(q))'
    BY <1>0, <1>2 DEF RuntimeInv, OwnGraph, InTransit, Roles, Entered
  <2>2. RuntimeType' /\ RankZeroGraph' /\ FileWritten'
    BY <1>0, <1>2 DEF RuntimeInv, RuntimeType, RankZeroGraph, MergedRanks, FileWritten
  <2> QED BY <2>1, <2>2 DEF RuntimeInv
<1>3. CASE /\ graph' = [graph EXCEPT ![r] = recordCall(@, name, symbol)]
           /\ reported' = IF pc[r] = "running" \/ r = 0
                          THEN [reported EXCEPT ![r] = @ \cup {<<name, symbol>>}]
                          ELSE reported
  <2> DEFINE g == recordCall(graph[r], name, symbol)
  <2>1. graph[r] \in PatchGraphs
    BY <1>0, <1>1 DEF RuntimeInv, OwnGraph, RuntimeType
  <2>2. g \in PatchGraphs /\ g.calls = graph[r].calls \cup {<<name, symbol>>}
    BY <1>1, <2>1, RecordCallParts
  <2>3. graph'[r] = g /\ \A q \in Ranks \ {r} : graph'[q] = graph[q] /\ reported'[q] = reported[q]
    BY <1>1, <1>3 DEF RuntimeType
  <2>4. reported'[r] = IF pc[r] = "running" \/ r = 0
                       THEN reported[r] \cup {<<name, symbol>>} ELSE reported[r]
    BY <1>1, <1>3 DEF RuntimeType
  <2>5. g # NoGraph
    BY <2>2, NoGraphAssumption
  <2>6. RuntimeType'
    <3>1. graph' \in [Ranks -> PatchGraphs \cup {NoGraph}]
      BY <1>1, <1>3, <2>2 DEF RuntimeType
    <3>2. reported' \in [Ranks -> SUBSET (Names \X Names)]
      BY <1>1, <1>3 DEF RuntimeType
    <3> QED BY <1>0, <1>1, <3>1, <3>2 DEF RuntimeType
  <2> HIDE DEF g, symbol
  <2>7. ASSUME NEW q \in Ranks PROVE (OwnGraph(q) /\ InTransit(q) /\ Roles(q))'
    <3>1. OwnGraph(q) /\ InTransit(q) /\ Roles(q)
      BY DEF RuntimeInv
    <3>2. CASE q = r
      <4>1. OwnGraph(q)'
        BY <1>0, <2>2, <2>3, <2>4, <2>5, <3>1, <3>2 DEF OwnGraph
      <4>2. Entered(q)' = Entered(q)
        BY <1>0 DEF Entered
      <4>3. CASE pc[r] = "running"
        <5>1. ~ Entered(q)
          BY <3>2, <4>3 DEF Entered
        <5>2. q \notin DOMAIN received
          BY <1>1, <3>1, <5>1, RankFacts DEF InTransit, RuntimeType
        <5> QED BY <1>0, <3>1, <4>1, <4>2, <5>1, <5>2 DEF InTransit, Roles
      <4>4. CASE pc[r] = "finalized" /\ r # 0
        BY <1>0, <2>4, <3>1, <3>2, <4>1, <4>2, <4>4 DEF InTransit, Roles
      <4>5. CASE r = 0
        <5>1. q \notin DOMAIN received /\ message[q] = NoGraph
          BY <1>1, <3>1, <3>2, <4>5 DEF RuntimeType, InTransit
        <5> QED BY <1>0, <3>1, <4>1, <4>2, <5>1 DEF InTransit, Roles
      <4> QED BY <1>0, <4>3, <4>4, <4>5
    <3>3. CASE q # r
      BY <1>0, <2>3, <3>1, <3>3 DEF OwnGraph, InTransit, Roles, Entered
    <3> QED BY <3>2, <3>3
  <2>8. RankZeroGraph'
    <3>1. MergedRanks' = MergedRanks
      BY <1>0 DEF MergedRanks
    <3>2. \A q \in MergedRanks : q \in Ranks /\ q # 0 /\ Entered(q)
      <4>1. \A q \in MergedRanks : q \in Ranks /\ q # 0 /\ 1 <= q /\ q < nextRank
        BY <1>1, RankFacts DEF MergedRanks
      <4> QED BY <4>1 DEF RuntimeInv, InTransit
    <3>3. \A q \in MergedRanks : reported'[q] = reported[q]
      BY <2>3, <2>4, <3>2 DEF Entered
    <3>4. UNION {reported'[q] : q \in MergedRanks'} = UNION {reported[q] : q \in MergedRanks}
      BY <3>1, <3>3
    <3>5. CASE r = 0
      BY <1>0, <2>2, <2>3, <2>4, <3>4, <3>5 DEF RuntimeInv, RankZeroGraph
    <3>6. CASE r # 0
      <4>1. graph'[0] = graph[0] /\ reported'[0] = reported[0]
        BY <1>1, <2>3, <3>6, RankFacts
      <4> QED BY <1>0, <3>4, <4>1 DEF RuntimeInv, RankZeroGraph
    <3> QED BY <3>5, <3>6
  <2>9. FileWritten'
    <3>1. file # NoGraph => r # 0
      BY <1>0 DEF RuntimeInv, FileWritten
    <3> QED BY <1>0, <1>1, <2>3, <3>1, RankFacts DEF RuntimeInv, FileWritten
  <2> QED BY <2>6, <2>7, <2>8, <2>9 DEF RuntimeInv
<1> QED BY <1>2, <1>3 DEF IndirectCall

\* A step that only moves the program counter of one process, and may set
\* shouldWrite of it.
LEMMA ProgressStep ==
  ASSUME RuntimeInv, NEW r \in Ranks, NEW to, pc' = [pc EXCEPT ![r] = to],
         to \in {"receiving", "finalized", "exited"}, pc[r] # "loading", pc[r] # "exited",
         to = "receiving" => r = 0,
         to # "receiving" => Entered(r) /\ UNCHANGED shouldWrite,
         r # 0 => UNCHANGED shouldWrite,
         shouldWrite' \in [Ranks -> BOOLEAN],
         \A q \in Ranks \ {r} : shouldWrite'[q] = shouldWrite[q],
         r = 0 /\ to # "receiving" => nextRank = TotalRanks /\ DOMAIN received = {},
         UNCHANGED <<graph, message, nextRank, received, reported>>
  PROVE  /\ RuntimeType' /\ RankZeroGraph'
         /\ \A q \in Ranks : (OwnGraph(q) /\ InTransit(q) /\ Roles(q))'
<1>1. RuntimeType
  BY DEF RuntimeInv
<1>2. pc'[r] = to /\ \A q \in Ranks \ {r} : pc'[q] = pc[q]
  BY <1>1 DEF RuntimeType
<1>3. RuntimeType'
  BY <1>1 DEF RuntimeType
<1>4. ASSUME NEW q \in Ranks PROVE (OwnGraph(q) /\ InTransit(q) /\ Roles(q))'
  <2>1. OwnGraph(q) /\ InTransit(q) /\ Roles(q)
    BY DEF RuntimeInv
  <2>2. CASE q = r
    <3>1. Entered(q)'
      BY <1>2, <2>2 DEF Entered
    <3>2. OwnGraph(q)' /\ InTransit(q)'
      BY <1>2, <2>1, <2>2, <3>1 DEF OwnGraph, InTransit
    <3>3. Roles(q)'
      BY <1>2, <2>1, <2>2, <3>1 DEF Roles
    <3> QED BY <3>2, <3>3
  <2>3. CASE q # r
    BY <1>2, <2>1, <2>3 DEF OwnGraph, InTransit, Roles, Entered
  <2> QED BY <2>2, <2>3
<1>5. RankZeroGraph'
  <2>1. MergedRanks' = MergedRanks
    BY DEF MergedRanks
  <2>2. CASE r = 0
    BY <1>2, <2>1, <2>2 DEF RuntimeInv, RankZeroGraph
  <2>3. CASE r # 0
    <3>1. pc'[0] = pc[0]
      BY <1>1, <1>2, <2>3, RankFacts
    <3> QED BY <2>1, <3>1 DEF RuntimeInv, RankZeroGraph
  <2> QED BY <2>2, <2>3
<1> QED BY <1>3, <1>4, <1>5

\* The graph that is sent is all the process has reported.
LEMMA SendStep ==
  ASSUME RuntimeInv, NEW r \in Ranks, Send(r)
  PROVE  RuntimeInv'
<1>0. /\ r # 0 /\ pc[r] = "running"
      /\ shouldWrite' = [shouldWrite EXCEPT ![r] = FALSE]
      /\ message' = [message EXCEPT ![r] = graph[r]]
      /\ pc' = [pc EXCEPT ![r] = "sending"]
      /\ UNCHANGED <<graph, nextRank, received, file, reported>>
  BY DEF Send, writerAfterSend
<1>1. RuntimeType /\ 0 \in Ranks
  BY RankFacts DEF RuntimeInv
<1>2. RuntimeType'
  BY <1>0, <1>1 DEF RuntimeType
<1>3. ASSUME NEW q \in Ranks PROVE (OwnGraph(q) /\ InTransit(q) /\ Roles(q))'
  <2>1. OwnGraph(q) /\ InTransit(q) /\ Roles(q)
    BY DEF RuntimeInv
  <2>2. CASE q = r
    <3>1. pc'[q] = "sending" /\ message'[q] = graph[q] /\ shouldWrite'[q] = FALSE
      BY <1>0, <1>1, <2>2 DEF RuntimeType
    <3>2. Entered(q)'
      BY <3>1 DEF Entered
    <3> QED BY <1>0, <2>1, <2>2, <3>1, <3>2 DEF OwnGraph, InTransit, Roles
  <2>3. CASE q # r
    <3>1. pc'[q] = pc[q] /\ message'[q] = message[q] /\ shouldWrite'[q] = shouldWrite[q]
      BY <1>0, <1>1, <2>3 DEF RuntimeType
    <3> QED BY <1>0, <2>1, <3>1 DEF OwnGraph, InTransit, Roles, Entered
  <2> QED BY <2>2, <2>3
<1>4. pc'[0] = pc[0]
  BY <1>0, <1>1 DEF RuntimeType
<1>5. RankZeroGraph' /\ FileWritten'
  BY <1>0, <1>4 DEF RuntimeInv, RankZeroGraph, MergedRanks, FileWritten
<1> QED BY <1>2, <1>3, <1>5 DEF RuntimeInv

\* Receiving moves a graph from the message to the received graphs.
LEMMA ReceiveStep ==
  ASSUME RuntimeInv, Receive
  PROVE  RuntimeInv'
<1>0. /\ pc[0] = "receiving" /\ nextRank < TotalRanks /\ message[nextRank] # NoGraph
      /\ received' = [r \in DOMAIN received \cup {nextRank} |->
                        IF r = nextRank THEN message[r] ELSE received[r]]
      /\ message' = [message EXCEPT ![nextRank] = NoGraph]
      /\ nextRank' = nextRank + 1
      /\ UNCHANGED <<pc, graph, shouldWrite, file, reported>>
  BY DEF Receive
<1>1. RuntimeType /\ 0 \in Ranks /\ nextRank \in Nat /\ nextRank >= 1
  BY RankFacts DEF RuntimeInv
<1>2. nextRank \in Ranks /\ nextRank # 0
  BY <1>0, <1>1, TotalRanksAssumption DEF Ranks
<1>3. /\ message[nextRank] \in PatchGraphs /\ Entered(nextRank)
      /\ message[nextRank].calls = reported[nextRank]
  BY <1>0, <1>1, <1>2 DEF RuntimeType, RuntimeInv, InTransit
<1>4. /\ DOMAIN received' = DOMAIN received \cup {nextRank}
      /\ received'[nextRank] = message[nextRank]
      /\ \A r \in DOMAIN received \ {nextRank} : received'[r] = received[r]
  BY <1>0
<1>5. RuntimeType'
  <2>1. nextRank' \in 1 .. TotalRanks
    BY <1>0, <1>1, TotalRanksAssumption
  <2>2. DOMAIN received' \subseteq 1 .. (nextRank' - 1)
    BY <1>0, <1>1, <1>4 DEF RuntimeType
  <2>3. received' \in [DOMAIN received' -> PatchGraphs]
    BY <1>0, <1>1, <1>3 DEF RuntimeType
  <2>4. message' \in [Ranks -> PatchGraphs \cup {NoGraph}]
    BY <1>0, <1>1 DEF RuntimeType
  <2> QED BY <1>0, <1>1, <2>1, <2>2, <2>3, <2>4 DEF RuntimeType
<1>6. ASSUME NEW q \in Ranks PROVE (OwnGraph(q) /\ InTransit(q) /\ Roles(q))'
  <2>1. OwnGraph(q) /\ InTransit(q) /\ Roles(q) /\ q \in Nat
    BY <1>1, RankFacts DEF RuntimeInv
  <2>2. OwnGraph(q)' /\ Roles(q)'
    BY <1>0, <2>1 DEF OwnGraph, Roles, Entered
  <2>3. Entered(q)' <=> Entered(q)
    BY <1>0 DEF Entered
  <2>4. InTransit(q)'
    <3>1. CASE q = nextRank
      <4>1. message'[q] = NoGraph
        BY <1>0, <1>1, <3>1 DEF RuntimeType
      <4> QED BY <1>0, <1>3, <1>4, <2>3, <3>1, <4>1 DEF InTransit
    <3>2. CASE q # nextRank
      <4>1. message'[q] = message[q]
        BY <1>0, <1>1, <3>2 DEF RuntimeType
      <4>2. q \in DOMAIN received' => q \in DOMAIN received /\ received'[q] = received[q]
        BY <1>4, <3>2
      <4>3. q < nextRank' => q < nextRank
        BY <1>0, <1>1, <2>1, <3>2
      <4> QED BY <1>0, <2>1, <2>3, <4>1, <4>2, <4>3 DEF InTransit
    <3> QED BY <3>1, <3>2
  <2> QED BY <2>2, <2>4
<1>7. RankZeroGraph'
  <2>1. MergedRanks' = MergedRanks
    BY <1>0, <1>1, <1>4 DEF MergedRanks
  <2> QED BY <1>0, <2>1 DEF RuntimeInv, RankZeroGraph
<1>8. FileWritten'
  BY <1>0 DEF RuntimeInv, FileWritten
<1> QED BY <1>5, <1>6, <1>7, <1>8 DEF RuntimeInv

\* Merging moves a graph from the received graphs into that of rank 0.
LEMMA MergeStep ==
  ASSUME RuntimeInv, NEW r \in DOMAIN received, Merge(r)
  PROVE  RuntimeInv'
<1>0. /\ pc[0] = "receiving"
      /\ graph' = [graph EXCEPT ![0] = mergeNamed(@, received[r])]
      /\ received' = [q \in DOMAIN received \ {r} |-> received[q]]
      /\ UNCHANGED <<pc, shouldWrite, message, nextRank, file, reported>>
  BY DEF Merge
<1>1. RuntimeType /\ 0 \in Ranks /\ nextRank \in Nat
  BY RankFacts DEF RuntimeInv
<1>2. r \in 1 .. (nextRank - 1) /\ r \in Ranks /\ received[r] \in PatchGraphs
  BY <1>1, RankFacts DEF RuntimeType
<1>3. received[r].calls = reported[r]
  BY <1>2 DEF RuntimeInv, InTransit
<1>4. graph[0] \in PatchGraphs
  BY <1>0, <1>1 DEF RuntimeInv, OwnGraph, RuntimeType
<1> DEFINE g == mergeNamed(graph[0], received[r])
<1>5. g \in PatchGraphs /\ g.calls = graph[0].calls \cup reported[r] /\ g # NoGraph
  BY <1>2, <1>3, <1>4, MergePatchGraphs, NoGraphAssumption
<1>6. graph'[0] = g /\ \A q \in Ranks \ {0} : graph'[q] = graph[q]
  BY <1>0, <1>1 DEF RuntimeType
<1>7. DOMAIN received' = DOMAIN received \ {r} /\ \A q \in DOMAIN received' : received'[q] = received[q]
  BY <1>0
<1>8. RuntimeType'
  <2>1. graph' \in [Ranks -> PatchGraphs \cup {NoGraph}]
    BY <1>0, <1>1, <1>5 DEF RuntimeType
  <2>2. received' \in [DOMAIN received' -> PatchGraphs]
    BY <1>0, <1>1 DEF RuntimeType
  <2> QED BY <1>0, <1>1, <1>7, <2>1, <2>2 DEF RuntimeType
<1> HIDE DEF g
<1>9. ASSUME NEW q \in Ranks PROVE (OwnGraph(q) /\ InTransit(q) /\ Roles(q))'
  <2>1. OwnGraph(q) /\ InTransit(q) /\ Roles(q)
    BY DEF RuntimeInv
  <2>2. OwnGraph(q)'
    BY <1>0, <1>5, <1>6, <2>1 DEF OwnGraph
  <2>3. InTransit(q)' /\ Roles(q)'
    BY <1>0, <1>7, <2>1 DEF InTransit, Roles, Entered
  <2> QED BY <2>2, <2>3
<1>10. RankZeroGraph'
  <2>1. MergedRanks' = MergedRanks \cup {r}
    BY <1>0, <1>2, <1>7 DEF MergedRanks
  <2>2. UNION {reported[q] : q \in MergedRanks'} = reported[r] \cup UNION {reported[q] : q \in MergedRanks}
    BY <2>1
  <2>3. graph[0].calls = reported[0] \cup UNION {reported[q] : q \in MergedRanks}
    BY <1>0 DEF RuntimeInv, RankZeroGraph
  <2>4. graph'[0].calls = reported'[0] \cup UNION {reported'[q] : q \in MergedRanks'}
    BY <1>0, <1>5, <1>6, <2>2, <2>3
  <2> QED BY <1>0, <2>4 DEF RankZeroGraph
<1>11. FileWritten'
  BY <1>0 DEF RuntimeInv, FileWritten
<1> QED BY <1>8, <1>9, <1>10, <1>11 DEF RuntimeInv

\* The destructor: only rank 0 has left shouldWrite set.
LEMMA ExitStep ==
  ASSUME RuntimeInv, NEW r \in Ranks, FinalizeGlobalCallgraph(r)
  PROVE  RuntimeInv'
<1>0. /\ pc[r] = "finalized" /\ pc' = [pc EXCEPT ![r] = "exited"]
      /\ file' = IF writes(r) THEN graph[r] ELSE file
      /\ UNCHANGED <<graph, shouldWrite, message, nextRank, received, reported>>
  BY DEF FinalizeGlobalCallgraph
<1>1. RuntimeType /\ Entered(r) /\ 0 \in Ranks
  BY <1>0, RankFacts DEF RuntimeInv, Entered
<1>2. /\ RuntimeType' /\ RankZeroGraph'
      /\ \A q \in Ranks : (OwnGraph(q) /\ InTransit(q) /\ Roles(q))'
  <2>1. r = 0 => nextRank = TotalRanks /\ DOMAIN received = {}
    BY <1>0 DEF RuntimeInv, RankZeroGraph
  <2>2. shouldWrite' \in [Ranks -> BOOLEAN]
    BY <1>0, <1>1 DEF RuntimeType
  <2> QED BY <1>0, <1>1, <2>1, <2>2, ProgressStep
<1>3. FileWritten'
  <2>1. CASE r = 0
    <3>1. pc'[0] = "exited" /\ file = NoGraph
      BY <1>0, <1>1, <2>1 DEF RuntimeType, RuntimeInv, FileWritten
    <3> QED BY <1>0, <2>1, <3>1 DEF FileWritten
  <2>2. CASE r # 0
    <3>1. file' = file /\ pc'[0] = pc[0]
      BY <1>0, <1>1, <2>2 DEF RuntimeType, RuntimeInv, Roles, writes
    <3> QED BY <1>0, <3>1 DEF RuntimeInv, FileWritten
  <2> QED BY <2>1, <2>2
<1> QED BY <1>2, <1>3 DEF RuntimeInv

\* Every step keeps the invariant.
LEMMA RuntimeNext ==
  ASSUME RuntimeInv, [Next]_vars
  PROVE  RuntimeInv'
<1>0. RuntimeType /\ 0 \in Ranks
  BY RankFacts DEF RuntimeInv
<1>1. ASSUME NEW r \in Ranks, InitializeGlobalCallgraph(r) PROVE RuntimeInv'
  BY <1>1, InitializeStep
<1>2. ASSUME NEW r \in Ranks, Send(r) PROVE RuntimeInv'
  BY <1>2, SendStep
<1>3. ASSUME NEW r \in Ranks, Sent(r) PROVE RuntimeInv'
  <2>1. /\ pc[r] = "sending" /\ pc' = [pc EXCEPT ![r] = "finalized"]
        /\ UNCHANGED <<graph, shouldWrite, message, nextRank, received, file, reported>>
    BY <1>3 DEF Sent
  <2>2. r # 0 /\ Entered(r)
    BY <2>1 DEF RuntimeInv, Roles, Entered
  <2>3. /\ RuntimeType' /\ RankZeroGraph'
        /\ \A q \in Ranks : (OwnGraph(q) /\ InTransit(q) /\ Roles(q))'
    <3>1. shouldWrite' \in [Ranks -> BOOLEAN]
      BY <1>0, <2>1 DEF RuntimeType
    <3> QED BY <2>1, <2>2, <3>1, ProgressStep
  <2>4. pc'[0] = pc[0]
    BY <1>0, <2>1, <2>2 DEF RuntimeType
  <2>5. FileWritten'
    BY <2>1, <2>4 DEF RuntimeInv, FileWritten
  <2> QED BY <2>3, <2>5 DEF RuntimeInv
<1>4. CASE FinalizeRankZero
  <2>1. /\ pc[0] = "running" /\ pc' = [pc EXCEPT ![0] = "receiving"]
        /\ shouldWrite' = [shouldWrite EXCEPT ![0] = TRUE]
        /\ UNCHANGED <<graph, message, nextRank, received, file, reported>>
    BY <1>4 DEF FinalizeRankZero
  <2>2. /\ shouldWrite' \in [Ranks -> BOOLEAN]
        /\ \A q \in Ranks \ {0} : shouldWrite'[q] = shouldWrite[q]
    BY <1>0, <2>1 DEF RuntimeType
  <2>3. /\ RuntimeType' /\ RankZeroGraph'
        /\ \A q \in Ranks : (OwnGraph(q) /\ InTransit(q) /\ Roles(q))'
    BY <1>0, <2>1, <2>2, ProgressStep
  <2>4. FileWritten'
    BY <2>1 DEF RuntimeInv, FileWritten
  <2> QED BY <2>3, <2>4 DEF RuntimeInv
<1>5. CASE Receive
  BY <1>5, ReceiveStep
<1>6. CASE Merged
  <2>1. /\ pc[0] = "receiving" /\ nextRank >= TotalRanks /\ DOMAIN received = {}
        /\ pc' = [pc EXCEPT ![0] = "finalized"]
        /\ UNCHANGED <<graph, shouldWrite, message, nextRank, received, file, reported>>
    BY <1>6 DEF Merged, allReceived, Empty
  <2>2. Entered(0) /\ nextRank = TotalRanks
    BY <1>0, <2>1, RankFacts, TotalRanksAssumption DEF Entered
  <2>3. /\ RuntimeType' /\ RankZeroGraph'
        /\ \A q \in Ranks : (OwnGraph(q) /\ InTransit(q) /\ Roles(q))'
    <3>1. shouldWrite' \in [Ranks -> BOOLEAN]
      BY <1>0, <2>1 DEF RuntimeType
    <3> QED BY <1>0, <2>1, <2>2, <3>1, ProgressStep
  <2>4. FileWritten'
    BY <2>1 DEF RuntimeInv, FileWritten
  <2> QED BY <2>3, <2>4 DEF RuntimeInv
<1>7. ASSUME NEW q \in DOMAIN received, Merge(q) PROVE RuntimeInv'
  BY <1>7, MergeStep
<1>8. ASSUME NEW r \in Ranks, FinalizeGlobalCallgraph(r) PROVE RuntimeInv'
  BY <1>8, ExitStep
<1>9. ASSUME NEW r \in Ranks, NEW c \in Calls[r], IndirectCall(r, c[1], c[2]) PROVE RuntimeInv'
  <2>1. c[1] \in Names /\ c[2] \in Addresses
    BY CallsAssumption
  <2> QED BY <1>9, <2>1, IndirectCallStep
<1>10. CASE UNCHANGED <<pc, graph, shouldWrite, message, nextRank, received, file, reported>>
  <2>1. \A q \in Ranks : (OwnGraph(q) /\ InTransit(q) /\ Roles(q))'
    BY <1>10 DEF RuntimeInv, OwnGraph, InTransit, Roles, Entered
  <2>2. RuntimeType' /\ RankZeroGraph' /\ FileWritten'
    BY <1>10 DEF RuntimeInv, RuntimeType, RankZeroGraph, MergedRanks, FileWritten
  <2> QED BY <2>1, <2>2 DEF RuntimeInv
<1>11. ASSUME NEW r \in Ranks, Dlopen(r) PROVE RuntimeInv'
  BY <1>10, <1>11 DEF Dlopen
<1>12. ASSUME NEW r \in Ranks, NEW c \in Calls[r], IndirectCallIgnored(r, c[1], c[2])
       PROVE  RuntimeInv'
  BY <1>10, <1>12 DEF IndirectCallIgnored, vars
<1>13. CASE AllExited \/ UNCHANGED vars
  BY <1>10, <1>13 DEF AllExited, vars
<1> QED BY <1>1, <1>2, <1>3, <1>4, <1>5, <1>6, <1>7, <1>8, <1>9, <1>11, <1>12, <1>13
        DEF Next, Runtime

-----------------------------------------------------------------------------

\* At any time every reported call is in the graph of rank 0, in one that was
\* received or sent, or in the graph of a process that has sent none.
THEOREM RuntimeInvariant == Spec => []RuntimeInv
<1>1. RuntimeInv /\ [Next]_vars => RuntimeInv'
  BY RuntimeNext
<1> QED BY <1>1, RuntimeInit, PTL DEF Spec

\* When rank 0 has exited there is no rank left whose calls it has not merged.
LEMMA AllRanksMerged ==
  ASSUME RuntimeInv, pc[0] = "exited"
  PROVE  graph[0].calls = UNION {reported[r] : r \in Ranks}
<1>1. /\ nextRank = TotalRanks /\ DOMAIN received = {}
      /\ graph[0].calls = reported[0] \cup UNION {reported[r] : r \in MergedRanks}
  BY DEF RuntimeInv, RankZeroGraph
<1>2. Ranks = {0} \cup MergedRanks
  BY <1>1, TotalRanksAssumption DEF MergedRanks, Ranks
<1> QED BY <1>1, <1>2

\* The patch graph holds exactly the calls that the processes reported before
\* they entered MPI_Finalize, for any number of ranks, any calls and any order
\* of messages and merges.
THEOREM PatchGraphAlwaysComplete == Spec => []PatchGraphComplete
<1>1. RuntimeInv => PatchGraphComplete
  BY AllRanksMerged DEF RuntimeInv, FileWritten, PatchGraphComplete
<1> QED BY <1>1, RuntimeInvariant, PTL
=============================================================================
