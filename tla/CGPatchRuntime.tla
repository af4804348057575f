--------------------------- MODULE CGPatchRuntime ---------------------------
(***************************************************************************)
(* The runtime of CGPatch in the processes of an MPI program.  Every       *)
(* process records the targets of its indirect calls in a call graph of    *)
(* its own.  MPI_Finalize, which the runtime wraps, sends the graphs to    *)
(* rank 0; rank 0 merges them and writes the patch graph when it exits.    *)
(*                                                                         *)
(* A process runs one thread of the application: the runtime takes no      *)
(* locks.  Every node of a patch graph has a body and no origin, names are *)
(* unique and there is no metadata, so the V2 writer and reader carry over *)
(* the graph by name (NamedGraph).                                         *)
(***************************************************************************)
EXTENDS Integers, FiniteSets, NamedGraph

CONSTANTS
    TotalRanks,   \* MPI_Comm_size
    Names,        \* function names
    Addresses,    \* call targets
    Calls,        \* the indirect calls each process may make: pairs <<function, address>>
    SymbolOf,     \* the symbol at an address
    Startup,      \* the addresses mapped when the process starts
    NoGraph,      \* no graph: a null globalCallgraph, no message, no file
    NotLoaded     \* symTables is empty

Ranks == 0 .. (TotalRanks - 1)

Defined == [hasBody |-> TRUE, origin |-> NoGraph]

\* All patch graphs there can be, by name.
PatchGraphs == GraphsOver(Names, {Defined})

ASSUME TotalRanksAssumption == TotalRanks \in Nat \ {0}
ASSUME CallsAssumption == Calls \in [Ranks -> SUBSET (Names \X Addresses)]
ASSUME SymbolsAssumption == SymbolOf \in [Addresses -> Names]
ASSUME StartupAssumption == Startup \subseteq Addresses
ASSUME NoGraphAssumption == NoGraph \notin PatchGraphs

VARIABLES
    pc,          \* where each process is
    graph,       \* globalCallgraph, by name
    visitedMap,  \* the <<name, address>> pairs seen before
    symTables,   \* the addresses that can be resolved, or NotLoaded
    mapped,      \* the addresses whose object is mapped into the process
    shouldWrite,
    message,     \* the graph sent to rank 0 and not yet received
    buffered,    \* MPI copied the message out of the buffer of the sender
    nextRank,    \* i, the loop variable of rank 0's MPI_Finalize
    received,    \* rank 0: the managed graphs other than the active one
    output,      \* what the file system says of the path in CGPATCH_CG_NAME
    file,        \* the patch graph on disk
    reported     \* history: the calls each process resolved before it
                 \* entered MPI_Finalize, for rank 0 before it exited

vars == <<pc, graph, visitedMap, symTables, mapped, shouldWrite, message, buffered, nextRank,
          received, output, file, reported>>

Empty == [r \in {} |-> EmptyNamed]

Init ==
    /\ pc = [r \in Ranks |-> "loading"]
    /\ graph = [r \in Ranks |-> NoGraph]
    /\ visitedMap = [r \in Ranks |-> {}]
    /\ symTables = [r \in Ranks |-> NotLoaded]
    /\ mapped = [r \in Ranks |-> Startup]
    /\ shouldWrite = [r \in Ranks |-> TRUE]
    /\ message = [r \in Ranks |-> NoGraph]
    /\ buffered = [r \in Ranks |-> FALSE]
    /\ nextRank = 1
    /\ received = Empty
    /\ output \in {"writable", "noDirectory", "notOpened"}
    /\ file = NoGraph
    /\ reported = [r \in Ranks |-> {}]

\* The constructor of ValidatorInitializer.
InitializeGlobalCallgraph(r) ==
    /\ pc[r] = "loading"
    /\ pc' = [pc EXCEPT ![r] = "running"]
    /\ graph' = [graph EXCEPT ![r] = EmptyNamed]
    /\ UNCHANGED <<visitedMap, symTables, mapped, shouldWrite, message, buffered,
                   nextRank, received, output, file, reported>>

\* The application loads a library.
Dlopen(r) ==
    /\ pc[r] = "running" /\ mapped[r] # Addresses
    /\ mapped' = [mapped EXCEPT ![r] = Addresses]
    /\ UNCHANGED <<pc, graph, visitedMap, symTables, shouldWrite, message, buffered,
                   nextRank, received, output, file, reported>>

-----------------------------------------------------------------------------
(* __metacg_indirect_call *)

\* The symbol tables are loaded once.
loadedTables(r) == IF symTables[r] = NotLoaded THEN mapped[r] ELSE symTables[r]

existsAnyEdge(g, name, symbol) == <<name, symbol>> \in g.calls

\* getOrInsertNode for both ends, setHasBody, addEdge.
recordCall(g, name, symbol) ==
    IF existsAnyEdge(g, name, symbol) THEN g
    ELSE [funs  |-> [f \in DOMAIN g.funs \cup {name, symbol} |-> Defined],
          calls |-> g.calls \cup {<<name, symbol>>}]

seenBefore(r, name, address) == <<name, address>> \in visitedMap[r]

\* Calls before the constructor has run and calls seen before do nothing.
IndirectCallIgnored(r, name, address) ==
    /\ pc[r] \in {"loading", "running", "finalized"} /\ address \in mapped[r]
    /\ graph[r] = NoGraph \/ seenBefore(r, name, address)
    /\ UNCHANGED vars

IndirectCall(r, name, address) ==
    /\ pc[r] \in {"running", "finalized"} /\ address \in mapped[r]
    /\ graph[r] # NoGraph /\ ~ seenBefore(r, name, address)
    /\ visitedMap' = [visitedMap EXCEPT ![r] = @ \cup {<<name, address>>}]
    /\ symTables' = [symTables EXCEPT ![r] = loadedTables(r)]
    /\ IF address \in loadedTables(r)
       THEN /\ graph' = [graph EXCEPT ![r] = recordCall(@, name, SymbolOf[address])]
            /\ reported' = IF pc[r] = "running" \/ r = 0
                           THEN [reported EXCEPT ![r] = @ \cup {<<name, SymbolOf[address]>>}]
                           ELSE reported
       ELSE UNCHANGED <<graph, reported>>
    /\ UNCHANGED <<pc, mapped, shouldWrite, message, buffered, nextRank, received, output,
                   file>>

-----------------------------------------------------------------------------
(* MPI_Finalize *)

writerAfterSend(r) == [shouldWrite EXCEPT ![r] = FALSE]

\* A rank other than 0 serializes its graph and sends it.  MPI decides, for
\* each message, whether it buffers it.
Send(r) ==
    /\ r # 0 /\ pc[r] = "running"
    /\ shouldWrite' = writerAfterSend(r)
    /\ message' = [message EXCEPT ![r] = graph[r]]
    /\ \E b \in BOOLEAN : buffered' = [buffered EXCEPT ![r] = b]
    /\ pc' = [pc EXCEPT ![r] = "sending"]
    /\ UNCHANGED <<graph, visitedMap, symTables, mapped, nextRank, received, output, file,
                   reported>>

\* MPI_Send and PMPI_Finalize return: a send that is not buffered waits until
\* rank 0 has received the message.
Sent(r) ==
    /\ pc[r] = "sending"
    /\ buffered[r] \/ message[r] = NoGraph
    /\ pc' = [pc EXCEPT ![r] = "finalized"]
    /\ UNCHANGED <<graph, visitedMap, symTables, mapped, shouldWrite, message, buffered,
                   nextRank, received, output, file, reported>>

\* MUTANT: no rank is left to write the graph.
FinalizeRankZero_NoWriter ==
    /\ pc[0] = "running"
    /\ shouldWrite' = [shouldWrite EXCEPT ![0] = FALSE]
    /\ pc' = [pc EXCEPT ![0] = "receiving"]
    /\ UNCHANGED <<graph, visitedMap, symTables, mapped, message, buffered, nextRank,
                   received, output, file, reported>>

FinalizeRankZero ==
    /\ pc[0] = "running"
    /\ shouldWrite' = [shouldWrite EXCEPT ![0] = TRUE]
    /\ pc' = [pc EXCEPT ![0] = "receiving"]
    /\ UNCHANGED <<graph, visitedMap, symTables, mapped, message, buffered, nextRank,
                   received, output, file, reported>>

\* MPI_Probe waits for the message of this one rank.
Receive ==
    /\ pc[0] = "receiving" /\ nextRank < TotalRanks
    /\ message[nextRank] # NoGraph
    /\ received' = [r \in DOMAIN received \cup {nextRank} |->
                      IF r = nextRank THEN message[r] ELSE received[r]]
    /\ message' = [message EXCEPT ![nextRank] = NoGraph]
    /\ nextRank' = nextRank + 1
    /\ UNCHANGED <<pc, graph, visitedMap, symTables, mapped, shouldWrite, buffered, output,
                   file, reported>>

\* MUTANT: stops one rank early.
allReceived_Early == nextRank >= TotalRanks - 1

allReceived == nextRank >= TotalRanks

\* mergeIntoActiveGraph takes the received graphs in any order.
Merge(r) ==
    /\ pc[0] = "receiving" /\ allReceived
    /\ graph' = [graph EXCEPT ![0] = mergeNamed(@, received[r])]
    /\ received' = [q \in DOMAIN received \ {r} |-> received[q]]
    /\ UNCHANGED <<pc, visitedMap, symTables, mapped, shouldWrite, message, buffered,
                   nextRank, output, file, reported>>

Merged ==
    /\ pc[0] = "receiving" /\ allReceived /\ received = Empty
    /\ pc' = [pc EXCEPT ![0] = "finalized"]
    /\ UNCHANGED <<graph, visitedMap, symTables, mapped, shouldWrite, message, buffered,
                   nextRank, received, output, file, reported>>

-----------------------------------------------------------------------------

\* The graph is lost, with an error in the log, if the directory of the file
\* does not exist or the file cannot be opened.
writes(r) == shouldWrite[r] /\ output = "writable"

\* The destructor of ValidatorInitializer.
FinalizeGlobalCallgraph(r) ==
    /\ pc[r] = "finalized"
    /\ file' = IF writes(r) THEN graph[r] ELSE file
    /\ pc' = [pc EXCEPT ![r] = "exited"]
    /\ UNCHANGED <<graph, visitedMap, symTables, mapped, shouldWrite, message, buffered,
                   nextRank, received, output, reported>>

AllExited == (\A r \in Ranks : pc[r] = "exited") /\ UNCHANGED vars

\* The steps of the runtime, as opposed to those of the application.
Runtime(r) ==
    \/ InitializeGlobalCallgraph(r) \/ Send(r) \/ Sent(r)
    \/ r = 0 /\ (FinalizeRankZero \/ Receive \/ Merged)
    \/ r = 0 /\ \E q \in DOMAIN received : Merge(q)
    \/ FinalizeGlobalCallgraph(r)

Next ==
    \/ \E r \in Ranks : Runtime(r)
    \/ \E r \in Ranks : Dlopen(r)
    \/ \E r \in Ranks : \E c \in Calls[r] :
          IndirectCallIgnored(r, c[1], c[2]) \/ IndirectCall(r, c[1], c[2])
    \/ AllExited

\* The MPI standard has every process call MPI_Finalize and exit.
Spec == Init /\ [][Next]_vars /\ \A r \in Ranks : WF_vars(Runtime(r))

-----------------------------------------------------------------------------
(* Properties. *)

\* The patch graph holds every call that any process resolved before it
\* entered MPI_Finalize, and no other call, whatever the order of the calls,
\* the messages and the merges: the de-duplication of calls and of edges loses
\* nothing, and rank 0 merges all graphs before it writes.
PatchGraphComplete ==
    file # NoGraph => file.calls = UNION {reported[r] : r \in Ranks}

\* Every process gets through MPI_Finalize, whichever sends wait for rank 0,
\* which receives in the order of the ranks, and at the end the patch graph is
\* on disk if its file could be opened, and only then.
PatchGraphWritten ==
    <>(/\ \A r \in Ranks : pc[r] = "exited"
       /\ output = "writable" <=> file # NoGraph)
=============================================================================
