---------------------------- MODULE CallgraphAbs ----------------------------
(***************************************************************************)
(* What class Callgraph promises its clients (graph/include/metacg/        *)
(* Callgraph.h): a directed graph of named functions without parallel      *)
(* edges.  Ids are handed out in order and name one function each until    *)
(* the graph is cleared; erasing a function takes exactly its edges along. *)
(***************************************************************************)
EXTENDS Naturals

CONSTANT Names

VARIABLES
    next,   \* the next id
    fun,    \* the name of every function in the graph, by id
    calls   \* pairs <<caller, callee>>

absVars == <<next, fun, calls>>

AbsInit == next = 0 /\ fun = [i \in {} |-> {}] /\ calls = {}

AddFunction(f) ==
    /\ next' = next + 1
    /\ fun' = [i \in DOMAIN fun \cup {next} |-> IF i = next THEN f ELSE fun[i]]
    /\ UNCHANGED calls

RemoveFunction(i) ==
    /\ i \in DOMAIN fun
    /\ fun' = [j \in DOMAIN fun \ {i} |-> fun[j]]
    /\ calls' = {e \in calls : e[1] # i /\ e[2] # i}
    /\ UNCHANGED next

AddCall(p, c) ==
    /\ {p, c} \subseteq DOMAIN fun
    /\ calls' = calls \cup {<<p, c>>}
    /\ UNCHANGED <<next, fun>>

RemoveCall(e) ==
    /\ calls' = calls \ {e}
    /\ UNCHANGED <<next, fun>>

Reset == next' = 0 /\ fun' = [i \in {} |-> {}] /\ calls' = {}

AbsNext ==
    \/ \E f \in Names : AddFunction(f)
    \/ \E i \in DOMAIN fun : RemoveFunction(i)
    \/ \E p, c \in DOMAIN fun : AddCall(p, c)
    \/ \E e \in calls : RemoveCall(e)
    \/ Reset

AbsSpec == AbsInit /\ [][AbsNext]_absVars
=============================================================================
