--------------------------- MODULE ScorepProfile ---------------------------
(***************************************************************************)
(* The run of an instrumented program, as PGIS sees it through a profile.  *)
(* External: this is Score-P's and the compiler's part.  The program p has *)
(* a tree of calls p.run, with the visits and the time of each function in *)
(* it; f = [names, calls] is the filter file.                              *)
(***************************************************************************)
EXTENDS CgHelper

executed(p) == {p.main} \cup {e[2] : e \in p.run}

\* A function is measured if it is in the filter and can be: it has a body, or is wrapped,
\* or the call that is made has a body around it.
measurable(p, f) ==
    {n \in executed(p) : \/ n \in f.names \cap (p.body \cup p.mpi)
                         \/ \E c \in p.body : <<c, n>> \in f.calls \cap p.run}

\* The functions whose time n shows as its own: itself, and what it calls through
\* functions that are not measured.
hiddenBelow(p, f, n) == visited({e \in p.run : e[2] \notin measurable(p, f)}, n)

measuredNodes(p, f) ==
    [n \in measurable(p, f) |->
       [calls |-> p.calls[n],
        time |-> MapThenSumSet(LAMBDA m : p.time[m], hiddenBelow(p, f, n)),
        incl |-> MapThenSumSet(LAMBDA m : p.time[m], getDescendants(p.run, n))]]

\* The calls that a profile shows: from a measured function, through others, to one.
measuredCalls(p, f) ==
    {e \in measurable(p, f) \X measurable(p, f) :
       e[1] # e[2] /\ \E m \in hiddenBelow(p, f, e[1]) : <<m, e[2]>> \in p.run}

NoProfile == [nodes |-> <<>>, calls |-> {}]
Profile(p, f) == [nodes |-> measuredNodes(p, f), calls |-> measuredCalls(p, f)]
=============================================================================
