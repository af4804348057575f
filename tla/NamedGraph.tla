----------------------------- MODULE NamedGraph -----------------------------
(***************************************************************************)
(* A call graph seen by name, without ids: which functions it has, whether *)
(* and where each is defined, and who calls whom.  This is what the graphs *)
(* of different parts of a program have in common, and what merging them   *)
(* by name promises (MergeByName::findMatchingNode and Callgraph::merge).  *)
(* CallgraphMerge shows that merge keeps the promise; MCGManager builds on *)
(* it.                                                                     *)
(***************************************************************************)

NoFunctions == [f \in {} |-> f]

EmptyNamed == [funs |-> NoFunctions, calls |-> {}]

\* The graphs of functions in F, each with one of the attributes A.
GraphsOver(F, A) == [funs : UNION {[D -> A] : D \in SUBSET F}, calls : SUBSET (F \X F)]

\* A target function stays as it is unless the source defines what the target
\* only declares.
keepsTarget(t, s, f) ==
    /\ f \in DOMAIN t.funs
    /\ t.funs[f].hasBody \/ f \notin DOMAIN s.funs \/ ~ s.funs[f].hasBody

mergeNamed(t, s) ==
    [funs  |-> [f \in DOMAIN t.funs \cup DOMAIN s.funs |->
                  IF keepsTarget(t, s, f) THEN t.funs[f] ELSE s.funs[f]],
     calls |-> t.calls \cup s.calls]
=============================================================================
