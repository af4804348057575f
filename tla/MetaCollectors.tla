--------------------------- MODULE MetaCollectors ---------------------------
(***************************************************************************)
(* What CGCollector computes about each function body, and the loop depths *)
(* it computes about a whole graph.  A statement is read as in ClangAst;   *)
(* all values are integers and pointers (the weights of floating point     *)
(* operations, and class parameters that are copied, are left out).        *)
(***************************************************************************)
EXTENDS ClangAst, SequencesExt, FiniteSetsExt

LOCAL Largest(S) == IF S = {} THEN 0 ELSE Max(S)

RECURSIVE getNumStmtsInStmt(_)
getNumStmtsInStmt(s) ==
    LET Total(seq) == FoldLeft(LAMBDA n, x : n + getNumStmtsInStmt(x), 0, seq)
    IN CASE s.op \in {"block", "case"} -> Total(s.body)
         [] s.op = "default" -> 0
         [] s.op = "if" -> 1 + Total(<<s.then>> \o s.else)
         [] s.op = "loop" -> 1 + Total(<<s.body>>)
         [] s.op = "switch" -> 1 + Total(<<s.cond, s.body>>)
         [] s.op = "try" -> 1 + Total(<<s.body>> \o s.handlers) + Len(s.handlers)
         [] OTHER -> 1

\* A statement with all that is below it
RECURSIVE Nodes(_)
Nodes(e) == <<e>> \o FlattenSeq([i \in DOMAIN Children(e) |-> Nodes(Children(e)[i])])

getNumConditionalBranchesInStmt(s) ==
    Len(SelectSeq(Nodes(s), LAMBDA n : n.op \in {"if", "cond", "loop", "switch"}))

(* NumOperationsVisitor: what one node adds *)

ControlFlowOps(n) ==
    CASE n.op = "if" -> 1 + Len(n.else)
      [] n.op \in {"loop", "delete", "construct"} -> 2
      [] n.op = "call" -> IF n.kind = "call" THEN 1 ELSE 2
      [] n.op \in {"cond", "case", "default", "new", "return"} -> 1
      [] OTHER -> 0

IntOps(n) ==
    CASE n.op \in {"if", "cond", "deref", "addr", "case", "default", "index"} -> 1
      [] n.op = "loop" -> Len(n.cond)
      [] n.op = "binop" -> IF n.opcode = "+=" THEN 2 ELSE 1
      [] n.op = "decl" -> Len(n.init)
      [] n.op = "try" -> 2 * Len(n.handlers)
      [] OTHER -> 0

MemoryAccesses(globals, n) ==
    CASE n.op \in {"index", "member"} -> 1
      [] n.op = "call" /\ n.kind = "member" -> 1
      [] n.op = "ref" /\ n.decl \in globals -> 1
      [] OTHER -> 0

getNumOperationsInStmt(globals, s) ==
    LET nodes == Nodes(s)
    IN [int |-> FoldLeft(LAMBDA k, n : k + IntOps(n), 0, nodes),
        control |-> FoldLeft(LAMBDA k, n : k + ControlFlowOps(n), 0, nodes),
        memory |-> FoldLeft(LAMBDA k, n : k + MemoryAccesses(globals, n), 0, nodes)]

RECURSIVE getLoopDepthInStmt(_)
getLoopDepthInStmt(s) ==
    (IF s.op = "loop" THEN 1 ELSE 0)
    + Largest({getLoopDepthInStmt(Children(s)[i]) : i \in DOMAIN Children(s)})

\* The calls, with the loops around them
RECURSIVE getCallDepthsInStmt(_, _)
getCallDepthsInStmt(s, depth) ==
    LET d == depth + (IF s.op = "loop" THEN 1 ELSE 0)
    IN (IF s.op = "call" THEN {<<s.id, d>>} ELSE {})
       \cup UNION {getCallDepthsInStmt(Children(s)[i], d) : i \in DOMAIN Children(s)}

\* GlobalLoopDepthCollector: called maps calls to the function that is called.
loopCallDepth(called, s) ==
    LET depths == {c \in getCallDepthsInStmt(s, 0) : c[1] \in DOMAIN called}
    IN [g \in {called[c[1]] : c \in depths} |-> Max({c[2] : c \in {c \in depths : called[c[1]] = g}})]

-----------------------------------------------------------------------------
(* EstimatedCallCountVisitor.  A region is named by its place, a weight is *)
(* what the region is executed per execution of its parent: <<"loop", 0>>, *)
(* <<"true", 0>>, <<"false", 0>>, <<"catch", 0>>, <<"case", n>> for one of *)
(* n cases or <<"one", 0>>.  v is [calls, factor]: a set of                *)
(* <<call, regions around it, weights>>, and switchCaseCountFactor.        *)

W(weight) == <<weight, 0>>

Switched(s) == Len(SelectSeq(s.body.body, LAMBDA n : n.op \in {"case", "default"}))

RECURSIVE Estimate(_, _, _, _, _)
Estimate(v, e, at, parents, weights) ==
    LET kids == Children(e)
        \* the children in ks, right in the statement or in a region of it
        In(u, ks, ps, ws) ==
            FoldLeft(LAMBDA acc, k : Estimate(acc, kids[k], Append(at, k), ps, ws), u, ks)
        Plain(u, ks) == In(u, ks, parents, weights)
        Before(u, ks) == In(u, ks, parents, Append(weights, W("one")))
        Region(u, ks, name, w) == In(u, ks, Append(parents, name), Append(weights, w))
        n == Len(kids)
        all == [k \in 1..n |-> k]
        conds == IF e.op = "loop" THEN SelectSeq(all, LAMBDA k : k > Len(e.header) /\ k < n) ELSE <<>>
        head == IF e.op = "loop" THEN [k \in 1..Len(e.header) |-> k] ELSE <<>>
    IN CASE e.op \in {"if", "cond"} ->
              LET then == Region(Before(v, <<1>>), <<2>>, Append(at, 2), W("true"))
              IN IF n = 2 THEN then ELSE Region(then, <<3>>, Append(at, 3), W("false"))
         [] e.op = "loop" /\ e.kind = "do" ->
              Region(Before(v, <<n>>), <<n>> \o conds, at, W("loop"))
         [] e.op = "loop" /\ e.kind # "do" ->
              Region(Before(v, head \o conds), conds \o <<n>>, at, W("loop"))
         [] e.op = "switch" ->
              [Plain([v EXCEPT !.factor = <<"case", Switched(e)>>], all) EXCEPT !.factor = W("one")]
         [] e.op \in {"case", "default"} -> Region(v, all, at, v.factor)
         [] e.op = "try" ->
              FoldLeft(LAMBDA acc, k : Region(acc, <<k>>, Append(at, k), W("catch")),
                       Plain(v, <<1>>), Tail(all))
         [] e.op = "call" ->
              Plain([v EXCEPT !.calls = @ \cup {<<e.id, parents, weights>>}], all)
         [] OTHER -> Plain(v, all)

getEstimatedCallCountInStmt(s) ==
    Estimate([calls |-> {}, factor |-> W("one")], s, <<>>, <<>>, <<>>).calls

\* EstimateCallCountCollector.  calls: how often a function is called in a region;
\* regions: the parent and the weight of a region are those found first, in the order of
\* the names of the regions around it: any of what is found.
estimateCallCount(called, s) ==
    LET found == {c \in getEstimatedCallCountInStmt(s) : c[1] \in DOMAIN called}
        RegionOf(c) == IF c[2] = <<>> THEN <<"">> ELSE <<"", c[2][Len(c[2])]>>
        calls(g, r) == {c \in found : called[c[1]] = g /\ RegionOf(c) = r}
        places == {<<c, j>> \in found \X (1..10) : j \in DOMAIN c[2]}
    IN [calls |-> {<<called[c[1]], RegionOf(c), Cardinality(calls(called[c[1]], RegionOf(c)))>> : c \in found},
        regions |-> [r \in {p[1][2][p[2]] : p \in places} |->
                       {[parent |-> IF p[2] = 1 THEN <<"">> ELSE <<"", p[1][2][p[2] - 1]>>,
                         weight |-> p[1][3][p[2]]] : p \in {p \in places : p[1][2][p[2]] = r}}]]

-----------------------------------------------------------------------------
\* All that is collected about function f
Meta(unit, called, f) ==
    LET s == block(f.body)
        globals == {unit.globals[i].name : i \in DOMAIN unit.globals}
    IN [numStatements |-> getNumStmtsInStmt(s),
        numConditionalBranches |-> getNumConditionalBranchesInStmt(s),
        numOperations |-> getNumOperationsInStmt(globals, s),
        loopDepth |-> getLoopDepthInStmt(s),
        loopCallDepth |-> loopCallDepth(called, s),
        estimateCallCount |-> estimateCallCount(called, s)]

-----------------------------------------------------------------------------
(* calculateGlobalCallDepth: depths maps each function (by its mangled     *)
(* name) to the functions it calls and the loops around the calls, local   *)
(* to the depth of its own loops.                                          *)

\* MUTANT: the mark of a function is not taken away after its visit.
RECURSIVE getCallDepth_Marked(_, _, _, _)
getCallDepth_Marked(entry, depths, local, visited) ==
    LET children == DOMAIN depths[entry] \ (visited \cup {entry})
        below == [g \in children |-> getCallDepth_Marked(g, depths, local, visited \cup {entry} \cup children)]
        own == Max({local[entry]} \cup {depths[entry][g] + below[g].depth : g \in children})
    IN [depth |-> own,
        visits |-> {<<entry, own>>} \cup UNION {below[g].visits : g \in children}]

\* getCallDepth: the functions that are visited from entry, with the depth found at each
\* visit.  A function that is being visited is not entered again.
RECURSIVE getCallDepth(_, _, _, _)
getCallDepth(entry, depths, local, visited) ==
    LET children == DOMAIN depths[entry] \ (visited \cup {entry})
        below == [g \in children |-> getCallDepth(g, depths, local, visited \cup {entry})]
        own == Max({local[entry]} \cup {depths[entry][g] + below[g].depth : g \in children})
    IN [depth |-> own,
        visits |-> {<<entry, own>>} \cup UNION {below[g].visits : g \in children}]

EntryPoints(depths, onlyMain) ==
    IF onlyMain THEN DOMAIN depths \cap {<<"main", 1>>}
    ELSE {f \in DOMAIN depths : \A g \in DOMAIN depths \ {f} : f \notin DOMAIN depths[g]}

calculateGlobalCallDepth(depths, local, onlyMain) ==
    LET visits == UNION {getCallDepth(e, depths, local, {}).visits : e \in EntryPoints(depths, onlyMain)}
    IN [f \in DOMAIN depths |-> Max({local[f]} \cup {x[2] : x \in {x \in visits : x[1] = f}})]
=============================================================================
