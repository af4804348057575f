-------------------------- MODULE CallGraphBuilder --------------------------
(***************************************************************************)
(* The classic construction of the call graph of a translation unit        *)
(* (CallGraph and its CGBuilder): each function body is walked once.  A    *)
(* call gives an edge to the function that is named; function pointers are *)
(* followed through assignments, arguments and returns as far as they lie  *)
(* in the same function or in the functions it calls                       *)
(* (FunctionPointerTracer).  A call of a parameter that nothing is known   *)
(* of is unresolved, until a later function passes something for it.       *)
(*                                                                         *)
(* A symbol is <<is it a function, its name>>.  Edges to variables, which  *)
(* the output leaves out, are left out.                                    *)
(***************************************************************************)
EXTENDS ClangAst, SequencesExt, FiniteSetsExt

FnsIn(symbols) == {s[2] : s \in {s \in symbols : s[1]}}
VarsIn(symbols) == {s[2] : s \in {s \in symbols : ~s[1]}}
FnSymbols(functions) == {TRUE} \X functions

Of(f, x) == IF x \in DOMAIN f THEN f[x] ELSE {}
Add(f, x, S) == (x :> (Of(f, x) \cup S)) @@ f

-----------------------------------------------------------------------------
(* DeclRefRetriever: the functions and variables an expression refers to,  *)
(* with what they stand directly in.                                       *)

RECURSIVE DeclRefs(_, _)
DeclRefs(e, up) ==
    CASE e.op = "ref" -> {[decl |-> e.decl, type |-> e.type, up |-> up]}
      [] e.op = "decay" -> DeclRefs(e.sub, up)
      [] OTHER ->
           UNION {DeclRefs(Children(e)[i], IF e.op = "member" /\ e.arrow THEN "other" ELSE e.op) :
                    i \in DOMAIN Children(e)}

\* The symbols that may stand for a function and stand in one of keep
Symbols(e, relevant, keep) ==
    {<<r.type = "function", r.decl>> : r \in
       {r \in DeclRefs(e, "other") :
          /\ r.type \in {"function", "fptr"} \/ r.up = "member" \/ r.decl \in relevant
          /\ r.up \in keep}}

AnyPlace == {"other", "call", "addr", "deref", "index", "member", "binop", "cond", "construct",
             "new", "temp", "bind", "delete", "initlist"}

\* The functions that a variable may point to, through other variables.
RECURSIVE ReachedVars(_, _, _)
ReachedVars(aliases, todo, done) ==
    IF todo = {} THEN done
    ELSE ReachedVars(aliases,
                     UNION {VarsIn(Of(aliases, v)) : v \in todo} \ (done \cup todo), done \cup todo)

FindTargetParams(aliases, v) ==
    UNION {FnsIn(Of(aliases, w)) : w \in ReachedVars(aliases, {v}, {})}

HasBody(unit, name) == FunctionNamed(unit, name).hasBody

\* VisitBinaryOperator of both visitors: what the right side refers to may be reached from
\* what the left side refers to.
Assigned(s, e) ==
    LET L == VarsIn(Symbols(e.lhs, s.relevant, AnyPlace))
        R == Symbols(e.rhs, s.relevant, AnyPlace)
    IN IF e.opcode \notin {"=", "+="} \/ R = {} THEN s
       ELSE [s EXCEPT !.aliases = FoldSet(LAMBDA v, a : Add(a, v, R), @, L),
                      !.relevant = @ \cup L]

\* The static invoker of a lambda is no node.
includeInGraph(unit, functions) ==
    {f \in functions : FunctionNamed(unit, f).kind # "invoker"}

\* addCalledDecl of both visitors: the first function that is added for a call is the one
\* it is said to call.
addCalledDecl(c, b, caller, functions, id) ==
    LET fs == includeInGraph(c.unit, functions)
    IN [b EXCEPT !.edges = @ \cup ({caller} \X fs),
                 !.called = IF id = "" \/ fs = {} \/ id \in DOMAIN @ THEN @
                            ELSE (id :> (CHOOSE f \in fs : TRUE)) @@ @]

-----------------------------------------------------------------------------
(* FunctionPointerTracer: t is [aliases, relevant, returns, edges, called, *)
(* closed]; c is the function it is in, and the call that is traced with   *)
(* the function it calls.                                                  *)

Tracer(known, closed) ==
    [aliases |-> known.aliases, relevant |-> {}, returns |-> {}, edges |-> known.edges,
     called |-> known.called, closed |-> closed]

\* What a tracer added to the graph stays.
KeepGraph(t, inner) == [t EXCEPT !.edges = inner.edges, !.called = inner.called]

\* getReferencedDeclOfCallee of an argument
RECURSIVE ReferencedDecl(_)
ReferencedDecl(e) ==
    CASE e.op \in {"decay", "deref", "addr"} -> ReferencedDecl(e.sub)
      [] e.op = "ref" -> {<<e.type = "function", e.decl>>}
      [] e.op = "member" -> {<<FALSE, e.field>>}
      [] OTHER -> {}

Passed(g, args) == 1..(IF Len(args) < Len(g.params) THEN Len(args) ELSE Len(g.params))

TracedArguments(aliases, g, args) ==
    FoldSet(LAMBDA i, a : Add(a, g.params[i].name, ReferencedDecl(args[i])), aliases, Passed(g, args))

\* The variable an argument is, or is the address of
ArgumentVar(arg) ==
    LET e == IF arg.op = "addr" THEN arg.sub ELSE arg
    IN IF e.op = "ref" /\ e.type # "function" THEN {e.decl} ELSE {}

\* The variable that the result of a call is assigned to
AssignedVar(up) ==
    CASE up.op = "decl" -> {up.name}
      [] up.op = "binop" /\ up.lhs.op = "ref" -> {up.lhs.decl}
      [] up.op = "binop" /\ up.lhs.op = "deref" ->
           (IF up.lhs.sub.op = "ref" THEN {up.lhs.sub.decl} ELSE {})
      [] OTHER -> {}

RECURSIVE Trace(_, _, _, _)

\* The tracer of call e after the body of g, which e calls
TraceBody(unit, t, g, e) ==
    LET i == CHOOSE i \in DOMAIN unit.functions :
               unit.functions[i].name = g /\ unit.functions[i].definition
        c == [unit |-> unit, at |-> i, outer |-> g, traced |-> e.id]
    IN FoldLeft(LAMBDA acc, s : Trace(c, acc, s, [op |-> "body"]),
                Tracer(t, t.closed \cup {e.id}), unit.functions[i].body)

\* What is known after call e of g was traced: passed is what was known before the body,
\* inner the tracer of the body.  A variable that is passed may be what its parameter is
\* in the end; the variable that is assigned may be what g returns.
Traced(t, g, e, up, passed, inner) ==
    LET Written(a, i) ==
          FoldSet(LAMBDA v, b : Add(b, v, FnSymbols(FindTargetParams(inner.aliases, g.params[i].name))),
                  a, ArgumentVar(e.args[i]))
    IN [KeepGraph(t, inner) EXCEPT
          !.aliases = FoldSet(LAMBDA v, a : Add(a, v, FnSymbols(inner.returns)),
                              FoldSet(LAMBDA i, a : Written(a, i), passed, Passed(g, e.args)),
                              AssignedVar(up))]

TraceCall(c, t, g, e, up, passed) ==
    Traced(t, g, e, up, passed, TraceBody(c.unit, [t EXCEPT !.aliases = passed], e.direct, e))

PassedTo(c, t, e) == TracedArguments(t.aliases, Callee(c.unit, c.at, e.direct), e.args)

RecursiveLookUpCallExpr(c, t, e, up) ==
    CASE e.id \in t.closed -> t
      [] e.id \notin t.closed /\ e.direct # "" ->
           IF ~HasBody(c.unit, e.direct) THEN t
           ELSE TraceCall(c, t, Callee(c.unit, c.at, e.direct), e, up, PassedTo(c, t, e))
      [] OTHER ->
           IF e.callee.op # "ref" THEN t
           ELSE addCalledDecl(c, t, c.outer, FindTargetParams(t.aliases, e.callee.decl), c.traced)

\* VisitReturnStmt, without the walk below it: what is returned right here, what a call
\* that is returned returns, and what the variables may be.
ReturnSymbols(t, symbols) ==
    [t EXCEPT !.returns = @ \cup FnsIn(symbols) \cup UNION {FnsIn(Of(t.aliases, w)) : w \in VarsIn(symbols)}]

ReturnCall(t, passed, inner) ==
    [KeepGraph(t, inner) EXCEPT !.aliases = passed, !.returns = @ \cup inner.returns]

ReturnOfCall(c, t, v, passed) ==
    IF v.op = "call" /\ v.direct # "" /\ HasBody(c.unit, v.direct)
    THEN ReturnCall(t, passed, TraceBody(c.unit, [t EXCEPT !.aliases = passed], v.direct, v))
    ELSE t

ReturnVars(t, vars) ==
    [t EXCEPT !.returns = @ \cup UNION {FindTargetParams(t.aliases, w) : w \in vars}]

TraceReturn(c, t, v) ==
    LET symbols == Symbols(v, t.relevant, AnyPlace \ {"call"})
    IN ReturnVars(ReturnOfCall(c, ReturnSymbols(t, symbols), v, PassedTo(c, t, v)), VarsIn(symbols))

\* A call that is returned while it is being traced is not looked at again.
ReturnsClosed(t, e) ==
    e.op = "return" /\ e.value # <<>> /\ e.value[1].op = "call" /\ e.value[1].id \in t.closed

TraceDecl(c, t, e) ==
    CASE e.init # <<>> /\ e.init[1].op = "call" -> RecursiveLookUpCallExpr(c, t, e.init[1], e)
      [] e.init # <<>> /\ e.init[1].op \in {"decay", "ref"} ->
           [t EXCEPT !.aliases = Add(@, e.name, ReferencedDecl(e.init[1]))]
      [] OTHER -> t

TraceNode(c, t, e, up) ==
    CASE e.op = "call" -> RecursiveLookUpCallExpr(c, t, e, up)
      [] e.op = "binop" -> Assigned(t, e)
      [] e.op = "decl" -> TraceDecl(c, t, e)
      [] e.op = "return" /\ e.value # <<>> -> TraceReturn(c, t, e.value[1])
      [] OTHER -> t

Trace(c, t, e, up) ==
    IF ReturnsClosed(t, e) THEN t
    ELSE FoldLeft(LAMBDA acc, s : Trace(c, acc, s, e), TraceNode(c, t, e, up), Children(e))

-----------------------------------------------------------------------------
(* CGBuilder: b is [aliases, relevant, targets (functionPointerTargets),   *)
(* unresolved, edges, called (CalledDecls)]; c is the function it walks,   *)
(* with the options.                                                       *)

\* Each parameter may be what its argument refers to.  The body of what is called is
\* traced; without one, it is taken to call the functions it gets.  A variable whose
\* address is passed may be what its parameter may be.
PassSymbols(b, g, args) ==
    [b EXCEPT !.aliases = FoldSet(LAMBDA i, a :
                            Add(a, g.params[i].name, Symbols(args[i], b.relevant, AnyPlace)),
                          @, Passed(g, args))]

AddressesPassed(b, g, e, t) ==
    LET written(i) == VarsIn(Symbols(e.args[i], b.relevant, {"addr"}))
    IN [KeepGraph(b, t) EXCEPT
          !.targets = FoldSet(LAMBDA i, a : Add(a, CHOOSE w \in written(i) : TRUE,
                                                FindTargetParams(t.aliases, g.params[i].name)),
                              @, {i \in Passed(g, e.args) : written(i) # {}})]

TracedCall(c, b, e) ==
    LET t == Tracer(b, {})
    IN IF HasBody(c.unit, e.direct) THEN TraceBody(c.unit, t, e.direct, e) ELSE t

PassFunctions(c, b, g, e) ==
    IF HasBody(c.unit, e.direct) THEN AddressesPassed(b, g, e, TracedCall(c, b, e))
    ELSE addCalledDecl(c, b, e.direct,
           UNION {FnsIn(Symbols(e.args[i], b.relevant, AnyPlace)) : i \in DOMAIN e.args}, e.id)

handleFunctionPointerInArguments(c, b, e) ==
    LET g == Callee(c.unit, c.at, e.direct)
    IN PassFunctions(c, PassSymbols(b, g, e.args), g, e)

\* What a call returns is called at once, or bound to the variable that is declared.
BindReturn(c, b, e, up, t) ==
    CASE up.op = "call" -> addCalledDecl(c, KeepGraph(b, t), c.caller, t.returns, e.id)
      [] up.op = "decl" -> [KeepGraph(b, t) EXCEPT !.targets = Add(@, up.name, t.returns)]
      [] OTHER -> KeepGraph(b, t)

handleFunctionPointerAsReturn(c, b, e, up) ==
    IF FunctionNamed(c.unit, e.direct).type = "fptr"
    THEN BindReturn(c, b, e, up, TracedCall(c, b, e)) ELSE b

\* What is now known of the unresolved symbols of the function that is called
resolveSymbols(c, b, e) ==
    IF e.direct \notin DOMAIN b.unresolved THEN b
    ELSE addCalledDecl(c,
           [b EXCEPT !.unresolved = [f \in DOMAIN @ \ {e.direct} |-> @[f]]],
           e.direct, UNION {FindTargetParams(b.aliases, v) : v \in b.unresolved[e.direct]}, e.id)

\* What the expression that is called refers to.  The targets of a variable are those of
\* its first call.
calledSymbols(c, b, e) ==
    LET symbols == Symbols(e.callee, b.relevant, AnyPlace)
        vars == VarsIn(symbols)
        open == {v \in vars : Of(b.aliases, v) = {}}
        targets == b.targets @@ [v \in vars |-> FnsIn(Of(b.aliases, v))]
    IN addCalledDecl(c,
         [b EXCEPT !.targets = targets,
                   !.unresolved = IF open = {} THEN @ ELSE Add(@, c.caller, open)],
         c.caller, FnsIn(symbols) \cup UNION {targets[v] : v \in vars}, e.id)

handleCallExprLike(c, b, e, up) ==
    IF e.direct = "" THEN calledSymbols(c, b, e)
    ELSE calledSymbols(c,
           resolveSymbols(c,
             handleFunctionPointerAsReturn(c,
               handleFunctionPointerInArguments(c, addCalledDecl(c, b, c.caller, {e.direct}, e.id), e),
               e, up), e), e)

VisitDeclStmt(c, b, e) ==
    LET init == IF e.init = <<>> THEN {} ELSE {e.init[1]}
        functions == UNION {FnSymbols(FnsIn(ReferencedDecl(i))) : i \in {i \in init : i.op = "decay"}}
        aliased == IF functions = {} THEN b ELSE [b EXCEPT !.aliases = Add(@, e.name, functions)]
    IN IF c.options.capture /\ c.options.infer /\ e.dtor # ""
       THEN addCalledDecl(c, aliased, c.caller, {e.dtor}, "") ELSE aliased

VisitNode(c, b, e, up) ==
    CASE e.op = "call" -> handleCallExprLike(c, b, e, up)
      [] e.op = "binop" -> Assigned(b, e)
      [] e.op = "decl" -> VisitDeclStmt(c, b, e)
      [] e.op = "construct" -> addCalledDecl(c, b, c.caller, {e.ctor}, "")
      [] e.op \in {"delete", "bind"} /\ e.dtor # "" /\ c.options.capture ->
           addCalledDecl(c, b, c.caller, {e.dtor}, "")
      [] OTHER -> b

\* Constructors and destructors are calls only if they are captured; if not, nothing in
\* them is looked at.
RECURSIVE Visit(_, _, _, _)
Visit(c, b, e, up) ==
    IF e.op \in {"construct", "delete"} /\ ~c.options.capture THEN b
    ELSE FoldLeft(LAMBDA acc, s : Visit(c, acc, s, e), VisitNode(c, b, e, up), Children(e))

-----------------------------------------------------------------------------
(* CallGraph: g is [nodes, edges, called, unresolved].                     *)

EmptyGraph == [nodes |-> {}, edges |-> {}, called |-> <<>>, unresolved |-> <<>>]

\* The builder that walked the body of function f
Walked(c, g, f) ==
    FoldLeft(LAMBDA acc, s : Visit(c, acc, s, [op |-> "body"]),
             [aliases |-> <<>>, relevant |-> {}, targets |-> <<>>,
              unresolved |-> g.unresolved, edges |-> g.edges, called |-> g.called],
             [k \in DOMAIN f.inits |-> f.inits[k].init] \o f.body)

\* addNodeForDecl.  What is unresolved in a function is noted once, and never forgotten.
AddWalked(g, b) ==
    [g EXCEPT !.edges = b.edges, !.called = b.called, !.unresolved = @ @@ b.unresolved]

addNodeForDecl(unit, i, options, g) ==
    LET name == unit.functions[i].name
        c == [unit |-> unit, at |-> i, caller |-> name, options |-> options]
        known == [g EXCEPT !.nodes = @ \cup {name}]
    IN IF HasBody(unit, name) THEN AddWalked(known, Walked(c, g, FunctionNamed(unit, name))) ELSE known

VisitCXXDestructorDecl(f, options, g) ==
    IF f.kind # "dtor" \/ ~options.capture THEN g
    ELSE [g EXCEPT !.nodes = @ \cup {f.name},
                   !.edges = IF options.infer THEN @ \cup ({f.name} \X f.subdtors) ELSE @]

IsVirtual(f) == f.kind = "virtual" \/ f.overrides # {}

VisitCXXMethodDecl(f, g) ==
    IF IsVirtual(f) THEN [g EXCEPT !.nodes = @ \cup {f.name} \cup f.overrides] ELSE g

VisitFunction(unit, i, options, g) ==
    LET f == unit.functions[i]
    IN IF f.kind = "invoker" THEN g
       ELSE VisitCXXMethodDecl(f, VisitCXXDestructorDecl(f, options,
              IF (f.definition /\ f.hasBody) \/ options.unused
              THEN addNodeForDecl(unit, i, options, g) ELSE g))

\* getOrInsertNode of both ends of an edge
WithEdgeNodes(g) == [g EXCEPT !.nodes = @ \cup UNION {{x[1], x[2]} : x \in g.edges}]

\* The graph of a unit: the functions are visited in the order they are declared.
TraverseDecl(unit, options) ==
    WithEdgeNodes(FoldLeftDomain(LAMBDA acc, i : VisitFunction(unit, i, options, acc),
                                 EmptyGraph, unit.functions))
=============================================================================
