--------------------------- MODULE AliasAnalysis ---------------------------
(***************************************************************************)
(* The alias analysis of CGCollector on one translation unit.  The AST is  *)
(* walked once for the objects and for what is to be merged and why        *)
(* (ASTInformationExtractor); calculatePERelation then merges, list by     *)
(* list.  What the walk finds is a set of facts:                           *)
(*   <<"object", o>>                    an object name                     *)
(*   <<"call", id, called, args, f>>    a call through a pointer in f      *)
(*   <<"direct", result, args, f, g>>   a call of g in f                   *)
(*   <<"destructor", f, g>>             a destructor call                  *)
(*   <<"this", o, m>>                   object o is this in method m       *)
(*   <<list, a, b>>                     a and b are to be merged           *)
(***************************************************************************)
EXTENDS EquivClasses, ClangAst, SequencesExt

CONSTANTS
    CaptureCtorsDtors, CaptureStackCtorsDtors  \* options of the collector

\* The lists in the order of calculatePERelation
Lists == <<"direct", "destructor", "member", "param", "override", "init", "assign", "ctor", "this">>

None == Named("none", "")

-----------------------------------------------------------------------------
(* ReferenceVisitor: the objects an expression stands for.  lvl is the     *)
(* dereference level the expression is read at, f the function it is in.   *)

RECURSIVE getReferencedDecls(_, _, _)
getReferencedDecls(e, lvl, f) ==
    CASE e.op = "ref" -> {Obj(<<"decl", e.decl>>, lvl)}
      [] e.op = "this" -> {Obj(<<"this", f>>, lvl)}
      [] e.op \in {"lit", "delete"} -> {}
      [] e.op = "deref" -> getReferencedDecls(e.sub, lvl + 1, f)
      [] e.op = "addr" -> getReferencedDecls(e.sub, lvl - 1, f)
      [] e.op \in {"decay", "bind"} -> getReferencedDecls(e.sub, lvl, f)
      [] e.op = "index" -> getReferencedDecls(e.base, lvl, f)
      [] e.op = "member" ->
           {Shift(MemberOf(Shift(b, IF e.arrow THEN 1 ELSE 0), e.field), lvl) :
              b \in getReferencedDecls(e.base, 0, f)}
      [] e.op = "binop" ->
           getReferencedDecls(e.lhs, lvl, f)
           \cup IF e.opcode = "+=" THEN getReferencedDecls(e.rhs, lvl, f) ELSE {}
      [] e.op = "cond" ->
           getReferencedDecls(e.then, lvl, f) \cup getReferencedDecls(e.else, lvl, f)
      [] e.op = "call" -> {Obj(<<"call", e.id>>, lvl)}
      [] e.op = "construct" -> IF f = "" THEN {} ELSE {Obj(<<"call", e.id>>, lvl)}
      [] e.op = "new" -> {Obj(<<"new", e.id>>, lvl - 1)}
      [] e.op = "temp" -> {Obj(<<"temp", e.id>>, lvl)}
      [] e.op = "initlist" ->
           UNION {getReferencedDecls(e.parts[i][2], lvl, f) : i \in DOMAIN e.parts}

Refs(e, f) == getReferencedDecls(e, 0, f)

RECURSIVE getReferencedInReturnStmts(_, _)
getReferencedInReturnStmts(s, f) ==
    UNION {getReferencedInReturnStmts(Children(s)[i], f) : i \in DOMAIN Children(s)}
    \cup IF s.op = "return" /\ s.value # <<>> THEN Refs(s.value[1], f) ELSE {}

-----------------------------------------------------------------------------
(* ASTInformationExtractor *)

Object(o) == <<"object", o>>
Pairs(list, L, R) == {list} \X L \X R

\* An expression that is an object is collected as it is and as it is read.
AtLevel(base, lvl) == {Object(Obj(base, 0)), Object(Obj(base, lvl))}

DestructorHelper(objects, dtor, f) ==
    IF f = "" \/ dtor = "" THEN {}
    ELSE {<<"destructor", f, dtor>>} \cup {Object(o) : o \in objects}
         \cup Pairs("this", objects, {Decl(dtor)})

\* handleInitExpr: object o is initialised with e.
RECURSIVE handleInitExpr(_, _, _)
handleInitExpr(o, e, f) ==
    IF e.op = "initlist"
    THEN UNION {handleInitExpr(IF e.parts[i][1] = "" THEN o ELSE MemberOf(o, e.parts[i][1]),
                               e.parts[i][2], f) : i \in DOMAIN e.parts}
    ELSE Pairs("init", {o}, Refs(e, f))

\* Of a variable, a member or a new object: constructors are merged apart from the other
\* initialisers.
Initialiser(o, e, f, capture) ==
    IF e.op # "construct" THEN handleInitExpr(o, e, f)
    ELSE IF f # "" /\ capture THEN Pairs("ctor", {o}, Refs(e, f)) ELSE {}

VisitCallExpr(e, lvl, f) ==
    IF f = "" THEN {}
    ELSE LET called == Refs(e.callee, f)
             skip == IF e.kind = "operator" THEN 1 ELSE 0
             args == [i \in 1..(Len(e.args) - skip) |-> Refs(e.args[i + skip], f)]
             implicit ==
               CASE e.kind = "member" ->
                      {Shift(o, IF e.callee.arrow THEN 0 ELSE -1) : o \in Refs(e.callee.base, f)}
                 [] e.kind = "operator" -> {Shift(o, -1) : o \in Refs(e.args[1], f)}
                 [] OTHER -> {}
             method == IF e.kind = "operator" THEN {Decl(e.direct)} ELSE called
         IN AtLevel(<<"call", e.id>>, lvl)
            \cup (IF e.direct = "" THEN {<<"call", e.id, called, args, f>>}
                  ELSE IF Cardinality(called) = 1
                       THEN {<<"direct", Result(e.id), args, f, e.direct>>}
                       ELSE {})
            \cup {Object(o) : o \in implicit \cup (IF e.kind = "member" THEN called ELSE {})}
            \cup Pairs("this", implicit, method)

VisitMemberExpr(e, lvl, f) ==
    LET bases == {Shift(b, IF e.arrow THEN 1 ELSE 0) : b \in Refs(e.base, f)}
        members == {Shift(MemberOf(b, e.field), lvl) : b \in bases}
    IN {Object(m) : m \in members} \cup Pairs("member", members, {Decl(e.field)})
       \cup IF e.arrow THEN {Object(b) : b \in bases} ELSE {}

VisitCXXConstructExpr(e, lvl, f) ==
    IF f = "" THEN {}
    ELSE AtLevel(<<"call", e.id>>, lvl)
         \cup IF ~CaptureStackCtorsDtors THEN {}
              ELSE {Object(Shift(Result(e.id), -1)),
                    <<"direct", None, [i \in DOMAIN e.args |-> Refs(e.args[i], f)], f, e.ctor>>,
                    <<"this", Shift(Result(e.id), -1), Decl(e.ctor)>>}

\* The object that new allocates, and the pointer to it
VisitCXXNewExpr(e, lvl, f) ==
    LET o == Named("new", e.id)
    IN {Object(o), Object(Shift(o, lvl)), Object(Shift(o, lvl - 1))}
       \cup UNION {Initialiser(o, e.init[i], f, CaptureCtorsDtors) : i \in DOMAIN e.init}
       \cup UNION {Pairs("ctor", {o}, Refs(e.place[i], f)) : i \in DOMAIN e.place}

VisitVarDecl(s, f) ==
    {Object(Decl(s.name))} \cup {Object(MemberOf(Decl(s.name), m)) : m \in s.fields}
    \cup UNION {Initialiser(Decl(s.name), s.init[i], f, CaptureStackCtorsDtors) : i \in DOMAIN s.init}
    \cup IF CaptureStackCtorsDtors
         THEN DestructorHelper({Shift(Decl(s.name), -1)}, s.dtor, f) ELSE {}

VisitStmt(e, lvl, f, inNew) ==
    CASE e.op = "ref" -> AtLevel(<<"decl", e.decl>>, lvl)
      [] e.op = "this" -> AtLevel(<<"this", f>>, lvl)
      [] e.op = "member" -> VisitMemberExpr(e, lvl, f)
      [] e.op = "binop" /\ e.opcode \in {"=", "+="} ->
           Pairs("assign", Refs(e.lhs, f), Refs(e.rhs, f))
      [] e.op = "call" -> VisitCallExpr(e, lvl, f)
      [] e.op = "construct" /\ ~(inNew /\ ~CaptureCtorsDtors) -> VisitCXXConstructExpr(e, lvl, f)
      [] e.op = "new" -> VisitCXXNewExpr(e, lvl, f)
      [] e.op = "temp" /\ f # "" ->
           AtLevel(<<"temp", e.id>>, lvl) \cup Pairs("ctor", {Named("temp", e.id)}, Refs(e.sub, f))
      [] e.op \in {"bind", "delete"} /\ CaptureCtorsDtors ->
           DestructorHelper({Shift(o, -1) : o \in Refs(e.sub, f)}, e.dtor, f)
      [] e.op = "decl" -> VisitVarDecl(e, f)
      [] OTHER -> {}

\* The walk: * and & change the level their operand is read at; an index and the right
\* side of an operator are read at level 0; everything else is read at the level of what
\* it is in, arguments of a call included.
LevelOf(e, i, lvl) ==
    CASE e.op = "deref" -> lvl + 1
      [] e.op = "addr" -> lvl - 1
      [] e.op \in {"index", "binop"} /\ i = 2 /\ ~(e.op = "binop" /\ e.opcode = "+=") -> 0
      [] OTHER -> lvl

RECURSIVE TraverseStmt(_, _, _, _)
TraverseStmt(e, lvl, f, inNew) ==
    VisitStmt(e, lvl, f, inNew)
    \cup UNION {TraverseStmt(Children(e)[i], LevelOf(e, i, lvl), f, inNew \/ e.op = "new") :
                  i \in DOMAIN Children(e)}

ParamObjects(f) == [i \in DOMAIN f.params |-> Decl(f.params[i].name)]

ParamsToMerge(f, g) ==
    {<<"param", ParamObjects(f)[i], ParamObjects(g)[i]>> : i \in DOMAIN f.params}

VisitFunctionDecl(unit, f) ==
    IF ~f.definition THEN ParamsToMerge(f, FunctionNamed(unit, f.name))
    ELSE {Object(Decl(f.name)), Object(SymbolicReturn(f.name))}
         \cup (IF f.kind \in Methods THEN {Object(This(f.name))} ELSE {})
         \cup (IF f.kind = "invoker" THEN ParamsToMerge(f, FunctionNamed(unit, f.operator)) ELSE {})
         \cup UNION {ParamsToMerge(f, FunctionNamed(unit, g))
                     \cup {<<"override", This(f.name), This(g)>>,
                           <<"override", SymbolicReturn(f.name), SymbolicReturn(g)>>} :
                       g \in f.overrides}

\* An initialiser of a constructor: [base (a constructor) or "", field, init]
TraverseConstructorInitializer(c, f) ==
    TraverseStmt(c.init, 0, f, FALSE)
    \cup IF c.base = "" THEN Initialiser(Decl(c.field), c.init, f, CaptureStackCtorsDtors)
         ELSE IF CaptureStackCtorsDtors THEN {<<"ctor", This(f), This(c.base)>>} ELSE {}

TraverseFunctionLike(unit, f) ==
    VisitFunctionDecl(unit, f)
    \cup UNION {{Object(o)} \cup {Object(MemberOf(o, m)) : m \in f.params[i].fields} :
                  <<i, o>> \in {<<i, ParamObjects(f)[i]>> : i \in DOMAIN f.params}}
    \cup UNION {TraverseConstructorInitializer(f.inits[i], f.name) : i \in DOMAIN f.inits}
    \cup UNION {TraverseStmt(f.body[i], 0, f.name, FALSE) : i \in DOMAIN f.body}

TraverseUnit(unit) ==
    UNION {TraverseFunctionLike(unit, f) : f \in Functions(unit)}
    \cup UNION {TraverseStmt(unit.globals[i], 0, "", FALSE) : i \in DOMAIN unit.globals}
    \cup {Object(Decl(m)) : m \in unit.fields}

FunctionInfo(unit, f) ==
    LET real == IF f.kind = "invoker" THEN FunctionNamed(unit, f.operator) ELSE f
    IN [names |-> getMangledName(unit, f.name),
        params |-> ParamObjects(f),
        returns |-> UNION {getReferencedInReturnStmts(real.body[i], real.name) : i \in DOMAIN real.body}
                    \cup IF f.kind \in {"ctor", "dtor"} THEN {} ELSE {SymbolicReturn(f.name)}]

-----------------------------------------------------------------------------
(* initEquivClasses, initPrefixClasses *)

ObjectsIn(facts) == {t[2] : t \in {t \in facts : t[1] = "object"}}

initPrefixClasses(objects, o) ==
    {Prefix(s[3], s[2]) : s \in {s \in Steps(objects) : s[1] = o}}

\* A function by its name, or by its address
GetFunctionName(unit, objects) ==
    {o \in objects : o.lvl \in {0, -1} /\ \E f \in Functions(unit) : o.base = <<"decl", f.name>>}

Container(unit, facts) ==
    LET objects == ObjectsIn(facts)
        defined == {f \in Functions(unit) : f.definition}
        calls == {t \in facts : t[1] = "call"}
    IN [classes |-> {[objects |-> {o}, prefixes |-> initPrefixClasses(objects, o)] : o \in objects},
        functionMap |-> [o \in GetFunctionName(unit, objects) |-> o.base[2]],
        functionInfo |-> [n \in {f.name : f \in defined} |-> FunctionInfo(unit, FunctionNamed(unit, n))],
        callInfo |-> [k \in {t[2] : t \in calls} |->
                        LET t == CHOOSE t \in calls : t[2] = k
                        IN [called |-> t[3], args |-> t[4], parent |-> t[5]]]]

\* The facts of a list
ItemsOf(facts, list) == {t \in facts : t[1] = list}

\* What one fact merges
ItemMerges(d, t) ==
    CASE t[1] = "direct" -> CallMerges(d, t[5], t[3], t[2])
      [] t[1] = "destructor" -> {}
      [] t[1] = "this" ->
           {<<This(d.functionMap[m]), t[2]>> :
              m \in {m \in ClassOf(d, t[3]).objects \cap DOMAIN d.functionMap :
                       Found(d, This(d.functionMap[m]))}}
      [] OTHER -> {<<t[2], t[3]>>}

\* The calls that one fact adds to the call graph
ItemEdges(t) ==
    CASE t[1] = "direct" -> {<<t[4], t[5]>>}
      [] t[1] = "destructor" -> {<<t[2], t[3]>>}
      [] OTHER -> {}

-----------------------------------------------------------------------------
(* What the relation is to be, whatever the order of the merges: the least *)
(* one with the pairs of the program that is closed under the steps from   *)
(* object to object, under calls and under calls of methods.  g is         *)
(* [pairs, steps, receivers, alone]: receivers are pairs of an object and  *)
(* the method that is called of it.                                        *)

\* rep maps each object to the one that stands for its class.
Joined(rep, a, b) == [o \in {o \in DOMAIN rep : rep[o] = rep[a]} |-> rep[b]] @@ rep

\* A call is resolved if what it calls and a function are one class; unless alone, not by
\* an object that is in no class with another one.
Required(d, rep, g) ==
    LET Shared(o) == g.alone \/ \E x \in DOMAIN rep \ {o} : rep[x] = rep[o]
        called == {c \in (DOMAIN d.functionMap) \X (DOMAIN d.callInfo) :
                     Shared(c[1]) /\ \E o \in d.callInfo[c[2]].called : rep[o] = rep[c[1]]}
        stepped == {s \in g.steps \X g.steps : s[1][2] = s[2][2] /\ rep[s[1][1]] = rep[s[2][1]]}
        methods == {c \in (DOMAIN d.functionMap) \X g.receivers :
                      rep[c[1]] = rep[c[2][2]] /\ This(d.functionMap[c[1]]) \in DOMAIN rep}
    IN g.pairs \cup {<<s[1][3], s[2][3]>> : s \in stepped}
       \cup {<<This(d.functionMap[c[1]]), c[2][1]>> : c \in methods}
       \cup UNION {ResolveMerges(d, c[1], c[2]) : c \in called}

RECURSIVE Closure(_, _, _)
Closure(d, rep, g) ==
    LET open == {p \in Required(d, rep, g) : rep[p[1]] # rep[p[2]]}
    IN IF open = {} THEN {{o \in DOMAIN rep : rep[o] = r} : r \in {rep[o] : o \in DOMAIN rep}}
       ELSE LET p == CHOOSE p \in open : TRUE
            IN Closure(d, Joined(rep, p[1], p[2]), g)

LeastRelation(d, g) == Closure(d, [o \in ObjectsOf(d) |-> o], g)
=============================================================================
