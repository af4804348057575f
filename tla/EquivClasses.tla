---------------------------- MODULE EquivClasses ----------------------------
(***************************************************************************)
(* The equivalence classes of the alias analysis (EquivClassContainer).    *)
(* A class holds objects that may be the same memory location, and         *)
(* prefixes: what is reached from its objects by * or by a member.  Two    *)
(* classes are merged together with what their prefixes lead to, and a     *)
(* class that holds a function and an object that is called resolves the   *)
(* call.                                                                   *)
(*                                                                         *)
(* d is a container: [classes, functionMap (function objects to            *)
(* functions), functionInfo (functions to [names, params, returns]),       *)
(* callInfo (calls to [called, args, parent]; CallExprParentMap is the     *)
(* parent)].                                                               *)
(* FindMap and ReferencedInCalls are computed from it.                     *)
(***************************************************************************)
EXTENDS Integers, Sequences, FiniteSets, Functions

\* An object: a name (of a declaration, a call, ...) that is dereferenced lvl times, or
\* whose address is taken if lvl is -1.
Obj(base, lvl) == [base |-> base, lvl |-> lvl]
Named(kind, name) == Obj(<<kind, name>>, 0)
Decl(name) == Named("decl", name)
This(function) == Named("this", function)
SymbolicReturn(function) == Named("sreturn", function)
MemberOf(object, member) == Obj(<<"member", object, member>>, 0)
Shift(object, n) == [object EXCEPT !.lvl = @ + n]

\* The member of a prefix that is reached by *.
Star == ""

Prefix(object, member) == [object |-> object, member |-> member]

EmptyContainer ==
    [classes |-> {}, functionMap |-> <<>>, functionInfo |-> <<>>, callInfo |-> <<>>]

-----------------------------------------------------------------------------
ObjectsOf(d) == UNION {e.objects : e \in d.classes}

Found(d, o) == o \in ObjectsOf(d)

ClassOf(d, o) == CHOOSE e \in d.classes : o \in e.objects

Same(d, a, b) == \E e \in d.classes : a \in e.objects /\ b \in e.objects

\* The calls that call object o
ReferencedInCalls(d, o) == {k \in DOMAIN d.callInfo : o \in d.callInfo[k].called}

\* Prefixes that lead to other objects than one with the same member are not added, what
\* they lead to is to be merged.
ObjectsToMerge(into, prefixes) ==
    {<<p.object, q.object>> : <<p, q>> \in
        {<<p, q>> \in prefixes \X into : p.member = q.member /\ p.object # q.object}}

\* MUTANT: both prefixes are kept.
GetPrefixesToMerge_Both(into, prefixes) == into \cup prefixes

GetPrefixesToMerge(into, prefixes) ==
    into \cup {p \in prefixes : \A q \in into : p.member # q.member \/ p.object = q.object}

\* merge: the container after the classes of a and b became one
Merged(d, a, b) ==
    LET E1 == ClassOf(d, a)
        E2 == ClassOf(d, b)
        E == [objects |-> E1.objects \cup E2.objects,
              prefixes |-> GetPrefixesToMerge(E1.prefixes, E2.prefixes)]
    IN [d EXCEPT !.classes = (@ \ {E1, E2}) \cup {E}]

\* MUTANT: only what is reached by * is merged along.
Cascade_Star(d, a, b) ==
    LET Stars(o) == {p \in ClassOf(d, o).prefixes : p.member = Star}
    IN ObjectsToMerge(Stars(a), Stars(b))

Cascade(d, a, b) == ObjectsToMerge(ClassOf(d, a).prefixes, ClassOf(d, b).prefixes)

\* The function objects of class e with the calls that may call them
GetFunctionsToMerge(d, e) ==
    (e.objects \cap DOMAIN d.functionMap) \X UNION {ReferencedInCalls(d, o) : o \in e.objects}

\* mergeFunctionCallImpl: each argument is passed to its parameter, and what the function
\* returns is the result of the call.  Missing (variadic) arguments are skipped.
CallMerges(d, function, args, result) ==
    LET info == d.functionInfo[function]
    IN UNION {{info.params[i]} \X args[i] : i \in DOMAIN info.params \cap DOMAIN args}
       \cup ({result} \X info.returns)

Result(call) == Named("call", call)

\* mergeFunctionCall: f is a function object
ResolveMerges(d, f, call) ==
    CallMerges(d, d.functionMap[f], d.callInfo[call].args, Result(call))

ResolvedEdge(d, f, call) == <<d.callInfo[call].parent, d.functionMap[f]>>

-----------------------------------------------------------------------------
(* What the classes are to be *)

IsPartition(classes) ==
    \A e1, e2 \in classes : e1.objects # {} /\ (e1 # e2 => e1.objects \cap e2.objects = {})

\* The steps between objects: by * to the object that is dereferenced once more, and from
\* an object to each of its members.
Steps(objects) ==
    {<<Shift(o, -1), Star, o>> : o \in {o \in objects : Shift(o, -1) \in objects}}
    \cup {<<o.base[2], o.base[3], o>> :
            o \in {o \in objects : o.lvl = 0 /\ Len(o.base) = 3 /\ o.base[2] \in objects}}
=============================================================================
