---------------------------- MODULE MCCollector2 ----------------------------
(***************************************************************************)
(* Programs of one to three translation units for CGCollector2, after its  *)
(* tests, with the options that matter for them.                           *)
(***************************************************************************)
EXTENDS Collector2, MCClangPrograms

Collected(units, level, options) ==
    [units |-> units, options |-> options, level |-> level, version |-> 2,
     implicits |-> {}, allocators |-> {}, templates |-> {},
     signature |-> <<>>, prototype |-> <<>>, byValue |-> <<>>]

int_void == {"int", "void"}
void_int == {"void", "int", "double"}

Pointers ==
    LET Types(p) == [p EXCEPT
          !.signature = ("main" :> {"int"} @@ "foo" :> int_void @@ "bar" :> int_void
                         @@ "lib" :> {"void", "int (*)(void)"} @@ "qsort" :> void_int @@ "hook" :> int_void),
          !.prototype = ("g" :> int_void @@ "cb" :> int_void @@ "c3" :> void_int @@ "p" :> int_void)]
        main == Define("main", <<>>,
                  <<expr(assign(ptr("g"), fn("foo"))), expr(Call("c0", "lib", <<fn("bar")>>)),
                    expr(CallPtr("c1", deref(ptr("g")), <<>>)),
                    expr(CallPtr("c3", cond(lit, fn("qsort"), fn("qsort")), <<>>))>>)
        one == unitOf(<<Declare("foo", <<>>), Declare("lib", <<Pointer("cb")>>), Declare("qsort", <<>>),
                        Declare("hook", <<>>), Define("bar", <<>>, <<>>), main>>, <<Global("g")>>, {})
        two == unitOf(<<Define("foo", <<>>, <<expr(CallPtr("c2", ptr("g"), <<>>))>>),
                        Declare("hook", <<>>), Define("lib", <<Pointer("p")>>, <<>>)>>, <<Global("g")>>, {})
        twice == unitOf(<<Define("foo", <<>>, <<expr(CallPtr("c2", ptr("g"), <<>>)),
                                                expr(CallPtr("c4", ptr("g"), <<>>))>>)>>, <<Global("g")>>, {})
    IN {Types(Collected(<<one, two>>, "All", o)) : o \in SUBSET {"prune", "OverrideMD"}}
       \cup {Types(Collected(<<one>>, "All", {"whole-program"} \cup o)) : o \in SUBSET {"prune"}}
       \cup {Types(Collected(<<two, one>>, "No", o)) : o \in SUBSET {"OverrideMD", "prune"}}
       \cup {Types(Collected(<<twice>>, "No", {})),
             [Types(Collected(<<two>>, "All", {"prune"})) EXCEPT !.version = 4]}

\* A hierarchy that two units extend.  Base::run is pure in them; the first calls it, the
\* second does not, so that pruning takes it there; the third defines it.
Hierarchy ==
    LET V(name, overridden, body) == Method(Define(name, <<>>, body), "virtual", overridden)
        Pure(name) == [V(name, {}, <<>>) EXCEPT !.hasBody = FALSE]
        calls == Define("main", <<>>, <<expr(call("c1", member(var("b"), "Base::run", TRUE), <<>>, "Base::run", "member"))>>)
        one == <<Pure("Base::run"), V("Derived::run", {"Base::run"}, <<expr(lit)>>), calls>>
        two == <<Pure("Base::run"), V("Derived::run", {"Base::run"}, <<expr(lit)>>),
                 V("Last::run", {"Derived::run"}, <<expr(lit), expr(lit)>>)>>
        three == <<[V("Base::run", {}, <<expr(Call("c2", "main", <<>>))>>) EXCEPT !.hasBody = TRUE],
                   Declare("main", <<>>)>>
        units == <<unitOf(one, <<>>, {}), unitOf(two, <<>>, {}), unitOf(three, <<>>, {})>>
    IN {Collected(units, "All", {"OverrideMD"} \cup o) : o \in SUBSET {"prune"}}
       \cup {Collected(<<units[1], units[3]>>, "All", {"OverrideMD", "prune"}),
             [Collected(units, "All", {"OverrideMD"}) EXCEPT !.version = 4]}

\* Objects with constructors and destructors; the destructor of P is generated.
Objects ==
    LET C(name, kind, body) == Method(Define(name, <<>>, body), kind, {})
        dtor == [C("~S", "dtor", <<expr(delete(var("m"), "~P"))>>) EXCEPT !.subdtors = {"~P"}]
        ctor == [C("S", "ctor", <<>>) EXCEPT
                   !.inits = <<[base |-> "", field |-> "m",
                                init |-> new("n1", <<construct("k1", "P", <<>>)>>, <<>>)]>>]
        body == <<decl("o", "other", {}, "~S", <<construct("k2", "S", <<>>)>>),
                  expr(Call("c1", "operator new", <<>>)), expr(Call("c2", "take", <<bind(construct("k3", "P", <<>>), "~P")>>)),
                  expr(Call("c3", "max<S>", <<>>))>>
        header == <<C("P", "ctor", <<>>), C("~P", "dtor", <<>>)>>
        one == unitOf(header \o <<dtor, ctor, Declare("operator new", <<>>), Declare("take", <<Plain("x")>>),
                        Define("max<S>", <<>>, <<expr(Call("c4", "take", <<>>))>>),
                        Define("main", <<>>, body)>>, <<>>, {})
        two(globals) == unitOf(header \o <<Define("take", <<Plain("x")>>, <<return(<<lit>>)>>)>>, globals, {})
        temporary == decl("s", "other", {}, "~P", <<bind(construct("k4", "P", <<>>), "~P")>>)
        Program(globals, options) ==
            [Collected(<<one, two(globals)>>, "All", options) EXCEPT
               !.implicits = {"~P"}, !.allocators = {"operator new"}, !.templates = {"max<S>"},
               !.byValue = ("take" :> {"~P"})]
    IN {Program(<<>>, o) : o \in SUBSET {"capture-ctors-dtors", "capture-new-delete-calls", "capture-implicits",
                                         "infer-ctors-dtors", "prune"}}
       \cup {Program(<<temporary>>, o) : o \in SUBSET {"infer-ctors-dtors"}}

\* Inline functions of several units with loops and branches, declared in another one
Inline ==
    LET body == <<decl("i", "other", {}, "", <<lit>>),
                  loop("while", <<>>, <<lit>>, block(<<if(lit, expr(assign(var("g"), var("i"))), <<>>)>>)),
                  switch(lit, block(<<case(<<expr(lit)>>), default(<<expr(lit)>>)>>))>>
        helper == Define("helper", <<Plain("x")>>, body)
        globals == <<decl("g", "other", {}, "", <<>>)>>
        one == unitOf(<<Declare("helper", <<Plain("x")>>), Define("main", <<>>, <<expr(Call("c1", "helper", <<lit>>))>>)>>,
                      globals, {})
        two == unitOf(<<helper, Define("f", <<>>, <<expr(Call("c2", "helper", <<lit>>))>>)>>, globals, {})
        three == unitOf(<<helper, [Declare("helper", <<Plain("y")>>) EXCEPT !.definition = FALSE],
                          Define("h", <<>>, <<expr(Call("c3", "helper", <<lit>>))>>)>>, globals, {})
    IN {Collected(units, "All", o) : units \in {<<one, two, three>>, <<three, two, one>>}, o \in SUBSET {"prune"}}

MCPrograms == Pointers \cup Hierarchy \cup Objects \cup Inline
=============================================================================
