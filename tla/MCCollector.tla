---------------------------- MODULE MCCollector ----------------------------
(***************************************************************************)
(* Programs of two translation units, after the tests of CGCollector with  *)
(* several units (the numbers are those of the tests).                     *)
(***************************************************************************)
EXTENDS Collector, MCClangPrograms

Collected(units) ==
    [units |-> units, aa |-> TRUE, classic |-> TRUE, infer |-> TRUE, unused |-> FALSE, version |-> 2]

\* 0214: a global function pointer is set in one unit and called in the other.
GlobalPointer ==
    Collected(<<
      unitOf(<<Declare("call_foo", <<>>), Define("foo", <<>>, <<>>),
               Define("main", <<>>, <<expr(assign(ptr("g_foo"), fn("foo"))),
                                      expr(Call("c1", "call_foo", <<>>))>>)>>,
             <<Global("g_foo")>>, {}),
      unitOf(<<Define("call_foo", <<>>, <<expr(CallPtr("c2", ptr("g_foo"), <<>>))>>)>>,
             <<Global("g_foo")>>, {})>>)

\* 0240: the parameter of run has another name where it is defined; what pick returns is
\* called.
OtherParameterNames ==
    Collected(<<
      unitOf(<<Declare("run", <<Pointer("x")>>), Define("foo", <<>>, <<>>),
               Define("main", <<>>, <<expr(Call("c1", "run", <<fn("foo")>>))>>)>>, <<>>, {}),
      unitOf(<<[Define("pick", <<Pointer("p")>>, <<return(<<ptr("p")>>)>>) EXCEPT !.type = "fptr"],
               Define("run", <<Pointer("y")>>,
                      <<decl("h", "fptr", {}, "", <<Call("c2", "pick", <<ptr("y")>>)>>),
                        expr(CallPtr("c3", ptr("h"), <<>>))>>)>>, <<>>, {})>>)

\* The same, with the classic construction only: where run is declared it is taken to call foo.
Callback == [OtherParameterNames EXCEPT !.aa = FALSE]

\* 0241: a function pointer is set by a method that overrides another one, in one unit, and
\* called in the other.
VirtualMember ==
    LET foo(body) == Method(Define("Base::foo", <<>>, body), "virtual", {})
        set(e) == <<expr(assign(member(this, "f", TRUE), e))>>
        ctor(name, inits) == [Method(Define(name, <<>>, <<>>), "ctor", {}) EXCEPT !.inits = inits]
        make(id, k, class) == new(id, <<construct(k, class, <<>>)>>, <<>>)
    IN Collected(<<
         unitOf(<<Declare("f1", <<>>), foo(set(lit)),
                  Method(Define("Child::foo", <<>>, set(fn("f1"))), "virtual", {"Base::foo"}),
                  ctor("Base", <<>>),
                  ctor("Child", <<[base |-> "Base", field |-> "", init |-> construct("k0", "Base", <<>>)]>>),
                  Declare("calc", <<Plain("arg")>>),
                  Define("main", <<>>, <<decl("b", "other", {}, "", <<make("n1", "k1", "Base")>>),
                                         expr(assign(var("b"), make("n2", "k2", "Child"))),
                                         expr(Call("c1", "calc", <<var("b")>>))>>)>>, <<>>, {"f"}),
         unitOf(<<[foo(<<>>) EXCEPT !.hasBody = FALSE],
                  Define("calc", <<Plain("arg")>>,
                         <<expr(call("c2", member(var("arg"), "Base::foo", TRUE), <<>>, "Base::foo", "member")),
                           expr(CallPtr("c3", member(var("arg"), "f", TRUE), <<>>))>>)>>, <<>>, {"f"})>>)

\* A local object with a destructor; what is called is one of two functions, which is
\* only seen by CGMerge.
StackObject ==
    Collected(<<
      unitOf(<<[Method(Define("S", <<Pointer("s")>>, <<>>), "ctor", {}) EXCEPT
                  !.inits = <<[base |-> "", field |-> "f", init |-> ptr("s")]>>],
               Method(Define("~S", <<>>, <<expr(CallPtr("c1", member(this, "f", TRUE), <<>>))>>), "dtor", {}),
               Define("foo", <<>>, <<>>), Define("bar", <<Pointer("q")>>, <<expr(CallPtr("c3", ptr("q"), <<>>))>>),
               Define("main", <<>>,
                      <<decl("o", "other", {"f"}, "~S", <<construct("k1", "S", <<fn("foo")>>)>>),
                        expr(CallPtr("c2", cond(lit, fn("bar"), fn("foo")), <<fn("foo")>>))>>)>>, <<>>, {"f"}),
      unitOf(<<Define("foo", <<>>, <<>>)>>, <<>>, {})>>)

\* Without the classic construction a function whose only call is of an unknown pointer is
\* no node; nothing else calls it here.
NoClassic ==
    [GlobalPointer EXCEPT
       !.classic = FALSE,
       !.units[1].functions =
          <<Define("foo", <<>>, <<>>),
            Define("main", <<>>, <<expr(assign(ptr("g_foo"), fn("foo"))), expr(Call("c1", "foo", <<>>))>>)>>]

\* What *g(&x) reads is no object that is collected.
DereferencedResult ==
    Collected(<<
      unitOf(<<[Define("g", <<Plain("p")>>, <<return(<<var("p")>>)>>) EXCEPT !.type = "other"],
               Define("main", <<>>, <<decl("x", "other", {}, "", <<>>),
                                      expr(deref(Call("c1", "g", <<addr(var("x"))>>)))>>)>>, <<>>, {})>>)

\* 0050, in the file format 1: a hierarchy that two units extend
Hierarchy ==
    LET foo(class, overridden) == Method(Define(class, <<>>, <<expr(lit)>>), "virtual", overridden)
        header == <<foo("Base", {}), foo("Derive", {"Base"})>>
    IN [Collected(<<unitOf(Append(header, foo("DeriveTwo", {"Base"})), <<>>, {}),
                    unitOf(Append(header, foo("DeriveDerive", {"Derive"})), <<>>, {})>>)
          EXCEPT !.version = 1, !.aa = FALSE]

\* Loops and calls in them, without the alias analysis; helper is an inline function of
\* both units, even and odd call each other, nothing calls unused.
Loops ==
    LET While(b) == loop("while", <<>>, <<lit>>, block(b))
        Do(b) == loop("do", <<>>, <<lit>>, block(b))
        For(b) == loop("for", <<expr(lit)>>, <<lit>>, block(b))
        helper == Define("helper", <<>>,
                    <<switch(lit, block(<<case(<<expr(lit)>>), default(<<expr(lit)>>)>>)),
                      try(block(<<For(<<For(<<expr(lit)>>)>>)>>), <<block(<<expr(lit)>>)>>)>>)
    IN [Collected(<<
          unitOf(<<Declare("work", <<>>), Declare("odd", <<>>), helper,
                   Define("main", <<>>, <<For(<<expr(Call("c1", "work", <<>>))>>),
                                          if(Call("c2", "helper", <<>>), expr(Call("c3", "odd", <<>>)), <<>>)>>)>>,
                 <<>>, {}),
          unitOf(<<helper, [Declare("even", <<>>) EXCEPT !.definition = FALSE],
                   Define("odd", <<>>, <<While(<<expr(Call("c4", "even", <<>>))>>)>>),
                   Define("even", <<>>, <<Do(<<expr(Call("c5", "odd", <<>>))>>), expr(Call("c6", "helper", <<>>))>>),
                   Define("work", <<>>, <<While(<<Do(<<expr(Call("c7", "even", <<>>))>>),
                                                  expr(Call("c8", "helper", <<>>))>>)>>),
                   Define("unused", <<>>, <<For(<<expr(Call("c9", "work", <<>>))>>)>>)>>, <<>>, {})>>)
          EXCEPT !.aa = FALSE]

MCPrograms ==
    {GlobalPointer, OtherParameterNames, Callback, VirtualMember, StackObject, NoClassic,
     DereferencedResult, Hierarchy, Loops}
=============================================================================
