---------------------------- MODULE MCMCGManager ----------------------------
(* Small instances of MCGManager for TLC. *)
EXTENDS MCGManager, TLC

MCFunctions == {"main", "f"}
MCOrigins == {"a.cpp", "b.cpp", "c.cpp"}

decl(o) == [hasBody |-> FALSE, origin |-> o]
def(o) == [hasBody |-> TRUE, origin |-> o]

\* Three translation units: each declares or defines f and main.
MCContents ==
    {[funs |-> ("main" :> def("a.cpp")) @@ ("f" :> decl("a.cpp")), calls |-> {<<"main", "f">>}],
     [funs |-> ("f" :> def("b.cpp")), calls |-> {<<"f", "f">>}],
     [funs |-> ("f" :> def("c.cpp")) @@ ("main" :> decl("c.cpp")), calls |-> {<<"f", "main">>}]}
MCTwoContents == {g \in MCContents : "main" \in DOMAIN g.funs}

Symmetry == Permutations(Addresses) \cup Permutations(GraphNames)
=============================================================================
