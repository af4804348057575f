-------------------------- MODULE MCCallgraphMerge --------------------------
(* Small instances of CallgraphMerge for TLC. *)
EXTENDS CallgraphMerge

MCNames == {"main", "foo"}
MCMainNames == <<"main">>
MCOrigins == {"a.cpp", "b.cpp"}

\* A graph that a client built: one insert per element of ns, then addEdge.
InsertAll(ns, bodies, origin) ==
    FoldLeft(LAMBDA g, i : insert(g, ns[i], [origin |-> origin, hasBody |-> bodies[i],
                                             isVirtual |-> FALSE]),
             EmptyGraph, [i \in DOMAIN ns |-> i])

Build(ns, bodies, origin, es) ==
    FoldLeft(LAMBDA g, e : addEdge(g, e[1], e[2]),
             InsertAll(ns, bodies, origin), SetToSeq(es))

\* Up to two functions, of one name or of two, with and without bodies, and
\* up to maxEdges calls, self-calls included.
Plain(origin, maxEdges) ==
    UNION {{Build(ns, bodies, origin, es) :
              ns \in [1 .. n -> MCNames], bodies \in [1 .. n -> BOOLEAN],
              es \in {E \in SUBSET ((0 .. n - 1) \X (0 .. n - 1)) : Cardinality(E) <= maxEdges}}
            : n \in 0 .. 2}

MCPlainSources == Plain("b.cpp", 2)
\* Some of the targets have lost their first node to erase.
MCPlainTargets ==
    LET P == Plain("a.cpp", 1) IN P \cup {erase(g, 0) : g \in {h \in P : h.size = 2}}

\* Graphs with metadata: override relations, an entry function, a cached main
\* node.  Every id is one of the two nodes.
SetMd(g, mds, entry) ==
    setEntryFunction([g EXCEPT !.nodes = [i \in Ids |->
                        IF i \in DOMAIN mds THEN [g.nodes[i] EXCEPT !.override = mds[i]]
                        ELSE g.nodes[i]]], entry)

OverrideMDs == {Null, [overrides |-> {0}, overriddenBy |-> {}],
                [overrides |-> {1}, overriddenBy |-> {}],
                [overrides |-> {0}, overriddenBy |-> {1}]}

MCMdSources ==
    {SetMd(Build(ns, <<TRUE, FALSE>>, "b.cpp", {}), mds, entry) :
        ns \in [1 .. 2 -> MCNames], mds \in [{0, 1} -> OverrideMDs], entry \in {Null, NoId, 0, 1}}

\* Some of the targets have lost the node their metadata names to erase.
MCMdTargets ==
    {erase(SetMd(Build(ns, <<FALSE, FALSE>>, "a.cpp", {}), [i \in {1} |-> md], Null), 0) :
        ns \in [1 .. 2 -> MCNames], md \in OverrideMDs}
      \cup
    UNION {{cacheMain(SetMd(Build(ns, [i \in 1 .. n |-> FALSE], "a.cpp", {}), mds, entry), FALSE) :
              ns \in [1 .. n -> MCNames],
              mds \in [{0} -> {Null, [overrides |-> {0}, overriddenBy |-> {}]}],
              entry \in {Null, NoId, 0}}
            : n \in {1, 2}}

\* Graphs with edge metadata, attached by a client (typed) or by the reader.
WithEdgeMd(g, mds) ==
    FoldLeft(LAMBDA h, m : addEdgeMetaData(h, m[1], m[2], m[3]), g, SetToSeq(mds))

EdgeMdGraphs(names, es, maxMds) ==
    UNION {{WithEdgeMd(Build(ns, <<FALSE, FALSE>>, "b.cpp", E), mds) :
              mds \in {D \in SUBSET (E \X MdKinds \X BOOLEAN) : Cardinality(D) <= maxMds}}
            : ns \in names, E \in SUBSET es}

DistinctNames == {ns \in [1 .. 2 -> MCNames] : ns[1] # ns[2]}
MCEdgeMdGraphs == EdgeMdGraphs(DistinctNames, {<<0, 1>>, <<1, 1>>}, 2)

\* Plain graphs, graphs with metadata of nodes and graphs, and graphs with
\* metadata of edges.
MCInputs ==
    (MCPlainSources \X MCPlainTargets) \cup (MCMdSources \X MCMdTargets)
      \cup (MCEdgeMdGraphs \X MCEdgeMdGraphs)
=============================================================================
