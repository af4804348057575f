---------------------------- MODULE MCMCGFormat -----------------------------
(* Small instances of MCGFormat for TLC. *)
EXTENDS MCGFormat

MCSourceNames == {<<"f">>, <<"main">>}
MCNames == MCSourceNames \cup {Append(f, k) : f \in MCSourceNames, k \in 0 .. MaxSize - 1}
MCMainNames == <<<<"main">>>>
MCOrigins == {NoOrigin, "a.cpp"}

\* A graph of the functions in ns, whose first node has the origin o.
InsertAll(ns, o) ==
    FoldLeft(LAMBDA g, i : insert(g, ns[i], [origin |-> IF i = 1 THEN o ELSE NoOrigin,
                                             hasBody |-> i = 1, isVirtual |-> i = 2]),
             EmptyGraph, [i \in DOMAIN ns |-> i])

Build(ns, o, es) ==
    FoldLeft(LAMBDA g, e : addEdge(g, e[1], e[2]), InsertAll(ns, o), SetToSeq(es))

TwoNames == [1 .. 2 -> MCSourceNames]

FilesOf(b) == [NoFiles EXCEPT ![0] = b]

\* Calls, with and without origins and file properties.
MCCalls ==
    {[cg |-> Build(ns, o, es), files |-> FilesOf(b)] :
        ns \in TwoNames, o \in MCOrigins, b \in FileProperties,
        es \in {{}, {<<0, 1>>}, {<<1, 0>>, <<1, 1>>}}}

\* Override relations, also to an erased node, and entry functions.
MCMetadata ==
    {[cg |-> setEntryFunction([Build(ns, NoOrigin, {<<0, 1>>}) EXCEPT !.nodes[1].override = md], entry),
      files |-> NoFiles] :
        ns \in TwoNames, entry \in {Null, NoId, 0, 1},
        md \in {Null, [overrides |-> {0}, overriddenBy |-> {}], [overrides |-> {1}, overriddenBy |-> {0}]}}

MCErased == {[in EXCEPT !.cg = erase(in.cg, 0), !.files = NoFiles] : in \in MCMetadata}

\* Metadata at edges, filed by a client or by a reader or a merge.
MCEdgeMd ==
    {[cg |-> addEdgeMetaData(addEdgeMetaData(Build(ns, NoOrigin, {<<0, 1>>}), <<0, 1>>, k1, typed),
                             <<0, 1>>, k2, TRUE),
      files |-> NoFiles] :
        ns \in TwoNames, k1 \in MdKinds, k2 \in MdKinds, typed \in BOOLEAN}

MCInputs == MCCalls \cup MCMetadata \cup MCErased \cup MCEdgeMd
=============================================================================
