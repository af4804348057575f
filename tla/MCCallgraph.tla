----------------------------- MODULE MCCallgraph -----------------------------
(* Small instances of CallgraphClient for TLC. *)
EXTENDS CallgraphClient

\* One of the names getMain knows and another one.
MCTwoNames == {"main", "foo"}
MCMainOnly == <<"main">>

MCOrigins == {"a.cpp"}
MCAttrs == [origin : MCOrigins, hasBody : {TRUE}, isVirtual : {TRUE}]
=============================================================================
