-------------------------- MODULE MCCGPatchRuntime --------------------------
(* A small instance of CGPatchRuntime for TLC. *)
EXTENDS CGPatchRuntime, TLC

\* Two functions call one address; one of them also calls another address of
\* the same symbol, in a library that is loaded later.
MCNames == {"f", "g"}
MCAddresses == {1, 2}
MCCalls ==
    (0 :> {<<"f", 1>>, <<"g", 2>>}) @@ (1 :> {<<"f", 1>>, <<"g", 1>>, <<"g", 2>>}) @@ (2 :> {<<"g", 2>>})
MCSymbolOf == (1 :> "g") @@ (2 :> "g")
MCStartup == {1}
=============================================================================
