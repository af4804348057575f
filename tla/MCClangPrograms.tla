-------------------------- MODULE MCClangPrograms --------------------------
(***************************************************************************)
(* Short forms for the functions, variables and calls of the programs that *)
(* the collectors are run on.                                              *)
(***************************************************************************)
EXTENDS ClangAst

Define(name, params, body) ==
    [name |-> name, kind |-> "function", type |-> "other", params |-> params, hasBody |-> TRUE,
     inits |-> <<>>, body |-> body, overrides |-> {}, subdtors |-> {}, definition |-> TRUE,
     operator |-> ""]
Declare(name, params) == [Define(name, params, <<>>) EXCEPT !.hasBody = FALSE]
Method(f, kind, overrides) == [f EXCEPT !.kind = kind, !.overrides = overrides]
Pointer(name) == [name |-> name, type |-> "fptr", fields |-> {}]
Plain(name) == [name |-> name, type |-> "other", fields |-> {}]

unitOf(fs, globals, fields) ==
    [functions |-> fs, globals |-> globals, fields |-> fields]

fn(name) == decay(ref(name, "function"))
ptr(name) == ref(name, "fptr")
var(name) == ref(name, "other")
Call(id, f, args) == call(id, fn(f), args, f, "call")
CallPtr(id, e, args) == call(id, e, args, "", "call")
Global(name) == decl(name, "fptr", {}, "", <<>>)
=============================================================================
